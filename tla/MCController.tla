----------------------------- MODULE MCController -----------------------------
(* Small clusters for Controller.                                           *)
EXTENDS Controller

\* Specs of ingresses.
Rule(paths) == [http |-> TRUE, paths |-> paths]
NilRule == [http |-> FALSE, paths |-> {}]
IngressSpec(rules, backend) == [class |-> TRUE, rules |-> rules, backend |-> backend, kept |-> TRUE]
Web == IngressSpec(<<Rule({"web"})>>, None)
WebOrPruned == {Web, [Web EXCEPT !.kept = FALSE]}
Foreigner == [Web EXCEPT !.class = FALSE]
WebAfterNil == IngressSpec(<<NilRule, Rule({"web"})>>, None)

\* Services that find their backend port by number or by name.
ByNumber == [selector |-> {"app"}, port |-> "number"]
ByName == [selector |-> {"app"}, port |-> "name"]

Addresses(ports, n) == [ports |-> ports, addrs |-> n]

\* The objects that users store, given for each kind.
PerKind(specs, services, endpoints, pods) ==
    [k \in Keys |-> CASE k[1] = "ingress" -> specs
                      [] k[1] = "service" -> services
                      [] k[1] = "endpoints" -> endpoints
                      [] OTHER -> pods]

Labelled == [p \in PodKeys |-> {"app"}]
InOrder == [i \in IngressKeys |-> IF i[3] = "web" THEN 1 ELSE 2]
NoNamespaces == {}

\* The cluster with ingress spec i, its address, service s, endpoints e and pod p.
Holding(i, ip, s, e, p) ==
    [k \in Keys |-> CASE k[1] = "ingress" -> [spec |-> i, ip |-> ip]
                      [] k[1] = "service" -> s
                      [] k[1] = "endpoints" -> e
                      [] OTHER -> p]

Ready == [probe |-> "ready"]

\* One ingress, whose service finds its port by name or by number.
OneSite == PerKind({Web, Foreigner}, {ByName, ByNumber},
                   {Addresses({80}, 1), Addresses({80, 81}, 2)}, {Ready})
OneSiteClusters == {Holding(Web, None, ByName, Addresses({80}, 1), Absent)}
FirstIngress == {<<"ingress", "ns", "web">>}

\* An ingress in which a rule without an HTTP section comes first.
NilRules == PerKind({Web, WebAfterNil}, {ByNumber}, {Addresses({80}, 1), Addresses({80}, 2)}, {})
NilRulesClusters == {Holding(Web, GatewayIP, ByNumber, Addresses({80}, 1), Absent)}

\* An ingress and its service, without endpoints: either may be deleted, and the
\* ingress may lose its annotation.
TwoObjects == PerKind({Web, Foreigner}, {ByNumber}, {}, {})
TwoObjectsClusters == {Holding(Web, GatewayIP, ByNumber, Absent, Absent)}

\* Ingresses "web" and "shop" with services of the same names; "shop" sends
\* to both.  The pods carry the labels of both services.
Shop == IngressSpec(<<Rule({"shop"}), Rule({"web"})>>, None)
TwoSites ==
    [k \in Keys |-> CASE k[1] = "ingress" -> IF k[3] = "web" THEN WebOrPruned ELSE {Shop}
                      [] k[1] = "service" -> {ByName}
                      [] k[1] = "endpoints" -> {Addresses({80}, 1), Addresses({80, 81}, 2)}
                      [] OTHER -> {[probe |-> k[3]]}]
TwoSitesClusters ==
    {[k \in Keys |-> CASE k[1] = "ingress" -> [spec |-> IF k[3] = "web" THEN Web ELSE Shop,
                                              ip |-> GatewayIP]
                       [] k[1] = "service" -> ByName
                       [] k[1] = "endpoints" -> IF k[3] = "web" THEN Addresses({80}, 1) ELSE Absent
                       [] OTHER -> Absent]}
=============================================================================
