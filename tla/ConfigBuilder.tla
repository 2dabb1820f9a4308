---------------------------- MODULE ConfigBuilder -----------------------------
(***************************************************************************)
(* What the config builder (pkg/appgw) makes of the stores, one part of    *)
(* the Application Gateway configuration at a time.  Build reads the       *)
(* stores anew for every part, so each operator takes the store of the     *)
(* moment.  A part is a function from service keys to what the part holds  *)
(* for that backend, None when it holds nothing:                           *)
(*   probes    the probe, taken from any pod the service selects;          *)
(*   settings  the backend port of the HTTP settings;                      *)
(*   pools     the addresses in the backend's own pool;                    *)
(*   rules     whether the routing rules refer to that pool (and not to    *)
(*             the default pool).                                          *)
(* Where the code ranges over a Go map and the order shows in the result,  *)
(* the operators give the set of possible results.                         *)
(***************************************************************************)
EXTENDS K8sContext

CONSTANT Ports      \* port numbers

HTTPPort == 80

ASSUME PortsAssumption == HTTPPort \in Ports /\ None \notin Ports

\* The ingresses the configuration is built from: PruneIngress keeps those
\* whose annotations the gateway can serve.
PruneIngress(s) ==
    [i \in IngressKeys |-> IF i \in ListHTTPIngresses(s) /\ s[i].spec.kept
                           THEN s[i].spec ELSE Absent]

\* newBackendIdsFiltered: a backend lives in the namespace of its ingress.
\* Backends of services that do not exist are not filtered out.
RuleBackends(ingresses) ==
    {b \in ServiceKeys : \E i \in IngressKeys :
        /\ ingresses[i] # Absent
        /\ i[2] = b[2]
        /\ \E r \in DOMAIN ingresses[i].rules : b[3] \in ingresses[i].rules[r].paths}

DefaultBackends(ingresses) ==
    {b \in ServiceKeys : \E i \in IngressKeys :
        ingresses[i] # Absent /\ i[2] = b[2] /\ ingresses[i].backend = b[3]}

\* The default backends of ingresses without rules.
RulelessBackends(ingresses) ==
    {b \in ServiceKeys : \E i \in IngressKeys :
        /\ ingresses[i] # Absent
        /\ ingresses[i].rules = << >>
        /\ i[2] = b[2] /\ ingresses[i].backend = b[3]}

Backends(ingresses) == RuleBackends(ingresses) \cup DefaultBackends(ingresses)

\* A target port given by name is looked up in the endpoints of the service.
resolvePortName(s, b) ==
    IF s[EndpointsOf(b)] = Absent THEN {} ELSE s[EndpointsOf(b)].ports

\* The backend ports of a backend; a service that is gone counts as one that
\* maps the port of the ingress to itself.
BackendPorts(s, b) ==
    IF s[b] = Absent \/ s[b].port = "number" THEN {HTTPPort}
    ELSE IF s[b].port = "name" THEN resolvePortName(s, b) ELSE {}

-----------------------------------------------------------------------------
\* generateHealthProbe: the first pod listed provides the probe, and a store
\* lists its objects in no particular order.
generateHealthProbe(s, b) ==
    IF s[b] = Absent THEN {"default"}
    ELSE IF BackendPorts(s, b) = {} \/ ListPodsByServiceSelector(s, b) = {} THEN {"plain"}
    ELSE {s[p].probe : p \in ListPodsByServiceSelector(s, b)}

ProbesOf(ingresses, s, b) ==
    IF b \in RuleBackends(ingresses) THEN generateHealthProbe(s, b) ELSE {None}

Unresolved(ingresses, s) == {b \in Backends(ingresses) : BackendPorts(s, b) = {}}

Ambiguous(ingresses, s) ==
    {b \in Backends(ingresses) : \E p, q \in BackendPorts(s, b) : p # q}

\* getBackendsAndSettingsMap leaves its loop over the map of backends at the
\* first one it cannot resolve: any of the others may then be missing.
SettingsOf(ingresses, s, b) ==
    (IF b \in Backends(ingresses) \ Ambiguous(ingresses, s) THEN BackendPorts(s, b) ELSE {})
    \cup (IF b \notin Backends(ingresses) \/ Unresolved(ingresses, s) # {} THEN {None} ELSE {})

\* getBackendAddressPool: no pool without endpoints that offer the port.
PoolOf(port, s, b) ==
    IF port # None /\ s[EndpointsOf(b)] # Absent /\ port \in s[EndpointsOf(b)].ports
    THEN s[EndpointsOf(b)].addrs ELSE None

\* newBackendPoolMap looks the endpoints up a second time.  noRulesIngress does
\* not look: it refers to the pool if the backend has settings, and if no other
\* ingress takes the default listener from it.
RulesOf(c, s, b) ==
    {PoolOf(c.settings[b], s, b) # None}
    \cup (IF b \in RulelessBackends(c.ingresses) /\ c.settings[b] # None THEN {TRUE} ELSE {})

-----------------------------------------------------------------------------
(* A configuration is [ingresses, probes, settings, pools, rules]. *)

ProbeValues == {None, "default", "plain"} \cup UNION {{o.probe : o \in Objects[p]} : p \in PodKeys}

PoolValues ==
    {None} \cup UNION {{e.addrs : e \in Objects[EndpointsOf(b)]} : b \in ServiceKeys}

NoParts == [b \in ServiceKeys |-> None]

\* A rule refers to a pool that is not in the configuration.
Dangling(c) == \E b \in ServiceKeys : c.rules[b] = TRUE /\ c.pools[b] = None

ProbesFrom(c, s) == \A b \in ServiceKeys : c.probes[b] \in ProbesOf(c.ingresses, s, b)
SettingsFrom(c, s) == \A b \in ServiceKeys : c.settings[b] \in SettingsOf(c.ingresses, s, b)
PoolsFrom(c, s) == \A b \in ServiceKeys : c.pools[b] = PoolOf(c.settings[b], s, b)
RulesFrom(c, s) == \A b \in ServiceKeys : c.rules[b] \in RulesOf(c, s, b)

\* The configuration is one that Build makes of this store, read at one go.
BuiltFrom(c, s) ==
    /\ c.ingresses = PruneIngress(s)
    /\ ProbesFrom(c, s)
    /\ SettingsFrom(c, s)
    /\ PoolsFrom(c, s)
    /\ RulesFrom(c, s)
=============================================================================
