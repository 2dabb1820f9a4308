------------------------------ MODULE MCGateway -------------------------------
(***************************************************************************)
(* The clusters and gateways on which Gateway is checked.                  *)
(***************************************************************************)
EXTENDS Gateway, Sanitize

Foo == <<"", "foo", "*">>
FooDeep == <<"", "foo", "a">>
Bar == <<"", "bar">>
Root == <<"", "">>

Path(path, service) == [path |-> path, service |-> service]
Rule(host, paths) == [host |-> host, http |-> TRUE, paths |-> paths]
Ingress(name, rules) ==
    [name |-> name, rules |-> rules, backend |-> None, tls |-> << >>, redirect |-> FALSE,
     private |-> FALSE, extended |-> << >>, waf |-> None]
TLS(secret) == <<[secret |-> secret, hosts |-> {}]>>

NoMesh == [servers |-> {}, virtualServices |-> {}]
Greenfield ==
    [brownfield |-> FALSE, istio |-> FALSE, hasPrivateIP |-> TRUE, waf |-> TRUE,
     owner |-> EmptyConfig, edit |-> EmptyConfig, order |-> <<"a", "b">>,
     secretSets |-> {{}}, targetSets |-> {{}}, meshes |-> {NoMesh}, documents |-> {},
     serviceStates |-> [s \in {"s", "t"} |-> {"full"}]]

-----------------------------------------------------------------------------
(* AGIC owns the gateway. *)

\* Two ingresses for one host, with and without TLS and redirects, and services
\* that come and go.
A1 == Ingress("a", <<Rule("h", <<Path(Foo, "s"), Path(Root, "s")>>)>>)
A2 == [A1 EXCEPT !.tls = TLS("c"), !.redirect = TRUE, !.waf = "w"]
B1 == Ingress("b", <<Rule("h", <<Path(Root, "t"), Path(Bar, "t")>>)>>)
B2 == [B1 EXCEPT !.tls = TLS("c")]
B3 == [B1 EXCEPT !.redirect = TRUE]
SharedHost ==
    [Greenfield EXCEPT !.secretSets = {{}, {"c"}},
        !.serviceStates = [s |-> {"full", "empty", "unresolved"}, t |-> {"full", "absent", "several"}]]
    @@ [catalog |-> [a |-> {A1, A2}, b |-> {B1, B2, B3}]]

\* Default backends, ingresses without rules or without a host, private IPs,
\* several host names, and rules that are not for HTTP.
A3 == [Ingress("a", << >>) EXCEPT !.backend = "s"]
A4 == [Ingress("a", <<Rule("", <<Path(Foo, "s"), Path(Bar, "t")>>), [host |-> "k", http |-> FALSE, paths |-> << >>]>>)
        EXCEPT !.backend = "s"]
A5 == [A1 EXCEPT !.private = TRUE]
B4 == [Ingress("b", <<Rule("h", <<Path(Bar, "t")>>)>>) EXCEPT !.extended = <<"k">>]
B5 == [Ingress("b", <<[host |-> "h", http |-> FALSE, paths |-> << >>]>>) EXCEPT !.backend = "t"]
Shapes ==
    [Greenfield EXCEPT !.serviceStates = [s |-> {"full", "empty"}, t |-> {"full"}]]
    @@ [catalog |-> [a |-> {A3, A4, A5}, b |-> {B1, B4, B5}]]

-----------------------------------------------------------------------------
(* With Istio *)

Mesh(virtualServices) ==
    [servers |-> {[port |-> 80, http |-> TRUE, hosts |-> {"h", "k"}],
                  [port |-> 443, http |-> FALSE, hosts |-> {"h"}]},
     virtualServices |-> virtualServices]
V1 == [name |-> "s", hosts |-> <<"h">>,
       routes |-> <<[services |-> <<"s">>, matches |-> <<Foo, Bar>>]>>]
V2 == [name |-> "v", hosts |-> <<"k", "h">>,
       routes |-> <<[services |-> <<"t", "s">>, matches |-> <<Foo>>]>>]
V3 == [V1 EXCEPT !.hosts = <<"other">>]
Istio ==
    [Greenfield EXCEPT !.istio = TRUE,
        !.meshes = {NoMesh, Mesh({V1}), Mesh({V1, V2}), Mesh({V3})},
        !.serviceStates = [s |-> {"full", "empty", "unresolved"}, t |-> {"full", "several"}]]
    @@ [catalog |-> [a |-> {A1, A4}, b |-> {B4}]]

-----------------------------------------------------------------------------
(* On the gateway of somebody else *)

Own(x) == <<"own", x>>
Listener(host) == [port |-> Own("p"), private |-> FALSE, host |-> host, hosts |-> None,
                   https |-> FALSE, cert |-> None, waf |-> None]
PathRule(name, path, pool) == [name |-> Own(name), path |-> path, pool |-> Own(pool),
                               settings |-> Own("s"), redirect |-> None, waf |-> None]
OwnerRules(host, more) ==
    [EmptyConfig EXCEPT
        !.probes = {Own("pb")}, !.settings = Own("s") :> Own("pb"),
        !.pools = {Own("pool1"), Own("pool2")}, !.certs = {Own("c")}, !.ports = Own("p") :> 80,
        !.listeners = (Own("l") :> Listener(host)) @@ more,
        !.pathMaps = Own("m") :> [pool |-> Own("pool1"), settings |-> Own("s"), redirect |-> None,
                                  rules |-> <<PathRule("pr", Foo, "pool2")>>],
        !.rules = Own("r") :> [listener |-> Own("l"), pathMap |-> Own("m"),
                               pool |-> None, settings |-> None, redirect |-> None]]
OwnerEdit ==
    [EmptyConfig EXCEPT
        !.settings = Own("s3") :> Own("pb"), !.probes = {Own("pb")}, !.pools = {Own("pool3")},
        !.ports = Own("p") :> 80, !.listeners = Own("l3") :> Listener("k"),
        !.rules = Own("r3") :> [listener |-> Own("l3"), pathMap |-> None,
                                pool |-> Own("pool3"), settings |-> Own("s3"), redirect |-> None]]

WholeHost(h) == [host |-> h, paths |-> {}]
OnePath(h) == [host |-> h, paths |-> {Foo}]
Everything == [host |-> "", paths |-> {<<"", "*">>}]

A6 == Ingress("a", <<Rule("h", <<Path(FooDeep, "s"), Path(Bar, "s")>>)>>)
A7 == Ingress("a", <<Rule("h", <<Path(Bar, "s")>>)>>)
B6 == Ingress("b", <<Rule("k", <<Path(Root, "t")>>)>>)
SharedGateway ==
    [Greenfield EXCEPT !.brownfield = TRUE,
        !.owner = OwnerRules("h", << >>), !.edit = OwnerEdit,
        !.targetSets = {{}, {WholeHost("h")}, {OnePath("h")}, {WholeHost("h"), WholeHost("k")}}]
    @@ [catalog |-> [a |-> {A1, A6, A7}, b |-> {B6}]]

\* The owner serves everything without a host name, and prohibits all of it.
ProhibitedGateway ==
    [SharedGateway EXCEPT !.owner = OwnerRules(None, << >>), !.edit = EmptyConfig,
        !.targetSets = {{Everything}, {Everything, WholeHost("k")}, {WholeHost("k")}}]

\* The owner redirects part of a host to a listener, which the targets may leave out.
RedirectingGateway ==
    LET redirected == [PathRule("pr", Foo, "pool2") EXCEPT !.pool = None, !.settings = None, !.redirect = Own("rd")]
    IN  [SharedGateway EXCEPT
            !.owner = [OwnerRules("h", Own("l2") :> Listener("k")) EXCEPT
                !.redirects = Own("rd") :> Own("l2"),
                !.pathMaps = [@ EXCEPT ![Own("m")].rules = <<redirected>>]],
            !.edit = EmptyConfig,
            !.targetSets = {{WholeHost("h")}, {OnePath("h")}, {WholeHost("h"), WholeHost("k")}},
            !.catalog = [a |-> {A7}, b |-> {B6}]]

\* The owner serves a path without a host name; there is an ingress without rules,
\* and one for the same listener.
B7 == Ingress("b", <<Rule("", <<Path(Bar, "t")>>), Rule("k", <<Path(Bar, "t")>>)>>)
HostlessGateway ==
    [SharedGateway EXCEPT
        !.owner = OwnerRules(None, Own("l3") :> Listener("k")), !.edit = OwnerEdit,
        !.targetSets = {{}, {OnePath("")}, {WholeHost("k")}},
        !.catalog = [a |-> {A3}, b |-> {B7}]]

\* What the theorems about prohibited hosts and panics ask is true of all these.
ASSUME SetupsAreApart == MapsAreUsed /\ TargetsArePlain /\ OwnersAreApart

-----------------------------------------------------------------------------
(* JSON documents: an object with an etag and properties, which are a value, *)
(* an object or a list of values and objects.                                *)

Leaves == {[leaf |-> "1"], [leaf |-> "2"]}
MapsOver(keys, values) == {[map |-> f] : f \in UNION {[some -> values] : some \in SUBSET keys}}
Objects == MapsOver({<<"etag", "etag">>, <<"etag", "ETag">>, <<"id", "id">>}, Leaves)
Lists == {[slice |-> s] : s \in BoundedSeq({[leaf |-> "1"]} \cup Objects, 2)}
SmallDocuments ==
    MapsOver({<<"tags", "tags">>, <<"properties", "properties">>}, {[leaf |-> "1"]} \cup Objects)
    \cup MapsOver({<<"properties", "properties">>}, Lists)
    \cup MapsOver({<<"properties", "properties">>}, MapsOver({<<"id", "id">>, <<"tags", "tags">>}, Objects))

\* A gateway without ingresses.
Rendered ==
    [Greenfield EXCEPT !.documents = SmallDocuments] @@ [catalog |-> [a |-> {}, b |-> {}]]

\* The comparison with the cache ignores what is under a key "etag" or "tags",
\* in any spelling and at any depth, and nothing else: two configurations that
\* differ anywhere else are never taken for the same.
SanitizedIsContent ==
    \A d \in env.documents :
        Entries(deleteKeyFromJSON(d, keysToDeleteForCache)) = Without(d, keysToDeleteForCache)

-----------------------------------------------------------------------------
AllSetups ==
    [sharedHost |-> SharedHost, shapes |-> Shapes, istio |-> Istio,
     sharedGateway |-> SharedGateway, prohibitedGateway |-> ProhibitedGateway,
     redirectingGateway |-> RedirectingGateway, hostlessGateway |-> HostlessGateway,
     rendered |-> Rendered]
ProhibitedSetups == [prohibitedGateway |-> ProhibitedGateway]
=============================================================================
