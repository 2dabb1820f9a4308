---------------------------- MODULE AppGwResources ----------------------------
(***************************************************************************)
(* The resources of an Application Gateway configuration, the names the    *)
(* config builder gives to those it makes, and the identifiers by which it *)
(* looks listeners up (pkg/appgw: internaltypes.go, identifier.go).        *)
(*                                                                         *)
(* A configuration is a record of parts.  A part maps names to contents,   *)
(* or is a set of names where nothing refers to more than the name:        *)
(*   probes, pools, certs   sets of names                                  *)
(*   settings    name -> the name of the probe                             *)
(*   ports       name -> port number                                       *)
(*   listeners   name -> [port, private, host, hosts, https, cert, waf]    *)
(*   redirects   name -> the name of the target listener                   *)
(*   pathMaps    name -> [pool, settings, redirect, rules], the defaults   *)
(*               and a sequence of path rules                              *)
(*               [name, path, pool, settings, redirect, waf]               *)
(*   rules       name -> [listener, pathMap, pool, settings, redirect]     *)
(*   doubled     the listeners that occur twice in the list                *)
(* A generated name is a tuple: the prefix, and what the code prints or    *)
(* hashes into the name.  A URL path is the sequence of its chunks, so     *)
(* that "/foo/*" is <<"", "foo", "*">> and the empty path is <<"">>.       *)
(***************************************************************************)
EXTENDS Naturals, Sequences, FiniteSetsExt

CONSTANT None       \* "no value": a nil pointer or an empty string

MaxAllowedHostnames == 5

\* setHostNames: the first host names, and no more than the gateway allows.
ListenerID(port, private, hosts) ==
    LET kept == SubSeq(hosts, 1, Min({Len(hosts), MaxAllowedHostnames}))
    IN  [port |-> port, private |-> private,
         host |-> IF kept = << >> THEN "" ELSE kept[1], hosts |-> kept]

defaultFrontendListenerIdentifier == ListenerID(80, FALSE, << >>)

generateListenerName(id) == <<"fl", id>>
generateURLPathMapName(id) == <<"url", id>>
generateRequestRoutingRuleName(id) == <<"rr", id>>
generateSSLRedirectConfigurationName(id) == <<"sslr", id>>
generateFrontendPortName(port) == <<"fp", port>>
generatePathRuleName(ingress, suffix) == <<"pr", ingress, suffix>>
generateAddressPoolName(service) == <<"pool", service>>
generateHTTPSettingsName(service, ingress) == <<"bp", service, ingress>>
generateProbeName(service, ingress) == <<"pb", service, ingress>>
secretFullName(secret) == <<"cert", secret>>

DefaultBackendAddressPoolName == <<"defaultaddresspool">>
DefaultBackendHTTPSettingsName == <<"defaulthttpsetting">>
defaultProbeName(protocol) == <<"defaultprobe", protocol>>

\* The paths that stand for the default of a path map.
DefaultPaths == {<<"">>, <<"", "*">>, <<"", "">>}

EmptyConfig ==
    [probes |-> {}, settings |-> << >>, pools |-> {}, certs |-> {}, ports |-> << >>,
     listeners |-> << >>, redirects |-> << >>, pathMaps |-> << >>, rules |-> << >>,
     doubled |-> {}]

\* A function, and another one where the first has no value; a function with one
\* argument.  (The proof system has no definition of @@ and :> of module TLC.)
f ++ g == [x \in DOMAIN f \cup DOMAIN g |-> IF x \in DOMAIN f THEN f[x] ELSE g[x]]
Only(x, v) == [y \in {x} |-> v]

IsSeq(s) == s \in Seq(Range(s))

\* The elements of a sequence that are in a set, in their order.
Listed(s, T) ==
    LET upTo[n \in 0..Len(s)] ==
            IF n = 0 THEN << >>
            ELSE IF s[n] \in T THEN Append(upTo[n - 1], s[n]) ELSE upTo[n - 1]
    IN  upTo[Len(s)]

\* The sequences of a sequence, one after the other; the sequences that have each
\* element of a set once.  (SequencesExt has both.  It brings in Bags, which every
\* obligation of a proof would carry.)
Joined(seqs) ==
    LET upTo[n \in 0..Len(seqs)] == IF n = 0 THEN << >> ELSE upTo[n - 1] \o seqs[n]
    IN  upTo[Len(seqs)]
Orders(S) == Injection(1..Cardinality(S), S)
AnOrder(S) == CHOOSE s \in Orders(S) : TRUE

\* What a rule of an ingress, an ingress, a listener and a path map consist of.
RuleParts == {"host", "http", "paths"}
IngressParts == {"name", "rules", "backend", "tls", "redirect", "private", "extended", "waf"}
ListenerParts == {"port", "private", "host", "hosts", "https", "cert", "waf"}
MapParts == {"pool", "settings", "redirect", "rules"}

-----------------------------------------------------------------------------
(* What refers to what. *)

\* The rules and path maps, and the path rules inside the path maps, all name
\* a pool, settings or a redirect.
Routes(c) ==
    Range(c.rules) \cup Range(c.pathMaps)
        \cup UNION {Range(c.pathMaps[m].rules) : m \in DOMAIN c.pathMaps}

PoolsNamed(c) == {r.pool : r \in Routes(c)} \ {None}
SettingsNamed(c) == {r.settings : r \in Routes(c)} \ {None}
RedirectsNamed(c) == {r.redirect : r \in Routes(c)} \ {None}
PathMapsNamed(c) == {r.pathMap : r \in Range(c.rules)} \ {None}
ListenersNamed(c) == {r.listener : r \in Range(c.rules)} \cup Range(c.redirects)
CertsNamed(c) == {l.cert : l \in Range(c.listeners)} \ {None}
PortsNamed(c) == {l.port : l \in Range(c.listeners)}
ProbesNamed(c) == Range(c.settings) \ {None}

\* All of it is there.
AllButRoutingResolves(c) ==
    /\ PoolsNamed(c) \subseteq c.pools
    /\ SettingsNamed(c) \subseteq DOMAIN c.settings
    /\ ProbesNamed(c) \subseteq c.probes
    /\ RedirectsNamed(c) \subseteq DOMAIN c.redirects
    /\ PortsNamed(c) \subseteq DOMAIN c.ports
    /\ CertsNamed(c) \subseteq c.certs

AllButPathMapsResolve(c) == AllButRoutingResolves(c) /\ ListenersNamed(c) \subseteq DOMAIN c.listeners

-----------------------------------------------------------------------------
(* What the builder is given *)

\* Objects have the parts that it reads.
WellFormedIngress(i) ==
    /\ DOMAIN i = IngressParts /\ IsSeq(i.rules) /\ IsSeq(i.tls)
    /\ IsSeq(i.extended) /\ None \notin Range(i.extended)
    /\ \A r \in Range(i.rules) : DOMAIN r = RuleParts /\ IsSeq(r.paths) /\ r.host # None

\* validateURLPathMaps: either a backend or a redirect.
OneTarget(x) == (x.redirect # None) # (x.pool # None /\ x.settings # None)

\* A gateway gives the path rules of a path map different names, and each of
\* them either a backend or a redirect, and it gives a listener one host name or
\* a list of them.  The names that AGIC generates are for what AGIC makes: its
\* rules only use its path maps, these only have its path rules, and its ports
\* have the numbers in their names.
WellFormedMap(name, m) ==
    /\ DOMAIN m = MapParts /\ IsSeq(m.rules)
    /\ \A x \in Range(m.rules) : OneTarget(x) /\ (name[1] = "url" => x.name[1] = "pr")
    /\ \A x, y \in Range(m.rules) : x.name = y.name => x = y \/ x.name[1] = "pr"

\* The names that AGIC gives to ports tell their numbers.
PortsTell(ports) == \A p \in DOMAIN ports : p[1] = "fp" => ports[p] = p[2]

WellFormed(c) ==
    /\ DOMAIN c = DOMAIN EmptyConfig
    /\ \A l \in Range(c.listeners) : DOMAIN l = ListenerParts /\ None \in {l.host, l.hosts}
    /\ IsFiniteSet(DOMAIN c.pathMaps) /\ None \notin DOMAIN c.pathMaps
    /\ \A m \in DOMAIN c.pathMaps : WellFormedMap(m, c.pathMaps[m])
    /\ \A r \in DOMAIN c.rules :
        r[1] = "rr" => c.rules[r].pathMap = None \/ c.rules[r].pathMap[1] = "url"
    /\ PortsTell(c.ports)
=============================================================================
