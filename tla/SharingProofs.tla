---------------------------- MODULE SharingProofs -----------------------------
(***************************************************************************)
(* What AGIC promises the owner of a gateway that it shares, and that the  *)
(* configurations it makes for a gateway of its own hold together.         *)
(***************************************************************************)
EXTENDS GatewayProofs

-----------------------------------------------------------------------------
(* Properties of a build *)

\* The targets name hosts, or the listeners have one host name or stand for all.
OneKeyEach(c, some) ==
    \/ \A t \in some : t.host # ""
    \/ \A l \in Range(c.listeners) : l.hosts = None /\ l.host # ""

\* A build that does not fail keeps the rule and the path rules of the owner that
\* are prohibited on it.
LEMMA ProhibitedRulesStay ==
    ASSUME NoneIsNoName, TypeInv, NEW out \in Builds, out.error = "none",
           OneKeyEach(gw, targets), NEW r \in Reachable(gw),
           gw.rules[r].pathMap \in DOMAIN gw.pathMaps, NEW p \in Prohibited(gw, r, targets)
    PROVE  LET m == gw.rules[r].pathMap
               new == out.config
           IN  /\ r \in DOMAIN new.rules /\ new.rules[r] = gw.rules[r]
               /\ m \in DOMAIN new.pathMaps /\ p \in Range(new.pathMaps[m].rules)
<1> DEFINE m == gw.rules[r].pathMap
           l == gw.rules[r].listener
           host == HostOfRule(gw, r)
           names == GetBlacklistedListeners(gw, targets)
           kept == Restrict(gw.listeners, names)
<1>1. /\ p \in Range(gw.pathMaps[m].rules) /\ IsBlacklisted(host, p.path, targets)
      /\ l \in DOMAIN gw.listeners /\ r \in DOMAIN gw.rules
  BY Zenon DEF Prohibited, Owned, Reachable
<1>2. PICK t \in targets : t.host \in {"", host}
  <2>1. PICK b \in GetTargetBlacklist(targets) : b.host \in {"", host}
    BY <1>1, Zenon DEF IsBlacklisted
  <2>2. \A x \in GetTargetBlacklist(targets) : \E t \in targets : x.host = t.host
    <3> DEFINE of(t) == {[host |-> t.host, path |-> q] : q \in (IF t.paths = {} THEN {<<"">>} ELSE t.paths)}
    <3>1. GetTargetBlacklist(targets) = UNION {of(t) : t \in targets}
      BY Zenon DEF GetTargetBlacklist
    <3>2. \A t : \A x \in of(t) : x.host = t.host
      <4>1. \A h, Q : \A x \in {[host |-> h, path |-> q] : q \in Q} : x.host = h
        OBVIOUS
      <4> QED BY <4>1, Zenon
    <3> HIDE DEF of
    <3> QED BY <3>1, <3>2
  <2> QED BY <2>1, <2>2, Zenon
<1>3. Shared
  <2>1. env.brownfield \/ env.targetSets \subseteq {{}}
    BY SetupsAreWellFormed, Zenon DEF TypeInv, env
  <2> QED BY <1>2, <2>1, Zenon DEF Shared, TypeInv
<1>4. l \in names /\ names \subseteq DOMAIN gw.listeners
  <2>1. p.path \in PathsOfRule(gw, r)
    BY <1>1, Zenon DEF PathsOfRule
  <2>2. r \in GetBlacklistedRoutingRules(gw, targets)
    BY <1>1, <2>1, Zenon DEF GetBlacklistedRoutingRules
  <2> QED BY <2>2, Zenon DEF GetBlacklistedListeners, GetBlacklistedRoutingRules, Reachable
<1>5. \/ gw.listeners[l].host \notin {None, ""}
      \/ \A x \in Range(gw.listeners) : x.hosts = None /\ x.host # ""
  BY <1>2, Zenon DEF OneKeyEach, HostOfRule
<1> HIDE DEF names
<1>6. \A k \in DOMAIN kept : Key(kept[k]) = Key(kept[l]) => k = l
  <2> SUFFICES ASSUME NEW k \in names, Key(gw.listeners[k]) = Key(gw.listeners[l]) PROVE k = l
    BY <1>4, Zenon DEF Restrict
  <2> QED BY <1>4, <1>5, KeysAreDistinct, Zenon DEF TypeInv
<1>7. l \in DOMAIN kept /\ kept[l] = gw.listeners[l]
  BY <1>4, Zenon DEF Restrict
<1>8. PICK cb, listeners, byID, maps, to, ord : ConsistsOf(out.config, cb, listeners, byID, maps, to, ord)
  BY BuildIs, Zenon
<1> DEFINE during == [gw EXCEPT !.listeners = listeners]
           new == RulesAndPathMaps(maps, byID, during, ord)
<1>9. /\ listeners \in Listeners(cb) /\ MadeMaps(maps, to) /\ ord \in PathRuleOrders(maps) /\ ~ new.panics
      /\ "rules" \in DOMAIN new /\ "pathMaps" \in DOMAIN new
            => out.config.rules = new.rules /\ out.config.pathMaps = new.pathMaps
  BY <1>8, Zenon DEF ConsistsOf
<1>10. l \in DOMAIN listeners /\ listeners[l] = gw.listeners[l]
  <2>1. \E managed : listeners \in MergeListeners(kept, managed)
    BY <1>3, <1>9, Zenon DEF Listeners, names
  <2> HIDE DEF kept
  <2> QED BY <1>6, <1>7, <2>1, MergedListenersAre
<1>11. during.rules = gw.rules /\ during.pathMaps = gw.pathMaps /\ during.listeners = listeners
  BY Zenon DEF TypeInv, WellFormed, EmptyConfig
<1>12. /\ "rules" \in DOMAIN new /\ "pathMaps" \in DOMAIN new
       /\ \A x \in Reachable(during) :
            gw.rules[x].pathMap \in DOMAIN gw.pathMaps /\ Prohibited(during, x, targets) # {} =>
                /\ x \in DOMAIN new.rules /\ new.rules[x] = gw.rules[x]
                /\ gw.rules[x].pathMap \in DOMAIN new.pathMaps
                /\ Prohibited(during, x, targets) \subseteq Range(new.pathMaps[gw.rules[x].pathMap].rules)
  BY <1>3, <1>9, RoutingKeeps, Zenon
<1> HIDE DEF new, during
<1>13. r \in Reachable(during) /\ HostOfRule(during, r) = host
  BY <1>1, <1>10, <1>11, Zenon DEF Reachable, HostOfRule
<1>14. p \in Prohibited(during, r, targets)
  BY <1>11, <1>13, Zenon DEF Prohibited
<1> QED BY <1>9, <1>12, <1>13, <1>14, Zenon

\* Without targets nothing of the owner is kept: a configuration consists of what is
\* made for the ingresses, and no path map is missed.
LEMMA OwnBuildIs ==
    ASSUME NoneIsNoName, TypeInv, targets = {}, NEW out \in Builds
    PROVE  /\ out.error # "panic" /\ out.cb \in Contexts
           /\ \E skipped \in SkippedListeners(out.cb) : Own(out.config, out.cb, getListeners(out.cb, skipped))
<1>1. ~ Shared
  BY Zenon DEF Shared
<1>2. PICK cb \in Contexts : \E listeners \in Listeners(cb) :
            out \in BuiltOn(cb, listeners, FrontendPorts(cb, listeners))
  BY DEF Builds
<1>3. PICK listeners \in Listeners(cb) : out \in BuiltOn(cb, listeners, FrontendPorts(cb, listeners))
  BY <1>2, Zenon
<1> DEFINE ports == FrontendPorts(cb, listeners)
           byID == listenersByID(listeners, ports)
           during == [gw EXCEPT !.listeners = listeners]
           redirects == getRedirectConfigurations(cb, byID)
           maps == getPathMaps(cb, redirects)
           rules == getRules(maps, byID)
           pathMaps == PathMapsOfRules(maps, byID)
<1>4. \A c, part, names : KeptOnly(c, part, names) = << >>
  BY <1>1, Zenon DEF KeptOnly
<1>5. PICK skipped \in SkippedListeners(cb) : listeners = getListeners(cb, skipped)
  BY <1>1, Zenon DEF Listeners
<1>6. redirects ++ << >> = redirects
  <2>1. redirects = [n \in DOMAIN redirects |-> redirects[n]]
    BY Zenon DEF getRedirectConfigurations
  <2> HIDE DEF redirects
  <2> QED BY <2>1, NothingAdded, Zenon
<1>7. rules = [r \in DOMAIN rules |-> rules[r]] /\ pathMaps = [m \in DOMAIN pathMaps |-> pathMaps[m]]
  BY Zenon DEF getRules, PathMapsOfRules
<1> HIDE DEF ports
<1>8. PICK routing \in RequestRoutingRules(cb, byID, during) : out = Built(cb, listeners, ports, routing)
  <2> HIDE DEF byID, during
  <2> QED BY <1>3, Zenon DEF BuiltOn, byID, during, ports
<1>9. RequestRoutingRules(cb, byID, during) = Routing(WithoutID(cb), maps, byID, during, redirects)
  <2> HIDE DEF byID, during, redirects
  <2> QED BY <1>4, <1>6, Zenon DEF RequestRoutingRules, RoutingOn, redirects
<1> HIDE DEF byID, during, redirects, maps, rules, pathMaps
<1>10. PICK ord : routing = RulesAndPathMaps(maps, byID, during, ord) ++ [redirects |-> redirects]
  <2>1. PICK ord : \E nil \in PassesNoID(WithoutID(cb), maps, byID, during, ord) :
            routing = (IF nil THEN Panicked ELSE RulesAndPathMaps(maps, byID, during, ord)) ++ [redirects |-> redirects]
    BY <1>8, <1>9, Zenon DEF Routing
  <2>2. PICK nil \in PassesNoID(WithoutID(cb), maps, byID, during, ord) :
            routing = (IF nil THEN Panicked ELSE RulesAndPathMaps(maps, byID, during, ord)) ++ [redirects |-> redirects]
    BY <2>1, Zenon
  <2>3. nil \in BOOLEAN
    BY <2>2, Zenon DEF PassesNoID, NilIDs
  <2>4. nil = FALSE
    BY <1>1, <2>2, <2>3, PassingNeedsNoID, Zenon
  <2>5. routing = RulesAndPathMaps(maps, byID, during, ord) ++ [redirects |-> redirects]
    BY <2>2, <2>4, Zenon
  <2> QED BY <2>5, Zenon
<1>11. RulesAndPathMaps(maps, byID, during, ord)
        = [rules |-> rules, pathMaps |-> pathMaps] ++ [panics |-> FALSE]
  <2>1. RulesAndPathMaps(maps, byID, during, ord)
            = MergedWithKept(during, rules, MergePathMaps(<< >>, pathMaps, ord), ord)
    BY <1>4, Zenon DEF RulesAndPathMaps, MergedPathMaps, KeptPathMaps, rules, pathMaps
  <2>2. RulesAndPathMaps(maps, byID, during, ord) = Merged(<< >>, rules, pathMaps, ord)
    BY <1>4, <1>7, <2>1, NothingMerged DEF MergedWithKept, KeptRoutingRules
  <2>3. /\ ~ LookupFails(<< >>, rules, pathMaps)
        /\ MergeRules(<< >>, rules, pathMaps, ord) = [rules |-> rules, pathMaps |-> pathMaps]
    BY <1>7, NothingMerged
  <2> QED BY <2>2, <2>3, Zenon DEF Merged
<1>12. /\ routing.rules = rules /\ routing.pathMaps = pathMaps
       /\ routing.redirects = redirects /\ routing.panics = FALSE
  BY <1>10, <1>11, Zenon DEF ++
<1>13. out.error # "panic" /\ out.cb = cb
  BY <1>8, <1>12, Zenon DEF Built
<1> DEFINE c == out.config
<1>14. /\ DOMAIN c = DOMAIN EmptyConfig
       /\ c.probes = newProbesMap(cb) /\ c.settings = BackendHTTPSettings(cb)
       /\ c.pools = getPools(cb) /\ c.certs = getSslCertificates(cb)
       /\ c.ports = ports /\ c.listeners = listeners
       /\ c.redirects = redirects /\ c.rules = rules /\ c.pathMaps = pathMaps
  <2>1. BackendHTTPSettings(cb) ++ << >> = BackendHTTPSettings(cb)
    <3>1. \E f, g : BackendHTTPSettings(cb) = f ++ g
      BY Zenon DEF BackendHTTPSettings
    <3>2. BackendHTTPSettings(cb) = [n \in DOMAIN BackendHTTPSettings(cb) |-> BackendHTTPSettings(cb)[n]]
      BY <3>1, Zenon DEF ++
    <3> QED BY <3>2, NothingAdded, Zenon
  <2> QED BY <1>1, <1>4, <1>8, <1>12, <2>1, Zenon DEF Built, EmptyConfig
<1> HIDE DEF c
<1>15. Own(c, cb, listeners)
  BY <1>14, Zenon DEF Own, ports, byID, redirects, maps, rules, pathMaps
<1> QED BY <1>5, <1>13, <1>15, Zenon DEF c

\* What it makes refers to what it makes.
LEMMA OwnBuildResolves ==
    ASSUME NoneIsNoName, TypeInv, targets = {}, NEW out \in Builds
    PROVE  /\ out.error # "panic"
           /\ AllButPathMapsResolve([out.config EXCEPT !.pools = @ \cup NamedPools(out.cb)])
           /\ PathMapsNamed(out.config) \subseteq DOMAIN out.config.pathMaps
<1> DEFINE cb == out.cb
           c == out.config
<1>1. out.error # "panic" /\ cb \in Contexts
  BY OwnBuildIs, Zenon
<1>2. PICK skipped \in SkippedListeners(cb) : Own(c, cb, getListeners(cb, skipped))
  BY OwnBuildIs, Zenon
<1>3. SomeOf(getListeners(cb, skipped), getListeners(cb, skipped)) /\ GoodContext(cb)
  BY <1>1, ContextsAreGood, Zenon DEF SomeOf
<1> QED BY <1>1, <1>2, <1>3, OwnReferencesResolve, Zenon DEF c

\* A configuration has a rule on the listener that serves what an ingress asks for.
IsServed(c, cb, e, id) ==
    \E r \in Range(c.rules) : /\ IdentifierOf(c.listeners[r.listener], c.ports) = id
                              /\ ServesRule(cb, RoutesOf(c, r), e, id)

\* All that is asked for is served, but for the listeners that others take.
AllServed(c, cb) ==
    \A e \in HTTPRules(cb) : \A id \in AskedListeners(cb, e) :
        \/ id.private /\ id.port \in PublicPorts(DOMAIN cb.configs \cup DOMAIN cb.istioListeners)
        \/ id \in Taken(cb)
        \/ IsServed(c, cb, e, id)

\* So it is on a gateway of AGIC's own.
LEMMA OwnBuildServes ==
    ASSUME NoneIsNoName, NoneIsNoList, TypeInv, targets = {}, NEW out \in Builds
    PROVE  AllServed(out.config, out.cb)
<1> DEFINE cb == out.cb
           c == out.config
<1>1. PICK skipped \in SkippedListeners(cb) : Own(c, cb, getListeners(cb, skipped))
  BY OwnBuildIs, Zenon
<1>2. GoodContext(cb) /\ Covers(cb) /\ PortsTell(cb.ports)
  <2>1. cb \in Contexts /\ PortsTell(gw.ports)
    BY OwnBuildIs, Zenon DEF TypeInv, WellFormed
  <2> HIDE DEF cb
  <2>2. GoodContext(cb) /\ Covers(cb) /\ cb.ports = gw.ports
    BY <2>1, ContextsAreGood, Zenon
  <2> QED BY <2>1, <2>2, Zenon
<1> HIDE DEF cb, c
<1>3. ASSUME NEW e \in HTTPRules(cb), NEW id \in AskedListeners(cb, e), id \notin Taken(cb),
             ~ (id.private /\ id.port \in PublicPorts(DOMAIN cb.configs \cup DOMAIN cb.istioListeners))
      PROVE  IsServed(c, cb, e, id)
  BY <1>1, <1>2, <1>3, OwnIngressesServed, Zenon DEF IsServed
<1> QED BY <1>3, Zenon DEF AllServed, cb, c

-----------------------------------------------------------------------------
(* The invariant *)

\* The name that a port number gets tells the number, where it is one of AGIC's names.
LEMMA NamedPortsTell ==
    ASSUME NEW ports, PortsTell(ports), NEW number, NEW p, PortName([ports |-> ports], number) = p, p[1] = "fp"
    PROVE  number = p[2]
<1>1. CASE \E q \in DOMAIN ports : ports[q] = number
  <2> DEFINE existing == {q \in DOMAIN ports : ports[q] = number}
  <2>1. p = CHOOSE q \in existing : TRUE
    BY <1>1, Zenon DEF PortName
  <2>2. p \in existing
    BY <1>1, <2>1, Zenon
  <2> QED BY <2>2, Zenon DEF PortsTell
<1>2. CASE ~ \E q \in DOMAIN ports : ports[q] = number
  <2>1. p = generateFrontendPortName(number)
    BY <1>2, Zenon DEF PortName
  <2> QED BY <2>1 DEF generateFrontendPortName
<1> QED BY <1>1, <1>2, Zenon

\* What the owner adds is well-formed, and so is a gateway with the addition.
LEMMA OverlayIsGood ==
    ASSUME TypeInv
    PROVE  WellFormed(Overlay(gw, OwnerPart))
<1> DEFINE edit == env.edit
           part == OwnerPart
           new == Overlay(gw, part)
<1>1. WellFormed(edit)
  BY SetupsAreWellFormed, Zenon DEF TypeInv, env
<1>2. /\ DOMAIN part = DOMAIN EmptyConfig /\ PortsTell(part.ports)
      /\ part.pathMaps = edit.pathMaps /\ part.rules = edit.rules
      /\ DOMAIN part.listeners = DOMAIN edit.listeners
      /\ \A l \in DOMAIN edit.listeners :
            DOMAIN part.listeners[l] = ListenerParts
                /\ None \in {part.listeners[l].host, part.listeners[l].hosts}
  <2> DEFINE name(l) == PortName([ports |-> gw.ports], edit.ports[l.port])
             moved == [l \in DOMAIN edit.listeners |-> [edit.listeners[l] EXCEPT !.port = name(edit.listeners[l])]]
             ports == [p \in {name(l) : l \in Range(edit.listeners)} |->
                        edit.ports[(CHOOSE l \in Range(edit.listeners) : name(l) = p).port]]
  <2>1. part = [edit EXCEPT !.listeners = moved, !.ports = ports]
    BY Zenon DEF OwnerPart
  <2> HIDE DEF name
  <2>2. \A l \in DOMAIN edit.listeners :
            DOMAIN moved[l] = ListenerParts /\ None \in {moved[l].host, moved[l].hosts}
    BY <1>1 DEF WellFormed, Range, ListenerParts
  <2>3. DOMAIN moved = DOMAIN edit.listeners
    BY Zenon
  <2>4. DOMAIN edit = DOMAIN EmptyConfig
    BY <1>1, Zenon DEF WellFormed
  <2>5. PortsTell(ports)
    <3> SUFFICES ASSUME NEW p \in DOMAIN ports, p[1] = "fp" PROVE ports[p] = p[2]
      BY Zenon DEF PortsTell
    <3> DEFINE chosen == CHOOSE l \in Range(edit.listeners) : name(l) = p
               number == edit.ports[chosen.port]
    <3>1. \E l \in Range(edit.listeners) : name(l) = p
      BY Zenon
    <3>2. name(chosen) = p /\ ports[p] = number
      BY <3>1, Zenon
    <3> HIDE DEF chosen, ports
    <3>3. PortName([ports |-> gw.ports], number) = p
      BY <3>2, Zenon DEF name
    <3>4. PortsTell(gw.ports)
      BY Zenon DEF TypeInv, WellFormed
    <3> HIDE DEF number
    <3>5. number = p[2]
      BY <3>3, <3>4, NamedPortsTell, Zenon
    <3> QED BY <3>2, <3>5, Zenon
  <2> HIDE DEF moved, ports, edit, part
  <2> QED BY <2>1, <2>2, <2>3, <2>4, <2>5, Zenon DEF EmptyConfig
<1> HIDE DEF part, edit
<1>3. DOMAIN gw = DOMAIN EmptyConfig
  BY Zenon DEF TypeInv, WellFormed
<1>4. /\ DOMAIN new = DOMAIN EmptyConfig /\ new.ports = part.ports ++ gw.ports
      /\ new.listeners = part.listeners ++ gw.listeners
      /\ new.pathMaps = part.pathMaps ++ gw.pathMaps
      /\ new.rules = part.rules ++ gw.rules
  BY <1>3, Zenon DEF Overlay, EmptyConfig
<1> HIDE DEF new
<1>5. \A l \in Range(new.listeners) : DOMAIN l = ListenerParts /\ None \in {l.host, l.hosts}
  <2>1. \A n \in DOMAIN new.listeners :
            \/ n \in DOMAIN edit.listeners /\ new.listeners[n] = part.listeners[n]
            \/ n \in DOMAIN gw.listeners /\ new.listeners[n] = gw.listeners[n]
    BY <1>2, <1>4, Zenon DEF ++
  <2>2. \A n \in DOMAIN gw.listeners : /\ DOMAIN gw.listeners[n] = ListenerParts
                                       /\ None \in {gw.listeners[n].host, gw.listeners[n].hosts}
    BY Zenon DEF TypeInv, WellFormed, Range
  <2> QED BY <1>2, <2>1, <2>2 DEF Range
<1>6. IsFiniteSet(DOMAIN new.pathMaps) /\ None \notin DOMAIN new.pathMaps
  <2>1. DOMAIN new.pathMaps = DOMAIN edit.pathMaps \cup DOMAIN gw.pathMaps
    BY <1>2, <1>4, Zenon DEF ++
  <2>2. IsFiniteSet(DOMAIN edit.pathMaps \cup DOMAIN gw.pathMaps)
    BY <1>1, FS_Union, Zenon DEF TypeInv, WellFormed
  <2> QED BY <1>1, <2>1, <2>2, Zenon DEF TypeInv, WellFormed
<1>7. \A m \in DOMAIN new.pathMaps : WellFormedMap(m, new.pathMaps[m])
  <2>1. \A m \in DOMAIN new.pathMaps :
            \/ m \in DOMAIN edit.pathMaps /\ new.pathMaps[m] = edit.pathMaps[m]
            \/ m \in DOMAIN gw.pathMaps /\ new.pathMaps[m] = gw.pathMaps[m]
    BY <1>2, <1>4 DEF ++
  <2>2. \A m \in DOMAIN gw.pathMaps : WellFormedMap(m, gw.pathMaps[m])
    BY Zenon DEF TypeInv, WellFormed
  <2>3. \A m \in DOMAIN edit.pathMaps : WellFormedMap(m, edit.pathMaps[m])
    BY <1>1, Zenon DEF WellFormed
  <2> QED BY <2>1, <2>2, <2>3, Zenon
<1>8. \A r \in DOMAIN new.rules :
        r[1] = "rr" => new.rules[r].pathMap = None \/ new.rules[r].pathMap[1] = "url"
  BY <1>1, <1>2, <1>4 DEF ++, TypeInv, WellFormed
<1>9. PortsTell(new.ports)
  <2>1. PortsTell(gw.ports)
    BY Zenon DEF TypeInv, WellFormed
  <2>2. \A f, g : PortsTell(f) /\ PortsTell(g) => PortsTell(f ++ g)
    BY Zenon DEF ++, PortsTell
  <2> QED BY <1>2, <1>4, <2>1, <2>2, Zenon
<1> QED BY <1>4, <1>5, <1>6, <1>7, <1>8, <1>9, Zenon DEF WellFormed, new, part

\* The invariant holds at the start.
LEMMA InitIsGood == Init => TypeInv
<1> SUFFICES ASSUME Init PROVE TypeInv
  BY Zenon
<1>1. setup \in DOMAIN Setups /\ targets \in env.targetSets /\ mesh \in env.meshes
  BY Zenon DEF Init
<1>2. WellFormed(gw) /\ Accepts(gw)
  BY SetupsAreWellFormed, Zenon DEF Init, env
<1>3. DOMAIN spec = DOMAIN env.catalog /\ \A n \in DOMAIN spec : spec[n] \in env.catalog[n] \cup {None}
  BY Zenon DEF Init
<1>4. \A n \in DOMAIN env.catalog : \A i \in env.catalog[n] : i.name = n /\ WellFormedIngress(i)
  BY <1>1, SetupsAreWellFormed, Zenon DEF env
<1>5. GoodStore(spec) /\ ingresses = spec
  BY <1>3, <1>4, Zenon DEF GoodStore, Init
<1> QED BY <1>1, <1>2, <1>5, Zenon DEF TypeInv

\* Whatever happens next keeps it.
LEMMA StepIsGood ==
    ASSUME NoneIsNoName, TypeInv, [Next]_vars
    PROVE  TypeInv'
<1>1. \A n \in DOMAIN env.catalog : \A i \in env.catalog[n] : i.name = n /\ WellFormedIngress(i)
  BY SetupsAreWellFormed, Zenon DEF TypeInv, env
<1>2. CASE MutateAKS
  BY <1>2, Zenon DEF MutateAKS, TypeInv, GoodStore, env, cluster
<1>3. CASE MutateAppGateway
  <2>1. PICK out \in Builds :
            \/ Prune /\ (MutateFails(out) \/ MutateSkips(out) \/ MutatePuts(out) \/ MutatePutFails(out))
            \/ MutatePanics(out)
    BY <1>3, Zenon DEF MutateAppGateway
  <2>2. GoodStore(spec)' /\ (setup \in DOMAIN Setups /\ targets \in env.targetSets /\ mesh \in env.meshes)'
    BY <2>1, Zenon DEF Prune, MutatePanics, TypeInv, GoodStore, env
  <2>3. GoodStore(ingresses)'
    <3>1. CASE Prune
      BY <3>1, PrunedStoreIsGood, Zenon DEF Prune, GoodStore, env
    <3>2. CASE MutatePanics(out)
      BY <3>2, Zenon DEF MutatePanics, TypeInv, GoodStore, env
    <3> QED BY <2>1, <3>1, <3>2, Zenon
  <2>4. gw' = gw \/ (gw' = out.config /\ Accepts(out.config) /\ out.error = "none")
    BY <2>1, Zenon DEF MutateFails, MutateSkips, MutatePuts, MutatePutFails, MutatePanics
  <2>5. (WellFormed(gw) /\ Accepts(gw))'
    BY <2>4, BuildIsGood, Zenon DEF TypeInv
  <2> QED BY <2>2, <2>3, <2>5, Zenon DEF TypeInv
<1>4. CASE ChangeIngress
  <2>1. PICK n \in DOMAIN spec : \E i \in env.catalog[n] \cup {None} :
            /\ spec' = [spec EXCEPT ![n] = i] /\ ingresses' = [ingresses EXCEPT ![n] = i]
            /\ UNCHANGED <<setup, services, secrets, targets, mesh, gw>>
    BY <1>4, Zenon DEF ChangeIngress, Change
  <2>2. PICK i \in env.catalog[n] \cup {None} :
            /\ spec' = [spec EXCEPT ![n] = i] /\ ingresses' = [ingresses EXCEPT ![n] = i]
            /\ UNCHANGED <<setup, services, secrets, targets, mesh, gw>>
    BY <2>1, Zenon
  <2>3. i = None \/ (i.name = n /\ WellFormedIngress(i))
    BY <1>1, <2>2, Zenon DEF TypeInv, GoodStore
  <2>4. GoodStore(spec)' /\ GoodStore(ingresses)'
    BY <2>2, <2>3, Zenon DEF TypeInv, GoodStore, env
  <2> QED BY <2>2, <2>4, Zenon DEF TypeInv, env
<1>5. CASE ChangeService \/ ChangeSecrets \/ ChangeTargets \/ ChangeMesh
  BY <1>5, Zenon DEF ChangeService, ChangeSecrets, ChangeTargets, ChangeMesh, Change, TypeInv, GoodStore, env
<1>6. CASE OwnerEdits
  BY <1>6, OverlayIsGood, Zenon DEF OwnerEdits, Change, TypeInv, GoodStore, env, cluster
<1>7. CASE Restart
  BY <1>7, Zenon DEF Restart, TypeInv, GoodStore, env
<1>8. CASE UNCHANGED vars
  BY <1>8, Zenon DEF vars, cluster, TypeInv, GoodStore, env
<1> QED BY <1>2, <1>3, <1>4, <1>5, <1>6, <1>7, <1>8, Zenon DEF Next

\* A prohibited path rule of the owner stays on its listener.
PathsStay == OneKeyEach(last.before, last.targets) => ProhibitedPathsUntouched

\* References resolve unless a target prohibits something.
OwnRefsResolve == last # None /\ last.targets = {} => RefsResolve /\ last.outcome # "panic"

\* A call leaves what the properties say.
LEMMA CallIsGood ==
    ASSUME NoneIsNoName, TypeInv, MutateAppGateway
    PROVE  PathMapsAreValid' /\ PathsStay' /\ OwnRefsResolve'
<1>1. PICK out \in Builds :
        MutateFails(out) \/ MutateSkips(out) \/ MutatePuts(out) \/ MutatePutFails(out) \/ MutatePanics(out)
  BY Zenon DEF MutateAppGateway
<1>2. out.error \in {"settings", "panic", "none"}
  <2>1. PICK cb : \E listeners, ports : out \in BuiltOn(cb, listeners, ports)
    BY DEF Builds
  <2>2. \E listeners, ports, routing : out = Built(cb, listeners, ports, routing)
    BY <2>1, Zenon DEF BuiltOn
  <2>3. \A listeners, ports, routing :
            Built(cb, listeners, ports, routing).error \in {"settings", "panic", "none"}
    BY Zenon DEF Built
  <2> QED BY <2>2, <2>3, Zenon
<1>3. OwnRefsResolve'
  <2>1. /\ last'.config = out.config /\ last'.cb = out.cb /\ last'.targets = targets
        /\ last'.outcome \in {out.error, "same", "put", "failed"}
    BY <1>1 DEF MutateFails, MutateSkips, MutatePuts, MutatePutFails, MutatePanics, Done
  <2>2. CASE targets = {}
    <3>1. /\ out.error # "panic"
          /\ AllButPathMapsResolve([out.config EXCEPT !.pools = @ \cup NamedPools(out.cb)])
          /\ PathMapsNamed(out.config) \subseteq DOMAIN out.config.pathMaps
      BY <2>2, OwnBuildResolves, Zenon
    <3> DEFINE c == out.config
               d == [c EXCEPT !.pools = @ \cup NamedPools(out.cb)]
               loose == LooseRedirects'
    <3>2. DOMAIN c = DOMAIN EmptyConfig
      BY <2>2, OwnBuildIs, Zenon DEF Own
    <3> HIDE DEF c, loose
    <3>3. AllButRoutingResolves(d) /\ ListenersNamed(d) \subseteq DOMAIN d.listeners
      BY <3>1, Zenon DEF AllButPathMapsResolve, c
    <3>4. d.rules = c.rules /\ d.redirects = c.redirects /\ d.listeners = c.listeners
      BY <3>2, Zenon DEF EmptyConfig
    <3> DEFINE e == [c EXCEPT !.redirects = Restrict(@, DOMAIN @ \ loose)]
    <3>5. e.rules = c.rules /\ e.redirects = Restrict(c.redirects, DOMAIN c.redirects \ loose)
      BY <3>2, Zenon DEF EmptyConfig
    <3> HIDE DEF d, e
    <3>6. Range(e.redirects) \subseteq Range(c.redirects)
      BY <3>5, Zenon DEF Range, Restrict
    <3>7. ListenersNamed(e) \subseteq DOMAIN c.listeners
      BY <3>3, <3>4, <3>5, <3>6 DEF ListenersNamed
    <3>8. RefsResolve'
      BY <2>1, <3>1, <3>3, <3>7 DEF RefsResolve, NamedPools, c, d, e, loose
    <3> QED BY <2>1, <3>1, <3>8, Zenon DEF OwnRefsResolve
  <2> QED BY <2>1, <2>2, Zenon DEF OwnRefsResolve
<1>4. CASE out.error # "none"
  <2>1. last'.outcome = out.error
    BY <1>1, <1>4 DEF MutateFails, MutateSkips, MutatePuts, MutatePutFails, MutatePanics, Done
  <2> QED BY <1>2, <1>4, <1>3, <2>1, Zenon DEF PathMapsAreValid, PathsStay, ProhibitedPathsUntouched, Made
<1>5. CASE out.error = "none"
  <2>1. last'.config = out.config /\ last'.before = gw /\ last'.targets = targets
    BY <1>1 DEF MutateFails, MutateSkips, MutatePuts, MutatePutFails, MutatePanics, Done
  <2>2. PathMapsAreValid'
    BY <1>5, <2>1, BuildIsGood, Zenon DEF PathMapsAreValid
  <2> DEFINE mapsOn(c, l) == {x.pathMap : x \in {y \in Range(c.rules) : y.listener = l}} \cap DOMAIN c.pathMaps
             routed(c, l) == UNION {Range(c.pathMaps[m].rules) : m \in mapsOn(c, l)}
             new == out.config
  <2>3. ASSUME OneKeyEach(gw, targets), NEW r \in Reachable(gw), NEW p \in routed(gw, gw.rules[r].listener),
               p.name[1] # "pr", IsBlacklisted(HostOfRule(gw, r), p.path, targets)
        PROVE  p \in routed(new, gw.rules[r].listener)
    <3> DEFINE l == gw.rules[r].listener
    <3>1. PICK x \in DOMAIN gw.rules : /\ gw.rules[x].listener = l
                                       /\ gw.rules[x].pathMap \in DOMAIN gw.pathMaps
                                       /\ p \in Range(gw.pathMaps[gw.rules[x].pathMap].rules)
      BY DEF Range
    <3>2. x \in Reachable(gw) /\ HostOfRule(gw, x) = HostOfRule(gw, r)
      BY <3>1, Zenon DEF Reachable, HostOfRule
    <3>3. p \in Prohibited(gw, x, targets)
      BY <2>3, <3>1, <3>2, Zenon DEF Prohibited, Owned
    <3>4. /\ x \in DOMAIN new.rules /\ new.rules[x] = gw.rules[x]
          /\ gw.rules[x].pathMap \in DOMAIN new.pathMaps
          /\ p \in Range(new.pathMaps[gw.rules[x].pathMap].rules)
      BY <1>5, <2>3, <3>1, <3>2, <3>3, ProhibitedRulesStay, Zenon
    <3> HIDE DEF new
    <3>5. gw.rules[x].pathMap \in mapsOn(new, l)
      BY <3>1, <3>4, Zenon DEF Range
    <3> HIDE DEF mapsOn
    <3> QED BY <3>4, <3>5, Zenon
  <2>4. PathsStay'
    <3> HIDE DEF new
    <3>1. OneKeyEach(gw, targets) => \A r \in Reachable(gw) :
            {p \in routed(gw, gw.rules[r].listener) :
                p.name[1] # "pr" /\ IsBlacklisted(HostOfRule(gw, r), p.path, targets)}
            \subseteq routed(new, gw.rules[r].listener)
      <4> HIDE DEF routed
      <4> QED BY <2>3, Zenon
    <3> QED BY <2>1, <3>1 DEF PathsStay, ProhibitedPathsUntouched, new
  <2> QED BY <1>3, <2>2, <2>4, Zenon
<1> QED BY <1>4, <1>5, Zenon

\* Every other step leaves what the last call did, or forgets it.
LEMMA OtherStepsForget ==
    ASSUME Next, ~ MutateAppGateway
    PROVE  last' = None \/ last' = last
  BY Zenon DEF Next, MutateAKS, ChangeIngress, ChangeService, ChangeSecrets, ChangeTargets, ChangeMesh,
         OwnerEdits, Restart, Change

\* The properties of the last call, and the invariant they rest on.
SharingInv == TypeInv /\ PathMapsAreValid /\ PathsStay /\ OwnRefsResolve

\* It is inductive.
LEMMA SharingInvHolds == ASSUME NoneIsNoName PROVE Spec => []SharingInv
<1>1. Init => SharingInv
  BY InitIsGood, Zenon DEF Init, SharingInv, PathMapsAreValid, PathsStay, ProhibitedPathsUntouched,
                           OwnRefsResolve, Made
<1>2. SharingInv /\ [Next]_vars => SharingInv'
  <2> SUFFICES ASSUME SharingInv, [Next]_vars PROVE SharingInv'
    BY Zenon
  <2>1. TypeInv'
    BY StepIsGood, Zenon DEF SharingInv
  <2>2. CASE MutateAppGateway
    BY <2>1, <2>2, CallIsGood, Zenon DEF SharingInv
  <2>3. CASE last' = None
    BY <2>1, <2>3, Zenon DEF SharingInv, PathMapsAreValid, PathsStay, ProhibitedPathsUntouched,
                             OwnRefsResolve, Made
  <2>4. CASE last' = last
    <3>1. PathMapsAreValid' /\ PathsStay'
      BY <2>4 DEF SharingInv, PathMapsAreValid, PathsStay, ProhibitedPathsUntouched, Made
    <3>2. OwnRefsResolve'
      BY <2>4, Zenon DEF SharingInv, OwnRefsResolve, RefsResolve, LooseRedirects, OwnExposed, Made
    <3> QED BY <2>1, <3>1, <3>2, Zenon DEF SharingInv
  <2> QED BY <2>2, <2>3, <2>4, OtherStepsForget, Zenon DEF vars
<1> QED BY <1>1, <1>2, PTL DEF Spec

\* PostBuildValidate has nothing to report, for all setups: every path rule of a
\* configuration that MutateAppGateway makes has either a backend or a redirect,
\* also after its path map was merged with a kept one.
THEOREM GeneratedPathMapsAreValid == ASSUME NoneIsNoName PROVE Spec => []PathMapsAreValid
<1>1. SharingInv => PathMapsAreValid
  BY Zenon DEF SharingInv
<1> QED BY <1>1, SharingInvHolds, PTL

\* A path rule of the owner that a target prohibits goes on serving its path on its
\* listener, for all setups, unless a target stands for every host while the gateway
\* has listeners with lists of host names: MergeListeners does not tell these apart.
THEOREM ProhibitedPathsStay ==
    ASSUME NoneIsNoName
    PROVE  Spec => [](OneKeyEach(last.before, last.targets) => ProhibitedPathsUntouched)
<1>1. SharingInv => (OneKeyEach(last.before, last.targets) => ProhibitedPathsUntouched)
  BY Zenon DEF SharingInv, PathsStay
<1> QED BY <1>1, SharingInvHolds, PTL

\* Where AGIC has the gateway to itself, for all setups, everything that refers to
\* something in a configuration that MutateAppGateway makes finds it, but for the
\* pool of an ingress without rules; and no build ends in a panic.
THEOREM OwnReferencesFind ==
    ASSUME NoneIsNoName
    PROVE  Spec => [](last # None /\ last.targets = {} => RefsResolve /\ last.outcome # "panic")
<1>1. SharingInv => (last # None /\ last.targets = {} => RefsResolve /\ last.outcome # "panic")
  BY Zenon DEF SharingInv, OwnRefsResolve
<1> QED BY <1>1, SharingInvHolds, PTL

-----------------------------------------------------------------------------
(* Panics *)

\* What the owner adds is put over what there is.
Over(new, edit, old) ==
    /\ DOMAIN new = DOMAIN edit \cup DOMAIN old
    /\ \A x \in DOMAIN new : new[x] = IF x \in DOMAIN edit THEN edit[x] ELSE old[x]

\* So it is with rules, path maps and the host names of listeners.
LEMMA OverlayIs ==
    ASSUME TypeInv
    PROVE  LET new == Overlay(gw, OwnerPart)
           IN  /\ Over(new.rules, env.edit.rules, gw.rules) /\ Over(new.pathMaps, env.edit.pathMaps, gw.pathMaps)
               /\ DOMAIN new.listeners = DOMAIN env.edit.listeners \cup DOMAIN gw.listeners
               /\ \A l \in DOMAIN new.listeners :
                    LET like == IF l \in DOMAIN env.edit.listeners THEN env.edit.listeners[l] ELSE gw.listeners[l]
                    IN  new.listeners[l].host = like.host /\ new.listeners[l].hosts = like.hosts
<1> DEFINE edit == env.edit
           part == OwnerPart
           new == Overlay(gw, part)
<1>1. WellFormed(edit)
  BY SetupsAreWellFormed, Zenon DEF TypeInv, env
<1>2. /\ part.pathMaps = edit.pathMaps /\ part.rules = edit.rules
      /\ DOMAIN part.listeners = DOMAIN edit.listeners
      /\ \A l \in DOMAIN edit.listeners :
            part.listeners[l].host = edit.listeners[l].host /\ part.listeners[l].hosts = edit.listeners[l].hosts
  <2> DEFINE name(l) == PortName([ports |-> gw.ports], edit.ports[l.port])
             moved == [l \in DOMAIN edit.listeners |-> [edit.listeners[l] EXCEPT !.port = name(edit.listeners[l])]]
             ports == [p \in {name(l) : l \in Range(edit.listeners)} |->
                        edit.ports[(CHOOSE l \in Range(edit.listeners) : name(l) = p).port]]
  <2>1. part = [edit EXCEPT !.listeners = moved, !.ports = ports]
    BY Zenon DEF OwnerPart
  <2> HIDE DEF name
  <2>2. \A l \in DOMAIN edit.listeners :
            moved[l].host = edit.listeners[l].host /\ moved[l].hosts = edit.listeners[l].hosts
    BY <1>1 DEF WellFormed, Range, ListenerParts
  <2>3. DOMAIN moved = DOMAIN edit.listeners
    BY Zenon
  <2>4. DOMAIN edit = DOMAIN EmptyConfig
    BY <1>1, Zenon DEF WellFormed
  <2> HIDE DEF moved, ports, edit, part
  <2> QED BY <2>1, <2>2, <2>3, <2>4, Zenon DEF EmptyConfig
<1> HIDE DEF part, edit
<1>3. DOMAIN gw = DOMAIN EmptyConfig
  BY Zenon DEF TypeInv, WellFormed
<1>4. /\ new.listeners = part.listeners ++ gw.listeners
      /\ new.pathMaps = part.pathMaps ++ gw.pathMaps
      /\ new.rules = part.rules ++ gw.rules
  BY <1>3, Zenon DEF Overlay, EmptyConfig
<1> HIDE DEF new
<1>5. \A f, g : Over(f ++ g, f, g)
  BY Zenon DEF Over, ++
<1>6. Over(new.rules, edit.rules, gw.rules) /\ Over(new.pathMaps, edit.pathMaps, gw.pathMaps)
  BY <1>2, <1>4, <1>5, Zenon
<1>7. Over(new.listeners, part.listeners, gw.listeners)
  BY <1>4, <1>5, Zenon
<1>8. /\ DOMAIN new.listeners = DOMAIN edit.listeners \cup DOMAIN gw.listeners
      /\ \A l \in DOMAIN new.listeners :
            LET like == IF l \in DOMAIN edit.listeners THEN edit.listeners[l] ELSE gw.listeners[l]
            IN  new.listeners[l].host = like.host /\ new.listeners[l].hosts = like.hosts
  BY <1>2, <1>7 DEF Over
<1> QED BY <1>6, <1>8, Zenon DEF new, part, edit

\* Path maps go on having path rules.
LEMMA MapsKeepRules ==
    ASSUME NoneIsNoName, MapsAreUsed, TypeInv, MapsHaveRules(gw), [Next]_vars
    PROVE  MapsHaveRules(gw)'
<1>1. CASE MutateAppGateway
  <2>1. PICK out \in Builds : gw' = gw \/ (gw' = out.config /\ out.error = "none")
    BY <1>1, Zenon DEF MutateAppGateway, MutateFails, MutateSkips, MutatePuts, MutatePutFails, MutatePanics
  <2>2. out.error = "none" => MapsHaveRules(out.config)
    BY BuildRoutes, Zenon DEF RoutedAs, MapsHaveRules
  <2> QED BY <2>1, <2>2, Zenon DEF MapsHaveRules
<1>2. CASE OwnerEdits
  <2> DEFINE new == Overlay(gw, OwnerPart)
  <2>1. gw' = new
    BY <1>2, Zenon DEF OwnerEdits
  <2>2. Over(new.pathMaps, env.edit.pathMaps, gw.pathMaps)
    BY OverlayIs, Zenon
  <2>3. MapsHaveRules(env.edit)
    BY Zenon DEF MapsAreUsed, TypeInv, env
  <2> HIDE DEF new
  <2>4. MapsHaveRules(new)
    BY <2>2, <2>3, Zenon DEF Over, MapsHaveRules
  <2> QED BY <2>1, <2>4, Zenon DEF MapsHaveRules
<1>3. CASE ~ MutateAppGateway /\ ~ OwnerEdits
  <2>1. gw' = gw
    BY <1>3, Zenon DEF Next, vars, MutateAKS, ChangeIngress, ChangeService, ChangeSecrets, ChangeTargets,
                        ChangeMesh, Restart
  <2> QED BY <2>1, Zenon DEF MapsHaveRules
<1> QED BY <1>1, <1>2, <1>3, Zenon

\* What a call notes down.
LEMMA CallNotes ==
    ASSUME MutateAppGateway
    PROVE  \E out \in Builds :
            /\ last'.config = out.config /\ last'.cb = out.cb /\ last'.before = gw /\ last'.targets = targets
            /\ IF out.error = "none" THEN last'.outcome \in {"same", "put", "failed"}
                                     ELSE last'.outcome = out.error /\ out.error \in {"settings", "panic"}
<1>1. PICK out \in Builds :
        MutateFails(out) \/ MutateSkips(out) \/ MutatePuts(out) \/ MutatePutFails(out) \/ MutatePanics(out)
  BY Zenon DEF MutateAppGateway
<1>2. out.error \in {"settings", "panic", "none"}
  <2>1. PICK cb : \E listeners, ports : out \in BuiltOn(cb, listeners, ports)
    BY DEF Builds
  <2>2. \E listeners, ports, routing : out = Built(cb, listeners, ports, routing)
    BY <2>1, Zenon DEF BuiltOn
  <2>3. \A listeners, ports, routing :
            Built(cb, listeners, ports, routing).error \in {"settings", "panic", "none"}
    BY Zenon DEF Built
  <2> QED BY <2>2, <2>3, Zenon
<1>3. PICK outcome : /\ Done(out, outcome)
                     /\ IF out.error = "none" THEN outcome \in {"same", "put", "failed"} ELSE outcome = out.error
  BY <1>1, Zenon DEF MutateFails, MutateSkips, MutatePuts, MutatePutFails, MutatePanics
<1>4. /\ last'.config = out.config /\ last'.cb = out.cb /\ last'.before = gw /\ last'.targets = targets
      /\ last'.outcome = outcome
  BY <1>3, Zenon DEF Done
<1> QED BY <1>2, <1>3, <1>4, Zenon

\* A step panics over a path map without an ID, or not at all.
LEMMA PanicStep ==
    ASSUME NoneIsNoName, MapsAreUsed, TargetsArePlain, TypeInv, MapsHaveRules(gw), OnlyMissingIDsPanic, [Next]_vars
    PROVE  OnlyMissingIDsPanic'
<1>1. CASE MutateAppGateway
  <2>1. PlainTargets(targets)
    BY Zenon DEF TargetsArePlain, TypeInv, env
  <2>2. PICK out \in Builds :
            /\ last'.cb = out.cb /\ last'.targets = targets
            /\ IF out.error = "none" THEN last'.outcome \in {"same", "put", "failed"}
                                     ELSE last'.outcome = out.error
    BY <1>1, CallNotes, Zenon
  <2>3. out.error = "panic" => Shared /\ WithoutID(out.cb) # {}
    BY <2>1, BuildsDoNotPanic, Zenon
  <2>4. last'.outcome = "panic" => last'.targets # {} /\ WithoutID(last'.cb) # {}
    BY <2>2, <2>3, Zenon DEF Shared
  <2> QED BY <2>4, Zenon DEF OnlyMissingIDsPanic, WithoutID
<1>2. CASE ~ MutateAppGateway
  BY <1>2, OtherStepsForget, Zenon DEF OnlyMissingIDsPanic, WithoutID, vars
<1> QED BY <1>1, <1>2, Zenon

\* For all setups whose path maps have path rules and whose targets are plain, the
\* path map without an ID that an ingress without rules brings is all that a build
\* panics over: where a rule that is kept and one that AGIC makes meet, lookupPathMap
\* finds the path map of each.
THEOREM PanicsAreOverMissingIDs ==
    ASSUME NoneIsNoName, MapsAreUsed, TargetsArePlain
    PROVE  Spec => []OnlyMissingIDsPanic
<1> DEFINE Inv == TypeInv /\ MapsHaveRules(gw) /\ OnlyMissingIDsPanic
<1>1. Init => Inv
  BY InitIsGood, Zenon DEF Init, MapsAreUsed, env, OnlyMissingIDsPanic
<1>2. Inv /\ [Next]_vars => Inv'
  BY StepIsGood, MapsKeepRules, PanicStep, Zenon
<1>3. Inv => OnlyMissingIDsPanic
  BY Zenon
<1> QED BY <1>1, <1>2, <1>3, PTL DEF Spec

-----------------------------------------------------------------------------
(* Ingresses are served *)

\* The last call served all that was asked for, on a gateway of AGIC's own.
LastServes == last # None /\ last.targets = {} => AllServed(last.config, last.cb)

\* Every call does.
LEMMA ServingStep ==
    ASSUME NoneIsNoName, NoneIsNoList, TypeInv, LastServes, [Next]_vars
    PROVE  LastServes'
<1>1. CASE MutateAppGateway
  <2>1. PICK out \in Builds : last'.config = out.config /\ last'.cb = out.cb /\ last'.targets = targets
    BY <1>1, CallNotes, Zenon
  <2>2. targets = {} => AllServed(out.config, out.cb)
    BY OwnBuildServes, Zenon
  <2>3. last'.targets = {} => AllServed(last'.config, last'.cb)
    BY <2>1, <2>2, Zenon
  <2> QED BY <2>3, Zenon DEF LastServes, AllServed, IsServed
<1>2. CASE ~ MutateAppGateway
  <2>1. last' = None \/ last' = last
    BY <1>2, OtherStepsForget, Zenon DEF vars
  <2> QED BY <2>1, Zenon DEF LastServes, AllServed, IsServed
<1> QED BY <1>1, <1>2, Zenon

\* What an ingress that survives pruning asks for is what the gateway gets, for all
\* setups without prohibited targets: newListenerConfigs and getPathMaps agree on its
\* listeners, merging path maps loses no path of another ingress, and the rule on
\* each listener sends every path to the backend that was resolved for it.
THEOREM IngressesAreServed ==
    ASSUME NoneIsNoName, NoneIsNoList
    PROVE  Spec => []IngressesServed
<1> DEFINE Inv == TypeInv /\ LastServes
<1>1. Init => Inv
  BY InitIsGood, Zenon DEF Init, LastServes
<1>2. Inv /\ [Next]_vars => Inv'
  BY StepIsGood, ServingStep, Zenon
<1>3. Inv => IngressesServed
  <2> SUFFICES ASSUME LastServes, Made, last.targets = {}
               PROVE  IngressesServed
    BY Zenon DEF IngressesServed
  <2> DEFINE c == last.config
             cb == last.cb
  <2>1. AllServed(c, cb)
    BY Zenon DEF LastServes, Made
  <2> HIDE DEF c, cb
  <2>2. ASSUME NEW e \in HTTPRules(cb), NEW id \in AskedListeners(cb, e)
        PROVE  \/ id.private /\ id.port \in PublicPorts(DOMAIN cb.configs \cup DOMAIN cb.istioListeners)
               \/ /\ id = defaultFrontendListenerIdentifier
                  /\ {i \in Range(cb.ingresses) : i.rules = << >> /\ i.backend # None} # {}
               \/ \E r \in {x \in Range(c.rules) : IdentifierOf(c.listeners[x.listener], c.ports) = id} :
                    ServesRule(cb, RoutesOf(c, r), e, id)
    BY <2>1, Zenon DEF AllServed, IsServed, Taken
  <2> QED BY <2>2, Zenon DEF IngressesServed, RoutesOf, c, cb
<1> QED BY <1>1, <1>2, <1>3, PTL DEF Spec

=============================================================================
