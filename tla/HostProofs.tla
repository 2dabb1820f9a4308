------------------------------ MODULE HostProofs ------------------------------
(***************************************************************************)
(* A host that a target prohibits as a whole stays as it is: the names of  *)
(* listeners and rules tell whose they are, nothing that AGIC asks for is  *)
(* on such a host, and so no merge replaces what the gateway has for it.   *)
(***************************************************************************)
EXTENDS SharingProofs

-----------------------------------------------------------------------------
(* Names *)

\* What the names of listeners and rules tell: those that AGIC gives have the host
\* names of their identifiers and their own path maps, all others are the owner's.
OwnersListener(n, l) ==
    \E c \in {env.owner, env.edit} :
        n \in DOMAIN c.listeners /\ l.host = c.listeners[n].host /\ l.hosts = c.listeners[n].hosts
OwnersRule(n, r) == \E c \in {env.owner, env.edit} : n \in DOMAIN c.rules /\ r = c.rules[n]

ListenersTell(listeners) ==
    \A n \in DOMAIN listeners :
        IF n[1] = "fl"
        THEN /\ listeners[n].host = IF Len(n[2].hosts) = 1 THEN n[2].hosts[1] ELSE None
             /\ listeners[n].hosts = IF Len(n[2].hosts) > 1 THEN n[2].hosts ELSE None
        ELSE OwnersListener(n, listeners[n])

RulesTell(rules, listeners) ==
    \A n \in DOMAIN rules :
        IF n[1] = "rr"
        THEN /\ n = generateRequestRoutingRuleName(n[2])
             /\ Hosts(listeners[rules[n].listener]) = n[2].hosts
             /\ rules[n].pathMap \in {None, generateURLPathMapName(n[2])}
        ELSE OwnersRule(n, rules[n])

\* So a listener keeps its host names as long as it keeps its name.
LEMMA NamesFixHosts ==
    ASSUME OwnerApart(env), NEW old, NEW new, ListenersTell(old), ListenersTell(new),
           NEW n \in DOMAIN old \cap DOMAIN new
    PROVE  Hosts(old[n]) = Hosts(new[n])
<1>1. old[n].host = new[n].host /\ old[n].hosts = new[n].hosts
  <2>1. CASE n[1] = "fl"
    BY <2>1, Zenon DEF ListenersTell
  <2>2. CASE n[1] # "fl"
    <3>1. OwnersListener(n, old[n]) /\ OwnersListener(n, new[n])
      BY <2>2, Zenon DEF ListenersTell
    <3>2. PICK c \in {env.owner, env.edit} :
            n \in DOMAIN c.listeners /\ old[n].host = c.listeners[n].host /\ old[n].hosts = c.listeners[n].hosts
      BY <3>1, Zenon DEF OwnersListener
    <3>3. PICK d \in {env.owner, env.edit} :
            n \in DOMAIN d.listeners /\ new[n].host = d.listeners[n].host /\ new[n].hosts = d.listeners[n].hosts
      BY <3>1, Zenon DEF OwnersListener
    <3>4. c.listeners[n].host = d.listeners[n].host /\ c.listeners[n].hosts = d.listeners[n].hosts
      BY <3>2, <3>3, Zenon DEF OwnerApart
    <3> QED BY <3>2, <3>3, <3>4, Zenon
  <2> QED BY <2>1, <2>2, Zenon
<1> QED BY <1>1, Zenon DEF Hosts, NamesOf

\* The listeners of a build have such names.
LEMMA BuiltListenersTell ==
    ASSUME ListenersTell(gw.listeners), NEW cb, NEW listeners \in Listeners(cb)
    PROVE  ListenersTell(listeners)
<1> DEFINE made == {getListeners(cb, skipped) : skipped \in SkippedListeners(cb)}
           names == GetBlacklistedListeners(gw, targets)
           kept == Restrict(gw.listeners, names)
<1>1. ASSUME NEW skipped PROVE ListenersTell(getListeners(cb, skipped))
  <2> DEFINE all == [id \in DOMAIN cb.configs \ skipped |-> cb.configs[id]] ++ cb.istioListeners
             new == getListeners(cb, skipped)
  <2>1. new = [n \in {generateListenerName(id) : id \in DOMAIN all} |-> newListener(cb, n[2], all[n[2]])]
    BY Zenon DEF getListeners
  <2> HIDE DEF all, new
  <2>2. ASSUME NEW n \in DOMAIN new
        PROVE  /\ n[1] = "fl"
               /\ new[n].host = IF Len(n[2].hosts) = 1 THEN n[2].hosts[1] ELSE None
               /\ new[n].hosts = IF Len(n[2].hosts) > 1 THEN n[2].hosts ELSE None
    <3>1. PICK id : n = generateListenerName(id)
      BY <2>1, Zenon
    <3>2. n[1] = "fl"
      BY <3>1 DEF generateListenerName
    <3>3. new[n] = newListener(cb, n[2], all[n[2]])
      BY <2>1, Zenon
    <3> DEFINE i == n[2]
               config == all[n[2]]
               l == newListener(cb, i, config)
    <3> HIDE DEF i, config
    <3>4. /\ l.host = IF Len(i.hosts) = 1 THEN i.hosts[1] ELSE None
          /\ l.hosts = IF Len(i.hosts) > 1 THEN i.hosts ELSE None
      BY Zenon DEF newListener
    <3> HIDE DEF l
    <3>5. new[n] = l
      BY <3>3, Zenon DEF l, i, config
    <3> QED BY <3>2, <3>4, <3>5, Zenon DEF i
  <2> QED BY <2>2, Zenon DEF ListenersTell, new
<1>2. \A n \in DOMAIN kept : n \in DOMAIN gw.listeners /\ kept[n] = gw.listeners[n]
  <2>1. names \subseteq DOMAIN gw.listeners
    BY Zenon DEF GetBlacklistedListeners, GetBlacklistedRoutingRules, Reachable
  <2> HIDE DEF names
  <2> QED BY <2>1, Zenon DEF Restrict
<1>3. CASE Shared
  <2> HIDE DEF kept
  <2>1. PICK skipped : listeners \in MergeListeners(kept, getListeners(cb, skipped))
    BY <1>3, Zenon DEF Listeners, kept
  <2> DEFINE managed == getListeners(cb, skipped)
  <2>2. ListenersTell(managed) /\ listeners \in MergeListeners(kept, managed)
    BY <1>1, <2>1, Zenon
  <2> HIDE DEF managed
  <2>3. \A n \in DOMAIN listeners : \/ n \in DOMAIN kept /\ listeners[n] = kept[n]
                                    \/ n \in DOMAIN managed /\ listeners[n] = managed[n]
    BY <2>2, MergedListenersAre
  <2> QED BY <1>2, <2>2, <2>3, Zenon DEF ListenersTell
<1>4. CASE ~ Shared
  BY <1>1, <1>4, Zenon DEF Listeners
<1> QED BY <1>3, <1>4, Zenon

-----------------------------------------------------------------------------
(* Builds *)

\* The names of a build tell what those of the gateway told.
LEMMA BuildsTell ==
    ASSUME NoneIsNoName, TypeInv, OwnerApart(env), ListenersTell(gw.listeners),
           RulesTell(gw.rules, gw.listeners), NEW out \in Builds, out.error = "none"
    PROVE  ListenersTell(out.config.listeners) /\ RulesTell(out.config.rules, out.config.listeners)
<1>1. PICK cb, listeners, maps, ord : RoutedAs(out.config, cb, listeners, maps, ord)
  BY BuildRoutes, Zenon
<1> DEFINE config == out.config
           byID == listenersByID(listeners, config.ports)
           merged == MergedMaps(maps, byID, listeners, ord)
           kept == KeptRules(listeners, merged)
           managed == getRules(maps, byID)
<1> HIDE DEF config
<1>2. /\ listeners \in Listeners(cb) /\ config.listeners = listeners
      /\ config.rules = MergeRules(kept, managed, merged, ord).rules
  BY <1>1, Zenon DEF RoutedAs, config
<1>3. ListenersTell(listeners)
  BY <1>2, BuiltListenersTell, Zenon
<1> HIDE DEF merged
<1>4. ASSUME NEW r \in DOMAIN kept
      PROVE  IF r[1] = "rr"
             THEN /\ r = generateRequestRoutingRuleName(r[2])
                  /\ Hosts(listeners[kept[r].listener]) = r[2].hosts
                  /\ kept[r].pathMap \in {None, generateURLPathMapName(r[2])}
             ELSE OwnersRule(r, kept[r])
  <2>1. r \in DOMAIN gw.rules /\ kept[r] = gw.rules[r] /\ r \in Reachable(During(listeners))
    BY KeptRulesAre, Zenon
  <2> HIDE DEF kept
  <2>2. gw.rules[r].listener \in DOMAIN listeners
    <3>1. During(listeners).rules = gw.rules /\ During(listeners).listeners = listeners
      BY Zenon DEF During, TypeInv, WellFormed, EmptyConfig
    <3> QED BY <2>1, <3>1, Zenon DEF Reachable
  <2>3. gw.rules[r].listener \in DOMAIN gw.listeners
    BY <2>1 DEF TypeInv, Accepts, AllButPathMapsResolve, ListenersNamed, Range
  <2>4. Hosts(listeners[gw.rules[r].listener]) = Hosts(gw.listeners[gw.rules[r].listener])
    <3> DEFINE l == gw.rules[r].listener
    <3>1. l \in DOMAIN listeners \cap DOMAIN gw.listeners
      BY <2>2, <2>3, Zenon
    <3> HIDE DEF l
    <3> QED BY <1>3, <3>1, NamesFixHosts, Zenon DEF l
  <2> QED BY <2>1, <2>4, Zenon DEF RulesTell
<1>5. ASSUME NEW r \in DOMAIN managed
      PROVE  /\ r[1] = "rr" /\ r = generateRequestRoutingRuleName(r[2])
             /\ Hosts(listeners[managed[r].listener]) = r[2].hosts
             /\ managed[r].pathMap \in {None, generateURLPathMapName(r[2])}
  <2>1. PICK id \in DOMAIN maps \cap DOMAIN byID :
            /\ r = generateRequestRoutingRuleName(id) /\ managed[r].listener = byID[id]
            /\ managed[r].pathMap \in {None, generateURLPathMapName(id)}
    <3> HIDE DEF byID
    <3>1. \E id \in DOMAIN maps \cap DOMAIN byID :
            /\ r = generateRequestRoutingRuleName(id) /\ managed[r].listener = byID[id]
            /\ \/ managed[r].pathMap = None
               \/ /\ managed[r].pathMap = generateURLPathMapName(id)
                  /\ managed[r].pathMap \in DOMAIN PathMapsOfRules(maps, byID)
      BY ManagedRulesAre
    <3> HIDE DEF managed
    <3> QED BY <3>1, Zenon
  <2>2. Hosts(listeners[byID[id]]) = id.hosts
    <3>1. id \in DOMAIN byID
      BY <2>1, Zenon
    <3> QED BY <3>1, FoundByHosts, Zenon
  <2>3. r[1] = "rr" /\ r[2] = id
    BY <2>1 DEF generateRequestRoutingRuleName
  <2> HIDE DEF managed, byID
  <2> QED BY <2>1, <2>2, <2>3, Zenon
<1> HIDE DEF kept, managed
<1>6. RulesTell(config.rules, listeners)
  <2> DEFINE rules == MergeRules(kept, managed, merged, ord).rules
  <2> SUFFICES ASSUME NEW r \in DOMAIN rules
               PROVE  IF r[1] = "rr"
                      THEN /\ r = generateRequestRoutingRuleName(r[2])
                           /\ Hosts(listeners[rules[r].listener]) = r[2].hosts
                           /\ rules[r].pathMap \in {None, generateURLPathMapName(r[2])}
                      ELSE OwnersRule(r, rules[r])
    BY <1>2, Zenon DEF RulesTell
  <2>1. \/ r \in DOMAIN kept /\ rules[r] = kept[r]
        \/ r \in DOMAIN managed /\ rules[r] = managed[r]
    BY MergeTakesRules
  <2> HIDE DEF rules
  <2> QED BY <1>4, <1>5, <2>1, Zenon
<1> QED BY <1>2, <1>3, <1>6, Zenon DEF config

\* A rule on the listener of a host is not named for the identifiers of others, nor
\* is its path map, which no other rule has.
LEMMA RulesTellApart ==
    ASSUME OwnerApart(env), RulesTell(gw.rules, gw.listeners), NEW r \in DOMAIN gw.rules
    PROVE  LET m == gw.rules[r].pathMap
               hosts == Hosts(gw.listeners[gw.rules[r].listener])
           IN  /\ \A id : r = generateRequestRoutingRuleName(id) => id.hosts = hosts
               /\ m # None => /\ \A id : m = generateURLPathMapName(id) => id.hosts = hosts
                              /\ \A k \in DOMAIN gw.rules : gw.rules[k].pathMap = m => k = r
<1> DEFINE rule(x) == gw.rules[x]
           m == rule(r).pathMap
           hosts == Hosts(gw.listeners[rule(r).listener])
<1>1. \A id : generateRequestRoutingRuleName(id)[1] = "rr" /\ generateRequestRoutingRuleName(id)[2] = id
  BY DEF generateRequestRoutingRuleName
<1>2. \A id : generateURLPathMapName(id)[1] = "url" /\ generateURLPathMapName(id)[2] = id
  BY DEF generateURLPathMapName
<1>3. \A x \in DOMAIN gw.rules : x[1] = "rr" =>
        /\ x = generateRequestRoutingRuleName(x[2])
        /\ Hosts(gw.listeners[rule(x).listener]) = x[2].hosts
        /\ rule(x).pathMap \in {None, generateURLPathMapName(x[2])}
  BY Zenon DEF RulesTell
<1>4. \A x \in DOMAIN gw.rules : x[1] # "rr" => OwnersRule(x, rule(x))
  BY Zenon DEF RulesTell
<1>5. \A x : OwnersRule(x, rule(x)) /\ rule(x).pathMap # None => rule(x).pathMap[1] # "url"
  <2> SUFFICES ASSUME NEW x, OwnersRule(x, rule(x)), rule(x).pathMap # None PROVE rule(x).pathMap[1] # "url"
    BY Zenon
  <2>1. PICK c \in {env.owner, env.edit} : x \in DOMAIN c.rules /\ rule(x) = c.rules[x]
    BY Zenon DEF OwnersRule
  <2>2. c.rules[x].pathMap # None => c.rules[x].pathMap[1] # "url"
    BY <2>1, Zenon DEF OwnerApart
  <2> HIDE DEF rule
  <2> QED BY <2>1, <2>2, Zenon
<1>6. \A x, y : /\ OwnersRule(x, rule(x)) /\ OwnersRule(y, rule(y))
                /\ rule(x).pathMap = rule(y).pathMap
                => rule(x).pathMap = None \/ x = y
  <2> SUFFICES ASSUME NEW x, NEW y, OwnersRule(x, rule(x)), OwnersRule(y, rule(y)),
                      rule(x).pathMap = rule(y).pathMap
               PROVE  rule(x).pathMap = None \/ x = y
    BY Zenon
  <2>1. PICK c \in {env.owner, env.edit} : x \in DOMAIN c.rules /\ rule(x) = c.rules[x]
    BY Zenon DEF OwnersRule
  <2>2. PICK d \in {env.owner, env.edit} : y \in DOMAIN d.rules /\ rule(y) = d.rules[y]
    BY Zenon DEF OwnersRule
  <2>3. c.rules[x].pathMap = d.rules[y].pathMap => c.rules[x].pathMap = None \/ x = y
    BY <2>1, <2>2, Zenon DEF OwnerApart
  <2> HIDE DEF rule
  <2> QED BY <2>1, <2>2, <2>3, Zenon
<1> HIDE DEF rule
<1>7. \A id : r = generateRequestRoutingRuleName(id) => id.hosts = hosts
  BY <1>1, <1>3, Zenon
<1>8. ASSUME m # None, NEW id, m = generateURLPathMapName(id)
      PROVE  id.hosts = hosts
  <2>1. r[1] = "rr"
    BY <1>2, <1>4, <1>5, <1>8, Zenon
  <2>2. m = generateURLPathMapName(r[2]) /\ hosts = r[2].hosts
    BY <1>3, <1>8, <2>1, Zenon
  <2> QED BY <1>2, <1>8, <2>2, Zenon
<1>9. ASSUME m # None, NEW k \in DOMAIN gw.rules, rule(k).pathMap = m
      PROVE  k = r
  <2>1. CASE r[1] = "rr" /\ k[1] = "rr"
    <3>1. m = generateURLPathMapName(r[2]) /\ m = generateURLPathMapName(k[2])
      BY <1>3, <1>9, <2>1, Zenon
    <3>2. m[2] = r[2] /\ m[2] = k[2]
      <4>1. generateURLPathMapName(r[2])[2] = r[2] /\ generateURLPathMapName(k[2])[2] = k[2]
        BY <1>2, Zenon
      <4> HIDE DEF m
      <4> QED BY <3>1, <4>1, Zenon
    <3> QED BY <1>3, <2>1, <3>2, Zenon
  <2>2. CASE r[1] # "rr" /\ k[1] # "rr"
    BY <1>4, <1>6, <1>9, <2>2, Zenon
  <2>3. ASSUME NEW x \in {r, k}, NEW y \in {r, k}, x[1] = "rr", y[1] # "rr"
        PROVE  FALSE
    <3>1. m = generateURLPathMapName(x[2])
      BY <1>3, <1>9, <2>3, Zenon
    <3>2. m[1] # "url"
      BY <1>4, <1>5, <1>9, <2>3, Zenon
    <3> QED BY <1>2, <3>1, <3>2, Zenon
  <2> QED BY <2>1, <2>2, <2>3, Zenon
<1> QED BY <1>7, <1>8, <1>9, Zenon DEF rule

\* A build that does not fail leaves alone a host that is prohibited as a whole,
\* once prohibited ingresses are pruned.
LEMMA WholeHostStays ==
    ASSUME NoneIsNoName, TypeInv, MapsHaveRules(gw), OwnerApart(env), ListenersTell(gw.listeners),
           RulesTell(gw.rules, gw.listeners), AsksApart(ingresses), PruneList = "with",
           NEW out \in Builds, out.error = "none", NEW l \in DOMAIN gw.listeners,
           gw.listeners[l].host \notin {"", None}, Whole(gw.listeners[l].host, targets)
    PROVE  LET new == out.config IN
           /\ l \in DOMAIN new.listeners /\ new.listeners[l] = gw.listeners[l]
           /\ \A r \in DOMAIN gw.rules : gw.rules[r].listener = l =>
                LET m == gw.rules[r].pathMap IN
                /\ r \in DOMAIN new.rules /\ new.rules[r] = gw.rules[r]
                /\ m # None => m \in DOMAIN new.pathMaps /\ new.pathMaps[m] = gw.pathMaps[m]
<1> DEFINE h == gw.listeners[l].host
           names == GetBlacklistedListeners(gw, targets)
           kept == Restrict(gw.listeners, names)
<1>1. PICK t \in targets : t.host = h
  BY Zenon DEF Whole
<1>2. Shared
  <2>1. env.brownfield \/ env.targetSets \subseteq {{}}
    BY SetupsAreWellFormed, Zenon DEF TypeInv, env
  <2> QED BY <1>1, <2>1, Zenon DEF Shared, TypeInv
<1>3. l \in names /\ names \subseteq DOMAIN gw.listeners
  BY <1>1, Zenon DEF GetBlacklistedListeners, GetBlacklistedRoutingRules, Reachable
<1> HIDE DEF names
<1>4. Alone(kept, l)
  <2> SUFFICES ASSUME NEW k \in names, Key(gw.listeners[k]) = Key(gw.listeners[l]) PROVE k = l
    BY <1>3, Zenon DEF Restrict, Alone
  <2> QED BY <1>3, KeysAreDistinct, Zenon DEF TypeInv
<1>5. l \in DOMAIN kept /\ kept[l] = gw.listeners[l]
  BY <1>3, Zenon DEF Restrict
<1>6. PICK cb, listeners, maps, ord : RoutedAs(out.config, cb, listeners, maps, ord)
  BY BuildRoutes, Zenon
<1> DEFINE config == out.config
           byID == listenersByID(listeners, config.ports)
           merged == MergedMaps(maps, byID, listeners, ord)
           rules == KeptRules(listeners, merged)
           managed == getRules(maps, byID)
           new == MergeRules(rules, managed, merged, ord)
           during == During(listeners)
<1> HIDE DEF config
<1>7. /\ cb \in Contexts /\ listeners \in Listeners(cb) /\ config.listeners = listeners
      /\ DOMAIN maps \subseteq AskedIDs(cb)
      /\ config.rules = new.rules /\ config.pathMaps = new.pathMaps
  BY <1>6, Zenon DEF RoutedAs, config
<1>8. l \in DOMAIN listeners /\ listeners[l] = gw.listeners[l]
  <2>1. PICK other : listeners \in MergeListeners(kept, other)
    BY <1>2, <1>7, Zenon DEF Listeners, names
  <2> HIDE DEF kept
  <2>2. l \in DOMAIN kept
    BY <1>5, Zenon
  <2>3. StaysIn(l, kept, listeners)
    BY <1>4, <2>1, <2>2, KeptListenerStays, Zenon
  <2> QED BY <1>5, <2>3, Zenon DEF StaysIn
<1> HIDE DEF kept
<1>9. Hosts(gw.listeners[l]) = <<h>> /\ Hosts(listeners[l]) = <<h>>
  <2>1. gw.listeners[l].hosts = None
    BY Zenon DEF TypeInv, WellFormed, Range
  <2> DEFINE x == gw.listeners[l]
  <2>2. x.hosts = None /\ x.host # None /\ x.host = h
    BY <2>1, Zenon
  <2> HIDE DEF x
  <2>3. Hosts(x) = <<x.host>>
    BY <2>2, SingleHost, Zenon
  <2>4. Hosts(gw.listeners[l]) = <<h>>
    BY <2>2, <2>3, Zenon DEF x
  <2> QED BY <1>8, <2>4, Zenon
<1>10. \A id \in DOMAIN maps : id.hosts # <<h>>
  BY <1>2, <1>7, NothingIsAskedOfWholeHosts, Zenon
<1>11. Elsewhere(managed, PathMapsOfRules(maps, byID), l, <<h>>)
  <2> HIDE DEF h
  <2>1. \A id \in DOMAIN maps : id.hosts # Hosts(listeners[l])
    BY <1>9, <1>10, Zenon
  <2>2. Elsewhere(managed, PathMapsOfRules(maps, byID), l, Hosts(listeners[l]))
    BY <2>1, ManagedIsElsewhere, Zenon
  <2> QED BY <1>9, <2>2, Zenon
<1>12. during.rules = gw.rules /\ during.listeners = listeners
  BY Zenon DEF During, TypeInv, WellFormed, EmptyConfig
<1>13. \A path : IsBlacklisted(h, path, targets)
  BY WholeHosts, Zenon
<1> HIDE DEF byID, managed, during, merged
<1>14. ASSUME NEW r \in DOMAIN gw.rules, gw.rules[r].listener = l
       PROVE  /\ r \in DOMAIN new.rules /\ new.rules[r] = gw.rules[r]
              /\ LET m == gw.rules[r].pathMap
                 IN  m # None => m \in DOMAIN new.pathMaps /\ new.pathMaps[m] = gw.pathMaps[m]
  <2> DEFINE m == gw.rules[r].pathMap
  <2>1. r \in Reachable(during) /\ HostOfRule(during, r) = h
    BY <1>8, <1>12, <1>14, Zenon DEF Reachable, HostOfRule
  <2>2. r \in DOMAIN rules /\ rules[r] = gw.rules[r]
    <3>1. r \in DOMAIN rules
      BY <1>2, <1>13, <2>1, KeptRulesAre, Zenon DEF during
    <3> QED BY <3>1, KeptRulesAre, Zenon
  <2>3. \A k \in DOMAIN rules : k \in DOMAIN gw.rules /\ rules[k] = gw.rules[k]
    BY KeptRulesAre, Zenon
  <2> HIDE DEF rules
  <2>4. /\ \A id : r = generateRequestRoutingRuleName(id) => id.hosts = <<h>>
        /\ m # None => /\ \A id : m = generateURLPathMapName(id) => id.hosts = <<h>>
                       /\ \A k \in DOMAIN gw.rules : gw.rules[k].pathMap = m => k = r
    BY <1>9, <1>14, RulesTellApart, Zenon
  <2> HIDE DEF h
  <2>5. r \notin DOMAIN managed /\ \A x \in DOMAIN managed : managed[x].listener # rules[r].listener
    BY <1>11, <1>14, <2>2, <2>4, Zenon DEF Elsewhere
  <2>6. LeftAlone(new, r, rules, managed, merged)
    BY <2>2, <2>5, MergeLeavesAlone, Zenon
  <2>7. ASSUME m # None
        PROVE  m \in DOMAIN new.pathMaps /\ new.pathMaps[m] = gw.pathMaps[m]
    <3>1. m \in DOMAIN gw.pathMaps
      BY <2>7 DEF TypeInv, Accepts, PathMapsNamed, Range
    <3>2. gw.pathMaps[m].rules # << >>
      BY <3>1, Zenon DEF MapsHaveRules
    <3>3. m \in DOMAIN KeptMaps(listeners) /\ KeptMaps(listeners)[m] = gw.pathMaps[m]
      <4>1. m \in DOMAIN KeptMaps(listeners)
        BY <1>2, <1>13, <2>1, <3>1, <3>2, KeptMapsAre, Zenon DEF during
      <4> QED BY <4>1, KeptMapsAre, Zenon
    <3>4. m \notin DOMAIN PathMapsOfRules(maps, byID)
      BY <1>11, <2>4, <2>7, Zenon DEF Elsewhere
    <3>5. m \in DOMAIN merged /\ merged[m] = gw.pathMaps[m]
      <4> HIDE DEF m
      <4>1. Stays(m, KeptMaps(listeners), merged)
        BY <3>3, <3>4, KeptMapsStay, Zenon DEF merged
      <4> QED BY <3>3, <4>1, Zenon DEF Stays
    <3>6. \A x \in DOMAIN managed : managed[x].pathMap # m
      BY <1>11, <2>7, <3>4, Zenon DEF Elsewhere
    <3>7. \A k \in DOMAIN rules : rules[k].pathMap = m => k = r
      BY <2>3, <2>4, <2>7, Zenon
    <3>8. rules[r].pathMap = m
      BY <2>2, Zenon
    <3> HIDE DEF m, new
    <3> QED BY <2>6, <3>5, <3>6, <3>7, <3>8, Zenon DEF LeftAlone
  <2> HIDE DEF new
  <2> QED BY <2>2, <2>6, <2>7, Zenon DEF LeftAlone
<1> HIDE DEF new
<1> QED BY <1>7, <1>8, <1>14, Zenon DEF config

-----------------------------------------------------------------------------
(* The steps *)

\* The names of a gateway tell its hosts.
NamesTell(c) == ListenersTell(c.listeners) /\ RulesTell(c.rules, c.listeners)

\* Names go on telling.
LEMMA OverlayTells ==
    ASSUME TypeInv, OwnerApart(env), NamesTell(gw)
    PROVE  NamesTell(Overlay(gw, OwnerPart))
<1> DEFINE edit == env.edit
           new == Overlay(gw, OwnerPart)
<1>1. /\ Over(new.rules, edit.rules, gw.rules)
      /\ DOMAIN new.listeners = DOMAIN edit.listeners \cup DOMAIN gw.listeners
      /\ \A l \in DOMAIN new.listeners :
            LET like == IF l \in DOMAIN edit.listeners THEN edit.listeners[l] ELSE gw.listeners[l]
            IN  new.listeners[l].host = like.host /\ new.listeners[l].hosts = like.hosts
  BY OverlayIs, Zenon
<1> HIDE DEF new, edit
<1>2. /\ \A l \in DOMAIN edit.listeners : l[1] # "fl"
      /\ \A r \in DOMAIN edit.rules : r[1] # "rr"
  BY Zenon DEF OwnerApart, edit
<1>3. ListenersTell(new.listeners)
  <2> SUFFICES ASSUME NEW n \in DOMAIN new.listeners
               PROVE  LET l == new.listeners[n] IN
                      IF n[1] = "fl"
                      THEN /\ l.host = IF Len(n[2].hosts) = 1 THEN n[2].hosts[1] ELSE None
                           /\ l.hosts = IF Len(n[2].hosts) > 1 THEN n[2].hosts ELSE None
                      ELSE OwnersListener(n, l)
    BY Zenon DEF ListenersTell
  <2>1. CASE n \in DOMAIN edit.listeners
    <3>1. OwnersListener(n, new.listeners[n])
      BY <1>1, <2>1, Zenon DEF OwnersListener, edit
    <3> QED BY <1>2, <2>1, <3>1, Zenon
  <2>2. CASE n \notin DOMAIN edit.listeners
    <3>1. /\ n \in DOMAIN gw.listeners
          /\ new.listeners[n].host = gw.listeners[n].host /\ new.listeners[n].hosts = gw.listeners[n].hosts
      BY <1>1, <2>2, Zenon
    <3> DEFINE old == gw.listeners[n]
    <3>2. IF n[1] = "fl"
          THEN /\ old.host = IF Len(n[2].hosts) = 1 THEN n[2].hosts[1] ELSE None
               /\ old.hosts = IF Len(n[2].hosts) > 1 THEN n[2].hosts ELSE None
          ELSE OwnersListener(n, old)
      BY <3>1, Zenon DEF NamesTell, ListenersTell
    <3>3. OwnersListener(n, old) => OwnersListener(n, new.listeners[n])
      BY <3>1, Zenon DEF OwnersListener
    <3> QED BY <3>1, <3>2, <3>3, Zenon
  <2> QED BY <2>1, <2>2, Zenon
<1>4. RulesTell(new.rules, new.listeners)
  <2> SUFFICES ASSUME NEW r \in DOMAIN new.rules
               PROVE  IF r[1] = "rr"
                      THEN /\ r = generateRequestRoutingRuleName(r[2])
                           /\ Hosts(new.listeners[new.rules[r].listener]) = r[2].hosts
                           /\ new.rules[r].pathMap \in {None, generateURLPathMapName(r[2])}
                      ELSE OwnersRule(r, new.rules[r])
    BY Zenon DEF RulesTell
  <2>1. CASE r \in DOMAIN edit.rules
    <3>1. new.rules[r] = edit.rules[r]
      BY <1>1, <2>1, Zenon DEF Over
    <3>2. OwnersRule(r, new.rules[r])
      BY <2>1, <3>1, Zenon DEF OwnersRule, edit
    <3> QED BY <1>2, <2>1, <3>2, Zenon
  <2>2. CASE r \notin DOMAIN edit.rules
    <3> DEFINE l == gw.rules[r].listener
    <3>1. r \in DOMAIN gw.rules /\ new.rules[r] = gw.rules[r]
      BY <1>1, <2>2, Zenon DEF Over
    <3>2. l \in DOMAIN gw.listeners \cap DOMAIN new.listeners
      <4>1. l \in DOMAIN gw.listeners
        BY <3>1 DEF TypeInv, Accepts, AllButPathMapsResolve, ListenersNamed, Range
      <4> QED BY <1>1, <4>1, Zenon
    <3> HIDE DEF l
    <3>3. Hosts(gw.listeners[l]) = Hosts(new.listeners[l])
      BY <1>3, <3>2, NamesFixHosts, Zenon DEF NamesTell
    <3> QED BY <3>1, <3>3, Zenon DEF NamesTell, RulesTell, l
  <2> QED BY <2>1, <2>2, Zenon
<1> QED BY <1>3, <1>4, Zenon DEF NamesTell, new

-----------------------------------------------------------------------------
(* Prohibited hosts *)

\* What the hosts that are left alone rest on: names tell hosts, nobody asks for
\* prohibited hosts by annotation, and a call decides which ingresses are pruned.
Told ==
    /\ TypeInv /\ MapsHaveRules(gw) /\ NamesTell(gw)
    /\ AsksApart(spec) /\ AsksApart(ingresses)
    /\ last # None => pruneList # "unset" \/ last.outcome = "panic"

\* The catalog is such.
LEMMA NoTargetsApart ==
    ASSUME HostsApart(env), NEW n \in DOMAIN env.catalog, NEW i \in env.catalog[n]
    PROVE  Apart(i.extended)
  BY Zenon DEF HostsApart, Apart

\* At the start.
LEMMA InitIsTold == ASSUME MapsAreUsed, OwnersAreApart, Init PROVE Told
<1>1. TypeInv
  BY InitIsGood, Zenon
<1>2. OwnerApart(env) /\ HostsApart(env) /\ MapsHaveRules(env.owner)
  BY <1>1, Zenon DEF OwnersAreApart, MapsAreUsed, TypeInv, env
<1>3. gw = env.owner /\ ingresses = spec /\ last = None
  BY Zenon DEF Init
<1>4. ListenersTell(env.owner.listeners) /\ RulesTell(env.owner.rules, env.owner.listeners)
  <2> DEFINE owner == env.owner
  <2>1. \A l \in DOMAIN owner.listeners : l[1] # "fl" /\ OwnersListener(l, owner.listeners[l])
    BY <1>2, Zenon DEF OwnerApart, OwnersListener
  <2>2. \A r \in DOMAIN owner.rules : r[1] # "rr" /\ OwnersRule(r, owner.rules[r])
    BY <1>2, Zenon DEF OwnerApart, OwnersRule
  <2> HIDE DEF owner
  <2> QED BY <2>1, <2>2, Zenon DEF ListenersTell, RulesTell, owner
<1>5. AsksApart(spec)
  <2>1. \A n \in DOMAIN spec : n \in DOMAIN env.catalog /\ spec[n] \in env.catalog[n] \cup {None}
    BY Zenon DEF Init
  <2> QED BY <1>2, <2>1, NoTargetsApart, Zenon DEF AsksApart
<1> QED BY <1>1, <1>2, <1>3, <1>4, <1>5, Zenon DEF Told, NamesTell

\* The names of listeners and rules are not the concern of a step that leaves the
\* gateway alone.
LEMMA StepIsTold ==
    ASSUME NoneIsNoName, MapsAreUsed, OwnersAreApart, Told, [Next]_vars
    PROVE  Told'
<1>1. TypeInv' /\ MapsHaveRules(gw)'
  BY StepIsGood, MapsKeepRules, Zenon DEF Told
<1>2. OwnerApart(env) /\ HostsApart(env) /\ env' = env
  <2>1. setup' = setup
    BY Zenon DEF Next, vars, MutateAKS, MutateAppGateway, Prune, MutatePanics, ChangeIngress, ChangeService, ChangeSecrets,
             ChangeTargets, ChangeMesh, OwnerEdits, Restart, Change
  <2> QED BY <2>1, Zenon DEF Told, OwnersAreApart, TypeInv, env
<1>3. NamesTell(gw')
  <2>1. CASE MutateAppGateway
    <3>1. PICK out \in Builds : gw' = gw \/ (gw' = out.config /\ out.error = "none")
      BY <2>1, Zenon DEF MutateAppGateway, MutateFails, MutateSkips, MutatePuts, MutatePutFails, MutatePanics
    <3>2. out.error = "none" => NamesTell(out.config)
      BY <1>2, BuildsTell, Zenon DEF Told, NamesTell
    <3> QED BY <3>1, <3>2, Zenon DEF Told
  <2>2. CASE OwnerEdits
    BY <1>2, <2>2, OverlayTells, Zenon DEF OwnerEdits, Told
  <2>3. CASE ~ MutateAppGateway /\ ~ OwnerEdits
    <3>1. gw' = gw
      BY <2>3, Zenon DEF Next, vars, MutateAKS, ChangeIngress, ChangeService, ChangeSecrets, ChangeTargets,
                          ChangeMesh, Restart
    <3> QED BY <3>1, Zenon DEF Told
  <2> QED BY <2>1, <2>2, <2>3, Zenon
<1>4. NamesTell(gw)'
  BY <1>2, <1>3, Zenon DEF NamesTell, ListenersTell, RulesTell, OwnersListener, OwnersRule
<1>5. AsksApart(spec') /\ AsksApart(ingresses')
  <2>1. CASE MutateAppGateway
    <3>1. spec' = spec /\ (ingresses' = PrunedStore \/ ingresses' = spec)
      BY <2>1, Zenon DEF MutateAppGateway, Prune, MutatePanics
    <3> QED BY <3>1, PruningIsApart, Zenon DEF Told
  <2>2. CASE ChangeIngress
    <3>1. PICK n \in DOMAIN spec : \E i \in env.catalog[n] \cup {None} :
            spec' = [spec EXCEPT ![n] = i] /\ ingresses' = [ingresses EXCEPT ![n] = i]
      BY <2>2, Zenon DEF ChangeIngress
    <3>2. PICK i \in env.catalog[n] \cup {None} :
            spec' = [spec EXCEPT ![n] = i] /\ ingresses' = [ingresses EXCEPT ![n] = i]
      BY <3>1, Zenon
    <3>3. i # None => Apart(i.extended)
      BY <1>2, <3>2, NoTargetsApart, Zenon DEF Told, TypeInv, GoodStore
    <3> QED BY <3>2, <3>3, Zenon DEF Told, AsksApart
  <2>3. CASE ~ MutateAppGateway /\ ~ ChangeIngress
    <3>1. spec' = spec /\ (ingresses' = ingresses \/ ingresses' = spec)
      BY <2>3, Zenon DEF Next, vars, cluster, MutateAKS, ChangeService, ChangeSecrets, ChangeTargets,
                          ChangeMesh, OwnerEdits, Restart
    <3> QED BY <3>1, Zenon DEF Told
  <2> QED BY <2>1, <2>2, <2>3, Zenon
<1>6. AsksApart(spec)' /\ AsksApart(ingresses)'
  BY <1>2, <1>5, Zenon DEF AsksApart, Apart
<1>7. (last # None => pruneList # "unset" \/ last.outcome = "panic")'
  <2>1. CASE MutateAppGateway
    <3>1. PICK out \in Builds : Prune \/ MutatePanics(out)
      BY <2>1, Zenon DEF MutateAppGateway
    <3>2. CASE Prune
      BY <3>2, Zenon DEF Prune, PruneList
    <3>3. CASE MutatePanics(out)
      BY <3>3, Zenon DEF MutatePanics, Done
    <3> QED BY <3>1, <3>2, <3>3, Zenon
  <2>2. CASE ~ MutateAppGateway
    BY <2>2, Zenon DEF Next, vars, MutateAKS, ChangeIngress, ChangeService, ChangeSecrets, ChangeTargets,
                        ChangeMesh, OwnerEdits, Restart, Change, Told
  <2> QED BY <2>1, <2>2, Zenon
<1> QED BY <1>1, <1>4, <1>6, <1>7, Zenon DEF Told

\* A call leaves alone the hosts that are prohibited as a whole.
LEMMA CallLeavesHosts ==
    ASSUME NoneIsNoName, OwnersAreApart, Told, MutateAppGateway
    PROVE  ProhibitedHostUntouched'
<1>1. PICK out \in Builds :
        /\ last'.config = out.config /\ last'.before = gw /\ last'.targets = targets
        /\ IF out.error = "none" THEN last'.outcome \in {"same", "put", "failed"}
                                 ELSE last'.outcome = out.error /\ out.error \in {"settings", "panic"}
  BY CallNotes, Zenon
<1>2. CASE out.error # "none"
  BY <1>1, <1>2, Zenon DEF ProhibitedHostUntouched, Made
<1>3. CASE pruneList' # "with"
  BY <1>3, Zenon DEF ProhibitedHostUntouched
<1>4. CASE out.error = "none" /\ pruneList' = "with"
  <2> DEFINE whole == {t.host : t \in {x \in targets : x.paths = {} \/ <<"", "*">> \in x.paths}} \ {""}
             new == out.config
  <2>1. PruneList = "with"
    <3>1. pruneList' = PruneList \/ pruneList' = "unset"
      BY Zenon DEF MutateAppGateway, Prune, MutatePanics
    <3> QED BY <1>4, <3>1, Zenon
  <2>2. OwnerApart(env) /\ \A t \in targets : t.host # None
    BY Zenon DEF OwnersAreApart, HostsApart, Told, TypeInv, env
  <2>3. ASSUME NEW l \in DOMAIN gw.listeners, gw.listeners[l].host \in whole
        PROVE  /\ l \in DOMAIN new.listeners /\ new.listeners[l] = gw.listeners[l]
               /\ \A r \in DOMAIN gw.rules : gw.rules[r].listener = l =>
                    LET m == gw.rules[r].pathMap IN
                    /\ r \in DOMAIN new.rules /\ new.rules[r] = gw.rules[r]
                    /\ m # None => m \in DOMAIN new.pathMaps /\ new.pathMaps[m] = gw.pathMaps[m]
    <3>1. Whole(gw.listeners[l].host, targets) /\ gw.listeners[l].host \notin {"", None}
      BY <2>2, <2>3, Zenon DEF Whole
    <3> HIDE DEF whole
    <3> QED BY <1>4, <2>1, <2>2, <3>1, WholeHostStays, Zenon DEF Told, NamesTell
  <2> HIDE DEF whole, new
  <2>4. HostsStay(gw, new, targets)
    BY <2>3, Zenon DEF HostsStay, whole
  <2> QED BY <1>1, <2>4, Zenon DEF ProhibitedHostUntouched, new
<1> QED BY <1>2, <1>3, <1>4, Zenon

\* A host that a target prohibits as a whole stays as it is, for all setups in which
\* the owner's names are not AGIC's, each path map of the owner has path rules and
\* one rule, and no annotation asks for the host: its listeners, their rules and the
\* path maps of these are in every configuration that MutateAppGateway makes once
\* pruning is in force, and what AGIC had made for the host before is kept too.
THEOREM ProhibitedHostsStay ==
    ASSUME NoneIsNoName, MapsAreUsed, OwnersAreApart
    PROVE  Spec => []ProhibitedHostUntouched
<1> DEFINE Inv == Told /\ ProhibitedHostUntouched
<1>1. Init => Inv
  BY InitIsTold, Zenon DEF Init, ProhibitedHostUntouched, Made
<1>2. Inv /\ [Next]_vars => Inv'
  <2> SUFFICES ASSUME Told, ProhibitedHostUntouched, [Next]_vars PROVE Told' /\ ProhibitedHostUntouched'
    BY Zenon
  <2>1. Told'
    BY StepIsTold, Zenon
  <2>2. CASE MutateAppGateway
    BY <2>1, <2>2, CallLeavesHosts, Zenon
  <2>3. CASE last' = None
    BY <2>1, <2>3, Zenon DEF ProhibitedHostUntouched, Made
  <2>4. CASE ~ MutateAppGateway /\ last' = last /\ last # None
    <3>1. pruneList' = pruneList \/ last' = None \/ last.outcome = "panic"
      BY <2>4, Zenon DEF Told, Next, vars, MutateAKS, ChangeIngress, ChangeService, ChangeSecrets,
                         ChangeTargets, ChangeMesh, OwnerEdits, Restart, Change
    <3>2. ProhibitedHostUntouched'
      BY <2>4, <3>1, Zenon DEF ProhibitedHostUntouched, Made
    <3> QED BY <2>1, <3>2, Zenon
  <2> QED BY <2>1, <2>2, <2>3, <2>4, OtherStepsForget, Zenon DEF vars
<1>3. Inv => ProhibitedHostUntouched
  BY Zenon
<1> QED BY <1>1, <1>2, <1>3, PTL DEF Spec
=============================================================================
