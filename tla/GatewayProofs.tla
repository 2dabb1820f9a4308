---------------------------- MODULE GatewayProofs -----------------------------
(***************************************************************************)
(* What a call of MutateAppGateway builds from a well-formed gateway: the  *)
(* contexts it is given, the rules and path maps it makes and keeps, and   *)
(* the configuration they add up to.                                       *)
(***************************************************************************)
EXTENDS Gateway, BuilderProofs

-----------------------------------------------------------------------------
(* Gateways *)

\* A gateway has one listener for a host name, protocol, port and IP; and one for
\* all other hosts unless a listener has a list of host names.
LEMMA KeysAreDistinct ==
    ASSUME NEW c, WellFormed(c), Accepts(c), NEW l \in DOMAIN c.listeners, NEW k \in DOMAIN c.listeners,
           Key(c.listeners[l]) = Key(c.listeners[k]),
           \/ c.listeners[l].host \notin {None, ""}
           \/ \A x \in Range(c.listeners) : x.hosts = None /\ x.host # ""
    PROVE  l = k
<1> DEFINE x == c.listeners[l]
           y == c.listeners[k]
<1>1. x \in Range(c.listeners) /\ y \in Range(c.listeners)
  BY Zenon DEF Range
<1>2. /\ x.port = y.port /\ x.private = y.private
      /\ (IF x.host = None THEN "" ELSE x.host) = (IF y.host = None THEN "" ELSE y.host)
  BY Zenon DEF Key
<1>3. x.host = y.host /\ x.hosts = None /\ y.hosts = None
  BY <1>1, <1>2, Zenon DEF WellFormed
<1>4. IdentifierOf(x, c.ports) = IdentifierOf(y, c.ports)
  BY <1>2, <1>3, Zenon DEF IdentifierOf
<1> QED BY <1>4, Zenon DEF Accepts

-----------------------------------------------------------------------------
(* Pruning *)

\* The ingresses of the API server and of the store are as in the catalog, where
\* those of the store may have been pruned.
GoodStore(store) ==
    /\ DOMAIN store = DOMAIN env.catalog
    /\ \A n \in DOMAIN store : store[n] = None \/ (store[n].name = n /\ WellFormedIngress(store[n]))

TypeInv ==
    /\ setup \in DOMAIN Setups /\ targets \in env.targetSets /\ mesh \in env.meshes
    /\ GoodStore(spec) /\ GoodStore(ingresses)
    /\ WellFormed(gw) /\ Accepts(gw)

\* A listed ingress is in the store, under its name.
LEMMA ListedAreStored ==
    ASSUME TypeInv, NEW i \in Range(ListHTTPIngresses(ingresses))
    PROVE  /\ i # None /\ i.name \in DOMAIN ingresses /\ ingresses[i.name] = i
           /\ WellFormedIngress(ingresses[i.name])
<1> DEFINE listed(n) == ingresses[n] # None /\ (ingresses[n].rules = << >> \/ hasHTTPRule(ingresses[n]))
           known == {n \in Range(env.order) : listed(n)}
           names == Listed(env.order, known)
<1>1. ListHTTPIngresses(ingresses) = [k \in DOMAIN names |-> ingresses[names[k]]]
  BY Zenon DEF ListHTTPIngresses
<1>2. IsSeq(env.order) /\ Range(env.order) \subseteq DOMAIN env.catalog
  BY SetupsAreWellFormed, Zenon DEF TypeInv, env
<1>3. Range(names) = Range(env.order) \cap known
  BY <1>2, ListedIs, Zenon
<1>4. \A n \in known : ingresses[n] # None
  BY Zenon
<1> HIDE DEF names, known
<1>5. PICK k \in DOMAIN names : i = ingresses[names[k]]
  BY <1>1, Zenon DEF Range
<1>6. names[k] \in known /\ names[k] \in DOMAIN env.catalog
  BY <1>2, <1>3, Zenon DEF Range
<1> QED BY <1>4, <1>5, <1>6, Zenon DEF TypeInv, GoodStore

\* Pruning leaves well-formed ingresses in the store.
LEMMA PrunedStoreIsGood ==
    ASSUME TypeInv
    PROVE  /\ GoodStore(PrunedStore)
           /\ \A i \in Range(ListHTTPIngresses(ingresses)) :
                PrunedStore[i.name].name = i.name /\ WellFormedIngress(PrunedStore[i.name])
<1> DEFINE listed == {i.name : i \in Range(ListHTTPIngresses(ingresses))}
           prune(n) == [ingresses[n] EXCEPT !.rules = PruneIngressRules(@, targets)]
<1>1. PrunedStore = IF PruneList = "with" /\ Shared
                    THEN [n \in DOMAIN ingresses |-> IF n \in listed THEN prune(n) ELSE ingresses[n]]
                    ELSE ingresses
  BY Zenon DEF PrunedStore
<1>2. \A n \in listed : n \in DOMAIN ingresses /\ ingresses[n].name = n /\ WellFormedIngress(ingresses[n])
  BY ListedAreStored, Zenon
<1> HIDE DEF listed
<1>3. ASSUME NEW n \in listed PROVE prune(n).name = n /\ WellFormedIngress(prune(n))
  <2>1. /\ DOMAIN ingresses[n] = IngressParts /\ GoodRules(ingresses[n].rules)
        /\ IsSeq(ingresses[n].tls) /\ ingresses[n].name = n
        /\ IsSeq(ingresses[n].extended) /\ None \notin Range(ingresses[n].extended)
    BY <1>2, Zenon DEF WellFormedIngress, GoodRules
  <2>2. /\ DOMAIN prune(n) = IngressParts /\ prune(n).name = n /\ prune(n).tls = ingresses[n].tls
        /\ prune(n).rules = PruneIngressRules(ingresses[n].rules, targets)
        /\ prune(n).extended = ingresses[n].extended
    BY <2>1, Zenon DEF IngressParts
  <2>3. GoodRules(PruneIngressRules(ingresses[n].rules, targets))
    BY <2>1, PrunedRulesAreGood, Zenon
  <2> HIDE DEF prune
  <2> QED BY <2>1, <2>2, <2>3, Zenon DEF WellFormedIngress, GoodRules
<1> HIDE DEF prune
<1>4. \A n \in listed : PrunedStore[n].name = n /\ WellFormedIngress(PrunedStore[n])
  BY <1>1, <1>2, <1>3, Zenon
<1>5. GoodStore(PrunedStore)
  BY <1>1, <1>3, Zenon DEF TypeInv, GoodStore
<1> QED BY <1>4, <1>5, Zenon DEF listed

\* The builder is given a sequence of well-formed ingresses with different names.
LEMMA PrunedIngressesAreGood ==
    ASSUME TypeInv
    PROVE  /\ IsSeq(PruneIngress) /\ \A i \in Range(PruneIngress) : WellFormedIngress(i)
           /\ \A i, j \in Range(PruneIngress) : i.name = j.name => i = j
<1> DEFINE listed == {i.name : i \in Range(ListHTTPIngresses(ingresses))}
           valid(n) == /\ n \in listed
                       /\ PrunedStore[n].private => env.hasPrivateIP
                       /\ PrunedStore[n].redirect => PrunedStore[n].tls # << >>
           some == {n \in Range(env.order) : valid(n)}
           names == Listed(env.order, some)
<1>1. PruneIngress = [k \in DOMAIN names |-> PrunedStore[names[k]]]
  BY Zenon DEF PruneIngress
<1>2. IsSeq(env.order)
  BY SetupsAreWellFormed, Zenon DEF TypeInv, env
<1>3. some \subseteq listed
  BY Zenon
<1>4. IsSeq(names) /\ Range(names) = Range(env.order) \cap some
  BY <1>2, ListedIs, Zenon
<1> HIDE DEF names, some
<1>5. DOMAIN names = 1..Len(names) /\ Len(names) \in Nat
  BY <1>4, SeqIs, Zenon DEF IsSeq
<1>6. \A n \in listed : PrunedStore[n].name = n /\ WellFormedIngress(PrunedStore[n])
  BY PrunedStoreIsGood, Zenon
<1> HIDE DEF listed
<1>7. \A k \in DOMAIN names : /\ PrunedStore[names[k]].name = names[k]
                              /\ WellFormedIngress(PrunedStore[names[k]])
  BY <1>3, <1>4, <1>6, Zenon DEF Range
<1>8. PruneIngress \in Seq({PrunedStore[names[k]] : k \in DOMAIN names})
  BY <1>1, <1>5
<1> QED BY <1>7, <1>8, SeqIs

-----------------------------------------------------------------------------
(* Contexts *)

\* The path maps that Istio asks for are well-formed in whatever order the
\* virtual services are listed, and name what Istio asks for.
LEMMA IstioPartsAreMade ==
    ASSUME NoneIsNoName, TypeInv, NEW parts \in IstioParts
    PROVE  /\ MadeMaps(parts.istioPathMaps, ThereForIstio(parts))
           /\ \A id \in DOMAIN parts.istioListeners : ~ parts.istioListeners[id].https
           /\ \A n \in DOMAIN parts.istioSettings : parts.istioSettings[n] = None
<1> DEFINE vs == mesh.virtualServices
           names == DOMAIN getIstioSettings(services, AnOrder(vs))
<1>1. IsFiniteSet(vs)
  BY SetupsAreWellFormed, Zenon DEF TypeInv, env
<1>2. PICK order \in Orders(vs), first \in IF names = {} THEN {None} ELSE names :
        parts = [istioListeners |-> getListenerConfigsFromIstio(mesh.servers, order),
                 istioPathMaps |-> getIstioPathMaps(services, order, first),
                 istioPools |-> getIstioPools(services, order),
                 istioSettings |-> getIstioSettings(services, order)]
  BY DEF IstioParts
<1>3. IsSeq(order) /\ Range(order) = vs /\ Range(AnOrder(vs)) = vs
  BY <1>1, ListingsAre, Zenon
<1>4. getIstioDestinations(services, order) = getIstioDestinations(services, AnOrder(vs))
  BY <1>3, Zenon DEF getIstioDestinations, istioDestinationIds
<1>5. names = {generateHTTPSettingsName(d[2], d[1]) : d \in getIstioDestinations(services, AnOrder(vs))}
  BY Zenon DEF getIstioSettings
<1>6. names = DOMAIN getIstioSettings(services, order)
  BY <1>4, Zenon DEF getIstioSettings
<1> HIDE DEF vs, names
<1>7. first = None => getIstioDestinations(services, order) = {}
  BY <1>2, <1>4, <1>5, Zenon DEF NoneIsNoName
<1> DEFINE to == ThereForIstio(parts)
<1>8. /\ to.pools = {DefaultBackendAddressPoolName} \cup getIstioPools(services, order)
      /\ to.settings = {DefaultBackendHTTPSettingsName} \cup names
  BY <1>2, <1>6, Zenon DEF ThereForIstio
<1> HIDE DEF to
<1>9. MadeMaps(getIstioPathMaps(services, order, first), to)
  <2>1. HasDefaults(to) /\ first \in to.settings \cup {None} /\ getIstioPools(services, order) \subseteq to.pools
    BY <1>2, <1>8, Zenon DEF HasDefaults
  <2> QED BY <1>3, <1>7, <2>1, IstioPathMapsAreMade, Zenon
<1>10. \A id \in DOMAIN parts.istioListeners : ~ parts.istioListeners[id].https
  BY <1>2, Zenon DEF getListenerConfigsFromIstio
<1>11. \A n \in DOMAIN parts.istioSettings : parts.istioSettings[n] = None
  BY <1>2, Zenon DEF getIstioSettings
<1> QED BY <1>2, <1>9, <1>10, <1>11, Zenon DEF to

\* What the builder is given.
LEMMA ContextsAreGood ==
    ASSUME NoneIsNoName, TypeInv, NEW cb \in Contexts
    PROVE  /\ GoodContext(cb) /\ cb.ingresses = PruneIngress
           /\ \E parts \in IstioParts \cup {NoIstio} : cb.istioPathMaps = parts.istioPathMaps
           /\ Covers(cb) /\ cb.ports = gw.ports
<1> DEFINE base == [ingresses |-> PruneIngress, secrets |-> secrets, services |-> services,
                    ports |-> gw.ports, waf |-> env.waf]
           walked == base ++ [walk |-> Walk(base.ingresses)]
<1>1. /\ DOMAIN walked = {"ingresses", "secrets", "services", "ports", "waf", "walk"}
      /\ walked.ingresses = PruneIngress /\ walked.walk = Walk(PruneIngress) /\ walked.secrets = secrets
      /\ walked.ports = gw.ports
  BY Zenon DEF ++
<1>2. Prepared = walked ++ [backends |-> newBackendIdsFiltered(walked), configs |-> getListenerConfigs(walked)]
  BY Zenon DEF Prepared
<1> HIDE DEF walked
<1>3. /\ DOMAIN Prepared = {"ingresses", "secrets", "services", "ports", "waf", "walk", "backends", "configs"}
      /\ Prepared.ingresses = PruneIngress /\ Prepared.walk = Walk(PruneIngress) /\ Prepared.secrets = secrets
      /\ Prepared.backends = newBackendIdsFiltered(walked) /\ Prepared.configs = getListenerConfigs(walked)
      /\ Prepared.ports = gw.ports
  BY <1>1, <1>2, Zenon DEF ++
<1> DEFINE all == IF WithIstio THEN IstioParts ELSE {NoIstio}
<1>4. PICK x \in all \X ResolvedBackends(Prepared) \X SUBSET MayBeLate(Prepared) :
        cb = Prepared ++ x[1] ++ [resolved |-> x[2], late |-> x[3]]
  BY Zenon DEF Contexts, ContextsOn
<1> DEFINE parts == x[1]
<1>5. parts \in all /\ x[2] \in ResolvedBackends(Prepared) /\ x[3] \subseteq MayBeLate(Prepared)
  BY Zenon
<1>6. /\ x[2] \subseteq Prepared.backends
      /\ \A b \in x[3] : b[2] = 0
  <2> HIDE DEF parts, all
  <2> QED BY <1>5, Zenon DEF ResolvedBackends, MayBeLate
<1> HIDE DEF parts
<1>7. DOMAIN parts = {"istioListeners", "istioPathMaps", "istioPools", "istioSettings"}
  BY <1>5 DEF IstioParts, NoIstio
<1>8. /\ cb.ingresses = PruneIngress /\ cb.walk = Walk(PruneIngress) /\ cb.secrets = secrets
      /\ cb.backends = newBackendIdsFiltered(walked) /\ cb.configs = getListenerConfigs(walked)
      /\ cb.resolved = x[2] /\ cb.late = x[3] /\ cb.ports = gw.ports
      /\ cb.istioListeners = parts.istioListeners /\ cb.istioPathMaps = parts.istioPathMaps
      /\ cb.istioPools = parts.istioPools /\ cb.istioSettings = parts.istioSettings
  BY <1>3, <1>4, <1>7, Zenon DEF ++, parts
<1>9. /\ MadeMaps(parts.istioPathMaps, ThereForIstio(parts))
      /\ \A id \in DOMAIN parts.istioListeners : ~ parts.istioListeners[id].https
      /\ \A n \in DOMAIN parts.istioSettings : parts.istioSettings[n] = None
  <2>1. CASE parts = NoIstio
    BY <2>1, FS_EmptySet DEF NoIstio, MadeMaps
  <2> QED BY <1>5, <2>1, IstioPartsAreMade, Zenon
<1>10. ThereForIstio(cb) = ThereForIstio(parts)
  BY <1>8, Zenon DEF ThereForIstio
<1>11. GoodIngresses(cb) /\ GoodIngresses(walked)
  BY <1>1, <1>8, PrunedIngressesAreGood, Zenon DEF GoodIngresses
<1>12. \A b \in newBackendIdsFiltered(walked) :
            b[2] = 0 => \E i \in Range(PruneIngress) : b = <<i.name, 0, 0>> /\ i.backend # None
  BY <1>1 DEF newBackendIdsFiltered, HTTPRules, isHTTP
<1>13. getSslCertificates(cb) = getSslCertificates(walked)
  BY <1>1, <1>8 DEF getSslCertificates, SecretsOf
<1>14. \A id \in DOMAIN cb.configs : GoodListener(cb, id, cb.configs[id])
  BY <1>8, <1>11, <1>13, ConfigsAreGood DEF GoodListener
<1>15. \E some \in IstioParts \cup {NoIstio} : cb.istioPathMaps = some.istioPathMaps
  BY <1>5, <1>8, Zenon
<1>16. Covers(cb)
  BY <1>1, <1>8, AskedAreConfigured, Zenon
<1>17. GoodContext(cb)
  BY <1>3, <1>6, <1>8, <1>9, <1>10, <1>11, <1>12, <1>14, Zenon DEF GoodContext
<1> QED BY <1>8, <1>15, <1>16, <1>17, Zenon

-----------------------------------------------------------------------------
(* Routing *)

\* The order of a call is a sequence, and on a shared gateway it ranks the names of
\* all path rules.
LEMMA OrdersRank ==
    ASSUME TypeInv, NEW maps, NEW to, MadeMaps(maps, to), NEW ord \in PathRuleOrders(maps)
    PROVE  IsSeq(ord) /\ (Shared => Ranked(gw.pathMaps, ord) /\ Ranked(maps, ord))
<1> DEFINE listed(all) == UNION {{r.name : r \in Range(m.rules)} : m \in Range(all)}
           names == listed(gw.pathMaps) \cup listed(maps)
<1>1. PathRuleOrders(maps) =
        IF Shared THEN {f \in [1..Cardinality(names) -> names] : Range(f) = names} ELSE {<< >>}
  BY Zenon DEF PathRuleOrders
<1>2. IsFiniteSet(listed(gw.pathMaps)) /\ IsFiniteSet(listed(maps))
  BY NamesAreFinite, Zenon DEF TypeInv, WellFormed, WellFormedMap, MadeMaps, MadeMap, MadeRules
<1>3. /\ \A m \in DOMAIN gw.pathMaps : Names(gw.pathMaps[m].rules) \subseteq listed(gw.pathMaps)
      /\ \A m \in DOMAIN maps : Names(maps[m].rules) \subseteq listed(maps)
  BY DEF Names, Range
<1> HIDE DEF listed
<1>4. Cardinality(names) \in Nat
  BY <1>2, FS_Union, FS_CardinalityType, Zenon
<1>5. CASE Shared
  <2> HIDE DEF names
  <2>1. ord \in [1..Cardinality(names) -> names] /\ Range(ord) = names
    BY <1>1, <1>5, Zenon
  <2>2. ord \in Seq(names) /\ Range(ord) = names
    BY <1>4, <2>1 DEF Range
  <2> QED BY <1>3, <2>2, SeqIs, Zenon DEF Ranked, names
<1>6. CASE ~ Shared
  <2>1. ord = << >>
    BY <1>1, <1>6, Zenon
  <2> QED BY <1>6, <2>1 DEF IsSeq, Range
<1> QED BY <1>5, <1>6, Zenon

\* The path rules of the owner that are prohibited on a rule of a gateway.
Prohibited(c, r, some) ==
    {p \in Owned(c.pathMaps[c.rules[r].pathMap].rules) : IsBlacklisted(HostOfRule(c, r), p.path, some)}

\* What is kept of the path maps and of the rules of the gateway.
LEMMA KeptAre ==
    ASSUME TypeInv, NEW listeners, NEW pathMaps
    PROVE  LET during == [gw EXCEPT !.listeners = listeners]
               maps == KeptOnly(gw, "pathMaps", GetBlacklistedPathMaps(during, targets))
               rules == KeptOnly(gw, "rules",
                            GetBlacklistedRoutingRules([during EXCEPT !.pathMaps = pathMaps], targets))
           IN  /\ GoodMaps(maps)
               /\ \A m \in DOMAIN maps : m \in DOMAIN gw.pathMaps /\ maps[m] = gw.pathMaps[m]
               /\ \A r \in DOMAIN rules : r \in DOMAIN gw.rules /\ rules[r] = gw.rules[r]
               /\ DOMAIN maps # {} \/ DOMAIN rules # {} => Shared
               /\ Shared => \A r \in Reachable(during) :
                    LET m == gw.rules[r].pathMap IN
                    /\ m \in DOMAIN gw.pathMaps /\ Prohibited(during, r, targets) # {} => m \in DOMAIN maps
                    /\ /\ m \in DOMAIN pathMaps
                       /\ \E p \in Range(pathMaps[m].rules) : IsBlacklisted(HostOfRule(during, r), p.path, targets)
                       => r \in DOMAIN rules
<1> DEFINE during == [gw EXCEPT !.listeners = listeners]
           later == [during EXCEPT !.pathMaps = pathMaps]
           maps == KeptOnly(gw, "pathMaps", GetBlacklistedPathMaps(during, targets))
           rules == KeptOnly(gw, "rules", GetBlacklistedRoutingRules(later, targets))
<1>1. /\ during.rules = gw.rules /\ during.pathMaps = gw.pathMaps /\ during.listeners = listeners
      /\ later.rules = gw.rules /\ later.pathMaps = pathMaps /\ later.listeners = listeners
  BY Zenon DEF TypeInv, WellFormed, EmptyConfig
<1> HIDE DEF during, later
<1>2. \A m \in GetBlacklistedPathMaps(during, targets) :
        m \in DOMAIN gw.pathMaps /\ gw.pathMaps[m].rules # << >>
  <2> DEFINE map(r) == gw.rules[r].pathMap
  <2> SUFFICES ASSUME NEW r, NEW p \in PathsOfRule(during, r)
               PROVE  map(r) \in DOMAIN gw.pathMaps /\ gw.pathMaps[map(r)].rules # << >>
    BY <1>1, Zenon DEF GetBlacklistedPathMaps
  <2>1. map(r) \in DOMAIN gw.pathMaps /\ Range(gw.pathMaps[map(r)].rules) # {}
    BY <1>1, Zenon DEF PathsOfRule
  <2> QED BY <2>1 DEF Range
<1>3. \A m \in DOMAIN maps : /\ m \in DOMAIN gw.pathMaps /\ maps[m] = gw.pathMaps[m]
                             /\ gw.pathMaps[m].rules # << >>
  BY <1>2 DEF KeptOnly, Restrict
<1>4. \A r \in DOMAIN rules : r \in DOMAIN gw.rules /\ rules[r] = gw.rules[r]
  <2>1. GetBlacklistedRoutingRules(later, targets) \subseteq DOMAIN gw.rules
    BY <1>1, Zenon DEF GetBlacklistedRoutingRules, Reachable
  <2> QED BY <2>1 DEF KeptOnly, Restrict
<1>5. DOMAIN maps # {} \/ DOMAIN rules # {} => Shared
  BY DEF KeptOnly
<1>6. Shared => /\ DOMAIN maps = GetBlacklistedPathMaps(during, targets)
                /\ DOMAIN rules = GetBlacklistedRoutingRules(later, targets)
  BY Zenon DEF KeptOnly, Restrict
<1> HIDE DEF maps, rules
<1>7. GoodMaps(maps)
  <2>1. IsFiniteSet(DOMAIN maps)
    BY <1>3, FS_Subset, Zenon DEF TypeInv, WellFormed
  <2> QED BY <1>3, <2>1, Zenon DEF GoodMaps, TypeInv, WellFormed
<1>8. ASSUME NEW r \in Reachable(during), gw.rules[r].pathMap \in DOMAIN gw.pathMaps,
             Prohibited(during, r, targets) # {}
      PROVE  gw.rules[r].pathMap \in GetBlacklistedPathMaps(during, targets)
  <2>1. PICK p \in Range(gw.pathMaps[gw.rules[r].pathMap].rules) :
            IsBlacklisted(HostOfRule(during, r), p.path, targets)
    BY <1>1, <1>8, Zenon DEF Prohibited, Owned
  <2>2. p.path \in PathsOfRule(during, r)
    BY <1>1, <1>8, Zenon DEF PathsOfRule
  <2> QED BY <1>1, <2>1, <2>2, Zenon DEF GetBlacklistedPathMaps
<1>9. ASSUME NEW r \in Reachable(during), gw.rules[r].pathMap \in DOMAIN pathMaps,
             NEW p \in Range(pathMaps[gw.rules[r].pathMap].rules),
             IsBlacklisted(HostOfRule(during, r), p.path, targets)
      PROVE  r \in GetBlacklistedRoutingRules(later, targets)
  <2>1. p.path \in PathsOfRule(later, r)
    BY <1>1, <1>9, Zenon DEF PathsOfRule
  <2>2. r \in Reachable(later) /\ HostOfRule(later, r) = HostOfRule(during, r)
    BY <1>1, Zenon DEF Reachable, HostOfRule
  <2> QED BY <1>9, <2>1, <2>2, Zenon DEF GetBlacklistedRoutingRules
<1> QED BY <1>3, <1>4, <1>5, <1>6, <1>7, <1>8, <1>9, Zenon DEF maps, rules, later, during

\* A merge that does not panic makes good path maps.  On a shared gateway it keeps
\* the rules whose path maps have prohibited path rules of the owner, and these.
LEMMA RoutingKeeps ==
    ASSUME NoneIsNoName, TypeInv, NEW maps, NEW to, MadeMaps(maps, to), NEW byID, NEW listeners,
           NEW ord \in PathRuleOrders(maps),
           ~ RulesAndPathMaps(maps, byID, [gw EXCEPT !.listeners = listeners], ord).panics
    PROVE  LET during == [gw EXCEPT !.listeners = listeners]
               new == RulesAndPathMaps(maps, byID, during, ord)
           IN  /\ "rules" \in DOMAIN new /\ "pathMaps" \in DOMAIN new
               /\ GoodMaps(new.pathMaps) /\ OwnRulesUseOwnMaps(new.rules)
               /\ Shared => \A r \in Reachable(during) :
                    LET m == gw.rules[r].pathMap IN
                    m \in DOMAIN gw.pathMaps /\ Prohibited(during, r, targets) # {} =>
                        /\ r \in DOMAIN new.rules /\ new.rules[r] = gw.rules[r]
                        /\ m \in DOMAIN new.pathMaps
                        /\ Prohibited(during, r, targets) \subseteq Range(new.pathMaps[m].rules)
<1> DEFINE during == [gw EXCEPT !.listeners = listeners]
           managedRules == getRules(maps, byID)
           managedMaps == PathMapsOfRules(maps, byID)
           keptMaps == KeptOnly(gw, "pathMaps", GetBlacklistedPathMaps(during, targets))
           merged == MergePathMaps(keptMaps, managedMaps, ord)
           keptRules == KeptOnly(gw, "rules",
                            GetBlacklistedRoutingRules([during EXCEPT !.pathMaps = merged], targets))
           result == MergeRules(keptRules, managedRules, merged, ord)
           new == RulesAndPathMaps(maps, byID, during, ord)
<1>1. new = IF LookupFails(keptRules, managedRules, merged)
            THEN [rules |-> << >>, pathMaps |-> << >>, panics |-> TRUE] ELSE result ++ [panics |-> FALSE]
  BY Zenon DEF RulesAndPathMaps, MergedWithKept, Merged, MergedPathMaps, KeptPathMaps, KeptRoutingRules, Panicked
<1>2. DOMAIN result = {"rules", "pathMaps"}
  BY Zenon DEF MergeRules
<1>3. /\ GoodMaps(keptMaps)
      /\ \A m \in DOMAIN keptMaps : m \in DOMAIN gw.pathMaps /\ keptMaps[m] = gw.pathMaps[m]
      /\ \A r \in DOMAIN keptRules : r \in DOMAIN gw.rules /\ keptRules[r] = gw.rules[r]
      /\ DOMAIN keptMaps # {} \/ DOMAIN keptRules # {} => Shared
      /\ Shared => \A r \in Reachable(during) :
            LET m == gw.rules[r].pathMap IN
            /\ m \in DOMAIN gw.pathMaps /\ Prohibited(during, r, targets) # {} => m \in DOMAIN keptMaps
            /\ /\ m \in DOMAIN merged
               /\ \E p \in Range(merged[m].rules) : IsBlacklisted(HostOfRule(during, r), p.path, targets)
               => r \in DOMAIN keptRules
  BY KeptAre, Zenon
<1>4. /\ GoodMaps(managedMaps)
      /\ \A n \in DOMAIN managedMaps : \A x \in Range(managedMaps[n].rules) : MadeRule(x)
      /\ \A o : Ranked(maps, o) => Ranked(managedMaps, o)
  BY ManagedMapsAreGood, Zenon DEF MadeMap, MadeRules
<1>5. (\A r \in DOMAIN managedRules : r[1] = "rr") /\ OwnRulesUseOwnMaps(managedRules)
  BY ManagedRulesAreOwn, Zenon
<1>6. IsSeq(ord) /\ (Shared => Ranked(gw.pathMaps, ord) /\ Ranked(maps, ord))
  BY OrdersRank, Zenon
<1>7. ~ LookupFails(keptRules, managedRules, merged) /\ new = result ++ [panics |-> FALSE]
  <2> HIDE DEF keptRules, managedRules, merged, result, keptMaps, managedMaps
  <2>1. CASE LookupFails(keptRules, managedRules, merged)
    <3>1. new = [rules |-> << >>, pathMaps |-> << >>, panics |-> TRUE]
      BY <1>1, <2>1, Zenon
    <3>2. new.panics = TRUE
      <4> HIDE DEF new
      <4> QED BY <3>1, Zenon
    <3> QED BY <3>2, Zenon
  <2> QED BY <1>1, <2>1, Zenon
<1> HIDE DEF keptMaps, managedMaps, managedRules
<1>8. Ranked(keptMaps, ord) /\ (DOMAIN keptMaps = {} \/ Ranked(managedMaps, ord))
  BY <1>3, <1>4, <1>6, Zenon DEF Ranked
<1>9. /\ GoodMaps(merged)
      /\ DOMAIN merged = DOMAIN keptMaps \cup DOMAIN managedMaps
      /\ DOMAIN keptMaps = {} \/ Ranked(merged, ord)
      /\ \A m \in DOMAIN keptMaps : Owned(keptMaps[m].rules) \subseteq Owned(merged[m].rules)
  BY <1>3, <1>4, <1>6, <1>8, MergedMapsAreGood, Zenon
<1>10. DOMAIN keptRules = {} \/ Ranked(merged, ord)
  <2>1. CASE DOMAIN keptMaps = {} /\ Shared
    <3>1. \A m \in DOMAIN managedMaps : merged[m] = managedMaps[m]
      BY <2>1, Zenon DEF merged, MergePathMaps, ++
    <3> QED BY <1>4, <1>6, <1>9, <2>1, <3>1, Zenon DEF Ranked
  <2> HIDE DEF merged, keptRules
  <2> QED BY <1>3, <1>9, <2>1, Zenon
<1> HIDE DEF merged, keptRules
<1>11. OwnRulesUseOwnMaps(keptRules)
  BY <1>3 DEF OwnRulesUseOwnMaps, TypeInv, WellFormed
<1>12. /\ GoodMaps(result.pathMaps) /\ OwnRulesUseOwnMaps(result.rules)
       /\ \A k \in DOMAIN keptRules : LET m == keptRules[k].pathMap IN
            k[1] # "rr" /\ m \in DOMAIN merged /\ m[1] # "url" =>
                /\ k \in DOMAIN result.rules /\ result.rules[k] = keptRules[k]
                /\ m \in DOMAIN result.pathMaps
                /\ Owned(merged[m].rules) \subseteq Owned(result.pathMaps[m].rules)
  BY <1>5, <1>6, <1>7, <1>9, <1>10, <1>11, MergedRulesKeep, Zenon
<1> HIDE DEF result
<1>13. /\ new.rules = result.rules /\ new.pathMaps = result.pathMaps
       /\ "rules" \in DOMAIN new /\ "pathMaps" \in DOMAIN new
  <2> HIDE DEF new
  <2> QED BY <1>2, <1>7, Zenon DEF ++
<1>14. ASSUME Shared, NEW r \in Reachable(during), gw.rules[r].pathMap \in DOMAIN gw.pathMaps,
              Prohibited(during, r, targets) # {}
       PROVE  LET m == gw.rules[r].pathMap IN
              /\ r \in DOMAIN result.rules /\ result.rules[r] = gw.rules[r]
              /\ m \in DOMAIN result.pathMaps
              /\ Prohibited(during, r, targets) \subseteq Range(result.pathMaps[m].rules)
  <2> DEFINE m == gw.rules[r].pathMap
  <2>1. during.rules = gw.rules /\ during.pathMaps = gw.pathMaps
    BY Zenon DEF TypeInv, WellFormed, EmptyConfig
  <2> HIDE DEF during
  <2>2. m \in DOMAIN keptMaps /\ keptMaps[m] = gw.pathMaps[m] /\ m \in DOMAIN merged
    BY <1>3, <1>9, <1>14, Zenon
  <2>3. Prohibited(during, r, targets) \subseteq Owned(gw.pathMaps[m].rules)
    BY <2>1, Zenon DEF Prohibited
  <2>4. Prohibited(during, r, targets) \subseteq Owned(merged[m].rules)
    BY <1>9, <2>2, <2>3, Zenon
  <2>5. r \in DOMAIN gw.rules
    BY <2>1, Zenon DEF Reachable
  <2>6. m[1] # "url" /\ m # None /\ r[1] # "rr"
    <3>1. PICK p : p \in Owned(gw.pathMaps[m].rules)
      BY <1>14, <2>3, Zenon
    <3>2. m[1] # "url" /\ m # None
      BY <1>14, <3>1, Zenon DEF TypeInv, WellFormed, WellFormedMap, Owned
    <3> QED BY <2>5, <3>2, Zenon DEF TypeInv, WellFormed
  <2>7. r \in DOMAIN keptRules /\ keptRules[r] = gw.rules[r]
    <3>1. PICK p : p \in Prohibited(during, r, targets)
      BY <1>14, Zenon
    <3>2. p \in Range(merged[m].rules) /\ IsBlacklisted(HostOfRule(during, r), p.path, targets)
      BY <2>4, <3>1, Zenon DEF Owned, Prohibited
    <3> QED BY <1>3, <1>14, <2>2, <3>2, Zenon
  <2>8. /\ r \in DOMAIN result.rules /\ result.rules[r] = gw.rules[r] /\ m \in DOMAIN result.pathMaps
        /\ Owned(merged[m].rules) \subseteq Owned(result.pathMaps[m].rules)
    BY <1>12, <2>2, <2>6, <2>7, Zenon
  <2>9. Prohibited(during, r, targets) \subseteq Range(result.pathMaps[m].rules)
    BY <2>4, <2>8, Zenon DEF Owned
  <2> QED BY <2>8, <2>9, Zenon
<1> HIDE DEF new, during
<1> QED BY <1>12, <1>13, <1>14, Zenon DEF new, during

-----------------------------------------------------------------------------
(* Builds *)

\* Listeners that are kept or made have one host name or a list of them.
LEMMA ListenersAreGood ==
    ASSUME TypeInv, NEW cb, NEW listeners \in Listeners(cb)
    PROVE  \A l \in Range(listeners) : DOMAIN l = ListenerParts /\ None \in {l.host, l.hosts}
<1> DEFINE Good(all) == \A n \in DOMAIN all : /\ DOMAIN all[n] = ListenerParts
                                              /\ None \in {all[n].host, all[n].hosts}
           made == {getListeners(cb, skipped) : skipped \in SkippedListeners(cb)}
           names == GetBlacklistedListeners(gw, targets)
           kept == Restrict(gw.listeners, names)
<1>1. \A m \in made : Good(m)
  <2>1. \A id, config : /\ DOMAIN newListener(cb, id, config) = ListenerParts
                        /\ None \in {newListener(cb, id, config).host, newListener(cb, id, config).hosts}
    <3> TAKE id, config
    <3> DEFINE l == newListener(cb, id, config)
    <3>1. /\ DOMAIN l = ListenerParts
          /\ l.host = IF Len(id.hosts) = 1 THEN id.hosts[1] ELSE None
          /\ l.hosts = IF Len(id.hosts) > 1 THEN id.hosts ELSE None
      BY Zenon DEF newListener, ListenerParts
    <3> HIDE DEF l
    <3>2. Len(id.hosts) = 1 => ~ (Len(id.hosts) > 1)
      OBVIOUS
    <3> QED BY <3>1, <3>2, Zenon DEF l
  <2>2. ASSUME NEW skipped PROVE Good(getListeners(cb, skipped))
    <3> DEFINE all == [id \in DOMAIN cb.configs \ skipped |-> cb.configs[id]] ++ cb.istioListeners
               ids == {generateListenerName(id) : id \in DOMAIN all}
    <3>1. getListeners(cb, skipped) = [n \in ids |-> newListener(cb, n[2], all[n[2]])]
      BY Zenon DEF getListeners
    <3> HIDE DEF all, ids
    <3> QED BY <2>1, <3>1
  <2> QED BY <2>2, Zenon
<1>2. Good(kept)
  <2>1. names \subseteq DOMAIN gw.listeners
    BY Zenon DEF GetBlacklistedListeners, GetBlacklistedRoutingRules, Reachable
  <2> HIDE DEF names
  <2> QED BY <2>1, Zenon DEF Restrict, TypeInv, WellFormed, Range
<1> HIDE DEF made, kept
<1>3. \A m \in made : \A all \in MergeListeners(kept, m) : Good(all)
  BY <1>1, <1>2, MergedListenersAre
<1>4. listeners \in IF Shared THEN UNION {MergeListeners(kept, m) : m \in made} ELSE made
  BY Zenon DEF Listeners, made, kept
<1>5. Good(listeners)
  BY <1>1, <1>3, <1>4, Zenon
<1> QED BY <1>5, Zenon DEF Range

\* What a build that does not fail consists of.
ConsistsOf(config, cb, listeners, byID, maps, to, ord) ==
    LET new == RulesAndPathMaps(maps, byID, [gw EXCEPT !.listeners = listeners], ord)
    IN  /\ cb \in Contexts /\ listeners \in Listeners(cb)
        /\ byID = listenersByID(listeners, config.ports) /\ DOMAIN maps \subseteq AskedIDs(cb)
        /\ MadeMaps(maps, to) /\ ord \in PathRuleOrders(maps) /\ ~ new.panics
        /\ DOMAIN config = DOMAIN EmptyConfig /\ config.listeners = listeners
        /\ config.ports = FrontendPorts(cb, listeners)
        /\ "rules" \in DOMAIN new /\ "pathMaps" \in DOMAIN new
            => config.rules = new.rules /\ config.pathMaps = new.pathMaps

\* The rules and path maps of a build: merged, or given up in a panic over an ID.
Attempt(routing, maps, byID, during, ord, redirects) ==
    \/ routing = RulesAndPathMaps(maps, byID, during, ord) ++ [redirects |-> redirects]
    \/ routing = Panicked ++ [redirects |-> redirects]

\* They are one of the two.
LEMMA RoutingAttempts ==
    ASSUME NEW noID, NEW maps, NEW byID, NEW during, NEW redirects,
           NEW routing \in Routing(noID, maps, byID, during, redirects)
    PROVE  \E ord \in PathRuleOrders(maps) : Attempt(routing, maps, byID, during, ord, redirects)
<1>1. PICK ord \in PathRuleOrders(maps) : \E nil \in PassesNoID(noID, maps, byID, during, ord) :
            routing = (IF nil THEN Panicked ELSE RulesAndPathMaps(maps, byID, during, ord)) ++ [redirects |-> redirects]
  BY Zenon DEF Routing
<1>2. PICK nil \in PassesNoID(noID, maps, byID, during, ord) :
            routing = (IF nil THEN Panicked ELSE RulesAndPathMaps(maps, byID, during, ord)) ++ [redirects |-> redirects]
  BY <1>1, Zenon
<1>3. CASE nil
  BY <1>2, <1>3, Zenon DEF Attempt
<1>4. CASE ~ nil
  BY <1>2, <1>4, Zenon DEF Attempt
<1> QED BY <1>3, <1>4, Zenon

\* One that does not panic is merged.
LEMMA AttemptsPanic ==
    ASSUME NEW routing, NEW maps, NEW byID, NEW during, NEW ord, NEW redirects,
           Attempt(routing, maps, byID, during, ord, redirects), ~ routing.panics
    PROVE  routing = RulesAndPathMaps(maps, byID, during, ord) ++ [redirects |-> redirects]
<1>1. (Panicked ++ [redirects |-> redirects]).panics = TRUE
  BY Zenon DEF Panicked, ++
<1> QED BY <1>1, Zenon DEF Attempt

\* Every one does.
LEMMA BuildIs ==
    ASSUME NoneIsNoName, TypeInv, NEW out \in Builds, out.error = "none"
    PROVE  \E cb, listeners, byID, maps, to, ord : ConsistsOf(out.config, cb, listeners, byID, maps, to, ord)
<1>1. PICK cb \in Contexts : \E listeners \in Listeners(cb) :
            out \in BuiltOn(cb, listeners, FrontendPorts(cb, listeners))
  BY DEF Builds
<1>2. PICK listeners \in Listeners(cb) : out \in BuiltOn(cb, listeners, FrontendPorts(cb, listeners))
  BY <1>1, Zenon
<1> DEFINE ports == FrontendPorts(cb, listeners)
           byID == listenersByID(listeners, ports)
           during == [gw EXCEPT !.listeners = listeners]
           redirects == getRedirectConfigurations(cb, byID)
                            ++ KeptOnly(gw, "redirects", GetBlacklistedRedirects(during, targets))
           maps == getPathMaps(cb, redirects)
<1> HIDE DEF ports
<1>3. PICK routing \in RequestRoutingRules(cb, byID, during) : out = Built(cb, listeners, ports, routing)
  <2> HIDE DEF byID, during
  <2> QED BY <1>2, Zenon DEF BuiltOn, byID, during, ports
<1>4. RequestRoutingRules(cb, byID, during) = Routing(WithoutID(cb), maps, byID, during, redirects)
  <2> HIDE DEF byID, during
  <2> QED BY Zenon DEF RequestRoutingRules, RoutingOn
<1> DEFINE to == There(cb, redirects)
<1> HIDE DEF byID, during, redirects
<1>5. MadeMaps(maps, to) /\ DOMAIN maps \subseteq AskedIDs(cb)
  <2>1. HasDefaults(to) /\ GoodWalk(cb, to) /\ MadeMaps(cb.istioPathMaps, to) /\ DOMAIN redirects \subseteq to.redirects
    BY ContextsAreGood, BackendsAreThere, IstioMapsAreThere, Zenon DEF There
  <2> HIDE DEF to
  <2> QED BY <2>1, PathMapsAreMade, Zenon
<1> HIDE DEF maps, to
<1>6. PICK ord \in PathRuleOrders(maps) :
            routing = RulesAndPathMaps(maps, byID, during, ord) ++ [redirects |-> redirects]
  <2>1. PICK ord \in PathRuleOrders(maps) : Attempt(routing, maps, byID, during, ord, redirects)
    BY <1>3, <1>4, RoutingAttempts, Zenon
  <2>2. ~ routing.panics
    BY <1>3, Zenon DEF Built
  <2>3. routing = RulesAndPathMaps(maps, byID, during, ord) ++ [redirects |-> redirects]
    BY <2>1, <2>2, AttemptsPanic
  <2> QED BY <2>3, Zenon
<1> DEFINE new == RulesAndPathMaps(maps, byID, during, ord)
<1>7. "panics" \in DOMAIN new
  BY Zenon DEF RulesAndPathMaps, MergedWithKept, Merged, Panicked, ++
<1> HIDE DEF new
<1>8. routing.panics = new.panics
  BY <1>6, <1>7, Zenon DEF ++, new
<1>9. "rules" \in DOMAIN new /\ "pathMaps" \in DOMAIN new
        => routing.rules = new.rules /\ routing.pathMaps = new.pathMaps
  BY <1>6, Zenon DEF ++, new
<1>10. /\ ~ routing.panics
       /\ DOMAIN out.config = DOMAIN EmptyConfig
       /\ out.config.listeners = listeners /\ out.config.ports = ports
       /\ out.config.rules = routing.rules /\ out.config.pathMaps = routing.pathMaps
  BY <1>3, Zenon DEF Built, EmptyConfig
<1>11. ConsistsOf(out.config, cb, listeners, byID, maps, to, ord)
  BY <1>5, <1>8, <1>9, <1>10, Zenon DEF ConsistsOf, new, during, byID, ports
<1> QED BY <1>11, Zenon

\* A build that does not fail makes a well-formed configuration, and passes
\* validateURLPathMaps.
LEMMA BuildIsGood ==
    ASSUME NoneIsNoName, TypeInv, NEW out \in Builds, out.error = "none"
    PROVE  WellFormed(out.config) /\ validateURLPathMaps(out.config.pathMaps)
<1>1. PICK cb, listeners, byID, maps, to, ord : ConsistsOf(out.config, cb, listeners, byID, maps, to, ord)
  BY BuildIs, Zenon
<1>2. /\ DOMAIN out.config = DOMAIN EmptyConfig /\ out.config.listeners = listeners
      /\ GoodMaps(out.config.pathMaps) /\ OwnRulesUseOwnMaps(out.config.rules)
      /\ listeners \in Listeners(cb)
  <2> DEFINE new == RulesAndPathMaps(maps, byID, [gw EXCEPT !.listeners = listeners], ord)
  <2>1. /\ listeners \in Listeners(cb) /\ MadeMaps(maps, to) /\ ord \in PathRuleOrders(maps) /\ ~ new.panics
        /\ DOMAIN out.config = DOMAIN EmptyConfig /\ out.config.listeners = listeners
        /\ "rules" \in DOMAIN new /\ "pathMaps" \in DOMAIN new
            => out.config.rules = new.rules /\ out.config.pathMaps = new.pathMaps
    BY <1>1, Zenon DEF ConsistsOf
  <2>2. /\ "rules" \in DOMAIN new /\ "pathMaps" \in DOMAIN new
        /\ GoodMaps(new.pathMaps) /\ OwnRulesUseOwnMaps(new.rules)
    BY <2>1, RoutingKeeps, Zenon
  <2> HIDE DEF new
  <2> QED BY <2>1, <2>2, Zenon
<1>3. \A l \in Range(out.config.listeners) : DOMAIN l = ListenerParts /\ None \in {l.host, l.hosts}
  BY <1>2, ListenersAreGood, Zenon
<1>4. PortsTell(out.config.ports)
  <2>1. cb \in Contexts /\ out.config.ports = FrontendPorts(cb, listeners)
    BY <1>1, Zenon DEF ConsistsOf
  <2>2. cb.ports = gw.ports
    BY <2>1, ContextsAreGood, Zenon
  <2>3. PortsTell(cb.ports)
    BY <2>2, Zenon DEF TypeInv, WellFormed
  <2>4. PortsTell(FrontendPorts(cb, listeners))
    BY <2>3, PortsAreNumbered, Zenon
  <2> QED BY <2>1, <2>4, Zenon
<1>5. WellFormed(out.config)
  BY <1>2, <1>3, <1>4, Zenon DEF WellFormed, GoodMaps, OwnRulesUseOwnMaps
<1>6. validateURLPathMaps(out.config.pathMaps)
  BY <1>2, Zenon DEF validateURLPathMaps, GoodMaps, WellFormedMap, Range
<1> QED BY <1>5, <1>6, Zenon

-----------------------------------------------------------------------------
(* What is asked for *)

\* The host of a rule that is left after pruning is not prohibited for every path.
LEMMA PrunedRulesAreAllowed ==
    ASSUME NEW rules, NEW some, GoodRules(rules), some # {}, NEW r \in Range(PruneIngressRules(rules, some))
    PROVE  \E path : ~ IsBlacklisted(r.host, path, some)
<1>1. /\ IsSeq(r.paths) /\ \A p \in Range(r.paths) : ~ IsBlacklisted(r.host, p.path, some)
      /\ r.paths = << >> => ~ IsBlacklisted(r.host, <<"">>, some)
  BY PrunedRulesAre, Zenon
<1>2. CASE r.paths # << >>
  <2>1. 1 \in DOMAIN r.paths
    BY <1>1, <1>2, FirstOfSome, Zenon
  <2>2. r.paths[1] \in Range(r.paths)
    BY <2>1, Zenon DEF Range
  <2> QED BY <1>1, <2>2, Zenon
<1> QED BY <1>1, <1>2, Zenon

\* The ingresses ask for no host of a target in hostname-extension.
Apart(extended) == IsSeq(extended) /\ \A some \in env.targetSets : \A t \in some : t.host \notin Range(extended)
AsksApart(store) == \A n \in DOMAIN store : store[n] # None => Apart(store[n].extended)

\* Pruning leaves the host names of an ingress.
LEMMA PruningIsApart ==
    ASSUME TypeInv, AsksApart(ingresses)
    PROVE  /\ AsksApart(PrunedStore)
           /\ \A i \in Range(ListHTTPIngresses(ingresses)) :
                /\ Apart(PrunedStore[i.name].extended)
                /\ PruneList = "with" /\ Shared =>
                    \A r \in Range(PrunedStore[i.name].rules) : ~ Whole(r.host, targets)
<1> DEFINE listed == {i.name : i \in Range(ListHTTPIngresses(ingresses))}
           prune(n) == [ingresses[n] EXCEPT !.rules = PruneIngressRules(@, targets)]
<1>1. PrunedStore = IF PruneList = "with" /\ Shared
                    THEN [n \in DOMAIN ingresses |-> IF n \in listed THEN prune(n) ELSE ingresses[n]]
                    ELSE ingresses
  BY Zenon DEF PrunedStore
<1>2. \A n \in listed : n \in DOMAIN ingresses /\ ingresses[n] # None /\ WellFormedIngress(ingresses[n])
  BY ListedAreStored, Zenon
<1> HIDE DEF listed
<1>3. \A n \in listed : /\ prune(n).extended = ingresses[n].extended
                        /\ prune(n).rules = PruneIngressRules(ingresses[n].rules, targets)
  BY <1>2, Zenon DEF WellFormedIngress, IngressParts
<1> HIDE DEF prune
<1>4. ASSUME NEW n \in listed, PruneList = "with", Shared, NEW r \in Range(PrunedStore[n].rules)
      PROVE  ~ Whole(r.host, targets)
  <2>1. r \in Range(PruneIngressRules(ingresses[n].rules, targets)) /\ targets # {}
    BY <1>1, <1>2, <1>3, <1>4, Zenon DEF Shared
  <2>2. \E path : ~ IsBlacklisted(r.host, path, targets)
    BY <1>2, <2>1, PrunedRulesAreAllowed, Zenon DEF WellFormedIngress, GoodRules
  <2> QED BY <2>2, WholeHosts, Zenon
<1>5. \A n \in listed : Apart(PrunedStore[n].extended)
  BY <1>1, <1>2, <1>3, Zenon DEF AsksApart
<1>6. AsksApart(PrunedStore)
  BY <1>1, <1>2, <1>3, Zenon DEF AsksApart
<1> QED BY <1>4, <1>5, <1>6, Zenon DEF listed

\* So are the ingresses that the builder is given.
LEMMA GivenIngressesAreApart ==
    ASSUME TypeInv, AsksApart(ingresses), NEW i \in Range(PruneIngress)
    PROVE  /\ Apart(i.extended)
           /\ PruneList = "with" /\ Shared => \A r \in Range(i.rules) : ~ Whole(r.host, targets)
<1> DEFINE listed == {x.name : x \in Range(ListHTTPIngresses(ingresses))}
           valid(n) == /\ n \in listed
                       /\ PrunedStore[n].private => env.hasPrivateIP
                       /\ PrunedStore[n].redirect => PrunedStore[n].tls # << >>
           some == {n \in Range(env.order) : valid(n)}
           names == Listed(env.order, some)
<1>1. PruneIngress = [k \in DOMAIN names |-> PrunedStore[names[k]]]
  BY Zenon DEF PruneIngress
<1>2. IsSeq(env.order)
  BY SetupsAreWellFormed, Zenon DEF TypeInv, env
<1>3. some \subseteq listed
  BY Zenon
<1>4. Range(names) = Range(env.order) \cap some
  BY <1>2, ListedIs, Zenon
<1> HIDE DEF names, some
<1>5. PICK k \in DOMAIN names : i = PrunedStore[names[k]]
  BY <1>1, Zenon DEF Range
<1>6. names[k] \in listed
  BY <1>3, <1>4, <1>5, Zenon DEF Range
<1> QED BY <1>5, <1>6, PruningIsApart, Zenon

\* Istio asks for listeners without setHostNames.
LEMMA IstioAsksForNoHosts ==
    ASSUME NEW parts \in IstioParts \cup {NoIstio}
    PROVE  \A id \in DOMAIN parts.istioPathMaps : id.hosts = << >>
<1>1. \A vs, first, id : id \in DOMAIN getIstioPathMaps(services, vs, first) => id.hosts = << >>
  <2> SUFFICES ASSUME NEW vs, NEW first
               PROVE  \A id \in DOMAIN getIstioPathMaps(services, vs, first) : id.hosts = << >>
    BY Zenon
  <2> DEFINE id(k) == IstioListenerID(80, vs[k].hosts[1])
  <2>1. \E makers : DOMAIN getIstioPathMaps(services, vs, first)
                      \subseteq {defaultFrontendListenerIdentifier} \cup {id(k) : k \in makers}
    BY Zenon DEF getIstioPathMaps, Only
  <2>2. defaultFrontendListenerIdentifier.hosts = << >>
    BY FewHosts, Zenon DEF defaultFrontendListenerIdentifier
  <2>3. \A k : id(k).hosts = << >>
    BY Zenon DEF IstioListenerID
  <2> HIDE DEF id
  <2> QED BY <2>1, <2>2, <2>3, Zenon
<1>2. CASE parts = NoIstio
  <2>1. NoIstio.istioPathMaps = << >>
    BY Zenon DEF NoIstio
  <2> DEFINE none == << >>
  <2>2. DOMAIN none = {}
    OBVIOUS
  <2> QED BY <1>2, <2>1, <2>2, Zenon
<1>3. CASE parts \in IstioParts
  <2> DEFINE all == Orders(mesh.virtualServices)
             names == DOMAIN getIstioSettings(services, AnOrder(mesh.virtualServices))
  <2>1. PICK vs \in all, first \in IF names = {} THEN {None} ELSE names :
            parts = [istioListeners |-> getListenerConfigsFromIstio(mesh.servers, vs),
                     istioPathMaps |-> getIstioPathMaps(services, vs, first),
                     istioPools |-> getIstioPools(services, vs),
                     istioSettings |-> getIstioSettings(services, vs)]
    BY <1>3 DEF IstioParts
  <2>2. parts.istioPathMaps = getIstioPathMaps(services, vs, first)
    BY <2>1, Zenon
  <2> QED BY <1>1, <2>2, Zenon
<1> QED BY <1>2, <1>3, Zenon

\* Once prohibited ingresses are pruned, nothing asks for a listener of a host that
\* is prohibited as a whole.
LEMMA NothingIsAskedOfWholeHosts ==
    ASSUME NoneIsNoName, TypeInv, AsksApart(ingresses), PruneList = "with", Shared,
           NEW h, h # "", Whole(h, targets), NEW cb \in Contexts, NEW id \in AskedIDs(cb)
    PROVE  id.hosts # <<h>>
<1>1. << >> # <<h>>
  OBVIOUS
<1>2. CASE id = defaultFrontendListenerIdentifier
  BY <1>1, <1>2, FewHosts, Zenon DEF defaultFrontendListenerIdentifier
<1>3. CASE id \in DOMAIN cb.istioPathMaps
  <2>1. PICK parts \in IstioParts \cup {NoIstio} : cb.istioPathMaps = parts.istioPathMaps
    BY ContextsAreGood, Zenon
  <2> QED BY <1>1, <1>3, <2>1, IstioAsksForNoHosts, Zenon
<1>4. ASSUME NEW e \in HTTPRules(cb), id \in DOMAIN processIngressRule(cb, e.ing, e.ing.rules[e.no])
      PROVE  id.hosts # <<h>>
  <2> DEFINE i == e.ing
             rule == i.rules[e.no]
             hosts == (IF rule.host = "" THEN << >> ELSE <<rule.host>>) \o i.extended
  <2>1. i \in Range(PruneIngress) /\ rule \in Range(i.rules)
    <3>1. GoodIngresses(cb) /\ cb.ingresses = PruneIngress
      BY ContextsAreGood, Zenon DEF GoodContext
    <3>2. e \in Range(cb.walk) /\ e.no # 0
      BY Zenon DEF HTTPRules, isHTTP
    <3>3. i \in Range(PruneIngress) /\ e.no \in DOMAIN i.rules
      BY <3>1, <3>2, VisitsAre, Zenon
    <3> QED BY <3>3, Zenon DEF Range
  <2>2. Apart(i.extended) /\ ~ Whole(rule.host, targets)
    BY <2>1, GivenIngressesAreApart, Zenon
  <2>3. PICK port : id = ListenerID(port, i.private, hosts)
    BY <1>4, Zenon DEF processIngressRule, ListenersFor, generateListenerID
  <2>4. rule.host # h /\ IsSeq(i.extended) /\ h \notin Range(i.extended)
    BY <2>2, Zenon DEF Apart, Whole, TypeInv
  <2>5. IsSeq(hosts) /\ (rule.host = "" => hosts = i.extended) /\ (rule.host # "" => hosts[1] = rule.host)
    <3> HIDE DEF i, rule
    <3>1. CASE rule.host = ""
      BY <2>4, <3>1, HostFirst, Zenon
    <3>2. CASE rule.host # ""
      BY <2>4, <3>2, HostFirst, Zenon
    <3> QED BY <3>1, <3>2, Zenon
  <2> HIDE DEF hosts, i, rule
  <2>6. id.hosts = <<h>> => h = hosts[1] /\ h \in Range(hosts)
    BY <2>3, <2>5, FirstHostIsKept, Zenon
  <2>7. CASE rule.host = ""
    BY <2>4, <2>5, <2>6, <2>7, Zenon
  <2>8. CASE rule.host # ""
    BY <2>4, <2>5, <2>6, <2>8, Zenon
  <2> QED BY <2>7, <2>8, Zenon
<1> QED BY <1>2, <1>3, <1>4, Zenon DEF AskedIDs

-----------------------------------------------------------------------------
(* What is kept *)

\* Plain targets that prohibit a host without a path prohibit it with every path.
LEMMA PlainTargetsProhibitAll ==
    ASSUME NEW some, PlainTargets(some), NEW host, IsBlacklisted(host, <<"">>, some), NEW path
    PROVE  IsBlacklisted(host, path, some)
<1>1. PICK t \in some : \E p \in (IF t.paths = {} THEN {<<"">>} ELSE t.paths) :
            t.host \in {"", host} /\ (<<"">> = p \/ contains(p, <<"">>))
  BY BlacklistIs, Zenon
<1>2. PICK p \in (IF t.paths = {} THEN {<<"">>} ELSE t.paths) :
            t.host \in {"", host} /\ (<<"">> = p \/ contains(p, <<"">>))
  BY <1>1, Zenon
<1>3. p \in {<<"">>, <<"*">>, <<"", "*">>}
  BY <1>2, Zenon DEF PlainTargets
<1>4. contains(p, path)
  BY <1>3, Zenon DEF contains
<1> QED BY <1>2, <1>4, BlacklistIs, Zenon

\* The gateway while it is built, and what is kept and merged of it.
During(listeners) == [gw EXCEPT !.listeners = listeners]
KeptMaps(listeners) == KeptOnly(gw, "pathMaps", GetBlacklistedPathMaps(During(listeners), targets))
MergedMaps(maps, byID, listeners, ord) == MergePathMaps(KeptMaps(listeners), PathMapsOfRules(maps, byID), ord)
KeptRules(listeners, merged) ==
    KeptOnly(gw, "rules", GetBlacklistedRoutingRules([During(listeners) EXCEPT !.pathMaps = merged], targets))

\* What a build merges.
LEMMA RoutingIs ==
    ASSUME NEW maps, NEW byID, NEW listeners, NEW ord
    PROVE  LET merged == MergedMaps(maps, byID, listeners, ord)
               kept == KeptRules(listeners, merged)
               managed == getRules(maps, byID)
               new == RulesAndPathMaps(maps, byID, During(listeners), ord)
           IN  /\ new.panics <=> LookupFails(kept, managed, merged)
               /\ ~ new.panics => /\ new.rules = MergeRules(kept, managed, merged, ord).rules
                                  /\ new.pathMaps = MergeRules(kept, managed, merged, ord).pathMaps
<1> DEFINE merged == MergedMaps(maps, byID, listeners, ord)
           kept == KeptRules(listeners, merged)
           managed == getRules(maps, byID)
           result == MergeRules(kept, managed, merged, ord)
           new == RulesAndPathMaps(maps, byID, During(listeners), ord)
<1>1. new = IF LookupFails(kept, managed, merged)
            THEN [rules |-> << >>, pathMaps |-> << >>, panics |-> TRUE] ELSE result ++ [panics |-> FALSE]
  BY Zenon DEF RulesAndPathMaps, MergedWithKept, Merged, MergedPathMaps, KeptPathMaps, KeptRoutingRules,
               Panicked, MergedMaps, KeptMaps, KeptRules
<1>2. DOMAIN result = {"rules", "pathMaps"}
  BY Zenon DEF MergeRules
<1> HIDE DEF merged, kept, managed, result, new
<1>3. CASE LookupFails(kept, managed, merged)
  <2>1. new = [rules |-> << >>, pathMaps |-> << >>, panics |-> TRUE]
    BY <1>1, <1>3, Zenon
  <2>2. new.panics = TRUE
    BY <2>1, Zenon
  <2> QED BY <1>3, <2>2, Zenon DEF merged, kept, managed, new
<1>4. CASE ~ LookupFails(kept, managed, merged)
  <2>1. new = result ++ [panics |-> FALSE]
    BY <1>1, <1>4, Zenon
  <2>2. new.panics = FALSE /\ new.rules = result.rules /\ new.pathMaps = result.pathMaps
    BY <1>2, <2>1, Zenon DEF ++
  <2> QED BY <1>4, <2>2, Zenon DEF merged, kept, managed, new, result
<1> QED BY <1>3, <1>4, Zenon

\* The path maps that are kept.
LEMMA KeptMapsAre ==
    ASSUME TypeInv, NEW listeners
    PROVE  LET kept == KeptMaps(listeners)
               during == During(listeners)
           IN  /\ \A m \in DOMAIN kept : m \in DOMAIN gw.pathMaps /\ kept[m] = gw.pathMaps[m]
               /\ Shared => \A r \in Reachable(during) :
                    LET m == gw.rules[r].pathMap IN
                    /\ m \in DOMAIN gw.pathMaps /\ gw.pathMaps[m].rules # << >>
                    /\ \A path : IsBlacklisted(HostOfRule(during, r), path, targets)
                    => m \in DOMAIN kept
<1> DEFINE kept == KeptMaps(listeners)
           during == During(listeners)
           names == GetBlacklistedPathMaps(during, targets)
<1>1. during.rules = gw.rules /\ during.pathMaps = gw.pathMaps /\ during.listeners = listeners
  BY Zenon DEF TypeInv, WellFormed, EmptyConfig, During
<1> HIDE DEF during
<1>2. kept = IF Shared THEN Restrict(gw.pathMaps, names) ELSE << >>
  BY Zenon DEF KeptMaps, KeptOnly, during
<1>3. names \subseteq DOMAIN gw.pathMaps
  <2> SUFFICES ASSUME NEW r, NEW p \in PathsOfRule(during, r)
               PROVE  gw.rules[r].pathMap \in DOMAIN gw.pathMaps
    BY <1>1, Zenon DEF GetBlacklistedPathMaps
  <2> QED BY <1>1, Zenon DEF PathsOfRule
<1>4. ASSUME NEW r \in Reachable(during), gw.rules[r].pathMap \in DOMAIN gw.pathMaps,
             gw.pathMaps[gw.rules[r].pathMap].rules # << >>,
             \A path : IsBlacklisted(HostOfRule(during, r), path, targets)
      PROVE  gw.rules[r].pathMap \in names
  <2> DEFINE rules == gw.pathMaps[gw.rules[r].pathMap].rules
  <2>1. IsSeq(rules)
    BY <1>4, Zenon DEF TypeInv, WellFormed, WellFormedMap
  <2>2. PICK p : p \in Range(rules)
    <3>1. rules # << >>
      BY <1>4, Zenon
    <3> HIDE DEF rules
    <3>2. 1 \in DOMAIN rules
      BY <2>1, <3>1, FirstOfSome, Zenon
    <3> QED BY <3>2, Zenon DEF Range
  <2>3. p.path \in PathsOfRule(during, r)
    BY <1>1, <1>4, <2>2, Zenon DEF PathsOfRule
  <2> QED BY <1>1, <1>4, <2>3, Zenon DEF GetBlacklistedPathMaps
<1> HIDE DEF names, kept
<1>5. \A m \in DOMAIN kept : m \in DOMAIN gw.pathMaps /\ kept[m] = gw.pathMaps[m]
  BY <1>2, <1>3 DEF Restrict
<1>6. Shared => DOMAIN kept = names
  BY <1>2, Zenon DEF Restrict
<1> QED BY <1>4, <1>5, <1>6, Zenon DEF kept, during

\* The rules that are kept.
LEMMA KeptRulesAre ==
    ASSUME TypeInv, NEW listeners, NEW merged
    PROVE  LET kept == KeptRules(listeners, merged)
               during == During(listeners)
           IN  /\ \A r \in DOMAIN kept :
                    /\ Shared /\ r \in DOMAIN gw.rules /\ kept[r] = gw.rules[r] /\ r \in Reachable(during)
                    /\ \/ gw.rules[r].pathMap \in DOMAIN merged
                       \/ IsBlacklisted(HostOfRule(during, r), <<"">>, targets)
               /\ Shared => \A r \in Reachable(during) :
                    IsBlacklisted(HostOfRule(during, r), <<"">>, targets) => r \in DOMAIN kept
<1> DEFINE kept == KeptRules(listeners, merged)
           during == During(listeners)
           later == [during EXCEPT !.pathMaps = merged]
           names == GetBlacklistedRoutingRules(later, targets)
<1>1. /\ during.rules = gw.rules /\ during.listeners = listeners
      /\ later.rules = gw.rules /\ later.pathMaps = merged /\ later.listeners = listeners
  BY Zenon DEF TypeInv, WellFormed, EmptyConfig, During
<1>2. kept = IF Shared THEN Restrict(gw.rules, names) ELSE << >>
  BY Zenon DEF KeptRules, KeptOnly
<1> HIDE DEF during, later, kept
<1>3. Reachable(later) = Reachable(during) /\ \A r : HostOfRule(later, r) = HostOfRule(during, r)
  BY <1>1, Zenon DEF Reachable, HostOfRule
<1>4. names \subseteq Reachable(during) /\ Reachable(during) \subseteq DOMAIN gw.rules
  BY <1>1, <1>3, Zenon DEF GetBlacklistedRoutingRules, Reachable
<1>5. \A r \in names : \/ gw.rules[r].pathMap \in DOMAIN merged
                       \/ IsBlacklisted(HostOfRule(during, r), <<"">>, targets)
  BY <1>1, <1>3, Zenon DEF GetBlacklistedRoutingRules, PathsOfRule
<1>6. \A r \in Reachable(during) : IsBlacklisted(HostOfRule(during, r), <<"">>, targets) => r \in names
  BY <1>3, Zenon DEF GetBlacklistedRoutingRules
<1> HIDE DEF names
<1>7. Shared => DOMAIN kept = names
  BY <1>2, Zenon DEF Restrict
<1>8. \A r \in DOMAIN kept : Shared /\ r \in names /\ kept[r] = gw.rules[r]
  BY <1>2 DEF Restrict
<1> QED BY <1>4, <1>5, <1>6, <1>7, <1>8, Zenon DEF kept, during

\* A part stays as it is.
Stays(n, old, new) == n \in DOMAIN new /\ new[n] = old[n]

\* A kept path map does, unless AGIC makes one of the same name.
LEMMA KeptMapsStay ==
    ASSUME NEW maps, NEW byID, NEW listeners, NEW ord,
           NEW m \in DOMAIN KeptMaps(listeners), m \notin DOMAIN PathMapsOfRules(maps, byID)
    PROVE  Stays(m, KeptMaps(listeners), MergedMaps(maps, byID, listeners, ord))
<1> DEFINE old == KeptMaps(listeners)
           ours == PathMapsOfRules(maps, byID)
           merged == MergePathMaps(old, ours, ord)
<1>1. m \in DOMAIN old \ DOMAIN ours
  BY Zenon
<1> HIDE DEF old, ours
<1>2. DOMAIN merged = DOMAIN old \cup DOMAIN ours /\ \A x \in DOMAIN old \ DOMAIN ours : merged[x] = old[x]
  BY Zenon DEF MergePathMaps, ++
<1> HIDE DEF merged
<1>3. Stays(m, old, merged)
  BY <1>1, <1>2, Zenon DEF Stays
<1> QED BY <1>3, Zenon DEF MergedMaps, old, ours, merged

\* lookupPathMap finds the path map of every rule it is asked for: a rule that is
\* kept only because its host is prohibited brings its path map.
LEMMA LookupsSucceed ==
    ASSUME TypeInv, MapsHaveRules(gw), PlainTargets(targets), NEW maps, NEW byID, NEW listeners, NEW ord
    PROVE  ~ RulesAndPathMaps(maps, byID, During(listeners), ord).panics
<1> DEFINE during == During(listeners)
           merged == MergedMaps(maps, byID, listeners, ord)
           kept == KeptRules(listeners, merged)
           managed == getRules(maps, byID)
<1>1. DOMAIN merged = DOMAIN KeptMaps(listeners) \cup DOMAIN PathMapsOfRules(maps, byID)
  BY MergedMapsHave, Zenon DEF MergedMaps
<1>2. \A x \in DOMAIN managed : managed[x].pathMap = None \/ managed[x].pathMap \in DOMAIN merged
  BY <1>1, ManagedRulesAre, Zenon
<1>3. ASSUME NEW k \in DOMAIN kept, kept[k].pathMap # None
      PROVE  kept[k].pathMap \in DOMAIN merged
  <2>1. /\ Shared /\ k \in DOMAIN gw.rules /\ kept[k] = gw.rules[k] /\ k \in Reachable(during)
        /\ \/ gw.rules[k].pathMap \in DOMAIN merged
           \/ IsBlacklisted(HostOfRule(during, k), <<"">>, targets)
    <3> HIDE DEF merged
    <3> QED BY KeptRulesAre, Zenon
  <2>2. CASE IsBlacklisted(HostOfRule(during, k), <<"">>, targets)
    <3> DEFINE m == gw.rules[k].pathMap
    <3> HIDE DEF kept, merged, during
    <3>1. m \in DOMAIN gw.pathMaps
      BY <1>3, <2>1 DEF TypeInv, Accepts, PathMapsNamed, Range
    <3>2. gw.pathMaps[m].rules # << >>
      BY <3>1, Zenon DEF MapsHaveRules
    <3>3. \A path : IsBlacklisted(HostOfRule(during, k), path, targets)
      BY <2>2, PlainTargetsProhibitAll, Zenon
    <3>4. m \in DOMAIN KeptMaps(listeners)
      BY <2>1, <3>1, <3>2, <3>3, KeptMapsAre, Zenon DEF during
    <3> QED BY <1>1, <2>1, <3>4, Zenon
  <2> HIDE DEF kept, merged, during
  <2> QED BY <2>1, <2>2, Zenon
<1> HIDE DEF kept, merged, managed
<1>4. ~ LookupFails(kept, managed, merged)
  BY <1>2, <1>3, Zenon DEF LookupFails
<1> QED BY <1>4, RoutingIs, Zenon DEF kept, merged, managed

\* A path map without an ID is passed only where some are made and rules are kept.
LEMMA PassingNeedsNoID ==
    ASSUME NEW noID, NEW maps, NEW byID, NEW during, NEW ord,
           TRUE \in PassesNoID(noID, maps, byID, during, ord)
    PROVE  noID # {} /\ Shared
<1> DEFINE kept == KeptRoutingRules(during, MergedPathMaps(maps, byID, during, ord))
           managed == getRules(maps, byID)
           some == (noID \cap DOMAIN PathMapsOfRules(maps, byID)) \ DOMAIN KeptPathMaps(during)
<1>1. TRUE \in NilIDs(kept, managed, some)
  BY Zenon DEF PassesNoID
<1> HIDE DEF kept, managed
<1>2. some # {} /\ \E s : s \in (DOMAIN kept) \X (DOMAIN managed)
  <2> HIDE DEF some
  <2> QED BY <1>1 DEF NilIDs
<1>3. noID # {} /\ \E k : k \in DOMAIN kept
  BY <1>2
<1>4. CASE ~ Shared
  <2>1. kept = << >>
    BY <1>4, Zenon DEF kept, KeptRoutingRules, KeptOnly
  <2>2. DOMAIN kept = {}
    BY <2>1
  <2> QED BY <1>3, <2>2
<1> QED BY <1>3, <1>4, Zenon

\* A build panics over a path map without an ID, or not at all.
LEMMA BuildsDoNotPanic ==
    ASSUME TypeInv, MapsHaveRules(gw), PlainTargets(targets), NEW out \in Builds, out.error = "panic"
    PROVE  Shared /\ WithoutID(out.cb) # {}
<1>1. PICK cb \in Contexts : \E listeners \in Listeners(cb) :
            out \in BuiltOn(cb, listeners, FrontendPorts(cb, listeners))
  BY DEF Builds
<1>2. PICK listeners \in Listeners(cb) : out \in BuiltOn(cb, listeners, FrontendPorts(cb, listeners))
  BY <1>1, Zenon
<1> DEFINE ports == FrontendPorts(cb, listeners)
           byID == listenersByID(listeners, ports)
           during == During(listeners)
<1> HIDE DEF ports
<1>3. PICK routing \in RequestRoutingRules(cb, byID, during) : out = Built(cb, listeners, ports, routing)
  <2> HIDE DEF byID, during
  <2> QED BY <1>2, Zenon DEF BuiltOn, byID, during, ports, During
<1> HIDE DEF byID, during
<1>4. PICK maps, redirects : routing \in Routing(WithoutID(cb), maps, byID, during, redirects)
  BY <1>3, Zenon DEF RequestRoutingRules, RoutingOn
<1>5. PICK ord \in PathRuleOrders(maps) : \E nil \in PassesNoID(WithoutID(cb), maps, byID, during, ord) :
            routing = (IF nil THEN Panicked ELSE RulesAndPathMaps(maps, byID, during, ord)) ++ [redirects |-> redirects]
  BY <1>4, Zenon DEF Routing
<1>6. PICK nil \in PassesNoID(WithoutID(cb), maps, byID, during, ord) :
            routing = (IF nil THEN Panicked ELSE RulesAndPathMaps(maps, byID, during, ord)) ++ [redirects |-> redirects]
  BY <1>5, Zenon
<1> DEFINE new == RulesAndPathMaps(maps, byID, during, ord)
<1>7. "panics" \in DOMAIN new
  BY Zenon DEF RulesAndPathMaps, MergedWithKept, Merged, Panicked, ++
<1>8. ~ new.panics
  BY LookupsSucceed, Zenon DEF during
<1> HIDE DEF new
<1>9. nil = TRUE
  <2>1. nil \in BOOLEAN
    BY <1>6, Zenon DEF PassesNoID, NilIDs
  <2>2. routing.panics
    BY <1>3, Zenon DEF Built
  <2>3. CASE nil = FALSE
    <3>1. routing = new ++ [redirects |-> redirects]
      BY <1>6, <2>3, Zenon DEF new
    <3> QED BY <1>7, <1>8, <2>2, <3>1, Zenon DEF ++
  <2> QED BY <2>1, <2>3, Zenon
<1>10. WithoutID(cb) # {} /\ Shared
  BY <1>6, <1>9, PassingNeedsNoID, Zenon
<1>11. out.cb = cb
  BY <1>3, Zenon DEF Built
<1> QED BY <1>10, <1>11, Zenon

\* What a build that does not fail makes of rules and path maps.
RoutedAs(config, cb, listeners, maps, ord) ==
    LET byID == listenersByID(listeners, config.ports)
        merged == MergedMaps(maps, byID, listeners, ord)
        new == MergeRules(KeptRules(listeners, merged), getRules(maps, byID), merged, ord)
    IN  /\ cb \in Contexts /\ listeners \in Listeners(cb) /\ config.listeners = listeners
        /\ DOMAIN maps \subseteq AskedIDs(cb)
        /\ config.rules = new.rules /\ config.pathMaps = new.pathMaps
        /\ \A m \in DOMAIN config.pathMaps : config.pathMaps[m].rules # << >>

\* It is this.
LEMMA BuildRoutes ==
    ASSUME NoneIsNoName, TypeInv, NEW out \in Builds, out.error = "none"
    PROVE  \E cb, listeners, maps, ord : RoutedAs(out.config, cb, listeners, maps, ord)
<1>1. PICK cb, listeners, byID, maps, to, ord : ConsistsOf(out.config, cb, listeners, byID, maps, to, ord)
  BY BuildIs, Zenon
<1> DEFINE new == RulesAndPathMaps(maps, byID, During(listeners), ord)
           config == out.config
<1> HIDE DEF config
<1>2. /\ cb \in Contexts /\ listeners \in Listeners(cb) /\ config.listeners = listeners
      /\ byID = listenersByID(listeners, config.ports) /\ DOMAIN maps \subseteq AskedIDs(cb)
      /\ MadeMaps(maps, to) /\ ord \in PathRuleOrders(maps) /\ ~ new.panics
      /\ "rules" \in DOMAIN new /\ "pathMaps" \in DOMAIN new
            => config.rules = new.rules /\ config.pathMaps = new.pathMaps
  BY <1>1, Zenon DEF ConsistsOf, During, config
<1>3. "rules" \in DOMAIN new /\ "pathMaps" \in DOMAIN new /\ GoodMaps(new.pathMaps)
  BY <1>2, RoutingKeeps, Zenon DEF During
<1> DEFINE merged == MergedMaps(maps, byID, listeners, ord)
           result == MergeRules(KeptRules(listeners, merged), getRules(maps, byID), merged, ord)
<1>4. new.rules = result.rules /\ new.pathMaps = result.pathMaps
  BY <1>2, RoutingIs, Zenon
<1>5. \A m \in DOMAIN config.pathMaps : config.pathMaps[m].rules # << >>
  <2> HIDE DEF new
  <2> QED BY <1>2, <1>3, Zenon DEF GoodMaps
<1> HIDE DEF new, result
<1>6. config.rules = result.rules /\ config.pathMaps = result.pathMaps
  BY <1>2, <1>3, <1>4, Zenon
<1>7. RoutedAs(config, cb, listeners, maps, ord)
  BY <1>2, <1>5, <1>6, Zenon DEF RoutedAs, result, merged
<1> QED BY <1>7, Zenon DEF config

=============================================================================
