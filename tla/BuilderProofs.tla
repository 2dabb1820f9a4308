---------------------------- MODULE BuilderProofs -----------------------------
(***************************************************************************)
(* What the config builder makes of any ingresses and virtual services:    *)
(* facts about the operators of RoutingConfig and IstioConfig.  What it    *)
(* makes refers to what it makes: every pool, setting, probe, redirect,    *)
(* listener, port, certificate and path map that is named exists, but for  *)
(* the pool of an ingress without rules.                                   *)
(***************************************************************************)
EXTENDS RoutingConfig, IstioConfig, MergeProofs

-----------------------------------------------------------------------------
(* The rules, in the order in which they are visited *)

\* The walk over the rules visits rules of the ingresses, and ingresses that
\* have none.
Visited(ingresses) ==
    {e \in [ing : Range(ingresses), no : Nat] :
        IF e.no = 0 THEN e.ing.rules = << >> ELSE e.no \in DOMAIN e.ing.rules}

\* Walk is a sequence of these.
LEMMA WalkIs ==
    ASSUME NEW ings, IsSeq(ings), \A i \in Range(ings) : IsSeq(i.rules)
    PROVE  Walk(ings) \in Seq(Visited(ings))
<1> DEFINE rounds == [k \in DOMAIN ings |->
        IF ings[k].rules = << >> THEN <<[ing |-> ings[k], no |-> 0]>>
        ELSE [r \in DOMAIN ings[k].rules |-> [ing |-> ings[k], no |-> r]]]
<1>1. DOMAIN ings = 1..Len(ings) /\ Len(ings) \in Nat
  BY SeqIs, Zenon DEF IsSeq
<1>2. ASSUME NEW k \in DOMAIN ings PROVE rounds[k] \in Seq(Visited(ings))
  <2>1. ings[k] \in Range(ings) /\ DOMAIN ings[k].rules = 1..Len(ings[k].rules) /\ Len(ings[k].rules) \in Nat
    BY SeqIs DEF IsSeq, Range
  <2>2. CASE ings[k].rules = << >>
    <3>1. [ing |-> ings[k], no |-> 0] \in Visited(ings)
      BY <2>1, <2>2, Zenon DEF Visited
    <3> QED BY <2>2, <3>1
  <2>3. CASE ings[k].rules # << >>
    <3>1. \A r \in 1..Len(ings[k].rules) : [ing |-> ings[k], no |-> r] \in Visited(ings)
      BY <2>1, <2>3 DEF Visited
    <3>2. rounds[k] = [r \in 1..Len(ings[k].rules) |-> [ing |-> ings[k], no |-> r]]
      BY <2>1, <2>3, Zenon
    <3> HIDE DEF rounds
    <3> QED BY <2>1, <3>1, <3>2
  <2> QED BY <2>2, <2>3, Zenon
<1>3. rounds \in Seq(Seq(Visited(ings)))
  BY <1>1, <1>2
<1> HIDE DEF rounds
<1>4. Joined(rounds) \in Seq(Visited(ings))
  BY <1>3, JoinedIs, Zenon
<1> QED BY <1>4, Zenon DEF Walk, rounds

-----------------------------------------------------------------------------
(* Path rules and path maps *)

\* None stands for a nil pointer or an empty string, and not for a name.
NoneIsNoName ==
    /\ \A x : generateAddressPoolName(x) # None /\ generateURLPathMapName(x) # None
    /\ \A x, y : generateHTTPSettingsName(x, y) # None
    /\ DefaultBackendAddressPoolName # None /\ DefaultBackendHTTPSettingsName # None

\* What is there to refer to: a record of the names of pools, settings and redirects.
Finds(x, to) ==
    /\ x.pool \in to.pools \cup {None} /\ x.settings \in to.settings \cup {None}
    /\ x.redirect \in to.redirects \cup {None}
HasDefaults(to) ==
    DefaultBackendAddressPoolName \in to.pools /\ DefaultBackendHTTPSettingsName \in to.settings

\* Path rules and path maps as AGIC makes them.
MadeRules(s, to) == IsSeq(s) /\ \A x \in Range(s) : MadeRule(x) /\ Finds(x, to)
MadeMap(m, to) == DOMAIN m = MapParts /\ Finds(m, to) /\ MadeRules(m.rules, to)
MadeMaps(maps, to) == IsFiniteSet(DOMAIN maps) /\ \A id \in DOMAIN maps : MadeMap(maps[id], to)

\* The backends of a rule that are resolved, and the default backend, are there.
Serves(cb, i, r, to) ==
    /\ \A p \in DOMAIN i.rules[r].paths : <<i.name, r, p>> \in cb.resolved => Finds(Backend(cb, i, r, p), to)
    /\ <<i.name, 0, 0>> \in cb.resolved => Finds(Backend(cb, i, 0, 0), to)

\* The path rule for a path, and whether there is one.
RuleFor(cb, id, config, i, r, redirects, p) ==
    LET redirect == RedirectFor(id, i, config, redirects)
    IN  [name |-> generatePathRuleName(i.name, p), path |-> i.rules[r].paths[p].path, waf |-> i.waf]
        ++ (IF redirect # None THEN ToRedirect(redirect) ELSE Backend(cb, i, r, p))

IsListed(cb, id, config, i, r, redirects, p) ==
    /\ i.rules[r].paths[p].path \notin DefaultPaths
    /\ RedirectFor(id, i, config, redirects) # None \/ <<i.name, r, p>> \in cb.resolved

\* The path rules are those of the paths that have one.
ArePathRules(rules, cb, id, config, i, r, redirects) ==
    /\ IsSeq(rules)
    /\ \A x : x \in Range(rules) <=>
        \E p \in DOMAIN i.rules[r].paths :
            IsListed(cb, id, config, i, r, redirects, p) /\ x = RuleFor(cb, id, config, i, r, redirects, p)

\* This is what getPathRules makes.
LEMMA PathRulesAre ==
    ASSUME NEW cb, NEW id, NEW config, NEW i, NEW r, NEW redirects, IsSeq(i.rules[r].paths)
    PROVE  ArePathRules(getPathRules(cb, id, config, i, r, redirects), cb, id, config, i, r, redirects)
<1> DEFINE paths == i.rules[r].paths
           rule(p) == RuleFor(cb, id, config, i, r, redirects, p)
           with == {p \in DOMAIN paths : IsListed(cb, id, config, i, r, redirects, p)}
           positions == [p \in DOMAIN paths |-> p]
           order == Listed(positions, with)
           rules == getPathRules(cb, id, config, i, r, redirects)
<1>1. IsSeq(order) /\ Range(order) = with
  <2>1. DOMAIN paths = 1..Len(paths) /\ Len(paths) \in Nat
    <3>1. IsSeq(paths)
      BY Zenon
    <3> HIDE DEF paths
    <3> QED BY <3>1, SeqIs, Zenon DEF IsSeq
  <2>2. positions \in Seq(1..Len(paths))
    BY <2>1
  <2>3. Range(positions) = DOMAIN paths
    BY Zenon DEF Range
  <2>4. with \subseteq DOMAIN paths
    BY Zenon
  <2> HIDE DEF positions, with
  <2>5. IsSeq(positions)
    BY <2>2, SeqIs, Zenon
  <2>6. IsSeq(order) /\ Range(order) = Range(positions) \cap with
    BY <2>5, ListedIs, Zenon
  <2> QED BY <2>3, <2>4, <2>6, Zenon
<1>2. rules = [k \in DOMAIN order |-> rule(order[k])]
  BY Zenon DEF getPathRules, RuleFor, IsListed
<1> SUFFICES IsSeq(rules) /\ Range(rules) = {rule(p) : p \in with}
  BY Zenon DEF ArePathRules
<1> HIDE DEF order, rule, rules, with
<1>3. DOMAIN order = 1..Len(order) /\ Len(order) \in Nat
  BY <1>1, SeqIs, Zenon DEF IsSeq
<1>4. rules \in Seq({rule(order[k]) : k \in DOMAIN order})
  BY <1>2, <1>3
<1>5. IsSeq(rules)
  BY <1>4, SeqIs, Zenon
<1>6. Range(rules) = {rule(order[k]) : k \in DOMAIN order}
  BY <1>2, Zenon DEF Range
<1>7. Range(order) = {order[k] : k \in DOMAIN order}
  BY Zenon DEF Range
<1> QED BY <1>1, <1>5, <1>6, <1>7, Zenon

\* A path rule has a redirect, or leads to a backend.
LeadsTo(x, redirect, b) ==
    IF redirect # None THEN x.redirect = redirect /\ x.pool = None /\ x.settings = None
    ELSE x.redirect = None /\ x.pool = b.pool /\ x.settings = b.settings

\* The fields of the path rule for a path.
LEMMA RuleForIs ==
    ASSUME NEW cb, NEW id, NEW config, NEW i, NEW r, NEW redirects, NEW p, NEW x,
           x = RuleFor(cb, id, config, i, r, redirects, p)
    PROVE  /\ x.name = generatePathRuleName(i.name, p) /\ x.path = i.rules[r].paths[p].path
           /\ LeadsTo(x, RedirectFor(id, i, config, redirects), Backend(cb, i, r, p))
<1> DEFINE redirect == RedirectFor(id, i, config, redirects)
<1>1. \A a : ToRedirect(a).redirect = a /\ ToRedirect(a).pool = None /\ ToRedirect(a).settings = None
  BY Zenon DEF ToRedirect
<1>2. Backend(cb, i, r, p).redirect = None
  BY Zenon DEF Backend
<1> HIDE DEF redirect
<1>3. /\ x.name = generatePathRuleName(i.name, p) /\ x.path = i.rules[r].paths[p].path
      /\ redirect # None => x.redirect = ToRedirect(redirect).redirect /\ x.pool = ToRedirect(redirect).pool
                            /\ x.settings = ToRedirect(redirect).settings
      /\ redirect = None => x.redirect = Backend(cb, i, r, p).redirect /\ x.pool = Backend(cb, i, r, p).pool
                            /\ x.settings = Backend(cb, i, r, p).settings
  BY Zenon DEF RuleFor, ++, ToRedirect, Backend, redirect
<1> QED BY <1>1, <1>2, <1>3, Zenon DEF LeadsTo, redirect

\* The path rules of a rule have names that AGIC gives, one target each, and
\* lead to what is there.
LEMMA PathRulesAreMade ==
    ASSUME NoneIsNoName, NEW cb, NEW id, NEW config, NEW i, NEW r, NEW redirects, NEW to,
           IsSeq(i.rules[r].paths), Serves(cb, i, r, to), DOMAIN redirects \subseteq to.redirects
    PROVE  MadeRules(getPathRules(cb, id, config, i, r, redirects), to)
<1> DEFINE paths == i.rules[r].paths
           redirect == RedirectFor(id, i, config, redirects)
           rule(p) == RuleFor(cb, id, config, i, r, redirects, p)
           listed(p) == IsListed(cb, id, config, i, r, redirects, p)
<1>1. redirect \in to.redirects \cup {None}
  BY DEF RedirectFor
<1>2. ASSUME NEW p \in DOMAIN paths, listed(p) PROVE MadeRule(rule(p)) /\ Finds(rule(p), to)
  <2>1. /\ rule(p).name = generatePathRuleName(i.name, p) /\ rule(p).path = i.rules[r].paths[p].path
        /\ LeadsTo(rule(p), redirect, Backend(cb, i, r, p))
    BY RuleForIs, Zenon
  <2>2. Backend(cb, i, r, p).pool # None /\ Backend(cb, i, r, p).settings # None
    BY Zenon DEF Backend, PoolOf, NoneIsNoName
  <2>3. redirect = None => Finds(Backend(cb, i, r, p), to)
    BY <1>2, Zenon DEF Serves, IsListed
  <2> HIDE DEF rule, redirect
  <2>4. MadeRule(rule(p))
    BY <2>1, <2>2 DEF MadeRule, OneTarget, generatePathRuleName, LeadsTo
  <2>5. Finds(rule(p), to)
    BY <1>1, <2>1, <2>3, Zenon DEF Finds, LeadsTo
  <2> QED BY <2>4, <2>5, Zenon
<1> DEFINE rules == getPathRules(cb, id, config, i, r, redirects)
<1>3. ArePathRules(rules, cb, id, config, i, r, redirects)
  BY PathRulesAre, Zenon
<1> HIDE DEF rules
<1> QED BY <1>2, <1>3, Zenon DEF MadeRules, ArePathRules, rules

\* And so has the default of a path map.
LEMMA DefaultIsThere ==
    ASSUME NEW cb, NEW id, NEW config, NEW i, NEW r, NEW redirects, NEW to, HasDefaults(to),
           IsSeq(i.rules[r].paths), Serves(cb, i, r, to), DOMAIN redirects \subseteq to.redirects
    PROVE  LET d == getDefaultFromRule(cb, id, config, i, r, redirects)
           IN  DOMAIN d = {"pool", "settings", "redirect"} /\ Finds(d, to)
<1> DEFINE paths == i.rules[r].paths
           catchAll == {p \in DOMAIN paths : paths[p].path \in DefaultPaths}
           backend == IF catchAll # {} THEN <<i.name, r, Max(catchAll)>> ELSE <<i.name, 0, 0>>
           redirect == RedirectFor(id, i, config, redirects)
           d == getDefaultFromRule(cb, id, config, i, r, redirects)
<1>1. d = IF redirect # None THEN ToRedirect(redirect)
          ELSE IF backend \in cb.resolved THEN Backend(cb, i, backend[2], backend[3]) ELSE DefaultBackend
  BY Zenon DEF getDefaultFromRule
<1>2. redirect \in to.redirects \cup {None}
  BY DEF RedirectFor
<1>3. catchAll # {} => Max(catchAll) \in DOMAIN paths
  <2>1. DOMAIN paths = 1..Len(paths) /\ Len(paths) \in Nat
    BY SeqIs DEF IsSeq
  <2>2. catchAll \in SUBSET (1..Len(paths))
    BY <2>1, Zenon
  <2> HIDE DEF catchAll
  <2> QED BY <2>1, <2>2, MaxIs, Zenon
<1> HIDE DEF catchAll
<1>4. backend \in cb.resolved => Finds(Backend(cb, i, backend[2], backend[3]), to)
  BY <1>3, Zenon DEF Serves
<1>5. Finds(ToRedirect(redirect), to) /\ DOMAIN ToRedirect(redirect) = {"pool", "settings", "redirect"}
  BY <1>2, Zenon DEF Finds, ToRedirect
<1>6. Finds(DefaultBackend, to) /\ DOMAIN DefaultBackend = {"pool", "settings", "redirect"}
  BY Zenon DEF Finds, DefaultBackend, HasDefaults
<1>7. DOMAIN Backend(cb, i, backend[2], backend[3]) = {"pool", "settings", "redirect"}
  BY Zenon DEF Backend
<1> HIDE DEF backend, redirect, d
<1> QED BY <1>1, <1>4, <1>5, <1>6, <1>7, Zenon DEF d

\* The path map of a rule.
LEMMA PathMapIsMade ==
    ASSUME NoneIsNoName, NEW cb, NEW id, NEW config, NEW i, NEW r, NEW redirects, NEW to, HasDefaults(to),
           IsSeq(i.rules[r].paths), Serves(cb, i, r, to), DOMAIN redirects \subseteq to.redirects
    PROVE  MadeMap(getPathMap(cb, id, config, i, r, redirects), to)
<1> DEFINE d == getDefaultFromRule(cb, id, config, i, r, redirects)
           rules == getPathRules(cb, id, config, i, r, redirects)
           map == d ++ [rules |-> rules]
<1>1. DOMAIN d = {"pool", "settings", "redirect"} /\ Finds(d, to)
  BY DefaultIsThere, Zenon
<1>2. MadeRules(rules, to)
  BY PathRulesAreMade, Zenon
<1> HIDE DEF d, rules
<1>3. /\ DOMAIN map = MapParts /\ map.rules = rules
      /\ map.pool = d.pool /\ map.settings = d.settings /\ map.redirect = d.redirect
  BY <1>1, Zenon DEF ++, MapParts
<1> HIDE DEF map
<1>4. MadeMap(map, to)
  BY <1>1, <1>2, <1>3, Zenon DEF MadeMap, Finds
<1> QED BY <1>4, Zenon DEF getPathMap, map, d, rules

\* Two path maps for one listener become one.
LEMMA MergedPathMapIsMade ==
    ASSUME NEW m, NEW n, NEW to, MadeMap(m, to), MadeMap(n, to)
    PROVE  MadeMap(mergePathMap(m, n), to)
<1>1. /\ DOMAIN mergePathMap(m, n) = MapParts
      /\ mergePathMap(m, n).rules = m.rules \o n.rules
      /\ mergePathMap(m, n).pool \in {m.pool, n.pool, None}
      /\ mergePathMap(m, n).settings \in {m.settings, n.settings, None}
      /\ mergePathMap(m, n).redirect \in {m.redirect, n.redirect}
  BY Zenon DEF mergePathMap, ToRedirect, ++, MapParts
<1>2. MadeRules(m.rules \o n.rules, to)
  BY ConcatIs, Zenon DEF MadeMap, MadeRules
<1>3. Finds(mergePathMap(m, n), to)
  BY <1>1, Zenon DEF MadeMap, Finds
<1> QED BY <1>1, <1>2, <1>3, Zenon DEF MadeMap

\* The path map to start from.
LEMMA EmptyPathMapIsMade == ASSUME NEW to, HasDefaults(to) PROVE MadeMap(EmptyPathMap, to)
<1>1. /\ EmptyPathMap.rules = << >> /\ DOMAIN EmptyPathMap = MapParts
      /\ EmptyPathMap.pool = DefaultBackendAddressPoolName
      /\ EmptyPathMap.settings = DefaultBackendHTTPSettingsName /\ EmptyPathMap.redirect = None
  BY Zenon DEF EmptyPathMap, DefaultBackend, ++, MapParts
<1> QED BY <1>1 DEF MadeMap, MadeRules, Finds, HasDefaults, IsSeq, Range

\* noRulesIngress names a pool.
LEMMA NoRulesMapsAreMade ==
    ASSUME NEW cb, NEW i, NEW maps, NEW to, HasDefaults(to), MadeMaps(maps, to),
           <<i.name, 0, 0>> \in cb.resolved => generateAddressPoolName(i.backend) \in to.pools
    PROVE  MadeMaps(noRulesIngress(cb, i, maps), to)
<1> SUFFICES ASSUME <<i.name, 0, 0>> \in cb.resolved PROVE MadeMaps(noRulesIngress(cb, i, maps), to)
  BY Zenon DEF noRulesIngress
<1> DEFINE m == [EmptyPathMap EXCEPT !.pool = generateAddressPoolName(i.backend)]
           id == defaultFrontendListenerIdentifier
<1>1. MadeMap(m, to)
  <2>1. /\ DOMAIN m = DOMAIN EmptyPathMap /\ m.rules = EmptyPathMap.rules
        /\ m.pool = generateAddressPoolName(i.backend)
        /\ m.settings = EmptyPathMap.settings /\ m.redirect = EmptyPathMap.redirect
    BY EmptyPathMapIsMade, Zenon DEF MadeMap, MapParts
  <2> HIDE DEF m
  <2> QED BY <2>1, EmptyPathMapIsMade, Zenon DEF MadeMap, Finds
<1> HIDE DEF m, id
<1>2. /\ DOMAIN (Only(id, m) ++ maps) = {id} \cup DOMAIN maps
      /\ \A x \in {id} \cup DOMAIN maps : MadeMap((Only(id, m) ++ maps)[x], to)
  BY <1>1, Zenon DEF Only, ++, MadeMaps
<1>3. IsFiniteSet({id} \cup DOMAIN maps)
  BY FS_Union, FS_Singleton, Zenon DEF MadeMaps
<1>4. MadeMaps(Only(id, m) ++ maps, to)
  BY <1>2, <1>3, Zenon DEF MadeMaps
<1> QED BY <1>4, Zenon DEF noRulesIngress, m, id

\* A rule adds to the path maps of its listeners.
LEMMA AddedMapsAreMade ==
    ASSUME NoneIsNoName, NEW cb, NEW i, NEW r, NEW maps, NEW configs, NEW redirects, NEW to,
           HasDefaults(to), MadeMaps(maps, to), IsFiniteSet(DOMAIN configs),
           IsSeq(i.rules[r].paths), Serves(cb, i, r, to), DOMAIN redirects \subseteq to.redirects
    PROVE  MadeMaps(addRule(cb, i, r, maps, configs, redirects), to)
<1> DEFINE added == [id \in DOMAIN configs |->
                mergePathMap(IF id \in DOMAIN maps THEN maps[id] ELSE EmptyPathMap,
                             getPathMap(cb, id, configs[id], i, r, redirects))]
<1>1. \A id \in DOMAIN configs : MadeMap(added[id], to)
  <2> TAKE id \in DOMAIN configs
  <2>1. MadeMap(IF id \in DOMAIN maps THEN maps[id] ELSE EmptyPathMap, to)
    BY EmptyPathMapIsMade, Zenon DEF MadeMaps
  <2>2. MadeMap(getPathMap(cb, id, configs[id], i, r, redirects), to)
    BY PathMapIsMade, Zenon
  <2> QED BY <2>1, <2>2, MergedPathMapIsMade, Zenon
<1>2. DOMAIN added = DOMAIN configs
  BY Zenon
<1> HIDE DEF added
<1>3. IsFiniteSet(DOMAIN configs \cup DOMAIN maps)
  BY FS_Union, Zenon DEF MadeMaps
<1>4. MadeMaps(added ++ maps, to)
  BY <1>1, <1>2, <1>3, Zenon DEF MadeMaps, ++
<1> QED BY <1>4, Zenon DEF addRule, added

\* A rule asks for two listeners at most.
LEMMA ConfigsAreFinite ==
    ASSUME NEW cb, NEW i, NEW rule
    PROVE  IsFiniteSet(DOMAIN processIngressRule(cb, i, rule))
<1> DEFINE https == generateListenerID(i, rule, 443)
           http == generateListenerID(i, rule, 80)
<1>1. DOMAIN processIngressRule(cb, i, rule) \subseteq {https} \cup {http}
  BY Zenon DEF processIngressRule, ListenersFor
<1> HIDE DEF https, http
<1>2. IsFiniteSet({https} \cup {http})
  <2>1. IsFiniteSet({https}) /\ IsFiniteSet({http})
    BY FS_Singleton, Zenon
  <2> QED BY <2>1, FS_Union, Zenon
<1> QED BY <1>1, <1>2, FS_Subset, Zenon

\* A walk over well-formed rules, whose backends are there.
GoodWalk(cb, to) ==
    /\ IsSeq(cb.walk)
    /\ \A e \in Range(cb.walk) :
        /\ e.no # 0 => IsSeq(e.ing.rules[e.no].paths) /\ Serves(cb, e.ing, e.no, to)
        /\ e.no = 0 /\ <<e.ing.name, 0, 0>> \in cb.resolved => generateAddressPoolName(e.ing.backend) \in to.pools

\* The listeners for which there may be path maps.
AskedIDs(cb) ==
    {defaultFrontendListenerIdentifier} \cup DOMAIN cb.istioPathMaps
        \cup UNION {DOMAIN processIngressRule(cb, e.ing, e.ing.rules[e.no]) : e \in HTTPRules(cb)}

\* A round of the loop of getPathMaps.
Round(cb, redirects, maps, e) ==
    IF e.no = 0 THEN noRulesIngress(cb, e.ing, maps)
    ELSE IF isHTTP(e)
    THEN addRule(cb, e.ing, e.no, maps, processIngressRule(cb, e.ing, e.ing.rules[e.no]), redirects)
    ELSE maps

\* What the loop has made after some rounds.
Rounds(cb, redirects, after) ==
    /\ after[0] = << >>
    /\ \A n \in Nat : n < Len(cb.walk) => after[n + 1] = Round(cb, redirects, after[n], cb.walk[n + 1])

\* The path maps are those of the last round.
LEMMA PathMapLoop ==
    ASSUME NEW cb, NEW redirects, IsSeq(cb.walk)
    PROVE  \E after :
            /\ Rounds(cb, redirects, after)
            /\ getPathMaps(cb, redirects) =
                (IF DOMAIN after[Len(cb.walk)] # {} THEN after[Len(cb.walk)]
                 ELSE Only(defaultFrontendListenerIdentifier, EmptyPathMap)) ++ cb.istioPathMaps
<1> DEFINE step(maps, e) ==
            IF e.no = 0 THEN noRulesIngress(cb, e.ing, maps)
            ELSE IF isHTTP(e)
            THEN addRule(cb, e.ing, e.no, maps,
                         processIngressRule(cb, e.ing, e.ing.rules[e.no]), redirects)
            ELSE maps
           body(g, n) == IF n = 0 THEN << >> ELSE step(g[n - 1], cb.walk[n])
           Is(g, m) == g = [n \in 0..m |-> body(g, n)]
           after == CHOOSE g : Is(g, Len(cb.walk))
<1>1. Len(cb.walk) \in Nat
  BY SeqIs, Zenon DEF IsSeq
<1>2. getPathMaps(cb, redirects) =
        (IF DOMAIN after[Len(cb.walk)] # {} THEN after[Len(cb.walk)]
         ELSE Only(defaultFrontendListenerIdentifier, EmptyPathMap)) ++ cb.istioPathMaps
  BY Zenon DEF getPathMaps
<1>3. \A maps, e : step(maps, e) = Round(cb, redirects, maps, e)
  BY Zenon DEF Round
<1> HIDE DEF step
<1>4. \A m \in Nat : \E g : Is(g, m)
  <2> DEFINE ok == {m \in Nat : \E g : Is(g, m)}
  <2>1. 0 \in ok
    <3>1. Is([n \in 0..0 |-> << >>], 0)
      OBVIOUS
    <3> QED BY <3>1, Zenon
  <2>2. ASSUME NEW m \in Nat, m \in ok PROVE m + 1 \in ok
    <3>1. PICK g : Is(g, m)
      BY <2>2, Zenon
    <3>2. \A n \in 0..m : g[n] = body(g, n)
      <4> HIDE DEF body
      <4> QED BY <3>1, Zenon
    <3> DEFINE h == [n \in 0..(m + 1) |-> IF n = m + 1 THEN body(g, n) ELSE g[n]]
    <3>3. \A n \in 0..(m + 1) : h[n] = body(h, n)
      <4> TAKE n \in 0..(m + 1)
      <4>1. CASE n = 0
        BY <3>2, <4>1
      <4>2. CASE n \in 1..m
        <5>1. h[n] = g[n] /\ h[n - 1] = g[n - 1] /\ n # 0 /\ g[n] = body(g, n)
          BY <3>2, <4>2
        <5> HIDE DEF h
        <5> QED BY <5>1, Zenon
      <4>3. CASE n = m + 1
        BY <4>3
      <4> QED BY <4>1, <4>2, <4>3
    <3>4. DOMAIN h = 0..(m + 1) /\ h = [n \in DOMAIN h |-> h[n]]
      BY Zenon
    <3> HIDE DEF h, body
    <3>5. Is(h, m + 1)
      BY <3>3, <3>4, Zenon
    <3> HIDE DEF Is
    <3> QED BY <3>5
  <2> HIDE DEF ok
  <2>3. Nat \subseteq ok
    BY <2>1, <2>2, NatInd, Zenon
  <2> QED BY <2>3, Zenon DEF ok
<1>5. \A n \in 0..Len(cb.walk) : after[n] = body(after, n)
  <2>1. Is(after, Len(cb.walk))
    <3> HIDE DEF Is
    <3> QED BY <1>1, <1>4, Zenon
  <2> HIDE DEF after, body
  <2> QED BY <2>1, Zenon
<1> HIDE DEF after
<1>6. Rounds(cb, redirects, after)
  <2>1. after[0] = << >>
    BY <1>1, <1>5
  <2>2. ASSUME NEW n \in Nat, n < Len(cb.walk) PROVE after[n + 1] = step(after[n], cb.walk[n + 1])
    BY <1>1, <1>5, <2>2
  <2> QED BY <1>3, <2>1, <2>2, Zenon DEF Rounds
<1> QED BY <1>2, <1>6, Zenon

\* The path maps of any ingresses have path rules that AGIC names, each with a
\* backend or a redirect, and name what is there; they are for listeners that are
\* asked for, or the default one.
LEMMA PathMapsAreMade ==
    ASSUME NoneIsNoName, NEW cb, NEW redirects, NEW to, HasDefaults(to), GoodWalk(cb, to),
           MadeMaps(cb.istioPathMaps, to), DOMAIN redirects \subseteq to.redirects
    PROVE  MadeMaps(getPathMaps(cb, redirects), to) /\ DOMAIN getPathMaps(cb, redirects) \subseteq AskedIDs(cb)
<1> DEFINE Good(maps) == MadeMaps(maps, to) /\ DOMAIN maps \subseteq AskedIDs(cb)
<1>1. Len(cb.walk) \in Nat /\ DOMAIN cb.walk = 1..Len(cb.walk) /\ IsSeq(cb.walk)
  BY SeqIs, Zenon DEF IsSeq, GoodWalk
<1>2. PICK after :
        /\ Rounds(cb, redirects, after)
        /\ getPathMaps(cb, redirects) =
            (IF DOMAIN after[Len(cb.walk)] # {} THEN after[Len(cb.walk)]
             ELSE Only(defaultFrontendListenerIdentifier, EmptyPathMap)) ++ cb.istioPathMaps
  BY <1>1, PathMapLoop, Zenon
<1> DEFINE all == after[Len(cb.walk)]
<1>3. \A maps, e : Good(maps) /\ e \in Range(cb.walk) => Good(Round(cb, redirects, maps, e))
  <2> SUFFICES ASSUME NEW maps, NEW e \in Range(cb.walk), Good(maps)
               PROVE  Good(Round(cb, redirects, maps, e))
    BY Zenon
  <2>1. /\ e.no # 0 => IsSeq(e.ing.rules[e.no].paths) /\ Serves(cb, e.ing, e.no, to)
        /\ e.no = 0 /\ <<e.ing.name, 0, 0>> \in cb.resolved => generateAddressPoolName(e.ing.backend) \in to.pools
    BY Zenon DEF GoodWalk
  <2>2. MadeMaps(Round(cb, redirects, maps, e), to)
    BY <2>1, NoRulesMapsAreMade, AddedMapsAreMade, ConfigsAreFinite, Zenon DEF Round
  <2>3. DOMAIN noRulesIngress(cb, e.ing, maps) \subseteq AskedIDs(cb)
    BY Zenon DEF noRulesIngress, Only, ++, AskedIDs
  <2>4. isHTTP(e) => DOMAIN addRule(cb, e.ing, e.no, maps,
                                processIngressRule(cb, e.ing, e.ing.rules[e.no]), redirects) \subseteq AskedIDs(cb)
    <3>1. isHTTP(e) => DOMAIN processIngressRule(cb, e.ing, e.ing.rules[e.no]) \subseteq AskedIDs(cb)
      BY Zenon DEF AskedIDs, HTTPRules
    <3> QED BY <3>1, Zenon DEF addRule, ++
  <2> QED BY <2>2, <2>3, <2>4, Zenon DEF Round
<1> DEFINE good == {n \in Nat : n <= Len(cb.walk) => Good(after[n])}
<1>6. 0 \in good
  <2>1. after[0] = << >> /\ DOMAIN << >> = {}
    BY <1>2 DEF Rounds
  <2>2. Good(after[0])
    BY <2>1, FS_EmptySet, Zenon DEF MadeMaps
  <2> QED BY <2>2, Zenon
<1>7. ASSUME NEW n \in Nat, n \in good PROVE n + 1 \in good
  <2> SUFFICES ASSUME n + 1 <= Len(cb.walk) PROVE Good(after[n + 1])
    OBVIOUS
  <2>1. n < Len(cb.walk) /\ n + 1 \in DOMAIN cb.walk
    BY <1>1
  <2>2. after[n + 1] = Round(cb, redirects, after[n], cb.walk[n + 1]) /\ cb.walk[n + 1] \in Range(cb.walk)
    BY <1>2, <2>1, Zenon DEF Rounds, Range
  <2>3. Good(after[n])
    BY <1>1, <1>7
  <2> QED BY <1>3, <2>2, <2>3, Zenon
<1> HIDE DEF good
<1>8. Good(all)
  <2>1. Len(cb.walk) \in good
    BY <1>1, <1>6, <1>7, NatInd, Zenon
  <2> QED BY <1>1, <2>1 DEF good
<1> HIDE DEF all
<1>9. Good(Only(defaultFrontendListenerIdentifier, EmptyPathMap))
  BY EmptyPathMapIsMade, FS_Singleton, Zenon DEF MadeMaps, Only, AskedIDs
<1>10. \A f, g : Good(f) /\ Good(g) => Good(f ++ g)
  BY FS_Union, Zenon DEF MadeMaps, ++
<1>11. Good(cb.istioPathMaps)
  BY Zenon DEF AskedIDs
<1> HIDE DEF Good
<1>12. Good(getPathMaps(cb, redirects))
  BY <1>2, <1>8, <1>9, <1>10, <1>11, Zenon DEF all
<1> QED BY <1>12, Zenon DEF Good

\* Without settings there is no destination, and no path rule.
LEMMA IstioPathMapsAreMade ==
    ASSUME NoneIsNoName, NEW services, NEW order, NEW first, IsSeq(order), NEW to, HasDefaults(to),
           first = None => getIstioDestinations(services, order) = {},
           first \in to.settings \cup {None},
           getIstioPools(services, order) \subseteq to.pools
    PROVE  MadeMaps(getIstioPathMaps(services, order, first), to)
<1> DEFINE found(v, r) == /\ r.services[1] = v.name
                          /\ <<v.name, v.name>> \in getIstioDestinations(services, order)
           making(k) == LET routes == order[k].routes
                        IN  {j \in DOMAIN routes : found(order[k], routes[j]) /\ routes[j].matches # << >>}
           id(k) == IstioListenerID(80, order[k].hosts[1])
           makers == {k \in DOMAIN order : making(k) # {}}
           rule(k, matches) ==
                [name |-> generatePathRuleName(order[k].name, <<k, Len(matches)>>),
                 path |-> matches[Len(matches)], waf |-> None,
                 pool |-> getIstioPool(services, order[k].name), settings |-> first, redirect |-> None]
           map(rules) ==
                [pool |-> DefaultBackendAddressPoolName, settings |-> DefaultBackendHTTPSettingsName,
                 redirect |-> None, rules |-> rules]
           picked(i) == Max({x \in makers : id(x) = i})
           made(i) == map(<<rule(picked(i), order[picked(i)].routes[Max(making(picked(i)))].matches)>>)
<1>1. getIstioPathMaps(services, order, first) =
        IF makers = {} THEN Only(defaultFrontendListenerIdentifier, map(<< >>))
        ELSE [i \in {id(k) : k \in makers} |-> made(i)]
  BY Zenon DEF getIstioPathMaps
<1>2. MadeMap(map(<< >>), to)
  BY DEF MadeMap, MapParts, MadeRules, Finds, HasDefaults, IsSeq, Range
<1>3. CASE makers = {}
  <2> HIDE DEF makers, map
  <2>1. MadeMaps(Only(defaultFrontendListenerIdentifier, map(<< >>)), to)
    BY <1>2, FS_Singleton, Zenon DEF MadeMaps, Only
  <2> QED BY <1>1, <1>3, <2>1, Zenon
<1>4. CASE makers # {}
  <2>1. first # None
    BY <1>4, Zenon
  <2>2. ASSUME NEW k \in makers, NEW matches PROVE MadeMap(map(<<rule(k, matches)>>), to)
    <3>1. MadeRule(rule(k, matches))
      BY <2>1, Zenon DEF MadeRule, OneTarget, getIstioPool, NoneIsNoName, generatePathRuleName
    <3>2. getIstioPool(services, order[k].name) \in to.pools
      <4>1. <<order[k].name, order[k].name>> \in getIstioDestinations(services, order)
        BY Zenon
      <4>2. getIstioPool(services, order[k].name) \in getIstioPools(services, order)
        BY <4>1 DEF getIstioPools
      <4> QED BY <4>2, Zenon
    <3>3. Finds(rule(k, matches), to)
      BY <3>2, Zenon DEF Finds
    <3> HIDE DEF rule
    <3> DEFINE rules == <<rule(k, matches)>>
    <3>4. rules \in Seq({rule(k, matches)})
      OBVIOUS
    <3>5. MadeRules(rules, to)
      <4> HIDE DEF rules
      <4>1. IsSeq(rules) /\ Range(rules) \subseteq {rule(k, matches)}
        BY <3>4, SeqIs, Zenon
      <4> QED BY <3>1, <3>3, <4>1, Zenon DEF MadeRules
    <3> QED BY <3>5, Zenon DEF MadeMap, MapParts, Finds, HasDefaults
  <2>3. IsFiniteSet({id(k) : k \in makers})
    <3>1. IsFiniteSet(DOMAIN order) /\ makers \subseteq DOMAIN order
      BY SeqIs, FS_Interval DEF IsSeq
    <3>2. IsFiniteSet(makers)
      BY <3>1, FS_Subset, Zenon
    <3> HIDE DEF makers, id
    <3> DEFINE f == [k \in makers |-> id(k)]
    <3>3. f \in Surjection(makers, {id(k) : k \in makers})
      BY Zenon DEF Surjection
    <3> QED BY <3>2, <3>3, FS_Surjection, Zenon
  <2>4. \A i \in {id(k) : k \in makers} : picked(i) \in makers
    <3> SUFFICES ASSUME NEW i \in {id(k) : k \in makers} PROVE picked(i) \in makers
      BY Zenon
    <3> DEFINE some == {x \in makers : id(x) = i}
    <3>1. DOMAIN order = 1..Len(order) /\ Len(order) \in Nat
      BY SeqIs, Zenon DEF IsSeq
    <3>2. some \in SUBSET (1..Len(order)) /\ some # {} /\ some \subseteq makers
      BY <3>1, Zenon
    <3> HIDE DEF some, makers
    <3>3. Max(some) \in some
      BY <3>1, <3>2, MaxIs, Zenon
    <3> QED BY <3>2, <3>3, Zenon DEF some
  <2> HIDE DEF makers, id, map, rule, making, picked
  <2> QED BY <1>1, <1>4, <2>2, <2>3, <2>4 DEF MadeMaps
<1> QED BY <1>3, <1>4, Zenon

-----------------------------------------------------------------------------
(* What goes to the gateway *)

\* The path maps that go with the rules that AGIC makes.
LEMMA ManagedMapsAreGood ==
    ASSUME NoneIsNoName, NEW maps, NEW to, MadeMaps(maps, to), NEW byID
    PROVE  LET managed == PathMapsOfRules(maps, byID)
           IN  /\ GoodMaps(managed)
               /\ \A n \in DOMAIN managed : MadeMap(managed[n], to)
               /\ \A ord : Ranked(maps, ord) => Ranked(managed, ord)
<1> DEFINE ids == {x \in DOMAIN maps \cap DOMAIN byID : maps[x].rules # << >>}
           names == {generateURLPathMapName(id) : id \in ids}
           managed == PathMapsOfRules(maps, byID)
<1>1. managed = [n \in names |-> maps[n[2]]]
  BY Zenon DEF PathMapsOfRules
<1>2. IsFiniteSet(names)
  <2>1. IsFiniteSet(ids)
    BY FS_Subset, Zenon DEF MadeMaps
  <2> DEFINE f == [id \in ids |-> generateURLPathMapName(id)]
  <2> HIDE DEF ids
  <2>2. f \in Surjection(ids, names)
    BY Zenon DEF Surjection
  <2> QED BY <2>1, <2>2, FS_Surjection, Zenon
<1>3. \A n \in names : n # None /\ n[2] \in ids
  BY DEF generateURLPathMapName, NoneIsNoName
<1>4. \A id \in ids : id \in DOMAIN maps /\ maps[id].rules # << >>
  BY Zenon
<1> HIDE DEF names, ids, managed
<1>5. \A n \in DOMAIN managed : n[2] \in DOMAIN maps /\ managed[n] = maps[n[2]] /\ managed[n].rules # << >>
  BY <1>1, <1>3, <1>4, Zenon
<1>6. \A n \in DOMAIN managed : MadeMap(managed[n], to) /\ managed[n].rules # << >>
  BY <1>5, Zenon DEF MadeMaps
<1>7. \A n \in DOMAIN managed : WellFormedMap(n, managed[n])
  BY <1>6, Zenon DEF MadeMap, MadeRules, MadeRule, WellFormedMap
<1>8. GoodMaps(managed)
  BY <1>1, <1>2, <1>3, <1>6, <1>7, Zenon DEF GoodMaps
<1>9. \A ord : Ranked(maps, ord) => Ranked(managed, ord)
  BY <1>5, Zenon DEF Ranked
<1> QED BY <1>6, <1>8, <1>9, Zenon DEF managed, MadeMap, MadeRules

\* The rules that AGIC makes have generated names.
LEMMA ManagedRulesAreOwn ==
    ASSUME NEW maps, NEW byID
    PROVE  /\ \A r \in DOMAIN getRules(maps, byID) : r[1] = "rr"
           /\ OwnRulesUseOwnMaps(getRules(maps, byID))
<1> DEFINE names == {generateRequestRoutingRuleName(id) : id \in DOMAIN maps \cap DOMAIN byID}
           kind(m, n) == IF m.rules # << >>
                THEN [pathMap |-> generateURLPathMapName(n[2]),
                      pool |-> None, settings |-> None, redirect |-> None]
                ELSE IF m.redirect # None THEN [pathMap |-> None] ++ ToRedirect(m.redirect)
                ELSE [pathMap |-> None, pool |-> m.pool, settings |-> m.settings, redirect |-> None]
           rule(n) == [listener |-> byID[n[2]]] ++ kind(maps[n[2]], n)
<1>1. getRules(maps, byID) = [n \in names |-> rule(n)]
  BY Zenon DEF getRules
<1>2. \A n \in names : n[1] = "rr"
  BY DEF generateRequestRoutingRuleName
<1>3. \A m, n : /\ "pathMap" \in DOMAIN kind(m, n)
                /\ kind(m, n).pathMap = None \/ kind(m, n).pathMap[1] = "url"
  BY Zenon DEF ++, generateURLPathMapName
<1> HIDE DEF kind, names
<1>4. \A n : rule(n).pathMap = None \/ rule(n).pathMap[1] = "url"
  <2> TAKE n
  <2>1. rule(n).pathMap = kind(maps[n[2]], n).pathMap
    BY <1>3, Zenon DEF ++
  <2> QED BY <1>3, <2>1, Zenon
<1> HIDE DEF rule
<1> QED BY <1>1, <1>2, <1>4 DEF OwnRulesUseOwnMaps

-----------------------------------------------------------------------------
(* What is named *)

\* The pools that noRulesIngress names.
NamedPools(cb) ==
    {generateAddressPoolName(i.backend) :
        i \in {x \in Range(cb.ingresses) : x.rules = << >> /\ x.backend # None}}

\* What is there for the path maps, and for those that Istio asks for.
There(cb, redirects) ==
    [pools |-> getPools(cb) \cup NamedPools(cb),
     settings |-> DOMAIN BackendHTTPSettings(cb), redirects |-> DOMAIN redirects]
ThereForIstio(cb) ==
    [pools |-> {DefaultBackendAddressPoolName} \cup cb.istioPools,
     settings |-> {DefaultBackendHTTPSettingsName} \cup DOMAIN cb.istioSettings, redirects |-> {}]

\* A listener has a certificate that is there, and a redirect that leads to it.
GoodListener(cb, id, config) ==
    /\ config.https => secretFullName(config.secret) \in getSslCertificates(cb)
    /\ config.redirect # None => config.redirect = generateSSLRedirectConfigurationName(id)

\* The ingresses that the builder is given have different names.
GoodIngresses(cb) ==
    /\ IsSeq(cb.ingresses) /\ \A i \in Range(cb.ingresses) : WellFormedIngress(i)
    /\ \A i, j \in Range(cb.ingresses) : i.name = j.name => i = j
    /\ cb.walk = Walk(cb.ingresses)

\* What a context is like.
GoodContext(cb) ==
    /\ GoodIngresses(cb)
    /\ cb.resolved \subseteq cb.backends
    /\ \A b \in cb.backends : b[2] = 0 => \E i \in Range(cb.ingresses) : b = <<i.name, 0, 0>> /\ i.backend # None
    /\ \A b \in cb.late : b[2] = 0
    /\ \A id \in DOMAIN cb.configs : GoodListener(cb, id, cb.configs[id])
    /\ \A id \in DOMAIN cb.istioListeners : ~ cb.istioListeners[id].https
    /\ \A n \in DOMAIN cb.istioSettings : cb.istioSettings[n] = None
    /\ MadeMaps(cb.istioPathMaps, ThereForIstio(cb))

-----------------------------------------------------------------------------
(* Pools and settings *)

\* The walk visits rules of the ingresses.
LEMMA VisitsAre ==
    ASSUME NEW cb, GoodIngresses(cb)
    PROVE  IsSeq(cb.walk) /\ \A e \in Range(cb.walk) :
            /\ e.ing \in Range(cb.ingresses)
            /\ e.no = 0 => e.ing.rules = << >>
            /\ e.no # 0 => e.no \in DOMAIN e.ing.rules /\ IsSeq(e.ing.rules[e.no].paths)
<1>1. /\ IsSeq(cb.ingresses)
      /\ \A i \in Range(cb.ingresses) : IsSeq(i.rules) /\ \A r \in Range(i.rules) : IsSeq(r.paths)
  BY Zenon DEF GoodIngresses, WellFormedIngress
<1>2. cb.walk \in Seq(Visited(cb.ingresses))
  BY <1>1, WalkIs, Zenon DEF GoodIngresses
<1>3. \A e \in Visited(cb.ingresses) :
        /\ e.ing \in Range(cb.ingresses)
        /\ e.no = 0 => e.ing.rules = << >>
        /\ e.no # 0 => e.no \in DOMAIN e.ing.rules /\ IsSeq(e.ing.rules[e.no].paths)
  BY <1>1, Zenon DEF Visited, Range
<1> QED BY <1>2, <1>3, SeqIs, Zenon

\* The names of the settings.
LEMMA SettingsAre ==
    ASSUME NEW cb
    PROVE  DOMAIN BackendHTTPSettings(cb) =
            {generateHTTPSettingsName(ServiceOfBackend(cb, b), b[1]) : b \in cb.resolved}
                \cup DOMAIN cb.istioSettings \cup {DefaultBackendHTTPSettingsName}
<1> DEFINE name(b) == generateHTTPSettingsName(ServiceOfBackend(cb, b), b[1])
           stays(b) == \A c \in {x \in cb.resolved \ {b} : name(x) = name(b)} :
                            IF b[2] = 0 THEN b \in cb.late ELSE c \notin cb.late
           made == [n \in {name(b) : b \in cb.resolved} |->
                        ProbeOf(cb, CHOOSE b \in cb.resolved : name(b) = n /\ stays(b))]
<1>1. BackendHTTPSettings(cb) =
        made ++ cb.istioSettings ++ Only(DefaultBackendHTTPSettingsName, defaultProbeName("http"))
  BY Zenon DEF BackendHTTPSettings
<1>2. DOMAIN made = {name(b) : b \in cb.resolved}
  BY Zenon
<1> HIDE DEF made
<1> QED BY <1>1, <1>2, Zenon DEF ++, Only

\* The service of a backend is found by the name of the ingress.
LEMMA ServicesAreFound ==
    ASSUME NEW cb, GoodIngresses(cb), NEW i \in Range(cb.ingresses), NEW r, NEW p
    PROVE  ServiceOfBackend(cb, <<i.name, r, p>>) = ServiceOf(i, r, p)
<1>1. (CHOOSE x \in Range(cb.ingresses) : x.name = i.name) = i
  BY Zenon DEF GoodIngresses
<1> QED BY <1>1, Zenon DEF ServiceOfBackend

\* Whatever Istio's path maps name is there.
LEMMA IstioMapsAreThere ==
    ASSUME NEW cb, NEW redirects, GoodContext(cb)
    PROVE  MadeMaps(cb.istioPathMaps, There(cb, redirects))
<1> DEFINE some == ThereForIstio(cb)
           all == There(cb, redirects)
<1>1. some.pools \subseteq all.pools /\ some.settings \subseteq all.settings /\ some.redirects \subseteq all.redirects
  BY SettingsAre, Zenon DEF ThereForIstio, There, getPools
<1>2. MadeMaps(cb.istioPathMaps, some)
  BY Zenon DEF GoodContext
<1> HIDE DEF some, all
<1>3. \A x : Finds(x, some) => Finds(x, all)
  BY <1>1, Zenon DEF Finds
<1> QED BY <1>2, <1>3, Zenon DEF MadeMaps, MadeMap, MadeRules, all

\* The backends that the path maps ask for are there.
LEMMA BackendsAreThere ==
    ASSUME NEW cb, NEW redirects, GoodContext(cb)
    PROVE  HasDefaults(There(cb, redirects)) /\ GoodWalk(cb, There(cb, redirects))
<1> DEFINE to == There(cb, redirects)
<1>1. /\ to.pools = getPools(cb) \cup NamedPools(cb)
      /\ to.settings = DOMAIN BackendHTTPSettings(cb)
  BY Zenon DEF There
<1>2. HasDefaults(to)
  BY <1>1, SettingsAre, Zenon DEF HasDefaults, getPools
<1>3. GoodIngresses(cb)
  BY Zenon DEF GoodContext
<1> HIDE DEF to
<1>4. ASSUME NEW i \in Range(cb.ingresses), NEW r, NEW p, <<i.name, r, p>> \in cb.resolved
      PROVE  Finds(Backend(cb, i, r, p), to)
  <2> DEFINE b == <<i.name, r, p>>
  <2>1. ServiceOfBackend(cb, b) = ServiceOf(i, r, p) /\ b[1] = i.name
    BY <1>3, ServicesAreFound, Zenon
  <2>2. b \in cb.resolved
    BY <1>4, Zenon
  <2> HIDE DEF b
  <2>3. PoolOf(cb, ServiceOfBackend(cb, b)) \in to.pools
    BY <1>1, <2>2, Zenon DEF getPools
  <2>4. generateHTTPSettingsName(ServiceOfBackend(cb, b), b[1]) \in to.settings
    <3> DEFINE names == {generateHTTPSettingsName(ServiceOfBackend(cb, x), x[1]) : x \in cb.resolved}
    <3>1. generateHTTPSettingsName(ServiceOfBackend(cb, b), b[1]) \in names
      BY <2>2, Zenon
    <3>2. names \subseteq to.settings
      BY <1>1, SettingsAre, Zenon
    <3> HIDE DEF names
    <3> QED BY <3>1, <3>2, Zenon
  <2> QED BY <2>1, <2>3, <2>4, Zenon DEF Finds, Backend
<1>5. ASSUME NEW e \in Range(cb.walk), e.no = 0, <<e.ing.name, 0, 0>> \in cb.resolved
      PROVE  generateAddressPoolName(e.ing.backend) \in to.pools
  <2>1. e.ing \in Range(cb.ingresses) /\ e.ing.rules = << >>
    BY <1>3, <1>5, VisitsAre, Zenon
  <2>2. PICK i \in Range(cb.ingresses) : <<e.ing.name, 0, 0>> = <<i.name, 0, 0>> /\ i.backend # None
    BY <1>5, Zenon DEF GoodContext
  <2>3. i = e.ing
    BY <1>3, <2>1, <2>2, Zenon DEF GoodIngresses
  <2> QED BY <1>1, <2>1, <2>2, <2>3, Zenon DEF NamedPools
<1>6. \A e \in Range(cb.walk) : e.no # 0 => IsSeq(e.ing.rules[e.no].paths) /\ Serves(cb, e.ing, e.no, to)
  BY <1>3, <1>4, VisitsAre, Zenon DEF Serves
<1>7. GoodWalk(cb, to)
  BY <1>3, <1>5, <1>6, VisitsAre, Zenon DEF GoodWalk
<1> QED BY <1>2, <1>7, Zenon DEF to

-----------------------------------------------------------------------------
(* Certificates, and the listeners that redirects lead to *)

\* A secret that is found for a host is one of the ingress.
LEMMA SecretsAreFound ==
    ASSUME NEW cb, NEW i, IsSeq(i.tls), NEW host
    PROVE  SecretForHost(cb, i, host) \in SecretsOf(cb, i) \cup {None}
<1> DEFINE matching == {k \in DOMAIN i.tls :
                            /\ i.tls[k].secret \in cb.secrets
                            /\ host \in (IF i.tls[k].hosts = {} THEN {""} ELSE i.tls[k].hosts)}
<1>1. SecretForHost(cb, i, host) = IF matching = {} THEN None ELSE i.tls[Max(matching)].secret
  BY Zenon DEF SecretForHost
<1>2. DOMAIN i.tls = 1..Len(i.tls) /\ Len(i.tls) \in Nat
  BY SeqIs, Zenon DEF IsSeq
<1>3. matching \in SUBSET (1..Len(i.tls)) /\ \A k \in matching : k \in DOMAIN i.tls /\ i.tls[k].secret \in cb.secrets
  BY <1>2, Zenon
<1> HIDE DEF matching
<1>4. matching # {} => Max(matching) \in matching
  BY <1>2, <1>3, MaxIs, Zenon
<1> QED BY <1>1, <1>3, <1>4, Zenon DEF SecretsOf, Range

\* The listeners that a rule asks for.
LEMMA AskedListenersAreGood ==
    ASSUME NEW cb, NEW i \in Range(cb.ingresses), WellFormedIngress(i), NEW rule
    PROVE  LET asked == processIngressRule(cb, i, rule)
           IN  \A id \in DOMAIN asked : GoodListener(cb, id, asked[id])
<1> DEFINE https == generateListenerID(i, rule, 443)
           http == generateListenerID(i, rule, 80)
           secret == getCertificate(cb, i, rule.host)
           asked == ListenersFor(cb, i, https, http, secret)
<1>1. https.port = 443 /\ http.port = 80
  BY Zenon DEF generateListenerID, ListenerID
<1>2. https # http
  <2> HIDE DEF https, http
  <2> QED BY <1>1
<1>3. secret \in SecretsOf(cb, i) \cup {None}
  BY SecretsAreFound, Zenon DEF getCertificate, WellFormedIngress
<1> HIDE DEF https, http, secret
<1>4. secret # None => secretFullName(secret) \in getSslCertificates(cb)
  BY <1>3, Zenon DEF getSslCertificates
<1>5. ASSUME NEW id \in DOMAIN asked PROVE GoodListener(cb, id, asked[id])
  <2>1. /\ asked[id].https = (id = https)
        /\ asked[id].secret = IF id = https THEN secret ELSE None
        /\ asked[id].redirect = IF id = https /\ i.redirect
                                THEN generateSSLRedirectConfigurationName(https) ELSE None
        /\ id = https => secret # None
    BY <1>2, Zenon DEF ListenersFor
  <2> HIDE DEF asked
  <2> QED BY <1>4, <2>1, Zenon DEF GoodListener
<1> QED BY <1>5, Zenon DEF processIngressRule, https, http, secret

\* The listeners for the rules of all ingresses.
LEMMA ConfigsAreGood ==
    ASSUME NEW cb, GoodIngresses(cb)
    PROVE  \A id \in DOMAIN getListenerConfigs(cb) : GoodListener(cb, id, getListenerConfigs(cb)[id])
<1> DEFINE asked(n) == IF isHTTP(cb.walk[n])
                       THEN processIngressRule(cb, cb.walk[n].ing, cb.walk[n].ing.rules[cb.walk[n].no]) ELSE << >>
           asking(id) == {n \in DOMAIN cb.walk : id \in DOMAIN asked(n)}
           ids == UNION {DOMAIN asked(n) : n \in DOMAIN cb.walk}
           default == [https |-> FALSE, secret |-> None, redirect |-> None, waf |-> DefaultPolicy(cb)]
<1>1. getListenerConfigs(cb) = IF ids # {} THEN [id \in ids |-> asked(Max(asking(id)))[id]]
                               ELSE Only(defaultFrontendListenerIdentifier, default)
  BY Zenon DEF getListenerConfigs
<1>2. IsSeq(cb.walk) /\ \A e \in Range(cb.walk) : e.ing \in Range(cb.ingresses)
  BY VisitsAre, Zenon
<1>3. DOMAIN cb.walk = 1..Len(cb.walk) /\ Len(cb.walk) \in Nat
  BY <1>2, SeqIs, Zenon DEF IsSeq
<1>4. ASSUME NEW n \in DOMAIN cb.walk, NEW id \in DOMAIN asked(n) PROVE GoodListener(cb, id, asked(n)[id])
  <2> DEFINE i == cb.walk[n].ing
  <2>1. i \in Range(cb.ingresses) /\ WellFormedIngress(i)
    BY <1>2, Zenon DEF Range, GoodIngresses
  <2>2. CASE isHTTP(cb.walk[n])
    <3> HIDE DEF i
    <3> QED BY <2>1, <2>2, AskedListenersAreGood, Zenon DEF i
  <2>3. CASE ~ isHTTP(cb.walk[n])
    BY <2>3
  <2> QED BY <2>2, <2>3, Zenon
<1>5. \A id \in ids : asking(id) \in SUBSET (1..Len(cb.walk)) /\ asking(id) # {}
  BY <1>3, Zenon
<1>6. \A id : \A n \in asking(id) : n \in DOMAIN cb.walk /\ id \in DOMAIN asked(n)
  BY Zenon
<1>7. GoodListener(cb, defaultFrontendListenerIdentifier, default)
  BY Zenon DEF GoodListener
<1> HIDE DEF asked, asking, ids, default
<1>8. \A id \in ids : Max(asking(id)) \in asking(id)
  BY <1>3, <1>5, MaxIs, Zenon
<1>9. \A id \in ids : GoodListener(cb, id, asked(Max(asking(id)))[id])
  BY <1>4, <1>6, <1>8, Zenon
<1> QED BY <1>1, <1>7, <1>9, Zenon DEF Only

-----------------------------------------------------------------------------
(* Probes *)

\* Of the backends that share settings one is met last, and it has a probe.
LEMMA ProbesAreThere ==
    ASSUME NEW cb, GoodContext(cb)
    PROVE  \A n \in DOMAIN BackendHTTPSettings(cb) : BackendHTTPSettings(cb)[n] \in newProbesMap(cb) \cup {None}
<1> DEFINE name(b) == generateHTTPSettingsName(ServiceOfBackend(cb, b), b[1])
           stays(b) == \A c \in {x \in cb.resolved \ {b} : name(x) = name(b)} :
                            IF b[2] = 0 THEN b \in cb.late ELSE c \notin cb.late
           chosen(n) == CHOOSE b \in cb.resolved : name(b) = n /\ stays(b)
           names == {name(b) : b \in cb.resolved}
           made == [n \in names |-> ProbeOf(cb, chosen(n))]
           default == Only(DefaultBackendHTTPSettingsName, defaultProbeName("http"))
<1>1. BackendHTTPSettings(cb) = made ++ cb.istioSettings ++ default
  BY Zenon DEF BackendHTTPSettings
<1>2. \A b, c : name(b) = name(c) => b[1] = c[1]
  BY Zenon DEF generateHTTPSettingsName
<1> HIDE DEF name
<1>3. \A b, c \in cb.resolved : b[2] = 0 /\ c[2] = 0 /\ name(b) = name(c) => b = c
  BY <1>2 DEF GoodContext
<1>4. \A b \in cb.late : b[2] = 0
  BY Zenon DEF GoodContext
<1>5. ASSUME NEW b \in cb.resolved PROVE \E x \in cb.resolved : name(x) = name(b) /\ stays(x)
  <2>1. CASE \E c \in cb.resolved : name(c) = name(b) /\ c \in cb.late
    BY <1>4, <2>1
  <2>2. CASE ~ (\E c \in cb.resolved : name(c) = name(b) /\ c \in cb.late)
    <3>1. CASE \E c \in cb.resolved : name(c) = name(b) /\ c[2] # 0
      BY <2>2, <3>1, Zenon
    <3>2. CASE \A c \in cb.resolved : name(c) = name(b) => c[2] = 0
      BY <1>3, <3>2, Zenon
    <3> QED BY <3>1, <3>2, Zenon
  <2> QED BY <2>1, <2>2, Zenon
<1> HIDE DEF stays
<1>6. \A n \in names : chosen(n) \in cb.resolved
  BY <1>5, Zenon
<1>7. \A b \in cb.resolved : ProbeOf(cb, b) \in newProbesMap(cb)
  BY Zenon DEF newProbesMap, GoodContext
<1> HIDE DEF chosen
<1>8. DOMAIN made = names /\ \A n \in names : made[n] \in newProbesMap(cb)
  BY <1>6, <1>7, Zenon
<1>9. \A n \in DOMAIN cb.istioSettings : cb.istioSettings[n] = None
  BY Zenon DEF GoodContext
<1>10. \A n \in DOMAIN default : default[n] \in newProbesMap(cb)
  BY Zenon DEF Only, newProbesMap
<1> HIDE DEF made, default
<1> QED BY <1>1, <1>8, <1>9, <1>10, Zenon DEF ++

-----------------------------------------------------------------------------
(* Listeners, ports and rules *)

\* Some of the listeners that AGIC makes.
SomeOf(listeners, made) ==
    \A n \in DOMAIN listeners : n \in DOMAIN made /\ listeners[n] = made[n]

\* Listeners have ports and certificates that are there.
LEMMA ListenersFind ==
    ASSUME NEW cb, GoodContext(cb), NEW skipped, NEW listeners, SomeOf(listeners, getListeners(cb, skipped)),
           NEW l \in Range(listeners)
    PROVE  /\ l.port \in DOMAIN FrontendPorts(cb, listeners)
           /\ l.cert \in getSslCertificates(cb) \cup {None}
<1> DEFINE own == [id \in DOMAIN cb.configs \ skipped |-> cb.configs[id]]
           all == own ++ cb.istioListeners
           ids == DOMAIN cb.configs \cup DOMAIN cb.istioListeners
           known == cb.ports ++ [p \in {generateFrontendPortName(id.port) : id \in ids} |-> p[2]]
<1>1. getListeners(cb, skipped) =
        [n \in {generateListenerName(id) : id \in DOMAIN all} |-> newListener(cb, n[2], all[n[2]])]
  BY Zenon DEF getListeners
<1>2. \A id \in DOMAIN all : /\ id \in ids
                             /\ all[id].https => secretFullName(all[id].secret) \in getSslCertificates(cb)
  <2>1. DOMAIN own \subseteq DOMAIN cb.configs /\ \A id \in DOMAIN own : own[id] = cb.configs[id]
    BY Zenon
  <2> HIDE DEF own
  <2> QED BY <2>1, Zenon DEF ++, GoodContext, GoodListener
<1> HIDE DEF all
<1>3. PICK id \in DOMAIN all : l = newListener(cb, id, all[id])
  BY <1>1 DEF SomeOf, Range, generateListenerName
<1>4. /\ l.port = PortName(cb, id.port)
      /\ l.cert = IF all[id].https THEN secretFullName(all[id].secret) ELSE None
  BY <1>3, Zenon DEF newListener
<1>5. l.port \in DOMAIN known
  <2>1. \/ \E p \in DOMAIN cb.ports : l.port = p
        \/ l.port = generateFrontendPortName(id.port)
    BY <1>4, Zenon DEF PortName
  <2> QED BY <1>2, <2>1, Zenon DEF ++
<1>6. FrontendPorts(cb, listeners) = Restrict(known, {x.port : x \in Range(listeners)} \cap DOMAIN known)
  BY Zenon DEF FrontendPorts
<1> HIDE DEF known
<1>7. l.port \in DOMAIN FrontendPorts(cb, listeners)
  BY <1>5, <1>6, Zenon DEF Restrict
<1> QED BY <1>2, <1>4, <1>7, Zenon

\* Looking a listener up finds one of them.
LEMMA LookedUpListenersAre ==
    ASSUME NEW listeners, NEW ports
    PROVE  \A id \in DOMAIN listenersByID(listeners, ports) : listenersByID(listeners, ports)[id] \in DOMAIN listeners
  BY Zenon DEF listenersByID, Range

\* Redirects lead to listeners.
LEMMA RedirectsLead ==
    ASSUME NEW cb, GoodContext(cb), NEW byID
    PROVE  LET redirects == getRedirectConfigurations(cb, byID)
           IN  \A n \in DOMAIN redirects : \E id \in DOMAIN byID : redirects[n] = byID[id]
<1> DEFINE targets == {id \in DOMAIN cb.configs \cap DOMAIN byID :
                            cb.configs[id].https /\ cb.configs[id].redirect # None}
           names == {cb.configs[id].redirect : id \in targets}
<1>1. getRedirectConfigurations(cb, byID) = [n \in names |-> byID[n[2]]]
  BY Zenon DEF getRedirectConfigurations
<1>2. \A id \in targets : id \in DOMAIN byID /\ cb.configs[id].redirect = <<"sslr", id>>
  BY Zenon DEF GoodContext, GoodListener, generateSSLRedirectConfigurationName
<1> HIDE DEF targets
<1>3. \A n \in names : n[2] \in DOMAIN byID
  BY <1>2
<1> QED BY <1>1, <1>3, Zenon

\* What a rule names: a listener, and a path map or what the path map names.
LEMMA RulesFind ==
    ASSUME NEW maps, NEW to, MadeMaps(maps, to), NEW byID, NEW r \in Range(getRules(maps, byID))
    PROVE  /\ \E id \in DOMAIN byID : r.listener = byID[id]
           /\ r.pathMap \in DOMAIN PathMapsOfRules(maps, byID) \cup {None}
           /\ Finds(r, to)
<1> DEFINE ids == DOMAIN maps \cap DOMAIN byID
           kind(m, n) == IF m.rules # << >>
                THEN [pathMap |-> generateURLPathMapName(n[2]),
                      pool |-> None, settings |-> None, redirect |-> None]
                ELSE IF m.redirect # None THEN [pathMap |-> None] ++ ToRedirect(m.redirect)
                ELSE [pathMap |-> None, pool |-> m.pool, settings |-> m.settings, redirect |-> None]
           rule(n) == [listener |-> byID[n[2]]] ++ kind(maps[n[2]], n)
<1>1. getRules(maps, byID) = [n \in {generateRequestRoutingRuleName(id) : id \in ids} |-> rule(n)]
  BY Zenon DEF getRules
<1> HIDE DEF rule
<1>2. PICK id \in ids : r = rule(<<"rr", id>>)
  BY <1>1, Zenon DEF Range, generateRequestRoutingRuleName
<1> DEFINE n == <<"rr", id>>
           m == maps[id]
<1>3. r = [listener |-> byID[id]] ++ kind(m, n) /\ n[2] = id
  BY <1>2, Zenon DEF rule
<1> HIDE DEF n
<1>4. /\ DOMAIN kind(m, n) = {"pathMap", "pool", "settings", "redirect"}
      /\ m.rules # << >> => kind(m, n).pathMap = generateURLPathMapName(id)
      /\ m.rules = << >> => kind(m, n).pathMap = None
      /\ kind(m, n).pool \in {m.pool, None} /\ kind(m, n).settings \in {m.settings, None}
      /\ kind(m, n).redirect \in {m.redirect, None}
  BY <1>3, Zenon DEF ++, ToRedirect
<1>5. MadeMap(m, to)
  BY Zenon DEF MadeMaps
<1> HIDE DEF kind, m
<1>6. /\ r.listener = byID[id] /\ r.pathMap = kind(m, n).pathMap
      /\ r.pool = kind(m, n).pool /\ r.settings = kind(m, n).settings /\ r.redirect = kind(m, n).redirect
  BY <1>3, <1>4, Zenon DEF ++
<1>7. m.rules # << >> => generateURLPathMapName(id) \in DOMAIN PathMapsOfRules(maps, byID)
  BY Zenon DEF PathMapsOfRules, m
<1>8. Finds(r, to)
  BY <1>4, <1>5, <1>6, Zenon DEF MadeMap, Finds
<1> QED BY <1>4, <1>6, <1>7, <1>8, Zenon

-----------------------------------------------------------------------------
(* A whole configuration *)

\* A function with nothing added.
LEMMA NothingAdded == ASSUME NEW f, f = [x \in DOMAIN f |-> f[x]] PROVE f ++ << >> = f
<1>1. DOMAIN f \cup DOMAIN << >> = DOMAIN f
  OBVIOUS
<1>2. f ++ << >> = [x \in DOMAIN f |-> IF x \in DOMAIN f THEN f[x] ELSE << >>[x]]
  BY <1>1, Zenon DEF ++
<1>3. f ++ << >> = [x \in DOMAIN f |-> f[x]]
  BY <1>2, Zenon
<1> QED BY <1>3, Zenon

\* When nothing is kept, nothing is looked up, and what AGIC makes is the result.
LEMMA NothingMerged ==
    ASSUME NEW rules, NEW maps, NEW ord,
           rules = [r \in DOMAIN rules |-> rules[r]], maps = [m \in DOMAIN maps |-> maps[m]]
    PROVE  /\ MergePathMaps(<< >>, maps, ord) = maps
           /\ ~ LookupFails(<< >>, rules, maps)
           /\ MergeRules(<< >>, rules, maps, ord) = [rules |-> rules, pathMaps |-> maps]
<1>1. MergePathMaps(<< >>, maps, ord) = maps
  <2> DEFINE both(m) == [<< >>[m] EXCEPT !.rules = mergePathRules(@, maps[m].rules, ord)]
  <2>1. MergePathMaps(<< >>, maps, ord) = [m \in DOMAIN << >> \cap DOMAIN maps |-> both(m)] ++ << >> ++ maps
    BY Zenon DEF MergePathMaps
  <2> HIDE DEF both
  <2>2. DOMAIN ([m \in DOMAIN << >> \cap DOMAIN maps |-> both(m)] ++ << >>) = {}
    BY DEF ++
  <2>3. \A f : DOMAIN f = {} => f ++ maps = [m \in DOMAIN maps |-> maps[m]]
    BY Zenon DEF ++
  <2> QED BY <2>1, <2>2, <2>3, Zenon
<1>2. ~ LookupFails(<< >>, rules, maps)
  BY DEF LookupFails
<1>3. MergeRules(<< >>, rules, maps, ord).rules = rules
  <2> DEFINE shared == {s \in (DOMAIN << >>) \X (DOMAIN rules) : << >>[s[1]].listener = rules[s[2]].listener}
             replaced == {s \in shared : ~ (<< >>[s[1]].pathMap # None) /\ rules[s[2]].pathMap # None}
             stay == {m \in DOMAIN rules : \A s \in shared \ replaced : s[2] # m}
             remain == {k \in DOMAIN << >> : \A s \in replaced : s[1] # k}
  <2>1. MergeRules(<< >>, rules, maps, ord).rules = Restrict(rules, stay) ++ Restrict(<< >>, remain)
    BY Zenon DEF MergeRules
  <2>2. stay = DOMAIN rules /\ remain = {}
    <3>1. shared = {}
      OBVIOUS
    <3>2. remain \subseteq DOMAIN << >>
      BY Zenon
    <3> HIDE DEF shared, replaced
    <3>3. stay = DOMAIN rules
      BY <3>1, Zenon
    <3> HIDE DEF remain, stay
    <3> QED BY <3>2, <3>3
  <2> HIDE DEF stay, remain
  <2>3. Restrict(rules, DOMAIN rules) = rules /\ DOMAIN Restrict(<< >>, {}) = {}
    BY Zenon DEF Restrict
  <2>4. \A f : DOMAIN f = {} => rules ++ f = [r \in DOMAIN rules |-> rules[r]]
    BY Zenon DEF ++
  <2> QED BY <2>1, <2>2, <2>3, <2>4, Zenon
<1>4. MergeRules(<< >>, rules, maps, ord).pathMaps = maps
  <2>1. (DOMAIN << >>) \X (DOMAIN rules) = {}
    OBVIOUS
  <2>2. MergeRules(<< >>, rules, maps, ord).pathMaps = [m \in DOMAIN maps |-> maps[m]]
    BY <2>1 DEF MergeRules
  <2> QED BY <2>2, Zenon
<1>5. \E f, g : MergeRules(<< >>, rules, maps, ord) = [rules |-> f, pathMaps |-> g]
  BY Zenon DEF MergeRules
<1> QED BY <1>1, <1>2, <1>3, <1>4, <1>5, Zenon

\* The parts of a configuration to which nothing of the owner is added.
Own(c, cb, listeners) ==
    LET byID == listenersByID(listeners, FrontendPorts(cb, listeners))
        maps == getPathMaps(cb, c.redirects)
    IN  /\ DOMAIN c = DOMAIN EmptyConfig
        /\ c.probes = newProbesMap(cb) /\ c.settings = BackendHTTPSettings(cb)
        /\ c.pools = getPools(cb) /\ c.certs = getSslCertificates(cb)
        /\ c.ports = FrontendPorts(cb, listeners) /\ c.listeners = listeners
        /\ c.redirects = getRedirectConfigurations(cb, byID)
        /\ c.rules = getRules(maps, byID) /\ c.pathMaps = PathMapsOfRules(maps, byID)

\* Whatever the configuration refers to is there.
LEMMA OwnReferencesResolve ==
    ASSUME NoneIsNoName, NEW cb, GoodContext(cb), NEW skipped, NEW listeners,
           SomeOf(listeners, getListeners(cb, skipped)), NEW c, Own(c, cb, listeners)
    PROVE  /\ AllButPathMapsResolve([c EXCEPT !.pools = @ \cup NamedPools(cb)])
           /\ PathMapsNamed(c) \subseteq DOMAIN c.pathMaps
<1> DEFINE to == There(cb, c.redirects)
           byID == listenersByID(listeners, FrontendPorts(cb, listeners))
           maps == getPathMaps(cb, c.redirects)
           d == [c EXCEPT !.pools = @ \cup NamedPools(cb)]
<1>1. /\ to.pools = d.pools /\ to.settings = DOMAIN c.settings /\ to.redirects = DOMAIN c.redirects
      /\ d.settings = c.settings /\ d.probes = c.probes /\ d.redirects = c.redirects
      /\ d.listeners = c.listeners /\ d.ports = c.ports /\ d.certs = c.certs
      /\ d.rules = c.rules /\ d.pathMaps = c.pathMaps
  BY Zenon DEF Own, There, EmptyConfig
<1>2. HasDefaults(to) /\ GoodWalk(cb, to) /\ MadeMaps(cb.istioPathMaps, to)
  BY BackendsAreThere, IstioMapsAreThere, Zenon
<1>3. DOMAIN c.redirects \subseteq to.redirects
  BY Zenon DEF There
<1> HIDE DEF to
<1>4. MadeMaps(maps, to)
  BY <1>2, <1>3, PathMapsAreMade, Zenon
<1>5. c.rules = getRules(maps, byID) /\ c.pathMaps = PathMapsOfRules(maps, byID)
  BY Zenon DEF Own
<1>6. \A id \in DOMAIN byID : byID[id] \in DOMAIN c.listeners
  BY LookedUpListenersAre, Zenon DEF Own
<1>7. \A n \in DOMAIN c.redirects : \E id \in DOMAIN byID : c.redirects[n] = byID[id]
  BY RedirectsLead DEF Own
<1> HIDE DEF byID, maps
<1>8. \A r \in Range(c.rules) : /\ r.listener \in DOMAIN c.listeners
                                /\ r.pathMap \in DOMAIN c.pathMaps \cup {None}
                                /\ Finds(r, to)
  BY <1>4, <1>5, <1>6, RulesFind
<1>9. \A m \in DOMAIN c.pathMaps : MadeMap(c.pathMaps[m], to)
  BY <1>4, <1>5, ManagedMapsAreGood, Zenon
<1>10. \A r \in Routes(c) : Finds(r, to)
  BY <1>8, <1>9, Zenon DEF Routes, MadeMap, MadeRules, Range
<1>11. Routes(d) = Routes(c)
  BY <1>1, Zenon DEF Routes
<1> HIDE DEF d
<1>12. PoolsNamed(d) \subseteq d.pools
  BY <1>1, <1>10, <1>11, Zenon DEF PoolsNamed, Finds
<1>13. SettingsNamed(d) \subseteq DOMAIN d.settings
  BY <1>1, <1>10, <1>11, Zenon DEF SettingsNamed, Finds
<1>14. RedirectsNamed(d) \subseteq DOMAIN d.redirects
  BY <1>1, <1>10, <1>11, Zenon DEF RedirectsNamed, Finds
<1>15. ListenersNamed(d) \subseteq DOMAIN d.listeners
  BY <1>1, <1>6, <1>7, <1>8 DEF ListenersNamed, Range
<1>16. PathMapsNamed(c) \subseteq DOMAIN c.pathMaps
  BY <1>8, Zenon DEF PathMapsNamed
<1>17. ProbesNamed(d) \subseteq d.probes
  BY <1>1, ProbesAreThere DEF ProbesNamed, Own, Range
<1>18. PortsNamed(d) \subseteq DOMAIN d.ports /\ CertsNamed(d) \subseteq d.certs
  <2>1. \A l \in Range(listeners) : /\ l.port \in DOMAIN FrontendPorts(cb, listeners)
                                    /\ l.cert \in getSslCertificates(cb) \cup {None}
    BY ListenersFind, Zenon
  <2> QED BY <1>1, <2>1 DEF PortsNamed, CertsNamed, Own
<1>19. AllButPathMapsResolve(d)
  BY <1>12, <1>13, <1>14, <1>15, <1>17, <1>18, Zenon DEF AllButPathMapsResolve, AllButRoutingResolves
<1> QED BY <1>16, <1>19, Zenon DEF d

-----------------------------------------------------------------------------
(* Host names *)

\* The host names by which a listener is looked up.
NamesOf(l) == IF l.hosts # None THEN l.hosts ELSE IF l.host # None THEN <<l.host>> ELSE << >>
Hosts(l) == ListenerID(80, FALSE, NamesOf(l)).hosts

\* They are those of its identifier.
LEMMA IdentifiersHaveHosts ==
    ASSUME NEW l, NEW ports
    PROVE  IdentifierOf(l, ports).hosts = Hosts(l)
  BY Zenon DEF IdentifierOf, Hosts, NamesOf, ListenerID

\* setHostNames keeps the first host name.
LEMMA FirstHostIsKept ==
    ASSUME NEW hosts, IsSeq(hosts), NEW port, NEW private, NEW h,
           ListenerID(port, private, hosts).hosts = <<h>>
    PROVE  h = hosts[1] /\ h \in Range(hosts)
<1> DEFINE n == Min({Len(hosts), MaxAllowedHostnames})
           kept == SubSeq(hosts, 1, n)
<1>1. kept = <<h>>
  BY Zenon DEF ListenerID
<1>2. hosts \in Seq(Range(hosts)) /\ Len(hosts) \in Nat /\ DOMAIN hosts = 1..Len(hosts)
  BY SeqIs, Zenon DEF IsSeq
<1>3. n \in Nat /\ n <= Len(hosts)
  <2>1. PICK x \in {Len(hosts), 5} : \A y \in {Len(hosts), 5} : x <= y
    BY <1>2
  <2>2. n \in {Len(hosts), 5} /\ \A y \in {Len(hosts), 5} : n <= y
    BY <2>1 DEF Min, MaxAllowedHostnames
  <2> HIDE DEF n
  <2> QED BY <1>2, <2>2
<1> HIDE DEF n
<1>4. Len(kept) = n /\ Len(kept) = 1 /\ kept[1] = h
  <2>1. Len(kept) = n
    BY <1>2, <1>3
  <2>2. Len(<<h>>) = 1 /\ <<h>>[1] = h
    OBVIOUS
  <2> HIDE DEF kept
  <2>3. Len(kept) = 1 /\ kept[1] = h
    BY <1>1, <2>2, Zenon
  <2> QED BY <2>1, <2>3, Zenon
<1>5. kept[1] = hosts[1]
  BY <1>2, <1>3, <1>4
<1> HIDE DEF kept
<1> QED BY <1>2, <1>3, <1>4, <1>5 DEF Range

\* A host name before others, and none.
LEMMA HostFirst ==
    ASSUME NEW h, NEW s, IsSeq(s)
    PROVE  << >> \o s = s /\ IsSeq(<<h>> \o s) /\ (<<h>> \o s)[1] = h
<1>1. s \in Seq(Range(s)) /\ Len(s) \in Nat
  BY SeqIs, Zenon DEF IsSeq
<1>2. << >> \o s = s
  <2> DEFINE T == Range(s)
  <2>1. s \in Seq(T)
    BY <1>1, Zenon
  <2> HIDE DEF T
  <2> QED BY <2>1
<1>3. <<h>> \in Seq({h})
  OBVIOUS
<1>4. IsSeq(<<h>>)
  BY <1>3, SeqIs, Zenon
<1>5. IsSeq(<<h>> \o s)
  BY <1>4, ConcatIs, Zenon
<1>6. (<<h>> \o s)[1] = h
  <2> DEFINE T == Range(s) \cup {h}
  <2>1. s \in Seq(T) /\ h \in T
    BY <1>1
  <2> HIDE DEF T
  <2> QED BY <2>1
<1> QED BY <1>2, <1>5, <1>6, Zenon

\* A single host name, and none.
LEMMA FewHosts ==
    ASSUME NEW port, NEW private, NEW h
    PROVE  ListenerID(port, private, <<h>>).hosts = <<h>> /\ ListenerID(port, private, << >>).hosts = << >>
<1>1. Min({1, 5}) = 1 /\ Min({0, 5}) = 0
  BY DEF Min
<1>2. Len(<<h>>) = 1 /\ Len(<< >>) = 0
  OBVIOUS
<1>4. SubSeq(<<h>>, 1, 1) = <<h>>
  <2> DEFINE s == SubSeq(<<h>>, 1, 1)
  <2>1. s \in Seq({h}) /\ Len(s) = 1 /\ s[1] = h
    OBVIOUS
  <2> HIDE DEF s
  <2>2. s = <<h>>
    BY <2>1
  <2> QED BY <2>2, Zenon DEF s
<1>5. SubSeq(<< >>, 1, 0) = << >>
  OBVIOUS
<1>3. \A hosts : ListenerID(port, private, hosts).hosts = SubSeq(hosts, 1, Min({Len(hosts), 5}))
  BY Zenon DEF ListenerID, MaxAllowedHostnames
<1> QED BY <1>1, <1>2, <1>3, <1>4, <1>5, Zenon

\* A listener with one host name.
LEMMA SingleHost == ASSUME NEW l, l.hosts = None, l.host # None PROVE Hosts(l) = <<l.host>>
<1> DEFINE h == l.host
<1>1. NamesOf(l) = <<h>>
  BY Zenon DEF NamesOf
<1>2. Hosts(l) = SubSeq(<<h>>, 1, Min({Len(<<h>>), MaxAllowedHostnames}))
  BY <1>1, Zenon DEF Hosts, ListenerID
<1> HIDE DEF h
<1>3. \A port, private : ListenerID(port, private, <<h>>).hosts = <<h>>
  BY FewHosts, Zenon
<1>4. SubSeq(<<h>>, 1, Min({Len(<<h>>), MaxAllowedHostnames})) = <<h>>
  BY <1>3, Zenon DEF ListenerID
<1> QED BY <1>2, <1>4, Zenon DEF h

\* A rule that AGIC makes is named after the listener it looked up, and so is its
\* path map.
LEMMA ManagedRulesAre ==
    ASSUME NEW maps, NEW byID, NEW x \in DOMAIN getRules(maps, byID)
    PROVE  LET r == getRules(maps, byID)[x]
           IN  \E id \in DOMAIN maps \cap DOMAIN byID :
                /\ x = generateRequestRoutingRuleName(id) /\ r.listener = byID[id]
                /\ \/ r.pathMap = None
                   \/ /\ r.pathMap = generateURLPathMapName(id)
                      /\ r.pathMap \in DOMAIN PathMapsOfRules(maps, byID)
<1> DEFINE ids == DOMAIN maps \cap DOMAIN byID
           kind(m, n) == IF m.rules # << >>
                THEN [pathMap |-> generateURLPathMapName(n[2]),
                      pool |-> None, settings |-> None, redirect |-> None]
                ELSE IF m.redirect # None THEN [pathMap |-> None] ++ ToRedirect(m.redirect)
                ELSE [pathMap |-> None, pool |-> m.pool, settings |-> m.settings, redirect |-> None]
           rule(n) == [listener |-> byID[n[2]]] ++ kind(maps[n[2]], n)
           r == getRules(maps, byID)[x]
<1>1. getRules(maps, byID) = [n \in {generateRequestRoutingRuleName(id) : id \in ids} |-> rule(n)]
  BY Zenon DEF getRules
<1> HIDE DEF rule
<1>2. PICK id \in ids : x = generateRequestRoutingRuleName(id)
  BY <1>1, Zenon
<1>3. r = rule(x) /\ x[2] = id
  BY <1>1, <1>2, Zenon DEF generateRequestRoutingRuleName
<1> DEFINE m == maps[id]
<1> HIDE DEF r
<1>4. r = [listener |-> byID[id]] ++ kind(m, x)
  BY <1>3, Zenon DEF rule
<1>5. /\ DOMAIN kind(m, x) = {"pathMap", "pool", "settings", "redirect"}
      /\ m.rules # << >> => kind(m, x).pathMap = generateURLPathMapName(id)
      /\ m.rules = << >> => kind(m, x).pathMap = None
  BY <1>3, Zenon DEF ++, ToRedirect
<1> HIDE DEF kind, m
<1>6. r.listener = byID[id] /\ r.pathMap = kind(m, x).pathMap
  BY <1>4, <1>5, Zenon DEF ++
<1>7. m.rules # << >> => generateURLPathMapName(id) \in DOMAIN PathMapsOfRules(maps, byID)
  BY Zenon DEF PathMapsOfRules, m
<1> QED BY <1>2, <1>5, <1>6, <1>7, Zenon DEF r

\* The identifier by which a listener is found has its host names.
LEMMA FoundByHosts ==
    ASSUME NEW listeners, NEW ports, NEW id \in DOMAIN listenersByID(listeners, ports)
    PROVE  LET n == listenersByID(listeners, ports)[id]
           IN  n \in DOMAIN listeners /\ Hosts(listeners[n]) = id.hosts
<1> DEFINE byID == listenersByID(listeners, ports)
           is(n) == IdentifierOf(listeners[n], ports) = id
<1>1. PICK l \in Range(listeners) : IdentifierOf(l, ports) = id
  BY Zenon DEF listenersByID
<1>2. PICK k \in DOMAIN listeners : is(k)
  BY <1>1, Zenon DEF Range
<1>3. byID[id] = CHOOSE n \in DOMAIN listeners : is(n)
  BY Zenon DEF listenersByID
<1>4. byID[id] \in DOMAIN listeners /\ is(byID[id])
  <2> HIDE DEF is, byID
  <2> QED BY <1>2, <1>3, Zenon
<1> QED BY <1>4, IdentifiersHaveHosts, Zenon

\* What AGIC makes is not for these host names and this listener.
Elsewhere(managed, pathMaps, l, hosts) ==
    /\ \A x \in DOMAIN managed :
        /\ managed[x].listener # l
        /\ \E id : x = generateRequestRoutingRuleName(id) /\ id.hosts # hosts
        /\ managed[x].pathMap = None \/ managed[x].pathMap \in DOMAIN pathMaps
    /\ \A m \in DOMAIN pathMaps : \E id : m = generateURLPathMapName(id) /\ id.hosts # hosts

\* It is not on a listener whose host names nobody asks for.
LEMMA ManagedIsElsewhere ==
    ASSUME NEW maps, NEW listeners, NEW ports, NEW l,
           \A id \in DOMAIN maps : id.hosts # Hosts(listeners[l])
    PROVE  LET byID == listenersByID(listeners, ports)
           IN  Elsewhere(getRules(maps, byID), PathMapsOfRules(maps, byID), l, Hosts(listeners[l]))
<1> DEFINE byID == listenersByID(listeners, ports)
           managed == getRules(maps, byID)
           hosts == Hosts(listeners[l])
<1>1. ASSUME NEW x \in DOMAIN managed
      PROVE  /\ managed[x].listener # l
             /\ \E id : x = generateRequestRoutingRuleName(id) /\ id.hosts # hosts
             /\ managed[x].pathMap = None \/ managed[x].pathMap \in DOMAIN PathMapsOfRules(maps, byID)
  <2>1. PICK id \in DOMAIN maps \cap DOMAIN byID :
            /\ x = generateRequestRoutingRuleName(id) /\ managed[x].listener = byID[id]
            /\ \/ managed[x].pathMap = None
               \/ /\ managed[x].pathMap = generateURLPathMapName(id)
                  /\ managed[x].pathMap \in DOMAIN PathMapsOfRules(maps, byID)
    <3> HIDE DEF byID
    <3> QED BY ManagedRulesAre
  <2>2. id \in DOMAIN byID /\ id.hosts # hosts
    BY <2>1, Zenon
  <2>3. Hosts(listeners[byID[id]]) = id.hosts
    BY <2>2, FoundByHosts, Zenon
  <2> HIDE DEF managed, byID
  <2> QED BY <2>1, <2>2, <2>3, Zenon
<1>2. ASSUME NEW m \in DOMAIN PathMapsOfRules(maps, byID)
      PROVE  \E id : m = generateURLPathMapName(id) /\ id.hosts # hosts
  <2> HIDE DEF byID
  <2> QED BY <1>2, Zenon DEF PathMapsOfRules
<1> HIDE DEF managed, byID, hosts
<1> QED BY <1>1, <1>2, Zenon DEF Elsewhere, managed, byID, hosts

-----------------------------------------------------------------------------
(* What ingresses get *)

\* The path rules of a rule route its paths.
LEMMA PathRulesServe ==
    ASSUME NEW cb, NEW id, NEW config, NEW e, e.no # 0, NEW redirects, IsSeq(PathsOf(e)),
           NEW p \in DOMAIN PathsOf(e), PathsOf(e)[p].path \notin DefaultPaths, IsResolved(cb, e, p),
           NEW m, m.rules = getPathRules(cb, id, config, e.ing, e.no, redirects)
    PROVE  RoutesPath(cb, m, e, p)
<1> DEFINE rule(q) == RuleFor(cb, id, config, e.ing, e.no, redirects, q)
           listed(q) == IsListed(cb, id, config, e.ing, e.no, redirects, q)
           redirect == RedirectFor(id, e.ing, config, redirects)
           backend == Backend(cb, e.ing, e.no, p)
<1>1. listed(p)
  BY Zenon DEF PathsOf, IsResolved, IsListed
<1>2. rule(p) \in Range(m.rules)
  <2>1. ArePathRules(m.rules, cb, id, config, e.ing, e.no, redirects)
    BY PathRulesAre, Zenon DEF PathsOf
  <2> QED BY <1>1, <2>1, Zenon DEF ArePathRules, PathsOf
<1>3. /\ rule(p).name = generatePathRuleName(e.ing.name, p) /\ rule(p).path = e.ing.rules[e.no].paths[p].path
      /\ LeadsTo(rule(p), redirect, backend)
  BY RuleForIs, Zenon
<1>4. /\ backend.settings = generateHTTPSettingsName(PathsOf(e)[p].service, e.ing.name)
      /\ AskedPools(cb, e, p) # {} => backend.pool \in AskedPools(cb, e, p)
  BY Zenon DEF Backend, ServiceOf, AskedPools, PoolOf, PathsOf
<1> HIDE DEF rule, redirect, backend
<1> QED BY <1>2, <1>3, <1>4, Zenon DEF RoutesPath, LeadsTo, PathsOf

\* A rule with a last path for the default that leads to a pool.
AsksForDefault(cb, e) ==
    /\ DefaultsOf(e) # {}
    /\ AskedPools(cb, e, Max(DefaultsOf(e))) # {} /\ IsResolved(cb, e, Max(DefaultsOf(e)))

\* The pools that the default of a listener may have.
Allowed(cb, id) == ClaimedPools(cb, id) \cup {DefaultBackendAddressPoolName}

\* The pools that a rule asks for as the default are claimed for its listeners.
LEMMA DefaultsAreClaimed ==
    ASSUME NEW cb, NEW e \in HTTPRules(cb), NEW id \in AskedListeners(cb, e)
    PROVE  UNION {AskedPools(cb, e, q) : q \in DefaultsOf(e)} \subseteq ClaimedPools(cb, id)
<1> DEFINE asking == {x \in HTTPRules(cb) : id \in AskedListeners(cb, x)}
           pools(x) == UNION {AskedPools(cb, x, q) : q \in DefaultsOf(x)}
<1>1. UNION {pools(x) : x \in asking} \subseteq ClaimedPools(cb, id)
  BY Zenon DEF ClaimedPools
<1>2. e \in asking
  BY Zenon
<1> HIDE DEF asking, pools
<1>3. pools(e) \subseteq UNION {pools(x) : x \in asking}
  BY <1>2, Zenon
<1> QED BY <1>1, <1>3, Zenon DEF pools

\* So is the default backend of its ingress.
LEMMA BackendsAreClaimed ==
    ASSUME NEW cb, NEW e \in HTTPRules(cb), NEW id \in AskedListeners(cb, e), e.ing.backend # None
    PROVE  generateAddressPoolName(e.ing.backend) \in ClaimedPools(cb, id)
<1> DEFINE asking == {x \in HTTPRules(cb) : id \in AskedListeners(cb, x)}
           some == {x \in asking : x.ing.backend # None}
<1>1. {generateAddressPoolName(x.ing.backend) : x \in some} \subseteq ClaimedPools(cb, id)
  BY Zenon DEF ClaimedPools
<1>2. e \in some
  BY Zenon
<1> HIDE DEF some
<1> QED BY <1>1, <1>2, Zenon

\* The default of a rule is what it asks for.
LEMMA DefaultServes ==
    ASSUME NEW cb, NEW e \in HTTPRules(cb), NEW id \in AskedListeners(cb, e), NEW config, NEW redirects,
           IsSeq(PathsOf(e)), <<e.ing.name, 0, 0>> \in cb.resolved => e.ing.backend # None
    PROVE  LET d == getDefaultFromRule(cb, id, config, e.ing, e.no, redirects)
           IN  HasDefault(d, Allowed(cb, id)) /\ (AsksForDefault(cb, e) => HasDefault(d, ClaimedPools(cb, id)))
<1> DEFINE i == e.ing
           r == e.no
           paths == i.rules[r].paths
           catchAll == {p \in DOMAIN paths : paths[p].path \in DefaultPaths}
           backend == IF catchAll # {} THEN <<i.name, r, Max(catchAll)>> ELSE <<i.name, 0, 0>>
           redirect == RedirectFor(id, i, config, redirects)
           d == getDefaultFromRule(cb, id, config, i, r, redirects)
<1> SUFFICES HasDefault(d, Allowed(cb, id)) /\ (AsksForDefault(cb, e) => HasDefault(d, ClaimedPools(cb, id)))
  BY Zenon
<1>1. d = IF redirect # None THEN ToRedirect(redirect)
          ELSE IF backend \in cb.resolved THEN Backend(cb, i, backend[2], backend[3]) ELSE DefaultBackend
  BY Zenon DEF getDefaultFromRule
<1>2. catchAll = DefaultsOf(e)
  BY Zenon DEF DefaultsOf, PathsOf
<1>3. catchAll # {} => Max(catchAll) \in catchAll
  <2>1. DOMAIN paths = 1..Len(paths) /\ Len(paths) \in Nat
    <3>1. IsSeq(paths)
      BY Zenon DEF PathsOf
    <3> HIDE DEF paths
    <3> QED BY <3>1, SeqIs, Zenon DEF IsSeq
  <2>2. catchAll \in SUBSET (1..Len(paths))
    BY <2>1, Zenon
  <2> HIDE DEF catchAll
  <2> QED BY <2>1, <2>2, MaxIs, Zenon
<1> DEFINE p == Max(catchAll)
<1> HIDE DEF catchAll
<1> HIDE DEF d, redirect, backend, p
<1>4. redirect # None => d.redirect # None
  <2>1. ToRedirect(redirect).redirect = redirect
    BY Zenon DEF ToRedirect
  <2> QED BY <1>1, <2>1, Zenon
<1>5. d.pool = DefaultBackendAddressPoolName \/ redirect # None \/ backend \in cb.resolved
  <2>1. DefaultBackend.pool = DefaultBackendAddressPoolName
    BY Zenon DEF DefaultBackend
  <2> QED BY <1>1, <2>1, Zenon
<1>6. CASE redirect = None /\ catchAll # {} /\ backend \in cb.resolved
  <2>1. d = Backend(cb, i, r, p)
    <3>1. backend = <<i.name, r, p>>
      BY <1>6, Zenon DEF backend, p
    <3> QED BY <1>1, <1>6, <3>1
  <2>2. IF cb.services[ServiceOf(i, r, p)] = "full" THEN d.pool \in AskedPools(cb, e, p)
        ELSE d.pool = DefaultBackendAddressPoolName /\ AskedPools(cb, e, p) = {}
    <3>1. d.pool = PoolOf(cb, ServiceOf(i, r, p))
      BY <2>1, Zenon DEF Backend
    <3> QED BY <3>1, Zenon DEF PoolOf, AskedPools
  <2>3. AskedPools(cb, e, p) \subseteq ClaimedPools(cb, id)
    <3>1. p \in DefaultsOf(e)
      BY <1>2, <1>3, <1>6, Zenon DEF p
    <3>2. AskedPools(cb, e, p) \subseteq UNION {AskedPools(cb, e, q) : q \in DefaultsOf(e)}
      BY <3>1, Zenon
    <3> QED BY <3>2, DefaultsAreClaimed, Zenon
  <2> QED BY <1>2, <2>2, <2>3, Zenon DEF HasDefault, Allowed, AsksForDefault, p
<1>7. CASE redirect = None /\ catchAll = {} /\ backend \in cb.resolved
  <2>1. d = Backend(cb, i, 0, 0) /\ e.ing.backend # None
    <3>1. backend = <<i.name, 0, 0>>
      BY <1>7, Zenon DEF backend
    <3> QED BY <1>1, <1>7, <3>1
  <2>2. d.pool \in {generateAddressPoolName(e.ing.backend), DefaultBackendAddressPoolName}
    <3>1. d.pool = PoolOf(cb, e.ing.backend)
      BY <2>1, Zenon DEF Backend, ServiceOf
    <3> QED BY <3>1, Zenon DEF PoolOf
  <2>3. generateAddressPoolName(e.ing.backend) \in ClaimedPools(cb, id)
    BY <2>1, BackendsAreClaimed, Zenon
  <2> QED BY <1>2, <1>7, <2>2, <2>3, Zenon DEF HasDefault, Allowed, AsksForDefault
<1>8. CASE redirect = None /\ backend \notin cb.resolved
  <2>1. d.pool = DefaultBackendAddressPoolName /\ ~ AsksForDefault(cb, e)
    BY <1>2, <1>5, <1>8, Zenon DEF AsksForDefault, IsResolved, backend
  <2> QED BY <2>1, Zenon DEF HasDefault, Allowed
<1> QED BY <1>4, <1>6, <1>7, <1>8, Zenon DEF HasDefault, d

\* A path map that may be merged with others for a listener.
Usable(cb, m, id) == IsSeq(m.rules) /\ HasDefault(m, Allowed(cb, id))

\* The path map of a rule serves the rule.
LEMMA PathMapServes ==
    ASSUME NoneIsNoName, NEW cb, NEW e \in HTTPRules(cb), NEW id \in AskedListeners(cb, e), NEW config,
           NEW redirects, IsSeq(PathsOf(e)), <<e.ing.name, 0, 0>> \in cb.resolved => e.ing.backend # None
    PROVE  LET n == getPathMap(cb, id, config, e.ing, e.no, redirects)
           IN  ServesRule(cb, n, e, id) /\ Usable(cb, n, id)
<1> DEFINE d == getDefaultFromRule(cb, id, config, e.ing, e.no, redirects)
           rules == getPathRules(cb, id, config, e.ing, e.no, redirects)
           n == getPathMap(cb, id, config, e.ing, e.no, redirects)
<1>1. HasDefault(d, Allowed(cb, id)) /\ (AsksForDefault(cb, e) => HasDefault(d, ClaimedPools(cb, id)))
  BY DefaultServes, Zenon
<1>2. {"pool", "redirect"} \subseteq DOMAIN d /\ "rules" \notin DOMAIN d
  BY DEF getDefaultFromRule, ToRedirect, Backend, DefaultBackend
<1>3. n = d ++ [rules |-> rules]
  BY Zenon DEF getPathMap
<1> HIDE DEF d, rules, n
<1>4. n.pool = d.pool /\ n.redirect = d.redirect /\ n.rules = rules
  BY <1>2, <1>3, Zenon DEF ++
<1>5. HasDefault(n, Allowed(cb, id)) /\ (AsksForDefault(cb, e) => HasDefault(n, ClaimedPools(cb, id)))
  BY <1>1, <1>4, Zenon DEF HasDefault
<1>6. e.no # 0
  BY Zenon DEF HTTPRules, isHTTP
<1>7. \A p \in DOMAIN PathsOf(e) :
        PathsOf(e)[p].path \in DefaultPaths \/ ~ IsResolved(cb, e, p) \/ RoutesPath(cb, n, e, p)
  BY <1>4, <1>6, PathRulesServe, Zenon DEF rules
<1>8. IsSeq(rules)
  <2>1. ArePathRules(rules, cb, id, config, e.ing, e.no, redirects)
    BY PathRulesAre, Zenon DEF rules, PathsOf
  <2> QED BY <2>1, Zenon DEF ArePathRules
<1> QED BY <1>4, <1>5, <1>7, <1>8, Zenon DEF ServesRule, AsksForDefault, Allowed, Usable, n

\* A pool that is claimed is that of a service.
LEMMA ClaimedIsNoDefault ==
    ASSUME NoneIsNoName, NEW cb, NEW id, NEW pool \in ClaimedPools(cb, id)
    PROVE  pool \notin {None, DefaultBackendAddressPoolName}
<1> DEFINE asking == {x \in HTTPRules(cb) : id \in AskedListeners(cb, x)}
           pools(x) == UNION {AskedPools(cb, x, q) : q \in DefaultsOf(x)}
           some == {x \in asking : x.ing.backend # None}
<1>1. \E s : pool = generateAddressPoolName(s)
  <2>1. pool \in (UNION {pools(x) : x \in asking}) \cup {generateAddressPoolName(x.ing.backend) : x \in some}
    BY Zenon DEF ClaimedPools
  <2>2. \A x, q : pool \in AskedPools(cb, x, q) => \E s : pool = generateAddressPoolName(s)
    BY Zenon DEF AskedPools
  <2>3. \A x : pool \in pools(x) => \E s : pool = generateAddressPoolName(s)
    BY <2>2, Zenon
  <2> HIDE DEF asking, pools, some
  <2> QED BY <2>1, <2>3, Zenon
<1> QED BY <1>1 DEF generateAddressPoolName, DefaultBackendAddressPoolName, NoneIsNoName

\* Merging path maps keeps what each serves.
LEMMA MergedMapServes ==
    ASSUME NoneIsNoName, NEW cb, NEW id, NEW m, NEW n, Usable(cb, m, id), Usable(cb, n, id)
    PROVE  LET x == mergePathMap(m, n)
           IN  /\ Usable(cb, x, id)
               /\ \A e : ServesRule(cb, m, e, id) \/ ServesRule(cb, n, e, id) => ServesRule(cb, x, e, id)
<1> DEFINE x == mergePathMap(m, n)
           claimed == ClaimedPools(cb, id)
<1>1. x.rules = m.rules \o n.rules
  BY Zenon DEF mergePathMap, ToRedirect, ++
<1>2. n.redirect # None => x.redirect = n.redirect
  BY Zenon DEF mergePathMap, ToRedirect, ++
<1>3. n.redirect = None =>
        /\ x.redirect = m.redirect
        /\ x.pool = IF n.pool \notin {None, DefaultBackendAddressPoolName} THEN n.pool ELSE m.pool
  BY Zenon DEF mergePathMap, ToRedirect, ++
<1> SUFFICES /\ Usable(cb, x, id)
             /\ \A e : ServesRule(cb, m, e, id) \/ ServesRule(cb, n, e, id) => ServesRule(cb, x, e, id)
  BY Zenon
<1> HIDE DEF x
<1>4. IsSeq(x.rules) /\ Range(x.rules) = Range(m.rules) \cup Range(n.rules)
  BY <1>1, ConcatIs, Zenon DEF Usable
<1>5. HasDefault(m, Allowed(cb, id)) /\ HasDefault(n, Allowed(cb, id))
  BY Zenon DEF Usable
<1>6. n.pool \in claimed => n.pool \notin {None, DefaultBackendAddressPoolName}
  BY ClaimedIsNoDefault, Zenon
<1> HIDE DEF claimed
<1>7. Allowed(cb, id) = claimed \cup {DefaultBackendAddressPoolName}
  BY Zenon DEF Allowed, claimed
<1>8. HasDefault(x, Allowed(cb, id)) /\ (HasDefault(m, claimed) \/ HasDefault(n, claimed) => HasDefault(x, claimed))
  BY <1>2, <1>3, <1>5, <1>6, <1>7, Zenon DEF HasDefault
<1>9. \A e, p : RoutesPath(cb, m, e, p) \/ RoutesPath(cb, n, e, p) => RoutesPath(cb, x, e, p)
  BY <1>4, Zenon DEF RoutesPath
<1> QED BY <1>4, <1>7, <1>8, <1>9, Zenon DEF ServesRule, Usable, Allowed, claimed

\* What a listener without rules starts from may be merged with others.
LEMMA EmptyMapIsUsable == ASSUME NEW cb, NEW id PROVE Usable(cb, EmptyPathMap, id)
<1>1. EmptyPathMap.rules = << >> /\ EmptyPathMap.pool = DefaultBackendAddressPoolName
  BY Zenon DEF EmptyPathMap, DefaultBackend, ++
<1>2. IsSeq(<< >>)
  BY DEF IsSeq, Range
<1> QED BY <1>1, <1>2, Zenon DEF Usable, HasDefault, Allowed

\* The default listener, if an ingress without rules can take it over.
Taken(cb) ==
    {id \in {defaultFrontendListenerIdentifier} :
        \E i \in Range(cb.ingresses) : i.rules = << >> /\ i.backend # None}

\* The path maps have one for the listener that serves the rule.
ServedBy(cb, maps, e, id) == id \in DOMAIN maps /\ ServesRule(cb, maps[id], e, id)

\* The path maps of all listeners may be merged with others.
AllUsable(cb, maps) == \A id \in DOMAIN maps \ Taken(cb) : Usable(cb, maps[id], id)

\* A rule is served once it has had its round.
LEMMA AddedRuleIsServed ==
    ASSUME NoneIsNoName, NEW cb, NEW redirects, NEW maps, AllUsable(cb, maps), NEW e \in HTTPRules(cb),
           IsSeq(PathsOf(e)), <<e.ing.name, 0, 0>> \in cb.resolved => e.ing.backend # None
    PROVE  LET new == addRule(cb, e.ing, e.no, maps, processIngressRule(cb, e.ing, e.ing.rules[e.no]), redirects)
           IN  /\ AllUsable(cb, new)
               /\ \A id \in AskedListeners(cb, e) \ Taken(cb) : ServedBy(cb, new, e, id)
               /\ \A x, id : id \notin Taken(cb) /\ ServedBy(cb, maps, x, id) => ServedBy(cb, new, x, id)
<1> DEFINE configs == processIngressRule(cb, e.ing, e.ing.rules[e.no])
           old(id) == IF id \in DOMAIN maps THEN maps[id] ELSE EmptyPathMap
           made(id) == getPathMap(cb, id, configs[id], e.ing, e.no, redirects)
           new == addRule(cb, e.ing, e.no, maps, configs, redirects)
<1>1. DOMAIN configs = AskedListeners(cb, e)
  BY Zenon DEF AskedListeners
<1>2. /\ DOMAIN new = DOMAIN configs \cup DOMAIN maps
      /\ \A id \in DOMAIN configs : new[id] = mergePathMap(old(id), made(id))
      /\ \A id \in DOMAIN maps \ DOMAIN configs : new[id] = maps[id]
  <2> DEFINE added == [id \in DOMAIN configs |-> mergePathMap(old(id), made(id))]
  <2>1. new = added ++ maps
    BY Zenon DEF addRule
  <2>2. DOMAIN added = DOMAIN configs /\ \A id \in DOMAIN configs : added[id] = mergePathMap(old(id), made(id))
    BY Zenon
  <2> HIDE DEF added, new, old, made, configs
  <2> QED BY <2>1, <2>2, Zenon DEF ++
<1> SUFFICES /\ AllUsable(cb, new)
             /\ \A id \in AskedListeners(cb, e) \ Taken(cb) : ServedBy(cb, new, e, id)
             /\ \A x, id : id \notin Taken(cb) /\ ServedBy(cb, maps, x, id) => ServedBy(cb, new, x, id)
  BY Zenon
<1>3. \A id \in AskedListeners(cb, e) : Usable(cb, made(id), id) /\ ServesRule(cb, made(id), e, id)
  BY PathMapServes, Zenon
<1>4. \A id : id \notin Taken(cb) => Usable(cb, old(id), id)
  BY EmptyMapIsUsable, Zenon DEF AllUsable
<1> HIDE DEF new, made, configs
<1>5. ASSUME NEW id \in AskedListeners(cb, e), id \notin Taken(cb)
      PROVE  /\ Usable(cb, new[id], id) /\ ServesRule(cb, new[id], e, id)
             /\ \A x : ServesRule(cb, old(id), x, id) => ServesRule(cb, new[id], x, id)
  <2> HIDE DEF old
  <2>1. Usable(cb, made(id), id) /\ ServesRule(cb, made(id), e, id) /\ Usable(cb, old(id), id)
    BY <1>3, <1>4, <1>5, Zenon
  <2>2. new[id] = mergePathMap(old(id), made(id))
    BY <1>1, <1>2, Zenon
  <2> QED BY <2>1, <2>2, MergedMapServes, Zenon
<1>6. AllUsable(cb, new)
  BY <1>1, <1>2, <1>5, Zenon DEF AllUsable
<1>7. \A id \in AskedListeners(cb, e) \ Taken(cb) : ServedBy(cb, new, e, id)
  BY <1>1, <1>2, <1>5, Zenon DEF ServedBy
<1>8. ASSUME NEW x, NEW id, id \notin Taken(cb), ServedBy(cb, maps, x, id) PROVE ServedBy(cb, new, x, id)
  <2>1. id \in DOMAIN maps /\ id \in DOMAIN new /\ ServesRule(cb, maps[id], x, id)
    BY <1>2, <1>8, Zenon DEF ServedBy
  <2>2. CASE id \in AskedListeners(cb, e)
    BY <1>5, <1>8, <2>1, <2>2, Zenon DEF ServedBy
  <2>3. CASE id \notin AskedListeners(cb, e)
    BY <1>1, <1>2, <2>1, <2>3, Zenon DEF ServedBy
  <2> QED BY <2>2, <2>3, Zenon
<1> QED BY <1>6, <1>7, <1>8, Zenon

\* An ingress without rules takes over the default listener at most.
LEMMA NoRulesKeepServed ==
    ASSUME NEW cb, NEW maps, AllUsable(cb, maps), NEW i \in Range(cb.ingresses), i.rules = << >>,
           <<i.name, 0, 0>> \in cb.resolved => i.backend # None
    PROVE  LET new == noRulesIngress(cb, i, maps)
           IN  /\ AllUsable(cb, new)
               /\ \A x, id : id \notin Taken(cb) /\ ServedBy(cb, maps, x, id) => ServedBy(cb, new, x, id)
<1> DEFINE new == noRulesIngress(cb, i, maps)
           id0 == defaultFrontendListenerIdentifier
<1> SUFFICES ASSUME <<i.name, 0, 0>> \in cb.resolved
             PROVE  /\ AllUsable(cb, new)
                    /\ \A x, id : id \notin Taken(cb) /\ ServedBy(cb, maps, x, id) => ServedBy(cb, new, x, id)
  BY Zenon DEF noRulesIngress
<1>1. id0 \in Taken(cb)
  BY Zenon DEF Taken
<1>2. DOMAIN new = {id0} \cup DOMAIN maps /\ \A id \in DOMAIN maps \ {id0} : new[id] = maps[id]
  <2> DEFINE m == [EmptyPathMap EXCEPT !.pool = generateAddressPoolName(i.backend)]
  <2>1. new = Only(id0, m) ++ maps
    BY Zenon DEF noRulesIngress
  <2>2. DOMAIN Only(id0, m) = {id0}
    BY Zenon DEF Only
  <2> HIDE DEF new, m
  <2> QED BY <2>1, <2>2, Zenon DEF ++
<1> HIDE DEF new, id0
<1> QED BY <1>1, <1>2, Zenon DEF AllUsable, ServedBy

\* The default backend of an ingress is resolved only if it is given.
LEMMA BackendIsGiven ==
    ASSUME NEW cb, GoodContext(cb), NEW i \in Range(cb.ingresses), <<i.name, 0, 0>> \in cb.resolved
    PROVE  i.backend # None
<1> DEFINE b == <<i.name, 0, 0>>
<1>1. b[1] = i.name /\ b[2] = 0 /\ \A j : b = <<j.name, 0, 0>> => j.name = i.name
  OBVIOUS
<1>2. PICK j \in Range(cb.ingresses) : b = <<j.name, 0, 0>> /\ j.backend # None
  BY <1>1, Zenon DEF GoodContext
<1> HIDE DEF b
<1>3. j.name = i.name
  BY <1>1, <1>2, Zenon
<1> QED BY <1>2, <1>3, Zenon DEF GoodContext, GoodIngresses

\* A round keeps what is served, and serves its rule.
LEMMA RoundServes ==
    ASSUME NoneIsNoName, NEW cb, GoodContext(cb), NEW redirects, NEW maps, AllUsable(cb, maps),
           NEW e \in Range(cb.walk)
    PROVE  LET new == Round(cb, redirects, maps, e)
           IN  /\ AllUsable(cb, new)
               /\ isHTTP(e) => \A id \in AskedListeners(cb, e) \ Taken(cb) : ServedBy(cb, new, e, id)
               /\ \A x, id : id \notin Taken(cb) /\ ServedBy(cb, maps, x, id) => ServedBy(cb, new, x, id)
<1>1. /\ e.ing \in Range(cb.ingresses)
      /\ e.no = 0 => e.ing.rules = << >>
      /\ e.no # 0 => IsSeq(PathsOf(e))
  BY VisitsAre, Zenon DEF GoodContext, PathsOf
<1>2. <<e.ing.name, 0, 0>> \in cb.resolved => e.ing.backend # None
  BY <1>1, BackendIsGiven, Zenon
<1>3. isHTTP(e) => e \in HTTPRules(cb) /\ e.no # 0
  BY Zenon DEF HTTPRules, isHTTP
<1>4. CASE e.no = 0
  BY <1>1, <1>2, <1>3, <1>4, NoRulesKeepServed, Zenon DEF Round
<1>5. CASE e.no # 0 /\ isHTTP(e)
  BY <1>1, <1>2, <1>3, <1>5, AddedRuleIsServed, Zenon DEF Round
<1>6. CASE e.no # 0 /\ ~ isHTTP(e)
  BY <1>6, Zenon DEF Round
<1> QED BY <1>4, <1>5, <1>6, Zenon

\* Every rule has had its round in the end.
LEMMA PathMapsServe ==
    ASSUME NoneIsNoName, NEW cb, GoodContext(cb), NEW redirects, NEW e \in HTTPRules(cb),
           NEW id \in AskedListeners(cb, e), id \notin Taken(cb)
    PROVE  ServedBy(cb, getPathMaps(cb, redirects), e, id)
<1>1. IsSeq(cb.walk)
  BY VisitsAre, Zenon DEF GoodContext
<1>2. Len(cb.walk) \in Nat /\ DOMAIN cb.walk = 1..Len(cb.walk)
  BY <1>1, SeqIs, Zenon DEF IsSeq
<1>3. PICK after :
        /\ Rounds(cb, redirects, after)
        /\ getPathMaps(cb, redirects) =
            (IF DOMAIN after[Len(cb.walk)] # {} THEN after[Len(cb.walk)]
             ELSE Only(defaultFrontendListenerIdentifier, EmptyPathMap)) ++ cb.istioPathMaps
  BY <1>1, PathMapLoop, Zenon
<1>4. PICK k \in DOMAIN cb.walk : cb.walk[k] = e
  BY Zenon DEF HTTPRules, Range
<1>5. isHTTP(e)
  BY Zenon DEF HTTPRules
<1> DEFINE Good(n) == AllUsable(cb, after[n]) /\ (k <= n => ServedBy(cb, after[n], e, id))
           good == {n \in Nat : n <= Len(cb.walk) => Good(n)}
<1>6. 0 \in good
  <2>1. after[0] = << >> /\ DOMAIN << >> = {} /\ ~ (k <= 0)
    BY <1>2, <1>3, <1>4 DEF Rounds
  <2>2. Good(0)
    BY <2>1, Zenon DEF AllUsable
  <2> QED BY <2>2, Zenon
<1>7. ASSUME NEW n \in Nat, n \in good PROVE n + 1 \in good
  <2> SUFFICES ASSUME n + 1 <= Len(cb.walk) PROVE Good(n + 1)
    OBVIOUS
  <2>1. n < Len(cb.walk) /\ n + 1 \in DOMAIN cb.walk /\ n <= Len(cb.walk)
    BY <1>2
  <2>2. after[n + 1] = Round(cb, redirects, after[n], cb.walk[n + 1]) /\ cb.walk[n + 1] \in Range(cb.walk)
    BY <1>3, <2>1, Zenon DEF Rounds, Range
  <2>3. Good(n)
    BY <1>7, <2>1, Zenon
  <2>4. k <= n + 1 => k <= n \/ k = n + 1
    BY <1>2, <1>4
  <2> DEFINE new == Round(cb, redirects, after[n], cb.walk[n + 1])
  <2>5. /\ AllUsable(cb, new)
        /\ isHTTP(cb.walk[n + 1]) =>
            \A x \in AskedListeners(cb, cb.walk[n + 1]) \ Taken(cb) : ServedBy(cb, new, cb.walk[n + 1], x)
        /\ \A x, y : y \notin Taken(cb) /\ ServedBy(cb, after[n], x, y) => ServedBy(cb, new, x, y)
    BY <2>2, <2>3, RoundServes, Zenon
  <2> HIDE DEF new
  <2> QED BY <1>4, <1>5, <2>2, <2>3, <2>4, <2>5, Zenon DEF new
<1> HIDE DEF good, Good
<1>8. Good(Len(cb.walk))
  <2>1. Len(cb.walk) \in good
    BY <1>2, <1>6, <1>7, NatInd, Zenon
  <2> QED BY <1>2, <2>1 DEF good
<1>9. ServedBy(cb, after[Len(cb.walk)], e, id)
  <2>1. k <= Len(cb.walk)
    BY <1>2, <1>4
  <2> QED BY <1>8, <2>1, Zenon DEF Good
<1> DEFINE all == after[Len(cb.walk)]
<1>10. id \in DOMAIN all /\ ServesRule(cb, all[id], e, id)
  BY <1>9, Zenon DEF ServedBy
<1>11. getPathMaps(cb, redirects) = all ++ cb.istioPathMaps
  BY <1>3, <1>10, Zenon
<1> HIDE DEF all
<1> QED BY <1>10, <1>11, Zenon DEF ServedBy, ++

-----------------------------------------------------------------------------
(* The listeners that ingresses ask for *)

\* None stands for an empty string, and not for a list of names.
NoneIsNoList == \A s : IsSeq(s) => s # None

\* The listeners that rules ask for have a configuration.
Covers(cb) == \A e \in HTTPRules(cb) : AskedListeners(cb, e) \subseteq DOMAIN cb.configs

\* The configurations of listeners are those that the rules ask for.
LEMMA AskedAreConfigured ==
    ASSUME NEW cb, NEW d, cb.walk = d.walk, cb.secrets = d.secrets, cb.configs = getListenerConfigs(d)
    PROVE  Covers(cb)
<1> DEFINE asked(n) == IF isHTTP(d.walk[n])
                       THEN processIngressRule(d, d.walk[n].ing, d.walk[n].ing.rules[d.walk[n].no]) ELSE << >>
           asking(id) == {n \in DOMAIN d.walk : id \in DOMAIN asked(n)}
           ids == UNION {DOMAIN asked(n) : n \in DOMAIN d.walk}
           default == [https |-> FALSE, secret |-> None, redirect |-> None, waf |-> DefaultPolicy(d)]
<1>1. getListenerConfigs(d) = IF ids # {} THEN [id \in ids |-> asked(Max(asking(id)))[id]]
                              ELSE Only(defaultFrontendListenerIdentifier, default)
  BY Zenon DEF getListenerConfigs
<1>2. \A i, host : SecretForHost(cb, i, host) = SecretForHost(d, i, host)
  <2> SUFFICES ASSUME NEW i, NEW host PROVE SecretForHost(cb, i, host) = SecretForHost(d, i, host)
    BY Zenon
  <2> DEFINE matching(secrets) == {k \in DOMAIN i.tls :
                                    /\ i.tls[k].secret \in secrets
                                    /\ host \in (IF i.tls[k].hosts = {} THEN {""} ELSE i.tls[k].hosts)}
             first(some) == IF some = {} THEN None ELSE i.tls[Max(some)].secret
  <2>1. /\ SecretForHost(cb, i, host) = first(matching(cb.secrets))
        /\ SecretForHost(d, i, host) = first(matching(d.secrets))
    BY Zenon DEF SecretForHost
  <2> HIDE DEF matching, first
  <2> QED BY <2>1, Zenon
<1>3. \A i, host : getCertificate(cb, i, host) = getCertificate(d, i, host)
  BY <1>2, Zenon DEF getCertificate
<1>4. \A i, rule : DOMAIN processIngressRule(cb, i, rule) = DOMAIN processIngressRule(d, i, rule)
  <2> SUFFICES ASSUME NEW i, NEW rule
               PROVE  DOMAIN processIngressRule(cb, i, rule) = DOMAIN processIngressRule(d, i, rule)
    BY Zenon
  <2> DEFINE https == generateListenerID(i, rule, 443)
             http == generateListenerID(i, rule, 80)
             both(secret) == {x \in {https} : secret # None} \cup {x \in {http} : i.redirect \/ secret = None}
  <2>1. /\ DOMAIN processIngressRule(cb, i, rule) = both(getCertificate(cb, i, rule.host))
        /\ DOMAIN processIngressRule(d, i, rule) = both(getCertificate(d, i, rule.host))
    BY Zenon DEF processIngressRule, ListenersFor
  <2> HIDE DEF both
  <2> QED BY <1>3, <2>1, Zenon
<1>5. ASSUME NEW e \in HTTPRules(cb), NEW id \in AskedListeners(cb, e) PROVE id \in ids
  <2>1. PICK n \in DOMAIN d.walk : d.walk[n] = e /\ isHTTP(e)
    BY Zenon DEF HTTPRules, Range
  <2>2. id \in DOMAIN asked(n)
    BY <1>4, <2>1, Zenon DEF AskedListeners
  <2> HIDE DEF asked
  <2> QED BY <2>2, Zenon
<1> HIDE DEF ids, asked, asking, default
<1> QED BY <1>1, <1>5, Zenon DEF Covers

\* Of the host names at most five are kept; keeping them again changes nothing.
LEMMA KeptHostsAre ==
    ASSUME NEW hosts, IsSeq(hosts), NEW kept, kept = SubSeq(hosts, 1, Min({Len(hosts), MaxAllowedHostnames}))
    PROVE  /\ IsSeq(kept) /\ Range(kept) \subseteq Range(hosts)
           /\ kept = SubSeq(kept, 1, Min({Len(kept), MaxAllowedHostnames}))
<1> DEFINE S == Range(hosts)
           least(k) == Min({k, 5})
<1>1. hosts \in Seq(S) /\ Len(hosts) \in Nat
  BY SeqIs, Zenon DEF IsSeq
<1>2. \A k \in Nat : least(k) \in Nat /\ least(k) <= k /\ least(k) <= 5 /\ (k <= 5 => least(k) = k)
  <2> SUFFICES ASSUME NEW k \in Nat
               PROVE  least(k) \in Nat /\ least(k) <= k /\ least(k) <= 5 /\ (k <= 5 => least(k) = k)
    BY Zenon
  <2>1. PICK x \in {k, 5} : \A y \in {k, 5} : x <= y
    OBVIOUS
  <2>2. least(k) \in {k, 5} /\ \A y \in {k, 5} : least(k) <= y
    BY <2>1 DEF Min
  <2> HIDE DEF least
  <2> QED BY <2>2
<1> HIDE DEF S, least
<1> DEFINE n == least(Len(hosts))
<1>3. kept = SubSeq(hosts, 1, n)
  BY Zenon DEF least, MaxAllowedHostnames
<1>4. n \in Nat /\ n <= Len(hosts) /\ n <= 5
  BY <1>1, <1>2
<1> HIDE DEF n
<1>5. kept \in Seq(S) /\ Len(kept) = n
  <2>1. SubSeq(hosts, 1, n) \in Seq(S) /\ Len(SubSeq(hosts, 1, n)) = n
    BY <1>1, <1>4, FirstElementsAre
  <2> QED BY <1>3, <2>1, Zenon
<1>6. least(Len(kept)) = Len(kept)
  BY <1>2, <1>4, <1>5
<1>7. SubSeq(kept, 1, Len(kept)) = kept
  BY <1>5, AllElementsAre, Zenon
<1>8. IsSeq(kept) /\ Range(kept) \subseteq Range(hosts)
  BY <1>5, SeqIs, Zenon DEF S
<1> QED BY <1>6, <1>7, <1>8, Zenon DEF least, MaxAllowedHostnames

\* The host names of a listener are those of the identifier for which it is made.
LEMMA NamesComeBack ==
    ASSUME NoneIsNoList, NEW cb, NEW id, NEW config, IsSeq(id.hosts), None \notin Range(id.hosts)
    PROVE  NamesOf(newListener(cb, id, config)) = id.hosts
<1> DEFINE l == newListener(cb, id, config)
           s == id.hosts
<1>1. /\ l.host = IF Len(s) = 1 THEN s[1] ELSE None
      /\ l.hosts = IF Len(s) > 1 THEN s ELSE None
  BY Zenon DEF newListener
<1> HIDE DEF l, s
<1>2. IsSeq(s) /\ None \notin Range(s) /\ s # None
  BY Zenon DEF s, NoneIsNoList
<1>3. s \in Seq(Range(s)) /\ Len(s) \in Nat /\ DOMAIN s = 1..Len(s)
  BY <1>2, SeqIs, Zenon DEF IsSeq
<1>4. CASE Len(s) = 0
  <2>1. s = << >> /\ ~ (Len(s) > 1) /\ Len(s) # 1
    BY <1>3, <1>4
  <2> QED BY <1>1, <2>1, Zenon DEF NamesOf, l, s
<1>5. CASE Len(s) = 1
  <2>1. ~ (Len(s) > 1) /\ 1 \in DOMAIN s
    BY <1>3, <1>5
  <2>2. s[1] # None
    BY <1>2, <2>1, Zenon DEF Range
  <2>3. s = <<s[1]>>
    <3> DEFINE T == Range(s)
    <3>1. s \in Seq(T)
      BY <1>3, Zenon
    <3> HIDE DEF T
    <3> QED BY <1>5, <3>1
  <2>4. NamesOf(l) = <<s[1]>>
    BY <1>1, <1>5, <2>1, <2>2, Zenon DEF NamesOf
  <2> QED BY <2>3, <2>4, Zenon DEF l, s
<1>6. CASE Len(s) > 1
  BY <1>1, <1>2, <1>6, Zenon DEF NamesOf, l, s
<1>7. Len(s) = 0 \/ Len(s) = 1 \/ Len(s) > 1
  BY <1>3
<1> QED BY <1>4, <1>5, <1>6, <1>7, Zenon

\* The ports of listeners have the numbers that the listeners are made for.
Numbered(cb, listeners, ports) ==
    \A id \in DOMAIN cb.configs \cup DOMAIN cb.istioListeners : \A l \in Range(listeners) :
        l.port = PortName(cb, id.port) => l.port \in DOMAIN ports /\ ports[l.port] = id.port

\* The numbers of the ports in use: a name that AGIC gives tells the number.
LEMMA PortsAreNumbered ==
    ASSUME NEW cb, PortsTell(cb.ports), NEW listeners
    PROVE  /\ PortsTell(FrontendPorts(cb, listeners))
           /\ Numbered(cb, listeners, FrontendPorts(cb, listeners))
<1> DEFINE ids == DOMAIN cb.configs \cup DOMAIN cb.istioListeners
           added == [p \in {generateFrontendPortName(id.port) : id \in ids} |-> p[2]]
           known == cb.ports ++ added
           used == {x.port : x \in Range(listeners)} \cap DOMAIN known
           ports == FrontendPorts(cb, listeners)
<1>1. ports = Restrict(known, used)
  BY Zenon DEF FrontendPorts
<1>2. /\ DOMAIN added = {generateFrontendPortName(id.port) : id \in ids}
      /\ \A p \in DOMAIN added : added[p] = p[2]
  BY Zenon
<1>3. \A number : generateFrontendPortName(number)[1] = "fp" /\ generateFrontendPortName(number)[2] = number
  BY DEF generateFrontendPortName
<1> HIDE DEF added
<1>4. /\ DOMAIN known = DOMAIN cb.ports \cup DOMAIN added
      /\ \A p \in DOMAIN cb.ports : known[p] = cb.ports[p]
      /\ \A p \in DOMAIN added \ DOMAIN cb.ports : known[p] = added[p]
  BY Zenon DEF ++
<1> HIDE DEF known
<1>5. DOMAIN ports = used /\ \A p \in used : ports[p] = known[p]
  BY <1>1, Zenon DEF Restrict
<1> SUFFICES PortsTell(ports) /\ Numbered(cb, listeners, ports)
  BY Zenon
<1> HIDE DEF ports
<1>6. PortsTell(ports)
  BY <1>2, <1>4, <1>5, Zenon DEF PortsTell
<1>7. ASSUME NEW id \in ids, NEW l \in Range(listeners), l.port = PortName(cb, id.port)
      PROVE  l.port \in DOMAIN known /\ known[l.port] = id.port
  <2> DEFINE existing == {p \in DOMAIN cb.ports : cb.ports[p] = id.port}
             new == generateFrontendPortName(id.port)
  <2>1. l.port = IF existing = {} THEN new ELSE CHOOSE p \in existing : TRUE
    BY <1>7, Zenon DEF PortName
  <2>2. CASE existing # {}
    <3>1. l.port \in existing
      <4> HIDE DEF existing
      <4> QED BY <2>1, <2>2, Zenon
    <3> QED BY <1>4, <3>1, Zenon
  <2>3. CASE existing = {}
    <3>1. new \in DOMAIN added /\ added[new] = id.port
      BY <1>2, <1>3, Zenon
    <3>2. new[1] = "fp" /\ new[2] = id.port
      BY <1>3, Zenon
    <3> HIDE DEF new
    <3>3. new \notin DOMAIN cb.ports
      BY <2>3, <3>2, Zenon DEF PortsTell
    <3> QED BY <1>4, <2>1, <2>3, <3>1, <3>3, Zenon
  <2> QED BY <2>2, <2>3, Zenon
<1> QED BY <1>5, <1>6, <1>7, Zenon DEF Numbered

\* The identifier of a listener that a rule asks for comes back from the listener.
LEMMA IdentifierComesBack ==
    ASSUME NoneIsNoList, NEW cb, GoodContext(cb), NEW e \in HTTPRules(cb), NEW id \in AskedListeners(cb, e),
           NEW config, NEW l, l = newListener(cb, id, config),
           NEW ports, l.port \in DOMAIN ports, ports[l.port] = id.port
    PROVE  IdentifierOf(l, ports) = id
<1> DEFINE i == e.ing
           rule == i.rules[e.no]
           hosts == (IF rule.host = "" THEN << >> ELSE <<rule.host>>) \o i.extended
<1>1. e.ing \in Range(cb.ingresses) /\ e.no \in DOMAIN i.rules
  BY VisitsAre, Zenon DEF GoodContext, HTTPRules, isHTTP
<1>2. WellFormedIngress(i) /\ rule \in Range(i.rules)
  BY <1>1, Zenon DEF GoodContext, GoodIngresses, Range
<1>3. IsSeq(i.extended) /\ None \notin Range(i.extended) /\ rule.host # None
  BY <1>2, Zenon DEF WellFormedIngress
<1>4. IsSeq(hosts) /\ None \notin Range(hosts)
  <2> DEFINE some == IF rule.host = "" THEN << >> ELSE <<rule.host>>
  <2>1. some \in Seq({rule.host})
    <3>1. \A h : << >> \in Seq({h}) /\ <<h>> \in Seq({h})
      OBVIOUS
    <3> HIDE DEF rule
    <3> QED BY <3>1, Zenon
  <2> HIDE DEF some
  <2>2. IsSeq(some) /\ Range(some) \subseteq {rule.host}
    BY <2>1, SeqIs, Zenon
  <2>3. IsSeq(some \o i.extended) /\ Range(some \o i.extended) = Range(some) \cup Range(i.extended)
    BY <1>3, <2>2, ConcatIs, Zenon
  <2> QED BY <1>3, <2>2, <2>3, Zenon DEF some
<1>5. \E port : id = ListenerID(port, i.private, hosts)
  BY Zenon DEF AskedListeners, processIngressRule, ListenersFor, generateListenerID
<1> HIDE DEF hosts, i
<1>6. PICK port : id = ListenerID(port, i.private, hosts)
  BY <1>5, Zenon
<1> DEFINE kept == SubSeq(hosts, 1, Min({Len(hosts), MaxAllowedHostnames}))
<1>7. /\ id = [port |-> port, private |-> i.private, host |-> IF kept = << >> THEN "" ELSE kept[1], hosts |-> kept]
      /\ id.hosts = kept /\ id.port = port /\ id.private = i.private
  BY <1>6, Zenon DEF ListenerID
<1> HIDE DEF kept
<1>8. /\ IsSeq(kept) /\ Range(kept) \subseteq Range(hosts)
      /\ kept = SubSeq(kept, 1, Min({Len(kept), MaxAllowedHostnames}))
  BY <1>4, KeptHostsAre, Zenon DEF kept
<1>9. NamesOf(l) = kept
  <2>1. IsSeq(id.hosts) /\ None \notin Range(id.hosts)
    BY <1>4, <1>7, <1>8, Zenon
  <2> QED BY <1>7, <2>1, NamesComeBack, Zenon
<1>10. l.private = id.private
  BY Zenon DEF newListener
<1>11. IdentifierOf(l, ports) = ListenerID(port, i.private, kept)
  BY <1>7, <1>9, <1>10, Zenon DEF IdentifierOf, NamesOf
<1>12. ListenerID(port, i.private, kept) = id
  BY <1>7, <1>8, Zenon DEF ListenerID
<1> QED BY <1>11, <1>12, Zenon

\* A path map that leads where another does serves what it serves.
LEMMA SameServes ==
    ASSUME NEW cb, NEW m, NEW n, NEW e, NEW id, ServesRule(cb, m, e, id), n.rules = m.rules,
           m.redirect # None => n.redirect # None, m.redirect = None => n.pool = m.pool
    PROVE  ServesRule(cb, n, e, id)
<1>1. \A pools : HasDefault(m, pools) => HasDefault(n, pools)
  BY Zenon DEF HasDefault
<1>2. \A p : RoutesPath(cb, m, e, p) => RoutesPath(cb, n, e, p)
  BY Zenon DEF RoutesPath
<1> QED BY <1>1, <1>2, Zenon DEF ServesRule

\* Where a rule of the gateway leads.
RoutesOf(c, r) == IF r.pathMap = None THEN r ++ [rules |-> << >>] ELSE c.pathMaps[r.pathMap]

\* The rule on a listener leads where the path map for the listener does.
LEMMA RuleServes ==
    ASSUME NoneIsNoName, NEW maps, NEW byID, NEW c, c.pathMaps = PathMapsOfRules(maps, byID),
           c.rules = getRules(maps, byID), NEW id \in DOMAIN byID, NEW cb, NEW e, ServedBy(cb, maps, e, id)
    PROVE  \E r \in Range(c.rules) : r.listener = byID[id] /\ ServesRule(cb, RoutesOf(c, r), e, id)
<1> DEFINE m == maps[id]
           n == generateRequestRoutingRuleName(id)
           url == generateURLPathMapName(id)
           kind(q) == IF maps[q[2]].rules # << >>
                THEN [pathMap |-> generateURLPathMapName(q[2]),
                      pool |-> None, settings |-> None, redirect |-> None]
                ELSE IF maps[q[2]].redirect # None THEN [pathMap |-> None] ++ ToRedirect(maps[q[2]].redirect)
                ELSE [pathMap |-> None, pool |-> maps[q[2]].pool, settings |-> maps[q[2]].settings, redirect |-> None]
           names == {generateRequestRoutingRuleName(x) : x \in DOMAIN maps \cap DOMAIN byID}
           r == [listener |-> byID[id]] ++ kind(n)
<1>1. id \in DOMAIN maps /\ ServesRule(cb, m, e, id)
  BY Zenon DEF ServedBy
<1>2. n[2] = id /\ url[2] = id /\ url # None
  BY DEF generateRequestRoutingRuleName, generateURLPathMapName, NoneIsNoName
<1>3. c.rules = [q \in names |-> [listener |-> byID[q[2]]] ++ kind(q)]
  BY Zenon DEF getRules
<1>4. n \in names
  BY <1>1, Zenon
<1> HIDE DEF names, kind, n
<1>5. r \in Range(c.rules)
  <2>1. n \in DOMAIN c.rules /\ c.rules[n] = [listener |-> byID[n[2]]] ++ kind(n)
    BY <1>3, <1>4, Zenon
  <2>2. c.rules[n] = r
    BY <1>2, <2>1, Zenon
  <2> QED BY <2>1, <2>2, Zenon DEF Range
<1>6. /\ DOMAIN kind(n) = {"pathMap", "pool", "settings", "redirect"}
      /\ m.rules # << >> => kind(n).pathMap = url
      /\ m.rules = << >> => /\ kind(n).pathMap = None
                            /\ m.redirect # None => kind(n).redirect = m.redirect
                            /\ m.redirect = None => kind(n).pool = m.pool
  BY <1>2, Zenon DEF kind, ++, ToRedirect
<1>7. /\ r.listener = byID[id] /\ r.pathMap = kind(n).pathMap /\ r.pool = kind(n).pool
      /\ r.redirect = kind(n).redirect /\ DOMAIN r = {"listener"} \cup DOMAIN kind(n)
  BY <1>6, Zenon DEF ++
<1> HIDE DEF r
<1>8. ServesRule(cb, RoutesOf(c, r), e, id)
  <2>1. CASE m.rules # << >>
    <3>1. r.pathMap = url /\ r.pathMap # None
      BY <1>2, <1>6, <1>7, <2>1, Zenon
    <3>2. url \in DOMAIN c.pathMaps /\ c.pathMaps[url] = m
      <4> DEFINE with == {generateURLPathMapName(x) : x \in {y \in DOMAIN maps \cap DOMAIN byID : maps[y].rules # << >>}}
      <4>1. c.pathMaps = [q \in with |-> maps[q[2]]]
        BY Zenon DEF PathMapsOfRules
      <4>2. url \in with
        BY <1>1, <2>1, Zenon
      <4> HIDE DEF with, url
      <4> QED BY <1>2, <4>1, <4>2, Zenon
    <3> QED BY <1>1, <3>1, <3>2, Zenon DEF RoutesOf
  <2>2. CASE m.rules = << >>
    <3> DEFINE x == r ++ [rules |-> << >>]
    <3>1. RoutesOf(c, r) = x
      BY <1>6, <1>7, <2>2, Zenon DEF RoutesOf
    <3>2. x.rules = << >> /\ x.redirect = r.redirect /\ x.pool = r.pool
      BY <1>6, <1>7, Zenon DEF ++
    <3> HIDE DEF x, m
    <3>3. /\ x.rules = m.rules
          /\ m.redirect # None => x.redirect # None
          /\ m.redirect = None => x.pool = m.pool
      BY <1>6, <1>7, <2>2, <3>2, Zenon
    <3> QED BY <1>1, <3>1, <3>3, SameServes, Zenon
  <2> QED BY <2>1, <2>2, Zenon
<1> QED BY <1>5, <1>7, <1>8, Zenon

\* What the builder makes serves every rule on every listener that the rule asks
\* for, but for private listeners on ports of public ones, and for the default
\* listener when it is taken over.
LEMMA OwnIngressesServed ==
    ASSUME NoneIsNoName, NoneIsNoList, NEW cb, GoodContext(cb), Covers(cb), PortsTell(cb.ports),
           NEW skipped \in SkippedListeners(cb), NEW c, Own(c, cb, getListeners(cb, skipped)),
           NEW e \in HTTPRules(cb), NEW id \in AskedListeners(cb, e), id \notin Taken(cb),
           ~ (id.private /\ id.port \in PublicPorts(DOMAIN cb.configs \cup DOMAIN cb.istioListeners))
    PROVE  \E r \in Range(c.rules) : /\ IdentifierOf(c.listeners[r.listener], c.ports) = id
                                     /\ ServesRule(cb, RoutesOf(c, r), e, id)
<1> DEFINE listeners == getListeners(cb, skipped)
           ports == FrontendPorts(cb, listeners)
           byID == listenersByID(listeners, ports)
           maps == getPathMaps(cb, c.redirects)
           own == [x \in DOMAIN cb.configs \ skipped |-> cb.configs[x]]
           all == own ++ cb.istioListeners
           n == generateListenerName(id)
<1>1. id \in DOMAIN cb.configs \ skipped
  <2>1. id \in DOMAIN cb.configs
    BY Zenon DEF Covers
  <2>2. \A x \in skipped : x.private /\ x.port \in PublicPorts(DOMAIN cb.configs \cup DOMAIN cb.istioListeners)
    BY Zenon DEF SkippedListeners, PublicPorts
  <2> QED BY <2>1, <2>2, Zenon
<1>2. n \in DOMAIN listeners /\ listeners[n] = newListener(cb, id, all[id])
  <2>1. listeners = [x \in {generateListenerName(y) : y \in DOMAIN all} |-> newListener(cb, x[2], all[x[2]])]
    BY Zenon DEF getListeners
  <2>2. id \in DOMAIN all
    BY <1>1, Zenon DEF ++
  <2>3. n[2] = id
    BY DEF generateListenerName
  <2> HIDE DEF all
  <2>4. n \in {generateListenerName(y) : y \in DOMAIN all}
    BY <2>2, Zenon
  <2> HIDE DEF n, listeners
  <2> QED BY <2>1, <2>3, <2>4, Zenon
<1> HIDE DEF all, n, listeners
<1> DEFINE l == listeners[n]
<1>3. l \in Range(listeners) /\ l.port = PortName(cb, id.port)
  <2>1. \A config : newListener(cb, id, config).port = PortName(cb, id.port)
    BY Zenon DEF newListener
  <2> QED BY <1>2, <2>1, Zenon DEF Range
<1>4. l.port \in DOMAIN ports /\ ports[l.port] = id.port
  <2>1. Numbered(cb, listeners, ports)
    BY PortsAreNumbered, Zenon
  <2> HIDE DEF l, ports
  <2> QED BY <1>1, <1>3, <2>1, Zenon DEF Numbered
<1> HIDE DEF ports, l
<1>5. IdentifierOf(l, ports) = id
  <2>1. l = newListener(cb, id, all[id])
    BY <1>2, Zenon DEF l
  <2> QED BY <1>4, <2>1, IdentifierComesBack
<1>6. id \in DOMAIN byID /\ IdentifierOf(listeners[byID[id]], ports) = id
  <2>1. byID = [x \in {IdentifierOf(y, ports) : y \in Range(listeners)} |->
                    CHOOSE y \in DOMAIN listeners : IdentifierOf(listeners[y], ports) = x]
    BY Zenon DEF listenersByID
  <2>2. id \in {IdentifierOf(y, ports) : y \in Range(listeners)}
    BY <1>3, <1>5, Zenon
  <2>3. IdentifierOf(listeners[n], ports) = id
    BY <1>5, Zenon DEF l
  <2>4. byID[id] = CHOOSE y \in DOMAIN listeners : IdentifierOf(listeners[y], ports) = id
    BY <2>1, <2>2, Zenon
  <2> QED BY <1>2, <2>1, <2>2, <2>3, <2>4, Zenon
<1>7. ServedBy(cb, maps, e, id)
  BY PathMapsServe, Zenon
<1>8. /\ c.pathMaps = PathMapsOfRules(maps, byID) /\ c.rules = getRules(maps, byID)
      /\ c.listeners = listeners /\ c.ports = ports
  BY Zenon DEF Own, ports, listeners
<1> HIDE DEF byID, maps
<1>9. PICK r \in Range(c.rules) : r.listener = byID[id] /\ ServesRule(cb, RoutesOf(c, r), e, id)
  BY <1>6, <1>7, <1>8, RuleServes, Zenon
<1> QED BY <1>6, <1>8, <1>9, Zenon

=============================================================================
