------------------------------ MODULE Brownfield ------------------------------
(***************************************************************************)
(* Sharing a gateway with its owner (pkg/brownfield): which existing       *)
(* resources the prohibited targets tell AGIC to keep, and how these are   *)
(* merged with the ones it makes.                                          *)
(*                                                                         *)
(* A prohibited target is [host, paths], with host "" for every host and   *)
(* no paths for every path.  Wildcards are whole chunks of a path.         *)
(***************************************************************************)
EXTENDS AppGwResources

\* TargetPath.contains.  Lengths are counted in chunks, which makes no difference
\* for stars at the end of a path.
TrimRight(p) ==
    LET solid == {k \in DOMAIN p : p[k] \notin {"", "*"}}
    IN  IF solid = {} THEN << >> ELSE SubSeq(p, 1, Max(solid))

contains(p, q) ==
    \/ p \in {<<"">>, <<"*">>, <<"", "*">>}
    \/ IF p[Len(p)] # "*" THEN p = q
       ELSE \/ TrimRight(p) = TrimRight(q)
            \/ /\ Len(q) >= Len(p)
               /\ LET star == Min({k \in DOMAIN p : p[k] = "*"})
                  IN  \A k \in 1..(star - 1) : p[k] = q[k]

\* Mutant of GetTargetBlacklist: a target without paths prohibits nothing.
GetTargetBlacklist_PathsOnly(targets) ==
    UNION {{[host |-> t.host, path |-> p] : p \in t.paths} : t \in targets}

\* GetTargetBlacklist
GetTargetBlacklist(targets) ==
    UNION {{[host |-> t.host, path |-> p] : p \in (IF t.paths = {} THEN {<<"">>} ELSE t.paths)} :
            t \in targets}

\* Target.IsBlacklisted
IsBlacklisted(host, path, targets) ==
    \E b \in GetTargetBlacklist(targets) :
        b.host \in {"", host} /\ (path = b.path \/ contains(b.path, path))

\* PruneIngressRules: a rule keeps the paths that are not prohibited, and goes
\* with its last path.  One that has no paths goes if its host is prohibited.
PruneIngressRules(rules, targets) ==
    LET pruned == [k \in DOMAIN rules |->
            [rules[k] EXCEPT !.paths =
                Listed(@, {p \in Range(@) : ~ IsBlacklisted(rules[k].host, p.path, targets)})]]
        stays(k) == rules[k].http /\ IF rules[k].paths = << >>
                                     THEN ~ IsBlacklisted(rules[k].host, <<"">>, targets)
                                     ELSE pruned[k].paths # << >>
        order == Listed([k \in DOMAIN rules |-> k], {k \in DOMAIN rules : stays(k)})
    IN  IF targets = {} THEN rules ELSE [j \in DOMAIN order |-> pruned[order[j]]]

-----------------------------------------------------------------------------
(* What is kept of an existing configuration c. *)

\* getHostNameForRoutingRule, getRuleToTargets: a rule stands for its host with
\* no path, and for the paths of its path map.
PathsOfRule(c, r) ==
    IF c.rules[r].pathMap \in DOMAIN c.pathMaps
    THEN {p.path : p \in Range(c.pathMaps[c.rules[r].pathMap].rules)} ELSE {}

HostOfRule(c, r) ==
    LET host == c.listeners[c.rules[r].listener].host IN IF host = None THEN "" ELSE host

Reachable(c) == {r \in DOMAIN c.rules : c.rules[r].listener \in DOMAIN c.listeners}

\* GetBlacklistedRoutingRules
GetBlacklistedRoutingRules(c, targets) ==
    {r \in Reachable(c) :
        \E p \in {<<"">>} \cup PathsOfRule(c, r) : IsBlacklisted(HostOfRule(c, r), p, targets)}

\* Mutant of GetBlacklistedPathMaps: targets without paths are passed over.
GetBlacklistedPathMaps_NamedPaths(c, targets) ==
    {c.rules[r].pathMap : r \in
        {x \in Reachable(c) : \E p \in PathsOfRule(c, x) :
            IsBlacklisted(HostOfRule(c, x), p, {t \in targets : t.paths # {}})}}

\* GetBlacklistedPathMaps: only the paths count, not the default.
GetBlacklistedPathMaps(c, targets) ==
    {c.rules[r].pathMap : r \in
        {x \in Reachable(c) : \E p \in PathsOfRule(c, x) : IsBlacklisted(HostOfRule(c, x), p, targets)}}

\* The rules, path maps and path rules that are kept.
KeptRoutes(c, targets) ==
    LET maps == {c.pathMaps[m] : m \in GetBlacklistedPathMaps(c, targets)}
    IN  {c.rules[r] : r \in GetBlacklistedRoutingRules(c, targets)}
            \cup maps \cup UNION {Range(m.rules) : m \in maps}

\* GetBlacklistedPools
GetBlacklistedPools(c, targets) == {r.pool : r \in KeptRoutes(c, targets)} \cap c.pools

\* Mutant of GetBlacklistedHTTPSettings: path maps are not followed.
GetBlacklistedHTTPSettings_RulesOnly(c, targets) ==
    {c.rules[r].settings : r \in GetBlacklistedRoutingRules(c, targets)} \cap DOMAIN c.settings

\* GetBlacklistedHTTPSettings: asks for the pool, and then takes the settings, which
\* every route of a gateway to a pool has.
GetBlacklistedHTTPSettings(c, targets) ==
    {r.settings : r \in {x \in KeptRoutes(c, targets) : x.pool # None}} \cap DOMAIN c.settings

\* GetBlacklistedProbes
GetBlacklistedProbes(c, targets) ==
    {c.settings[s] : s \in GetBlacklistedHTTPSettings(c, targets)} \cap c.probes

\* GetBlacklistedRedirects
GetBlacklistedRedirects(c, targets) ==
    {r.redirect : r \in KeptRoutes(c, targets)} \cap DOMAIN c.redirects

\* GetBlacklistedListeners: by a host name of the targets, or by a kept rule.
GetBlacklistedListeners(c, targets) ==
    {l \in DOMAIN c.listeners : c.listeners[l].host \in {t.host : t \in targets} \ {""}}
    \cup {c.rules[r].listener : r \in GetBlacklistedRoutingRules(c, targets)}

-----------------------------------------------------------------------------
(* Merging: what is kept, and what AGIC makes. *)

\* MergeListeners: the first listener for a host name, protocol, port and IP
\* stays.  Host names in Hostnames do not count, so that several managed
\* listeners may compete; which of them is first depends on a Go map.
MergeListeners(kept, managed) ==
    LET key(l) == <<l.https, l.port, l.private, IF l.host = None THEN "" ELSE l.host>>
        first == {n \in DOMAIN kept :
                    n = CHOOSE m \in DOMAIN kept : key(kept[m]) = key(kept[n])}
        free == {n \in DOMAIN managed : \A m \in first : key(kept[m]) # key(managed[n])}
        winners == {w \in SUBSET free :
                        \A n \in free : Cardinality({m \in w : key(managed[m]) = key(managed[n])}) = 1}
    IN  {Restrict(kept, first) ++ Restrict(managed, w) : w \in winners}

\* Mutants of mergePathRules: the new rules replace the old ones; the rules are appended.
mergePathRules_Replace(first, second, ord) == second
mergePathRules_Append(first, second, ord) == first \o second

\* mergePathRules: by name, the second list wins.  The result is listed in the
\* order of a Go map: ord ranks the names.
mergePathRules(first, second, ord) ==
    LET names(s) == {r.name : r \in Range(s)}
        last(s, n) == s[Max({k \in DOMAIN s : s[k].name = n})]
        order == Listed(ord, names(first) \cup names(second))
    IN  [k \in DOMAIN order |->
            IF order[k] \in names(second) THEN last(second, order[k]) ELSE last(first, order[k])]

\* MergePathMaps: a managed path map adds its path rules to the kept one of the
\* same name.
MergePathMaps(kept, managed, ord) ==
    [m \in DOMAIN kept \cap DOMAIN managed |->
        [kept[m] EXCEPT !.rules = mergePathRules(@, managed[m].rules, ord)]]
    ++ kept ++ managed

\* MergeRules, mergeRoutingRules: where a kept rule k and a managed rule m have
\* the same listener,
\*   both basic               k stays
\*   k path-based, m basic    k stays, its path map gets the default of m
\*   k basic, m path-based    m stays, its path map gets the default of k
\*   both path-based          k stays, its path map gets the path rules of m,
\*                            and then the path map of m is deleted
\* The result is the pair of rules and path maps.
MergeRules(kept, managed, maps, ord) ==
    LET isPath(r) == r.pathMap # None
        shared == {s \in (DOMAIN kept) \X (DOMAIN managed) :
                        kept[s[1]].listener = managed[s[2]].listener}
        both == {s \in shared : isPath(kept[s[1]]) /\ isPath(managed[s[2]])}
        replaced == {s \in shared : ~ isPath(kept[s[1]]) /\ isPath(managed[s[2]])}
        defaults == {[map |-> kept[s[1]].pathMap, from |-> managed[s[2]]] :
                        s \in {x \in shared : isPath(kept[x[1]]) /\ ~ isPath(managed[x[2]])}}
                    \cup {[map |-> managed[s[2]].pathMap, from |-> kept[s[1]]] : s \in replaced}
        withDefault(m) ==
            LET d == CHOOSE x \in defaults : x.map = m
            IN  IF \A x \in defaults : x.map # m THEN maps[m]
                ELSE [maps[m] EXCEPT !.pool = d.from.pool, !.settings = d.from.settings,
                                     !.redirect = d.from.redirect]
        withRules(m) ==
            LET s == CHOOSE x \in both : kept[x[1]].pathMap = m
            IN  IF \A x \in both : kept[x[1]].pathMap # m THEN withDefault(m)
                ELSE [withDefault(m) EXCEPT !.rules =
                        mergePathRules(@, maps[managed[s[2]].pathMap].rules, ord)]
    IN  [rules |-> Restrict(managed, {m \in DOMAIN managed : \A s \in shared \ replaced : s[2] # m})
                   ++ Restrict(kept, {k \in DOMAIN kept : \A s \in replaced : s[1] # k}),
         pathMaps |-> [m \in DOMAIN maps \ {managed[s[2]].pathMap : s \in both} |-> withRules(m)]]

\* lookupPathMap returns nil for a path map that is not there, and the callers
\* use what it returns.
LookupFails(kept, managed, maps) ==
    \E k \in DOMAIN kept : \E m \in DOMAIN managed :
        /\ kept[k].listener = managed[m].listener
        /\ \/ kept[k].pathMap # None /\ kept[k].pathMap \notin DOMAIN maps
           \/ managed[m].pathMap # None /\ managed[m].pathMap \notin DOMAIN maps

\* lookupPathMap and deletePathMap dereference the ID of each path map they pass,
\* and those in noID have none.  A lookup passes the path maps up to the one it
\* finds, sorted by name; names have no order here, so that it may or may not pass
\* another one.  deletePathMap, where both rules are path-based, passes all.
NilIDs(kept, managed, noID) ==
    LET shared == {s \in (DOMAIN kept) \X (DOMAIN managed) :
                        kept[s[1]].listener = managed[s[2]].listener}
        used(s) == {kept[s[1]].pathMap, managed[s[2]].pathMap}
        may == noID # {} /\ \E s \in shared : used(s) # {None}
        must == noID # {} /\ \E s \in shared : None \notin used(s) \/ used(s) \cap noID # {}
    IN  {nil \in BOOLEAN : (must => nil) /\ (nil => may)}
=============================================================================
