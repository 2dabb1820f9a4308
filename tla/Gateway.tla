------------------------------- MODULE Gateway --------------------------------
(***************************************************************************)
(* MutateAppGateway in full detail of the configuration it makes: pruning, *)
(* the config builder with and without Istio and a shared gateway, the     *)
(* comparison with the cache, and the PUT.  Module Controller has the      *)
(* interleavings around it and abstracts from the configuration; here one  *)
(* call is one step.                                                       *)
(*                                                                         *)
(* Setups names them: what a cluster and gateway start from and change to:  *)
(*   brownfield, istio, hasPrivateIP, waf     the environment              *)
(*   owner       the configuration of the gateway before AGIC              *)
(*   edit        what the owner may add to the gateway later               *)
(*   order       the names of the ingresses, sorted                        *)
(*   catalog     name -> the definitions the ingress may have              *)
(*   serviceStates  service -> the states it may be in                     *)
(*   secretSets, targetSets, meshes           what these may be            *)
(*   documents   JSON that the gateway may be rendered to                  *)
(* A mesh is [servers, virtualServices]; the latter is a set.              *)
(***************************************************************************)
EXTENDS RoutingConfig, IstioConfig, Brownfield

CONSTANTS Setups, MaxChanges

VARIABLES
    setup,      \* the name of the setup, constant
    spec,       \* name -> the ingress in the API server, or None
    ingresses,  \* name -> the ingress in the informer's store, or None
    services, secrets, targets, mesh,
    gw,         \* the configuration of the gateway
    cache,      \* configCache: the configuration applied last, or None
    pruneList,  \* pruneFuncList: "unset", "with" or "without" pruneProhibitedIngress
    last,       \* what the last call did, until something changes; or None
    changes     \* number of changes and lost answers so far

cluster == <<spec, ingresses, services, secrets, targets, mesh>>
vars == <<setup, cluster, gw, cache, pruneList, last, changes>>

env == Setups[setup]

-----------------------------------------------------------------------------
(* The call *)

\* ListHTTPIngresses, filterAndSort
hasHTTPRule(i) == \E r \in Range(i.rules) : r.http
ListHTTPIngresses(store) ==
    LET listed(n) == store[n] # None /\ (store[n].rules = << >> \/ hasHTTPRule(store[n]))
        names == Listed(env.order, {n \in Range(env.order) : listed(n)})
    IN  [k \in DOMAIN names |-> store[names[k]]]

\* Brownfield and Istio are switched off for this call when there is nothing
\* to do for them.
Shared == env.brownfield /\ targets # {}
WithIstio == env.istio /\ mesh.servers # {} /\ mesh.virtualServices # {}

\* PruneIngress: the first call decides which pruning functions there are.  When
\* it is not the one of MutateAKS, brownfield may be switched off.
PruneList == IF pruneList # "unset" THEN pruneList ELSE IF Shared THEN "with" ELSE "without"

\* pruneProhibitedIngress assigns to the objects of the store, and only to the
\* ones that were listed.  Without brownfield there are no targets to apply.
PrunedStore ==
    LET listed == {i.name : i \in Range(ListHTTPIngresses(ingresses))}
    IN  IF PruneList = "with" /\ Shared
        THEN [n \in DOMAIN ingresses |->
                IF n \in listed
                THEN [ingresses[n] EXCEPT !.rules = PruneIngressRules(@, targets)] ELSE ingresses[n]]
        ELSE ingresses

\* pruneNoPrivateIP, pruneRedirectWithNoTLS
PruneIngress ==
    LET listed == {i.name : i \in Range(ListHTTPIngresses(ingresses))}
        pruned == PrunedStore
        valid(n) == /\ n \in listed
                    /\ pruned[n].private => env.hasPrivateIP
                    /\ pruned[n].redirect => pruned[n].tls # << >>
        names == Listed(env.order, {n \in Range(env.order) : valid(n)})
    IN  [k \in DOMAIN names |-> pruned[names[k]]]

\* The contexts for the builder: ConfigBuilderContext, with the order of the
\* virtual services and what depends on the order of Go maps chosen.
NoIstio == [istioListeners |-> << >>, istioPathMaps |-> << >>, istioPools |-> {}, istioSettings |-> << >>]

IstioParts ==
    {[istioListeners |-> getListenerConfigsFromIstio(mesh.servers, order),
      istioPathMaps |-> getIstioPathMaps(services, order, first),
      istioPools |-> getIstioPools(services, order),
      istioSettings |-> getIstioSettings(services, order)] :
        order \in Orders(mesh.virtualServices),
        first \in LET names == DOMAIN getIstioSettings(services, AnOrder(mesh.virtualServices))
                  IN  IF names = {} THEN {None} ELSE names}

\* getAppGw and pruning: what the builder is given before a Go map is read.
Prepared ==
    LET base == [ingresses |-> PruneIngress, secrets |-> secrets, services |-> services,
                 ports |-> gw.ports, waf |-> env.waf]
        walked(cb) == cb ++ [walk |-> Walk(cb.ingresses)]
        prepared(cb) == cb ++ [backends |-> newBackendIdsFiltered(cb), configs |-> getListenerConfigs(cb)]
    IN  prepared(walked(base))

\* A default backend that shares the name of its settings with a path's backend
\* may come after it in the loop over the backends.
MayBeLate(cb) ==
    {b \in cb.backends : b[2] = 0 /\
        \E c \in cb.backends \ {b} : c[1] = b[1] /\ ServiceOfBackend(cb, c) = ServiceOfBackend(cb, b)}

ContextsOn(cb) ==
    {cb ++ x[1] ++ [resolved |-> x[2], late |-> x[3]] :
        x \in (IF WithIstio THEN IstioParts ELSE {NoIstio}) \X ResolvedBackends(cb) \X SUBSET MayBeLate(cb)}

Contexts == ContextsOn(Prepared)

\* Listeners, with the listeners of the owner when the gateway is shared.
Listeners(cb) ==
    LET kept == Restrict(gw.listeners, GetBlacklistedListeners(gw, targets))
        made == {getListeners(cb, skipped) : skipped \in SkippedListeners(cb)}
    IN  IF Shared THEN UNION {MergeListeners(kept, m) : m \in made} ELSE made

KeptOnly(c, part, names) == IF Shared THEN Restrict(c[part], names) ELSE << >>

\* RequestRoutingRules, given the listeners.  Kept path maps and redirects are
\* told from the listeners that were just made and the old rules; kept rules
\* from the listeners and path maps that were just made.
KeptPathMaps(during) == KeptOnly(gw, "pathMaps", GetBlacklistedPathMaps(during, targets))

KeptRoutingRules(during, pathMaps) ==
    KeptOnly(gw, "rules", GetBlacklistedRoutingRules([during EXCEPT !.pathMaps = pathMaps], targets))

Panicked == [rules |-> << >>, pathMaps |-> << >>, panics |-> TRUE]

Merged(kept, managed, pathMaps, ord) ==
    IF LookupFails(kept, managed, pathMaps) THEN Panicked
    ELSE MergeRules(kept, managed, pathMaps, ord) ++ [panics |-> FALSE]

MergedWithKept(during, managed, pathMaps, ord) ==
    Merged(KeptRoutingRules(during, pathMaps), managed, pathMaps, ord)

MergedPathMaps(maps, byID, during, ord) ==
    MergePathMaps(KeptPathMaps(during), PathMapsOfRules(maps, byID), ord)

RulesAndPathMaps(maps, byID, during, ord) ==
    MergedWithKept(during, getRules(maps, byID), MergedPathMaps(maps, byID, during, ord), ord)

\* Whether the merge passes a path map without an ID.  The kept ones have IDs.
PassesNoID(noID, maps, byID, during, ord) ==
    NilIDs(KeptRoutingRules(during, MergedPathMaps(maps, byID, during, ord)), getRules(maps, byID),
           (noID \cap DOMAIN PathMapsOfRules(maps, byID)) \ DOMAIN KeptPathMaps(during))

\* The orders in which merged path rules may be listed (one for all path maps).
PathRuleOrders(maps) ==
    LET listed(all) == UNION {{r.name : r \in Range(m.rules)} : m \in Range(all)}
        names == listed(gw.pathMaps) \cup listed(maps)
    IN  IF Shared THEN {ord \in [1..Cardinality(names) -> names] : Range(ord) = names} ELSE {<< >>}

Routing(noID, maps, byID, during, redirects) ==
    UNION {{(IF nil THEN Panicked ELSE RulesAndPathMaps(maps, byID, during, ord)) ++ [redirects |-> redirects] :
                nil \in PassesNoID(noID, maps, byID, during, ord)} : ord \in PathRuleOrders(maps)}

RoutingOn(cb, byID, during, redirects) ==
    Routing(WithoutID(cb), getPathMaps(cb, redirects), byID, during, redirects)

RequestRoutingRules(cb, byID, during) ==
    RoutingOn(cb, byID, during,
              getRedirectConfigurations(cb, byID)
                  ++ KeptOnly(gw, "redirects", GetBlacklistedRedirects(during, targets)))

\* Build: the parts in the order in which the code makes them.
Built(cb, listeners, ports, routing) ==
    [error |-> IF \E b \in cb.resolved : cb.services[ServiceOfBackend(cb, b)] = "several"
               THEN "settings" ELSE IF routing.panics THEN "panic" ELSE "none",
     cb |-> cb,
     config |->
        [probes |-> newProbesMap(cb) \cup (IF Shared THEN GetBlacklistedProbes(gw, targets) ELSE {}),
         settings |-> BackendHTTPSettings(cb)
                      ++ KeptOnly(gw, "settings", GetBlacklistedHTTPSettings(gw, targets)),
         pools |-> getPools(cb) \cup (IF Shared THEN GetBlacklistedPools(gw, targets) ELSE {}),
         certs |-> getSslCertificates(cb) \cup (IF Shared THEN gw.certs ELSE {}),
         ports |-> ports, listeners |-> listeners, redirects |-> routing.redirects,
         pathMaps |-> routing.pathMaps, rules |-> routing.rules,
         doubled |-> IF Shared THEN {} ELSE DoubledListeners(cb)]]

BuiltOn(cb, listeners, ports) ==
    {Built(cb, listeners, ports, routing) :
        routing \in RequestRoutingRules(cb, listenersByID(listeners, ports), [gw EXCEPT !.listeners = listeners])}

Builds ==
    UNION {UNION {BuiltOn(cb, listeners, FrontendPorts(cb, listeners)) : listeners \in Listeners(cb)} :
            cb \in Contexts}

\* The gateway refuses a configuration in which a reference leads nowhere, or
\* with two listeners for the same host names, port and IP.
Accepts(c) ==
    /\ AllButPathMapsResolve(c) /\ PathMapsNamed(c) \subseteq DOMAIN c.pathMaps
    /\ c.doubled = {}
    /\ \A l, k \in DOMAIN c.listeners : l # k =>
            IdentifierOf(c.listeners[l], c.ports) # IdentifierOf(c.listeners[k], c.ports)

\* What the setups are like.  Prohibited targets are only watched on a shared
\* gateway.
ASSUME SetupsAreWellFormed ==
    \A k \in DOMAIN Setups : LET e == Setups[k] IN
        /\ IsSeq(e.order) /\ Range(e.order) \subseteq DOMAIN e.catalog
        /\ \A n \in DOMAIN e.catalog : \A i \in e.catalog[n] : i.name = n /\ WellFormedIngress(i)
        /\ \A m \in e.meshes : IsFiniteSet(m.virtualServices)
        /\ e.brownfield \/ e.targetSets \subseteq {{}}
        /\ WellFormed(e.owner) /\ WellFormed(e.edit) /\ Accepts(e.owner)

\* What some results ask of the setups besides.  Path maps have path rules.
MapsHaveRules(c) == \A m \in DOMAIN c.pathMaps : c.pathMaps[m].rules # << >>

\* A target that prohibits a host without a path prohibits all of the host.
PlainTargets(some) ==
    \A t \in some : \A p \in t.paths : contains(p, <<"">>) => p \in {<<"">>, <<"*">>, <<"", "*">>}

\* The owner's names are not AGIC's, a listener that is there from the start and
\* added later has the same host names, and a path map has one rule.
OwnerApart(e) ==
    LET parts == {e.owner, e.edit} IN
    /\ \A c \in parts :
        /\ \A l \in DOMAIN c.listeners : l[1] # "fl"
        /\ \A r \in DOMAIN c.rules :
            r[1] # "rr" /\ (c.rules[r].pathMap # None => c.rules[r].pathMap[1] # "url")
    /\ \A c, d \in parts :
        /\ \A l \in DOMAIN c.listeners \cap DOMAIN d.listeners :
            c.listeners[l].host = d.listeners[l].host /\ c.listeners[l].hosts = d.listeners[l].hosts
        /\ \A r \in DOMAIN c.rules : \A k \in DOMAIN d.rules :
            c.rules[r].pathMap = d.rules[k].pathMap => c.rules[r].pathMap = None \/ r = k

\* The annotation for more host names, which pruning does not look at, names no
\* host of a target.
HostsApart(e) ==
    /\ \A some \in e.targetSets : \A t \in some : t.host # None
    /\ \A n \in DOMAIN e.catalog : \A i \in e.catalog[n] :
        IsSeq(i.extended) /\ \A some \in e.targetSets : \A t \in some : t.host \notin Range(i.extended)

MapsAreUsed == \A k \in DOMAIN Setups : MapsHaveRules(Setups[k].owner) /\ MapsHaveRules(Setups[k].edit)
TargetsArePlain == \A k \in DOMAIN Setups : \A some \in Setups[k].targetSets : PlainTargets(some)
OwnersAreApart == \A k \in DOMAIN Setups : OwnerApart(Setups[k]) /\ HostsApart(Setups[k])

Done(out, outcome) ==
    last' = [outcome |-> outcome, config |-> out.config, cb |-> out.cb, before |-> gw, targets |-> targets]

\* What every call does before it builds.  The gateways of the setups have the
\* frontend addresses that FatalValidateOnExistingConfig asks for; module
\* Controller has the calls that end there.
Prune ==
    /\ ingresses' = PrunedStore
    /\ pruneList' = PruneList
    /\ UNCHANGED <<setup, spec, services, secrets, targets, mesh>>

\* A build that fails leaves the gateway and the cache alone.
MutateFails(out) ==
    /\ out.error = "settings"
    /\ Done(out, "settings")
    /\ UNCHANGED <<gw, cache, changes>>

\* A build that panics ends the process, as nothing recovers; the next one fills
\* its stores from the API server.
MutatePanics(out) ==
    /\ out.error = "panic"
    /\ Done(out, "panic")
    /\ ingresses' = spec
    /\ cache' = None /\ pruneList' = "unset"
    /\ UNCHANGED <<setup, spec, services, secrets, targets, mesh, gw, changes>>

\* configIsSame
MutateSkips(out) ==
    /\ out.error = "none" /\ out.config = cache
    /\ Done(out, "same")
    /\ UNCHANGED <<gw, cache, changes>>

\* UpdateGateway succeeds, updateCache.
MutatePuts(out) ==
    /\ out.error = "none" /\ out.config # cache /\ Accepts(out.config)
    /\ gw' = out.config /\ cache' = out.config
    /\ Done(out, "put")
    /\ UNCHANGED changes

\* UpdateGateway fails: the gateway refuses the configuration, or applies it
\* although the call reports an error, which counts as a change.  The cache that
\* is reset is the pointer in the copy of the controller that the call was given.
MutatePutFails(out) ==
    /\ out.error = "none" /\ out.config # cache
    /\ \/ UNCHANGED <<gw, changes>>
       \/ /\ Accepts(out.config) /\ gw' = out.config
          /\ changes < MaxChanges /\ changes' = changes + 1
    /\ Done(out, "failed")
    /\ UNCHANGED cache

\* MutateAppGateway
MutateAppGateway ==
    \E out \in Builds :
        \/ Prune /\ (MutateFails(out) \/ MutateSkips(out) \/ MutatePuts(out) \/ MutatePutFails(out))
        \/ MutatePanics(out)

\* MutateAKS comes before MutateAppGateway and prunes too, with the setting of
\* the environment and with no targets.  All that is left of this is the list
\* of pruning functions, or nothing when GetGateway fails.  The status of
\* ingresses is not represented here.
MutateAKS ==
    /\ pruneList = "unset"
    /\ pruneList' = IF env.brownfield THEN "with" ELSE "without"
    /\ UNCHANGED <<setup, cluster, gw, cache, last, changes>>

-----------------------------------------------------------------------------
(* Everything else *)

Change ==
    /\ changes < MaxChanges
    /\ changes' = changes + 1
    /\ last' = None
    /\ UNCHANGED <<setup, cache, pruneList>>

ChangeIngress ==
    \E n \in DOMAIN spec : \E i \in (env.catalog[n] \cup {None}) \ {spec[n]} :
        /\ Change
        /\ spec' = [spec EXCEPT ![n] = i]
        /\ ingresses' = [ingresses EXCEPT ![n] = i]
        /\ UNCHANGED <<services, secrets, targets, mesh, gw>>

ChangeService ==
    \E s \in DOMAIN services : \E state \in env.serviceStates[s] \ {services[s]} :
        /\ Change
        /\ services' = [services EXCEPT ![s] = state]
        /\ UNCHANGED <<spec, ingresses, secrets, targets, mesh, gw>>

ChangeSecrets ==
    \E some \in env.secretSets \ {secrets} :
        /\ Change
        /\ secrets' = some
        /\ UNCHANGED <<spec, ingresses, services, targets, mesh, gw>>

ChangeTargets ==
    \E some \in env.targetSets \ {targets} :
        /\ Change
        /\ targets' = some
        /\ UNCHANGED <<spec, ingresses, services, secrets, mesh, gw>>

ChangeMesh ==
    \E some \in env.meshes \ {mesh} :
        /\ Change
        /\ mesh' = some
        /\ UNCHANGED <<spec, ingresses, services, secrets, targets, gw>>

\* The owner of a shared gateway adds to it, on the ports that there are.
OwnerPart ==
    LET name(l) == PortName([ports |-> gw.ports], env.edit.ports[l.port])
        edited == env.edit.listeners
    IN  [env.edit EXCEPT
            !.listeners = [l \in DOMAIN edited |-> [edited[l] EXCEPT !.port = name(edited[l])]],
            !.ports = [p \in {name(l) : l \in Range(edited)} |->
                        env.edit.ports[(CHOOSE l \in Range(edited) : name(l) = p).port]]]

Overlay(c, part) == [x \in DOMAIN c |-> IF x \in {"probes", "pools", "certs", "doubled"}
                                        THEN c[x] \cup part[x] ELSE part[x] ++ c[x]]
OwnerEdits ==
    /\ Overlay(gw, OwnerPart) # gw /\ Accepts(Overlay(gw, OwnerPart))
    /\ Change
    /\ gw' = Overlay(gw, OwnerPart)
    /\ UNCHANGED cluster

\* The pod restarts: the store is filled again from the API server.
Restart ==
    /\ cache # None \/ pruneList # "unset"
    /\ changes < MaxChanges /\ changes' = changes + 1
    /\ ingresses' = spec
    /\ cache' = None /\ pruneList' = "unset" /\ last' = None
    /\ UNCHANGED <<setup, spec, services, secrets, targets, mesh, gw>>

Init ==
    /\ setup \in DOMAIN Setups
    /\ spec \in {f \in [DOMAIN env.catalog -> (UNION Range(env.catalog)) \cup {None}] :
                    \A n \in DOMAIN f : f[n] \in env.catalog[n] \cup {None}}
    /\ ingresses = spec
    /\ services = [s \in DOMAIN env.serviceStates |-> "full"]
    /\ secrets \in env.secretSets /\ targets \in env.targetSets /\ mesh \in env.meshes
    /\ gw = env.owner
    /\ cache = None /\ pruneList = "unset" /\ last = None /\ changes = 0

Next == \/ MutateAKS \/ MutateAppGateway
        \/ ChangeIngress \/ ChangeService \/ ChangeSecrets \/ ChangeTargets \/ ChangeMesh
        \/ OwnerEdits \/ Restart

Spec == Init /\ [][Next]_vars

-----------------------------------------------------------------------------
(* Properties.  A call that made a configuration is one whose outcome is     *)
(* neither "settings" nor "panic".                                           *)

Made == last # None /\ last.outcome \notin {"settings", "panic"}

\* Where a kept and a managed rule meet, mergeRoutingRules finds the path maps of
\* both, although kept rules and kept path maps are told from different things at
\* different times.  The one way for a build to panic is over a path map that has no
\* ID: noRulesIngress made it for the default listener, of an ingress without rules,
\* other ingresses added paths to it, and some listener has a kept rule too.
OnlyMissingIDsPanic ==
    last # None /\ last.outcome = "panic" => last.targets # {} /\ WithoutID(last.cb) # {}

\* Path maps of the rules that AGIC made for hosts of which a target now prohibits
\* something, and those of them that route to a prohibited path.
OwnExposed ==
    {last.before.rules[r].pathMap : r \in
        {x \in Reachable(last.before) : x[1] = "rr" /\
            \E t \in last.targets : t.host \in {"", HostOfRule(last.before, x)}}}
OwnKept == {m \in GetBlacklistedPathMaps(last.before, last.targets) : m[1] = "url"}

\* Everything that refers to something in a generated configuration finds it,
\* through all the parts the builder makes one after the other and merges with
\* an existing gateway.
\* Three exceptions: the pool that noRulesIngress names without asking whether it
\* exists; a path map of AGIC's own that deletePathMap removed because the rule that
\* uses it was both kept, for a prohibited path that it routed or now would route,
\* and managed; and the listener that a kept redirect leads to, which is not kept
\* for that: it stays only if it is kept for itself or AGIC makes it.
LooseRedirects ==
    {n \in GetBlacklistedRedirects(last.before, last.targets) :
        last.before.redirects[n] \notin GetBlacklistedListeners(last.before, last.targets)}
RefsResolve ==
    LET c == last.config
        named == {generateAddressPoolName(i.backend) :
                    i \in {x \in Range(last.cb.ingresses) : x.rules = << >> /\ x.backend # None}}
        leading == Restrict(c.redirects, DOMAIN c.redirects \ LooseRedirects)
    IN  Made => /\ AllButRoutingResolves([c EXCEPT !.pools = @ \cup named])
                /\ ListenersNamed([c EXCEPT !.redirects = leading]) \subseteq DOMAIN c.listeners
                /\ PathMapsNamed(c) \subseteq DOMAIN c.pathMaps \cup OwnExposed

\* What an ingress that survives pruning asks for is what the gateway gets, when
\* AGIC owns the gateway, with or without Istio: for each of its listeners there
\* is a rule, which sends every path whose backend was resolved to the pool and
\* settings of that backend or to a redirect, whatever other ingresses share the
\* listener; and the default goes to a backend that some ingress names there.
\* Exceptions: a private listener on the port of a public one, and the default
\* listener once an ingress without rules takes it.
IngressesServed ==
    LET c == last.config
        cb == last.cb
        given == {i \in Range(cb.ingresses) : i.rules = << >> /\ i.backend # None}
        rulesOn(id) == {r \in Range(c.rules) : IdentifierOf(c.listeners[r.listener], c.ports) = id}
        routes(r) == IF r.pathMap = None THEN r ++ [rules |-> << >>] ELSE c.pathMaps[r.pathMap]
    IN  Made /\ last.targets = {} =>
            \A e \in HTTPRules(cb) : \A id \in AskedListeners(cb, e) :
                \/ id.private /\ id.port \in PublicPorts(DOMAIN cb.configs \cup DOMAIN cb.istioListeners)
                \/ id = defaultFrontendListenerIdentifier /\ given # {}
                \/ \E r \in rulesOn(id) : ServesRule(cb, routes(r), e, id)

\* PostBuildValidate never has anything to report: a path rule has either a
\* backend or a redirect, also after path maps were merged.
PathMapsAreValid == Made => validateURLPathMaps(last.config.pathMaps)

\* Listeners of the hosts that some targets prohibit as a whole, the rules on them
\* and their path maps are the same in two configurations.
HostsStay(old, new, some) ==
    LET whole == {t.host : t \in {x \in some : x.paths = {} \/ <<"", "*">> \in x.paths}} \ {""}
    IN  \A l \in {x \in DOMAIN old.listeners : old.listeners[x].host \in whole} :
            /\ l \in DOMAIN new.listeners /\ new.listeners[l] = old.listeners[l]
            /\ \A r \in {x \in DOMAIN old.rules : old.rules[x].listener = l} :
                /\ r \in DOMAIN new.rules /\ new.rules[r] = old.rules[r]
                /\ LET m == old.rules[r].pathMap
                   IN  m # None => /\ m \in DOMAIN new.pathMaps
                                   /\ [new.pathMaps[m] EXCEPT !.rules = Range(@)]
                                      = [old.pathMaps[m] EXCEPT !.rules = Range(@)]

\* A host that a target prohibits as a whole stays as it is: its listeners, the
\* rules on them and their path maps, once the pruning of prohibited ingresses
\* is in force, whatever AGIC makes for other hosts and whatever it made for
\* this one before.
ProhibitedHostUntouched ==
    Made /\ pruneList = "with" => HostsStay(last.before, last.config, last.targets)

\* A path rule of the owner that a target prohibits goes on serving its path on
\* its listener, unchanged, however often the rules of ingresses are merged into
\* its path map, and whether or not prohibited ingresses are pruned.
ProhibitedPathsUntouched ==
    LET old == last.before
        new == last.config
        mapsOn(c, l) == {r.pathMap : r \in {x \in Range(c.rules) : x.listener = l}} \cap DOMAIN c.pathMaps
        routed(c, l) == UNION {Range(c.pathMaps[m].rules) : m \in mapsOn(c, l)}
    IN  Made => \A r \in Reachable(old) :
            {p \in routed(old, old.rules[r].listener) :
                p.name[1] # "pr" /\ IsBlacklisted(HostOfRule(old, r), p.path, last.targets)}
            \subseteq routed(new, old.rules[r].listener)

\* Building again from what was applied gives what was applied, when nothing
\* changed, every backend is resolved and no choice is left to the order of a Go
\* map: otherwise every event would cost a deployment of the gateway.  On a shared
\* gateway the pruning of prohibited ingresses must be in force, and what is kept
\* must be the owner's: a path map that AGIC made and must keep is merged with the
\* one it makes now, and one of them is lost.  Not compared are the order of merged
\* path rules, and what nothing refers to: the owner's pool and settings stay for
\* one more deployment when the default of their path map was replaced.
InUse(c) ==
    LET settings == Restrict(c.settings, SettingsNamed(c) \cap DOMAIN c.settings)
    IN  [c EXCEPT !.pools = @ \cap PoolsNamed(c), !.settings = settings, !.probes = @ \cap Range(settings),
            !.pathMaps = [m \in DOMAIN c.pathMaps |-> [c.pathMaps[m] EXCEPT !.rules = [of |-> Range(@), length |-> Len(@)]]]]
Determined(cb) ==
    /\ \A b \in cb.backends : cb.services[ServiceOfBackend(cb, b)] # "unresolved"
    /\ Cardinality(SkippedListeners(cb)) = 1
    /\ cb.late = {}
    /\ \A i \in Range(cb.ingresses) : i.extended = << >>
Settled == /\ last # None /\ last.outcome = "put" /\ Determined(last.cb)
           /\ last.targets # {} => pruneList = "with" /\ OwnKept = {}
Settles ==
    [][Settled /\ last' # None /\ last'.cb.late = {} => InUse(last'.config) = InUse(gw)]_vars

\* With a target that prohibits every host and path AGIC leaves the routing of
\* the gateway alone.
ProhibitAllChangesNothing ==
    Made /\ (\E t \in last.targets : t.host = "" /\ <<"", "*">> \in t.paths) =>
        /\ \A r \in DOMAIN last.before.rules :
            r \in DOMAIN last.config.rules /\ last.config.rules[r] = last.before.rules[r]
        /\ \A m \in DOMAIN last.before.pathMaps :
            m \in DOMAIN last.config.pathMaps /\ last.config.pathMaps[m] = last.before.pathMaps[m]

\* The builder is given every path that no target prohibits (any more).
UnprohibitedIsBuilt ==
    Made => \A n \in DOMAIN spec \ {x \in DOMAIN spec : spec[x] = None} :
        \A r \in Range(spec[n].rules) : \A p \in Range(r.paths) :
            \/ ~ r.http \/ IsBlacklisted(r.host, p.path, last.targets)
            \/ spec[n].private \/ spec[n].redirect
            \/ \E i \in Range(last.cb.ingresses) : i.name = n /\
                \E q \in Range(i.rules) : q.host = r.host /\ p \in Range(q.paths)
=============================================================================
