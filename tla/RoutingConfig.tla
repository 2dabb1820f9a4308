---------------------------- MODULE RoutingConfig -----------------------------
(***************************************************************************)
(* The part of the config builder (pkg/appgw) that makes certificates,     *)
(* frontend ports, listeners, redirects, path maps and routing rules out   *)
(* of the pruned list of ingresses.                                        *)
(*                                                                         *)
(* The operators take the builder's context cb, a record:                  *)
(*   ingresses  the sequence of ingresses, sorted as the stores list them; *)
(*              an ingress is [name, rules, backend, tls, redirect,        *)
(*              private, extended, waf] with rules a sequence of           *)
(*              [host, http, paths] and paths one of [path, service]       *)
(*   secrets    the secrets that hold a usable certificate                 *)
(*   services   service -> "full", "empty" (no endpoints offer the port),  *)
(*              "absent", "unresolved" (no backend port is found) or       *)
(*              "several" (more than one is found)                         *)
(*   resolved   the backends for which a backend port was found            *)
(*   late       the default backends that a loop over a Go map meets after *)
(*              the paths of their ingress                                 *)
(*   ports      the frontend ports of the gateway as it is                 *)
(*   waf        AttachWAFPolicyToListener                                  *)
(*   walk, backends, configs                                               *)
(*              what Walk, newBackendIdsFiltered and getListenerConfigs    *)
(*              make of these, once for each call                          *)
(*   istioListeners, istioPathMaps, istioPools, istioSettings              *)
(*              what module IstioConfig makes, empty without Istio         *)
(* A backend is <<ingress, rule, path>>, the default backend of an ingress *)
(* <<ingress, 0, 0>> (in the code: pointers into the ingress).             *)
(***************************************************************************)
EXTENDS AppGwResources

\* generateListenerID
generateListenerID(i, rule, port) ==
    ListenerID(port, i.private,
               (IF rule.host = "" THEN << >> ELSE <<rule.host>>) \o i.extended)

-----------------------------------------------------------------------------
(* Certificates *)

\* getSecretToCertificateMap
SecretsOf(cb, i) == {t.secret : t \in Range(i.tls)} \cap cb.secrets

\* newHostToSecretMap: a later TLS section wins, and one without host names
\* stands for every host.
SecretForHost(cb, i, host) ==
    LET matching == {k \in DOMAIN i.tls :
                        /\ i.tls[k].secret \in cb.secrets
                        /\ host \in (IF i.tls[k].hosts = {} THEN {""} ELSE i.tls[k].hosts)}
    IN  IF matching = {} THEN None ELSE i.tls[Max(matching)].secret

getCertificate(cb, i, host) ==
    IF SecretForHost(cb, i, host) # None
    THEN SecretForHost(cb, i, host) ELSE SecretForHost(cb, i, "")

getSslCertificates(cb) ==
    {secretFullName(s) : s \in UNION {SecretsOf(cb, i) : i \in Range(cb.ingresses)}}

-----------------------------------------------------------------------------
(* Listeners and ports *)

\* processIngressRule: HTTPS alone when there is a certificate; HTTP as well
\* when the ingress asks for a redirect; HTTP alone otherwise.
ListenersFor(cb, i, https, http, secret) ==
    [id \in {x \in {https} : secret # None} \cup {x \in {http} : i.redirect \/ secret = None} |->
        [https |-> id = https,
         secret |-> IF id = https THEN secret ELSE None,
         redirect |-> IF id = https /\ i.redirect
                      THEN generateSSLRedirectConfigurationName(https) ELSE None,
         waf |-> IF cb.waf THEN i.waf ELSE None]]

processIngressRule(cb, i, rule) ==
    ListenersFor(cb, i, generateListenerID(i, rule, 443), generateListenerID(i, rule, 80),
                 getCertificate(cb, i, rule.host))

\* The rules of all ingresses in the order in which the code walks them; an
\* ingress without rules appears with the number 0.
Walk(ingresses) ==
    Joined([k \in DOMAIN ingresses |->
        IF ingresses[k].rules = << >> THEN <<[ing |-> ingresses[k], no |-> 0]>>
        ELSE [r \in DOMAIN ingresses[k].rules |-> [ing |-> ingresses[k], no |-> r]]])

isHTTP(e) == e.no # 0 /\ e.ing.rules[e.no].http
HTTPRules(cb) == {e \in Range(cb.walk) : isHTTP(e)}

\* attachFirewallPolicy for the default listener: the first policy there is.
DefaultPolicy(cb) ==
    LET with == {k \in DOMAIN cb.ingresses : cb.ingresses[k].waf # None}
    IN  IF cb.waf /\ with # {} THEN cb.ingresses[Min(with)].waf ELSE None

\* getListenerConfigs, getListenersFromIngress: the last ingress and rule that
\* asks for a listener configures it; without any there is a default one.
getListenerConfigs(cb) ==
    LET asked(n) == IF isHTTP(cb.walk[n])
                    THEN processIngressRule(cb, cb.walk[n].ing, cb.walk[n].ing.rules[cb.walk[n].no]) ELSE << >>
        asking(id) == {n \in DOMAIN cb.walk : id \in DOMAIN asked(n)}
        ids == UNION {DOMAIN asked(n) : n \in DOMAIN cb.walk}
    IN  IF ids # {} THEN [id \in ids |-> asked(Max(asking(id)))[id]]
        ELSE Only(defaultFrontendListenerIdentifier,
                  [https |-> FALSE, secret |-> None, redirect |-> None, waf |-> DefaultPolicy(cb)])

\* The gateway's port with this number, or a new one.
PortName(cb, number) ==
    LET existing == {p \in DOMAIN cb.ports : cb.ports[p] = number}
    IN  IF existing = {} THEN generateFrontendPortName(number) ELSE CHOOSE p \in existing : TRUE

\* newListener: one host name goes to HostName, several to Hostnames.
newListener(cb, id, config) ==
    [port |-> PortName(cb, id.port),
     private |-> id.private,
     host |-> IF Len(id.hosts) = 1 THEN id.hosts[1] ELSE None,
     hosts |-> IF Len(id.hosts) > 1 THEN id.hosts ELSE None,
     https |-> config.https,
     cert |-> IF config.https THEN secretFullName(config.secret) ELSE None,
     waf |-> config.waf]

\* The public listeners are known to occupy their ports once they are met.
PublicPorts(ids) == {id.port : id \in {x \in ids : ~ x.private}}

\* The loop of getListeners ranges over a Go map.  It drops a private listener
\* that it meets after a public one on the same port: any of these, and all of
\* those on the ports that the Istio listeners took before the loop.
SkippedListeners(cb) ==
    LET private == {id \in DOMAIN cb.configs : id.private}
        after == {id \in private : id.port \in PublicPorts(DOMAIN cb.istioListeners)}
        contended == {id \in private : id.port \in PublicPorts(DOMAIN cb.configs)}
    IN  {after \cup s : s \in SUBSET (contended \ after)}

\* The managed listeners by name.
getListeners(cb, skipped) ==
    LET all == [id \in DOMAIN cb.configs \ skipped |-> cb.configs[id]] ++ cb.istioListeners
    IN  [n \in {generateListenerName(id) : id \in DOMAIN all} |-> newListener(cb, n[2], all[n[2]])]

\* A listener that both lists contain is in the result twice.
DoubledListeners(cb) ==
    {generateListenerName(id) : id \in DOMAIN cb.configs \cap DOMAIN cb.istioListeners}

\* The ports in use, with their numbers.  Unused ones are dropped.
FrontendPorts(cb, listeners) ==
    LET known == cb.ports ++ [p \in {generateFrontendPortName(id.port) :
                     id \in DOMAIN cb.configs \cup DOMAIN cb.istioListeners} |-> p[2]]
    IN  Restrict(known, {l.port : l \in Range(listeners)} \cap DOMAIN known)

\* groupListenersByListenerIdentifier: the identifier is computed back from the
\* listener.  Of two with the same identifier the last in the list is found; the
\* hashes in the names fix which one that is.
IdentifierOf(l, ports) ==
    ListenerID(IF l.port \in DOMAIN ports THEN ports[l.port] ELSE 0, l.private,
               IF l.hosts # None THEN l.hosts ELSE IF l.host # None THEN <<l.host>> ELSE << >>)

listenersByID(listeners, ports) ==
    [id \in {IdentifierOf(l, ports) : l \in Range(listeners)} |->
        CHOOSE n \in DOMAIN listeners : IdentifierOf(listeners[n], ports) = id]

\* getRedirectConfigurations: the redirects to HTTPS listeners.
getRedirectConfigurations(cb, byID) ==
    LET targets == {id \in DOMAIN cb.configs \cap DOMAIN byID :
                        cb.configs[id].https /\ cb.configs[id].redirect # None}
    IN  [n \in {cb.configs[id].redirect : id \in targets} |-> byID[n[2]]]

-----------------------------------------------------------------------------
(* Backends: which pool and settings a backend has *)

ServiceOf(i, r, p) == IF r = 0 THEN i.backend ELSE i.rules[r].paths[p].service

\* newBackendIdsFiltered: backends of services that do not exist stay.
newBackendIdsFiltered(cb) ==
    {<<i.name, 0, 0>> : i \in {x \in Range(cb.ingresses) : x.backend # None}}
    \cup UNION {{<<e.ing.name, e.no, p>> : p \in DOMAIN e.ing.rules[e.no].paths} : e \in HTTPRules(cb)}

ServiceOfBackend(cb, b) ==
    LET i == CHOOSE x \in Range(cb.ingresses) : x.name = b[1] IN ServiceOf(i, b[2], b[3])

\* The loop of getBackendsAndSettingsMap ranges over a Go map and ends at the
\* first backend it cannot resolve: any of the others may then be missing.
ResolvedBackends(cb) ==
    LET bad == {b \in cb.backends : cb.services[ServiceOfBackend(cb, b)] = "unresolved"}
    IN  IF bad = {} THEN {cb.backends} ELSE SUBSET (cb.backends \ bad)

\* newBackendPoolMap: the default pool when no endpoints offer the port.
PoolOf(cb, service) ==
    IF cb.services[service] = "full" THEN generateAddressPoolName(service)
    ELSE DefaultBackendAddressPoolName

\* getPools
getPools(cb) ==
    {DefaultBackendAddressPoolName} \cup {PoolOf(cb, ServiceOfBackend(cb, b)) : b \in cb.resolved}
        \cup cb.istioPools

\* generateHealthProbe: none for a default backend or a service that is gone.
ProbeOf(cb, b) ==
    IF b[2] = 0 \/ cb.services[ServiceOfBackend(cb, b)] = "absent" THEN defaultProbeName("http")
    ELSE generateProbeName(ServiceOfBackend(cb, b), b[1])

newProbesMap(cb) ==
    {defaultProbeName("http"), defaultProbeName("https")}
        \cup {ProbeOf(cb, b) : b \in cb.backends}

\* The default backend and a path of one ingress share the name of the settings
\* when they have the same service: the one the loop meets last stays.
BackendHTTPSettings(cb) ==
    LET name(b) == generateHTTPSettingsName(ServiceOfBackend(cb, b), b[1])
        stays(b) == \A c \in {x \in cb.resolved \ {b} : name(x) = name(b)} :
                        IF b[2] = 0 THEN b \in cb.late ELSE c \notin cb.late
    IN  [n \in {name(b) : b \in cb.resolved} |->
            ProbeOf(cb, CHOOSE b \in cb.resolved : name(b) = n /\ stays(b))]
        ++ cb.istioSettings
        ++ Only(DefaultBackendHTTPSettingsName, defaultProbeName("http"))

-----------------------------------------------------------------------------
(* Path maps and rules *)

Backend(cb, i, r, p) ==
    [pool |-> PoolOf(cb, ServiceOf(i, r, p)),
     settings |-> generateHTTPSettingsName(ServiceOf(i, r, p), i.name), redirect |-> None]

DefaultBackend ==
    [pool |-> DefaultBackendAddressPoolName, settings |-> DefaultBackendHTTPSettingsName,
     redirect |-> None]

\* The redirect of an HTTP listener leads to the HTTPS listener of the same
\* hosts, and is only attached if it exists.
RedirectFor(id, i, config, redirects) ==
    LET name == generateSSLRedirectConfigurationName([id EXCEPT !.port = 443])
    IN  IF i.redirect /\ ~ config.https /\ name \in DOMAIN redirects THEN name ELSE None

ToRedirect(name) == [pool |-> None, settings |-> None, redirect |-> name]

\* getDefaultFromRule: the redirect, the last path that stands for the default,
\* the default backend of the ingress, or the default pool.
getDefaultFromRule(cb, id, config, i, r, redirects) ==
    LET paths == i.rules[r].paths
        catchAll == {p \in DOMAIN paths : paths[p].path \in DefaultPaths}
        backend == IF catchAll # {} THEN <<i.name, r, Max(catchAll)>> ELSE <<i.name, 0, 0>>
    IN  IF RedirectFor(id, i, config, redirects) # None
        THEN ToRedirect(RedirectFor(id, i, config, redirects))
        ELSE IF backend \in cb.resolved THEN Backend(cb, i, backend[2], backend[3])
        ELSE DefaultBackend

\* Mutant of getPathRules: a redirected path also gets its backend.
getPathRules_Both(cb, id, config, i, r, redirects) ==
    LET paths == i.rules[r].paths
        redirect == RedirectFor(id, i, config, redirects)
        rule(p) == [name |-> generatePathRuleName(i.name, p), path |-> paths[p].path, waf |-> i.waf]
                   ++ [Backend(cb, i, r, p) EXCEPT !.redirect = redirect]
        listed(p) == /\ paths[p].path \notin DefaultPaths
                     /\ redirect # None \/ <<i.name, r, p>> \in cb.resolved
        order == Listed([p \in DOMAIN paths |-> p], {p \in DOMAIN paths : listed(p)})
    IN  [k \in DOMAIN order |-> rule(order[k])]

\* getPathRules: one path rule for each path that is redirected or whose
\* backend has a pool and settings.
getPathRules(cb, id, config, i, r, redirects) ==
    LET paths == i.rules[r].paths
        redirect == RedirectFor(id, i, config, redirects)
        rule(p) == [name |-> generatePathRuleName(i.name, p), path |-> paths[p].path, waf |-> i.waf]
                   ++ (IF redirect # None THEN ToRedirect(redirect) ELSE Backend(cb, i, r, p))
        listed(p) == /\ paths[p].path \notin DefaultPaths
                     /\ redirect # None \/ <<i.name, r, p>> \in cb.resolved
        order == Listed([p \in DOMAIN paths |-> p], {p \in DOMAIN paths : listed(p)})
    IN  [k \in DOMAIN order |-> rule(order[k])]

\* getPathMap
getPathMap(cb, id, config, i, r, redirects) ==
    getDefaultFromRule(cb, id, config, i, r, redirects)
        ++ [rules |-> getPathRules(cb, id, config, i, r, redirects)]

\* Mutant of mergePathMap: the path rules are replaced.
mergePathMap_Replaces(m, n) == IF n.rules = << >> THEN m ELSE n

\* mergePathMap: a default that is not the default pool replaces the one there
\* is, a redirect replaces both, and the path rules are appended.
mergePathMap(m, n) ==
    LET pool == IF n.pool \notin {None, DefaultBackendAddressPoolName} THEN n.pool ELSE m.pool
        settings == IF n.settings \notin {None, DefaultBackendHTTPSettingsName}
                    THEN n.settings ELSE m.settings
    IN  (IF n.redirect # None THEN ToRedirect(n.redirect)
         ELSE [pool |-> pool, settings |-> settings, redirect |-> m.redirect])
        ++ [rules |-> m.rules \o n.rules]

EmptyPathMap == DefaultBackend ++ [rules |-> << >>]

\* noRulesIngress: the default backend of an ingress without rules takes over
\* the default listener.  The pool is named without asking whether it exists.
noRulesIngress(cb, i, maps) ==
    IF <<i.name, 0, 0>> \in cb.resolved
    THEN Only(defaultFrontendListenerIdentifier,
              [EmptyPathMap EXCEPT !.pool = generateAddressPoolName(i.backend)]) ++ maps
    ELSE maps

\* The path maps without an ID: noRulesIngress sets none, nor does mergePathMap when
\* other ingresses add their paths.
WithoutID(cb) ==
    {generateURLPathMapName(defaultFrontendListenerIdentifier) :
        i \in {x \in Range(cb.ingresses) : x.rules = << >> /\ <<x.name, 0, 0>> \in cb.resolved}}

\* The body of the loop over the rules in getPathMaps.
addRule(cb, i, r, maps, configs, redirects) ==
    [id \in DOMAIN configs |->
        mergePathMap(IF id \in DOMAIN maps THEN maps[id] ELSE EmptyPathMap,
                     getPathMap(cb, id, configs[id], i, r, redirects))] ++ maps

\* getPathMaps: those of the ingresses or a default one, and then those of
\* Istio for listeners that have none.
getPathMaps(cb, redirects) ==
    LET step(maps, e) ==
            IF e.no = 0 THEN noRulesIngress(cb, e.ing, maps)
            ELSE IF isHTTP(e)
            THEN addRule(cb, e.ing, e.no, maps,
                         processIngressRule(cb, e.ing, e.ing.rules[e.no]), redirects)
            ELSE maps
        after[n \in 0..Len(cb.walk)] == IF n = 0 THEN << >> ELSE step(after[n - 1], cb.walk[n])
        all == after[Len(cb.walk)]
    IN  (IF DOMAIN all # {} THEN all ELSE Only(defaultFrontendListenerIdentifier, EmptyPathMap))
            ++ cb.istioPathMaps

\* getRules: a rule for every path map whose listener exists, basic when the
\* path map has no path rules.
getRules(maps, byID) ==
    [n \in {generateRequestRoutingRuleName(id) : id \in DOMAIN maps \cap DOMAIN byID} |->
        LET m == maps[n[2]]
        IN  [listener |-> byID[n[2]]]
            ++ (IF m.rules # << >>
                THEN [pathMap |-> generateURLPathMapName(n[2]),
                      pool |-> None, settings |-> None, redirect |-> None]
                ELSE IF m.redirect # None THEN [pathMap |-> None] ++ ToRedirect(m.redirect)
                ELSE [pathMap |-> None, pool |-> m.pool, settings |-> m.settings, redirect |-> None])]

\* The path maps that the rules use.
PathMapsOfRules(maps, byID) ==
    [n \in {generateURLPathMapName(id) :
                id \in {x \in DOMAIN maps \cap DOMAIN byID : maps[x].rules # << >>}} |-> maps[n[2]]]

-----------------------------------------------------------------------------
\* validateURLPathMaps: either a backend or a redirect.  The path maps that have
\* path rules are only asked for the path rules.
validateURLPathMaps(pathMaps) ==
    \A m \in Range(pathMaps) :
        \A x \in IF m.rules = << >> THEN {m} ELSE Range(m.rules) : OneTarget(x)

-----------------------------------------------------------------------------
(* What an HTTP rule e of an ingress asks for *)

PathsOf(e) == e.ing.rules[e.no].paths
DefaultsOf(e) == {p \in DOMAIN PathsOf(e) : PathsOf(e)[p].path \in DefaultPaths}
IsResolved(cb, e, p) == <<e.ing.name, e.no, p>> \in cb.resolved

\* Its listeners, and the pool of a path if endpoints offer the port.
AskedListeners(cb, e) == DOMAIN processIngressRule(cb, e.ing, e.ing.rules[e.no])
AskedPools(cb, e, p) ==
    IF cb.services[ServiceOf(e.ing, e.no, p)] = "full"
    THEN {generateAddressPoolName(ServiceOf(e.ing, e.no, p))} ELSE {}

\* The pools that are asked for as the default of a listener.
ClaimedPools(cb, id) ==
    LET asking == {e \in HTTPRules(cb) : id \in AskedListeners(cb, e)}
    IN  (UNION {UNION {AskedPools(cb, e, p) : p \in DefaultsOf(e)} : e \in asking})
        \cup {generateAddressPoolName(e.ing.backend) : e \in {x \in asking : x.ing.backend # None}}

\* A path map has a path rule that redirects the path, or leads to its backend.
RoutesPath(cb, m, e, p) ==
    LET path == PathsOf(e)[p]
    IN  \E x \in Range(m.rules) :
            /\ x.path = path.path /\ x.name = generatePathRuleName(e.ing.name, p)
            /\ \/ x.redirect # None
               \/ /\ x.settings = generateHTTPSettingsName(path.service, e.ing.name)
                  /\ AskedPools(cb, e, p) # {} => x.pool \in AskedPools(cb, e, p)

\* It serves the rule on a listener: all paths with a resolved backend, and a
\* default that is asked for there; of several defaults in a rule the last counts.
HasDefault(m, pools) == m.redirect # None \/ m.pool \in pools
ServesRule(cb, m, e, id) ==
    /\ \A p \in DOMAIN PathsOf(e) :
        PathsOf(e)[p].path \in DefaultPaths \/ ~ IsResolved(cb, e, p) \/ RoutesPath(cb, m, e, p)
    /\ HasDefault(m, ClaimedPools(cb, id) \cup {DefaultBackendAddressPoolName})
    /\ /\ DefaultsOf(e) # {}
       /\ AskedPools(cb, e, Max(DefaultsOf(e))) # {} /\ IsResolved(cb, e, Max(DefaultsOf(e)))
       => HasDefault(m, ClaimedPools(cb, id))
=============================================================================
