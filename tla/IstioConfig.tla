----------------------------- MODULE IstioConfig ------------------------------
(***************************************************************************)
(* What the config builder makes of Istio gateways and virtual services    *)
(* (pkg/appgw/istio_*.go).  An Istio server is [port, http, hosts]; a      *)
(* virtual service is [name, hosts, routes] with hosts a sequence, and     *)
(* routes a sequence of [services, matches]: the destinations in the order *)
(* of the spec, and the prefixes it matches.  Destinations have a port     *)
(* number and no subset.                                                   *)
(***************************************************************************)
EXTENDS AppGwResources

\* A listener identifier made without setHostNames: only HostName is set.
IstioListenerID(port, host) == [port |-> port, private |-> FALSE, host |-> host, hosts |-> << >>]

\* getListenerConfigsFromIstio: the HTTP servers' hosts that some virtual
\* service names, or else the default listener.
getListenerConfigsFromIstio(servers, virtualServices) ==
    LET known == UNION {Range(v.hosts) : v \in Range(virtualServices)}
        ids == UNION {{IstioListenerID(s.port, h) : h \in s.hosts \cap known} :
                        s \in {x \in servers : x.http}}
    IN  [id \in (IF ids # {} THEN ids ELSE {defaultFrontendListenerIdentifier}) |->
            [https |-> FALSE, secret |-> None, redirect |-> None, waf |-> None]]

\* istioMatchDestinationIds, as <<virtual service, service>>.
istioDestinationIds(virtualServices) ==
    UNION {UNION {{<<v.name, s>> : s \in Range(r.services)} : r \in Range(v.routes)} :
            v \in Range(virtualServices)}

\* getIstioDestinationsAndSettingsMap: a destination without a single backend
\* port leaves no destination at all; the callers drop the error.
getIstioDestinations(services, virtualServices) ==
    LET ids == istioDestinationIds(virtualServices)
    IN  IF \E d \in ids : services[d[2]] \in {"unresolved", "several"} THEN {} ELSE ids

\* generateIstioHTTPSettings: settings without a probe.
getIstioSettings(services, virtualServices) ==
    [n \in {generateHTTPSettingsName(d[2], d[1]) : d \in getIstioDestinations(services, virtualServices)}
        |-> None]

\* getIstioBackendAddressPool, newIstioBackendPoolMap
getIstioPool(services, service) ==
    IF services[service] = "full" THEN generateAddressPoolName(service)
    ELSE DefaultBackendAddressPoolName

getIstioPools(services, virtualServices) ==
    {getIstioPool(services, d[2]) : d \in getIstioDestinations(services, virtualServices)}

\* getIstioPathMaps: the last match of the last virtual service for a host
\* makes its path map, with one path rule.  The destination is looked up under
\* the virtual service's own name.  All rules get the settings that happen to
\* be the first of a list made from a Go map.
getIstioPathMaps(services, virtualServices, first) ==
    LET found(v, r) == /\ r.services[1] = v.name
                       /\ <<v.name, v.name>> \in getIstioDestinations(services, virtualServices)
        making(k) == LET routes == virtualServices[k].routes
                     IN  {j \in DOMAIN routes : found(virtualServices[k], routes[j]) /\ routes[j].matches # << >>}
        id(k) == IstioListenerID(80, virtualServices[k].hosts[1])
        makers == {k \in DOMAIN virtualServices : making(k) # {}}
        rule(k, matches) ==
            [name |-> generatePathRuleName(virtualServices[k].name, <<k, Len(matches)>>),
             path |-> matches[Len(matches)], waf |-> None,
             pool |-> getIstioPool(services, virtualServices[k].name), settings |-> first, redirect |-> None]
        map(rules) ==
            [pool |-> DefaultBackendAddressPoolName, settings |-> DefaultBackendHTTPSettingsName,
             redirect |-> None, rules |-> rules]
    IN  IF makers = {} THEN Only(defaultFrontendListenerIdentifier, map(<< >>))
        ELSE [i \in {id(k) : k \in makers} |->
                LET k == Max({x \in makers : id(x) = i})
                IN  map(<<rule(k, virtualServices[k].routes[Max(making(k))].matches)>>)]
=============================================================================
