------------------------------ MODULE K8sContext ------------------------------
(***************************************************************************)
(* The Kubernetes side of the ingress controller: the API server, the      *)
(* informers' stores, the notifications the informers hand to the event    *)
(* handlers, and the bounded Work channel the handlers feed                *)
(* (pkg/k8scontext).                                                       *)
(*                                                                         *)
(* An object is identified by a key <<kind, namespace, name>>.  The data   *)
(* of an object is cut down to what the controller tells apart:            *)
(*   ingress    [spec, ip]: ip is the address in the status; spec is       *)
(*              [class, rules, backend, kept] with rules a sequence of     *)
(*              [http, paths], paths the names of the services;            *)
(*   service    [selector, port]: port says how the backend port is found; *)
(*   endpoints  [ports, addrs];                                            *)
(*   pod        [probe]: the probe its container declares.                 *)
(***************************************************************************)
EXTENDS Naturals, Sequences, FiniteSets

CONSTANTS
    Namespaces,     \* namespaces of the cluster
    Names,          \* object names
    Clusters,       \* the clusters the first process may find
    Objects,        \* Objects[k]: what a user may store under key k
    PodLabels,      \* PodLabels[k]: the labels of pod k, fixed by its template
    Position,       \* the order of ingresses by namespace/name
    Watched,        \* the namespaces given to NewContext; {} stands for all
    Ignored,        \* namespacesToIgnore
    WorkBuffer,     \* capacity of the Work channel
    MaxChanges,     \* bound: changes users make to the cluster
    Resynced,       \* bound: the keys whose resync is looked at
    Tombstones,     \* may a deletion be missed and reported by a tombstone?
    GatewayIP,      \* the address of the gateway's frontend
    Absent,         \* "no object under this key"
    None            \* "no value": no default backend, no address, no cache

VARIABLES
    api,            \* the objects the API server holds
    store,          \* the informers' stores (Caches)
    unsynced,       \* objects of the initial list not yet in the stores
    notify,         \* notify[kind]: notifications waiting for their handler
    work,           \* the Work channel
    changes         \* changes made so far

k8sVars == <<api, store, unsynced, notify, work, changes>>

Kinds == {"ingress", "service", "endpoints", "pod"}
Keys == Kinds \X Namespaces \X Names
IngressKeys == {"ingress"} \X Namespaces \X Names
ServiceKeys == {"service"} \X Namespaces \X Names
PodKeys == {"pod"} \X Namespaces \X Names
EndpointsOf(b) == <<"endpoints", b[2], b[3]>>
ServiceOf(e) == <<"service", e[2], e[3]>>

ASSUME K8sConstants ==
    /\ WorkBuffer \in Nat \ {0}
    /\ MaxChanges \in Nat
    /\ Tombstones \in BOOLEAN
    /\ Position \in [IngressKeys -> Nat]
    /\ \A i, j \in IngressKeys : Position[i] = Position[j] => i = j
    /\ \A k \in Keys : Absent \notin Objects[k] \cup [spec : Objects[k], ip : {None, GatewayIP}]

-----------------------------------------------------------------------------
(* What the stores are asked. *)

\* An empty list of namespaces means that every namespace is watched.
Watches(ns) == Watched = {} \/ ns \in Watched

IsIngressApplicationGateway(o) == o # Absent /\ o.spec.class

hasHTTPRule(spec) == \E r \in DOMAIN spec.rules : spec.rules[r].http

\* filterAndSort drops an ingress whose rules all lack an HTTP section.
ListHTTPIngresses(s) ==
    {i \in IngressKeys : /\ Watches(i[2])
                         /\ IsIngressApplicationGateway(s[i])
                         /\ (s[i].spec.rules = << >> \/ hasHTTPRule(s[i].spec))}

hasTCPPort(o) == o.port # "udp"

ListServices(s) ==
    {b \in ServiceKeys : Watches(b[2]) /\ s[b] # Absent /\ hasTCPPort(s[b])}

\* The labels of a pod satisfy the selector of service b.  A pod that lives keeps
\* its labels.
Selects(s, b, p) == s[b].selector \subseteq PodLabels[p]

ListPodsByServiceSelector(s, b) ==
    {p \in PodKeys : /\ s[p] # Absent
                     /\ Watches(p[2])
                     /\ p[2] = b[2]
                     /\ Selects(s, b, p)}

\* Some path of some rule names the service.  Namespaces are not compared.
HasPath(s, name) ==
    \E i \in ListHTTPIngresses(s) : \E r \in DOMAIN s[i].spec.rules :
        name \in s[i].spec.rules[r].paths

\* Walking the rules in order, isServiceReferencedByAnyIngress meets a rule
\* without an HTTP section (whose nil pointer it follows) before it meets the
\* name it looks for.
NilRuleFirst(s, name) ==
    \E i \in ListHTTPIngresses(s) : \E r \in DOMAIN s[i].spec.rules :
        /\ ~ s[i].spec.rules[r].http
        /\ ~ \E j \in ListHTTPIngresses(s) : \E q \in DOMAIN s[j].spec.rules :
                /\ name \in s[j].spec.rules[q].paths
                /\ Position[j] < Position[i] \/ (j = i /\ q < r)

isServiceReferencedByAnyIngress(s, name) ==
    HasPath(s, name) /\ ~ NilRuleFirst(s, name)

\* The services the check of a pod or endpoints event looks for.
CheckedServices(s, k) ==
    IF k[1] = "pod"
    THEN {b \in ListServices(s) : Selects(s, b, k)}
    ELSE {b \in {ServiceOf(k)} : s[b] # Absent}

-----------------------------------------------------------------------------
(* The environment, the informers and the handlers. *)

\* What the API server may hold under a key.
Stored(k) ==
    {Absent} \cup IF k[1] = "ingress"
                  THEN [spec : Objects[k], ip : {None, GatewayIP}]
                  ELSE Objects[k]

Values == UNION {Stored(k) : k \in Keys}

Notifications == [key : Keys, old : Values, new : Values, tomb : BOOLEAN]

ASSUME ClustersAssumption ==
    \A c \in Clusters : DOMAIN c = Keys /\ \A k \in Keys : c[k] \in Stored(k)

K8sTypeOK ==
    /\ DOMAIN api = Keys /\ \A k \in Keys : api[k] \in Stored(k)
    /\ DOMAIN store = Keys /\ \A k \in Keys : store[k] \in Stored(k)
    /\ unsynced \subseteq Keys
    /\ notify \in [Kinds -> Seq(Notifications)]
    /\ work \in Seq(Keys) /\ Len(work) <= WorkBuffer
    /\ changes \in 0..MaxChanges

Present(c) == {k \in Keys : c[k] # Absent}

EmptyStore == [k \in Keys |-> Absent]
NoNotifications == [kind \in Kinds |-> << >>]

\* NewContext: the stores, the handlers' queues and the channel are empty.
K8sInit ==
    /\ api \in Clusters
    /\ store = EmptyStore
    /\ unsynced = Present(api)
    /\ notify = NoNotifications
    /\ work = << >>
    /\ changes = 0

\* The end of a process takes all of this with it.
DropContext ==
    /\ store' = EmptyStore
    /\ unsynced' = {}
    /\ notify' = NoNotifications
    /\ work' = << >>

\* Users write the spec of an ingress, the controller its status.
Written(k, v) ==
    IF k[1] = "ingress" /\ v # Absent
    THEN [spec |-> v, ip |-> IF api[k] = Absent THEN None ELSE api[k].ip]
    ELSE v

\* A user creates, changes or deletes an object.
ApiChange(k, v) ==
    /\ changes < MaxChanges
    /\ Written(k, v) # api[k]
    /\ api' = [api EXCEPT ![k] = Written(k, v)]
    /\ changes' = changes + 1
    /\ UNCHANGED <<store, unsynced, notify, work>>

\* An informer brings its store up to date with one object, and queues the
\* notification.  A deletion that the watch missed and a new list revealed is
\* notified by a DeletedFinalStateUnknown, a tombstone.
InformerSync(k) ==
    /\ store[k] # api[k] \/ k \in unsynced
    /\ store' = [store EXCEPT ![k] = api[k]]
    /\ unsynced' = unsynced \ {k}
    /\ \E tomb \in {FALSE} \cup {Tombstones /\ api[k] = Absent} :
         notify' = IF store[k] = api[k] THEN notify
                   ELSE [notify EXCEPT ![k[1]] = Append(@,
                           [key |-> k, old |-> store[k], new |-> api[k], tomb |-> tomb])]
    /\ UNCHANGED <<api, work, changes>>

\* The resync timer reports an object that has not changed.
Resync(k) ==
    /\ k \in Resynced
    /\ store[k] # Absent
    /\ notify[k[1]] = << >>        \* bound: one notification at a time
    /\ notify' = [notify EXCEPT ![k[1]] =
                    <<[key |-> k, old |-> store[k], new |-> store[k], tomb |-> FALSE]>>]
    /\ UNCHANGED <<api, store, unsynced, work, changes>>

\* The namespaces whose events reach the Work channel.
Forwards(ns) == ns \notin Ignored /\ Watches(ns)

\* Mutants of Forwarded: objects that are new are not forwarded unless they
\* are ingresses or services; an ingress is forwarded only if it still has the
\* annotation.
Forwarded_NoAdd(n) ==
    Forwards(n.key[2]) /\ n.old # n.new
        /\ (n.key[1] \in {"endpoints", "pod"} => n.old # Absent)
        /\ (n.key[1] = "ingress" =>
               IsIngressApplicationGateway(n.old) \/ IsIngressApplicationGateway(n.new))
Forwarded_NewOnly(n) ==
    Forwards(n.key[2]) /\ n.old # n.new
        /\ (n.key[1] = "ingress" => IsIngressApplicationGateway(n.new))

\* The handlers forward what differs (reflect.DeepEqual) and, of ingresses,
\* those that are or were annotated for the Application Gateway.
Forwarded(n) ==
    /\ Forwards(n.key[2])
    /\ n.old # n.new
    /\ n.key[1] = "ingress" =>
          IsIngressApplicationGateway(n.old) \/ IsIngressApplicationGateway(n.new)

\* The handlers take the namespace of what they are given before they look
\* for a tombstone: a nil ingress, or a value that is not a pointer.
HandlerPanics(kind) == notify[kind] # << >> /\ Head(notify[kind]).tomb

\* Mutant of Handle: a send that does not block.
Handle_Unbounded(kind) ==
    /\ notify[kind] # << >>
    /\ ~ Head(notify[kind]).tomb
    /\ notify' = [notify EXCEPT ![kind] = Tail(@)]
    /\ work' = IF Forwarded(Head(notify[kind])) THEN Append(work, Head(notify[kind]).key) ELSE work
    /\ UNCHANGED <<api, store, unsynced, changes>>

\* addFunc, updateFunc, deleteFunc, ingressAdd, ingressUpdate, ingressDelete:
\* a send to a full channel blocks the handler.
Handle(kind) ==
    /\ notify[kind] # << >>
    /\ ~ Head(notify[kind]).tomb
    /\ notify' = [notify EXCEPT ![kind] = Tail(@)]
    /\ IF Forwarded(Head(notify[kind]))
       THEN /\ Len(work) < WorkBuffer
            /\ work' = Append(work, Head(notify[kind]).key)
       ELSE UNCHANGED work
    /\ UNCHANGED <<api, store, unsynced, changes>>
=============================================================================
