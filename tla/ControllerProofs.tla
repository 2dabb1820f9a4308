--------------------------- MODULE ControllerProofs ---------------------------
(***************************************************************************)
(* Proofs about Controller, for every cluster, every set of objects and    *)
(* every value of the bounds.                                              *)
(***************************************************************************)
EXTENDS Controller, TLAPS

-----------------------------------------------------------------------------
(* Types. *)

\* What a user writes is a value the API server may hold.
LEMMA WrittenType ==
    ASSUME K8sTypeOK, NEW k \in Keys, NEW v \in Objects[k] \cup {Absent}
    PROVE  Written(k, v) \in Stored(k)
  BY Zenon DEF K8sTypeOK, Written, Stored

\* The empty store and the empty queues have their types.
LEMMA EmptyStoreType ==
    /\ DOMAIN EmptyStore = Keys
    /\ \A k \in Keys : EmptyStore[k] \in Stored(k)
    /\ NoNotifications \in [Kinds -> Seq(Notifications)]
  BY DEF EmptyStore, Stored, NoNotifications

\* PruneIngress yields specs that users stored.
LEMMA PruneIngressType ==
    ASSUME NEW s, DOMAIN s = Keys, \A k \in Keys : s[k] \in Stored(k)
    PROVE  PruneIngress(s) \in [IngressKeys -> {Absent} \cup UNION {Objects[i] : i \in IngressKeys}]
<1> SUFFICES ASSUME NEW i \in IngressKeys, s[i] # Absent
             PROVE  s[i].spec \in Objects[i]
  BY Zenon DEF PruneIngress, ListHTTPIngresses, IsIngressApplicationGateway
<1>1. i \in Keys /\ i[1] = "ingress"
  BY Zenon DEF IngressKeys, Keys, Kinds
<1>2. s[i] \in [spec : Objects[i], ip : {None, GatewayIP}]
  BY <1>1, Zenon DEF Stored
<1> QED BY <1>2, Zenon

\* A pool holds the addresses of endpoints that users stored.
LEMMA PoolOfType ==
    ASSUME NEW s, DOMAIN s = Keys, \A k \in Keys : s[k] \in Stored(k),
           NEW port, NEW b \in ServiceKeys
    PROVE  PoolOf(port, s, b) \in PoolValues
<1>1. EndpointsOf(b) \in Keys /\ EndpointsOf(b)[1] = "endpoints"
  BY Zenon DEF EndpointsOf, ServiceKeys, Keys, Kinds
<1>2. s[EndpointsOf(b)] # Absent => s[EndpointsOf(b)] \in Objects[EndpointsOf(b)]
  BY <1>1, Zenon DEF Stored
<1> QED BY <1>2 DEF PoolOf, PoolValues

\* The steps of the environment, the informers and the handlers.
LEMMA K8sTypeStep ==
    ASSUME K8sTypeOK,
           \/ \E k \in Keys : \E v \in Objects[k] \cup {Absent} : ApiChange(k, v)
           \/ \E k \in Keys : InformerSync(k) \/ Resync(k)
           \/ \E kind \in Kinds : Handle(kind)
    PROVE  K8sTypeOK'
<1>1. ASSUME NEW k \in Keys, NEW v \in Objects[k] \cup {Absent}, ApiChange(k, v)
      PROVE  K8sTypeOK'
  <2>1. Written(k, v) \in Stored(k)
    BY WrittenType, Zenon
  <2> QED BY <1>1, <2>1, K8sConstants DEF K8sTypeOK, ApiChange
<1>2. ASSUME NEW k \in Keys, InformerSync(k)
      PROVE  K8sTypeOK'
  <2>1. k[1] \in Kinds /\ store[k] \in Values /\ api[k] \in Values
    BY Zenon DEF K8sTypeOK, Values, Keys
  <2>2. notify' \in [Kinds -> Seq(Notifications)]
    <3> PICK tomb \in {FALSE} \cup {Tombstones /\ api[k] = Absent} :
               notify' = IF store[k] = api[k] THEN notify
                         ELSE [notify EXCEPT ![k[1]] = Append(@,
                                 [key |-> k, old |-> store[k], new |-> api[k], tomb |-> tomb])]
      BY <1>2, Zenon DEF InformerSync
    <3>1. tomb \in BOOLEAN
      BY K8sConstants, Zenon
    <3>2. [key |-> k, old |-> store[k], new |-> api[k], tomb |-> tomb] \in Notifications
      BY <2>1, <3>1, Zenon DEF Notifications
    <3> QED BY <2>1, <3>2 DEF K8sTypeOK
  <2> QED BY <1>2, <2>2, Zenon DEF K8sTypeOK, InformerSync
<1>3. ASSUME NEW k \in Keys, Resync(k)
      PROVE  K8sTypeOK'
  <2>1. k[1] \in Kinds /\ store[k] \in Values
    BY Zenon DEF K8sTypeOK, Values, Keys
  <2>2. [key |-> k, old |-> store[k], new |-> store[k], tomb |-> FALSE] \in Notifications
    BY <2>1, Zenon DEF Notifications
  <2> QED BY <1>3, <2>1, <2>2 DEF K8sTypeOK, Resync
<1>4. ASSUME NEW kind \in Kinds, Handle(kind)
      PROVE  K8sTypeOK'
  <2>1. notify[kind] \in Seq(Notifications) /\ notify[kind] # << >>
    BY <1>4, Zenon DEF K8sTypeOK, Handle
  <2>2. Head(notify[kind]) \in Notifications /\ Tail(notify[kind]) \in Seq(Notifications)
    BY <2>1
  <2>3. Head(notify[kind]).key \in Keys
    BY <2>2, Zenon DEF Notifications
  <2>4. notify' \in [Kinds -> Seq(Notifications)]
    BY <1>4, <2>2, Zenon DEF K8sTypeOK, Handle
  <2>5. work' \in Seq(Keys) /\ Len(work') <= WorkBuffer
    <3>1. WorkBuffer \in Nat /\ work \in Seq(Keys) /\ Len(work) <= WorkBuffer
      BY K8sConstants, Zenon DEF K8sTypeOK
    <3>2. CASE work' = work
      BY <3>1, <3>2, Zenon
    <3>3. CASE Len(work) < WorkBuffer /\ work' = Append(work, Head(notify[kind]).key)
      BY <2>3, <3>1, <3>3
    <3> QED BY <1>4, <3>2, <3>3, Zenon DEF Handle
  <2> QED BY <1>4, <2>4, <2>5, Zenon DEF K8sTypeOK, Handle
<1> QED BY <1>1, <1>2, <1>3, <1>4, Zenon

\* A process that ends leaves its memory empty.
LEMMA DieType ==
    ASSUME TypeOK, Die, gw' \in Configs \cup {None, Foreign},
           failures' \in 0..MaxFailures, crashes' \in 0..MaxCrashes
    PROVE  TypeOK'
<1>1. K8sTypeOK'
  BY EmptyStoreType, K8sConstants DEF TypeOK, K8sTypeOK, Die, DropContext
<1> QED BY <1>1, Zenon DEF TypeOK, Die, Steps

\* MutateAppGateway returns.
LEMMA ReturnType ==
    ASSUME TypeOK, NEW e \in BOOLEAN, Return(e), failures' \in 0..MaxFailures,
           configCache' \in Configs \cup {None}, gw' \in Configs \cup {None, Foreign}
    PROVE  TypeOK'
<1>1. K8sTypeOK'
  BY Zenon DEF TypeOK, K8sTypeOK, Return, k8sVars
<1> QED BY <1>1, Zenon DEF TypeOK, Return, Steps

\* A failure is counted within its bound.
LEMMA FailType ==
    ASSUME failures \in 0..MaxFailures, Fail
    PROVE  failures' \in 0..MaxFailures
  BY ControllerConstants DEF Fail

\* Every step keeps the types.
LEMMA TypeStep == TypeOK /\ [Next]_vars => TypeOK'
<1> SUFFICES ASSUME TypeOK, [Next]_vars
             PROVE  TypeOK'
  BY Zenon
<1> USE DEF TypeOK
<1>k. UNCHANGED k8sVars => K8sTypeOK'
  BY Zenon DEF K8sTypeOK, k8sVars
<1>1. CASE UNCHANGED vars
  BY <1>1, <1>k, Zenon DEF vars, k8sVars
<1>2. ASSUME NEW k \in Keys, NEW v \in Objects[k] \cup {Absent}, User(k, v)
      PROVE  TypeOK'
  <2>1. K8sTypeOK'
    BY <1>2, K8sTypeStep, Zenon DEF User
  <2> QED BY <1>2, <2>1, Zenon DEF User, workerVars
<1>3. ASSUME NEW k \in Keys, Informer(k) \/ ResyncTimer(k)
      PROVE  TypeOK'
  <2>1. K8sTypeOK'
    BY <1>3, K8sTypeStep, Zenon DEF Informer, ResyncTimer
  <2> QED BY <1>3, <2>1, Zenon DEF Informer, ResyncTimer, workerVars
<1>4. ASSUME NEW kind \in Kinds, Handler(kind)
      PROVE  TypeOK'
  <2>1. K8sTypeOK'
    BY <1>4, K8sTypeStep, Zenon DEF Handler
  <2> QED BY <1>4, <2>1, Zenon DEF Handler, workerVars
<1>5. ASSUME NEW kind \in Kinds, HandlerPanic(kind)
      PROVE  TypeOK'
  BY <1>5, DieType, Zenon DEF HandlerPanic
<1>6. CASE EditGateway
  BY <1>6, <1>k, ControllerConstants DEF EditGateway, workerVars
<1>7. CASE Kill
  <2>1. crashes' \in 0..MaxCrashes
    BY <1>7, ControllerConstants DEF Kill
  <2> QED BY <1>7, <2>1, DieType, Zenon DEF Kill
<1>8. CASE Restart
  <2>1. K8sTypeOK'
    BY <1>8, Zenon DEF Restart, K8sTypeOK, Present
  <2> QED BY <1>8, <2>1, Zenon DEF Restart, Steps
<1>9. CASE StartWorker
  BY <1>9, <1>k, Zenon DEF StartWorker, Steps
<1>10. CASE SkipEvent \/ TakeEvent
  <2>1. work' \in Seq(Keys) /\ Len(work') <= WorkBuffer
    <3>1. work \in Seq(Keys) /\ work # << >> /\ work' = Tail(work) /\ Len(work) <= WorkBuffer
      BY <1>10, Zenon DEF SkipEvent, TakeEvent, K8sTypeOK
    <3>2. WorkBuffer \in Nat
      BY K8sConstants, Zenon
    <3> QED BY <3>1, <3>2
  <2>2. K8sTypeOK'
    BY <1>10, <2>1, Zenon DEF SkipEvent, TakeEvent, K8sTypeOK
  <2> QED BY <1>10, <2>2, Zenon DEF SkipEvent, TakeEvent, workerVars, Steps
<1>11. CASE WorkerPanic
  BY <1>11, DieType, Zenon DEF WorkerPanic
<1>12. CASE Drain
  <2>1. << >> \in Seq(Keys) /\ Len(<< >>) <= WorkBuffer
    <3>1. WorkBuffer \in Nat
      BY K8sConstants, Zenon
    <3> QED BY <3>1
  <2>2. K8sTypeOK'
    BY <1>12, <2>1, Zenon DEF Drain, K8sTypeOK
  <2> QED BY <1>12, <2>2, Zenon DEF Drain, Steps
<1>13. CASE MutateAKS
  <2>1. failures' \in 0..MaxFailures
    BY <1>13, FailType, Zenon DEF MutateAKS
  <2> QED BY <1>13, <2>1, <1>k, Zenon DEF MutateAKS, Steps
<1>14. ASSUME NEW i \in IngressKeys, UpdateIngressStatus(i)
       PROVE  TypeOK'
  <2>1. failures' \in 0..MaxFailures
    BY <1>14, FailType, Zenon DEF UpdateIngressStatus
  <2>2. DOMAIN api' = Keys /\ \A k \in Keys : api'[k] \in Stored(k)
    <3>1. i \in Keys /\ i[1] = "ingress"
      BY Zenon DEF IngressKeys, Keys, Kinds
    <3>2. api[i] # Absent => api[i] \in [spec : Objects[i], ip : {None, GatewayIP}]
      BY <3>1, Zenon DEF K8sTypeOK, Stored
    <3>3. api[i] # Absent => [api[i] EXCEPT !.ip = GatewayIP] \in Stored(i)
      BY <3>1, <3>2, Zenon DEF Stored
    <3>4. api' = api \/ (api[i] # Absent /\ api' = [api EXCEPT ![i].ip = GatewayIP])
      BY <1>14, Zenon DEF UpdateIngressStatus
    <3> QED BY <3>1, <3>3, <3>4, Zenon DEF K8sTypeOK
  <2>3. K8sTypeOK'
    BY <1>14, <2>2, Zenon DEF UpdateIngressStatus, K8sTypeOK
  <2> QED BY <1>14, <2>1, <2>3, Zenon DEF UpdateIngressStatus
<1>15. CASE GetAppGwFails
  <2>1. failures' \in 0..MaxFailures
    BY <1>15, FailType, Zenon DEF GetAppGwFails
  <2> QED BY <1>15, <2>1, ReturnType, Zenon DEF GetAppGwFails
<1>16. CASE GetAppGw
  <2>1. gen' \in Configs
    <3>1. PruneIngress(store) \in [IngressKeys -> {Absent} \cup UNION {Objects[i] : i \in IngressKeys}]
      BY PruneIngressType, Zenon DEF K8sTypeOK
    <3>2. NoParts \in [ServiceKeys -> ProbeValues] /\ NoParts \in [ServiceKeys -> Ports \cup {None}]
          /\ NoParts \in [ServiceKeys -> PoolValues] /\ NoParts \in [ServiceKeys -> BOOLEAN \cup {None}]
      BY Zenon DEF NoParts, ProbeValues, PoolValues
    <3> QED BY <1>16, <3>1, <3>2, Zenon DEF GetAppGw, Configs
  <2> QED BY <1>16, <1>k, <2>1, Zenon DEF GetAppGw, Steps
<1>17. CASE HealthProbesCollection
  <2>1. gen \in Configs /\ gen' \in Configs
    BY <1>17, Zenon DEF HealthProbesCollection, Configs
  <2> QED BY <1>17, <1>k, <2>1, Zenon DEF HealthProbesCollection, Steps
<1>18. CASE BackendHTTPSettingsCollection
  <2>1. gen \in Configs /\ gen' \in Configs
    BY <1>18, Zenon DEF BackendHTTPSettingsCollection, Configs
  <2> QED BY <1>18, <1>k, <2>1, Zenon DEF BackendHTTPSettingsCollection, Steps
<1>19. CASE BuildFails
  BY <1>19, ReturnType, Zenon DEF BuildFails
<1>20. CASE BackendAddressPools
  <2>1. [b \in ServiceKeys |-> PoolOf(gen.settings[b], store, b)] \in [ServiceKeys -> PoolValues]
    BY PoolOfType, Zenon DEF K8sTypeOK
  <2>2. gen \in Configs /\ gen' \in Configs
    BY <1>20, <2>1, Zenon DEF BackendAddressPools, Configs
  <2> QED BY <1>20, <1>k, <2>2, Zenon DEF BackendAddressPools, Steps
<1>21. CASE RequestRoutingRules
  <2>1. gen \in Configs /\ gen' \in Configs
    BY <1>21 DEF RequestRoutingRules, Configs
  <2> QED BY <1>21, <1>k, <2>1, Zenon DEF RequestRoutingRules, Steps
<1>22. CASE SkipUpdate
  BY <1>22, ReturnType, Zenon DEF SkipUpdate
<1>23. CASE UpdateGateway
  BY <1>23, ReturnType, Zenon DEF UpdateGateway
<1>24. CASE UpdateGatewayFails
  <2>1. failures' \in 0..MaxFailures /\ gw' \in Configs \cup {None, Foreign}
    BY <1>24, FailType, Zenon DEF UpdateGatewayFails
  <2>2. CASE PanicOnPutError
    BY <1>24, <2>1, <2>2, DieType, Zenon DEF UpdateGatewayFails
  <2>3. CASE ~ PanicOnPutError
    BY <1>24, <2>1, <2>3, ReturnType, Zenon DEF UpdateGatewayFails
  <2> QED BY <2>2, <2>3, Zenon
<1> QED
  BY <1>1, <1>2, <1>3, <1>4, <1>5, <1>6, <1>7, <1>8, <1>9, <1>10, <1>11, <1>12, <1>13, <1>14,
     <1>15, <1>16, <1>17, <1>18, <1>19, <1>20, <1>21, <1>22, <1>23, <1>24, Zenon DEF Next, WorkerStep

\* The first process finds a cluster of the right type.
LEMMA InitTypes == Init => TypeOK
<1> SUFFICES ASSUME Init PROVE TypeOK
  BY Zenon
<1>1. K8sTypeOK
  <2>1. WorkBuffer \in Nat /\ MaxChanges \in Nat
    BY K8sConstants, Zenon
  <2>2. DOMAIN api = Keys /\ \A k \in Keys : api[k] \in Stored(k)
    BY ClustersAssumption, Zenon DEF Init, K8sInit
  <2>3. work \in Seq(Keys) /\ Len(work) <= WorkBuffer /\ changes \in 0..MaxChanges
    BY <2>1 DEF Init, K8sInit
  <2> QED BY <2>2, <2>3, EmptyStoreType, Zenon DEF Init, K8sInit, K8sTypeOK, Present
<1>2. failures \in 0..MaxFailures /\ crashes \in 0..MaxCrashes /\ edits \in 0..MaxEdits
  BY ControllerConstants DEF Init
<1> QED BY <1>1, <1>2, Zenon DEF Init, TypeOK, Steps

\* Type correctness: whatever users, failures and crashes do, every variable
\* keeps its type and the Work channel stays within its capacity.
THEOREM TypeCorrect == Spec => []TypeOK
  BY InitTypes, TypeStep, PTL DEF Spec

-----------------------------------------------------------------------------
(* The cache and the gateway. *)

\* A PUT that reports an error has not been applied, and nobody else edits
\* the gateway.
ReliablePut == "lost" \notin PutFailures /\ MaxEdits = 0

\* Under ReliablePut the cache that configIsSame consults holds what the
\* gateway holds, across failed updates, panics and restarts: an update that
\* is skipped would have changed nothing.
THEOREM CacheMirrorsGateway ==
    ASSUME ReliablePut
    PROVE  Spec => []CacheIsGateway
<1>1. Init => CacheIsGateway
  BY Zenon DEF Init, CacheIsGateway
<1>2. TypeOK /\ CacheIsGateway /\ [Next]_vars => CacheIsGateway'
  <2> SUFFICES ASSUME TypeOK, CacheIsGateway, [Next]_vars
               PROVE  CacheIsGateway'
    BY Zenon
  <2>1. CASE UNCHANGED <<gw, configCache>>
    BY <2>1, Zenon DEF CacheIsGateway
  <2>2. CASE configCache' = None
    BY <2>2, Zenon DEF CacheIsGateway
  <2>3. CASE UpdateGateway
    BY <2>3, Zenon DEF UpdateGateway, CacheIsGateway
  <2>4. CASE EditGateway
    <3>1. edits < MaxEdits /\ edits \in 0..MaxEdits /\ MaxEdits = 0
      BY <2>4, Zenon DEF EditGateway, TypeOK, ReliablePut
    <3> QED BY <3>1
  <2>5. CASE UpdateGatewayFails
    <3>1. gw' = gw
      BY <2>5, Zenon DEF UpdateGatewayFails, ReliablePut
    <3> QED BY <2>1, <2>2, <2>5, <3>1, Zenon DEF UpdateGatewayFails, Die
  <2>6. CASE (\E kind \in Kinds : HandlerPanic(kind)) \/ Kill \/ WorkerPanic
    BY <2>2, <2>6, Zenon DEF HandlerPanic, Kill, WorkerPanic, Die
  <2>7. CASE WorkerStep /\ ~ UpdateGateway /\ ~ UpdateGatewayFails /\ ~ WorkerPanic
    BY <2>1, <2>7, Zenon
       DEF WorkerStep, StartWorker, SkipEvent, TakeEvent, Drain, MutateAKS, UpdateIngressStatus,
           GetAppGwFails, GetAppGw, HealthProbesCollection, BackendHTTPSettingsCollection, BuildFails,
           BackendAddressPools, RequestRoutingRules, SkipUpdate, workerVars
  <2>8. CASE \/ \E k \in Keys : \E v \in Objects[k] \cup {Absent} : User(k, v)
             \/ \E k \in Keys : Informer(k) \/ ResyncTimer(k)
             \/ \E kind \in Kinds : Handler(kind)
             \/ Restart \/ UNCHANGED vars
    BY <2>1, <2>8, Zenon DEF User, Informer, ResyncTimer, Handler, Restart, vars, workerVars
  <2> QED BY <2>3, <2>4, <2>5, <2>6, <2>7, <2>8, Zenon DEF Next
<1> QED BY <1>1, <1>2, TypeCorrect, PTL DEF Spec

\* Under ReliablePut configIsSame never saves the gateway from an update it
\* needs: the configuration that is skipped is the one the gateway has.
THEOREM SkippedUpdateIsApplied ==
    ASSUME ReliablePut
    PROVE  Spec => SkipsOnlyWhatIsApplied
<1>1. TypeOK /\ CacheIsGateway => [SkipUpdate => gw = gen]_vars
  <2> SUFFICES ASSUME TypeOK, CacheIsGateway, SkipUpdate PROVE gw = gen
    BY Zenon
  <2>1. gen \in Configs /\ gen = configCache
    BY Zenon DEF TypeOK, SkipUpdate, configIsSame
  <2> QED BY <2>1, NoneIsNoConfig, Zenon DEF CacheIsGateway
<1> QED BY <1>1, TypeCorrect, CacheMirrorsGateway, PTL DEF SkipsOnlyWhatIsApplied

-----------------------------------------------------------------------------
(* Controller implements Effects: every step of the controller and of the    *)
(* processes around it is a step of Effects, or changes nothing that can be  *)
(* seen from outside.                                                        *)

\* The configuration being built is made of ingresses that AGIC serves.
GenServed ==
    pc \in {"probes", "settings", "pools", "rules", "deploy"} => OnlyServed(gen)

\* PruneIngress keeps only those.
LEMMA PrunedAreServed ==
    ASSUME NEW s, NEW i \in IngressKeys, PruneIngress(s)[i] # Absent
    PROVE  PruneIngress(s)[i].class /\ PruneIngress(s)[i].kept
  BY Zenon DEF PruneIngress, ListHTTPIngresses, IsIngressApplicationGateway

\* Only GetAppGw chooses the ingresses; the later parts leave them alone.
LEMMA GenServedStep == ASSUME TypeOK, GenServed, [Next]_vars PROVE GenServed'
<1>1. CASE GetAppGw
  <2>1. gen'.ingresses = PruneIngress(store)
    BY <1>1, Zenon DEF GetAppGw
  <2> QED BY <2>1, PrunedAreServed, Zenon DEF GenServed, OnlyServed
<1>2. CASE pc' \notin {"probes", "settings", "pools", "rules", "deploy"}
  BY <1>2, Zenon DEF GenServed
<1>3. CASE UNCHANGED <<pc, gen>>
  BY <1>3, Zenon DEF GenServed, OnlyServed
<1>4. CASE \/ HealthProbesCollection \/ BackendHTTPSettingsCollection
           \/ BackendAddressPools \/ RequestRoutingRules
  <2>1. gen \in Configs /\ OnlyServed(gen)
    BY <1>4, Zenon DEF HealthProbesCollection, BackendHTTPSettingsCollection, BackendAddressPools,
                RequestRoutingRules, TypeOK, GenServed
  <2>2. gen'.ingresses = gen.ingresses
    BY <1>4, <2>1, Zenon DEF HealthProbesCollection, BackendHTTPSettingsCollection, BackendAddressPools,
                      RequestRoutingRules, Configs
  <2> QED BY <2>1, <2>2, Zenon DEF GenServed, OnlyServed
<1>5. CASE \/ StartWorker \/ SkipEvent \/ TakeEvent \/ WorkerPanic \/ Drain \/ MutateAKS
           \/ GetAppGwFails \/ BuildFails \/ SkipUpdate \/ UpdateGateway \/ UpdateGatewayFails
  BY <1>2, <1>3, <1>5, Zenon
     DEF StartWorker, SkipEvent, TakeEvent, WorkerPanic, Drain, MutateAKS, GetAppGwFails, BuildFails,
         SkipUpdate, UpdateGateway, UpdateGatewayFails, Return, Die, workerVars
<1>6. CASE \E i \in IngressKeys : UpdateIngressStatus(i)
  BY <1>3, <1>6, Zenon DEF UpdateIngressStatus
<1>7. CASE \/ \E k \in Keys : \E v \in Objects[k] \cup {Absent} : User(k, v)
           \/ \E k \in Keys : Informer(k) \/ ResyncTimer(k)
           \/ \E kind \in Kinds : Handler(kind)
           \/ EditGateway \/ UNCHANGED vars
  BY <1>3, <1>7, Zenon DEF User, Informer, ResyncTimer, Handler, EditGateway, vars, workerVars
<1>8. CASE (\E kind \in Kinds : HandlerPanic(kind)) \/ Kill \/ Restart
  BY <1>2, <1>8, Zenon DEF HandlerPanic, Kill, Restart, Die
<1> QED BY <1>1, <1>4, <1>5, <1>6, <1>7, <1>8, Zenon DEF Next, WorkerStep

-----------------------------------------------------------------------------
(* The steps, seen from outside. *)

\* A step that leaves the cluster, the gateway and the cache alone is not seen.
LEMMA Unseen == ASSUME UNCHANGED <<api, gw, configCache>> PROVE UNCHANGED Outside!vars
  BY Zenon DEF Outside!vars, SpecOf, AddressOf

\* The end of a process, or a step that is not seen.
LEMMA Forgets == ASSUME UNCHANGED <<api, gw>>, configCache' = None PROVE Outside!Forget
  BY Zenon DEF Outside!Forget, SpecOf, AddressOf

\* An ingress that the API server holds has a spec that is one.
LEMMA StoredSpec ==
    ASSUME K8sTypeOK, NEW i \in IngressKeys, api[i] # Absent
    PROVE  i \in Keys /\ api[i].spec # Absent /\ api[i] \in [spec : Objects[i], ip : {None, GatewayIP}]
<1>1. i \in Keys /\ i[1] = "ingress"
  BY Zenon DEF IngressKeys, Keys, Kinds
<1>2. api[i] \in [spec : Objects[i], ip : {None, GatewayIP}]
  BY <1>1, Zenon DEF K8sTypeOK, Stored
<1> QED BY <1>1, <1>2, K8sConstants, Zenon

\* A user's write is one from outside too, and the address is not the user's.
LEMMA UserSeen ==
    ASSUME TypeOK, NEW k \in Keys, NEW v \in Objects[k] \cup {Absent}, User(k, v)
    PROVE  Outside!UserWrites(k)
<1>1. /\ api' = [api EXCEPT ![k] = Written(k, v)]
      /\ UNCHANGED <<gw, configCache>>
  BY Zenon DEF User, ApiChange, workerVars
<1>2. K8sTypeOK /\ DOMAIN api = Keys
  BY Zenon DEF TypeOK, K8sTypeOK
<1>3. SpecOf' = [SpecOf EXCEPT ![k] = SpecOf'[k]]
  BY <1>1, <1>2, Zenon DEF SpecOf
<1>4. AddressOf' = [i \in IngressKeys |-> IF SpecOf'[i] = Absent THEN None ELSE AddressOf[i]]
  <2> SUFFICES ASSUME NEW i \in IngressKeys
               PROVE  AddressOf'[i] = IF SpecOf'[i] = Absent THEN None ELSE AddressOf[i]
    BY Zenon DEF AddressOf
  <2>1. i \in Keys /\ i[1] = "ingress"
    BY Zenon DEF IngressKeys, Keys, Kinds
  <2>2. CASE i # k
    <3>1. api'[i] = api[i]
      BY <1>1, <1>2, <2>1, <2>2, Zenon
    <3>2. SpecOf'[i] = IF api[i] # Absent THEN api[i].spec ELSE api[i]
      BY <2>1, <3>1, Zenon DEF SpecOf
    <3> QED BY <1>2, <3>1, <3>2, StoredSpec, Zenon DEF AddressOf
  <2>3. CASE i = k
    <3>1. api'[i] = Written(i, v)
      BY <1>1, <1>2, <2>1, <2>3, Zenon
    <3>2. CASE v = Absent
      <4>1. api'[i] = Absent
        BY <3>1, <3>2, Zenon DEF Written
      <4> QED BY <2>1, <4>1, Zenon DEF AddressOf, SpecOf
    <3>3. CASE v # Absent
      <4>1. api'[i] = [spec |-> v, ip |-> IF api[i] = Absent THEN None ELSE api[i].ip]
        BY <2>1, <3>1, <3>3, Zenon DEF Written
      <4>2. api'[i] \in [spec : Objects[i], ip : {None, GatewayIP}]
        BY <1>2, <2>3, <3>3, <4>1, StoredSpec
      <4>3. api'[i] # Absent
        BY <2>1, <4>2, K8sConstants, Zenon
      <4> QED BY <2>1, <3>3, <4>1, <4>3 DEF AddressOf, SpecOf
    <3> QED BY <3>2, <3>3, Zenon
  <2> QED BY <2>2, <2>3, Zenon
<1> QED BY <1>1, <1>3, <1>4, Zenon DEF Outside!UserWrites

\* The status of an ingress gets the address, or nothing happens.
LEMMA StatusSeen ==
    ASSUME TypeOK, NEW i \in IngressKeys, UpdateIngressStatus(i)
    PROVE  Outside!SetAddress(i) \/ UNCHANGED Outside!vars
<1>1. UNCHANGED <<gw, configCache>>
  BY Zenon DEF UpdateIngressStatus
<1>2. CASE UNCHANGED api
  BY <1>1, <1>2, Unseen, Zenon
<1>3. CASE api[i] # Absent /\ api' = [api EXCEPT ![i].ip = GatewayIP]
  <2>1. K8sTypeOK /\ DOMAIN api = Keys
    BY Zenon DEF TypeOK, K8sTypeOK
  <2>2. /\ i \in Keys /\ api[i].spec # Absent
        /\ api[i] \in [spec : Objects[i], ip : {None, GatewayIP}]
    BY <1>3, <2>1, StoredSpec, Zenon
  <2>3. /\ api'[i] \in [spec : Objects[i], ip : {None, GatewayIP}]
        /\ api'[i].spec = api[i].spec /\ api'[i].ip = GatewayIP
    BY <1>3, <2>1, <2>2, Zenon
  <2>4. api'[i] # Absent
    BY <2>2, <2>3, K8sConstants, Zenon
  <2>5. \A k \in Keys : k # i => api'[k] = api[k]
    BY <1>3, <2>1, Zenon
  <2>6. SpecOf' = SpecOf
    BY <1>3, <2>3, <2>4, <2>5 DEF SpecOf
  <2>7. AddressOf' = [AddressOf EXCEPT ![i] = GatewayIP]
    <3>1. IngressKeys \subseteq Keys
      BY Zenon DEF IngressKeys, Keys, Kinds
    <3> QED BY <2>3, <2>4, <2>5, <3>1, Zenon DEF AddressOf
  <2>8. SpecOf[i] # Absent
    BY <1>3, <2>2, Zenon DEF SpecOf
  <2> QED BY <1>1, <2>6, <2>7, <2>8, Zenon DEF Outside!SetAddress
<1> QED BY <1>2, <1>3, Zenon DEF UpdateIngressStatus

\* What is put on the gateway is good, and not what is known to be there.
LEMMA PutSeen ==
    ASSUME TypeOK, GenServed, UpdateGateway \/ UpdateGatewayFails
    PROVE  Outside!Put \/ Outside!PutLost \/ Outside!Forget \/ UNCHANGED Outside!vars
<1>1. /\ pc = "deploy" /\ gen # configCache
      /\ gen \in Configs /\ OnlyServed(gen)
      /\ UNCHANGED api
  BY Zenon DEF UpdateGateway, UpdateGatewayFails, TypeOK, GenServed, configIsSame, Return, Die, k8sVars
<1>2. SpecOf' = SpecOf /\ AddressOf' = AddressOf
  BY <1>1, Zenon DEF SpecOf, AddressOf
<1>3. CASE UpdateGateway
  BY <1>1, <1>2, <1>3, Zenon DEF UpdateGateway, Outside!Put
<1>4. CASE UpdateGatewayFails /\ gw' = gen /\ ~ Dangling(gen)
  <2>1. configCache' \in {configCache, None}
    BY <1>4, Zenon DEF UpdateGatewayFails, Die
  <2> QED BY <1>1, <1>2, <1>4, <2>1, Zenon DEF Outside!PutLost
<1>5. CASE UpdateGatewayFails /\ UNCHANGED gw
  BY <1>1, <1>5, Unseen, Forgets, Zenon DEF UpdateGatewayFails, Die
<1> QED BY <1>3, <1>4, <1>5, Zenon DEF UpdateGatewayFails

\* Every step of the controller is a step of Effects, or is not seen.
LEMMA StepSeen == ASSUME TypeOK, GenServed, [Next]_vars PROVE [Outside!Next]_(Outside!vars)
<1>1. CASE \E k \in Keys : \E v \in Objects[k] \cup {Absent} : User(k, v)
  BY <1>1, UserSeen, Zenon DEF Outside!Next
<1>2. CASE \E i \in IngressKeys : UpdateIngressStatus(i)
  BY <1>2, StatusSeen, Zenon DEF Outside!Next
<1>3. CASE UpdateGateway \/ UpdateGatewayFails
  BY <1>3, PutSeen, Zenon DEF Outside!Next
<1>4. CASE (\E kind \in Kinds : HandlerPanic(kind)) \/ Kill \/ WorkerPanic
  BY <1>4, Forgets, Zenon DEF HandlerPanic, Kill, WorkerPanic, Die, Outside!Next
<1>5. CASE EditGateway
  BY <1>5, Zenon DEF EditGateway, k8sVars, workerVars, SpecOf, AddressOf, Outside!Edit, Outside!Next
<1>6. CASE \/ StartWorker \/ SkipEvent \/ TakeEvent \/ Drain \/ MutateAKS
           \/ GetAppGwFails \/ GetAppGw \/ HealthProbesCollection
           \/ BackendHTTPSettingsCollection \/ BuildFails \/ BackendAddressPools
           \/ RequestRoutingRules \/ SkipUpdate
  <2>1. UNCHANGED <<api, gw, configCache>>
    BY <1>6, Zenon
       DEF StartWorker, SkipEvent, TakeEvent, Drain, MutateAKS, GetAppGwFails, GetAppGw,
           HealthProbesCollection, BackendHTTPSettingsCollection, BuildFails, BackendAddressPools,
           RequestRoutingRules, SkipUpdate, Return, k8sVars, workerVars
  <2> QED BY <2>1, Unseen, Zenon
<1>7. CASE \/ \E k \in Keys : Informer(k) \/ ResyncTimer(k)
           \/ \E kind \in Kinds : Handler(kind)
           \/ Restart \/ UNCHANGED vars
  <2>1. UNCHANGED <<api, gw, configCache>>
    BY <1>7, Zenon DEF Informer, ResyncTimer, Handler, InformerSync, Resync, Handle, Restart, vars, k8sVars,
                workerVars
  <2> QED BY <2>1, Unseen, Zenon
<1> QED BY <1>1, <1>2, <1>3, <1>4, <1>5, <1>6, <1>7, Zenon DEF Next, WorkerStep

\* The controller implements Effects, in clusters of any size and whatever fails:
\* in the cluster it writes nothing but addresses, into ingresses that exist and
\* without undoing what users wrote; on the gateway it puts only configurations
\* without dangling references, made of its own ingresses, and never the one it
\* knows to be applied.
THEOREM ControllerImplementsEffects == Spec => HasOnlyEffects
<1>1. Init => Outside!Init
  <2> SUFFICES ASSUME Init PROVE Outside!Init
    BY Zenon
  <2>1. K8sTypeOK
    BY InitTypes, Zenon DEF TypeOK
  <2>2. AddressOf \in [IngressKeys -> {None, GatewayIP}]
    BY <2>1, StoredSpec, Zenon DEF AddressOf
  <2> QED BY <2>2, Zenon DEF Init, Outside!Init
<1>2. Init => GenServed
  BY Zenon DEF Init, GenServed
<1>3. TypeOK /\ GenServed /\ [Next]_vars => GenServed'
  BY GenServedStep, Zenon
<1>4. TypeOK /\ GenServed /\ [Next]_vars => [Outside!Next]_(Outside!vars)
  BY StepSeen, Zenon
<1> QED BY <1>1, <1>2, <1>3, <1>4, TypeCorrect, PTL DEF Spec, HasOnlyEffects, Outside!Spec

-----------------------------------------------------------------------------
(* No event that matters is lost: CurrentInv is an invariant, and with it    *)
(* CacheCurrent and TornBuildIsRepaired.  The argument: a step of an informer *)
(* leaves a store that agrees with the one before, in the sense of Agree     *)
(* below, or queues a notification that the handlers forward and that the    *)
(* worker acts on.                                                           *)

-----------------------------------------------------------------------------
(* When do two stores give the same configurations?  Two stores agree when   *)
(* Build tells no difference between them.  A change under one key leaves a  *)
(* store that agrees with the one before, or makes that key relevant.        *)

\* The events of some namespaces are ignored, while their ingresses are
\* listed all the same: nobody annotates one of them for the gateway.
IgnoredNotAnnotated ==
    \A i \in IngressKeys : i[2] \in Ignored => \A spec \in Objects[i] : ~ spec.class

IsStore(s) == DOMAIN s = Keys /\ \A k \in Keys : s[k] \in Stored(k)

\* Build tells no difference between the stores s and t.
Agree(s, t) ==
    /\ PruneIngress(s) = PruneIngress(t)
    /\ \A b \in Backends(PruneIngress(s)) :
          s[b] = t[b] /\ s[EndpointsOf(b)] = t[EndpointsOf(b)]
    /\ \A b \in RuleBackends(PruneIngress(s)) :
          generateHealthProbe(s, b) = generateHealthProbe(t, b)

-----------------------------------------------------------------------------
(* What follows from agreement. *)

\* Stores that agree give the same probes,
LEMMA AgreeProbes ==
    ASSUME NEW s, NEW t, Agree(s, t), NEW c, c.ingresses = PruneIngress(s), ProbesFrom(c, s)
    PROVE  ProbesFrom(c, t)
  BY Zenon DEF Agree, ProbesFrom, ProbesOf

\* the same ports of a backend,
LEMMA AgreePorts ==
    ASSUME NEW s, NEW t, Agree(s, t), NEW b \in Backends(PruneIngress(s))
    PROVE  BackendPorts(s, b) = BackendPorts(t, b)
  BY Zenon DEF Agree, BackendPorts, resolvePortName

\* the same HTTP settings,
LEMMA AgreeSettings ==
    ASSUME NEW s, NEW t, Agree(s, t), NEW c, c.ingresses = PruneIngress(s), SettingsFrom(c, s)
    PROVE  SettingsFrom(c, t)
<1> DEFINE I == c.ingresses
<1>1. \A b \in Backends(I) : BackendPorts(s, b) = BackendPorts(t, b)
  BY AgreePorts, Zenon
<1>2. Unresolved(I, s) = Unresolved(I, t) /\ Ambiguous(I, s) = Ambiguous(I, t)
  BY <1>1, Zenon DEF Unresolved, Ambiguous
<1>3. \A b \in ServiceKeys : SettingsOf(I, s, b) = SettingsOf(I, t, b)
  BY <1>1, <1>2, Zenon DEF SettingsOf
<1> QED BY <1>3, Zenon DEF SettingsFrom

\* Only backends have settings, so only their endpoints make a pool.
LEMMA AgreePoolOf ==
    ASSUME NEW s, NEW t, Agree(s, t), NEW c, c.ingresses = PruneIngress(s), SettingsFrom(c, s),
           NEW b \in ServiceKeys
    PROVE  PoolOf(c.settings[b], s, b) = PoolOf(c.settings[b], t, b)
<1>1. CASE b \in Backends(PruneIngress(s))
  BY <1>1, Zenon DEF Agree, PoolOf
<1>2. CASE b \notin Backends(PruneIngress(s))
  <2>1. c.settings[b] = None
    BY <1>2, Zenon DEF SettingsFrom, SettingsOf
  <2> QED BY <2>1, Zenon DEF PoolOf
<1> QED BY <1>1, <1>2, Zenon

\* the same pools and rules,
LEMMA AgreePools ==
    ASSUME NEW s, NEW t, Agree(s, t), NEW c, c.ingresses = PruneIngress(s), SettingsFrom(c, s)
    PROVE  /\ PoolsFrom(c, s) => PoolsFrom(c, t)
           /\ RulesFrom(c, s) => RulesFrom(c, t)
<1>1. PoolsFrom(c, s) => PoolsFrom(c, t)
  BY AgreePoolOf DEF PoolsFrom
<1>2. ASSUME NEW b \in ServiceKeys PROVE RulesOf(c, s, b) = RulesOf(c, t, b)
  <2>1. PoolOf(c.settings[b], s, b) = PoolOf(c.settings[b], t, b)
    BY AgreePoolOf
  <2> QED BY <2>1, Zenon DEF RulesOf
<1> QED BY <1>1, <1>2, Zenon DEF RulesFrom

\* and so the same configuration.
LEMMA AgreeBuilt ==
    ASSUME NEW s, NEW t, Agree(s, t), NEW c, BuiltFrom(c, s)
    PROVE  BuiltFrom(c, t)
<1>1. c.ingresses = PruneIngress(s) /\ c.ingresses = PruneIngress(t)
  BY Zenon DEF BuiltFrom, Agree
<1> QED BY <1>1, AgreeProbes, AgreeSettings, AgreePools, Zenon DEF BuiltFrom

\* If all backends of a store are tracked, so are those of one it agrees with.
LEMMA AgreeTracked ==
    ASSUME NEW s, NEW t, Agree(s, t), AllTracked(t)
    PROVE  AllTracked(s)
  BY Zenon DEF Agree, AllTracked

\* What is relevant in a store is relevant in one it agrees with.
LEMMA AgreeRelevant ==
    ASSUME NEW s, NEW t, Agree(s, t), NEW k, Relevant(k, s)
    PROVE  Relevant(k, t)
<1>1. CASE k[1] \in {"ingress", "service"}
  BY <1>1, Zenon DEF Relevant
<1>2. CASE k[1] = "endpoints" /\ ServiceOf(k) \in Backends(PruneIngress(s))
  BY <1>2, Zenon DEF Relevant, Agree
<1>3. ASSUME k[1] = "pod", NEW b \in RuleBackends(PruneIngress(s)),
             b[2] = k[2], s[b] # Absent, hasTCPPort(s[b]), Selects(s, b, k)
      PROVE  Relevant(k, t)
  <2>1. s[b] = t[b] /\ b \in RuleBackends(PruneIngress(t))
    BY <1>3, Zenon DEF Agree, Backends
  <2> QED BY <1>3, <2>1, Zenon DEF Relevant, Selects
<1> QED BY <1>1, <1>2, <1>3, Zenon DEF Relevant

-----------------------------------------------------------------------------
(* A change of the store under one key. *)

\* The ingresses that are listed are in namespaces whose events are forwarded,
\* and so are their backends.
LEMMA BackendForwards ==
    ASSUME IgnoredNotAnnotated, NEW s, IsStore(s), NEW b \in Backends(PruneIngress(s))
    PROVE  Forwards(b[2])
<1>1. PICK i \in IngressKeys : PruneIngress(s)[i] # Absent /\ i[2] = b[2]
  BY Zenon DEF Backends, RuleBackends, DefaultBackends
<1>2. Watches(i[2]) /\ s[i] # Absent /\ s[i].spec.class
  BY <1>1, Zenon DEF PruneIngress, ListHTTPIngresses, IsIngressApplicationGateway
<1>3. i \in Keys /\ i[1] = "ingress"
  BY Zenon DEF IngressKeys, Keys, Kinds
<1>4. s[i] \in [spec : Objects[i], ip : {None, GatewayIP}]
  BY <1>2, <1>3, Zenon DEF IsStore, Stored
<1>5. i[2] \notin Ignored
  BY <1>2, <1>4, Zenon DEF IgnoredNotAnnotated
<1> QED BY <1>1, <1>2, <1>5, Zenon DEF Forwards

\* The lookups of PruneIngress read ingresses only.
LEMMA SameIngresses ==
    ASSUME NEW s, NEW t, \A i \in IngressKeys : s[i] = t[i]
    PROVE  PruneIngress(s) = PruneIngress(t)
  BY Zenon DEF PruneIngress, ListHTTPIngresses

\* The probe of a backend depends on its service, its endpoints and the pods
\* the service selects.
LEMMA SameProbe ==
    ASSUME NEW s, NEW t, NEW b,
           s[b] = t[b], s[EndpointsOf(b)] = t[EndpointsOf(b)],
           \A p \in PodKeys : \/ s[p] = t[p]
                              \/ p[2] # b[2]
                              \/ s[b] = Absent
                              \/ ~ hasTCPPort(s[b])
                              \/ ~ Selects(s, b, p)
    PROVE  generateHealthProbe(s, b) = generateHealthProbe(t, b)
<1>1. BackendPorts(s, b) = BackendPorts(t, b)
  BY Zenon DEF BackendPorts, resolvePortName
<1>2. CASE s[b] = Absent \/ BackendPorts(s, b) = {}
  BY <1>1, <1>2, Zenon DEF generateHealthProbe
<1>3. CASE s[b] # Absent /\ BackendPorts(s, b) # {}
  <2>1. hasTCPPort(s[b])
    BY <1>3, Zenon DEF hasTCPPort, BackendPorts
  <2>2. ListPodsByServiceSelector(s, b) = ListPodsByServiceSelector(t, b)
    BY <1>3, <2>1, Zenon DEF ListPodsByServiceSelector, Selects
  <2>3. \A p \in ListPodsByServiceSelector(s, b) : s[p] = t[p]
    BY <1>3, <2>1, Zenon DEF ListPodsByServiceSelector
  <2> QED BY <1>1, <1>3, <2>2, <2>3, Zenon DEF generateHealthProbe
<1> QED BY <1>2, <1>3, Zenon

\* Store t differs from store s under key k only, and the handlers do not
\* forward the difference, or it is not relevant: then s and t agree.
LEMMA OneKeyAgrees ==
    ASSUME IgnoredNotAnnotated, NEW s, IsStore(s), NEW k \in Keys, NEW v \in Stored(k),
           NEW tomb,
           \/ ~ Forwarded([key |-> k, old |-> s[k], new |-> v, tomb |-> tomb])
           \/ ~ Relevant(k, s)
    PROVE  Agree(s, [s EXCEPT ![k] = v])
<1> DEFINE t == [s EXCEPT ![k] = v]
           n == [key |-> k, old |-> s[k], new |-> v, tomb |-> tomb]
<1>1. t[k] = v /\ \A j \in Keys : j # k => t[j] = s[j]
  BY Zenon DEF IsStore
<1>2. IngressKeys \subseteq Keys /\ ServiceKeys \subseteq Keys /\ PodKeys \subseteq Keys
  BY Zenon DEF IngressKeys, ServiceKeys, PodKeys, Keys, Kinds
<1>3. \A b \in ServiceKeys : EndpointsOf(b) \in Keys /\ EndpointsOf(b)[1] = "endpoints" /\ b[1] = "service"
                             /\ ServiceOf(EndpointsOf(b)) = b
  BY DEF EndpointsOf, ServiceOf, ServiceKeys, Keys, Kinds
<1>4. \A p \in PodKeys : p[1] = "pod"
  BY Zenon DEF PodKeys
<1>5. \A i \in IngressKeys : i[1] = "ingress"
  BY Zenon DEF IngressKeys
<1>6. Backends(PruneIngress(s)) \subseteq ServiceKeys
      /\ RuleBackends(PruneIngress(s)) \subseteq Backends(PruneIngress(s))
  BY Zenon DEF Backends, RuleBackends, DefaultBackends
<1>7. ASSUME s[k] = v
      PROVE  Agree(s, t)
  <2>1. \A j \in Keys : s[j] = t[j]
    BY <1>1, <1>7, Zenon
  <2>2. PruneIngress(s) = PruneIngress(t)
    BY <1>2, <2>1, SameIngresses, Zenon
  <2>3. ASSUME NEW b \in ServiceKeys
        PROVE  generateHealthProbe(s, b) = generateHealthProbe(t, b)
    <3>1. s[b] = t[b] /\ s[EndpointsOf(b)] = t[EndpointsOf(b)] /\ \A p \in PodKeys : s[p] = t[p]
      BY <1>2, <1>3, <2>1, Zenon
    <3> HIDE DEF t
    <3> QED BY <3>1, SameProbe, Zenon
  <2> QED BY <1>2, <1>3, <1>6, <2>1, <2>2, <2>3, Zenon DEF Agree
<1>8. CASE k[1] = "ingress" /\ s[k] # v
  <2>1. ~ Forwarded(n)
    BY <1>8, Zenon DEF Relevant
  <2>2. PruneIngress(s) = PruneIngress(t)
    <3>1. k \in IngressKeys
      BY <1>8, Zenon DEF IngressKeys, Keys
    <3>2. k \notin ListHTTPIngresses(s) /\ k \notin ListHTTPIngresses(t)
      <4>1. ~ Forwards(k[2]) \/ (~ IsIngressApplicationGateway(s[k]) /\ ~ IsIngressApplicationGateway(v))
        BY <1>8, <2>1, Zenon DEF Forwarded
      <4>2. CASE ~ IsIngressApplicationGateway(s[k]) /\ ~ IsIngressApplicationGateway(v)
        BY <1>1, <4>2, Zenon DEF ListHTTPIngresses
      <4>3. CASE ~ Watches(k[2])
        BY <4>3, Zenon DEF ListHTTPIngresses
      <4>4. CASE k[2] \in Ignored
        <5>1. s[k] # Absent => ~ s[k].spec.class
          BY <1>8, <3>1, <4>4, Zenon DEF IsStore, Stored, IgnoredNotAnnotated
        <5>2. v # Absent => ~ v.spec.class
          BY <1>8, <3>1, <4>4, Zenon DEF Stored, IgnoredNotAnnotated
        <5> QED BY <5>1, <5>2, <4>2, Zenon DEF IsIngressApplicationGateway
      <4> QED BY <4>1, <4>2, <4>3, <4>4, Zenon DEF Forwards
    <3>3. \A i \in IngressKeys : i # k =>
             s[i] = t[i] /\ (i \in ListHTTPIngresses(s) <=> i \in ListHTTPIngresses(t))
      BY <1>1, <1>2, Zenon DEF ListHTTPIngresses
    <3> QED BY <3>2, <3>3, Zenon DEF PruneIngress
  <2>3. \A b \in ServiceKeys : s[b] = t[b] /\ s[EndpointsOf(b)] = t[EndpointsOf(b)]
    BY <1>1, <1>2, <1>3, <1>8, Zenon
  <2>4. \A p \in PodKeys : s[p] = t[p]
    BY <1>1, <1>2, <1>4, <1>8, Zenon
  <2>5. ASSUME NEW b \in ServiceKeys
        PROVE  generateHealthProbe(s, b) = generateHealthProbe(t, b)
    <3>1. s[b] = t[b] /\ s[EndpointsOf(b)] = t[EndpointsOf(b)]
      BY <2>3, Zenon
    <3> HIDE DEF t
    <3> QED BY <2>4, <3>1, SameProbe, Zenon
  <2> QED BY <1>6, <2>2, <2>3, <2>5, Zenon DEF Agree
<1>9. CASE k[1] # "ingress" /\ s[k] # v
  <2>1. PruneIngress(s) = PruneIngress(t)
    <3>1. \A i \in IngressKeys : s[i] = t[i]
      BY <1>1, <1>2, <1>5, <1>9, Zenon
    <3> QED BY <3>1, SameIngresses, Zenon
  <2>2. ~ Forwards(k[2]) \/ ~ Relevant(k, s)
    BY <1>9, Zenon DEF Forwarded
  <2>3. ASSUME NEW b \in Backends(PruneIngress(s))
        PROVE  s[b] = t[b] /\ s[EndpointsOf(b)] = t[EndpointsOf(b)]
    <3>1. b \in ServiceKeys /\ Forwards(b[2]) /\ EndpointsOf(b)[2] = b[2]
      BY <1>6, BackendForwards, Zenon DEF EndpointsOf
    <3>2. b # k
      BY <1>3, <2>2, <3>1, Zenon DEF Relevant
    <3>3. EndpointsOf(b) # k
      BY <1>3, <2>2, <3>1, Zenon DEF Relevant
    <3> QED BY <1>1, <1>2, <1>3, <3>1, <3>2, <3>3, Zenon
  <2>4. ASSUME NEW b \in RuleBackends(PruneIngress(s))
        PROVE  generateHealthProbe(s, b) = generateHealthProbe(t, b)
    <3>1. b \in Backends(PruneIngress(s)) /\ Forwards(b[2])
      BY <1>6, BackendForwards, Zenon
    <3>2. ASSUME NEW p \in PodKeys, s[p] # t[p]
          PROVE  p[2] # b[2] \/ s[b] = Absent \/ ~ hasTCPPort(s[b]) \/ ~ Selects(s, b, p)
      <4>1. p = k /\ k[1] = "pod"
        BY <1>1, <1>2, <1>4, <3>2, Zenon
      <4> QED BY <2>2, <3>1, <4>1, Zenon DEF Relevant
    <3>3. s[b] = t[b] /\ s[EndpointsOf(b)] = t[EndpointsOf(b)]
      BY <2>3, <3>1, Zenon
    <3> HIDE DEF t
    <3> QED BY <3>2, <3>3, SameProbe, Zenon
  <2> QED BY <2>1, <2>3, <2>4, Zenon DEF Agree
<1> QED BY <1>7, <1>8, <1>9, Zenon

-----------------------------------------------------------------------------
(* Events on their way. *)

\* An informer that changes the store queues a notification behind the others.
LEMMA SyncPending ==
    ASSUME K8sTypeOK, NEW k \in Keys, InformerSync(k)
    PROVE  /\ \A j \in Keys : Pending(j) => Pending(j)'
           /\ Forwarded([key |-> k, old |-> store[k], new |-> api[k], tomb |-> FALSE]) => Pending(k)'
<1>1. PICK tomb \in {FALSE} \cup {Tombstones /\ api[k] = Absent} :
             notify' = IF store[k] = api[k] THEN notify
                       ELSE [notify EXCEPT ![k[1]] = Append(@,
                               [key |-> k, old |-> store[k], new |-> api[k], tomb |-> tomb])]
  BY Zenon DEF InformerSync
<1> DEFINE n == [key |-> k, old |-> store[k], new |-> api[k], tomb |-> tomb]
<1>2. work' = work /\ k[1] \in Kinds /\ notify \in [Kinds -> Seq(Notifications)]
  BY Zenon DEF InformerSync, K8sTypeOK, Keys
<1>3. CASE store[k] = api[k]
  <2>1. notify' = notify
    BY <1>1, <1>3, Zenon
  <2>2. ~ Forwarded([key |-> k, old |-> store[k], new |-> api[k], tomb |-> FALSE])
    BY <1>3, Zenon DEF Forwarded
  <2> QED BY <1>2, <2>1, <2>2, Zenon DEF Pending
<1>4. CASE store[k] # api[k]
  <2>1. notify' = [notify EXCEPT ![k[1]] = Append(@, n)]
    BY <1>1, <1>4, Zenon
  <2>2. \A kind \in Kinds : \A m \in DOMAIN notify[kind] :
           m \in DOMAIN notify'[kind] /\ notify'[kind][m] = notify[kind][m]
    BY <1>2, <2>1
  <2>3. \A j \in Keys : Pending(j) => Pending(j)'
    BY <1>2, <2>2 DEF Pending
  <2>4. Len(notify'[k[1]]) \in DOMAIN notify'[k[1]] /\ notify'[k[1]][Len(notify'[k[1]])] = n
    BY <1>2, <2>1
  <2>5. Forwarded([key |-> k, old |-> store[k], new |-> api[k], tomb |-> FALSE]) => Forwarded(n)
    BY Zenon DEF Forwarded
  <2>6. Forwarded(n) => Pending(k)'
    BY <1>2, <2>4 DEF Pending
  <2> QED BY <2>3, <2>5, <2>6, Zenon
<1> QED BY <1>3, <1>4, Zenon

\* The resync timer adds to an empty queue.
LEMMA ResyncPending ==
    ASSUME K8sTypeOK, NEW k \in Keys, Resync(k)
    PROVE  \A j \in Keys : Pending(j) => Pending(j)'
<1>1. work' = work /\ k[1] \in Kinds /\ notify \in [Kinds -> Seq(Notifications)]
  BY Zenon DEF Resync, K8sTypeOK, Keys
<1>2. \A kind \in Kinds : \A m \in DOMAIN notify[kind] :
         m \in DOMAIN notify'[kind] /\ notify'[kind][m] = notify[kind][m]
  BY <1>1 DEF Resync
<1> QED BY <1>1, <1>2 DEF Pending

\* A handler that forwards an event moves it from one queue to the other.
LEMMA HandlePending ==
    ASSUME K8sTypeOK, NEW kind \in Kinds, Handle(kind)
    PROVE  \A j \in Keys : Pending(j) => Pending(j)'
<1> DEFINE q == notify[kind]
<1>1. q \in Seq(Notifications) /\ q # << >> /\ notify' = [notify EXCEPT ![kind] = Tail(q)]
      /\ notify \in [Kinds -> Seq(Notifications)] /\ work \in Seq(Keys)
  BY Zenon DEF Handle, K8sTypeOK
<1>2. \A m \in DOMAIN q : m # 1 => m - 1 \in DOMAIN Tail(q) /\ Tail(q)[m - 1] = q[m]
  BY <1>1
<1>k. Head(q).key \in Keys
  <2>1. Head(q) \in Notifications
    BY <1>1
  <2> QED BY <2>1, Zenon DEF Notifications
<1>3. \A m \in DOMAIN work : m \in DOMAIN work' /\ work'[m] = work[m]
  <2>1. work' = work \/ work' = Append(work, Head(q).key)
    BY Zenon DEF Handle
  <2>2. CASE work' = work
    BY <2>2, Zenon
  <2>3. CASE work' = Append(work, Head(q).key)
    <3> DEFINE e == Head(q).key
    <3>1. work \in Seq(Keys) /\ e \in Keys /\ work' = Append(work, e)
      BY <1>1, <1>k, <2>3, Zenon
    <3> HIDE DEF e
    <3> QED BY <3>1
  <2> QED BY <2>1, <2>2, <2>3, Zenon
<1>4. Forwarded(Head(q)) => Len(work') \in DOMAIN work' /\ work'[Len(work')] = Head(q).key
  BY <1>1, <1>k DEF Handle
<1> SUFFICES ASSUME NEW j \in Keys, Pending(j)
             PROVE  Pending(j)'
  BY Zenon
<1>5. CASE \E m \in DOMAIN work : work[m] = j
  BY <1>3, <1>5, Zenon DEF Pending
<1>6. ASSUME NEW c \in Kinds, NEW m \in DOMAIN notify[c], Forwarded(notify[c][m]), notify[c][m].key = j
      PROVE  Pending(j)'
  <2>1. CASE c # kind
    BY <1>1, <1>6, <2>1, Zenon DEF Pending
  <2>2. CASE c = kind /\ m = 1
    <3>1. q[1] = Head(q)
      BY <1>1
    <3> QED BY <1>4, <1>6, <2>2, <3>1, Zenon DEF Pending
  <2>3. CASE c = kind /\ m # 1
    <3>1. m - 1 \in DOMAIN notify'[c] /\ notify'[c][m - 1] = notify[c][m]
      BY <1>1, <1>2, <1>6, <2>3, Zenon
    <3> QED BY <1>6, <3>1, Zenon DEF Pending
  <2> QED BY <2>1, <2>2, <2>3, Zenon
<1> QED BY <1>5, <1>6, Zenon DEF Pending

\* Taking an event off the channel takes no other.
LEMMA TailPending ==
    ASSUME K8sTypeOK, work # << >>, work' = Tail(work), notify' = notify
    PROVE  \A j \in Keys : Pending(j) => j = Head(work) \/ Pending(j)'
<1>1. \A m \in DOMAIN work : work[m] = Head(work) \/ (m - 1 \in DOMAIN work' /\ work'[m - 1] = work[m])
  BY DEF K8sTypeOK
<1> QED BY <1>1, Zenon DEF Pending

-----------------------------------------------------------------------------
(* Steps. *)

\* A step of an informer leaves a store that agrees with the one before, or
\* an event that the worker will act on is on its way.
LEMMA SyncAgrees ==
    ASSUME IgnoredNotAnnotated, K8sTypeOK, NEW k \in Keys, InformerSync(k)
    PROVE  Agree(store, store') \/ RepairComing'
<1> DEFINE n == [key |-> k, old |-> store[k], new |-> api[k], tomb |-> FALSE]
<1>1. IsStore(store) /\ api[k] \in Stored(k) /\ store' = [store EXCEPT ![k] = api[k]]
  BY Zenon DEF K8sTypeOK, IsStore, InformerSync
<1>2. CASE ~ Forwarded(n) \/ ~ Relevant(k, store)
  BY <1>1, <1>2, OneKeyAgrees, Zenon
<1>3. CASE Forwarded(n) /\ Relevant(k, store)
  <2>1. Pending(k)'
    BY <1>3, SyncPending, Zenon
  <2>2. Relevant(k, store')
    <3>1. CASE k[1] \in {"ingress", "service"}
      BY <3>1, Zenon DEF Relevant
    <3>2. CASE k[1] \notin {"ingress", "service"}
      <4>1. \A j \in IngressKeys \cup ServiceKeys : store'[j] = store[j]
        BY <1>1, <3>2, Zenon DEF IngressKeys, ServiceKeys, Keys, Kinds, IsStore
      <4>2. PruneIngress(store') = PruneIngress(store)
        BY <4>1, SameIngresses, Zenon
      <4>3. RuleBackends(PruneIngress(store)) \subseteq ServiceKeys
        BY Zenon DEF RuleBackends
      <4> QED BY <1>3, <4>1, <4>2, <4>3, Zenon DEF Relevant, Selects
    <3> QED BY <3>1, <3>2, Zenon
  <2> QED BY <2>1, <2>2, Zenon DEF RepairComing
<1> QED BY <1>2, <1>3, Zenon

\* Steps that leave the worker alone.
LEMMA Frame ==
    ASSUME CurrentInv, UNCHANGED <<pc, gen, configCache, err>>,
           \/ RepairComing'
           \/ Agree(store, store') /\ \A j \in Keys : Pending(j) => Pending(j)'
    PROVE  CurrentInv'
<1>1. CASE RepairComing'
  BY <1>1, Zenon DEF CurrentInv, BuildCurrent, AppliedCurrent
<1>2. CASE Agree(store, store') /\ \A j \in Keys : Pending(j) => Pending(j)'
  <2>1. RepairComing => RepairComing'
    BY <1>2, AgreeRelevant, Zenon DEF RepairComing
  <2>2. AllTracked(store)' => AllTracked(store)
    BY <1>2, AgreeTracked, Zenon
  <2>3. PartsCurrent => PartsCurrent'
    <3> SUFFICES ASSUME PartsCurrent PROVE PartsCurrent'
      BY Zenon
    <3>1. gen.ingresses = PruneIngress(store) /\ gen'.ingresses = PruneIngress(store')
      BY <1>2, Zenon DEF PartsCurrent, Agree
    <3>2. ProbesFrom(gen, store) => ProbesFrom(gen, store')
      BY <1>2, <3>1, AgreeProbes, Zenon
    <3>3. SettingsFrom(gen, store) => SettingsFrom(gen, store')
      BY <1>2, <3>1, AgreeSettings, Zenon
    <3>4. SettingsFrom(gen, store) => /\ PoolsFrom(gen, store) => PoolsFrom(gen, store')
                                      /\ RulesFrom(gen, store) => RulesFrom(gen, store')
      BY <1>2, <3>1, AgreePools, Zenon
    <3> QED BY <3>1, <3>2, <3>3, <3>4, Zenon DEF PartsCurrent
  <2>4. BuiltFrom(configCache, store) => BuiltFrom(configCache', store')
    BY <1>2, AgreeBuilt, Zenon
  <2> QED BY <2>1, <2>2, <2>3, <2>4, Zenon DEF CurrentInv, BuildCurrent, AppliedCurrent
<1> QED BY <1>1, <1>2, Zenon

\* A store agrees with itself.
LEMMA SameStore == ASSUME NEW s PROVE Agree(s, s)
  BY Zenon DEF Agree

\* The worker's check passes an event that is relevant to tracked backends.
LEMMA RelevantIsProcessed ==
    ASSUME IgnoredNotAnnotated, K8sTypeOK, AllTracked(store),
           NEW k \in Keys, Relevant(k, store), ~ CheckPanics(k)
    PROVE  ShouldProcess(k)
<1>0. ASSUME NEW b \in RuleBackends(PruneIngress(store))
      PROVE  HasPath(store, b[3])
  BY <1>0, Zenon DEF RuleBackends, PruneIngress, HasPath
<1>1. CASE ~ Checked(k)
  BY <1>1, Zenon DEF ShouldProcess
<1>2. CASE k[1] = "endpoints"
  <2>1. ServiceOf(k) \in Backends(PruneIngress(store))
    BY <1>2, Zenon DEF Relevant
  <2>2. ServiceOf(k) \in RuleBackends(PruneIngress(store)) /\ store[ServiceOf(k)] # Absent
        /\ EndpointsOf(ServiceOf(k)) # AadPodIdentityMic
    BY <2>1, Zenon DEF AllTracked
  <2>3. EndpointsOf(ServiceOf(k)) = k
    BY <1>2 DEF EndpointsOf, ServiceOf, Keys
  <2>4. ServiceOf(k) \in CheckedServices(store, k)
    BY <1>2, <2>2, Zenon DEF CheckedServices
  <2>5. ~ NilRuleFirst(store, ServiceOf(k)[3])
    BY <1>2, <2>2, <2>3, <2>4, Zenon DEF CheckPanics, Checked
  <2> QED BY <1>0, <2>2, <2>3, <2>4, <2>5, Zenon DEF ShouldProcess, isServiceReferencedByAnyIngress
<1>3. CASE k[1] = "pod"
  <2>1. PICK b \in RuleBackends(PruneIngress(store)) :
               b[2] = k[2] /\ store[b] # Absent /\ hasTCPPort(store[b]) /\ Selects(store, b, k)
    BY <1>3, Zenon DEF Relevant
  <2>2. b \in ServiceKeys /\ b \in Backends(PruneIngress(store))
    BY Zenon DEF RuleBackends, Backends
  <2>3. Watches(b[2])
    BY <2>2, BackendForwards, Zenon DEF Forwards, IsStore, K8sTypeOK
  <2>4. b \in CheckedServices(store, k)
    BY <1>3, <2>1, <2>2, <2>3, Zenon DEF CheckedServices, ListServices
  <2>5. k # AadPodIdentityMic
    BY <1>3 DEF AadPodIdentityMic
  <2>6. ~ NilRuleFirst(store, b[3])
    BY <1>3, <2>4, <2>5, Zenon DEF CheckPanics, Checked
  <2> QED BY <1>0, <2>4, <2>5, <2>6, Zenon DEF ShouldProcess, isServiceReferencedByAnyIngress
<1> QED BY <1>1, <1>2, <1>3, Zenon DEF Checked

\* The process ends: nothing is being built and nothing is cached.
LEMMA DieCurrent == ASSUME Die PROVE CurrentInv'
  BY Zenon DEF Die, CurrentInv, BuildCurrent, AppliedCurrent

\* A reconcile that failed promises nothing about the cache.
LEMMA ErrorCurrent == ASSUME Return(TRUE) PROVE CurrentInv'
  BY Zenon DEF Return, CurrentInv, BuildCurrent, AppliedCurrent

\* A step of Build that reads the stores and writes one part.
LEMMA BuildStep ==
    ASSUME CurrentInv, UNCHANGED k8sVars, UNCHANGED configCache,
           pc \in {"probes", "settings", "pools", "rules"},
           pc' \in {"settings", "pools", "rules", "deploy"},
           PartsCurrent => PartsCurrent'
    PROVE  CurrentInv'
<1>1. UNCHANGED <<store, notify, work>>
  BY Zenon DEF k8sVars
<1>2. AllTracked(store)' <=> AllTracked(store)
  BY <1>1, Zenon DEF AllTracked
<1>3. RepairComing => RepairComing'
  BY <1>1, Zenon DEF RepairComing, Pending, Relevant
<1> QED BY <1>2, <1>3, Zenon DEF CurrentInv, BuildCurrent, AppliedCurrent

\* Every step keeps the inductive invariant: one case for every action.
LEMMA CurrentStep ==
    ASSUME IgnoredNotAnnotated, TypeOK, CurrentInv, [Next]_vars
    PROVE  CurrentInv'
<1>k. K8sTypeOK
  BY Zenon DEF TypeOK
<1>s. ASSUME UNCHANGED <<store, notify, work>>
      PROVE  Agree(store, store') /\ \A j \in Keys : Pending(j) => Pending(j)'
  BY <1>s, SameStore, Zenon DEF Pending
<1>1. CASE UNCHANGED vars
  BY <1>1, <1>s, Frame, Zenon DEF vars
<1>2. ASSUME NEW k \in Keys, NEW v \in Objects[k] \cup {Absent}, User(k, v)
      PROVE  CurrentInv'
  BY <1>2, <1>s, Frame, Zenon DEF User, ApiChange, workerVars
<1>3. ASSUME NEW k \in Keys, Informer(k)
      PROVE  CurrentInv'
  <2>1. InformerSync(k) /\ UNCHANGED <<pc, gen, configCache, err>>
    BY <1>3, Zenon DEF Informer, workerVars
  <2>2. \A j \in Keys : Pending(j) => Pending(j)'
    BY <1>k, <2>1, SyncPending, Zenon
  <2>3. Agree(store, store') \/ RepairComing'
    BY <1>k, <2>1, SyncAgrees, Zenon
  <2> QED BY <2>1, <2>2, <2>3, Frame, Zenon
<1>4. ASSUME NEW k \in Keys, ResyncTimer(k)
      PROVE  CurrentInv'
  <2>1. Resync(k) /\ UNCHANGED <<pc, gen, configCache, err, store>>
    BY <1>4, Zenon DEF ResyncTimer, Resync, workerVars
  <2> QED BY <1>k, <2>1, ResyncPending, SameStore, Frame, Zenon
<1>5. ASSUME NEW kind \in Kinds, Handler(kind)
      PROVE  CurrentInv'
  <2>1. Handle(kind) /\ UNCHANGED <<pc, gen, configCache, err, store>>
    BY <1>5, Zenon DEF Handler, Handle, workerVars
  <2> QED BY <1>k, <2>1, HandlePending, SameStore, Frame, Zenon
<1>6. CASE (\E kind \in Kinds : HandlerPanic(kind)) \/ Kill \/ WorkerPanic
  BY <1>6, DieCurrent, Zenon DEF HandlerPanic, Kill, WorkerPanic
<1>7. CASE EditGateway
  BY <1>7, <1>s, Frame, Zenon DEF EditGateway, k8sVars, workerVars
<1>8. CASE Restart \/ StartWorker
  BY <1>8, Zenon DEF Restart, StartWorker, CurrentInv, BuildCurrent, AppliedCurrent
<1>9. CASE SkipEvent
  <2>1. /\ pc = "idle" /\ work # << >> /\ work' = Tail(work)
        /\ UNCHANGED <<pc, gen, configCache, err, store, notify>>
        /\ ~ ShouldProcess(Head(work)) /\ ~ CheckPanics(Head(work))
    BY <1>9, Zenon DEF SkipEvent, workerVars
  <2>2. Head(work) \in Keys
    BY <1>k, <2>1 DEF K8sTypeOK
  <2>3. ASSUME AllTracked(store), RepairComing
        PROVE  RepairComing'
    <3>1. PICK k \in Keys : Pending(k) /\ Relevant(k, store)
      BY <2>3, Zenon DEF RepairComing
    <3>2. k # Head(work)
      BY <1>k, <2>1, <2>2, <2>3, <3>1, RelevantIsProcessed, Zenon
    <3>3. Pending(k)'
      BY <1>k, <2>1, <3>1, <3>2, TailPending, Zenon
    <3>4. Relevant(k, store')
      BY <2>1, <3>1, Zenon
    <3> QED BY <3>3, <3>4, Zenon DEF RepairComing
  <2>4. AllTracked(store)' <=> AllTracked(store)
    BY <2>1, Zenon DEF AllTracked
  <2> QED BY <2>1, <2>3, <2>4, Zenon DEF CurrentInv, BuildCurrent, AppliedCurrent
<1>10. CASE TakeEvent \/ Drain \/ MutateAKS
  BY <1>10, Zenon DEF TakeEvent, Drain, MutateAKS, CurrentInv, BuildCurrent, AppliedCurrent
<1>11. ASSUME NEW i \in IngressKeys, UpdateIngressStatus(i)
       PROVE  CurrentInv'
  BY <1>11, <1>s, Frame, Zenon DEF UpdateIngressStatus
<1>12. CASE GetAppGw
  <2>1. PartsCurrent'
    BY <1>12, Zenon DEF GetAppGw, PartsCurrent, k8sVars
  <2> QED BY <1>12, <2>1, Zenon DEF GetAppGw, CurrentInv, BuildCurrent, AppliedCurrent
<1>13. CASE GetAppGwFails \/ BuildFails
  BY <1>13, ErrorCurrent, Zenon DEF GetAppGwFails, BuildFails
<1>g. pc \in {"probes", "settings", "pools", "rules", "deploy"} => gen \in Configs
  BY Zenon DEF TypeOK
<1>14. CASE HealthProbesCollection
  <2>1. PartsCurrent => PartsCurrent'
    BY <1>14, <1>g, Zenon DEF HealthProbesCollection, PartsCurrent, ProbesFrom, Configs, k8sVars
  <2> QED BY <1>14, <2>1, BuildStep, Zenon DEF HealthProbesCollection
<1>15. CASE BackendHTTPSettingsCollection
  <2>1. PartsCurrent => PartsCurrent'
    BY <1>15, <1>g, Zenon DEF BackendHTTPSettingsCollection, PartsCurrent, ProbesFrom, SettingsFrom,
                           Configs, k8sVars
  <2> QED BY <1>15, <2>1, BuildStep, Zenon DEF BackendHTTPSettingsCollection
<1>16. CASE BackendAddressPools
  <2>1. PartsCurrent => PartsCurrent'
    BY <1>16, <1>g, Zenon
       DEF BackendAddressPools, PartsCurrent, ProbesFrom, SettingsFrom, PoolsFrom, Configs, k8sVars
  <2> QED BY <1>16, <2>1, BuildStep, Zenon DEF BackendAddressPools
<1>17. CASE RequestRoutingRules
  <2>1. PartsCurrent => PartsCurrent'
    <3>1. PICK r \in [ServiceKeys -> BOOLEAN] : /\ \A b \in ServiceKeys : r[b] \in RulesOf(gen, store, b)
                                               /\ gen' = [gen EXCEPT !.rules = r]
      BY <1>17, Zenon DEF RequestRoutingRules
    <3>2. RulesFrom(gen', store)
      BY <1>17, <1>g, <3>1, Zenon DEF RequestRoutingRules, RulesFrom, RulesOf, Configs
    <3> QED BY <1>17, <1>g, <3>1, <3>2, Zenon
            DEF RequestRoutingRules, PartsCurrent, ProbesFrom, SettingsFrom, PoolsFrom, Configs, k8sVars
  <2> QED BY <1>17, <2>1, BuildStep, Zenon DEF RequestRoutingRules
<1>18. CASE SkipUpdate \/ UpdateGateway
  <2>1. pc = "deploy" /\ pc' = "idle" /\ configCache' = gen /\ UNCHANGED k8sVars
    BY <1>18, Zenon DEF SkipUpdate, UpdateGateway, configIsSame, Return
  <2>2. UNCHANGED <<store, notify, work>>
    BY <2>1, Zenon DEF k8sVars
  <2>3. PartsCurrent => BuiltFrom(configCache', store')
    BY <2>1, <2>2, Zenon DEF PartsCurrent, BuiltFrom
  <2>4. AllTracked(store)' <=> AllTracked(store)
    BY <2>2, Zenon DEF AllTracked
  <2>5. RepairComing => RepairComing'
    BY <2>2, Zenon DEF RepairComing, Pending, Relevant
  <2> QED BY <2>1, <2>3, <2>4, <2>5, Zenon DEF CurrentInv, BuildCurrent, AppliedCurrent
<1>19. CASE UpdateGatewayFails
  BY <1>19, DieCurrent, ErrorCurrent, Zenon DEF UpdateGatewayFails
<1> QED
  BY <1>1, <1>2, <1>3, <1>4, <1>5, <1>6, <1>7, <1>8, <1>9, <1>10, <1>11, <1>12, <1>13, <1>14,
     <1>15, <1>16, <1>17, <1>18, <1>19, Zenon DEF Next, WorkerStep

\* The inductive invariant: at every moment what has been read is still true
\* of the stores, or an event that the worker will act on is on its way.
THEOREM CurrentInvariant ==
    ASSUME IgnoredNotAnnotated
    PROVE  Spec => []CurrentInv
<1>1. Init => CurrentInv
  BY Zenon DEF Init, CurrentInv, BuildCurrent, AppliedCurrent
<1>2. TypeOK /\ CurrentInv /\ [Next]_vars => CurrentInv'
  BY CurrentStep, Zenon
<1> QED BY <1>1, <1>2, TypeCorrect, PTL DEF Spec

\* Nothing that is pending means nothing that repairs is pending.
LEMMA NoRepair == ASSUME NothingPending PROVE ~ RepairComing
  BY DEF NothingPending, RepairComing, Pending

\* No event that matters is lost, in a cluster of any size: when the worker
\* is idle after a reconcile that succeeded and no event is on its way, the
\* configuration applied last is one that Build makes of the present stores.
THEOREM NoLostUpdate ==
    ASSUME IgnoredNotAnnotated
    PROVE  Spec => []CacheCurrent
<1>1. CurrentInv => CacheCurrent
  BY NoRepair, Zenon DEF CurrentInv, AppliedCurrent, CacheCurrent
<1> QED BY <1>1, CurrentInvariant, PTL

\* A configuration in which a rule has lost its pool because the endpoints
\* changed while Build was reading them is followed by another build: the
\* event that leads to it is on its way before ARM refuses the configuration.
THEOREM TornBuildRepair ==
    ASSUME IgnoredNotAnnotated
    PROVE  Spec => []TornBuildIsRepaired
<1>1. CurrentInv => TornBuildIsRepaired
  <2> SUFFICES ASSUME CurrentInv, pc = "deploy", Dangling(gen), AllTracked(store), NothingPending,
                      RulelessBackends(gen.ingresses) = {}
               PROVE  FALSE
    BY Zenon DEF TornBuildIsRepaired
  <2>1. PoolsFrom(gen, store) /\ RulesFrom(gen, store)
    BY NoRepair, Zenon DEF CurrentInv, BuildCurrent, PartsCurrent
  <2> QED BY <2>1, Zenon DEF PoolsFrom, RulesFrom, RulesOf, Dangling
<1> QED BY <1>1, CurrentInvariant, PTL

=============================================================================
