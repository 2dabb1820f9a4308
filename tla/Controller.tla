------------------------------ MODULE Controller ------------------------------
(***************************************************************************)
(* The controller at work: the informers and handlers of K8sContext, the   *)
(* worker that takes events off the Work channel (pkg/worker), the two     *)
(* mutations it makes for an event (pkg/controller), the gateway behind    *)
(* Azure Resource Manager (ARM), and the death and restart of the process. *)
(*                                                                         *)
(* The worker's steps are the moments at which it reads or writes what     *)
(* others share: pc names the step that comes next.                        *)
(***************************************************************************)
EXTENDS ConfigBuilder

CONSTANTS
    PutFailures,        \* how a PUT may fail: a subset of {"rejected", "lost"}
    PanicOnPutError,    \* EnablePanicOnPutError
    Foreign,            \* a configuration the controller did not make
    MaxFailures,        \* bound: failed calls of ARM and of the API server
    MaxCrashes,         \* bound: times the process is killed
    MaxEdits            \* bound: edits of the gateway by others

VARIABLES
    pc,             \* the worker's next step; "down" without a process
    todo,           \* MutateAKS: ingresses whose status is still to be set
    gen,            \* MutateAppGateway: the configuration being built
    configCache,    \* the configuration last applied, None if there is none
    gw,             \* the configuration of the gateway
    err,            \* did the last MutateAppGateway return an error?
    failures, crashes, edits

workerVars == <<pc, todo, gen, configCache, err>>
vars == <<api, store, unsynced, notify, work, changes,
          pc, todo, gen, configCache, gw, err, failures, crashes, edits>>

ASSUME ControllerConstants ==
    /\ PutFailures \subseteq {"rejected", "lost"}
    /\ PanicOnPutError \in BOOLEAN
    /\ MaxFailures \in Nat /\ MaxCrashes \in Nat /\ MaxEdits \in Nat

Steps == {"down", "starting", "idle", "drain", "aks", "status",
          "probes", "settings", "pools", "rules", "deploy"}

Init ==
    /\ K8sInit
    /\ pc = "starting"
    /\ todo = {}
    /\ gen = None
    /\ configCache = None
    /\ gw = None
    /\ err = FALSE
    /\ failures = 0 /\ crashes = 0 /\ edits = 0

-----------------------------------------------------------------------------
(* The process. *)

Running == pc # "down"

\* Informers and handlers run as long as the process does.
Informer(k) == Running /\ InformerSync(k) /\ UNCHANGED <<workerVars, gw, failures, crashes, edits>>
ResyncTimer(k) == Running /\ Resync(k) /\ UNCHANGED <<workerVars, gw, failures, crashes, edits>>
Handler(kind) == Running /\ Handle(kind) /\ UNCHANGED <<workerVars, gw, failures, crashes, edits>>
User(k, v) == ApiChange(k, v) /\ UNCHANGED <<workerVars, gw, failures, crashes, edits>>

\* Someone edits the gateway in the portal.
EditGateway ==
    /\ edits < MaxEdits
    /\ edits' = edits + 1
    /\ gw' = Foreign
    /\ UNCHANGED <<k8sVars, workerVars, failures, crashes>>

\* The process ends, and with it all that only its memory holds.
Die ==
    /\ DropContext
    /\ pc' = "down"
    /\ todo' = {}
    /\ gen' = None
    /\ configCache' = None
    /\ err' = FALSE
    /\ UNCHANGED <<api, changes, edits>>

\* A panic in a handler ends the process.
HandlerPanic(kind) ==
    /\ Running
    /\ HandlerPanics(kind)
    /\ Die
    /\ UNCHANGED <<gw, failures, crashes>>

Kill ==
    /\ Running
    /\ crashes < MaxCrashes
    /\ crashes' = crashes + 1
    /\ Die
    /\ UNCHANGED <<gw, failures>>

\* The pod is started again; its informers list what the cluster holds.
Restart ==
    /\ pc = "down"
    /\ pc' = "starting"
    /\ unsynced' = Present(api)
    /\ UNCHANGED <<api, store, notify, work, changes, todo, gen, configCache, gw, err,
                   failures, crashes, edits>>

\* Context.Run has waited for the initial lists; Start runs the worker.
StartWorker ==
    /\ pc = "starting"
    /\ unsynced = {}
    /\ pc' = "idle"
    /\ UNCHANGED <<k8sVars, todo, gen, configCache, gw, err, failures, crashes, edits>>

-----------------------------------------------------------------------------
(* Worker.Run: an event is skipped or leads to a reconcile. *)

AadPodIdentityMic == <<"endpoints", "default", "aad-pod-identity-mic">>

\* Events whose processing depends on the ingresses in the store.
Checked(k) == k[1] \in {"pod", "endpoints"}

ShouldProcess(k) ==
    Checked(k) => /\ k # AadPodIdentityMic
                  /\ \E b \in CheckedServices(store, k) : isServiceReferencedByAnyIngress(store, b[3])

\* The check meets a rule without an HTTP section.
CheckPanics(k) ==
    /\ Checked(k)
    /\ k # AadPodIdentityMic
    /\ \E b \in CheckedServices(store, k) : NilRuleFirst(store, b[3])

SkipEvent ==
    /\ pc = "idle"
    /\ work # << >>
    /\ ~ ShouldProcess(Head(work))
    /\ ~ CheckPanics(Head(work))
    /\ work' = Tail(work)
    /\ UNCHANGED <<api, store, unsynced, notify, changes, workerVars, gw, failures, crashes, edits>>

TakeEvent ==
    /\ pc = "idle"
    /\ work # << >>
    /\ ShouldProcess(Head(work))
    /\ work' = Tail(work)
    /\ pc' = "drain"
    /\ UNCHANGED <<api, store, unsynced, notify, changes, todo, gen, configCache, gw, err,
                   failures, crashes, edits>>

\* Services are checked in no particular order: one may panic, another pass.
WorkerPanic ==
    /\ pc = "idle"
    /\ work # << >>
    /\ CheckPanics(Head(work))
    /\ Die
    /\ UNCHANGED <<gw, failures, crashes>>

\* Updates are a second apart; drainChan then drops the events that came in.
Drain ==
    /\ pc = "drain"
    /\ work' = << >>
    /\ pc' = "aks"
    /\ UNCHANGED <<api, store, unsynced, notify, changes, todo, gen, configCache, gw, err,
                   failures, crashes, edits>>

-----------------------------------------------------------------------------
(* MutateAKS: the address of the gateway goes into the ingresses' status. *)

Fail == failures < MaxFailures /\ failures' = failures + 1

\* An error of getAppGw is logged, a public address that cannot be had is
\* left out: no status is written, and MutateAppGateway runs all the same.
MutateAKS ==
    /\ pc = "aks"
    /\ \/ Fail /\ todo' = {}
       \/ UNCHANGED failures /\ todo' = {i \in IngressKeys : PruneIngress(store)[i] # Absent}
    /\ pc' = "status"
    /\ UNCHANGED <<k8sVars, gen, configCache, gw, err, crashes, edits>>

\* Mutant of UpdateIngressStatus: the copy in the store is written back.
UpdateIngressStatus_FromStore(i) ==
    /\ pc = "status" /\ i \in todo
    /\ todo' = todo \ {i}
    /\ api' = IF api[i] = Absent \/ store[i] = Absent THEN api
              ELSE [api EXCEPT ![i] = [store[i] EXCEPT !.ip = GatewayIP]]
    /\ UNCHANGED <<store, unsynced, notify, work, changes, pc, gen, configCache, gw, err, failures,
                   crashes, edits>>

\* The ingress is read from the API server, not from the store.
UpdateIngressStatus(i) ==
    /\ pc = "status"
    /\ i \in todo
    /\ todo' = todo \ {i}
    /\ \/ Fail /\ UNCHANGED api
       \/ /\ UNCHANGED failures
          /\ api' = IF api[i] = Absent \/ api[i].ip = GatewayIP THEN api
                    ELSE [api EXCEPT ![i].ip = GatewayIP]
    /\ UNCHANGED <<store, unsynced, notify, work, changes, pc, gen, configCache, gw, err, crashes, edits>>

-----------------------------------------------------------------------------
(* MutateAppGateway: one step for every read of the stores. *)

\* MutateAppGateway returns to the worker, which waits for the next event.
Return(failed) ==
    /\ pc' = "idle"
    /\ gen' = None
    /\ err' = failed
    /\ UNCHANGED <<k8sVars, todo, crashes, edits>>

\* The gateway cannot be fetched, or fails the fatal validation.
GetAppGwFails ==
    /\ pc = "status"
    /\ todo = {}
    /\ Fail
    /\ Return(TRUE)
    /\ UNCHANGED <<configCache, gw>>

GetAppGw ==
    /\ pc = "status"
    /\ todo = {}
    /\ gen' = [ingresses |-> PruneIngress(store), probes |-> NoParts, settings |-> NoParts,
               pools |-> NoParts, rules |-> NoParts]
    /\ pc' = "probes"
    /\ UNCHANGED <<k8sVars, todo, configCache, gw, err, failures, crashes, edits>>

HealthProbesCollection ==
    /\ pc = "probes"
    /\ \E p \in [ServiceKeys -> ProbeValues] :
         /\ \A b \in ServiceKeys : p[b] \in ProbesOf(gen.ingresses, store, b)
         /\ gen' = [gen EXCEPT !.probes = p]
    /\ pc' = "settings"
    /\ UNCHANGED <<k8sVars, todo, configCache, gw, err, failures, crashes, edits>>

BackendHTTPSettingsCollection ==
    /\ pc = "settings"
    /\ \E p \in [ServiceKeys -> Ports \cup {None}] :
         /\ \A b \in ServiceKeys : p[b] \in SettingsOf(gen.ingresses, store, b)
         /\ gen' = [gen EXCEPT !.settings = p]
    /\ pc' = "pools"
    /\ UNCHANGED <<k8sVars, todo, configCache, gw, err, failures, crashes, edits>>

\* ErrMultipleServiceBackendPortBinding
BuildFails ==
    /\ pc = "settings"
    /\ Ambiguous(gen.ingresses, store) # {}
    /\ Return(TRUE)
    /\ UNCHANGED <<configCache, gw, failures>>

BackendAddressPools ==
    /\ pc = "pools"
    /\ gen' = [gen EXCEPT !.pools = [b \in ServiceKeys |-> PoolOf(gen.settings[b], store, b)]]
    /\ pc' = "rules"
    /\ UNCHANGED <<k8sVars, todo, configCache, gw, err, failures, crashes, edits>>

RequestRoutingRules ==
    /\ pc = "rules"
    /\ \E r \in [ServiceKeys -> BOOLEAN] :
          /\ \A b \in ServiceKeys : r[b] \in RulesOf(gen, store, b)
          /\ gen' = [gen EXCEPT !.rules = r]
    /\ pc' = "deploy"
    /\ UNCHANGED <<k8sVars, todo, configCache, gw, err, failures, crashes, edits>>

configIsSame == gen = configCache

\* Nothing has changed since the last configuration that was applied.
SkipUpdate ==
    /\ pc = "deploy"
    /\ configIsSame
    /\ Return(FALSE)
    /\ UNCHANGED <<configCache, gw, failures>>

\* Mutant of UpdateGateway: the channel is drained when the update is done.
UpdateGateway_DrainsLast ==
    /\ pc = "deploy" /\ ~ configIsSame /\ ~ Dangling(gen)
    /\ gw' = gen /\ configCache' = gen
    /\ pc' = "idle" /\ gen' = None /\ err' = FALSE
    /\ work' = << >>
    /\ UNCHANGED <<api, store, unsynced, notify, changes, todo, failures, crashes, edits>>

UpdateGateway ==
    /\ pc = "deploy"
    /\ ~ configIsSame
    /\ ~ Dangling(gen)
    /\ gw' = gen
    /\ configCache' = gen           \* updateCache
    /\ Return(FALSE)
    /\ UNCHANGED failures

\* Mutant of UpdateGatewayFails: the cache is updated before the call is made.
UpdateGatewayFails_CachesFirst ==
    /\ pc = "deploy" /\ ~ configIsSame
    /\ (Dangling(gen) /\ UNCHANGED failures) \/ Fail
    /\ configCache' = gen
    /\ Return(TRUE)
    /\ UNCHANGED gw

\* ARM refuses a configuration with a dangling reference.  Any other may be
\* refused, or applied although the call reports an error.  MutateAppGateway
\* has a value receiver: "c.configCache = nil" clears the pointer of its copy.
UpdateGatewayFails ==
    /\ pc = "deploy"
    /\ ~ configIsSame
    /\ \/ Dangling(gen) /\ UNCHANGED <<gw, failures>>
       \/ "rejected" \in PutFailures /\ Fail /\ UNCHANGED gw
       \/ "lost" \in PutFailures /\ ~ Dangling(gen) /\ Fail /\ gw' = gen
    /\ IF PanicOnPutError THEN Die /\ UNCHANGED crashes
                          ELSE Return(TRUE) /\ UNCHANGED configCache

WorkerStep ==
    \/ StartWorker
    \/ SkipEvent \/ TakeEvent \/ WorkerPanic \/ Drain
    \/ MutateAKS \/ \E i \in IngressKeys : UpdateIngressStatus(i)
    \/ GetAppGwFails \/ GetAppGw
    \/ HealthProbesCollection
    \/ BackendHTTPSettingsCollection \/ BuildFails
    \/ BackendAddressPools
    \/ RequestRoutingRules
    \/ SkipUpdate \/ UpdateGateway \/ UpdateGatewayFails

Next ==
    \/ \E k \in Keys : \E v \in Objects[k] \cup {Absent} : User(k, v)
    \/ \E k \in Keys : Informer(k) \/ ResyncTimer(k)
    \/ \E kind \in Kinds : Handler(kind) \/ HandlerPanic(kind)
    \/ WorkerStep
    \/ EditGateway
    \/ Kill
    \/ Restart

Spec == Init /\ [][Next]_vars

\* Goroutines that can run do run, the resync timer ticks, and Kubernetes
\* starts the pod again.  Users, failures and crashes are not obliged to happen.
Fairness ==
    /\ \A k \in Keys : WF_vars(Informer(k)) /\ WF_vars(ResyncTimer(k))
    /\ \A kind \in Kinds : WF_vars(Handler(kind)) /\ WF_vars(HandlerPanic(kind))
    /\ WF_vars(WorkerStep)
    /\ WF_vars(Restart)

FairSpec == Spec /\ Fairness

-----------------------------------------------------------------------------
(* Properties. *)

Configs ==
    [ingresses : [IngressKeys -> {Absent} \cup UNION {Objects[i] : i \in IngressKeys}],
     probes : [ServiceKeys -> ProbeValues],
     settings : [ServiceKeys -> Ports \cup {None}],
     pools : [ServiceKeys -> PoolValues],
     rules : [ServiceKeys -> BOOLEAN \cup {None}]]

\* None, for a cache that holds nothing, is not a configuration.
ASSUME NoneIsNoConfig == None \notin Configs

\* Every variable keeps its type; the Work channel never holds more than its
\* capacity, whatever the handlers and the worker do.
TypeOK ==
    /\ K8sTypeOK
    /\ pc \in Steps
    /\ todo \subseteq IngressKeys
    /\ gen \in Configs \cup {None}
    /\ configCache \in Configs \cup {None}
    /\ gw \in Configs \cup {None, Foreign}
    /\ err \in BOOLEAN
    /\ failures \in 0..MaxFailures
    /\ crashes \in 0..MaxCrashes
    /\ edits \in 0..MaxEdits
    /\ pc \in {"probes", "settings", "pools", "rules", "deploy"} => gen \in Configs

\* No event is on its way to the worker.
NothingPending ==
    /\ work = << >>
    /\ \A kind \in Kinds : \A n \in DOMAIN notify[kind] : ~ Forwarded(notify[kind][n])

\* Every backend of the configuration belongs to a path of a rule and to a
\* service that exists: its endpoints and pods pass the worker's check.
AllTracked(s) ==
    \A b \in Backends(PruneIngress(s)) :
        b \in RuleBackends(PruneIngress(s)) /\ s[b] # Absent /\ EndpointsOf(b) # AadPodIdentityMic

\* No event is lost that matters: when the worker is idle after a reconcile
\* that succeeded and no event is on its way, the configuration it applied
\* last is one that Build makes of the stores as they are now, however the
\* stores changed while Build was reading them, whatever drainChan dropped,
\* ShouldProcess skipped and the handlers' filters held back.
CacheCurrent ==
    pc = "idle" /\ ~ err /\ configCache # None /\ NothingPending /\ AllTracked(store)
        => BuiltFrom(configCache, store)

\* The inductive invariant behind CacheCurrent and TornBuildIsRepaired.

\* An event for key k is on its way to the worker.
Pending(k) ==
    \/ \E n \in DOMAIN work : work[n] = k
    \/ \E kind \in Kinds : \E n \in DOMAIN notify[kind] :
          Forwarded(notify[kind][n]) /\ notify[kind][n].key = k

\* What store s holds under k matters to the configuration made of s, and the
\* worker's check lets an event for k pass if the backends are tracked.
Relevant(k, s) ==
    \/ k[1] \in {"ingress", "service"}
    \/ k[1] = "endpoints" /\ ServiceOf(k) \in Backends(PruneIngress(s))
    \/ /\ k[1] = "pod"
       /\ \E b \in RuleBackends(PruneIngress(s)) :
             b[2] = k[2] /\ s[b] # Absent /\ hasTCPPort(s[b]) /\ Selects(s, b, k)

RepairComing == \E k \in Keys : Pending(k) /\ Relevant(k, store)

\* The parts that are built so far are those of the stores as they are now.
PartsCurrent ==
    /\ gen.ingresses = PruneIngress(store)
    /\ pc \in {"settings", "pools", "rules", "deploy"} => ProbesFrom(gen, store)
    /\ pc \in {"pools", "rules", "deploy"} => SettingsFrom(gen, store)
    /\ pc \in {"rules", "deploy"} => PoolsFrom(gen, store)
    /\ pc = "deploy" => RulesFrom(gen, store)

\* At every moment of a build, what has been read is still true of the stores,
\* or an event that the worker will act on is on its way.
BuildCurrent ==
    pc \in {"probes", "settings", "pools", "rules", "deploy"} /\ AllTracked(store)
        => PartsCurrent \/ RepairComing

\* The same of the configuration applied last, between two builds.
AppliedCurrent ==
    pc = "idle" /\ ~ err /\ configCache # None /\ AllTracked(store)
        => BuiltFrom(configCache, store) \/ RepairComing

CurrentInv ==
    /\ pc \in {"down", "starting"} => configCache = None
    /\ BuildCurrent
    /\ AppliedCurrent

\* The cache that decides whether ARM is called at all holds what the gateway
\* holds.
CacheIsGateway == configCache # None => gw = configCache

\* Build reads the endpoints twice, for the pools and for the rules.  When a
\* change in between leaves a rule without its pool, and ARM will refuse the
\* configuration, the event that repairs it is already on its way.  (Nothing
\* repairs an ingress without rules, whose pool is never looked for.)
TornBuildIsRepaired ==
    pc = "deploy" /\ Dangling(gen) /\ AllTracked(store) /\ RulelessBackends(gen.ingresses) = {}
        => ~ NothingPending

\* The configuration that configIsSame saves from being applied is on the
\* gateway already.
SkipsOnlyWhatIsApplied == [][SkipUpdate => gw = gen]_vars

\* What users have stored, and the addresses in the ingresses' status.
SpecOf ==
    [k \in Keys |-> IF k \in IngressKeys /\ api[k] # Absent THEN api[k].spec ELSE api[k]]
AddressOf == [i \in IngressKeys |-> IF api[i] = Absent THEN None ELSE api[i].ip]

\* Every ingress of a configuration is AGIC's, and one that the gateway can serve.
OnlyServed(c) ==
    \A i \in IngressKeys : c.ingresses[i] # Absent => c.ingresses[i].class /\ c.ingresses[i].kept

Outside ==
    INSTANCE Effects WITH spec <- SpecOf, address <- AddressOf, known <- configCache,
                          Good <- {c \in Configs : ~ Dangling(c) /\ OnlyServed(c)}

\* The controller's stores, queues and builds, whatever the order of their steps,
\* do to the cluster and to the gateway what Effects says and nothing else: it
\* writes addresses only, into ingresses that exist, never over a change that a
\* user made since the store was filled; it puts only whole configurations on the
\* gateway, made of its own ingresses, and never the one it has applied.
HasOnlyEffects == Outside!Spec

\* A gateway that has never been updated serves no ingress.
Serves(c, s) ==
    IF c = None THEN \A i \in IngressKeys : PruneIngress(s)[i] = Absent
                ELSE c # Foreign /\ BuiltFrom(c, s)

\* The stores mirror the cluster, the worker is idle, the gateway serves the
\* cluster (unless Build has no answer for it) and every ingress it serves
\* carries the gateway's address.
Converged ==
    /\ store = api
    /\ pc = "idle" /\ NothingPending
    /\ AllTracked(api) /\ Ambiguous(PruneIngress(api), api) = {}
           => Serves(gw, api)
    /\ \A i \in IngressKeys : PruneIngress(api)[i] # Absent => api[i].ip = GatewayIP

\* Once users leave the cluster alone, the controller brings the gateway and
\* the ingresses' status in line with it and then comes to rest: the updates
\* of the status, which come back as events, do not keep it going.
Converges == <>[]Converged
=============================================================================
