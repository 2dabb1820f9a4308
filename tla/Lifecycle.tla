------------------------------- MODULE Lifecycle -------------------------------
(***************************************************************************)
(* The life of a process, and of the next one: main's checks in order      *)
(* (cmd/appgw-ingress), the retries of pkg/azure and its deployment of a   *)
(* gateway that is missing, the goroutine of the HTTP server               *)
(* (pkg/httpserver) and its probes (pkg/health), the wait for the          *)
(* informers' stores and the goroutine of the worker, the signal, and the  *)
(* shutdown, which races with all of them.  What Azure holds outlives the  *)
(* process; a pod that ended is started again, with the environment of     *)
(* that day's Helm release.                                                *)
(*                                                                         *)
(* A stage names what main does next.  What the worker does for an event   *)
(* is the business of Controller: here it is "busy".                       *)
(***************************************************************************)
EXTENDS Naturals

CONSTANTS
    maxAuthRetryCount,
    Environments,           \* what the operators of the pod may configure
    MaxProbes,              \* bound: readiness requests at a time
    MaxSignals,             \* bound: signals sent to the processes
    MaxRestarts             \* bound: processes after the first

VARIABLES
    stage,          \* main
    tries,          \* calls made by the retry loop main is in
    checks,         \* history: the checks that have passed
    server,         \* the goroutine of the HTTP server
    waiting,        \* readiness requests blocked on CacheSynced
    ready,          \* has a readiness request been answered with 200?
    synced,         \* is CacheSynced closed?
    stopped,        \* is stopChannel closed?
    worker,         \* "off", "select" or "busy"
    signals,
    exit,           \* how the process ended, "no" while it runs
    env,            \* the process's environment variables and Azure context
    subnet,         \* Azure: the subnet of AppGwSubnetName
    puts,           \* history: how often AGIC has written that subnet
    deployment,     \* Azure: the template deployment named after the gateway
    gateway,        \* Azure: does the gateway exist?
    restarts

azure == <<subnet, puts, deployment, gateway>>

\* What lives as long as the pod's configuration, and longer than main's stage.
world == <<env, restarts, azure>>

\* Readiness requests, each of which is a goroutine of the HTTP server.
Requests == 1..MaxProbes

vars == <<stage, tries, checks, server, waiting, ready, synced, stopped, worker,
          signals, exit, world>>

\* EnableDeployAppGateway; which of AppGwResourceID, AppGwName, AppGwSubnetID and
\* AppGwSubnetPrefix are set; was the Azure context file read?
EnvVariables ==
    [deploy : BOOLEAN, id : BOOLEAN, name : BOOLEAN, subnetID : BOOLEAN, prefix : BOOLEAN,
     context : BOOLEAN]

ASSUME LifecycleConstants ==
    /\ Environments \subseteq EnvVariables
    /\ maxAuthRetryCount \in Nat /\ MaxProbes \in Nat
    /\ MaxSignals \in Nat /\ MaxRestarts \in Nat

\* No subnet of the name, the one with the prefix, or one with another prefix.
\* Whoever sets a prefix always sets the same.
Subnets == {"none", "found", "other"}

Stages == {"env", "listen", "token", "gateway", "deploy", "vnet", "subnet", "group", "template",
           "wait", "namespaces", "config", "sku", "sync", "notify", "receive", "blocked", "stop",
           "shutdown"}

Checks == {"env", "token", "gateway", "namespaces", "config", "sku"}

Init ==
    /\ stage = "env" /\ tries = 0 /\ checks = {}
    /\ server = "off"
    /\ waiting = {} /\ ready = FALSE
    /\ synced = FALSE /\ stopped = FALSE
    /\ worker = "off"
    /\ signals = 0 /\ exit = "no"
    /\ env \in Environments /\ restarts = 0
    /\ subnet \in Subnets /\ puts = 0
    /\ deployment = "none" /\ gateway \in BOOLEAN

Running == exit = "no"

-----------------------------------------------------------------------------
(* main, from the environment to Start. *)

BackgroundUnchanged ==
    UNCHANGED <<server, waiting, ready, synced, stopped, worker, signals, env, restarts>>

\* main goes on to its next stage.
To(next) ==
    /\ stage' = next
    /\ tries' = 0
    /\ UNCHANGED exit
    /\ BackgroundUnchanged

Continue(next) == To(next) /\ UNCHANGED checks

\* glog.Fatal
Fatal ==
    /\ exit' = "fatal"
    /\ UNCHANGED <<stage, tries, checks>>
    /\ BackgroundUnchanged

\* A check that passes or is fatal.
Check(name, next) ==
    /\ Running
    /\ stage = name
    /\ \/ checks' = checks \cup {name} /\ To(next)
       \/ Fatal
    /\ UNCHANGED azure

\* With a resource ID, main takes the name from it.
Valid(e) ==
    IF e.deploy THEN ~ e.id /\ e.name /\ (e.subnetID \/ e.prefix)
    ELSE e.name \/ e.id

ValidateEnv ==
    /\ Running
    /\ stage = "env"
    /\ IF Valid(env) THEN checks' = checks \cup {"env"} /\ To("listen") ELSE Fatal
    /\ UNCHANGED azure

\* httpServer.Start
StartServer ==
    /\ Running
    /\ stage = "listen"
    /\ server' = "starting"
    /\ stage' = "token"
    /\ UNCHANGED <<tries, checks, waiting, ready, synced, stopped, worker,
                   signals, exit, world>>

\* Mutants of Retry: a limit that is not looked at; a counter that starts again
\* when it has reached the limit.
Retry_NoLimit ==
    tries' = tries + 1 /\ UNCHANGED <<stage, checks, exit>> /\ BackgroundUnchanged
Retry_Resets ==
    /\ tries' = IF tries >= maxAuthRetryCount THEN 0 ELSE tries + 1
    /\ UNCHANGED <<stage, checks, exit>> /\ BackgroundUnchanged

\* A failed call is made again after a pause, or ends the loop and main.
Retry ==
    IF tries >= maxAuthRetryCount THEN Fatal
    ELSE tries' = tries + 1 /\ UNCHANGED <<stage, checks, exit>> /\ BackgroundUnchanged

GetAuthorizerWithRetry ==
    /\ Running
    /\ stage = "token"
    /\ \/ checks' = checks \cup {"token"} /\ To("gateway")
       \/ Retry
    /\ UNCHANGED azure

\* A gateway that ARM does not know (404) is deployed, if AGIC may do that.
WaitForAzureAuth ==
    /\ Running
    /\ stage = "gateway"
    /\ \/ gateway /\ checks' = checks \cup {"gateway"} /\ To("namespaces")
       \/ ~ gateway /\ IF env.deploy THEN Continue("deploy") ELSE Fatal
       \/ Retry
    /\ UNCHANGED azure

-----------------------------------------------------------------------------
(* The deployment of a gateway that is missing. *)

\* Mutant of DeployGateway: with neither a subnet ID nor an Azure context there
\* is nothing to do, and main goes on.
DeployGateway_Skips ==
    /\ Running
    /\ stage = "deploy"
    /\ IF env.subnetID THEN Continue("group")
       ELSE IF env.context THEN Continue("vnet")
       ELSE checks' = checks \cup {"gateway"} /\ To("namespaces")
    /\ UNCHANGED azure

\* main chooses how to deploy.  With neither, err is still ErrAppGatewayNotFound.
DeployGateway ==
    /\ Running
    /\ stage = "deploy"
    /\ IF env.subnetID \/ env.context
       THEN Continue(IF env.subnetID THEN "group" ELSE "vnet")
       ELSE Fatal
    /\ UNCHANGED azure

\* Mutant of findSubnet: the test for the empty prefix is the wrong way round.
findSubnet_Swapped(prefix) == subnet # "none" /\ prefix /\ subnet = "other"

\* Is there a subnet of the name, with the prefix if one is given?
findSubnet(prefix) == subnet # "none" /\ (prefix => subnet = "found")

\* getVnet may fail.
DeployGatewayWithVnet ==
    /\ Running
    /\ stage = "vnet"
    /\ \/ /\ findSubnet(env.prefix) \/ env.prefix
          /\ Continue(IF findSubnet(env.prefix) THEN "group" ELSE "subnet")
       \/ Fatal
    /\ UNCHANGED azure

\* CreateOrUpdate: a subnet of that name with another prefix is changed.  ARM
\* may refuse it, and it may be done although the wait or the GET that follows
\* reports an error.
createSubnet ==
    /\ Running
    /\ stage = "subnet"
    /\ \/ subnet' = "found" /\ puts' = puts + 1 /\ Continue("group")
       \/ subnet' = "found" /\ puts' = puts + 1 /\ Fatal
       \/ UNCHANGED <<subnet, puts>> /\ Fatal
    /\ UNCHANGED <<deployment, gateway>>

\* getGroup
DeployGatewayWithSubnet ==
    /\ Running
    /\ stage = "group"
    /\ \/ Continue("template")
       \/ Fatal
    /\ UNCHANGED azure

\* CreateOrUpdate of the deployment, which ARM refuses while one of the name runs.
createDeployment ==
    /\ Running
    /\ stage = "template"
    /\ \/ deployment # "running" /\ deployment' = "running" /\ Continue("wait")
       \/ deployment' \in {deployment, "running"} /\ Fatal
    /\ UNCHANGED <<subnet, puts, gateway>>

\* WaitForCompletionRef and Result, which may fail whatever ARM does.
WaitForDeployment ==
    /\ Running
    /\ stage = "wait"
    /\ \/ deployment = "done" /\ checks' = checks \cup {"gateway"} /\ To("namespaces")
       \/ Fatal
    /\ UNCHANGED azure

\* ARM works on the template, with or without the process that sent it.  What
\* failed may have made the gateway.
ArmDeploys ==
    /\ deployment = "running"
    /\ \/ deployment' = "done" /\ gateway' = TRUE
       \/ deployment' = "failed" /\ gateway' \in {gateway, TRUE}
    /\ UNCHANGED <<stage, tries, checks, server, waiting, ready, synced, stopped, worker,
                   signals, exit, env, restarts, subnet, puts>>

-----------------------------------------------------------------------------
(* main, from the namespaces to Start. *)

validateNamespaces == Check("namespaces", "config")

\* An error of GetGateway is dropped: the empty configuration is not valid.
FatalValidate == Check("config", "sku")

CheckSku == Check("sku", "sync")

\* Start: Context.Run waits for the initial lists, which client-go goes on asking
\* for until it has them, and closes CacheSynced, and the worker begins.  The run
\* ends early only if stopChannel is closed, which main does later.
Start ==
    /\ Running
    /\ stage = "sync"
    /\ IF ~ synced
       THEN synced' = TRUE /\ UNCHANGED <<stage, worker>>
       ELSE worker' = "select" /\ stage' = "notify" /\ UNCHANGED synced
    /\ UNCHANGED <<tries, checks, server, waiting, ready, stopped, signals, exit, world>>

-----------------------------------------------------------------------------
(* The signal and the shutdown. *)

\* signal.Notify, and then the receive.
Notify ==
    /\ Running
    /\ stage \in {"notify", "receive"}
    /\ stage' = IF stage = "notify" THEN "receive" ELSE "blocked"
    /\ UNCHANGED <<tries, checks, exit, azure>> /\ BackgroundUnchanged

\* Before signal.Notify a signal ends the process.  The channel has no buffer:
\* a signal that finds main not receiving is dropped.
Signal ==
    /\ Running
    /\ signals < MaxSignals
    /\ signals' = signals + 1
    /\ IF stage \in {"receive", "stop", "shutdown"} THEN UNCHANGED <<stage, exit>>
       ELSE IF stage = "blocked" THEN stage' = "stop" /\ UNCHANGED exit
       ELSE exit' = "signal" /\ UNCHANGED stage
    /\ UNCHANGED <<tries, checks, server, waiting, ready, synced, stopped, worker,
                   world>>

\* Mutant of Stop: the worker is waited for.
Stop_Waits ==
    /\ Running
    /\ stage = "stop"
    /\ stopped' = TRUE
    /\ IF stopped /\ worker = "off" THEN stage' = "shutdown" ELSE UNCHANGED stage
    /\ UNCHANGED <<tries, checks, server, waiting, ready, synced, worker, signals, exit,
                   world>>

\* AppGwIngressController.Stop
Stop ==
    /\ Running
    /\ stage = "stop"
    /\ stopped' = TRUE
    /\ stage' = "shutdown"
    /\ UNCHANGED <<tries, checks, server, waiting, ready, synced, worker, signals, exit,
                   world>>

\* httpServer.Stop: Shutdown closes the listener first, then waits for the
\* requests, at most five seconds.
ShutDown ==
    /\ Running
    /\ stage = "shutdown"
    /\ IF server # "closed"
       THEN server' = "closed" /\ UNCHANGED exit
       ELSE exit' = "goodbye" /\ UNCHANGED server
    /\ UNCHANGED <<stage, tries, checks, waiting, ready, synced, stopped, worker,
                   signals, world>>

-----------------------------------------------------------------------------
(* The other goroutines. *)

ServerUnchanged ==
    UNCHANGED <<stage, tries, checks, waiting, ready, synced, stopped, worker, signals,
                world>>

\* ListenAndServe listens.
Listen ==
    /\ Running
    /\ server = "starting"
    /\ server' = "serving"
    /\ UNCHANGED exit /\ ServerUnchanged

\* ListenAndServe returns an error, always: the address cannot be had, or the
\* server was shut down.
ServeReturns ==
    /\ Running
    /\ server \in {"starting", "closed"}
    /\ exit' = "server"
    /\ UNCHANGED server /\ ServerUnchanged

\* The kubelet asks whether the pod is ready.
Probe ==
    /\ Running
    /\ server = "serving"
    /\ \E q \in Requests \ waiting : waiting' = waiting \cup {q}
    /\ UNCHANGED <<stage, tries, checks, server, ready, synced, stopped, worker,
                   signals, exit, world>>

\* Mutant of Readiness: a channel that is still open counts as closed.
Readiness_Default(q) ==
    /\ Running
    /\ q \in waiting
    /\ waiting' = waiting \ {q}
    /\ ready' = TRUE
    /\ UNCHANGED <<stage, tries, checks, server, synced, stopped, worker, signals, exit,
                   world>>

\* Mutant of Readiness: a value is sent on CacheSynced, which is not closed, and one
\* request takes it.
Readiness_Takes(q) ==
    /\ Running
    /\ q \in waiting
    /\ synced
    /\ waiting' = waiting \ {q}
    /\ ready' = TRUE
    /\ synced' = FALSE
    /\ UNCHANGED <<stage, tries, checks, server, stopped, worker, signals, exit, world>>

\* A request blocks until CacheSynced is closed, which frees all of them.
Readiness(q) ==
    /\ Running
    /\ q \in waiting
    /\ synced
    /\ waiting' = waiting \ {q}
    /\ ready' = TRUE
    /\ UNCHANGED <<stage, tries, checks, server, synced, stopped, worker, signals, exit,
                   world>>

WorkerUnchanged ==
    UNCHANGED <<stage, tries, checks, server, waiting, ready, synced, stopped, signals, exit, world>>

\* The worker takes an event; it is done with it.
WorkerTakes == Running /\ worker = "select" /\ worker' = "busy" /\ WorkerUnchanged
WorkerDone == Running /\ worker = "busy" /\ worker' = "select" /\ WorkerUnchanged

\* "case <-stopChannel: break" leaves the select and not the loop.
WorkerStop ==
    /\ Running
    /\ worker = "select"
    /\ stopped
    /\ UNCHANGED worker /\ WorkerUnchanged

\* The kubelet starts the pod's container again.
Restart ==
    /\ ~ Running
    /\ restarts < MaxRestarts
    /\ restarts' = restarts + 1
    /\ env' \in Environments
    /\ stage' = "env" /\ tries' = 0 /\ checks' = {}
    /\ server' = "off"
    /\ waiting' = {} /\ ready' = FALSE
    /\ synced' = FALSE /\ stopped' = FALSE
    /\ worker' = "off"
    /\ exit' = "no"
    /\ UNCHANGED <<signals, azure>>

Main ==
    \/ ValidateEnv \/ StartServer \/ GetAuthorizerWithRetry \/ WaitForAzureAuth
    \/ DeployGateway \/ DeployGatewayWithVnet \/ createSubnet
    \/ DeployGatewayWithSubnet \/ createDeployment \/ WaitForDeployment
    \/ validateNamespaces \/ FatalValidate \/ CheckSku \/ Start \/ Notify \/ Stop \/ ShutDown

Next ==
    \/ Main
    \/ ArmDeploys
    \/ Signal \/ Restart
    \/ Listen \/ ServeReturns
    \/ Probe \/ \E q \in Requests : Readiness(q)
    \/ WorkerTakes \/ WorkerDone \/ WorkerStop

Spec == Init /\ [][Next]_vars

\* Goroutines that can run do run; calls of ARM and of the API server return.
\* Nobody is obliged to send a request, an event or a signal.
FairSpec ==
    /\ Spec
    /\ WF_vars(Main)
    /\ WF_vars(Listen \/ ServeReturns)
    /\ \A q \in Requests : WF_vars(Readiness(q))
    /\ WF_vars(WorkerDone)

-----------------------------------------------------------------------------
(* Properties. *)

\* Every variable keeps its type, and a retry loop makes at most
\* maxAuthRetryCount + 1 calls.
TypeOK ==
    /\ stage \in Stages
    /\ tries \in 0..maxAuthRetryCount
    /\ checks \subseteq Checks
    /\ server \in {"off", "starting", "serving", "closed"}
    /\ waiting \subseteq Requests
    /\ ready \in BOOLEAN /\ synced \in BOOLEAN
    /\ stopped \in BOOLEAN
    /\ worker \in {"off", "select", "busy"}
    /\ signals \in 0..MaxSignals
    /\ exit \in {"no", "fatal", "server", "signal", "goodbye"}
    /\ env \in EnvVariables /\ restarts \in 0..MaxRestarts
    /\ subnet \in Subnets /\ puts \in Nat
    /\ deployment \in {"none", "running", "done", "failed"} /\ gateway \in BOOLEAN

\* The worker touches the cluster and the gateway only after every check of
\* main has passed, on whichever path, and the stores have been filled.  There
\* is a gateway then, found or deployed, by this process or by one before it.
MutatesOnlyWhenChecked == worker = "busy" => checks = Checks /\ synced /\ gateway

\* The subnet is written at most once, by whichever process: one that was killed
\* after createSubnet, or that lost the answer, leaves what the next one finds.
SubnetPutOnce == puts <= 1

\* A pod that reports to be ready has passed every check: the HTTP server runs
\* long before they are done, but a request waits.
ReadyMeansChecked == ready => checks = Checks /\ synced

\* The inductive invariant behind the two: the stage says which checks have
\* passed, and the worker and the answers come after the stores are filled.
Deploying == {"deploy", "vnet", "subnet", "group", "template", "wait"}

Passed(s) ==
    CASE s = "env" -> {}
      [] s \in {"listen", "token"} -> {"env"}
      [] s \in {"gateway"} \cup Deploying -> {"env", "token"}
      [] s = "namespaces" -> {"env", "token", "gateway"}
      [] s = "config" -> {"env", "token", "gateway", "namespaces"}
      [] s = "sku" -> {"env", "token", "gateway", "namespaces", "config"}
      [] OTHER -> Checks

Started == {"notify", "receive", "blocked", "stop", "shutdown"}

StageInv ==
    /\ stage \in Stages
    /\ checks = Passed(stage)
    /\ "gateway" \in checks \/ deployment = "done" => gateway
    /\ synced => stage \in Started \cup {"sync"}
    /\ worker # "off" => stage \in Started
    /\ stage \in Started => synced
    /\ ready => synced

\* The inductive invariant behind SubnetPutOnce: main comes to createSubnet only
\* while the subnet is missing, or has another prefix.
SubnetInv ==
    /\ puts \in {0, 1}
    /\ puts = 1 => subnet = "found"
    /\ stage = "subnet" /\ Running => subnet # "found"

\* A process starts the worker or ends: no retry goes on for ever.
StartsOrExits == stage = "env" /\ Running ~> worker # "off" \/ ~ Running

\* Once main has received a signal the process ends, whatever the worker and
\* the requests are doing.
ShutdownEnds == stage = "stop" ~> ~ Running

\* Every readiness request is answered, not only the first, or the process ends.
ProbesAnswered == \A q \in Requests : q \in waiting ~> q \notin waiting \/ ~ Running
=============================================================================
