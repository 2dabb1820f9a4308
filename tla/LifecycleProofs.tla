---------------------------- MODULE LifecycleProofs ----------------------------
(* What Lifecycle guarantees for any number of retries, requests and signals. *)
EXTENDS Lifecycle, TLAPS

\* glog.Fatal leaves everything but exit alone.
LEMMA FatalStep == ASSUME StageInv, Fatal, UNCHANGED azure PROVE StageInv'
  BY Zenon DEF StageInv, Fatal, BackgroundUnchanged, azure

\* A step of the deployment that leaves the gateway alone and is not its last.
LEMMA DeployStep ==
    ASSUME NEW next \in Deploying, StageInv, stage \in Deploying \cup {"gateway"}, Continue(next),
           UNCHANGED gateway, deployment' = deployment \/ deployment' # "done"
    PROVE  StageInv'
  BY Zenon DEF StageInv, Continue, To, BackgroundUnchanged, Passed, Deploying, Stages, Started

\* A check of main passes, and the stage moves on, or the process ends.
LEMMA CheckStep ==
    ASSUME NEW name \in Checks, NEW next \in Stages, StageInv, Check(name, next),
           Passed(next) = Passed(name) \cup {name}, name \notin Started, next \notin Started,
           name # "gateway"
    PROVE  StageInv'
<1>1. CASE checks' = checks \cup {name} /\ To(next)
  BY <1>1, Zenon DEF StageInv, Check, To, BackgroundUnchanged, Started, Checks, azure
<1>2. CASE Fatal
  BY <1>2, FatalStep, Zenon DEF Check
<1> QED BY <1>1, <1>2, Zenon DEF Check

\* A retry leaves main where it is.
LEMMA RetryStep == ASSUME StageInv, Retry, UNCHANGED azure PROVE StageInv'
  BY FatalStep, Zenon DEF StageInv, Retry, BackgroundUnchanged, azure

\* Every step keeps the stage in line with the checks made so far.
LEMMA StageStep == ASSUME StageInv, [Next]_vars PROVE StageInv'
<1>1. CASE UNCHANGED vars
  BY <1>1, Zenon DEF vars, world, azure, StageInv
<1>2. CASE ValidateEnv
  <2>1. Check("env", "listen")
    BY <1>2, Zenon DEF ValidateEnv, Check
  <2> QED BY <2>1, CheckStep DEF Passed, Deploying, Checks, Stages, Started
<1>3. CASE StartServer
  BY <1>3, Zenon DEF StartServer, StageInv, Passed, Deploying, Stages, Started, world, azure
<1>4. CASE GetAuthorizerWithRetry
  <2>1. CASE Retry
    BY <1>4, <2>1, RetryStep, Zenon DEF GetAuthorizerWithRetry
  <2>2. CASE checks' = checks \cup {"token"} /\ To("gateway")
    BY <1>4, <2>2, Zenon DEF GetAuthorizerWithRetry, To, BackgroundUnchanged, StageInv, Passed, Deploying,
                      Stages, Started, azure
  <2> QED BY <1>4, <2>1, <2>2, Zenon DEF GetAuthorizerWithRetry
<1>5. CASE WaitForAzureAuth
  <2>1. CASE Retry
    BY <1>5, <2>1, RetryStep, Zenon DEF WaitForAzureAuth
  <2>2. CASE gateway /\ checks' = checks \cup {"gateway"} /\ To("namespaces")
    BY <1>5, <2>2, Zenon DEF WaitForAzureAuth, To, BackgroundUnchanged, StageInv, Passed, Deploying,
                      Stages, Started, azure
  <2>3. CASE Continue("deploy")
    BY <1>5, <2>3, DeployStep, Zenon DEF WaitForAzureAuth, Deploying, azure
  <2>4. CASE Fatal
    BY <1>5, <2>4, FatalStep, Zenon DEF WaitForAzureAuth
  <2> QED BY <1>5, <2>1, <2>2, <2>3, <2>4, Zenon DEF WaitForAzureAuth
<1>6. CASE \/ DeployGateway \/ DeployGatewayWithVnet \/ createSubnet
           \/ DeployGatewayWithSubnet \/ createDeployment
  <2>1. stage \in Deploying /\ UNCHANGED gateway /\ (deployment' = deployment \/ deployment' # "done")
    BY <1>6, Zenon DEF DeployGateway, DeployGatewayWithVnet, createSubnet, DeployGatewayWithSubnet,
                createDeployment, Deploying, azure
  <2>2. Fatal \/ \E next \in Deploying : Continue(next)
    BY <1>6, Zenon DEF DeployGateway, DeployGatewayWithVnet, createSubnet, DeployGatewayWithSubnet,
                createDeployment, Deploying
  <2>3. CASE Fatal
    BY <2>1, <2>3, Zenon DEF StageInv, Fatal, BackgroundUnchanged
  <2>4. CASE \E next \in Deploying : Continue(next)
    BY <2>1, <2>4, DeployStep, Zenon
  <2> QED BY <2>2, <2>3, <2>4, Zenon
<1>7. CASE WaitForDeployment
  <2>1. CASE Fatal
    BY <1>7, <2>1, FatalStep, Zenon DEF WaitForDeployment
  <2>2. CASE deployment = "done" /\ checks' = checks \cup {"gateway"} /\ To("namespaces")
    BY <1>7, <2>2, Zenon DEF WaitForDeployment, To, BackgroundUnchanged, StageInv, Passed, Deploying,
                       Stages, Started, azure
  <2> QED BY <1>7, <2>1, <2>2, Zenon DEF WaitForDeployment
<1>8. CASE ArmDeploys
  BY <1>8, Zenon DEF ArmDeploys, StageInv
<1>9. CASE Restart
  BY <1>9, Zenon DEF Restart, StageInv, Passed, Deploying, Stages, Started, azure
<1>10. CASE validateNamespaces
  BY <1>10, CheckStep DEF validateNamespaces, Passed, Deploying, Checks, Stages, Started
<1>11. CASE FatalValidate
  BY <1>11, CheckStep DEF FatalValidate, Passed, Deploying, Checks, Stages, Started
<1>12. CASE CheckSku
  BY <1>12, CheckStep DEF CheckSku, Passed, Deploying, Checks, Stages, Started
<1>13. CASE Start
  BY <1>13, Zenon DEF Start, StageInv, Passed, Deploying, Stages, Started, world, azure
<1>14. CASE Notify
  BY <1>14, Zenon DEF Notify, BackgroundUnchanged, StageInv, Passed, Deploying, Stages, Started, azure
<1>15. CASE Stop
  BY <1>15, Zenon DEF Stop, StageInv, Passed, Deploying, Stages, Started, world, azure
<1>16. CASE ShutDown \/ Listen \/ ServeReturns \/ Probe
  BY <1>16 DEF ShutDown, Listen, ServeReturns, Probe, ServerUnchanged, StageInv, world, azure
<1>17. CASE Signal
  BY <1>17, Zenon DEF Signal, StageInv, Passed, Deploying, Stages, Started, world, azure
<1>18. CASE \E q \in Requests : Readiness(q)
  <2>1. PICK q : Readiness(q)
    BY <1>18, Zenon
  <2> QED BY <2>1, Zenon DEF Readiness, StageInv, world, azure
<1>19. CASE WorkerTakes \/ WorkerDone \/ WorkerStop
  BY <1>19, Zenon DEF WorkerTakes, WorkerDone, WorkerStop, WorkerUnchanged, StageInv, world, azure
<1> QED
  BY <1>1, <1>2, <1>3, <1>4, <1>5, <1>6, <1>7, <1>8, <1>9, <1>10,
     <1>11, <1>12, <1>13, <1>14, <1>15, <1>16, <1>17, <1>18, <1>19, Zenon DEF Next, Main

\* The inductive invariant: main's stage says which of its checks have passed,
\* and the worker and the answers to probes come after the stores are filled.
THEOREM StageInvariant == Spec => []StageInv
<1>1. Init => StageInv
  BY Zenon DEF Init, StageInv, Passed, Deploying, Stages, Started
<1>2. StageInv /\ [Next]_vars => StageInv'
  BY StageStep, Zenon
<1> QED BY <1>1, <1>2, PTL DEF Spec

\* The worker does not get ahead of main's checks: the gateway is written only
\* after the environment, the token, the gateway, the namespaces, the
\* configuration and the SKU have all been found good.
THEOREM ChecksComeFirst == Spec => []MutatesOnlyWhenChecked
<1>1. StageInv => MutatesOnlyWhenChecked
  BY Zenon DEF StageInv, MutatesOnlyWhenChecked, Started, Passed, Deploying, Checks
<1> QED BY <1>1, StageInvariant, PTL

\* Nor does a readiness probe: the pod reports to be ready only after the same
\* checks, and with the stores filled.
THEOREM ReadyComesLast == Spec => []ReadyMeansChecked
<1>1. StageInv => ReadyMeansChecked
  BY Zenon DEF StageInv, ReadyMeansChecked, Started, Passed, Deploying, Checks
<1> QED BY <1>1, StageInvariant, PTL

-----------------------------------------------------------------------------
(* The subnet. *)

\* main makes a subnet only after it has not found one, and a step that does not
\* write the subnet does not come to createSubnet.
LEMMA SubnetKept ==
    ASSUME SubnetInv, UNCHANGED <<subnet, puts>>, stage' # "subnet" \/ exit' # "no"
    PROVE  SubnetInv'
  BY Zenon DEF SubnetInv, Running

\* Every step keeps the count of what createSubnet has written.
LEMMA SubnetStep == ASSUME SubnetInv, [Next]_vars PROVE SubnetInv'
<1>1. CASE createSubnet
  BY <1>1 DEF createSubnet, SubnetInv, Running, Continue, To, Fatal
<1>2. CASE DeployGatewayWithVnet
  <2>1. CASE Fatal
    BY <1>2, <2>1, SubnetKept, Zenon DEF DeployGatewayWithVnet, Fatal, azure
  <2>2. CASE Continue(IF findSubnet(env.prefix) THEN "group" ELSE "subnet") /\ env.prefix
    BY <1>2, <2>2, Zenon DEF DeployGatewayWithVnet, Continue, To, findSubnet, SubnetInv, Running, azure
  <2>3. CASE Continue(IF findSubnet(env.prefix) THEN "group" ELSE "subnet") /\ findSubnet(env.prefix)
    BY <1>2, <2>3, SubnetKept, Zenon DEF DeployGatewayWithVnet, Continue, To, azure
  <2> QED BY <1>2, <2>1, <2>2, <2>3, Zenon DEF DeployGatewayWithVnet
<1>3. CASE ArmDeploys \/ UNCHANGED vars
  BY <1>3, Zenon DEF ArmDeploys, SubnetInv, Running, vars, world, azure
<1>4. CASE \/ ValidateEnv \/ StartServer \/ GetAuthorizerWithRetry \/ WaitForAzureAuth
           \/ DeployGateway \/ DeployGatewayWithSubnet \/ createDeployment \/ WaitForDeployment
  <2>1. UNCHANGED <<subnet, puts>>
    BY <1>4, Zenon DEF ValidateEnv, StartServer, GetAuthorizerWithRetry, WaitForAzureAuth, DeployGateway,
                DeployGatewayWithSubnet, createDeployment, WaitForDeployment, world, azure
  <2>2. stage' # "subnet" \/ exit' # "no"
    BY <1>4, Zenon DEF ValidateEnv, StartServer, GetAuthorizerWithRetry, WaitForAzureAuth, DeployGateway,
                DeployGatewayWithSubnet, createDeployment, WaitForDeployment, Retry, Fatal, Continue, To
  <2> QED BY <2>1, <2>2, SubnetKept, Zenon
<1>5. CASE validateNamespaces \/ FatalValidate \/ CheckSku \/ Start \/ Notify \/ Stop \/ ShutDown
  <2>1. UNCHANGED <<subnet, puts>>
    BY <1>5, Zenon DEF validateNamespaces, FatalValidate, CheckSku, Check, Start, Notify, Stop, ShutDown,
                world, azure
  <2>2. stage' # "subnet"
    BY <1>5, Zenon DEF validateNamespaces, FatalValidate, CheckSku, Check, To, Fatal, Start, Notify, Stop,
                ShutDown
  <2> QED BY <2>1, <2>2, SubnetKept, Zenon
<1>6. CASE Signal \/ Restart
  BY <1>6, Zenon DEF Signal, Restart, SubnetInv, Running, world, azure
<1>7. CASE \/ Listen \/ ServeReturns \/ Probe \/ \E q \in Requests : Readiness(q)
           \/ WorkerTakes \/ WorkerDone \/ WorkerStop
  BY <1>7, Zenon DEF Listen, ServeReturns, Probe, Readiness, WorkerTakes, WorkerDone, WorkerStop,
              ServerUnchanged, WorkerUnchanged, SubnetInv, Running, world, azure
<1> QED BY <1>1, <1>2, <1>3, <1>4, <1>5, <1>6, <1>7, Zenon DEF Next, Main

\* However often the pod is killed and started again in the middle of a
\* deployment, and whichever answers of ARM are lost, the subnet is written once
\* at most.
THEOREM SubnetIsPutOnce == Spec => []SubnetPutOnce
<1>1. Init => SubnetInv
  BY DEF Init, SubnetInv
<1>2. SubnetInv /\ [Next]_vars => SubnetInv'
  BY SubnetStep, Zenon
<1>3. SubnetInv => SubnetPutOnce
  BY DEF SubnetInv, SubnetPutOnce
<1> QED BY <1>1, <1>2, <1>3, PTL DEF Spec

-----------------------------------------------------------------------------
(* Types, and the bound on the retries. *)

\* TypeOK in two parts, one for each prover: the flags, and the other variables.
Flags ==
    /\ ready \in BOOLEAN /\ synced \in BOOLEAN /\ stopped \in BOOLEAN
    /\ gateway \in BOOLEAN

Values ==
    /\ stage \in Stages
    /\ tries \in 0..maxAuthRetryCount
    /\ checks \subseteq Checks
    /\ server \in {"off", "starting", "serving", "closed"}
    /\ waiting \subseteq Requests
    /\ worker \in {"off", "select", "busy"}
    /\ signals \in 0..MaxSignals
    /\ exit \in {"no", "fatal", "server", "signal", "goodbye"}
    /\ env \in EnvVariables /\ restarts \in 0..MaxRestarts
    /\ subnet \in Subnets /\ puts \in Nat
    /\ deployment \in {"none", "running", "done", "failed"}

\* main's steps on the way to Start, but for the server and Start itself, move the
\* stage, count a retry or end the process.
LEMMA MainTypes ==
    ASSUME TypeOK, BackgroundUnchanged, stage' \in Stages, tries' \in 0..maxAuthRetryCount,
           checks' \subseteq Checks, exit' \in {exit, "fatal"},
           subnet' \in {subnet, "found"}, puts' \in {puts, puts + 1}, gateway' = gateway,
           deployment' \in {deployment, "running"}
    PROVE  TypeOK'
  BY DEF TypeOK, BackgroundUnchanged, Subnets

\* What To, Continue, Fatal and Retry do to main's variables.
LEMMA MainMoves ==
    ASSUME TypeOK,
           \/ Fatal \/ Retry
           \/ \E next \in Stages : Continue(next)
           \/ \E next \in Stages, name \in Checks : To(next) /\ checks' = checks \cup {name}
    PROVE  /\ BackgroundUnchanged /\ stage' \in Stages /\ tries' \in 0..maxAuthRetryCount
           /\ checks' \subseteq Checks /\ exit' \in {exit, "fatal"}
<1>1. CASE Fatal
  BY <1>1, Zenon DEF Fatal, TypeOK
<1>2. CASE Retry
  BY <1>1, <1>2, LifecycleConstants DEF Retry, Fatal, TypeOK
<1>3. CASE \E next \in Stages : Continue(next)
  BY <1>3, LifecycleConstants DEF Continue, To, TypeOK
<1>4. CASE \E next \in Stages, name \in Checks : To(next) /\ checks' = checks \cup {name}
  BY <1>4, LifecycleConstants DEF To, TypeOK
<1> QED BY <1>1, <1>2, <1>3, <1>4, Zenon

\* Every step keeps the types.
LEMMA TypeStep == ASSUME TypeOK, [Next]_vars PROVE TypeOK'
<1>1. CASE \/ ValidateEnv \/ GetAuthorizerWithRetry \/ WaitForAzureAuth \/ DeployGateway
           \/ DeployGatewayWithVnet \/ createSubnet \/ DeployGatewayWithSubnet
           \/ createDeployment \/ WaitForDeployment
           \/ validateNamespaces \/ FatalValidate \/ CheckSku
  <2>1. \/ Fatal \/ Retry
        \/ \E next \in Stages : Continue(next)
        \/ \E next \in Stages, name \in Checks : To(next) /\ checks' = checks \cup {name}
    BY <1>1, Zenon DEF ValidateEnv, GetAuthorizerWithRetry, WaitForAzureAuth, DeployGateway,
                DeployGatewayWithVnet, createSubnet, DeployGatewayWithSubnet, createDeployment,
                WaitForDeployment, validateNamespaces, FatalValidate, CheckSku, Check, Stages, Checks
  <2>2. /\ subnet' \in {subnet, "found"} /\ puts' \in {puts, puts + 1}
        /\ gateway' = gateway /\ deployment' \in {deployment, "running"}
    BY <1>1, Zenon DEF ValidateEnv, GetAuthorizerWithRetry, WaitForAzureAuth, DeployGateway,
                DeployGatewayWithVnet, createSubnet, DeployGatewayWithSubnet, createDeployment,
                WaitForDeployment, validateNamespaces, FatalValidate, CheckSku, Check, azure
  <2> QED BY <2>1, <2>2, MainMoves, MainTypes, Zenon
<1>2. CASE StartServer \/ Start \/ Notify \/ Stop \/ ShutDown
  <2>1. Flags'
    BY <1>2, Zenon DEF StartServer, Start, Notify, Stop, ShutDown, BackgroundUnchanged, TypeOK, Flags, world,
                azure
  <2>2. Values'
    BY <1>2 DEF StartServer, Start, Notify, Stop, ShutDown, BackgroundUnchanged, TypeOK, Values,
                Stages, world, azure
  <2> QED BY <2>1, <2>2, Zenon DEF TypeOK, Flags, Values
<1>3. CASE Signal \/ Restart
  <2>1. Flags'
    BY <1>3, Zenon DEF Signal, Restart, TypeOK, Flags, world, azure
  <2>2. Values'
    <3>1. CASE Signal
      BY <1>3, <3>1, LifecycleConstants DEF Signal, TypeOK, Values, Stages, world, azure
    <3>2. CASE Restart
      <4>1. env' \in EnvVariables
        BY <3>2, LifecycleConstants, Zenon DEF Restart
      <4>2. restarts' \in 0..MaxRestarts
        BY <3>2, LifecycleConstants DEF Restart, TypeOK
      <4> QED BY <3>2, <4>1, <4>2, LifecycleConstants DEF Restart, TypeOK, Values, Stages, azure
    <3> QED BY <1>3, <3>1, <3>2, Zenon
  <2> QED BY <2>1, <2>2, Zenon DEF TypeOK, Flags, Values
<1>4. CASE ArmDeploys
  <2>1. Flags'
    BY <1>4, Zenon DEF ArmDeploys, TypeOK, Flags
  <2>2. Values'
    BY <1>4, Zenon DEF ArmDeploys, TypeOK, Values
  <2> QED BY <2>1, <2>2, Zenon DEF TypeOK, Flags, Values
<1>5. CASE Probe \/ \E q \in Requests : Readiness(q)
  <2>1. Flags'
    BY <1>5, Zenon DEF Probe, Readiness, TypeOK, Flags, world, azure
  <2>2. Values'
    BY <1>5, Zenon DEF Probe, Readiness, TypeOK, Values, world, azure
  <2> QED BY <2>1, <2>2, Zenon DEF TypeOK, Flags, Values
<1>6. CASE \/ Listen \/ ServeReturns \/ WorkerTakes \/ WorkerDone \/ WorkerStop
           \/ UNCHANGED vars
  <2>1. Flags'
    BY <1>6, Zenon DEF Listen, ServeReturns, WorkerTakes, WorkerDone, WorkerStop, ServerUnchanged,
                WorkerUnchanged, TypeOK, Flags, vars, world, azure
  <2>2. Values'
    BY <1>6, Zenon DEF Listen, ServeReturns, WorkerTakes, WorkerDone, WorkerStop, ServerUnchanged,
                WorkerUnchanged, TypeOK, Values, vars, world, azure
  <2> QED BY <2>1, <2>2, Zenon DEF TypeOK, Flags, Values
<1> QED BY <1>1, <1>2, <1>3, <1>4, <1>5, <1>6, Zenon DEF Next, Main

\* Types are kept; in particular a retry loop makes at most maxAuthRetryCount + 1
\* calls, whatever that number is.
THEOREM RetriesAreBounded == Spec => []TypeOK
<1>1. Init => TypeOK
  <2>1. Init => Flags
    BY Zenon DEF Init, Flags
  <2>2. Init => Values
    BY LifecycleConstants DEF Init, Values, Stages, Checks, Subnets
  <2> QED BY <2>1, <2>2, Zenon DEF TypeOK, Flags, Values
<1>2. TypeOK /\ [Next]_vars => TypeOK'
  BY TypeStep, Zenon
<1> QED BY <1>1, <1>2, PTL DEF Spec
=============================================================================
