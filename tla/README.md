# Application Gateway Ingress Controller: a TLA+ verification project

The Application Gateway Ingress Controller (AGIC) watches a Kubernetes cluster
and keeps an Azure Application Gateway configured for the ingresses in it. This
directory holds a TLA+ model of the controller, the TLC runs that check it on
small clusters, and TLAPS proofs of its main properties for clusters of any
size. Paths are those of the repository, under `src/`.

## 1. The system

One process runs these goroutines:

* one **informer** per kind of object (client-go): it mirrors the API server in
  a store and hands notifications to the handlers, in order per kind;
* the **handlers** (`pkg/k8scontext`): they filter the notifications and send
  events to the bounded channel `Work`;
* the **worker** (`pkg/worker`): it takes an event, asks `ShouldProcess`, drains
  the channel and makes two mutations (`pkg/controller`): `MutateAKS` writes the
  gateway's address into the ingresses' status, `MutateAppGateway` builds a
  configuration (`pkg/appgw`) and sends it to Azure Resource Manager (ARM);
* **main** (`cmd/appgw-ingress`) and the **HTTP server** (`pkg/httpserver`).

Everything they share is read and written without a common lock, and nothing
but the cluster and the gateway survives the process.

### Inventory

| Component | State | Operations | Hard part | Correct when |
|---|---|---|---|---|
| Stores, queries (`context.go`) | stores of ingresses, services, endpoints, pods, secrets | `List...`, `Get...`, `is...Referenced...` | change at any moment under the reader | a query answers for the present store |
| Handlers (`handlers.go`, `ingress_handlers.go`) | `Work` channel | add, update, delete | filters, tombstones, a full channel | every change that matters becomes an event |
| Certificates (`secrets_handlers.go`, `secretstore.go`, `threadsafemultimap.go`) | `ingressSecretsMap`, `CertificateSecretStore` | handlers of ingresses and of secrets | two goroutines, steps under separate locks | the gateway gets the certificate of the present secret |
| Worker (`worker.go`) | the event in hand | skip, drain, mutate | drops events on purpose | what it drops is covered by what it does next |
| Reconcile (`mutate_*.go`, `helpers.go`) | `configCache` | build, compare, update, cache | failed and lost calls | the cache is what the gateway holds |
| Config builder (`pkg/appgw`) | memoised parts | probes, settings, pools, listeners, rules | reads the stores many times; order of Go maps | a configuration of one moment, closed under references |
| Brownfield (`pkg/brownfield`) | none | classify and merge existing resources | references between kept and dropped | what is not AGIC's is kept |
| Istio (`istio_*.go`) | none | a second source of listeners and pools | as the builder | as the builder |
| Start, shutdown (`main.go`, `auth.go`, `httpserver.go`, `health.go`) | stage, retry counters, channels | checks, retries, signal, `Stop` | probes and signals at any stage | no action before all checks; always ends or runs |
| Azure client (`client.go`) | remembered public address | get, put, deploy a gateway | failures and restarts in the middle | a subnet is written once; no worker without a gateway |
| Pruning (`prune.go`) | a list fixed by the first call; the store's own objects | three filters | writes into shared objects | what no target prohibits is built |
| Environment (`environment.go`) | none | `ValidateEnv` | combinations of variables | main deploys only what was validated |
| Metrics, sorters, annotations, generated clients | none that matters here | pure or write-only | none | – |

`PROJECT.json` lists every component with what is modelled of it, and every
hazard at its line.

## 2. The modules

    K8sContext  <-  ConfigBuilder  <-  Controller  <-  MCController
                                           |
                                           +-- ControllerProofs
                                           +== implements Effects (the abstract specification)

    AppGwResources <- RoutingConfig --+
                   <- IstioConfig ----+-- Gateway  <-  MCGateway  ->  Sanitize
                   <- Brownfield -----+      |
                                             +-- GatewayProofs <- SharingProofs <- HostProofs
    Brownfield  <-  MergeProofs
    MergeProofs, RoutingConfig, IstioConfig  <-  BuilderProofs  <-  GatewayProofs

    SecretSync  <-  MCSecretSync
                <-  SecretProofs
    Lifecycle   <-  MCLifecycle
                <-  LifecycleProofs

There are two views of a reconcile. **Controller** has its *steps*: when it
reads what, which events are lost or kept, which calls fail. It cuts a
configuration down to backends, ports and pools. **Gateway** has its
*contents*: every kind of resource, the references between them, and the merge
with a gateway that belongs to somebody else. There a reconcile is one step, and
the sequence of reconciles, changes and restarts is what is explored.

**K8sContext** models the API server (`api`), the stores (`store`), the
notifications waiting for the handlers of each kind (`notify`) and the `Work`
channel (`work`). An object is cut down to what the controller tells apart: of
an ingress the class annotation, the services named by the paths of each rule,
the default backend, whether pruning keeps it, and the address in its status; of
a service its selector and how its port is found; of endpoints their ports and
addresses; of a pod its probe. `InformerSync` updates the store and queues a
notification, or a tombstone when the watch missed a deletion. `Handle` is
`addFunc`, `updateFunc`, `deleteFunc` and the ingress handlers; it blocks on a
full channel. The queries (`ListHTTPIngresses`, `ListServices`,
`isServiceReferencedByAnyIngress` and others) are operators on a store.

**ConfigBuilder** says what the parts of a configuration that depend on stores
are made of, given the store of the moment. Where the code ranges over a Go map
and leaves early, or takes the first object of an unordered list, the operator
gives the set of results.

**Controller** adds the worker. `pc` names the step to come: `TakeEvent` or
`SkipEvent`, `Drain`, `MutateAKS` with one `UpdateIngressStatus` per ingress,
`GetAppGw`, one step for each part of `Build`, then `SkipUpdate`,
`UpdateGateway` or `UpdateGatewayFails`. `Die` is the end of the process by a
panic, a fatal error or a kill; `Restart` begins again with empty stores. All
reads within one part of `Build` are one step: between two parts anything may
happen. Listeners read only the ingresses fetched at the beginning, so they add
no step here.

**Effects** is the abstract specification of the controller as the outside sees
it. Its variables are what users stored, the addresses in the ingresses' status,
the gateway, and the configuration that the process knows to be applied. Users
write what they like. The controller writes addresses into ingresses that exist
and puts configurations without dangling references on the gateway, never the
one it knows to be there; it may lose the answer of a put, and everything it
knows. `Controller` implements it under the mapping `Outside`, in which `SpecOf`
and `AddressOf` take the API server's objects apart.

**AppGwResources** defines what a configuration is (probes, settings, pools,
certificates, ports, listeners, redirects, path maps, rules), the generated
names and the references. A name is a tuple of what the code prints or hashes
into it. **RoutingConfig** is the builder of listeners, certificates, redirects,
path maps and rules, **IstioConfig** what gateways and virtual services of Istio
add, and **Brownfield** what prohibited targets keep of an existing gateway and
how kept and generated resources are merged. Their operators carry the names of
the functions they model. **Sanitize** is the comparison with the cache: what
`deleteKeyFromJSON` leaves of a JSON document. It is recursive, and joins the
instance in MCGateway so that proofs about Gateway do not meet it.

**Gateway** composes the first three with AppGwResources. `MutateAppGateway` is the whole call: brownfield
and Istio switched off when there is nothing to do for them, pruning with its
writes into the objects of the store, `Build` with every order of Go maps that
matters, the comparison with the cache, and a put that is accepted, refused, or
applied although it reports an error. A build may also panic (`MutatePanics`):
the process ends and the next one fills its stores anew. `MutateAKS` comes before it in each
reconcile and matters here because its call of `PruneIngress` may be the first,
which fixes the list of pruning functions; it has no effect when it cannot get
the gateway. The other actions are changes of ingresses, services, secrets,
targets and Istio resources, additions by the gateway's owner, and a restart.
`last` holds what the last call made and from what; the properties are about it.
`Accepts` is ARM's validation and external: references resolve, and no two
listeners are for the same host names, port and address.

**SecretSync** models the handlers of ingresses and of secrets as two goroutines
whose steps are the single accesses to the map, the certificate store and the
informer's store, and the worker that lists the ingresses first and reads the
certificates later. The history variables `overlap` and `leftOut` record whether
the two handlers ever ran at the same time and which secrets failed to convert
for the handler of ingresses.

**Lifecycle** models `main` stage by stage with the retry loops, `ValidateEnv`,
the deployment of a missing gateway call by call (virtual network, subnet,
resource group, template, waiting), the HTTP server's goroutine, readiness
requests, the signal with its unbuffered channel, and the shutdown. What Azure
holds (`subnet`, `deployment`, `gateway`) outlives the process, and the next one
starts from it with an environment of its own. `checks` and `puts` are history
variables. Closing `stopChannel` does not end the worker: the `break` at
`pkg/worker/worker.go:68` leaves the `select` only, so `WorkerStop` changes
nothing.

The MC modules define small instances; each `.cfg` picks one.

## 3. What is checked

`live`, `lifecycle` and `empty_restart` use the specification with fairness, the
other runs the one without. Deadlock is not checked: once the bounded changes
are spent the controller rightly rests, and a process that has ended stays
ended.

| Run | Instance | Shows |
|---|---|---|
| `core` | one site, named port, two changes, one failed call | `CacheCurrent`: when the worker is idle after a successful reconcile and nothing is on its way, the configuration applied last is one that `Build` makes of the present stores. `CacheIsGateway`, types and the channel's bound |
| `wild` | tombstones, rules without HTTP section, panic on failed update, lost reply, an edit from outside | `CacheCurrent` when processes die of what they meet; `TornBuildIsRepaired`, for a service whose port is a number, so that endpoints that appear between two reads leave a rule without its pool; `HasOnlyEffects`: the controller implements Effects |
| `two` | two ingresses sharing a service, two services, pods with both labels | `CacheCurrent` with ambiguous and unresolved ports and pruning |
| `live` | one change, a crash at any step, resync, fairness | `Converges`: the gateway and the ingresses' status come in line with the cluster and the controller comes to rest; `CacheCurrent` across restarts |
| `secrets` | two ingresses, two secrets, contents that do not convert, four changes | what the certificate store holds reaches the gateway, the map knows every secret that converted, and without overlap of the handlers certificates are current |
| `lifecycle` | five environments, two retries, two requests, two signals, two restarts | no action and no readiness before all checks, and no action without a gateway; the subnet is written once; the process starts or ends, each readiness request is answered and not only the first, shutdown ends |
| `gateway` | eight setups, two changes | see below |

The setups of `gateway`: `sharedHost` (two ingresses for one host with TLS,
redirects, firewall policies, and services that lose endpoints, ports or
themselves), `shapes` (default backends, ingresses without rules or host, private
addresses, several host names, rules without HTTP section), `istio`,
`sharedGateway` (an owner with listener, path map and rule, targets for a host, a
path, two hosts or none, and an owner who adds to the gateway),
`prohibitedGateway` (an owner whose listener has no host name, and everything
prohibited), `redirectingGateway` (an owner who redirects a path to a listener that
the targets may leave out), `hostlessGateway` (an owner who serves a path without a
host name, and an ingress without rules), `rendered` (small JSON documents). Its
properties:

* `RefsResolve`: whatever a generated configuration refers to is in it, after all
  parts are made and merged, with three exceptions: the pool of an ingress without
  rules, a path map of AGIC's own that becomes prohibited, and the listener behind
  a redirect that is kept (all below);
* `OnlyMissingIDsPanic`: `mergeRoutingRules` finds the path map of every rule that is
  kept or made, although rules and path maps are kept for different reasons and at
  different times of the build; what it can panic over is a path map without an ID,
  which an ingress without rules brings, and nothing else;
* `IngressesServed`: on a gateway of its own, each path of each ingress leads to
  its own pool and settings or to a redirect, whoever shares the listener;
* `PathMapsAreValid`: `validateURLPathMaps` never has anything to report;
* `ProhibitedHostUntouched`, `ProhibitedPathsUntouched`: what a target prohibits
  stays as it is, over repeated merges into one path map;
* `Settles`: building again from what was applied gives what was applied, so that
  merged resources read back from the gateway do not multiply;
* `SanitizedIsContent`: the cache ignores what is under `etag` and `tags` at any
  depth and in any spelling, and nothing else.

Runs that show a disagreement between the code and what the repository says of
it (the quotations are in `PROJECT.json` under `findings`):

| Run | What happens |
|---|---|
| `lost_put` | the cache is not reset after a failed update, and a needed update is skipped |
| `empty_restart` | what was deleted while the controller was down stays on the gateway |
| `secret_race` | an old certificate overwrites a new one |
| `prohibit_all` | with everything prohibited, the default rule of AGIC replaces the defaults of the owner's path map |
| `pruned_forever` | rules pruned from the objects of the store do not come back when the target is deleted |

The models have further behaviours of this kind, which no run is devoted to. They
explain the hypotheses and exceptions of the properties:

* a tombstone panics its handler (`pkg/k8scontext/ingress_handlers.go:57`), a
  rule without an HTTP section the check of an event
  (`pkg/k8scontext/context.go:508`), and the failed update does when the panic
  option is on; `wild` restarts from all three;
* a failed reconcile waits for an unrelated event, although the message of
  `pkg/controller/mutate_app_gateway.go:109` promises a retry, so `CacheCurrent`
  speaks of the time after a successful one and `live` has no failing call;
* an edit of the gateway from outside stays until the cluster changes, so
  `CacheCurrent` is about the cache and `CacheIsGateway` assumes no edits;
* endpoints of a service that only a default backend names are not followed, and
  a backend whose service is missing reaches the settings, although the comment
  at `pkg/appgw/backendhttpsettings.go:84` excludes it (`AllTracked`);
* ingresses of `kube-system` and `kube-public` are configured but not followed
  (`IgnoredNotAnnotated`);
* a secret that did not convert when its ingress was handled is ignored when it
  is put right (`leftOut`);
* a graceful shutdown races the fatal exit of the serving goroutine
  (`pkg/httpserver/httpserver.go:58`; `ShutdownEnds` accepts either end), and a
  signal that comes between `Notify` and the receive is dropped;
* an ingress without rules names a pool that may not exist, and its path map
  replaces the one of ingresses without a host (`RefsResolve`,
  `IngressesServed`);
* that path map has no ID (`pkg/appgw/requestroutingrules.go:138`). When ingresses
  without a host add paths to it and a kept and a managed rule share some listener,
  `lookupPathMap` and `deletePathMap` dereference the missing ID
  (`pkg/brownfield/pathmaps.go:126`) and the process panics, also after its restart
  (`OnlyMissingIDsPanic`). A look-up stops at the path map it looks for, by the order
  of names; names have no order here, so it may or may not get as far (`NilIDs`);
* a private listener on the port of a public one is dropped or not, by the order
  of a Go map; the redirect that an ingress asked for is lost when a later
  ingress configures the same listener without one;
* when a target prohibits what AGIC made before, the rule is kept and managed at
  once, and `deletePathMap` removes the path map that both use: the reference
  dangles and ARM refuses the update (`OwnExposed`);
* `MergeListeners` compares the single host name of two listeners and not their
  lists: of an owner's listeners with lists on one port, and one for all hosts,
  only one survives a merge if a target without a host keeps them all;
* a redirect of the owner is kept for a prohibited path (`GetBlacklistedRedirects`)
  while the listener it leads to is kept only if its own host or a rule on it is
  prohibited as well: otherwise the redirect dangles and ARM refuses the update
  (`LooseRedirects`);
* a rule is kept when its host is prohibited without a path, its path map when one
  of its path rules is prohibited. With a target whose path stands for no path but
  not for all (`//*`), or an owner's path map without path rules, a rule may be
  kept without its path map, and the merge dereferences the nil that
  `lookupPathMap` returns (`TargetsArePlain`, `MapsAreUsed` in section 4);
* pruning looks at the hosts of rules and not at the annotation
  `hostname-extension`: an ingress may ask for a prohibited host that way, and
  what AGIC makes for it meets the owner's listener (`HostsApart`);
* if the first `PruneIngress` of a process is not that of `MutateAKS` (its
  `GetGateway` failed) and there are no targets yet, prohibited ingresses are
  never pruned by this process (`pruneList = "with"` in two properties);
* a reconcile without targets, because the last was deleted or because their
  store, which the start does not wait for, is not filled yet, owns the gateway;
* with Istio the default listener may be in the list twice, and ARM refuses the
  update.

**Bounds.** `MaxChanges`, `MaxFailures`, `MaxCrashes`, `MaxEdits`, `MaxProbes`,
`MaxSignals` and `MaxRestarts` bound what the environment does. Two changes are
enough for one to fall between two reads of a build and another behind the
drain, which are the ways to lose an update; the initial lists add three or more
events that arrive in any order. `WorkBuffer` is 2 so that handlers block during
the start. `Resynced` limits resync notifications to some keys and to one at a
time per kind; they carry no change and only delay. Four changes in `secrets` are
enough to create an ingress and a secret and to change each while it is handled.
Ports are 80 and 81, so that a name may resolve to none, one or two. In
`gateway` two changes, among them lost answers and restarts, with any number of
reconciles between them, are enough for what one reconcile merged to be read
back under other targets or ingresses; the initial ingresses, secrets, targets
and Istio resources are chosen freely.

**Data left out.** Letter case is abstracted, but for the keys of JSON documents.
A wildcard is a whole chunk of a path, and `contains` counts chunks where the code
counts characters, which differ only for a star in the middle of a path. The order of path rules read from a Go map
is one choice per call (`ord`) and applies to all path maps; the order in which a
configuration lists its other resources is not represented. Rules with an empty
list of paths, match conditions of Istio other than paths, and Istio on a shared
gateway are not instantiated. All deployments use one subnet prefix; a subnet
with another is overwritten, as `createSubnet` does. ARM is assumed to refuse a
second deployment of the same name while one runs. A route of a gateway that has
a pool has settings too (`http_settings.go:102` asks for the one and dereferences
the other). An HTTP route of a virtual service of Istio has a destination, and there
are settings where its pool is found; without, `istio_routing_rules.go:29` and `:80`
panic.

**Hypotheses inside the properties.** `CacheCurrent` speaks of clusters in
which every backend is tracked (`AllTracked`: it belongs to a path of a rule, to
a service that exists, and is not `aad-pod-identity-mic`); `TornBuildIsRepaired`
also of ingresses that have rules. `Converges` leaves out clusters for which
`Build` has no answer (a port name with two numbers). The exceptions of the
properties of Gateway are stated in their comments and listed above. Two more
hypotheses are in the shape of the models. A pod keeps its labels while it lives:
if one were relabelled out of a selector, `ShouldProcess` would judge the event by
the new labels and skip it (`pkg/controller/should_process.go:19`), and `CacheCurrent`
does not cover that. And whether a secret converts depends on its contents: a
conversion that fails for a passing reason (a temporary file, the call of openssl,
`pkg/k8scontext/secretstore.go:79`) is not tried again by the code, and the
properties of SecretSync do not cover that.

**Fairness.** Every goroutine that can run runs (weak fairness of each informer,
each handler, and the worker), the resync timer ticks, and the kubelet restarts
the pod. Users, failures, crashes, events and signals are never obliged to
happen. In `Lifecycle` calls of ARM and the API server return, with either
result, and the initial lists of the informers are complete some day: client-go
asks for them again without bound, and `Start` waits as long. Go's scheduler and
Kubernetes give all of this.

## 4. What is proved

The theorems hold for all values of the constants that satisfy the named
assumptions (`K8sConstants`, `ClustersAssumption`, `PortsAssumption`,
`ControllerConstants`, `NoneIsNoConfig`, `LifecycleConstants`, `SecretConstants`,
`SetupsAreWellFormed`): any namespaces, names, objects, secrets, buffer size and
number of changes, failures, crashes, retries, restarts and edits, and for
Gateway any ingresses, services, targets, Istio resources and owners.

ControllerProofs:

* `TypeCorrect`: `Spec => []TypeOK`.
* `CacheMirrorsGateway`: if an update that reports an error is never applied and
  nobody else edits the gateway (`ReliablePut`), `Spec => []CacheIsGateway`, and
  from it the action property `SkippedUpdateIsApplied`:
  `Spec => SkipsOnlyWhatIsApplied`.
* `NoLostUpdate`: `Spec => []CacheCurrent`, and `TornBuildRepair`:
  `Spec => []TornBuildIsRepaired`, if no ingress of an ignored namespace carries
  the annotation (`IgnoredNotAnnotated`; section 3 says why it is
  needed).
* `ControllerImplementsEffects`: `Spec => HasOnlyEffects`, the refinement.

LifecycleProofs:

* `ChecksComeFirst`: `Spec => []MutatesOnlyWhenChecked`; `ReadyComesLast`:
  `Spec => []ReadyMeansChecked`; `SubnetIsPutOnce`: `Spec => []SubnetPutOnce`;
  `RetriesAreBounded`: `Spec => []TypeOK`.

SecretProofs:

* `OnlyCertificatesAreApplied`: `Spec => []TypeOK`; `NoCertificateChangeIsLost`:
  `Spec => []AppliedIsCached`; `MapKnowsEverySecret`: `Spec => []MapIsComplete`;
  `SerialHandlersKeepCertificatesCurrent`: `Spec => []CertificatesCurrentIfSerial`.

SharingProofs, all if `None`, which stands for a nil pointer, is not the name of
a resource (`NoneIsNoName`):

* `GeneratedPathMapsAreValid`: `Spec => []PathMapsAreValid`.
* `ProhibitedPathsStay`: `ProhibitedPathsUntouched` holds of every call in which
  the targets name hosts, or no listener of the gateway has a list of host names
  (`OneKeyEach`; section 3 says why it is needed).
* `OwnReferencesFind`: `RefsResolve` holds of every call without targets, and none
  of them panics, with no further hypothesis.
* `PanicsAreOverMissingIDs`: `Spec => []OnlyMissingIDsPanic`, if the path maps of the
  owner have path rules (`MapsAreUsed`) and a target that prohibits a host without a
  path prohibits all of it (`TargetsArePlain`).
* `IngressesAreServed`: `Spec => []IngressesServed`, if `None` is not a list of host
  names either (`NoneIsNoList`).

HostProofs, under `NoneIsNoName` as well:

* `ProhibitedHostsStay`: `Spec => []ProhibitedHostUntouched`, if `MapsAreUsed`, the
  owner's names are not of the form that AGIC generates, no two rules of the owner
  share a path map, and `hostname-extension` names no host of a target
  (`OwnersAreApart`).

Section 3 says what happens without these hypotheses. MCGateway assumes them of all
setups of the runs (`SetupsAreApart`), so that the theorems speak of what TLC checks.

**The argument for `NoLostUpdate`.** `CacheCurrent` speaks of a moment of rest
and says nothing of a build under way, so it is not inductive. `CurrentInv` is:
while a build runs, each part built so far is still what the present stores
yield, *or* an event is on its way that is relevant to the present stores
(`RepairComing`); the same holds of the configuration applied last while the
worker is idle. Relevance is stated of the present store and not of the one the
event came from, so that an informer's step can change which keys are relevant.
The proof has three parts:

1. *What a change can disturb* (`Agree`). `Agree(s, t)` says that two stores give the same
   configurations. Changing one key of a store either keeps agreement or makes
   that key relevant (`OneKeyAgrees`), and the notification of such a change is
   one the filters let pass (`BackendForwards`, `SyncAgrees`).
2. *What happens to an event.* Informers, the resync timer and handlers keep
   pending events pending (`SyncPending`, `ResyncPending`, `HandlePending`); when
   the worker skips an event, it was not relevant (`RelevantIsProcessed`,
   `TailPending`); draining precedes every read of the build.
3. *Each action* of the worker then extends the invariant by the part it reads
   (`CurrentStep`, one case for every action).

**The other arguments.** `ControllerImplementsEffects` needs, besides types, that
the configuration under construction has only ingresses of AGIC (`GenServed`),
and then takes each action: most are not seen from outside, `UpdateIngressStatus`
is `SetAddress` because the API server keeps the specification it has, and an
update is `Put` or `PutLost` because `SkipUpdate` comes before it.
`ChecksComeFirst` rests on `StageInv`, which ties main's stage to the checks
passed, to `synced` and to the gateway. `SubnetIsPutOnce` rests on `SubnetInv`:
main comes to `createSubnet` only while the subnet is missing or has another
prefix, in whichever process. In SecretProofs, `AppliedInv` says that for a
certificate that differs from the applied one there is an event in the channel, a
handler that is about to send one, or a worker that has yet to read it, and
`MapInv` that a reference missing in the map belongs to an ingress still queued,
to a secret the handler has yet to insert, or to one that failed to convert.
`SerialInv` adds what a handler holds between two steps: while the handlers never
overlapped, a certificate that is not current belongs to a secret whose
notification is queued (`QueueInv`: the last one brings what the store holds) or
to the conversion under way.

**The arguments for Gateway.** A call is one step, so the work is in what the
builder computes, and the invariants are short.

1. *Sequences and loops* (MergeProofs, BuilderProofs). The loops of the code are
   recursive functions on a counter. `NatInd` is induction for sets of numbers,
   which a first-order prover can use, and gives what lists, concatenations and
   walks hold (`ListedIs`, `FlattenIs`, `WalkIs`).
2. *What the builder makes.* `MadeMaps(maps, to)` says that path maps have
   their parts, exactly one target each and find it among the names `to`; it is an
   invariant of the loop of `getPathMaps` over rules, of `mergePathMap` and of the
   ingress without rules (`PathMapsAreMade`), and of the path maps of Istio.
3. *Merging.* `GoodMaps` and `OwnRulesUseOwnMaps` survive `MergePathMaps`,
   `MergeRules` and `deletePathMap` for every order of path rules
   (`MergedMapsAreGood`, `MergedRulesAreGood`), and a kept rule keeps its prohibited
   paths (`MergedRulesKeep`). A name that AGIC generates stands for what AGIC makes
   is part of `WellFormed`, without which a kept path map could be deleted as one
   of AGIC's.
4. *References* (BuilderProofs). `GoodContext` relates what the parts of the
   builder read: every backend comes from a rule or a default backend, every
   listener with HTTPS from a secret in use. From it, each kind of reference
   is followed to the operator that makes what it names (`ServicesAreFound`,
   `SecretsAreFound`, `ProbesAreThere`, `RedirectsLead`, `ListenersFind`,
   `RulesFind`, together `OwnReferencesResolve`).
5. *Calls* (GatewayProofs, SharingProofs). `TypeInv` says that the stored
   ingresses, the mesh and the gateway are well-formed, and that ARM accepts the
   gateway, as long as pruning writes into the store, the owner edits, and
   updates are lost. `SharingInv` adds what is claimed of the last call and is
   inductive: a call establishes it (`CallIsGood`), the other steps forget or keep
   the last call.
6. *Panics* (GatewayProofs, SharingProofs). What is kept of rules and of path maps
   is told apart in `KeptRulesAre` and `KeptMapsAre`. A build ends in a panic if a
   look-up passes a path map without an ID, which needs one (`PassingNeedsNoID`), or
   finds none (`BuildsDoNotPanic`). A rule that is kept for its
   path map finds it in the merge. One that is kept for its host is on a host of
   which every path is prohibited (`PlainTargetsProhibitAll`), so its path map is kept
   too if it has a path rule, and that is the inductive part (`MapsKeepRules`): every
   path map that a build makes or an owner adds has one.
7. *Prohibited hosts* (HostProofs). A listener or rule stays only if nothing that
   AGIC makes has its place or name, and the gateway may hold what AGIC made for the
   host before it was prohibited. The inductive invariant `Told` therefore says what
   names tell: a listener with a generated name has the host names of the identifier
   in it, a rule with a generated name is on a listener with those host names and has
   no path map but its own, and everything else is the owner's (`NamesTell`). It
   survives builds, lost updates and edits (`BuildsTell`, `OverlayTells`). With it and
   pruning, which leaves no rule for the host (`NothingIsAskedOfWholeHosts`), all that
   a build makes is for other host names (`ManagedIsElsewhere`), and each merge leaves
   the host alone (`MergeLeavesAlone`, `WholeHostStays`).
8. *Service* (BuilderProofs). A path map that serves a rule goes on serving it when
   others are merged into it, because `mergePathMap` appends their path rules and
   replaces the default only by one that an ingress names (`MergedMapServes`); this
   is the invariant of the loop over
   rules (`AddedRuleIsServed`, `NoRulesKeepServed`, `RoundServes`, `PathMapsServe`). A
   listener is found again under the identifier that was asked for, although the
   identifier is read back from its ports and host names (`IdentifierComesBack`); so
   the rule on it has the path map made for it (`RuleServes`, `OwnIngressesServed`).

**Only model-checked:** liveness (`Converges`, `StartsOrExits`, `ShutdownEnds`,
`ProbesAnswered`), which needs fairness and `ENABLED`, beyond the prover;
`SanitizedIsContent`, about recursive operators; `RefsResolve` on a shared gateway
and `ProhibitedPathsUntouched` without `OneKeyEach`; `Settles`, which compares two
builds and needs to know which of several results each loop comes to.

## 5. What is not modelled

* Metrics, sorters, recorded Kubernetes events and the `Log` functions: nothing
  reads them back.
* Generated CRD clients and API types.
* The parsing of annotations, of the environment and of the text of the ARM
  template: pure, and the model starts from the parsed values. The annotations
  that set values inside HTTP settings and probes change no reference.
* The cut of long names and their hashes. Whether two names meet is a question
  about strings that the model does not ask.
* The retries inside Azure's SDK and the remembered public address
  (`pkg/azure/client.go`): the gateway's address is a constant.
* A failure to marshal a configuration to JSON.
* `GetAGICPod`, `GetInfrastructureResourceGroupID`: plain reads.
