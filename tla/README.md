# Verification of the Siddhi operator

TLA+ specifications, TLC models and TLAPS proofs for the Kubernetes operator
under `src/`. The operator watches `SiddhiProcess` objects, has their Siddhi
apps parsed by a parser it deploys for the purpose, and keeps one deployment
(with service, ingress path, claim and config map) per parsed application.

All paths below are relative to `src/pkg/controller/siddhiprocess/` unless
they start with `src/`.

## 1. Inventory

| Part | State it keeps | Operations | Talks to |
|------|----------------|------------|----------|
| Reconcile loop (`siddhiprocess_controller.go`) | `SPContainer`, `CMContainer`, `LoggedMessagingAvailability` in memory; a work queue | `Reconcile`, `populateSiddhiApps`, `getSiddhiApps`, the predicates `CreateFunc`, `UpdateFunc`, `DeleteFunc`, `cmPredicate.UpdateFunc` | informer cache, API server, everything below |
| SiddhiController (`siddhicontroller/`) | the worker's copy of the object | the `Update...Status` writes, `CreateArtifacts`, `CheckDeployments`, `CheckAvailableDeployments`, `CleanArtifacts`, `SyncVersion`, `UpgradeVersion`, `SetDefaultPendingState`, `SetNotReadyState`, `UpdateDefaultConfigs` | API server |
| Spec comparison (`src/pkg/apis/siddhi/v1alpha2/siddhiprocess_functions.go`) | none | `Equals` and its parts | called by `UpdateFunc` |
| Parser client (`parser/parser.go`) | the parser's deployment and service in the cluster | `Parse`, `deploy`, `invokeParser`, `waitForParser`, `cleanParser` | parser over HTTP |
| Deploy manager (`deploymanager/application.go`) | none | `Deploy`: claim, config maps, deployment | artifacts |
| Artifacts (`artifact/artifacts.go`) | cluster resources | create-or-update and delete of each kind, `CreateNATS`, the mutate functions | API server |
| Messaging (`messaging/messaging.go`) | NATS and STAN clusters | `CreateMessagingSystem`, `CheckMessagingSystem` | artifacts |
| Start-up (`src/cmd/manager/main.go`) | the lock `siddhi-operator-lock` | `main`: become the leader, build the manager, run it | API server |
| Types (`src/pkg/apis`) | — | — | — |

How the parts interact. The informer stores each new state of an object in its
cache and only then runs the predicates, on its own goroutine; the predicates
*assign to the cached object* (`Status.CurrentVersion`, `Status.EventType`).
The worker `Get`s that cached object, whose `EventType` and versions select
the branch: a pass that parses and deploys, or a "timer" pass that only counts
replicas against the list in `SPContainer`. Every status write of the worker
comes back through the informer as an update with an equal spec, and that sets
`EventType` to `Timer`. So the operator's own writes steer its next pass, and
this loop is where the difficult behaviour is:

* **interleaving**: predicate and worker share the cached object without a lock;
* **staleness**: a pass lasts as long as a parser call, and its copy of the
  object and the entry of `SPContainer` may be obsolete when it writes;
* **retries**: a failed pass is retried, but through whatever branch the
  events that arrived in the meantime select;
* **restart**: `SPContainer` is lost and every object is "created" again;
* **partial failure**: most errors are dropped or only recorded in the status,
  and a pass is a sequence of a dozen writes that may end after any of them;
* **names**: a request is a name, a ConfigMap has one listener, and the name of
  the config map with the code (application, version) decides whether pods are
  replaced.

What makes each part correct:

* *Reconcile loop*: a spec that stays is eventually deployed; what it no longer
  lists is eventually deleted; the status eventually tells the truth; polling
  ends; stale writes never undo the user.
* *SiddhiController*: the version counters are ordered and monotone;
  `SPContainer` knows every deployment, so that `CleanArtifacts` can find it;
  Ready means ready.
* *Spec comparison*: equal exactly when the specs ask for the same thing.
* *Messaging*: a stateful process is not deployed before the messaging system
  it asked the operator to create.
* *Deploy manager and artifacts*: whatever a pod mounts exists, also when a call of
  a pass failed; a complete pass
  leaves what the list asks for and nothing of a longer one; new code reaches
  the pods.
* *Ingress*: no path is lost, doubled or missing.
* *Parser output*: every listening port is exposed once; names do not collide.
* *Requests*: a change of a process or a ConfigMap reaches the right process.
* *Start-up*: one manager at a time, and some manager in the end.

## 2. Modules

| Module | What it is |
|--------|------------|
| `SiddhiOperator` | the control loop; extends `Availability` |
| `Rollout` | what the control loop promises: deployments move forward through the specs the user wrote |
| `MCSiddhiOperator` | TLC instance: two specs and the parser's answers |
| `SiddhiOperatorProofs` | type correctness of `SiddhiOperator`; status writes never undo the user |
| `OrderProofs` | the copies of the object are in order: `SiddhiOperator` implements `Rollout`, versions are ordered |
| `ListProofs` | when `SPContainer` can be trusted; the messaging system comes first |
| `Artifacts` | one pass, write by write: claims, config maps, deployments, services, the Ingress, and the pods |
| `MCArtifacts` | TLC instance: four specs, three contents of the operator's ConfigMap, an Ingress with and without the rule that processes share |
| `ArtifactsProofs` | types, mounts, what a pass leaves behind, the shared Ingress, what pods run |
| `FoldTheorems` | induction over numbers and what a fold computes: lemmas for the proofs about loops |
| `Leader` | start-up of the operator's pods |
| `Routing` | `Leader` composed with requests, predicates and listeners, by name |
| `RoutingProofs` | one manager at a time, for any number of pods; listeners are readers |
| `Availability` | the arithmetic of `CheckAvailableDeployments` as operators |
| `AvailabilityProofs` | theorems about it, for any number of applications |
| `SpecEquality` | `SiddhiProcessSpec.Equals` and the reference it is compared with |
| `ParserOutput` | ports, end of the loop and names in `Parse` |
| `MCFunctions` | `Availability`, `SpecEquality` and `ParserOutput` under changing inputs |
| `FunctionsProofs` | `Equals` for lists of any length; the invariants of `MCFunctions` for every bound |

### SiddhiOperator

One `SiddhiProcess`, one user `ConfigMap`, one worker (the controller's default
`MaxConcurrentReconciles`). State and code:

| Variable | Code |
|----------|------|
| `api`, `watch` | the object in the API server; its states on the way to the informer |
| `cache`, `notif` | the informer's object; predicate calls that still have to run. `CreateFunc` and `UpdateFunc` make two assignments, so a call has two steps (`add`/`reset`, `mod`/`mark`) |
| `queue`, `delayed` | the work queue; `RequeueAfter` and rate-limited requests. A request is named after the process (`sp`) or the `ConfigMap` (`cm`) |
| `pc`, `req`, `sp`, `apps`, `op`, `idx`, `oldLen`, `verdict` | the worker: where it is in `Reconcile`, its copy of the object, its application list, `eventType`, loop counters, the outcome of `CheckAvailableDeployments` |
| `fresh` | the copy's `resourceVersion` is the server's: `Status().Update` will be accepted |
| `SPContainer`, `CMContainer`, `LoggedMessagingAvailability` | the package variables of the same names |
| `dep`, `depEvent` | deployments with owner, what they run, replicas and available replicas (0 is the parser's); an event about them under way |
| `stray` | history: deployments whose deletion was skipped without an error, until they are deleted or named by a list again; the only guard that reads it bounds the skipped deletions |
| `cm`, `cmEvent`, `nats` | content of the ConfigMap, its event, the messaging system |
| `count` | what the environment has used of its bounds |

An application list is represented by what it was parsed from (`Source`: a spec
and a ConfigMap content); `Parse` is a constant operator, so the proofs hold for
every parser. A spec is an opaque value and `SpecEquals` stands for `Equals`.
The text `"a/n"` of `Status.Ready` is the pair `<<a, n>>`.

A step of the worker is one call that others can see or disturb. Consecutive
writes of the same copy (the status writes after each of the four deletions of
`CleanArtifacts`, or after deployment and service in `CreateArtifacts`) are one
write: the second changes nothing unless the first failed. A failing call has
an action of its own (`ParseFails`, `CleanFails`, `MessagingFails`,
`DeploySwallowed`, `DeployFails`, `CheckFails`, and the last disjunct of `Put`).
One failure is silent: the delete functions of `artifact/artifacts.go` start with a
`Get`, and when it fails, or misses the object in a lagging cache, they delete
nothing and return nil. `DeleteDeployment` has this outcome as its second disjunct,
both where `CleanArtifacts` and where `cleanParser` calls it: the caller goes on as
if the deployment were gone. A skipped deletion counts as an API fault as long as the
deployment is in `stray`.
`StatusUpdate` keeps the change in the worker's copy even if the write fails:
the code saves a pointer, not a copy, before it assigns.

Modelled from how the code uses them (external): the API server's optimistic
concurrency (`Put`), the informer (`Deliver`, `Resync`), the work queue
(`TimerFires`), the deployment controller (`AvailabilityChanges`), the garbage
collector (`CollectGarbage`) and the user.

Two constants restrict interleavings, and both are named in the runs that use
them:

* `RaceFree`: a worker reads the object only when no predicate call is pending.
  The code does not guarantee it; the run `lost_update` shows what happens
  without it, and the runs that assume it show what holds otherwise.
* `SlowTimers`: a delay of seconds or minutes outlasts the delivery of the
  events already under way. Without it a timer pass on a stale copy can end the
  polling with its last write rejected, and `StatusConverges` fails.

### Rollout, and how SiddhiOperator implements it

The abstract state is the number of specs the user has written and, per slot, the
number of the spec its deployment was made from (0: none). `Write` adds a spec,
`Apply` brings a slot to a spec that was written and is not older than what any
slot runs, `Remove` empties a slot. Objects of `SiddhiOperator` carry that number
as a history field `gen`, set by the user's writes and copied with the spec; no
action reads it. `R == INSTANCE Rollout` maps `gen` to the writes so far and
`runs` to `dep[i].gen`; the run `races` checks `ImplementsRollout == R!Spec`. What
it says is not obvious from the code: the worker deploys from a copy that may be
several updates old, and nothing but the order in which the cache advances keeps
a later pass from carrying an older spec than an earlier one did.

### Artifacts

`SiddhiOperator` takes a `Deploy` as one step and has the informer, the queue and
the error returns in detail; `Artifacts` has it the other way round. A pass of the
worker (`pc`, `idx`) is one step per write:

| Step | Code |
|------|------|
| `BeginPass` | `Reconcile` up to the timer branch; `UpdateDefaultConfigs` |
| `SetStateAndParse` | `SetDefaultPendingState`, `SetNotReadyState`, `populateSiddhiApps` |
| `DeleteDeployment`, `DeleteService`, `DeletePVC`, `DeleteConfigMap` | one turn of `CleanArtifacts` |
| `DeletionSkipped` | the `Get` that opens each of the four fails or finds nothing in the cache: the resource stays, nil is returned, the loop goes on (`stray`: the deployments left this way) |
| `StoreApps` | `SPContainer[sp.Name] = newApps` |
| `CreateClaim`, `CreateDepYAML`, `CreateAppsCM`, `CreateOrUpdateDeployment` | `Deploy` |
| `CreateOrUpdateService`, `CreateOrUpdateIngress` | the rest of a turn of `CreateArtifacts` |
| `SyncVersion` | the same |
| `CleanFails`, `DeploymentFails`, `WriteFails` | a failed delete or write: return, dropped, next application |

A config map is its name and content; the name of the one with the code is
`<<"apps", i, version>>` (that the concatenated names differ is `NamesDistinct`).
A pod template is what `DeploymentMutateFunc` assigns as far as the properties
read it: image, ports, mounted config maps, claim. A deployment's pods are
replaced when the template differs (`RollOut`, external) and read their files when
they start. An answer of the parser is a member of `spec.answers`: a set, since
`getSiddhiApps` visits a ConfigMap in the order of a Go map. An Ingress path is
the pair of application and port; 0 stands for the services of other processes.
`PortLists` says that an application lists a port once, which is what the loop of
`Parse` ensures (`FunctionsProofs!PortsListed`).

The event of an update is delivered with the update: the races between the
informer and the worker are the subject of `SiddhiOperator`. One of them matters
here and is kept: an update that arrives before the first status write of a pass
(`overtaken`).

### Leader and Routing

A pod is in one of the phases of `main`; the lock belongs to a pod. A process that
ends is started again in its pod (`Exit`), a pod that is deleted is replaced by
another (`PodDeleted`, `PodCreated`), and the garbage collector removes the lock of
a pod that is gone. `Routing` adds what the manager holds in memory, and loses when
it ends: the cache, the queue, `SPContainer` (here only whether there is a list)
and `CMContainer`. A process is the name of the ConfigMap it reads, or `""`.
Processes and ConfigMaps share the name `"a"`. `due` remembers which changes have
not been seen by a pass on an up-to-date object. Events of one object are merged:
delivery hands over the object as it is now. The informer delivers every event, but
a pass between two of them ends like one before or after both.

### SpecEquality

`Equals` sorts the server lists of both objects in place before it compares
them. The order has no meaning to `Equals`, so the model keeps the result of the
comparison and leaves the reordering of the cached object out.

The lists are those of a custom resource without a list schema, so they may repeat
an app, an environment entry or a name with different values. What an environment
asks for is the map that `populateUserEnvs` makes of it, in which the last entry of a
name wins, as it does in a container (entries that refer to others by `$(VAR)` are
left out). `Reordered` specs have the same lists up to order; specs of the
`SameMeaning` differ at most in what that map, and the order, hide.

## 3. Runs

Bounds: two applications are enough for a list to shrink, for one deployment to
hide another one's deficit and for stateful and stateless to mix; two specs for
an update and its reversal; one fault of each kind, since a fault's consequence
here is a wrong branch in the next pass, not a count; `MaxLag` 2 lets an event
overtake a predicate call. Deadlock is not checked in the operator runs: once a
process is deployed and reported, the operator rightly has nothing to do.

| Run | Bounds | Shows |
|-----|--------|-------|
| `races` | 2 updates, 1 restart; `SlowTimers`, but events of owned resources start a pass at any moment, also on a stale cache | `VersionOrder`, `VersionsMonotone`, `NoClobber`, `TypeOK`, `ImplementsRollout` |
| `cleanup` | update, delete and re-create, API fault or skipped deletion, parser fault; `MaxLag` 1 (`NoClobber` is proved for every `MaxLag`) | `NoOrphans`, `ClusterMatchesList`, `NoClobber` |
| `rollout` | 2 updates, fairness | `SpecDeployed`, `LeftoversDeleted`, `MessagingCreated` |
| `status` | 3 changes of availability, parser fault, restart, resync, fairness; `MaxLag` 1 | `SpecDeployed`, `StatusConverges`, `DownReported`, `PollingEnds` |
| `messaging` | update, 2 ConfigMap contents, NATS installed late, API fault | `NATSBeforeApps`, `VersionsMonotone` across `UpgradeVersion` |
| `artifacts` | 2 applications, 4 specs; 2 events in all: updates, edits of the operator's ConfigMap, failed calls, skipped deletions, restarts; fairness | `MountsExist`, `Converged`, `PodsRunCurrentApp`, `IngressKept`, `IngressComplete`, `UpdateRolledOut`, `TypeOK` |
| `routing` | 2 pods, 1 exit, 2 processes and 2 ConfigMaps with a common name, 3 changes; fairness | `OneManager`, `TakeOver`, `OwnRequestArrives`, `ChangeArrives`, `TypeOK` |
| `functions` | 3 applications, 2 replicas, surge 2; lists of 2, 2 edits; 4 sources; 11 applications, versions to 101 | `TerminateMeansAllUp`, `ReadyMeansStatefulUp`, `ReorderingIsNoUpdate`, `OnlyThreeBlindSpots`, `PortsExposed`, `NamesDistinct` |

`MaxEvents` of `artifacts` is shared by all kinds of disturbance: two are enough
for an update and a failure or restart within its pass, and for two updates, the
second of which brings back what the first removed. Three changes in `routing` are
a ConfigMap, a process that reads it and a change of the ConfigMap.

Runs that are expected to find a violation; each is a disagreement between the
code and what its comments say:

| Run | What happens |
|-----|--------------|
| `lost_update` | The worker reads the cached object between the informer's store and the predicate's assignments. It sees the new spec with `EventType` Timer or the old version, its status writes come back as equal-spec events, and the update is never deployed. |
| `parser_failure_on_update` | The parser fails on an update. The error status comes back as an equal-spec event, `EventType` becomes Timer, and the retry counts replicas of the old list instead of parsing. |
| `configmap_change` | In the steady state `EventType` is Timer and `SPContainer` is set, so the request of a changed ConfigMap never reaches `UpgradeVersion`. |
| `unwanted_artifacts` | A stateful process becomes stateless. `CleanArtifacts` deletes what the new list is too short for, by position: the claim of a position that is still in use, and every `-depyml` config map, stay. |

More behaviours of the same kind are known from TLC. They are listed under
"hazards" in `PROJECT.json`, and the properties are stated so as to exclude exactly
them:

* an object deleted and created again during a parser call is never deployed (the
  old list is stored after `DeleteFunc` removed it);
* a messaging system whose operators are installed after the first attempt is
  never created (every retry takes the timer branch);
* a stateless process that gives only the type of its messaging system is deployed
  without one: `CreateMessagingSystem` also wants an application with state, although
  its comment and `src/docs/spec-guide-v1alpha2.md` say that the type is enough and
  `createRequest` has told the parser the address of the default cluster;
* after a restart an update has no old list to clean up;
* an update that overtakes the first status write of a pass, or that comes while
  the operator is down, reuses a version: the config map changes, the pod template
  does not, and pods go on with the old code;
* a process with the name of a ConfigMap, or one of two processes that read the
  same ConfigMap, misses requests;
* an environment variable that is added, the order of two entries that give one name
  different values, or one of two equal apps that is replaced, is no change to
  `Equals`;
* a deployment whose deletion was skipped because its `Get` failed is in no list any
  more, and its claim and config map are deleted under it: its pods cannot restart.

### Fairness

`FairSpec` assumes weak fairness of the informer, the predicates, the event
sources, the delays and the steps of `Reconcile` (goroutines that keep running),
and strong fairness of `Start(r)` for each request: the work queue is first-in
first-out, so a request that is queued again and again is taken up although the
worker is busy in between. Nothing is assumed of the user, of the availability of
replicas, of the installation of NATS, of the garbage collector, of failures or of
restarts.

`Artifacts!FairSpec`: the worker goes on, the operator comes back and the
deployment controller acts; pods need not restart. `Routing!FairSpec`: each pod goes
on with its start-up, the garbage collector runs, each event is delivered and each
request taken. Nothing is assumed of the user, of pods being created or deleted.

`Resyncs` turns the informer's periodic resync on. It is needed after a restart:
if all status writes of the first pass change nothing, no event comes back and
only the resync leads to the timer branch.

## 4. Proofs

Every theorem holds for all values of the constants that satisfy the named
assumptions of the module. For `SiddhiOperator` these are `NoneAssumption` (`None`
is no object, source or deployment), `BoundsAssumption` (bounds are natural
numbers), `OperatorAssumption` (flags are Boolean) and `ParseAssumption` (the
parser returns at most `MaxApps` applications). `RaceFree` and `SlowTimers` are
arbitrary except where a theorem names them. TLC checks the inductive
invariants on the runs' instances as well.

| Theorem | Property of a run | Condition |
|---------|-------------------|-----------|
| `SiddhiOperatorProofs!TypeCorrect` | `TypeOK` | |
| `SiddhiOperatorProofs!NoClobberHolds` | `NoClobber` | |
| `OrderProofs!RolloutImplemented` | `ImplementsRollout` | |
| `OrderProofs!VersionsInOrder`, `VersionsNotTakenBack` | `VersionOrder`, `VersionsMonotone` | |
| `ListProofs!MessagingFirst` | `NATSBeforeApps` | |
| `ListProofs!OwnedIsListed` | `NoOrphans` | `RaceFree`, or no deletion of the object |
| `ListProofs!ListIsDeployed` | `ClusterMatchesList` | no restart, no deletion, NATS installed |
| `ArtifactsProofs!ArtifactTypes` | `TypeOK` | |
| `ArtifactsProofs!AlwaysMountable` | `MountsExist` | |
| `ArtifactsProofs!PassConverges` | `Converged` | |
| `ArtifactsProofs!PodsUpToDate` | `PodsRunCurrentApp` | |
| `ArtifactsProofs!IngressStaysWhole` | `IngressKept` | |
| `ArtifactsProofs!PortsReached` | `IngressComplete` | |
| `RoutingProofs!OneManagerReconciles` | `OneManager` | |
| `RoutingProofs!ListenersNamed` | `TypeOK` | |
| `FunctionsProofs!ReorderingInvariant` | `ReorderingIsNoUpdate` | |
| `FunctionsProofs!BlindSpotsInvariant` | `OnlyThreeBlindSpots` | |
| `FunctionsProofs!TerminateInvariant`, `ReadyInvariant` | `TerminateMeansAllUp`, `ReadyMeansStatefulUp` | |
| `FunctionsProofs!PortsInvariant` | `PortsExposed` | |
| `FunctionsProofs!NamesInvariant` | `NamesDistinct` | |

### The control loop

* `TypeCorrect`: `Spec => [](TypeOK /\ WorkerInv)`. `TypeOK` alone is not
  inductive: an assignment to a field of the worker's copy keeps the type only if
  the copy exists. `WorkerInv` adds that the worker holds an object and a list at
  the steps that use them, that loop indices start at one, and that the last
  pending predicate call, unless it is a deletion, has a cached object. This is
  also the absence of nil dereferences in `Reconcile` and the predicates.
* `NoClobberHolds`: `Spec => []FreshCopy /\ NoClobber`. The inductive invariant
  adds `PipelineInv`: the last state on its way to the cache, or else the cached
  object, is the server's object up to what the predicates assign. Hence a copy
  taken when nothing is under way has the server's uid and spec; a user's write
  makes every copy stale; and only a copy that is not stale can be written.
* `RolloutImplemented`: `Spec => R!Spec`. `OrderProofs` first sorts the steps into
  a few kinds by what they do to the copies of the object (`ChainStep`: nothing
  moves, the worker reads, the informer delivers, a write enters at the end, a
  restart empties the middle) and to the deployments (`Removed`, `Scaled`,
  `Applied`). `GenInv` says that along worker, cache, states under way and server
  the generations ascend, and `DepInv` that no deployment is ahead of any copy. An
  `Applied` step takes its generation from the worker's copy, which is therefore
  one that the user wrote and not older than what any slot runs.
* `VersionsInOrder`, `VersionsNotTakenBack`: `Versions` adds to `VersionOrder` that what `CreateFunc` will
  set to zero is zero already, and that a copy that may still be written is not
  behind the object it replaces. A restart breaks it (`CreateFunc` resets the
  cached versions of an object that has some), which is why both properties say
  "until the operator restarts".
* `MessagingFirst`: `NATSInv` carries the verdict of `CreateMessagingSystem` over
  the steps between it and the deployments.
* `OwnedIsListed`: three invariants. `UidInv`: uids count creations, so no
  incarnation comes back. `DelInv`: a deletion under way is ahead of every current
  copy. `ListBody`: outside `CleanArtifacts` the list covers what the object owns,
  inside it the rest is still ahead of the loop, and afterwards the list stored is
  the worker's. A deployment in `stray` is the exception, in the invariant as in
  the property: the loop went past it and the shorter list was stored. It ends when
  it is deleted or collected, or when a list that names it is stored. Without
  `RaceFree`, a `DeleteFunc` that runs late empties the list
  of the object created after, so with deletions the theorem needs it, as the run
  `cleanup` does.
* `ListIsDeployed`: `MatchBody` says where in a pass the list may be ahead of the
  cluster, and that the loop which closes the gap runs whenever the list has
  changed. A deletion or a restart empties the list while deployments stay, and
  `CreateMessagingSystem`, which comes after the list is stored, fails where NATS
  is not installed. The theorem excludes these cases; those of them that the run
  `cleanup` reaches are model-checked. The exclusion is needed: with a user's
  ConfigMap and without `RaceFree`, TLC finds a pass after a restart that starts
  before `CreateFunc` has reset the versions, and one that a `DeleteFunc` overtakes
  before it parses. Both store a new list and, with `CurrentVersion` equal to
  `PreviousVersion`, deploy nothing.

### Artifacts

`SpecsAssumption`, `DefaultsAssumption`, `IngressAssumption` and `NoneAssumption`
give specs, settings, the Ingress found at the start and `None` their types.
Nothing is assumed about the rules of others. `LiteralsAssumption` says that two
string literals are strings, which the provers do not know.

* `ArtifactTypes`: `TypeOK` includes the bounds of the loops. `VersionInv` (every
  version is at most the number of updates) and `FormInv` (deployments and pods
  mount only what belongs to their application) make it inductive.
* `AlwaysMountable`: `MountInv` has one conjunct per step: before a deletion the
  deployment that mounts the resource is gone, before the deployment is written
  what it mounts is there. The failures and restarts are arbitrary, and the property
  excepts only a deployment in `stray`: `CleanArtifacts` went past it and removed what
  it mounts. Writing it again takes it out of `stray`, after its claim and config maps.
* `PassConverges`: with no call failed, no deletion skipped and no restart (`Undisturbed`, which
  `Converged` demands). `OrderInv` relates the versions in server, cache and
  pass and gives that a pass which finds a list is `modified`, so that
  `CleanArtifacts` runs; `ExtentInv` says which positions are empty during and
  after it; `LoopInv` what the loop of `CreateArtifacts` has already written.
* `PodsUpToDate`: in addition `CodeInv`: until the worker comes to an application,
  its deployment and pods have a lower version than the pass, so the new template
  differs from the old one and the pods are replaced. `overtaken` is excluded by
  the property: then a version is used twice, and the claim is false.
* `IngressStaysWhole`: `PathsAdded` is what the fold of `AddPath` returns for lists of
  any length: the old list is a prefix, every new path is in it, and it has no
  repetition if the old one had none. `RulesMerged` lifts this to `MergeRules`, rule
  by rule; `TypeOK` carries that an application lists a port once, for the rule that
  is appended where there was none. No assumption on failures or restarts.
* `PortsReached`: with `PassInv` from `PassConverges`, `ReachInv` says that the loop
  has added the paths of the applications before `idx`, and that a pass has the
  ingress setting of the operator's ConfigMap while nobody edits it. A path stays
  because of `RulesGrow`, the lemma behind `IngressStaysWhole`.

### Routing, availability, comparison

* `OneManagerReconciles`: every step of `Routing` is a step of `Leader`, for which
  `LockInv` is inductive: a pod past `Become` owns the lock; there is one lock, and
  it is collected only from a pod that is gone (`PodsAssumption`: `NoPod` is no
  pod). `OneManagerHolds` is the same for `Leader` alone.
* `ListenersNamed`: `MemoryInv` adds that a process has named the ConfigMap of its
  spec and of its cached, possibly outdated, copy (`NamesAssumption`: `None` and
  `""` are no names).
* `AvailabilityProofs!TerminateSound` and `ReadySound`: outside a surge, equal
  sums mean that each deployment is complete. The sums are cardinalities of sets
  of (position, replica) pairs; one set includes the other and they are equally
  large, so they are equal. `TerminateInvariant` and `ReadyInvariant` apply them to
  the states of `MCFunctions`.
* `FunctionsProofs!ReorderingAccepted`: lists in which every element occurs equally
  often have a one-to-one matching of positions (put together from one per
  element), hence the same length, and every loop of `Equals` succeeds.
  `ChangesRecognised`: a list without repetitions that is contained in one of the
  same length fills it; environments with the same entries in which no name has two
  values make the same map (`SameEntriesSameMap`, by the last position of each entry),
  however often entries are repeated. Both are about specs over any set of values;
  `ReorderingInvariant` and `BlindSpotsInvariant` add that the specs of
  `MCFunctions` are such specs.

### Loops and numerals

What a loop computes for every input is shown by induction over its turns.
`FoldTheorems` has no operator as a parameter: `LeastNumber` takes a set of numbers
(from the well-foundedness of `<`), and `Induction` says that a set which contains 0
and is closed under successor below `n` contains `0 .. n`. A fold of the community
modules is `CHOOSE f : f = ...`, so a proof about it needs a solution to exist:
`FoldExists` builds one over the subsets of `1 .. n`. What remains is the sequence of
partial results (`ContainerPortsSteps`, `AddPathSteps`) and an invariant of one turn.

* `PortsListed`: after `k` turns the list holds the ports of the exposed sources among
  the first `k`, each at the rank of its source (`AfterTurns`); ranks are
  cardinalities, which one turn raises by one or leaves alone.
* `AnswerParsed`: the loop over the apps ends at the first app without a name
  (`NamedPrefix`); `PortsInvariant` adds that every answer that `MCFunctions` builds is
  of this shape.
* `NamesUnique`: `Itoa` is a recursive function on an unbounded domain; `ItoaUpTo`
  gives a solution of its equation up to any number and `ItoaUnique` shows that
  solutions agree, so the equation holds. Numerals of different numbers differ and do
  not begin with 0. A number below `Base` has one digit; `Base` itself is `10`, and
  what follows the 1 in any other name with that beginning is a version, whose numeral
  does not begin with 0 unless it is 0 alone. `BoundsAssumption`: `Base > 1`.

### Only model-checked

* All liveness properties: fairness and `ENABLED` are beyond the prover.
* `NoOrphans` and `ClusterMatchesList` outside the conditions in the table.

Every invariant and action property of a passing run is stated by a theorem.

## 5. Not modelled

* The processes' interaction through one worker: a long pass of one delays the
  others, nothing more. The Ingress has rules of others, but one process writes.
* Text: the parser's HTTP exchange with the messaging configuration of the request, the regular expressions of `getAppName`,
  container arguments, mount paths, labels, probes.
* Eviction of the leader's pod (its object and so the lock stay) and deletion by
  force (the container may still run): neither is handled by the code.
* The window between the `Get` of a ConfigMap and the registration of its listener.
* The Go data race on the maps: a concurrent map write ends the process, which
  is the action `Crash`. `GetDeploymentCount` is not called.
* Generated code, NATS API types, tests: nothing that behaves.

## 6. Plan

1. *Done*: `SiddhiOperator` with its runs, `Availability`, `SpecEquality`, type
   correctness and `NoClobber`.
2. *Done*: `Artifacts`, `ParserOutput`, `Leader`, `Routing`, the abstract
   specification `Rollout` and its implementation by `SiddhiOperator`, `OneManager`.
3. *Done*: proofs of `ImplementsRollout`, `VersionOrder`, `VersionsMonotone`,
   `NoOrphans`, `ClusterMatchesList`, `NATSBeforeApps`; of the invariants of
   `Artifacts`, `Routing` and of the comparison of specs.
4. *Done*: proofs of what the loops compute: `PortsExposed`, `NamesDistinct`,
   `IngressKept`, `IngressComplete`.
5. `ClusterMatchesList` with deletions of the object, under `RaceFree`: it needs that a
   full pass has a new version or none at all, which is false without `RaceFree`; what `Resolve` promises about requests, as an action property of
   `Routing`.
