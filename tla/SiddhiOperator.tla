-------------------------- MODULE SiddhiOperator --------------------------
(***************************************************************************)
(* The control loop of the Siddhi operator for one SiddhiProcess: the API  *)
(* server's copy of the object, the informer that lags behind it, the      *)
(* watch predicates that mutate the cached object, the work queue and the  *)
(* single worker that runs Reconcile.                                      *)
(*                                                                         *)
(* One step of the worker is one call that another party can observe or    *)
(* interfere with: a status PUT, a deployment write, a parser call.  What  *)
(* the worker read earlier (the copy sp, the application list apps) stays  *)
(* in its local variables and may be stale when it is used.                *)
(***************************************************************************)
EXTENDS Integers, Sequences, FiniteSets, Availability

CONSTANTS
    None,             \* "nil" or "not found"
    Specs,            \* the values of SiddhiProcess.Spec
    SpecEquals(_, _), \* SiddhiProcessSpec.Equals(old, new)
    Parse(_),         \* the parser's answer: the applications of a source
    UsesConfigMap(_), \* spec.Apps names the user's ConfigMap
    NeedsNATS(_),     \* messaging type defined and its config empty
    MaxApps,          \* longest application list the parser returns
    MaxUpdates,       \* spec updates by the user
    MaxDeletes,       \* deletions of the object; it may be created again
    MaxConfigMaps,    \* contents the user gives to the ConfigMap
    MaxVersion,       \* bound on Status.CurrentVersion for UpgradeVersion
    MaxLag,           \* undelivered watch events, pending predicate calls
    MaxCrashes,       \* operator restarts
    MaxAPIFaults,     \* API calls of the operator that fail
    MaxParserFaults,  \* parser calls that fail
    MaxAvailChanges,  \* changes of available replicas
    Surge,            \* available replicas beyond the wanted ones
    InitialNATS,      \* what the cluster offers: "absent", "operator"
    Resyncs,          \* whether the informer's periodic resync happens
    RaceFree,         \* predicates run before a worker reads the object
    SlowTimers        \* delayed requests fire only once events have arrived

Requests == {"sp", "cm"}  \* named after the SiddhiProcess / the ConfigMap
Statuses == {"", "Pending", "Not Ready", "Ready", "Error"}
EventTypes == {"", "Update", "Timer"}
Operations == {"created", "updated", "none"}
Steps == {"idle", "timer", "verdict", "state", "upgrade", "apps", "parse",
          "parsing", "clean", "messaging", "partial", "deploy", "sync",
          "readydeps", "check", "fail", "failRetry", "deployError",
          "checkError"}
Calls == {"add", "reset", "mod", "mark", "same", "del"}

\* What an application list is parsed from: a spec, and the content of the
\* ConfigMap it names (0 when it names none).
Source == [spec : Specs, cm : 0 .. MaxConfigMaps]

\* gen numbers the specs the user writes, across incarnations.
Object == [uid : Nat, gen : Nat, spec : Specs, status : Statuses,
           ready : {<<>>} \cup (Nat \X Nat), cur : Nat, prev : Nat,
           ev : EventTypes, partial : Source \cup {None}]

Deployment == [uid : Nat, src : Source \cup {None}, spec : Specs,
               gen : Nat, ver : Nat, replicas : Nat, avail : Nat]

ASSUME NoneAssumption ==
    None \notin Object /\ None \notin Source /\ None \notin Deployment

ASSUME BoundsAssumption ==
    /\ {MaxApps, MaxUpdates, MaxDeletes, MaxConfigMaps, MaxVersion,
        MaxCrashes, MaxAPIFaults, MaxParserFaults, MaxAvailChanges,
        Surge} \subseteq Nat
    /\ MaxLag \in Nat \ {0}

ASSUME OperatorAssumption ==
    /\ InitialNATS \subseteq {"absent", "operator"}
    /\ {Resyncs, RaceFree, SlowTimers} \subseteq BOOLEAN
    /\ \A s \in Specs : UsesConfigMap(s) \in BOOLEAN /\ NeedsNATS(s) \in BOOLEAN

\* The parser answers with at most MaxApps applications.
ASSUME ParseAssumption ==
    \A src \in Source : /\ Parse(src) \in Seq(Application)
                        /\ Len(Parse(src)) <= MaxApps

VARIABLES
    api,         \* the object in the API server, or None
    watch,       \* states of the object still to reach the informer's cache
    cache,       \* the object in the informer's cache
    notif,       \* predicate calls still to run, one per delivered state
    queue,       \* requests waiting for the worker
    delayed,     \* requests waiting for RequeueAfter or a rate limit
    pc, req,     \* step of the worker and the request it works on
    sp,          \* its copy of the object
    fresh,       \* whether that copy has the server's resourceVersion
    apps,        \* source of the application list it works with
    op,          \* eventType of CreateArtifacts
    idx, oldLen, \* loop counter; length of the old application list
    verdict,     \* outcome of CheckAvailableDeployments
    SPContainer, \* source of the list in SPContainer[name], or None
    CMContainer, \* listener of the ConfigMap: "absent", "same", "changed"
    LoggedMessagingAvailability,
    dep,         \* deployments: 0 is the parser's, i the i-th application's
    depEvent,    \* an event of an owned resource is on its way
    stray,       \* deployments whose deletion was skipped (history only)
    cm, cmEvent, \* content of the user's ConfigMap; its event on its way
    nats,        \* "absent", "operator" installed, "cluster" created
    count        \* what the environment has spent of its bounds

serverVars == <<api, watch>>
informerVars == <<cache, notif>>
queueVars == <<queue, delayed>>
localVars == <<apps, op, idx, oldLen, verdict>>
workerVars == <<pc, req, sp, fresh, localVars>>
memoryVars == <<SPContainer, CMContainer, LoggedMessagingAvailability>>
artifactVars == <<dep, depEvent, stray, nats>>
clusterVars == <<artifactVars, cm, cmEvent>>
vars == <<serverVars, informerVars, queueVars, workerVars, memoryVars,
          clusterVars, count>>

Counters == {"creates", "updates", "deletes", "crashes", "api", "parser",
             "avail"}

ServerTypes ==
    /\ api \in Object \cup {None}
    /\ watch \in Seq(Object \cup {None})

InformerTypes ==
    /\ cache \in Object \cup {None}
    /\ notif \in Seq(Calls)

QueueTypes ==
    /\ queue \in SUBSET Requests
    /\ delayed \in SUBSET Requests

WorkerTypes ==
    /\ pc \in Steps
    /\ req \in Requests
    /\ sp \in Object \cup {None}
    /\ fresh \in BOOLEAN

LocalTypes ==
    /\ apps \in Source \cup {None}
    /\ op \in Operations
    /\ idx \in Nat
    /\ oldLen \in 0 .. MaxApps
    /\ verdict \in Verdicts

MemoryTypes ==
    /\ SPContainer \in Source \cup {None}
    /\ CMContainer \in {"absent", "same", "changed"}
    /\ LoggedMessagingAvailability \in BOOLEAN

ArtifactTypes ==
    /\ dep \in [0 .. MaxApps -> Deployment \cup {None}]
    /\ depEvent \in BOOLEAN
    /\ stray \subseteq 0 .. MaxApps
    /\ nats \in {"absent", "operator", "cluster"}

ConfigMapTypes ==
    /\ cm \in 0 .. MaxConfigMaps
    /\ cmEvent \in BOOLEAN

TypeOK ==
    /\ ServerTypes /\ InformerTypes /\ QueueTypes
    /\ WorkerTypes /\ LocalTypes /\ MemoryTypes
    /\ ArtifactTypes /\ ConfigMapTypes
    /\ count \in [Counters -> Nat]

Init ==
    /\ api = None /\ watch = <<>> /\ cache = None /\ notif = <<>>
    /\ queue = {} /\ delayed = {}
    /\ pc = "idle" /\ req = "sp" /\ sp = None /\ fresh = FALSE
    /\ apps = None /\ op = "none" /\ idx = 0 /\ oldLen = 0
    /\ verdict = "notReady"
    /\ SPContainer = None /\ CMContainer = "absent"
    /\ LoggedMessagingAvailability = FALSE
    /\ dep = [i \in 0 .. MaxApps |-> None] /\ depEvent = FALSE
    /\ stray = {}
    /\ cm = 0 /\ cmEvent = FALSE
    /\ nats \in InitialNATS
    /\ count = [c \in Counters |-> 0]

Spend(c, max) ==
    /\ count[c] < max
    /\ count' = [count EXCEPT ![c] = @ + 1]

---------------------------------------------------------------------------
(* The user and the cluster.                                               *)

Written == count["creates"] + count["updates"]

UserCreate(s) ==
    /\ api = None /\ Len(watch) < MaxLag
    /\ Spend("creates", MaxDeletes + 1)
    /\ api' = [uid |-> count["creates"] + 1, gen |-> Written + 1, spec |-> s,
               status |-> "", ready |-> <<>>, cur |-> 0, prev |-> 0,
               ev |-> "", partial |-> None]
    /\ watch' = Append(watch, api')
    /\ UNCHANGED <<informerVars, queueVars, workerVars, memoryVars,
                   clusterVars>>

\* A spec update moves the resourceVersion: the worker's copy is stale.
UserUpdate(s) ==
    /\ api # None /\ Len(watch) < MaxLag
    /\ s # api.spec
    /\ Spend("updates", MaxUpdates)
    /\ api' = [api EXCEPT !.spec = s, !.gen = Written + 1]
    /\ watch' = Append(watch, api')
    /\ fresh' = FALSE
    /\ UNCHANGED <<informerVars, queueVars, pc, req, sp, localVars, memoryVars,
                   clusterVars>>

UserDelete ==
    /\ api # None /\ Len(watch) < MaxLag
    /\ Spend("deletes", MaxDeletes)
    /\ api' = None
    /\ watch' = Append(watch, None)
    /\ fresh' = FALSE
    /\ UNCHANGED <<informerVars, queueVars, pc, req, sp, localVars, memoryVars,
                   clusterVars>>

\* The user creates the ConfigMap (content 1) or changes it.  Only a change
\* reaches cmPredicate.UpdateFunc; CreateFunc returns false.
UserWriteConfigMap ==
    /\ cm < MaxConfigMaps
    /\ cm' = cm + 1
    /\ cmEvent' = (cmEvent \/ cm > 0)
    /\ UNCHANGED <<serverVars, informerVars, queueVars, workerVars, memoryVars,
                   artifactVars, count>>

InstallNATS ==
    /\ nats = "absent"
    /\ nats' = "operator"
    /\ UNCHANGED <<serverVars, informerVars, queueVars, workerVars, memoryVars,
                   dep, depEvent, stray, cm, cmEvent, count>>

\* The deployment controller starts and stops pods.
AvailabilityChanges(i) ==
    /\ dep[i] # None /\ i > 0
    /\ Spend("avail", MaxAvailChanges)
    /\ \E n \in (0 .. dep[i].replicas + Surge) \ {dep[i].avail} :
            dep' = [dep EXCEPT ![i].avail = n]
    /\ depEvent' = TRUE
    /\ UNCHANGED <<serverVars, informerVars, queueVars, workerVars, memoryVars,
                   stray, cm, cmEvent, nats>>

\* The garbage collector removes a deployment whose owner is gone.
CollectGarbage(i) ==
    /\ dep[i] # None
    /\ api # None => api.uid # dep[i].uid
    /\ dep' = [dep EXCEPT ![i] = None]
    /\ depEvent' = TRUE
    /\ stray' = stray \ {i}
    /\ UNCHANGED <<serverVars, informerVars, queueVars, workerVars, memoryVars,
                   cm, cmEvent, nats, count>>

---------------------------------------------------------------------------
(* The informer, the watch predicates and the work queue.                  *)

\* The informer stores the next state of the object and hands the event to
\* the controller's listener, which runs the predicate later.
Deliver ==
    /\ watch # <<>> /\ Len(notif) < MaxLag
    /\ cache' = Head(watch)
    /\ watch' = Tail(watch)
    /\ notif' = Append(notif,
           IF Head(watch) = None THEN "del"
           ELSE IF cache = None THEN "add"
           ELSE IF SpecEquals(cache.spec, Head(watch).spec) THEN "same"
           ELSE "mod")
    /\ UNCHANGED <<api, queueVars, workerVars, memoryVars, clusterVars, count>>

\* The informer's periodic resync reports an update from the cached object
\* to itself.
Resync ==
    /\ Resyncs
    /\ cache # None /\ watch = <<>> /\ notif = <<>>
    /\ cache.ev # "Timer"
    /\ notif' = <<"same">>
    /\ UNCHANGED <<serverVars, cache, queueVars, workerVars, memoryVars,
                   clusterVars, count>>

\* The predicate mutates the object its event carries.  That object is still
\* the cached one only if no later event has replaced it.
MutateCached(obj) == cache' = IF Len(notif) = 1 THEN obj ELSE cache

\* spPredicate.UpdateFunc on a changed spec, first assignment.
UpdateFuncBump ==
    /\ notif # <<>> /\ Head(notif) = "mod"
    /\ MutateCached([cache EXCEPT !.cur = @ + 1])
    /\ notif' = <<"mark">> \o Tail(notif)
    /\ UNCHANGED <<serverVars, queueVars, workerVars, memoryVars, clusterVars,
                   count>>

\* Mutant of Marked: the event type is not recorded.
Unmarked(obj) == obj

Marked(obj) == [obj EXCEPT !.ev = "Update"]

\* Its second assignment, and the request it lets through.
UpdateFuncMark ==
    /\ notif # <<>> /\ Head(notif) = "mark"
    /\ MutateCached(Marked(cache))
    /\ notif' = Tail(notif)
    /\ queue' = queue \cup {"sp"}
    /\ UNCHANGED <<serverVars, delayed, workerVars, memoryVars, clusterVars,
                   count>>

\* spPredicate.UpdateFunc on an equal spec: no request.
UpdateFuncTimer ==
    /\ notif # <<>> /\ Head(notif) = "same"
    /\ MutateCached([cache EXCEPT !.ev = "Timer"])
    /\ notif' = Tail(notif)
    /\ UNCHANGED <<serverVars, queueVars, workerVars, memoryVars, clusterVars,
                   count>>

\* spPredicate.CreateFunc, first assignment.
CreateFuncCurrent ==
    /\ notif # <<>> /\ Head(notif) = "add"
    /\ MutateCached([cache EXCEPT !.cur = 0])
    /\ notif' = <<"reset">> \o Tail(notif)
    /\ UNCHANGED <<serverVars, queueVars, workerVars, memoryVars, clusterVars,
                   count>>

\* Its second assignment, and the request it lets through.
CreateFuncPrevious ==
    /\ notif # <<>> /\ Head(notif) = "reset"
    /\ MutateCached([cache EXCEPT !.prev = 0])
    /\ notif' = Tail(notif)
    /\ queue' = queue \cup {"sp"}
    /\ UNCHANGED <<serverVars, delayed, workerVars, memoryVars, clusterVars,
                   count>>

\* spPredicate.DeleteFunc.
DeleteFunc ==
    /\ notif # <<>> /\ Head(notif) = "del"
    /\ notif' = Tail(notif)
    /\ SPContainer' = None
    /\ queue' = queue \cup {"sp"}
    /\ UNCHANGED <<serverVars, cache, delayed, workerVars, CMContainer,
                   LoggedMessagingAvailability, clusterVars, count>>

\* cmPredicate.UpdateFunc: only a registered ConfigMap makes a request.
CMUpdateFunc ==
    /\ cmEvent
    /\ cmEvent' = FALSE
    /\ \/ /\ CMContainer # "absent"
          /\ CMContainer' = "changed"
          /\ queue' = queue \cup {"cm"}
       \/ /\ CMContainer = "absent"
          /\ UNCHANGED <<CMContainer, queue>>
    /\ UNCHANGED <<serverVars, informerVars, delayed, workerVars, SPContainer,
                   LoggedMessagingAvailability, artifactVars, cm,
                   count>>

\* EnqueueRequestForOwner: an event of a deployment, service or pod.
OwnedEvent ==
    /\ depEvent
    /\ depEvent' = FALSE
    /\ queue' = queue \cup {"sp"}
    /\ UNCHANGED <<serverVars, informerVars, delayed, workerVars, memoryVars,
                   dep, stray, cm, cmEvent, nats, count>>

\* A RequeueAfter or a rate limit runs out.
TimerFires(r) ==
    /\ r \in delayed
    /\ SlowTimers => watch = <<>> /\ notif = <<>>
    /\ delayed' = delayed \ {r}
    /\ queue' = queue \cup {r}
    /\ UNCHANGED <<serverVars, informerVars, workerVars, memoryVars,
                   clusterVars, count>>

---------------------------------------------------------------------------
(* Building blocks of Reconcile.                                           *)

\* Mutant of Put: the write ignores the resourceVersion.
PutUnchecked(obj) ==
    /\ Len(watch) < MaxLag
    /\ api' = obj
    /\ watch' = IF obj = api THEN watch ELSE Append(watch, obj)
    /\ UNCHANGED count

\* Client.Status().Update(obj).  The write is accepted when the copy carries
\* the server's resourceVersion; writing what is already stored changes
\* nothing; otherwise, and on a failed call, the error is dropped.
Put(obj) ==
    \/ /\ fresh /\ obj # api
       /\ Len(watch) < MaxLag
       /\ api' = obj
       /\ watch' = Append(watch, obj)
       /\ UNCHANGED count
    \/ /\ ~fresh \/ obj = api
       /\ UNCHANGED <<api, watch, count>>
    \/ /\ fresh /\ obj # api
       /\ Spend("api", MaxAPIFaults)
       /\ UNCHANGED <<api, watch>>

\* The Update...Status functions: the worker's copy keeps the change whether
\* or not the write succeeded ("sc.SiddhiProcess = s" restores a pointer to
\* the object that was just modified).
StatusUpdate(obj) == sp' = obj /\ Put(obj)

NoStatusUpdate == UNCHANGED <<sp, api, watch, count>>

WithStatus(st) == [sp EXCEPT !.status = st]

\* Mutant of EventType: the first update after a synchronised version is
\* not recognised.
EventTypeLate(obj) ==
    IF obj.cur = 0 THEN "created"
    ELSE IF obj.cur > obj.prev + 1 THEN "updated" ELSE "none"

\* Mutant of EventType: version 0 is not taken for a creation.
EventTypeNoCreate(obj) == IF obj.cur > obj.prev THEN "updated" ELSE "none"

\* getEventType of siddhicontroller.go.
EventType(obj) ==
    IF obj.cur = 0 THEN "created"
    ELSE IF obj.cur > obj.prev THEN "updated" ELSE "none"

\* The worker's local variables outside Reconcile.
Forget ==
    /\ pc' = "idle" /\ req' = "sp" /\ sp' = None /\ fresh' = FALSE
    /\ apps' = None /\ op' = "none" /\ idx' = 0 /\ oldLen' = 0
    /\ verdict' = "notReady"

\* Reconcile returns; the requests in retry come back after a delay.
Return(retry) ==
    /\ Forget
    /\ delayed' = delayed \cup retry
    /\ UNCHANGED <<queue, informerVars, clusterVars>>

\* A step that moves on within Reconcile.
Goto(step) ==
    /\ pc' = step
    /\ UNCHANGED <<req, fresh, queueVars, informerVars, cm, cmEvent>>

---------------------------------------------------------------------------
(* Reconcile: reading the object, and the branch of a timer event.         *)

\* The two Gets that open Reconcile, both from the cache, and the choice of
\* the branch.  A request named after the ConfigMap resolves to the same
\* object through CMContainer.
Start(r) ==
    /\ pc = "idle" /\ r \in queue
    /\ RaceFree => notif = <<>>
    /\ queue' = queue \ {r}
    /\ \/ /\ cache = None
          /\ UNCHANGED workerVars
       \/ /\ cache # None
          /\ req' = r
          /\ sp' = cache
          /\ fresh' = (watch = <<>>)
          /\ \/ /\ cache.ev = "Timer" /\ SPContainer # None
                /\ pc' = "timer"
                /\ apps' = SPContainer
             \/ /\ cache.ev # "Timer" \/ SPContainer = None
                /\ pc' = "state"
                /\ UNCHANGED apps
          /\ UNCHANGED <<op, idx, oldLen, verdict>>
    /\ UNCHANGED <<serverVars, informerVars, delayed, memoryVars, clusterVars,
                   count>>

\* CheckAvailableDeployments up to UpdateReadyDeployments.
CountAvailable ==
    LET as == Parse(apps)
        found == {i \in DOMAIN as : dep[i] # None}
        avail == [i \in DOMAIN as |-> IF i \in found THEN dep[i].avail ELSE 0]
    IN  /\ pc = "timer"
        /\ StatusUpdate([sp EXCEPT !.ready = ReadyPair(as, found, avail)])
        /\ verdict' = Verdict(as, found, avail)
        /\ Goto("verdict")
        /\ UNCHANGED <<apps, op, idx, oldLen, memoryVars, artifactVars>>

\* Mutant of StatusOf: the complete case is forgotten.
StatusOfIncomplete(v) == IF v = "ready" THEN "Ready" ELSE "Not Ready"

StatusOf(v) == IF v = "notReady" THEN "Not Ready" ELSE "Ready"

\* Its second half: the status, which an Error survives until the process is
\* ready, and whether Reconcile polls again.
SetAvailabilityStatus ==
    /\ pc = "verdict"
    /\ IF verdict = "notReady" /\ sp.status = "Error"
       THEN UNCHANGED <<serverVars, count>>
       ELSE Put(WithStatus(StatusOf(verdict)))
    /\ Return(IF verdict = "all" THEN {} ELSE {req})
    /\ UNCHANGED memoryVars

---------------------------------------------------------------------------
(* Reconcile: a created or updated object, up to the application list.     *)

\* SetDefaultPendingState and SetNotReadyState; at most one of them writes.
SetInitialState ==
    /\ pc = "state"
    /\ \/ /\ EventType(sp) = "created" /\ sp.status = ""
          /\ StatusUpdate(WithStatus("Pending"))
       \/ /\ EventType(sp) = "updated"
          /\ StatusUpdate(WithStatus("Not Ready"))
       \/ /\ EventType(sp) # "updated"
          /\ EventType(sp) = "created" => sp.status # ""
          /\ NoStatusUpdate
    /\ Goto(IF req = "cm" THEN "upgrade" ELSE "apps")
    /\ UNCHANGED <<localVars, memoryVars, artifactVars>>

UpgradeVersion ==
    /\ pc = "upgrade"
    /\ sp.cur < MaxVersion
    /\ StatusUpdate([sp EXCEPT !.cur = @ + 1])
    /\ Goto("apps")
    /\ UNCHANGED <<localVars, memoryVars, artifactVars>>

\* What the application list will be parsed from.
getSiddhiApps ==
    [spec |-> sp.spec, cm |-> IF UsesConfigMap(sp.spec) THEN cm ELSE 0]

\* getSiddhiApps fails on a missing ConfigMap, otherwise registers the
\* ConfigMap's listener; then the warning about a missing messaging system.
ReadApps ==
    /\ pc = "apps"
    /\ UNCHANGED <<op, idx, oldLen, verdict, SPContainer, artifactVars>>
    /\ \/ /\ UsesConfigMap(sp.spec) /\ cm = 0
          /\ Goto("fail")
          /\ NoStatusUpdate
          /\ UNCHANGED <<apps, CMContainer, LoggedMessagingAvailability>>
       \/ /\ UsesConfigMap(sp.spec) => cm > 0
          /\ apps' = getSiddhiApps
          /\ CMContainer' = IF UsesConfigMap(sp.spec) THEN "same"
                            ELSE CMContainer
          /\ \/ /\ ~LoggedMessagingAvailability /\ nats = "absent"
                /\ StatusUpdate(sp)
                /\ LoggedMessagingAvailability' = TRUE
             \/ /\ LoggedMessagingAvailability \/ nats # "absent"
                /\ NoStatusUpdate
                /\ UNCHANGED LoggedMessagingAvailability
          /\ Goto("parse")

\* populateSiddhiApps: parse when the version moved or nothing is cached,
\* otherwise use the list in SPContainer.  Parsing starts by deploying the
\* parser; a failure to deploy it shows up in the call that follows.
modified == sp.cur > sp.prev

PopulateApps ==
    /\ pc = "parse"
    /\ \/ /\ modified \/ SPContainer = None
          /\ dep' = [dep EXCEPT ![0] =
                          IF @ = None
                          THEN [uid |-> sp.uid, src |-> None, spec |-> sp.spec,
                                gen |-> sp.gen, ver |-> sp.cur, replicas |-> 1,
                                avail |-> 0]
                          ELSE [@ EXCEPT !.spec = sp.spec, !.gen = sp.gen,
                                         !.ver = sp.cur]]
          /\ depEvent' = TRUE
          /\ UNCHANGED apps
          /\ Goto("parsing")
       \/ /\ ~modified /\ SPContainer # None
          /\ apps' = SPContainer
          /\ UNCHANGED <<dep, depEvent>>
          /\ Goto("messaging")
    /\ NoStatusUpdate
    /\ UNCHANGED <<op, idx, oldLen, verdict, memoryVars, stray, nats>>

\* Mutant of FirstToClean: off by one.
FirstToCleanSkips == Len(Parse(apps)) + 2

\* First position of the old list that the new list does not have.
FirstToClean == Len(Parse(apps)) + 1

\* DeleteDeployment without an error: either it deletes, or its Get fails
\* or does not find the deployment in the cache and it deletes nothing, at
\* most as often as MaxAPIFaults leaves room for.
DeleteDeployment(i) ==
    \/ /\ dep' = [dep EXCEPT ![i] = None]
       /\ depEvent' = (depEvent \/ dep[i] # None)
       /\ stray' = stray \ {i}
    \/ /\ dep[i] # None
       /\ count["api"] + Cardinality(stray) < MaxAPIFaults
       /\ stray' = stray \cup {i}
       /\ UNCHANGED <<dep, depEvent>>

\* The parser answers and cleanParser removes its deployment.  The old list
\* is read from SPContainer only now.
ParseSucceeds ==
    /\ pc = "parsing"
    /\ DeleteDeployment(0)
    /\ \/ /\ modified
          /\ idx' = FirstToClean
          /\ oldLen' = IF SPContainer = None THEN 0 ELSE Len(Parse(SPContainer))
          /\ Goto("clean")
          /\ UNCHANGED SPContainer
       \/ /\ ~modified
          /\ SPContainer' = apps
          /\ Goto("messaging")
          /\ UNCHANGED <<idx, oldLen>>
    /\ NoStatusUpdate
    /\ UNCHANGED <<apps, op, verdict, CMContainer, LoggedMessagingAvailability,
                   nats>>

\* The parser cannot be reached or rejects the apps and its deployment stays,
\* or it is removed and the removal of its service fails.
ParseFails ==
    /\ pc = "parsing"
    /\ Spend("parser", MaxParserFaults)
    /\ \/ UNCHANGED <<dep, depEvent, stray>>
       \/ /\ dep' = [dep EXCEPT ![0] = None]
          /\ depEvent' = TRUE
          /\ stray' = stray \ {0}
    /\ Goto("failRetry")
    /\ UNCHANGED <<sp, serverVars, localVars, memoryVars, nats>>

\* CleanArtifacts: one deployment the new list does not have, with its
\* service, claim and config map.  A skipped deletion looks like any other.
CleanArtifact ==
    /\ pc = "clean" /\ idx <= oldLen
    /\ DeleteDeployment(idx)
    /\ StatusUpdate(sp)
    /\ idx' = idx + 1
    /\ Goto("clean")
    /\ UNCHANGED <<apps, op, oldLen, verdict, memoryVars, nats>>

\* One of the four Deletes fails, the deployment's own or a later one.
CleanFails ==
    /\ pc = "clean" /\ idx <= oldLen
    /\ Spend("api", MaxAPIFaults)
    /\ \/ UNCHANGED <<dep, depEvent, stray>>
       \/ /\ dep' = [dep EXCEPT ![idx] = None]
          /\ depEvent' = TRUE
          /\ stray' = stray \ {idx}
    /\ Goto("failRetry")
    /\ UNCHANGED <<sp, serverVars, localVars, memoryVars, nats>>

\* populateSiddhiApps stores the new list once the old one is cleaned up.
\* A deployment that this list names is no longer stray.
StoreApps ==
    /\ pc = "clean" /\ idx > oldLen
    /\ SPContainer' = apps
    /\ stray' = stray \ DOMAIN Parse(apps)
    /\ Goto("messaging")
    /\ NoStatusUpdate
    /\ UNCHANGED <<localVars, CMContainer, LoggedMessagingAvailability,
                   dep, depEvent, nats>>

---------------------------------------------------------------------------
(* Reconcile: the messaging system and the artifacts.                      *)

persistenceEnabled == \E i \in DOMAIN Parse(apps) : Parse(apps)[i].persistent

\* Mutant of NATSRequired: only a process without stateless applications.
NATSRequiredByAll ==
    /\ NeedsNATS(sp.spec)
    /\ \A i \in DOMAIN Parse(apps) : Parse(apps)[i].persistent

NATSRequired == NeedsNATS(sp.spec) /\ persistenceEnabled

\* An error of CreateMessagingSystem when the NATS operators are missing.
CreateMessagingSystem ==
    /\ pc = "messaging"
    /\ IF NATSRequired
       THEN IF nats = "absent"
            THEN Goto("failRetry") /\ UNCHANGED nats
            ELSE Goto("partial") /\ nats' = "cluster"
       ELSE Goto("partial") /\ UNCHANGED nats
    /\ NoStatusUpdate
    /\ UNCHANGED <<localVars, memoryVars, dep, depEvent, stray>>

\* CreateNATS fails at the API server.
MessagingFails ==
    /\ pc = "messaging" /\ nats # "absent"
    /\ NATSRequired
    /\ Spend("api", MaxAPIFaults)
    /\ Goto("failRetry")
    /\ UNCHANGED <<sp, serverVars, localVars, memoryVars, artifactVars>>

\* CreateArtifacts up to its loop: the event type and the partial apps.
UpdatePartialAppStatus ==
    /\ pc = "partial"
    /\ op' = EventType(sp)
    /\ StatusUpdate([sp EXCEPT !.partial = apps])
    /\ idx' = 1
    /\ Goto(IF op' = "none" THEN "sync" ELSE "deploy")
    /\ UNCHANGED <<apps, oldLen, verdict, memoryVars, artifactVars>>

\* Mutant of DeploymentFor: a new deployment is made from the object as the
\* API server holds it now, an existing one from the worker's copy.
DeploymentForLive(i) ==
    LET obj == IF api = None THEN sp ELSE api
    IN  IF dep[i] = None
        THEN [uid |-> sp.uid, src |-> apps, spec |-> obj.spec, gen |-> obj.gen,
              ver |-> sp.cur, replicas |-> Parse(apps)[i].replicas, avail |-> 0]
        ELSE [dep[i] EXCEPT !.src = apps, !.spec = sp.spec, !.gen = sp.gen,
                            !.ver = sp.cur]

\* CreateOrUpdateDeployment: an existing deployment keeps its owner and its
\* replica count.
DeploymentFor(i) ==
    IF dep[i] = None
    THEN [uid |-> sp.uid, src |-> apps, spec |-> sp.spec, gen |-> sp.gen,
          ver |-> sp.cur, replicas |-> Parse(apps)[i].replicas, avail |-> 0]
    ELSE [dep[i] EXCEPT !.src = apps, !.spec = sp.spec, !.gen = sp.gen,
                        !.ver = sp.cur]

\* One turn of the loop of CreateArtifacts, with everything going well.
DeployApp ==
    /\ pc = "deploy" /\ idx <= Len(Parse(apps))
    /\ dep' = [dep EXCEPT ![idx] = DeploymentFor(idx)]
    /\ depEvent' = (depEvent \/ dep' # dep)
    /\ IF (op = "created") = (dep[idx] = None)
       THEN StatusUpdate(sp) ELSE NoStatusUpdate
    /\ idx' = idx + 1
    /\ Goto("deploy")
    /\ UNCHANGED <<apps, op, oldLen, verdict, memoryVars, stray, nats>>

\* The write of the deployment fails; Deploy drops the error.
DeploySwallowed ==
    /\ pc = "deploy" /\ idx <= Len(Parse(apps))
    /\ Spend("api", MaxAPIFaults)
    /\ idx' = idx + 1
    /\ Goto("deploy")
    /\ UNCHANGED <<sp, serverVars, apps, op, oldLen, verdict, memoryVars,
                   artifactVars>>

\* A claim or config map cannot be written (no deployment is), or the
\* service or ingress cannot (the deployment is): the status becomes Error
\* and the loop goes on.
DeployFails ==
    /\ pc = "deploy" /\ idx <= Len(Parse(apps))
    /\ Spend("api", MaxAPIFaults)
    /\ \/ UNCHANGED <<dep, depEvent>>
       \/ /\ dep' = [dep EXCEPT ![idx] = DeploymentFor(idx)]
          /\ depEvent' = TRUE
    /\ Goto("deployError")
    /\ UNCHANGED <<sp, serverVars, localVars, memoryVars, stray, nats>>

EndDeploy ==
    /\ pc = "deploy" /\ idx > Len(Parse(apps))
    /\ Goto("sync")
    /\ NoStatusUpdate
    /\ UNCHANGED <<localVars, memoryVars, artifactVars>>

\* Mutants of Synced: off by one, either way, and swapped.
SyncedBehind(obj) == [obj EXCEPT !.prev = obj.cur - 1]
SyncedAhead(obj) == [obj EXCEPT !.prev = obj.cur + 1]
SyncedSwapped(obj) == [obj EXCEPT !.cur = obj.prev]

Synced(obj) == [obj EXCEPT !.prev = obj.cur]

SyncVersion ==
    /\ pc = "sync"
    /\ StatusUpdate(Synced(sp))
    /\ idx' = 1
    /\ Goto(IF op = "none" THEN "check" ELSE "readydeps")
    /\ UNCHANGED <<apps, op, oldLen, verdict, memoryVars, artifactVars>>

\* UpdateReadyDeployments(0, needDep); needDep counts the applications.
ResetReady ==
    /\ pc = "readydeps"
    /\ StatusUpdate([sp EXCEPT !.ready = <<0, Len(Parse(apps))>>])
    /\ Goto("check")
    /\ UNCHANGED <<localVars, memoryVars, artifactVars>>

\* CheckDeployments: one deployment, whose replica count is corrected.
WrongReplicas(i) ==
    dep[i] # None /\ dep[i].replicas # Parse(apps)[i].replicas

CheckDeployment ==
    /\ pc = "check" /\ idx <= Len(Parse(apps))
    /\ IF WrongReplicas(idx)
       THEN /\ dep' = [dep EXCEPT ![idx].replicas = Parse(apps)[idx].replicas]
            /\ depEvent' = TRUE
       ELSE UNCHANGED <<dep, depEvent>>
    /\ NoStatusUpdate
    /\ idx' = idx + 1
    /\ Goto("check")
    /\ UNCHANGED <<apps, op, oldLen, verdict, memoryVars, stray, nats>>

CheckFails ==
    /\ pc = "check" /\ idx <= Len(Parse(apps)) /\ WrongReplicas(idx)
    /\ Spend("api", MaxAPIFaults)
    /\ Goto("checkError")
    /\ UNCHANGED <<sp, serverVars, localVars, memoryVars, artifactVars>>

\* The end of a full pass: RequeueAfter two seconds.
EndPass ==
    /\ pc = "check" /\ idx > Len(Parse(apps))
    /\ CMContainer' = IF req = "cm" THEN "same" ELSE CMContainer
    /\ Return({req})
    /\ UNCHANGED <<serverVars, count, SPContainer,
                   LoggedMessagingAvailability>>

---------------------------------------------------------------------------
(* Reconcile: the error returns, and the crash of the operator.            *)

\* UpdateErrorStatus inside the loops of CreateArtifacts and
\* CheckDeployments, which go on.
ContinueAfterError ==
    /\ pc \in {"deployError", "checkError"}
    /\ StatusUpdate(WithStatus("Error"))
    /\ idx' = idx + 1
    /\ Goto(IF pc = "deployError" THEN "deploy" ELSE "check")
    /\ UNCHANGED <<apps, op, oldLen, verdict, memoryVars, artifactVars>>

\* ParserFailed (RequeueAfter one minute) and NATSCreationError (rate limit)
\* bring the request back, AppReadError does not.
RetryOf(step) == IF step = "failRetry" THEN {req} ELSE {}

\* UpdateErrorStatus and an early return of Reconcile.
ReturnAfterError ==
    /\ pc \in {"fail", "failRetry"}
    /\ Put(WithStatus("Error"))
    /\ Return(RetryOf(pc))
    /\ UNCHANGED memoryVars

\* The operator stops and starts again: its memory, its queue and its cache
\* are gone, and the informers list what the API server holds.
Crash ==
    /\ Spend("crashes", MaxCrashes)
    /\ Forget
    /\ cache' = None /\ notif' = <<>>
    /\ watch' = IF api = None THEN <<>> ELSE <<api>>
    /\ queue' = {} /\ delayed' = {}
    /\ SPContainer' = None /\ CMContainer' = "absent"
    /\ LoggedMessagingAvailability' = FALSE
    /\ depEvent' = (\E i \in 0 .. MaxApps : dep[i] # None)
    /\ cmEvent' = FALSE
    /\ UNCHANGED <<api, dep, stray, cm, nats>>

---------------------------------------------------------------------------
Environment ==
    \/ \E s \in Specs : UserCreate(s) \/ UserUpdate(s)
    \/ UserDelete \/ UserWriteConfigMap \/ InstallNATS
    \/ \E i \in 1 .. MaxApps : AvailabilityChanges(i)
    \/ \E i \in 0 .. MaxApps : CollectGarbage(i)

Predicates ==
    \/ UpdateFuncBump \/ UpdateFuncMark \/ UpdateFuncTimer
    \/ CreateFuncCurrent \/ CreateFuncPrevious \/ DeleteFunc

Reconcile ==
    \/ CountAvailable \/ SetAvailabilityStatus
    \/ SetInitialState \/ UpgradeVersion \/ ReadApps
    \/ PopulateApps \/ ParseSucceeds \/ ParseFails
    \/ CleanArtifact \/ CleanFails \/ StoreApps
    \/ CreateMessagingSystem \/ MessagingFails \/ UpdatePartialAppStatus
    \/ DeployApp \/ DeploySwallowed \/ DeployFails \/ EndDeploy
    \/ SyncVersion \/ ResetReady
    \/ CheckDeployment \/ CheckFails \/ EndPass
    \/ ContinueAfterError \/ ReturnAfterError

Next ==
    \/ Environment
    \/ Deliver \/ Resync \/ Predicates \/ CMUpdateFunc \/ OwnedEvent
    \/ \E r \in Requests : TimerFires(r) \/ Start(r)
    \/ Reconcile
    \/ Crash

Spec == Init /\ [][Next]_vars

\* The goroutines of the operator keep running, a queued request is taken
\* up eventually (the work queue is first-in first-out), a delay runs out
\* and the informer resyncs.  The user and the cluster owe nothing.
Fairness ==
    /\ WF_vars(Deliver) /\ WF_vars(Predicates) /\ WF_vars(Resync)
    /\ WF_vars(CMUpdateFunc) /\ WF_vars(OwnedEvent)
    /\ \A r \in Requests : WF_vars(TimerFires(r)) /\ SF_vars(Start(r))
    /\ WF_vars(Reconcile)

FairSpec == Spec /\ Fairness

---------------------------------------------------------------------------
(* Safety.                                                                 *)

Objects == {api, cache, sp} \cup {watch[k] : k \in DOMAIN watch}

Uncrashed == count["crashes"] = 0

\* Until the operator restarts, no copy of the object anywhere has been
\* synchronised to a version it has not reached: populateSiddhiApps and
\* getEventType decide "modified" and "updated" by cur > prev, so an object
\* with prev > cur would have its next update ignored.
VersionOrder ==
    Uncrashed => \A o \in Objects \ {None} : o.prev <= o.cur

\* A worker's copy that the API server would accept is a copy of the current
\* incarnation with the current spec.
FreshCopy ==
    fresh => /\ api # None /\ sp # None
             /\ sp.uid = api.uid /\ sp.spec = api.spec

\* A step that changes the object without being the user's leaves it the
\* same incarnation with the same spec.
KeepsSpec ==
    ( /\ api' # api
      /\ \A c \in {"creates", "updates", "deletes"} : count'[c] = count[c] )
    => /\ api # None /\ api' # None
       /\ api'.uid = api.uid /\ api'.spec = api.spec

\* Status writes only write the status: whatever stale copy Reconcile
\* started from, a write the API server accepts never resurrects a deleted
\* object, never lands on another incarnation and never brings back a spec
\* that the user has replaced.
NoClobber == [][KeepsSpec]_vars

\* Until the operator restarts, the status writes of Reconcile never take
\* the versions of one incarnation back: deployments mount a config map
\* named after CurrentVersion, and an older number would name an older one.
VersionsMonotone ==
    [][(Uncrashed /\ api # None /\ api' # None)
         => (api'.uid = api.uid => api'.cur >= api.cur /\ api'.prev >= api.prev)
      ]_vars

\* Until the operator restarts, every deployment that the current object
\* owns is in the list that SPContainer remembers, so that CleanArtifacts,
\* which only looks at that list, can delete it when the list shrinks.  The
\* one failing call that loses a deployment is the Get of DeleteDeployment,
\* which skips its deletion, and it loses no other.
NoOrphans ==
    Uncrashed =>
        \A i \in (1 .. MaxApps) \ stray :
            (dep[i] # None /\ api # None /\ api.uid = dep[i].uid)
                => SPContainer # None /\ i <= Len(Parse(SPContainer))

\* Between two passes, and as long as no call to the API server failed,
\* the deployments run what SPContainer says they run: the timer branch
\* judges their availability against that list without looking at it again.
ClusterMatchesList ==
    (pc = "idle" /\ SPContainer # None /\ count["api"] = 0)
        => \A i \in DOMAIN Parse(SPContainer) :
               dep[i] # None => dep[i].src = SPContainer

\* A stateful process that relies on the automatic messaging system is never
\* deployed before CreateNATS has created its cluster.
NATSBeforeApps ==
    \A i \in 1 .. MaxApps :
        ( /\ dep[i] # None /\ NeedsNATS(dep[i].spec)
          /\ Stateful(Parse(dep[i].src)) # {} )
            => nats = "cluster"

---------------------------------------------------------------------------
(* The abstract specification.                                             *)

\* Of a deployment, an abstract slot keeps the generation it was made from.
R == INSTANCE Rollout WITH
         Slots <- 0 .. MaxApps,
         gen <- Written,
         runs <- [i \in 0 .. MaxApps |->
                     IF dep[i] = None THEN 0 ELSE dep[i].gen]

\* The control loop implements Rollout: whatever is lost, delayed, retried,
\* deleted or restarted, Reconcile writes into a deployment only a spec that
\* the user wrote and never one that is older than what any deployment
\* already runs, although it works on a copy from a lagging cache.
ImplementsRollout == R!Spec

---------------------------------------------------------------------------
(* What the proofs add to make these inductive.                            *)

StepsWithApps == Steps \ {"idle", "verdict", "state", "upgrade", "apps",
                          "fail", "failRetry"}
StepsInLoop == {"clean", "deploy", "readydeps", "check", "deployError",
                "checkError"}

\* The worker holds a copy and a list where it uses them, loops count from
\* one, and a predicate that mutates the cached object finds one there.
WorkerInv ==
    /\ pc # "idle" => sp # None
    /\ pc \in StepsWithApps => apps # None
    /\ pc \in StepsInLoop => idx >= 1
    /\ (notif # <<>> /\ notif[Len(notif)] # "del") => cache # None

\* The last state on its way to the cache, or else the cached object, is
\* the object of the API server, up to what the predicates write.
PipelineInv ==
    IF watch # <<>>
    THEN watch[Len(watch)] = api
    ELSE IF api = None
    THEN cache = None
    ELSE cache # None /\ cache.uid = api.uid /\ cache.spec = api.spec

---------------------------------------------------------------------------
(* Liveness.                                                               *)

Current == [spec |-> api.spec, cm |-> IF UsesConfigMap(api.spec) THEN cm ELSE 0]

\* Every application of the current spec has its deployment.
Deployed ==
    /\ api # None
    /\ \A i \in DOMAIN Parse(Current) :
           /\ dep[i] # None
           /\ dep[i].src = Current /\ dep[i].spec = api.spec

\* Reconcile makes the cluster follow the spec: a spec is eventually
\* deployed, unless the user replaces or deletes it first.
SpecDeployed ==
    \A s \in Specs : (api # None /\ api.spec = s)
                        ~> (Deployed \/ api = None \/ api.spec # s)

\* A new content of a ConfigMap that CMContainer listens to is eventually
\* deployed, unless it is replaced or the object is deleted first.
ConfigMapChangeDeployed ==
    \A c \in 2 .. MaxConfigMaps :
        (/\ api # None /\ UsesConfigMap(api.spec)
         /\ CMContainer # "absent" /\ cm = c)
            ~> (Deployed \/ api = None \/ cm # c)

\* When the NATS operators are there, the messaging system that a stateful
\* process asks for is eventually created, unless it stops asking.
MessagingCreated ==
    (api # None /\ NeedsNATS(api.spec) /\ Stateful(Parse(Current)) # {}
        /\ nats = "operator")
        ~> (api = None \/ ~NeedsNATS(api.spec) \/ nats = "cluster")

\* Deployments beyond the application list of the current spec are
\* eventually deleted, unless the user changes or deletes it first.
LeftoversDeleted ==
    \A s \in Specs : (api # None /\ api.spec = s)
        ~> \/ api = None
           \/ api.spec # s
           \/ \A i \in 1 .. MaxApps :
                  dep[i] # None => i <= Len(Parse(Current))

AllUp ==
    /\ Deployed
    /\ \A i \in DOMAIN Parse(Current) :
           dep[i].avail = Parse(Current)[i].replicas

StatefulDown ==
    /\ Deployed
    /\ \E i \in Stateful(Parse(Current)) :
           dep[i].avail < Parse(Current)[i].replicas

ReportedReady ==
    /\ api # None
    /\ api.status = "Ready"
    /\ api.ready[1] = api.ready[2]

\* Once every deployment stays complete, the user sees it: the status
\* becomes and stays Ready, with all replicas counted in Status.Ready.
StatusConverges == <>[]AllUp => <>[]ReportedReady

\* Once a stateful deployment stays incomplete, the status does not go on
\* claiming that the process is Ready.
DownReported == <>[]StatefulDown => <>[](api # None /\ api.status # "Ready")

\* Once every deployment stays complete, the polling that RequeueAfter
\* drives comes to an end.
PollingEnds == <>[]AllUp => <>[](pc = "idle" /\ queue = {} /\ delayed = {})
===========================================================================
