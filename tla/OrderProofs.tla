---------------------------- MODULE OrderProofs ----------------------------
(***************************************************************************)
(* The copies of the object lag behind each other in one order: worker,    *)
(* cache, states under way, API server.  Along it go the generations of    *)
(* the spec, for which the control loop implements Rollout, and, until the *)
(* operator restarts, the versions.                                        *)
(*                                                                         *)
(* The first part sorts the steps of SiddhiOperator into a few kinds by    *)
(* what they do to the copies and to the deployments.                      *)
(***************************************************************************)
EXTENDS SiddhiOperatorProofs

Ledger == <<count["creates"], count["updates"], count["deletes"],
            count["crashes"]>>

\* obj is o after an assignment of Reconcile to its status.
Descends(obj, o) ==
    /\ obj \in Object
    /\ obj.uid = o.uid /\ obj.gen = o.gen /\ obj.spec = o.spec
    /\ obj.cur >= o.cur
    /\ o.prev <= o.cur => o.prev <= obj.prev /\ obj.prev <= obj.cur

\* No copy of the object moves.
NothingMoves == UNCHANGED <<api, watch, cache, notif, sp, fresh>>

\* A status write of Reconcile, accepted or not; the pass may end with it.
WorkerWrites ==
    /\ sp \in Object /\ pc # "idle"
    /\ \E obj : /\ Descends(obj, sp)
                /\ \/ fresh /\ api' = obj /\ watch' = Append(watch, obj)
                   \/ UNCHANGED <<api, watch>>
                /\ \/ sp' = obj /\ fresh' = fresh
                   \/ sp' = None /\ fresh' = FALSE
    /\ UNCHANGED <<cache, notif>>

WorkerEnds ==
    /\ sp' = None /\ fresh' = FALSE
    /\ UNCHANGED <<api, watch, cache, notif>>

---------------------------------------------------------------------------
(* The counters.                                                           *)

LEMMA FaultLedger ==
    ASSUME TypeInv, NEW c \in {"api", "parser", "avail"}, NEW max, Spend(c, max)
    PROVE  UNCHANGED Ledger
BY DEF TypeInv, TypeOK, Counters, Spend, Ledger

LEMMA CounterTypes ==
    ASSUME TypeInv
    PROVE  /\ count["creates"] \in Nat /\ count["updates"] \in Nat
           /\ count["deletes"] \in Nat /\ count["crashes"] \in Nat
           /\ count["api"] \in Nat
           /\ Written \in Nat
BY DEF TypeInv, TypeOK, Counters, Written

LEMMA UserLedger ==
    ASSUME TypeInv
    PROVE  /\ \A s : UserCreate(s) =>
                  /\ count'["creates"] = count["creates"] + 1
                  /\ count'["updates"] = count["updates"]
                  /\ count'["deletes"] = count["deletes"]
                  /\ count'["crashes"] = count["crashes"]
           /\ \A s : UserUpdate(s) =>
                  /\ count'["creates"] = count["creates"]
                  /\ count'["updates"] = count["updates"] + 1
                  /\ count'["deletes"] = count["deletes"]
                  /\ count'["crashes"] = count["crashes"]
           /\ UserDelete =>
                  /\ count'["creates"] = count["creates"]
                  /\ count'["updates"] = count["updates"]
                  /\ count'["deletes"] = count["deletes"] + 1
                  /\ count'["crashes"] = count["crashes"]
           /\ Crash =>
                  /\ count'["creates"] = count["creates"]
                  /\ count'["updates"] = count["updates"]
                  /\ count'["deletes"] = count["deletes"]
                  /\ count'["crashes"] = count["crashes"] + 1
<1>1. count \in [Counters -> Nat]
  BY DEF TypeInv, TypeOK
<1>2. ASSUME NEW s, UserCreate(s)
      PROVE  /\ count'["creates"] = count["creates"] + 1
             /\ count'["updates"] = count["updates"]
             /\ count'["deletes"] = count["deletes"]
             /\ count'["crashes"] = count["crashes"]
  BY <1>1, <1>2 DEF UserCreate, Spend, Counters
<1>3. ASSUME NEW s, UserUpdate(s)
      PROVE  /\ count'["creates"] = count["creates"]
             /\ count'["updates"] = count["updates"] + 1
             /\ count'["deletes"] = count["deletes"]
             /\ count'["crashes"] = count["crashes"]
  BY <1>1, <1>3 DEF UserUpdate, Spend, Counters
<1>4. ASSUME UserDelete
      PROVE  /\ count'["creates"] = count["creates"]
             /\ count'["updates"] = count["updates"]
             /\ count'["deletes"] = count["deletes"] + 1
             /\ count'["crashes"] = count["crashes"]
  BY <1>1, <1>4 DEF UserDelete, Spend, Counters
<1>5. ASSUME Crash
      PROVE  /\ count'["creates"] = count["creates"]
             /\ count'["updates"] = count["updates"]
             /\ count'["deletes"] = count["deletes"]
             /\ count'["crashes"] = count["crashes"] + 1
  BY <1>1, <1>5 DEF Crash, Spend, Counters
<1> QED BY <1>2, <1>3, <1>4, <1>5

---------------------------------------------------------------------------
(* The steps of Reconcile.                                                 *)

\* The assignments of Reconcile to the status.
LEMMA Assignments ==
    ASSUME NEW o \in Object
    PROVE  /\ Descends(o, o)
           /\ \A st \in Statuses : Descends([o EXCEPT !.status = st], o)
           /\ \A p \in Nat \X Nat : Descends([o EXCEPT !.ready = p], o)
           /\ \A a \in Source : Descends([o EXCEPT !.partial = a], o)
           /\ Descends([o EXCEPT !.cur = @ + 1], o)
           /\ Descends(Synced(o), o)
<1>1. Descends(o, o)
  BY DEF Descends, Object
<1>2. \A st \in Statuses : Descends([o EXCEPT !.status = st], o)
  BY DEF Descends, Object
<1>3. \A p \in Nat \X Nat : Descends([o EXCEPT !.ready = p], o)
  <2>1. ASSUME NEW p \in Nat \X Nat PROVE Descends([o EXCEPT !.ready = p], o)
    <3>1. [o EXCEPT !.ready = p] \in Object
      BY ObjectUpdate
    <3> QED BY <3>1 DEF Descends, Object
  <2> QED BY <2>1
<1>4. \A a \in Source : Descends([o EXCEPT !.partial = a], o)
  BY DEF Descends, Object
<1>5. Descends([o EXCEPT !.cur = @ + 1], o)
  BY DEF Descends, Object
<1>6. Descends(Synced(o), o)
  BY DEF Descends, Object, Synced
<1> QED BY <1>1, <1>2, <1>3, <1>4, <1>5, <1>6

LEMMA PutWrites ==
    ASSUME TypeInv, pc # "idle", NEW obj, Descends(obj, sp), Put(obj),
           UNCHANGED <<cache, notif>>,
           \/ sp' = obj /\ fresh' = fresh
           \/ sp' = None /\ fresh' = FALSE
    PROVE  WorkerWrites /\ UNCHANGED Ledger
<1>1. sp \in Object
  BY WorkerHolds
<1>2. UNCHANGED count \/ Spend("api", MaxAPIFaults)
  BY DEF Put
<1>3. UNCHANGED Ledger
  BY <1>2, FaultLedger DEF Ledger
<1>4. \/ fresh /\ api' = obj /\ watch' = Append(watch, obj)
      \/ UNCHANGED <<api, watch>>
  BY DEF Put
<1> QED BY <1>1, <1>3, <1>4 DEF WorkerWrites

LEMMA StatusUpdateWrites ==
    ASSUME TypeInv, pc # "idle", NEW obj, Descends(obj, sp), StatusUpdate(obj),
           UNCHANGED <<cache, notif, fresh>>
    PROVE  WorkerWrites /\ UNCHANGED Ledger
BY PutWrites DEF StatusUpdate

\* The steps of Reconcile that write no status.
LEMMA SilentSteps ==
    ASSUME TypeInv,
           \/ PopulateApps \/ ParseSucceeds \/ ParseFails
           \/ CleanFails \/ StoreApps
           \/ CreateMessagingSystem \/ MessagingFails
           \/ DeploySwallowed \/ DeployFails \/ EndDeploy
           \/ CheckDeployment \/ CheckFails \/ EndPass
    PROVE  (NothingMoves \/ WorkerEnds) /\ UNCHANGED Ledger
<1>1. CASE \/ PopulateApps \/ ParseSucceeds \/ StoreApps
           \/ CreateMessagingSystem \/ EndDeploy \/ CheckDeployment
  <2>1. NothingMoves /\ UNCHANGED count
    BY <1>1 DEF PopulateApps, ParseSucceeds, StoreApps, CreateMessagingSystem,
                EndDeploy, CheckDeployment, Goto, NoStatusUpdate, informerVars,
                NothingMoves
  <2> QED BY <2>1 DEF Ledger
<1>2. CASE \/ ParseFails \/ CleanFails \/ MessagingFails
           \/ DeploySwallowed \/ DeployFails \/ CheckFails
  <2>1. NothingMoves
    BY <1>2 DEF ParseFails, CleanFails, MessagingFails, DeploySwallowed,
                DeployFails, CheckFails, Goto, serverVars, informerVars,
                NothingMoves
  <2>2. Spend("parser", MaxParserFaults) \/ Spend("api", MaxAPIFaults)
    BY <1>2 DEF ParseFails, CleanFails, MessagingFails, DeploySwallowed,
                DeployFails, CheckFails
  <2> QED BY <2>1, <2>2, FaultLedger
<1>3. CASE EndPass
  <2>1. WorkerEnds /\ UNCHANGED count
    BY <1>3 DEF EndPass, Return, Forget, serverVars, informerVars, WorkerEnds
  <2> QED BY <2>1 DEF Ledger
<1> QED BY <1>1, <1>2, <1>3

\* The steps of Reconcile that write a status.
LEMMA WritingSteps ==
    ASSUME TypeInv,
           \/ CountAvailable \/ SetAvailabilityStatus
           \/ SetInitialState \/ UpgradeVersion \/ ReadApps
           \/ CleanArtifact \/ UpdatePartialAppStatus \/ DeployApp
           \/ SyncVersion \/ ResetReady
           \/ ContinueAfterError \/ ReturnAfterError
    PROVE  (NothingMoves \/ WorkerEnds \/ WorkerWrites) /\ UNCHANGED Ledger
<1>0. /\ pc # "idle" /\ sp \in Object
      /\ pc \in StepsWithApps => apps \in Source
      /\ \A st \in Statuses : Descends(WithStatus(st), sp)
  <2>1. pc # "idle"
    BY DEF CountAvailable, SetAvailabilityStatus, SetInitialState,
           UpgradeVersion, ReadApps, CleanArtifact, UpdatePartialAppStatus,
           DeployApp, SyncVersion, ResetReady, ContinueAfterError,
           ReturnAfterError
  <2> QED BY <2>1, WorkerHolds, Assignments DEF WithStatus
<1>1. NoStatusUpdate /\ UNCHANGED <<cache, notif, fresh>>
          => NothingMoves /\ UNCHANGED Ledger
  BY DEF NoStatusUpdate, NothingMoves, Ledger
<1>2. CASE CountAvailable
  <2>1. PICK r : StatusUpdate([sp EXCEPT !.ready = r])
    BY <1>2 DEF CountAvailable
  <2>2. UNCHANGED <<cache, notif, fresh>> /\ pc' # "idle"
    BY <1>2 DEF CountAvailable, Goto, informerVars
  <2>3. sp' = [sp EXCEPT !.ready = r] /\ sp' \in Object
    BY <1>2, <2>1, <2>2, TimerKeepsTypes, NoneAssumption
       DEF StatusUpdate, TypeInv, WorkerInv, TypeOK, WorkerTypes
  <2>4. Descends(sp', sp)
    BY <1>0, <2>3 DEF Descends, Object
  <2> QED BY <1>0, <2>1, <2>2, <2>3, <2>4, StatusUpdateWrites
<1>3. CASE SetAvailabilityStatus
  <2>1. UNCHANGED <<cache, notif>> /\ sp' = None /\ fresh' = FALSE
    BY <1>3 DEF SetAvailabilityStatus, Return, Forget, informerVars
  <2>2. CASE UNCHANGED <<serverVars, count>>
    BY <2>1, <2>2 DEF WorkerEnds, serverVars, Ledger
  <2>3. CASE Put(WithStatus(StatusOf(verdict)))
    <3>1. StatusOf(verdict) \in Statuses
      BY DEF StatusOf, Statuses
    <3> QED BY <1>0, <2>1, <2>3, <3>1, PutWrites
  <2> QED BY <1>3, <2>2, <2>3 DEF SetAvailabilityStatus
<1>4. CASE SetInitialState
  <2>1. UNCHANGED <<cache, notif, fresh>>
    BY <1>4 DEF SetInitialState, Goto, informerVars
  <2>2. \/ StatusUpdate(WithStatus("Pending"))
        \/ StatusUpdate(WithStatus("Not Ready"))
        \/ NoStatusUpdate
    BY <1>4 DEF SetInitialState
  <2>3. "Pending" \in Statuses /\ "Not Ready" \in Statuses
    BY DEF Statuses
  <2> QED BY <1>0, <1>1, <2>1, <2>2, <2>3, StatusUpdateWrites
<1>5. CASE UpgradeVersion
  <2>1. /\ StatusUpdate([sp EXCEPT !.cur = @ + 1])
        /\ UNCHANGED <<cache, notif, fresh>>
    BY <1>5 DEF UpgradeVersion, Goto, informerVars
  <2> QED BY <1>0, <2>1, Assignments, StatusUpdateWrites
<1>6. CASE ReadApps \/ CleanArtifact \/ DeployApp
  <2>1. UNCHANGED <<cache, notif, fresh>>
    BY <1>6 DEF ReadApps, CleanArtifact, DeployApp, Goto, informerVars
  <2>2. StatusUpdate(sp) \/ NoStatusUpdate
    BY <1>6 DEF ReadApps, CleanArtifact, DeployApp
  <2> QED BY <1>0, <1>1, <2>1, <2>2, Assignments, StatusUpdateWrites
<1>7. CASE UpdatePartialAppStatus
  <2>1. /\ StatusUpdate([sp EXCEPT !.partial = apps])
        /\ UNCHANGED <<cache, notif, fresh>>
    BY <1>7 DEF UpdatePartialAppStatus, Goto, informerVars
  <2>2. apps \in Source
    BY <1>0, <1>7, StepFacts DEF UpdatePartialAppStatus
  <2> QED BY <1>0, <2>1, <2>2, Assignments, StatusUpdateWrites
<1>8. CASE SyncVersion
  <2>1. StatusUpdate(Synced(sp)) /\ UNCHANGED <<cache, notif, fresh>>
    BY <1>8 DEF SyncVersion, Goto, informerVars
  <2> QED BY <1>0, <2>1, Assignments, StatusUpdateWrites
<1>9. CASE ResetReady
  <2>1. /\ StatusUpdate([sp EXCEPT !.ready = <<0, Len(Parse(apps))>>])
        /\ UNCHANGED <<cache, notif, fresh>>
    BY <1>9 DEF ResetReady, Goto, informerVars
  <2>2. <<0, Len(Parse(apps))>> \in Nat \X Nat
    BY <1>0, <1>9, StepFacts, ParseType DEF ResetReady
  <2>3. Descends([sp EXCEPT !.ready = <<0, Len(Parse(apps))>>], sp)
    BY <1>0, <2>2, Assignments
  <2> QED BY <1>0, <2>1, <2>3, StatusUpdateWrites
<1>10. CASE ContinueAfterError
  <2>1. StatusUpdate(WithStatus("Error")) /\ UNCHANGED <<cache, notif, fresh>>
    BY <1>10 DEF ContinueAfterError, Goto, informerVars
  <2> QED BY <1>0, <2>1, StatusUpdateWrites DEF Statuses
<1>11. CASE ReturnAfterError
  <2>1. /\ Put(WithStatus("Error")) /\ UNCHANGED <<cache, notif>>
        /\ sp' = None /\ fresh' = FALSE
    BY <1>11 DEF ReturnAfterError, Return, Forget, informerVars
  <2> QED BY <1>0, <2>1, PutWrites DEF Statuses
<1> QED
  BY <1>2, <1>3, <1>4, <1>5, <1>6, <1>7, <1>8, <1>9, <1>10, <1>11

---------------------------------------------------------------------------
(* All steps, by what they do to the copies of the object.                 *)

InformerMoves ==
    \/ Deliver \/ Resync \/ Predicates
    \/ \E r \in Requests : Start(r)

UserMoves ==
    \/ \E s \in Specs : UserCreate(s) \/ UserUpdate(s)
    \/ UserDelete

WorkerMoves == NothingMoves \/ WorkerEnds \/ WorkerWrites

LEMMA Kinds ==
    ASSUME TypeInv, [Next]_vars
    PROVE  \/ WorkerMoves /\ UNCHANGED Ledger
           \/ InformerMoves /\ UNCHANGED Ledger
           \/ UserMoves
           \/ Crash
<1>1. CASE Reconcile
  BY <1>1, SilentSteps, WritingSteps DEF Reconcile, WorkerMoves
<1>2. CASE Environment
  <2>1. CASE \/ UserWriteConfigMap \/ InstallNATS
             \/ \E i \in 0 .. MaxApps : CollectGarbage(i)
    BY <2>1 DEF UserWriteConfigMap, InstallNATS, CollectGarbage, serverVars,
                informerVars, workerVars, NothingMoves, WorkerMoves, Ledger
  <2>2. ASSUME NEW i \in 1 .. MaxApps, AvailabilityChanges(i)
        PROVE  NothingMoves /\ UNCHANGED Ledger
    BY <2>2, FaultLedger DEF AvailabilityChanges, serverVars, informerVars,
                             workerVars, NothingMoves
  <2> QED BY <1>2, <2>1, <2>2 DEF Environment, UserMoves, WorkerMoves
<1>3. CASE CMUpdateFunc \/ OwnedEvent \/ \E r \in Requests : TimerFires(r)
  BY <1>3 DEF CMUpdateFunc, OwnedEvent, TimerFires, serverVars, informerVars,
              workerVars, NothingMoves, WorkerMoves, Ledger
<1>4. CASE InformerMoves
  <2>1. UNCHANGED count
    BY <1>4 DEF InformerMoves, Deliver, Resync, Start, Predicates,
                UpdateFuncBump, UpdateFuncMark, UpdateFuncTimer,
                CreateFuncCurrent, CreateFuncPrevious, DeleteFunc
  <2> QED BY <1>4, <2>1 DEF Ledger
<1>5. CASE UNCHANGED vars
  BY <1>5 DEF vars, serverVars, informerVars, workerVars, NothingMoves,
              WorkerMoves, Ledger
<1> QED BY <1>1, <1>2, <1>3, <1>4, <1>5 DEF Next, InformerMoves

---------------------------------------------------------------------------
(* All steps, by what they do to the deployments.                          *)

Slot == 0 .. MaxApps

Removed == \E i \in Slot : dep' = [dep EXCEPT ![i] = None]

\* Only its replicas change.
Scaled ==
    \E i \in Slot, d \in Deployment :
        /\ dep[i] # None /\ dep' = [dep EXCEPT ![i] = d]
        /\ d.uid = dep[i].uid /\ d.gen = dep[i].gen
        /\ d.src = dep[i].src /\ d.spec = dep[i].spec

\* Reconcile writes it, the parser's or that of the application it is at.
Applied ==
    /\ sp \in Object
    /\ \E i \in Slot, d \in Deployment :
           /\ dep' = [dep EXCEPT ![i] = d]
           /\ d.gen = sp.gen /\ d.spec = sp.spec
           /\ d.uid = IF dep[i] = None THEN sp.uid ELSE dep[i].uid
           /\ \/ i = 0 /\ pc = "parse"
              \/ /\ pc = "deploy" /\ i = idx /\ apps \in Source
                 /\ i \in 1 .. Len(Parse(apps)) /\ d.src = apps

LEMMA DeployApplies ==
    ASSUME TypeInv, pc = "deploy", idx <= Len(Parse(apps)),
           dep' = [dep EXCEPT ![idx] = DeploymentFor(idx)]
    PROVE  Applied
<1>1. /\ sp \in Object /\ sp # None /\ apps \in Source /\ apps # None
      /\ idx \in 1 .. Len(Parse(apps))
  BY WorkerHolds, StepFacts, ParseType, NoneAssumption
<1>2. DeploymentFor(idx) \in Deployment /\ idx \in Slot
  BY <1>1, DeploymentForType DEF TypeInv, Slot
<1>3. dep[idx] \in Deployment \cup {None}
  BY <1>2 DEF TypeInv, TypeOK, ArtifactTypes, Slot
<1>4. /\ DeploymentFor(idx).gen = sp.gen /\ DeploymentFor(idx).spec = sp.spec
      /\ DeploymentFor(idx).src = apps
      /\ DeploymentFor(idx).uid = IF dep[idx] = None THEN sp.uid
                                  ELSE dep[idx].uid
  BY <1>3 DEF DeploymentFor, Deployment
<1> QED BY <1>1, <1>2, <1>4 DEF Applied

LEMMA DeploymentKinds ==
    ASSUME TypeInv, [Next]_vars
    PROVE  UNCHANGED dep \/ Removed \/ Scaled \/ Applied
<1>0. /\ TypeOK /\ dep \in [Slot -> Deployment \cup {None}]
      /\ 0 \in Slot
  BY BoundsAssumption DEF TypeInv, TypeOK, ArtifactTypes, Slot
<1>1. CASE Environment
  <2>1. ASSUME NEW i \in 1 .. MaxApps, AvailabilityChanges(i) PROVE Scaled
    <3>1. i \in Slot /\ dep[i] # None /\ dep[i] \in Deployment /\ Surge \in Nat
      BY <1>0, <2>1, BoundsAssumption DEF AvailabilityChanges, Slot
    <3>2. PICK n \in 0 .. dep[i].replicas + Surge :
              dep' = [dep EXCEPT ![i].avail = n]
      BY <2>1 DEF AvailabilityChanges
    <3>3. n \in Nat
      BY <3>1, <3>2 DEF Deployment
    <3> DEFINE d == [dep[i] EXCEPT !.avail = n]
    <3>4. /\ d \in Deployment
          /\ d.uid = dep[i].uid /\ d.gen = dep[i].gen
          /\ d.src = dep[i].src /\ d.spec = dep[i].spec
      BY <3>1, <3>3 DEF Deployment
    <3>5. dep' = [dep EXCEPT ![i] = d]
      BY <1>0, <3>1, <3>2
    <3> QED BY <3>1, <3>4, <3>5 DEF Scaled
  <2>2. ASSUME NEW i \in Slot, CollectGarbage(i) PROVE Removed
    BY <2>2 DEF CollectGarbage, Removed
  <2>3. CASE \/ \E s \in Specs : UserCreate(s) \/ UserUpdate(s)
             \/ UserDelete \/ UserWriteConfigMap \/ InstallNATS
    BY <2>3 DEF UserCreate, UserUpdate, UserDelete, UserWriteConfigMap,
                InstallNATS, clusterVars, artifactVars
  <2> QED BY <1>1, <2>1, <2>2, <2>3 DEF Environment, Slot
<1>2. CASE \/ InformerMoves \/ CMUpdateFunc \/ OwnedEvent
           \/ \E r \in Requests : TimerFires(r)
           \/ Crash
  BY <1>2 DEF InformerMoves, Deliver, Resync, Start, Predicates,
              UpdateFuncBump, UpdateFuncMark, UpdateFuncTimer,
              CreateFuncCurrent, CreateFuncPrevious, DeleteFunc, CMUpdateFunc,
              OwnedEvent, TimerFires, Crash, clusterVars, artifactVars
<1>3. CASE \/ CountAvailable \/ SetAvailabilityStatus \/ SetInitialState
           \/ UpgradeVersion \/ ReadApps \/ StoreApps
           \/ CreateMessagingSystem \/ MessagingFails
           \/ UpdatePartialAppStatus \/ DeploySwallowed \/ EndDeploy
           \/ SyncVersion \/ ResetReady \/ CheckFails \/ EndPass
           \/ ContinueAfterError \/ ReturnAfterError
  BY <1>3 DEF CountAvailable, SetAvailabilityStatus, SetInitialState,
              UpgradeVersion, ReadApps, StoreApps, CreateMessagingSystem,
              MessagingFails, UpdatePartialAppStatus, DeploySwallowed,
              EndDeploy, SyncVersion, ResetReady, CheckFails, EndPass,
              ContinueAfterError, ReturnAfterError, Return, clusterVars,
              artifactVars
<1>4. CASE PopulateApps
  <2>1. CASE UNCHANGED dep
    BY <2>1
  <2>2. CASE ~UNCHANGED dep
    <3>1. pc = "parse" /\ sp \in Object /\ dep[0] \in Deployment \cup {None}
      BY <1>0, <1>4, WorkerHolds DEF PopulateApps
    <3>2. /\ sp.uid \in Nat /\ sp.gen \in Nat
          /\ sp.spec \in Specs /\ sp.cur \in Nat
      BY <3>1 DEF Object
    <3> DEFINE d == IF dep[0] = None
                    THEN [uid |-> sp.uid, src |-> None, spec |-> sp.spec,
                          gen |-> sp.gen, ver |-> sp.cur, replicas |-> 1,
                          avail |-> 0]
                    ELSE [dep[0] EXCEPT !.spec = sp.spec, !.gen = sp.gen,
                                        !.ver = sp.cur]
    <3>3. dep' = [dep EXCEPT ![0] = d]
      BY <1>0, <1>4, <2>2 DEF PopulateApps
    <3>4. d \in Deployment
      BY <3>1, <3>2, DeploymentUpdate DEF Deployment
    <3>5. /\ d.gen = sp.gen /\ d.spec = sp.spec
          /\ d.uid = IF dep[0] = None THEN sp.uid ELSE dep[0].uid
      BY <3>1 DEF Deployment
    <3> HIDE DEF d
    <3> QED BY <1>0, <3>1, <3>3, <3>4, <3>5 DEF Applied
  <2> QED BY <2>1, <2>2
<1>5. CASE ParseSucceeds \/ ParseFails
  BY <1>0, <1>5 DEF ParseSucceeds, ParseFails, DeleteDeployment, Removed
<1>6. CASE CleanArtifact \/ CleanFails
  <2>1. idx \in Slot
    BY <1>0, <1>6, WorkerHolds, StepFacts, BoundsAssumption
       DEF CleanArtifact, CleanFails, TypeOK, LocalTypes, Slot
  <2> QED
    BY <1>6, <2>1 DEF CleanArtifact, CleanFails, DeleteDeployment, Removed
<1>7. CASE DeployApp \/ DeployFails
  BY <1>7, DeployApplies DEF DeployApp, DeployFails
<1>8. CASE CheckDeployment
  <2>1. CASE WrongReplicas(idx)
    <3>1. /\ idx \in Slot /\ dep[idx] \in Deployment /\ dep[idx] # None
          /\ Parse(apps)[idx].replicas \in Nat
      <4>1. apps \in Source /\ idx \in 1 .. Len(Parse(apps))
        BY <1>8, WorkerHolds, StepFacts, ParseType DEF CheckDeployment
      <4>2. idx \in Slot /\ Parse(apps)[idx] \in Application
        BY <4>1, ParseType, BoundsAssumption DEF Slot
      <4> QED BY <1>0, <2>1, <4>2 DEF WrongReplicas, Application
    <3> DEFINE n == Parse(apps)[idx].replicas
               d == [dep[idx] EXCEPT !.replicas = n]
    <3>2. dep' = [dep EXCEPT ![idx] = d]
      BY <1>0, <1>8, <2>1, <3>1 DEF CheckDeployment
    <3>3. /\ d \in Deployment
          /\ d.uid = dep[idx].uid /\ d.gen = dep[idx].gen
          /\ d.src = dep[idx].src /\ d.spec = dep[idx].spec
      BY <3>1 DEF Deployment
    <3> HIDE DEF d
    <3> QED BY <3>1, <3>2, <3>3 DEF Scaled
  <2>2. CASE ~WrongReplicas(idx)
    BY <1>8, <2>2 DEF CheckDeployment
  <2> QED BY <2>1, <2>2
<1>9. CASE UNCHANGED vars
  BY <1>9 DEF vars, clusterVars, artifactVars
<1> QED
  BY <1>1, <1>2, <1>3, <1>4, <1>5, <1>6, <1>7, <1>8, <1>9
     DEF Next, Reconcile, InformerMoves

---------------------------------------------------------------------------
(* All steps, by what they do to the chain of copies.                      *)

Copy == Object \cup {None}

\* p is o, up to its status.
Like(o, p) ==
    \/ o = p
    \/ /\ o \in Object /\ p \in Object
       /\ p.uid = o.uid /\ p.gen = o.gen /\ p.spec = o.spec

\* The worker keeps its copy or drops it.
Keeps == Like(sp, sp') \/ sp' = None

\* Nothing is written, delivered or read.
Steady ==
    /\ UNCHANGED <<api, watch>>
    /\ Like(cache, cache') /\ Keeps
    /\ fresh' => fresh /\ Like(sp, sp')

Reads ==
    /\ UNCHANGED <<api, watch, cache, notif>>
    /\ RaceFree => notif = <<>>
    /\ cache # None /\ sp' = cache /\ fresh' = (watch = <<>>)

Delivers ==
    /\ UNCHANGED <<api, sp, fresh>>
    /\ watch # <<>> /\ cache' = Head(watch) /\ watch' = Tail(watch)

\* The API server stores x: the user's doing, or a status write.
Stores(x) ==
    /\ api' = x /\ watch' = Append(watch, x) /\ cache' = cache
    /\ Keeps
    /\ fresh' => x # None /\ sp' = x

Loses ==
    /\ UNCHANGED api
    /\ cache' = None /\ sp' = None /\ fresh' = FALSE
    /\ watch' = IF api = None THEN <<>> ELSE <<api>>

ChainStep ==
    \/ (Steady \/ Reads \/ Delivers \/ Loses)
       /\ Written' = Written /\ count'["creates"] = count["creates"]
    \/ \E x \in Copy :
          /\ Stores(x)
          /\ \/ /\ x = None /\ Written' = Written
                /\ count'["creates"] = count["creates"]
             \/ /\ x \in Object /\ api \in Object /\ x.uid = api.uid
                /\ fresh /\ sp \in Object /\ Like(sp, x)
                /\ Written' = Written /\ count'["creates"] = count["creates"]
             \/ /\ x \in Object /\ api \in Object /\ x.uid = api.uid
                /\ x.gen = Written + 1 /\ Written' = Written + 1
                /\ count'["creates"] = count["creates"]
             \/ /\ x \in Object /\ api = None
                /\ x.uid = count["creates"] + 1
                /\ count'["creates"] = count["creates"] + 1
                /\ x.gen = Written + 1 /\ Written' = Written + 1

LEMMA PredicateAssigns ==
    ASSUME TypeInv, Predicates
    PROVE  Like(cache, cache')
<1>1. CASE Len(notif) = 1 /\ ~DeleteFunc
  <2>1. cache \in Object
    BY <1>1, PredicateFindsObject
       DEF Predicates, UpdateFuncBump, UpdateFuncMark, UpdateFuncTimer,
           CreateFuncCurrent, CreateFuncPrevious
  <2>2. \/ cache' = [cache EXCEPT !.cur = @ + 1]
        \/ cache' = [cache EXCEPT !.ev = "Update"]
        \/ cache' = [cache EXCEPT !.ev = "Timer"]
        \/ cache' = [cache EXCEPT !.cur = 0]
        \/ cache' = [cache EXCEPT !.prev = 0]
    BY <1>1 DEF Predicates, UpdateFuncBump, UpdateFuncMark, UpdateFuncTimer,
                CreateFuncCurrent, CreateFuncPrevious, MutateCached, Marked
  <2>3. cache' \in Object
    BY <2>1, <2>2, ObjectUpdate DEF EventTypes
  <2>4. /\ cache'.uid = cache.uid /\ cache'.gen = cache.gen
        /\ cache'.spec = cache.spec
    BY <2>1, <2>2 DEF Object
  <2> QED BY <2>1, <2>3, <2>4 DEF Like
<1>2. CASE ~(Len(notif) = 1 /\ ~DeleteFunc)
  BY <1>2 DEF Predicates, UpdateFuncBump, UpdateFuncMark, UpdateFuncTimer,
              CreateFuncCurrent, CreateFuncPrevious, DeleteFunc, MutateCached,
              Like
<1> QED BY <1>1, <1>2

LEMMA ChainSteps ==
    ASSUME TypeInv, Guarded, [Next]_vars
    PROVE  ChainStep
<1>0. /\ sp \in Copy /\ cache \in Copy /\ api \in Copy
      /\ watch \in Seq(Copy) /\ None \notin Object
  BY NoneAssumption
     DEF TypeInv, TypeOK, ServerTypes, InformerTypes, WorkerTypes, Copy
<1>1. ASSUME UNCHANGED Ledger
      PROVE  Written' = Written /\ count'["creates"] = count["creates"]
  BY <1>1 DEF Ledger, Written
<1>2. CASE (NothingMoves \/ WorkerEnds) /\ UNCHANGED Ledger
  <2>1. Steady
    BY <1>2 DEF NothingMoves, WorkerEnds, Steady, Keeps, Like
  <2> QED BY <1>1, <1>2, <2>1 DEF ChainStep
<1>3. CASE WorkerWrites /\ UNCHANGED Ledger
  <2>1. PICK obj : /\ Descends(obj, sp)
                   /\ \/ fresh /\ api' = obj /\ watch' = Append(watch, obj)
                      \/ UNCHANGED <<api, watch>>
                   /\ \/ sp' = obj /\ fresh' = fresh
                      \/ sp' = None /\ fresh' = FALSE
    BY <1>3 DEF WorkerWrites
  <2>2. /\ sp \in Object /\ obj \in Object /\ Like(sp, obj) /\ obj # None
        /\ cache' = cache
    BY <1>0, <1>3, <2>1 DEF WorkerWrites, Descends, Like
  <2>3. Keeps /\ (fresh' => fresh /\ sp' = obj)
    BY <2>1, <2>2 DEF Keeps
  <2>4. CASE UNCHANGED <<api, watch>>
    <3>1. Steady
      BY <2>2, <2>3, <2>4 DEF Steady, Like
    <3> QED BY <1>1, <1>3, <3>1 DEF ChainStep
  <2>5. CASE fresh /\ api' = obj /\ watch' = Append(watch, obj)
    <3>1. Stores(obj)
      BY <2>2, <2>3, <2>5 DEF Stores
    <3>2. api \in Object /\ obj.uid = api.uid /\ obj \in Copy
      BY <1>0, <2>1, <2>2, <2>5 DEF Guarded, FreshCopy, Copy, Descends
    <3> QED BY <1>1, <1>3, <2>2, <2>5, <3>1, <3>2 DEF ChainStep
  <2> QED BY <2>1, <2>4, <2>5
<1>4. CASE InformerMoves /\ UNCHANGED Ledger
  <2>1. CASE Deliver
    <3>1. Delivers
      BY <2>1 DEF Deliver, Delivers, workerVars
    <3> QED BY <1>1, <1>4, <3>1 DEF ChainStep
  <2>2. CASE Resync
    <3>1. Steady
      BY <2>2 DEF Resync, serverVars, workerVars, Steady, Keeps, Like
    <3> QED BY <1>1, <1>4, <3>1 DEF ChainStep
  <2>3. CASE Predicates
    <3>1. UNCHANGED <<api, watch, sp, fresh>>
      BY <2>3 DEF Predicates, UpdateFuncBump, UpdateFuncMark, UpdateFuncTimer,
                  CreateFuncCurrent, CreateFuncPrevious, DeleteFunc,
                  serverVars, workerVars
    <3>2. Steady
      BY <2>3, <3>1, PredicateAssigns DEF Steady, Keeps, Like
    <3> QED BY <1>1, <1>4, <3>2 DEF ChainStep
  <2>4. ASSUME NEW r \in Requests, Start(r) PROVE ChainStep
    <3>1. Steady \/ Reads
      BY <2>4 DEF Start, serverVars, informerVars, workerVars, Steady, Reads,
                  Keeps, Like
    <3> QED BY <1>1, <1>4, <3>1 DEF ChainStep
  <2> QED BY <1>4, <2>1, <2>2, <2>3, <2>4 DEF InformerMoves
<1>5. ASSUME NEW s \in Specs, UserCreate(s) PROVE ChainStep
  <2>0. count["creates"] + 1 \in Nat /\ Written + 1 \in Nat
    BY CounterTypes
  <2>1. /\ api' \in Object /\ api = None
        /\ api'.uid = count["creates"] + 1 /\ api'.gen = Written + 1
    BY <1>5, <2>0 DEF UserCreate, Object, Statuses, EventTypes
  <2>2. /\ count'["creates"] = count["creates"] + 1
        /\ count'["updates"] = count["updates"]
    BY <1>5, UserLedger
  <2>3. Written' = Written + 1
    BY <2>2, CounterTypes DEF Written
  <2>4. Stores(api') /\ api' \in Copy
    BY <1>0, <1>5, <2>1
       DEF UserCreate, informerVars, workerVars, Guarded, FreshCopy, Stores,
           Keeps, Like, Copy
  <2> QED BY <2>1, <2>2, <2>3, <2>4 DEF ChainStep
<1>6. ASSUME NEW s \in Specs, UserUpdate(s) PROVE ChainStep
  <2>0. api \in Object /\ Written + 1 \in Nat
    BY <1>0, <1>6, CounterTypes DEF UserUpdate, Copy
  <2>1. api' \in Object /\ api'.uid = api.uid /\ api'.gen = Written + 1
    <3>1. api' \in Object
      BY <1>6, <2>0, ObjectUpdate DEF UserUpdate
    <3> QED BY <1>6, <2>0, <3>1 DEF UserUpdate, Object
  <2>2. /\ count'["creates"] = count["creates"]
        /\ count'["updates"] = count["updates"] + 1
    BY <1>6, UserLedger
  <2>3. Written' = Written + 1
    BY <2>2, CounterTypes DEF Written
  <2>4. Stores(api') /\ api' \in Copy
    BY <1>6, <2>1 DEF UserUpdate, informerVars, Stores, Keeps, Like, Copy
  <2> QED BY <2>0, <2>1, <2>2, <2>3, <2>4 DEF ChainStep
<1>7. CASE UserDelete
  <2>1. count'["creates"] = count["creates"] /\ Written' = Written
    BY <1>7, UserLedger DEF Written
  <2>2. Stores(None) /\ None \in Copy
    BY <1>7 DEF UserDelete, informerVars, Stores, Keeps, Like, Copy
  <2> QED BY <2>1, <2>2 DEF ChainStep
<1>8. CASE Crash
  <2>1. count'["creates"] = count["creates"] /\ Written' = Written
    BY <1>8, UserLedger DEF Written
  <2>2. Loses
    BY <1>8 DEF Crash, Forget, Loses
  <2> QED BY <2>1, <2>2 DEF ChainStep
<1> QED
  BY <1>2, <1>3, <1>4, <1>5, <1>6, <1>7, <1>8, Kinds
     DEF WorkerMoves, UserMoves

---------------------------------------------------------------------------
(* Sequences that grow at the end and shrink at the front.                 *)

LEMMA Appended ==
    ASSUME NEW S, NEW s \in Seq(S), NEW x \in S
    PROVE  /\ Append(s, x) \in Seq(S) /\ Append(s, x) # <<>>
           /\ Len(s) \in Nat /\ Len(Append(s, x)) = Len(s) + 1
           /\ \A k \in 1 .. Len(s) : Append(s, x)[k] = s[k] /\ s[k] \in S
           /\ Append(s, x)[Len(s) + 1] = x
OBVIOUS

LEMMA Shortened ==
    ASSUME NEW S, NEW s \in Seq(S), s # <<>>
    PROVE  /\ Tail(s) \in Seq(S) /\ Head(s) = s[1] /\ Head(s) \in S
           /\ Len(s) \in Nat \ {0} /\ Len(Tail(s)) = Len(s) - 1
           /\ \A k \in 1 .. Len(s) - 1 : Tail(s)[k] = s[k + 1] /\ s[k + 1] \in S
OBVIOUS

---------------------------------------------------------------------------
(* Generations along the chain.                                            *)

Older(o, p) == (o # None /\ p # None) => o.gen <= p.gen

Numbered(o) == o # None => o.gen \in 1 .. Written

\* A spec that the user wrote, and that no copy has fallen behind.
Below(g) ==
    /\ g \in 1 .. Written
    /\ sp # None => g <= sp.gen
    /\ cache # None => g <= cache.gen
    /\ api # None => g <= api.gen
    /\ \A k \in 1 .. Len(watch) : watch[k] # None => g <= watch[k].gen

\* The chain is ordered and ends in the newest spec there is.
GenInv ==
    /\ Numbered(sp) /\ Numbered(cache) /\ Numbered(api)
    /\ \A k \in 1 .. Len(watch) : Numbered(watch[k])
    /\ Older(sp, cache) /\ Older(sp, api) /\ Older(cache, api)
    /\ \A k \in 1 .. Len(watch) :
           /\ Older(sp, watch[k]) /\ Older(cache, watch[k])
           /\ Older(watch[k], api)
           /\ \A j \in 1 .. k : Older(watch[j], watch[k])
    /\ fresh => sp.gen = api.gen
    /\ (watch = <<>> /\ api # None) => cache.gen = api.gen

LEMMA ChainTypes ==
    ASSUME TypeInv
    PROVE  /\ sp \in Copy /\ cache \in Copy /\ api \in Copy
           /\ watch \in Seq(Copy) /\ Len(watch) \in Nat
           /\ \A k \in 1 .. Len(watch) : watch[k] \in Copy
           /\ None \notin Object
           /\ \A o \in Copy : o # None => o \in Object /\ o.gen \in Nat
                                          /\ o.uid \in Nat
           /\ Written \in Nat
<1>1. \A o \in Copy : o # None => o \in Object /\ o.gen \in Nat /\ o.uid \in Nat
  BY DEF Copy, Object
<1>2. /\ sp \in Copy /\ cache \in Copy /\ api \in Copy
      /\ watch \in Seq(Copy) /\ Len(watch) \in Nat
  BY DEF TypeInv, TypeOK, ServerTypes, InformerTypes, WorkerTypes, Copy
<1> QED BY <1>1, <1>2, NoneAssumption, CounterTypes

\* What a copy is of, its status apart.
LEMMA LikeGen ==
    ASSUME NEW o \in Copy, NEW p \in Copy, Like(o, p), None \notin Object
    PROVE  /\ (o = None) = (p = None)
           /\ o # None => p.gen = o.gen /\ p.uid = o.uid
BY DEF Like, Copy

LEMMA NextChainTypes ==
    ASSUME TypeInv'
    PROVE  /\ sp' \in Copy /\ cache' \in Copy /\ api' \in Copy
           /\ watch' \in Seq(Copy) /\ Len(watch') \in Nat
           /\ Written' \in Nat
BY DEF TypeInv, TypeOK, ServerTypes, InformerTypes, WorkerTypes, Copy,
       Counters, Written

LEMMA BelowStays ==
    ASSUME TypeInv, TypeInv', Guarded, GenInv, ChainStep,
           NEW g \in Nat, Below(g)
    PROVE  Below(g)'
<1> USE ChainTypes, NextChainTypes
<1>1. CASE (Steady \/ Reads) /\ Written' = Written
  BY <1>1, LikeGen DEF Steady, Reads, Keeps, Below
<1>2. CASE Loses /\ Written' = Written
  BY <1>2 DEF Loses, Below
<1>3. CASE Delivers /\ Written' = Written
  <2>1. /\ cache' = watch[1] /\ Len(watch) \in Nat \ {0}
        /\ Len(watch') = Len(watch) - 1
        /\ \A k \in 1 .. Len(watch') : watch'[k] = watch[k + 1]
    BY <1>3, Shortened DEF Delivers
  <2> QED BY <1>3, <2>1 DEF Delivers, Below
<1>4. ASSUME NEW x \in Copy, Stores(x), Written' \in {Written, Written + 1},
             x # None => g <= x.gen
      PROVE  Below(g)'
  <2>1. /\ Len(watch') = Len(watch) + 1
        /\ \A k \in 1 .. Len(watch) : watch'[k] = watch[k]
        /\ watch'[Len(watch) + 1] = x
    BY <1>4, Appended DEF Stores
  <2>2. ASSUME NEW k \in 1 .. Len(watch'), watch'[k] # None
        PROVE  g <= watch'[k].gen
    <3>1. CASE k = Len(watch) + 1
      BY <1>4, <2>1, <2>2, <3>1
    <3>2. CASE k # Len(watch) + 1
      BY <2>1, <2>2, <3>2 DEF Below
    <3> QED BY <3>1, <3>2
  <2>3. sp' # None => g <= sp'.gen
    BY <1>4, LikeGen DEF Stores, Keeps, Below
  <2> QED BY <1>4, <2>2, <2>3 DEF Stores, Below
<1> QED
  BY <1>1, <1>2, <1>3, <1>4, LikeGen DEF ChainStep, Below, Copy

LEMMA GenKept ==
    ASSUME TypeInv, TypeInv', Guarded, GenInv, ChainStep
    PROVE  GenInv'
<1> USE ChainTypes, NextChainTypes
<1>1. CASE (Steady \/ Reads) /\ Written' = Written
  <2>1. /\ UNCHANGED <<api, watch>> /\ Older(cache, cache')
        /\ (cache = None) = (cache' = None)
        /\ cache # None => cache'.gen = cache.gen
    BY <1>1, LikeGen DEF Steady, Reads, Older
  <2>2. \/ sp' = None
        \/ sp # None /\ sp' # None /\ sp'.gen = sp.gen
        \/ cache # None /\ cache' # None /\ sp' # None /\ sp'.gen = cache.gen
    BY <1>1, LikeGen DEF Steady, Reads, Keeps
  <2>3. fresh' => sp'.gen = api'.gen
    BY <1>1, LikeGen
       DEF Steady, Reads, GenInv, Guarded, FreshCopy, PipelineInv
  <2> QED BY <1>1, <2>1, <2>2, <2>3 DEF GenInv, Older, Numbered
<1>2. CASE Loses /\ Written' = Written
  <2>1. /\ sp' = None /\ cache' = None /\ api' = api /\ fresh' = FALSE
        /\ \A k \in 1 .. Len(watch') : watch'[k] = api
        /\ watch' = <<>> => api = None
    BY <1>2 DEF Loses
  <2> QED BY <1>2, <2>1 DEF GenInv, Older, Numbered
<1>3. CASE Delivers /\ Written' = Written
  <2>1. /\ cache' = watch[1] /\ Len(watch) \in Nat \ {0}
        /\ Len(watch') = Len(watch) - 1
        /\ \A k \in 1 .. Len(watch') : watch'[k] = watch[k + 1]
        /\ UNCHANGED <<api, sp, fresh>>
    BY <1>3, Shortened DEF Delivers
  <2>2. watch' = <<>> => cache' = api'
    <3>1. watch[Len(watch)] = api
      BY <1>3 DEF Delivers, Guarded, PipelineInv
    <3>2. ASSUME watch' = <<>> PROVE Len(watch) = 1
      BY <2>1, <3>2
    <3> QED BY <2>1, <3>1, <3>2
  <2>3. \A k \in 1 .. Len(watch') : k + 1 \in 1 .. Len(watch)
    BY <2>1
  <2>4. 1 \in 1 .. Len(watch) /\ Numbered(cache')
    BY <2>1 DEF GenInv
  <2>5. ASSUME NEW k \in 1 .. Len(watch')
        PROVE  /\ Numbered(watch'[k])
               /\ Older(sp, watch'[k]) /\ Older(cache', watch'[k])
               /\ Older(watch'[k], api)
               /\ \A j \in 1 .. k : Older(watch'[j], watch'[k])
    <3>1. 1 \in 1 .. k + 1 /\ \A j \in 1 .. k : j + 1 \in 1 .. k + 1
      BY <2>1
    <3>2. \A j \in 1 .. k + 1 : Older(watch[j], watch[k + 1])
      BY <2>3 DEF GenInv
    <3>3. \A j \in 1 .. k : watch'[j] = watch[j + 1]
      BY <2>1
    <3> QED BY <2>1, <2>3, <3>1, <3>2, <3>3 DEF GenInv
  <2> QED BY <1>3, <2>1, <2>2, <2>4, <2>5 DEF GenInv, Numbered
<1>4. ASSUME NEW x \in Copy, Stores(x), Written' \in {Written, Written + 1},
             x # None => \/ x.gen = Written + 1 /\ Written' = Written + 1
                         \/ api # None /\ x.gen = api.gen
      PROVE  GenInv'
  <2>1. /\ Len(watch') = Len(watch) + 1 /\ watch' # <<>>
        /\ \A k \in 1 .. Len(watch) : watch'[k] = watch[k]
        /\ watch'[Len(watch) + 1] = x
        /\ api' = x /\ cache' = cache
    BY <1>4, Appended DEF Stores
  <2>2. sp' = None \/ (sp # None /\ sp' # None /\ sp'.gen = sp.gen)
    BY <1>4, LikeGen DEF Stores, Keeps
  <2>3. Numbered(x)' /\ Older(sp', x) /\ Older(cache, x)
    BY <1>4, <2>2 DEF GenInv, Older, Numbered
  <2>4. \A k \in 1 .. Len(watch) : Older(watch[k], x)
    BY <1>4 DEF GenInv, Older, Numbered
  <2>5. ASSUME NEW k \in 1 .. Len(watch')
        PROVE  /\ Numbered(watch[k])'
               /\ Older(sp', watch'[k]) /\ Older(cache', watch'[k])
               /\ Older(watch'[k], api')
               /\ \A j \in 1 .. k : Older(watch'[j], watch'[k])
    <3>1. CASE k = Len(watch) + 1
      BY <2>1, <2>3, <2>4, <3>1 DEF Older, Numbered
    <3>2. CASE k # Len(watch) + 1
      <4>1. /\ k \in 1 .. Len(watch) /\ watch'[k] = watch[k]
            /\ \A j \in 1 .. k : j \in 1 .. Len(watch) /\ watch'[j] = watch[j]
        BY <2>1, <3>2
      <4>2. Older(sp', watch[k]) /\ Numbered(watch[k])'
        BY <1>4, <2>1, <2>2, <4>1 DEF GenInv, Older, Numbered
      <4> QED BY <2>1, <2>4, <4>1, <4>2 DEF GenInv, Numbered
    <3> QED BY <3>1, <3>2
  <2>6. fresh' => sp'.gen = api'.gen
    BY <1>4, <2>1 DEF Stores
  <2> QED BY <1>4, <2>1, <2>2, <2>3, <2>5, <2>6 DEF GenInv, Older, Numbered
<1>5. ASSUME fresh, NEW x \in Object, sp \in Object, Like(sp, x)
      PROVE  api # None /\ x.gen = api.gen
  BY <1>5, LikeGen DEF GenInv, Guarded, FreshCopy, Copy
<1> QED
  BY <1>1, <1>2, <1>3, <1>4, <1>5 DEF ChainStep

---------------------------------------------------------------------------
(* Deployments, and the refinement.                                        *)

\* No copy is of an older spec than what some deployment runs.
DepInv == \A i \in Slot : dep[i] # None => Below(dep[i].gen)

LEMMA CopyIsBelow ==
    ASSUME TypeInv, GenInv, sp \in Object
    PROVE  sp.gen \in Nat /\ Below(sp.gen)
BY ChainTypes DEF GenInv, Below, Older, Numbered

LEMMA DeploymentTypes ==
    ASSUME TypeInv
    PROVE  /\ dep \in [Slot -> Deployment \cup {None}]
           /\ \A i \in Slot : dep[i] # None =>
                  /\ dep[i] \in Deployment
                  /\ dep[i].gen \in Nat /\ dep[i].uid \in Nat
           /\ None \notin Deployment
           /\ \A d \in Deployment : d.gen \in Nat /\ d.uid \in Nat
BY NoneAssumption DEF TypeInv, TypeOK, ArtifactTypes, Deployment, Slot

LEMMA DepKept ==
    ASSUME TypeInv, TypeInv', Guarded, GenInv, DepInv, [Next]_vars
    PROVE  DepInv'
<1>0. ChainStep
  BY ChainSteps
<1>1. \A g \in Nat : Below(g) => Below(g)'
  BY <1>0, BelowStays
<1>2. ASSUME NEW i \in Slot, NEW d \in Deployment, NEW g \in Nat, Below(g),
             dep' = [dep EXCEPT ![i] = d], d.gen = g
      PROVE  DepInv'
  <2>1. SUFFICES ASSUME NEW j \in Slot, dep'[j] # None
                 PROVE  Below(dep[j].gen)'
    BY DEF DepInv
  <2>2. PICK h \in Nat : Below(h) /\ dep'[j].gen = h
    <3>1. CASE j = i
      BY <1>2, <3>1, DeploymentTypes
    <3>2. CASE j # i
      BY <1>2, <2>1, <3>2, DeploymentTypes DEF DepInv
    <3> QED BY <3>1, <3>2
  <2>3. Below(h)'
    BY <1>1, <2>2
  <2> QED BY <2>2, <2>3
<1>3. CASE UNCHANGED dep
  BY <1>1, <1>3, DeploymentTypes DEF DepInv
<1>4. CASE Removed
  BY <1>1, <1>4, DeploymentTypes DEF Removed, DepInv
<1>5. CASE Scaled
  BY <1>2, <1>5, DeploymentTypes DEF Scaled, DepInv
<1>6. CASE Applied
  BY <1>2, <1>6, CopyIsBelow DEF Applied
<1> QED BY <1>3, <1>4, <1>5, <1>6, DeploymentKinds

\* The generation in each slot: runs of Rollout.
Runs == [i \in Slot |-> IF dep[i] = None THEN 0 ELSE dep[i].gen]

LEMMA WrittenMoves ==
    ASSUME TypeInv, [Next]_vars
    PROVE  \/ Written' = Written
           \/ Written' = Written + 1 /\ UNCHANGED dep
<1>1. CASE UNCHANGED Ledger
  BY <1>1 DEF Ledger, Written
<1>2. ASSUME NEW s \in Specs, UserCreate(s) \/ UserUpdate(s)
      PROVE  Written' = Written + 1 /\ UNCHANGED dep
  <2>1. UNCHANGED dep
    BY <1>2 DEF UserCreate, UserUpdate, clusterVars, artifactVars
  <2> QED BY <1>2, <2>1, UserLedger, CounterTypes DEF Written
<1>3. CASE UserDelete \/ Crash
  BY <1>3, UserLedger DEF Written
<1> QED BY <1>1, <1>2, <1>3, Kinds DEF UserMoves

LEMMA RolloutStep ==
    ASSUME TypeInv, TypeInv', Guarded, GenInv, DepInv, [Next]_vars
    PROVE  \/ Written' = Written + 1 /\ Runs' = Runs
           \/ Written' = Written /\ Runs' = Runs
           \/ /\ Written' = Written
              /\ \E i \in Slot : Runs' = [Runs EXCEPT ![i] = 0]
           \/ /\ Written' = Written
              /\ \E i \in Slot : \E g \in 1 .. Written :
                     /\ \A j \in Slot : Runs[j] <= g
                     /\ Runs' = [Runs EXCEPT ![i] = g]
<1>1. CASE UNCHANGED dep
  BY <1>1, WrittenMoves DEF Runs
<1>2. CASE Removed
  <2>1. PICK i \in Slot : dep' = [dep EXCEPT ![i] = None]
    BY <1>2 DEF Removed
  <2>2. Runs' = [Runs EXCEPT ![i] = 0]
    BY <2>1, DeploymentTypes DEF Runs
  <2> QED BY <1>1, <2>2, WrittenMoves
<1>3. CASE Scaled
  <2>1. PICK i \in Slot, d \in Deployment :
            /\ dep[i] # None /\ dep' = [dep EXCEPT ![i] = d]
            /\ d.gen = dep[i].gen
    BY <1>3 DEF Scaled
  <2>2. Runs' = Runs
    BY <2>1, DeploymentTypes DEF Runs
  <2> QED BY <2>2, WrittenMoves
<1>4. CASE Applied
  <2>1. PICK i \in Slot, d \in Deployment :
            dep' = [dep EXCEPT ![i] = d] /\ d.gen = sp.gen
    BY <1>4 DEF Applied
  <2>2. /\ sp \in Object /\ sp # None /\ sp.gen \in Nat /\ Below(sp.gen)
        /\ sp.gen \in 1 .. Written
    BY <1>4, CopyIsBelow, NoneAssumption DEF Applied, Below
  <2>3. Runs' = [Runs EXCEPT ![i] = sp.gen]
    BY <2>1, <2>2, DeploymentTypes DEF Runs
  <2>4. \A j \in Slot : Runs[j] <= sp.gen
    BY <2>2 DEF Runs, DepInv, Below
  <2> QED BY <1>1, <2>2, <2>3, <2>4, WrittenMoves
<1> QED BY <1>1, <1>2, <1>3, <1>4, DeploymentKinds

OrderInv == TypeInv /\ Guarded /\ GenInv /\ DepInv

LEMMA InitOrder == Init => OrderInv
<1> SUFFICES ASSUME Init PROVE OrderInv
  OBVIOUS
<1>1. TypeInv /\ Guarded
  BY InitTypes DEF Init, Guarded, PipelineInv, FreshCopy
<1>2. GenInv
  BY DEF Init, GenInv, Older, Numbered
<1>3. DepInv
  BY DEF Init, DepInv, Slot
<1> QED BY <1>1, <1>2, <1>3 DEF OrderInv

LEMMA NextOrder ==
    ASSUME OrderInv, [Next]_vars
    PROVE  OrderInv'
<1>1. TypeInv' /\ Guarded' /\ ChainStep
  BY NextKeepsTypes, NextGuarded, ChainSteps DEF OrderInv
<1>2. GenInv' /\ DepInv'
  BY <1>1, GenKept, DepKept DEF OrderInv
<1> QED BY <1>1, <1>2 DEF OrderInv

\* The control loop implements Rollout: with every lag, conflict, failure,
\* deletion and restart, a deployment is only ever made from a spec that the
\* user wrote, and never from an older one than some deployment runs.
THEOREM RolloutImplemented == Spec => ImplementsRollout
<1>1. Init => R!Init
  <2> SUFFICES ASSUME Init PROVE R!Init
    OBVIOUS
  <2>1. Written = 0
    BY DEF Init, Written, Counters
  <2>2. [i \in Slot |-> IF dep[i] = None THEN 0 ELSE dep[i].gen]
          = [i \in Slot |-> 0]
    BY DEF Init, Slot
  <2> QED BY <2>1, <2>2 DEF R!Init, Slot
<1>2. OrderInv /\ [Next]_vars => [R!Next]_(R!vars)
  <2> SUFFICES ASSUME OrderInv, [Next]_vars PROVE [R!Next]_(R!vars)
    OBVIOUS
  <2>1. TypeInv /\ TypeInv' /\ Guarded /\ GenInv /\ DepInv
    BY NextOrder DEF OrderInv
  <2> QED BY <2>1, RolloutStep
          DEF R!Next, R!Write, R!Apply, R!Remove, R!vars, Runs, Slot
<1> QED
  BY <1>1, <1>2, InitOrder, NextOrder, PTL DEF Spec, ImplementsRollout, R!Spec

---------------------------------------------------------------------------
(* Versions along the chain.                                               *)

Ordered(o) == o # None => o.prev <= o.cur
Created(o) == o # None => o.cur = 0 /\ o.prev = 0
Behind(o, p) == o.cur <= p.cur /\ o.prev <= p.prev

LastCall(calls) == calls[Len(calls)]

\* CreateFunc has still to run on the cached object.
Resetting == notif # <<>> /\ LastCall(notif) \in {"add", "reset"}

\* No copy is synchronised beyond its version; what CreateFunc sets to zero
\* is zero already; what may be written is not behind what it replaces.
Versions ==
    /\ Ordered(sp) /\ Ordered(cache) /\ Ordered(api)
    /\ \A k \in 1 .. Len(watch) : Ordered(watch[k])
    /\ Resetting => Created(cache)
    /\ (watch # <<>> /\ cache = None) => Created(watch[1])
    /\ \A k \in 1 .. Len(watch) - 1 :
           watch[k] = None => Created(watch[k + 1])
    /\ (watch = <<>> /\ api # None) => Behind(api, cache)
    /\ fresh => Behind(api, sp)

VersionInv == Uncrashed => Versions

LEMMA VersionTypes ==
    ASSUME NEW o \in Object
    PROVE  o.cur \in Nat /\ o.prev \in Nat
BY DEF Object

LEMMA Calling ==
    ASSUME NEW calls \in Seq(Calls), calls # <<>>, NEW c \in Calls
    PROVE  IF Len(calls) = 1
           THEN /\ Tail(calls) = <<>> /\ LastCall(<<c>> \o Tail(calls)) = c
                /\ LastCall(calls) = Head(calls)
           ELSE /\ LastCall(Tail(calls)) = LastCall(calls)
                /\ LastCall(<<c>> \o Tail(calls)) = LastCall(calls)
<1> DEFINE t == Tail(calls)
           r == <<c>> \o t
<1>1. /\ t \in Seq(Calls) /\ Len(t) = Len(calls) - 1
      /\ \A k \in 1 .. Len(t) : t[k] = calls[k + 1]
      /\ Len(calls) \in Nat \ {0} /\ Head(calls) = calls[1]
  OBVIOUS
<1>2. /\ r \in Seq(Calls) /\ Len(r) = Len(calls) /\ r[1] = c
      /\ \A k \in 2 .. Len(r) : r[k] = t[k - 1]
  BY <1>1
<1>3. CASE Len(calls) = 1
  <2>1. t = <<>>
    <3>1. Len(t) = 0
      BY <1>1, <1>3
    <3> HIDE DEF t
    <3> QED BY <1>1, <3>1
  <2>2. LastCall(r) = c /\ LastCall(calls) = Head(calls)
    BY <1>1, <1>2, <1>3 DEF LastCall
  <2> QED BY <1>3, <2>1, <2>2
<1>4. CASE Len(calls) # 1
  <2>1. /\ Len(r) \in 2 .. Len(r) /\ Len(r) - 1 \in 1 .. Len(t)
        /\ Len(t) \in 1 .. Len(t)
    BY <1>1, <1>2, <1>4
  <2>2. r[Len(r)] = calls[Len(calls)] /\ t[Len(t)] = calls[Len(calls)]
    BY <1>1, <1>2, <2>1
  <2> QED BY <1>4, <2>2 DEF LastCall
<1> QED BY <1>3, <1>4

\* The predicates leave the cached versions ordered and take none back.
LEMMA PredicateVersions ==
    ASSUME TypeInv, Predicates, Ordered(cache), Resetting => Created(cache)
    PROVE  /\ UNCHANGED <<api, watch, sp, fresh>>
           /\ (cache' = None) = (cache = None)
           /\ cache # None => Behind(cache, cache')
           /\ Ordered(cache') /\ (Resetting => Created(cache))'
<1>0. /\ notif \in Seq(Calls) /\ notif # <<>> /\ cache \in Copy
      /\ Calls = {"add", "reset", "mod", "mark", "same", "del"}
  BY DEF Predicates, UpdateFuncBump, UpdateFuncMark, UpdateFuncTimer,
         CreateFuncCurrent, CreateFuncPrevious, DeleteFunc, TypeInv, TypeOK,
         InformerTypes, Copy, Calls
<1>1. UNCHANGED <<api, watch, sp, fresh>>
  BY DEF Predicates, UpdateFuncBump, UpdateFuncMark, UpdateFuncTimer,
         CreateFuncCurrent, CreateFuncPrevious, DeleteFunc, serverVars,
         workerVars
<1>2. CASE Len(notif) # 1 \/ DeleteFunc
  <2>1. /\ cache' = cache
        /\ \/ notif' = Tail(notif)
           \/ /\ Len(notif) # 1
              /\ \/ notif' = <<"mark">> \o Tail(notif)
                 \/ notif' = <<"reset">> \o Tail(notif)
    BY <1>2 DEF Predicates, UpdateFuncBump, UpdateFuncMark, UpdateFuncTimer,
                CreateFuncCurrent, CreateFuncPrevious, DeleteFunc,
                MutateCached
  <2>2. Resetting' => Resetting
    <3>1. /\ Len(notif) = 1 => Tail(notif) = <<>>
          /\ Len(notif) # 1 =>
                 /\ LastCall(Tail(notif)) = LastCall(notif)
                 /\ \A c \in Calls :
                        LastCall(<<c>> \o Tail(notif)) = LastCall(notif)
      BY <1>0, Calling
    <3> QED BY <1>0, <2>1, <3>1 DEF Resetting
  <2>3. cache # None => Behind(cache, cache)
    BY <1>0, VersionTypes DEF Behind, Copy
  <2> QED BY <1>1, <2>1, <2>2, <2>3
<1>3. CASE Len(notif) = 1 /\ ~DeleteFunc
  <2>0. /\ cache \in Object /\ cache.cur \in Nat /\ cache.prev \in Nat
        /\ cache.prev <= cache.cur /\ cache # None
    <3>1. cache \in Object
      BY <1>3, PredicateFindsObject
         DEF Predicates, UpdateFuncBump, UpdateFuncMark, UpdateFuncTimer,
             CreateFuncCurrent, CreateFuncPrevious
    <3> QED BY <3>1, VersionTypes, NoneAssumption DEF Ordered
  <2>1. /\ Tail(notif) = <<>> /\ LastCall(notif) = Head(notif)
        /\ \A c \in Calls : LastCall(<<c>> \o Tail(notif)) = c
    <3>1. "add" \in Calls
      BY <1>0
    <3> QED BY <1>0, <1>3, <3>1, Calling
  <2>2. CASE /\ \/ cache' = [cache EXCEPT !.cur = @ + 1]
                \/ cache' = [cache EXCEPT !.ev = "Update"]
                \/ cache' = [cache EXCEPT !.ev = "Timer"]
             /\ notif' = Tail(notif) \/ notif' = <<"mark">> \o Tail(notif)
    <3>0. cache' \in Object
      BY <2>0, <2>2, ObjectUpdate DEF EventTypes
    <3>1. Behind(cache, cache') /\ Ordered(cache')
      <4>1. /\ cache'.prev = cache.prev
            /\ cache'.cur \in {cache.cur, cache.cur + 1}
        BY <2>0, <2>2 DEF Object
      <4> QED BY <2>0, <4>1 DEF Behind, Ordered
    <3>2. ~Resetting'
      BY <1>0, <2>1, <2>2 DEF Resetting
    <3> QED BY <1>1, <2>0, <3>0, <3>1, <3>2, NoneAssumption
  <2>3. CASE Resetting /\ (\/ cache' = [cache EXCEPT !.cur = 0]
                           \/ cache' = [cache EXCEPT !.prev = 0])
    <3>1. cache.cur = 0 /\ cache.prev = 0
      BY <2>0, <2>3 DEF Created
    <3>2. cache' \in Object /\ cache'.cur = 0 /\ cache'.prev = 0
      BY <2>0, <2>3, <3>1 DEF Object
    <3> QED BY <1>1, <2>0, <3>1, <3>2, NoneAssumption
            DEF Behind, Ordered, Created
  <2>4. /\ CreateFuncCurrent \/ CreateFuncPrevious => Resetting
        /\ CreateFuncCurrent => cache' = [cache EXCEPT !.cur = 0]
        /\ CreateFuncPrevious => cache' = [cache EXCEPT !.prev = 0]
    BY <1>0, <1>3, <2>1
       DEF CreateFuncCurrent, CreateFuncPrevious, Resetting, MutateCached
  <2>5. CASE UpdateFuncBump \/ UpdateFuncMark \/ UpdateFuncTimer
    BY <1>3, <2>2, <2>5 DEF UpdateFuncBump, UpdateFuncMark, UpdateFuncTimer,
                            MutateCached, Marked
  <2> QED BY <1>3, <2>3, <2>4, <2>5 DEF Predicates
<1> QED BY <1>2, <1>3

\* The API server stores x: after a deletion, only a new object.
LEMMA StoreVersions ==
    ASSUME TypeInv, TypeInv', Guarded, Versions, NEW x \in Copy, Stores(x),
           UNCHANGED notif, Ordered(x), api = None => Created(x), Ordered(sp')
    PROVE  Versions'
<1> USE ChainTypes, NextChainTypes
<1>1. /\ Len(watch') = Len(watch) + 1 /\ watch' # <<>>
      /\ \A k \in 1 .. Len(watch) : watch'[k] = watch[k]
      /\ watch'[Len(watch) + 1] = x
      /\ api' = x /\ cache' = cache
  BY Appended DEF Stores
<1>2. \A k \in 1 .. Len(watch') : Ordered(watch'[k])
  BY <1>1 DEF Versions
<1>3. cache' = None => Created(watch'[1])
  <2>1. CASE watch = <<>>
    BY <1>1, <2>1 DEF Guarded, PipelineInv
  <2>2. CASE watch # <<>>
    BY <1>1, <2>2 DEF Versions
  <2> QED BY <2>1, <2>2
<1>4. ASSUME NEW k \in 1 .. Len(watch') - 1, watch'[k] = None
      PROVE  Created(watch'[k + 1])
  <2>1. k \in 1 .. Len(watch) /\ watch[k] = None
    BY <1>1, <1>4
  <2>2. CASE k = Len(watch)
    <3>1. watch # <<>> /\ watch'[k + 1] = x /\ watch[Len(watch)] = None
      BY <1>1, <2>1, <2>2
    <3> QED BY <3>1 DEF Guarded, PipelineInv
  <2>3. CASE k # Len(watch)
    <3>1. /\ k \in 1 .. Len(watch) - 1 /\ k + 1 \in 1 .. Len(watch)
          /\ watch'[k + 1] = watch[k + 1]
      BY <1>1, <2>1, <2>3
    <3> QED BY <2>1, <3>1 DEF Versions
  <2> QED BY <2>2, <2>3
<1>5. fresh' => Behind(api', sp')
  <2>1. fresh' => sp' \in Object /\ sp' = api'
    BY <1>1 DEF Stores, Copy
  <2> QED BY <2>1, VersionTypes DEF Behind
<1>6. (Resetting => Created(cache))'
  BY <1>1 DEF Versions, Resetting
<1> QED BY <1>1, <1>2, <1>3, <1>4, <1>5, <1>6 DEF Versions

LEMMA DeliverVersions ==
    ASSUME TypeInv, TypeInv', Guarded, Versions, Deliver
    PROVE  Versions'
<1> USE ChainTypes, NextChainTypes
<1>1. /\ UNCHANGED <<api, sp, fresh>>
      /\ watch # <<>> /\ cache' = Head(watch) /\ watch' = Tail(watch)
  BY DEF Deliver, workerVars
<1>2. /\ cache' = watch[1] /\ Len(watch) \in Nat \ {0}
      /\ Len(watch') = Len(watch) - 1
      /\ \A k \in 1 .. Len(watch') : watch'[k] = watch[k + 1]
  BY <1>1, Shortened
<1>3. \A k \in 1 .. Len(watch') : Ordered(watch'[k])
  <2>1. \A k \in 1 .. Len(watch') : k + 1 \in 1 .. Len(watch)
    BY <1>2
  <2> QED BY <1>2, <2>1 DEF Versions
<1>4. (Resetting => Created(cache))'
  <2>1. ASSUME Resetting' PROVE cache = None
    <3>1. PICK c \in Calls :
              /\ notif' = Append(notif, c)
              /\ c \in {"add", "reset"} => cache = None
      BY DEF Deliver, Calls
    <3>2. LastCall(notif') = c
      BY <3>1 DEF LastCall, TypeInv, TypeOK, InformerTypes
    <3> QED BY <2>1, <3>1, <3>2 DEF Resetting
  <2> QED BY <1>1, <1>2, <2>1 DEF Versions
<1>5. (watch' # <<>> /\ cache' = None) => Created(watch'[1])
  <2>1. ASSUME watch' # <<>>
        PROVE  1 \in 1 .. Len(watch) - 1 /\ watch'[1] = watch[1 + 1]
    <3>1. Len(watch') # 0
      BY <2>1
    <3> QED BY <1>2, <3>1
  <2> QED BY <1>2, <2>1 DEF Versions
<1>6. \A k \in 1 .. Len(watch') - 1 :
          watch'[k] = None => Created(watch'[k + 1])
  <2>1. \A k \in 1 .. Len(watch') - 1 :
            /\ k + 1 \in 1 .. Len(watch) - 1 /\ watch'[k] = watch[k + 1]
            /\ watch'[k + 1] = watch[(k + 1) + 1]
    BY <1>2
  <2> QED BY <2>1 DEF Versions
<1>7. (watch' = <<>> /\ api' # None) => Behind(api', cache')
  <2>1. watch[Len(watch)] = api
    BY <1>1 DEF Guarded, PipelineInv
  <2>2. ASSUME watch' = <<>> PROVE Len(watch) = 1
    BY <1>2, <2>2
  <2>3. api # None => Behind(api, api)
    BY VersionTypes DEF Behind
  <2> QED BY <1>1, <1>2, <2>1, <2>2, <2>3
<1>8. Ordered(cache')
  BY <1>2 DEF Versions
<1>9. Ordered(sp') /\ Ordered(api') /\ (fresh' => Behind(api', sp'))
  BY <1>1 DEF Versions
<1> QED BY <1>3, <1>4, <1>5, <1>6, <1>7, <1>8, <1>9 DEF Versions

\* The versions of the object in the API server do not go back.
NotTakenBack == (api # None /\ api' # None) => Behind(api, api')

LEMMA WriteVersions ==
    ASSUME TypeInv, TypeInv', Guarded, Versions, WorkerWrites
    PROVE  Versions' /\ NotTakenBack
<1> USE ChainTypes, NextChainTypes, VersionTypes
<1>1. PICK obj : /\ Descends(obj, sp)
                 /\ \/ fresh /\ api' = obj /\ watch' = Append(watch, obj)
                    \/ UNCHANGED <<api, watch>>
                 /\ \/ sp' = obj /\ fresh' = fresh
                    \/ sp' = None /\ fresh' = FALSE
  BY DEF WorkerWrites
<1>2. /\ sp \in Object /\ sp # None /\ obj \in Object /\ obj # None
      /\ UNCHANGED <<cache, notif>>
  BY <1>1 DEF WorkerWrites, Descends
<1>3. Behind(sp, obj) /\ Ordered(obj) /\ Ordered(sp')
  BY <1>1, <1>2 DEF Descends, Behind, Versions, Ordered
<1>4. fresh => api \in Object /\ Behind(api, obj)
  BY <1>2, <1>3 DEF Versions, Behind, Guarded, FreshCopy, Copy
<1>5. CASE UNCHANGED <<api, watch>>
  <2>1. NotTakenBack
    BY <1>5 DEF NotTakenBack, Behind
  <2>2. fresh' => Behind(api', sp')
    BY <1>1, <1>4, <1>5
  <2> QED BY <1>2, <1>3, <1>5, <2>1, <2>2 DEF Versions, Resetting
<1>6. CASE fresh /\ api' = obj /\ watch' = Append(watch, obj)
  <2>1. Stores(obj) /\ obj \in Copy
    BY <1>1, <1>2, <1>6 DEF Stores, Keeps, Like, Descends, Copy
  <2>2. api # None
    BY <1>6, <1>4
  <2> QED BY <1>2, <1>3, <1>4, <1>6, <2>1, <2>2, StoreVersions
          DEF NotTakenBack
<1> QED BY <1>1, <1>5, <1>6

LEMMA VersionStep ==
    ASSUME TypeInv, TypeInv', Guarded, Versions, [Next]_vars, ~Crash
    PROVE  Versions' /\ NotTakenBack
<1> USE ChainTypes, NextChainTypes, VersionTypes
<1>0. UNCHANGED api => NotTakenBack
  BY DEF NotTakenBack, Behind
<1>1. CASE NothingMoves \/ WorkerEnds
  BY <1>0, <1>1 DEF NothingMoves, WorkerEnds, Versions, Ordered, Resetting
<1>2. CASE WorkerWrites
  BY <1>2, WriteVersions
<1>3. CASE Deliver
  BY <1>0, <1>3, DeliverVersions DEF Deliver
<1>4. CASE Resync
  <2>1. UNCHANGED <<api, watch, cache, sp, fresh>> /\ notif' = <<"same">>
    BY <1>4 DEF Resync, serverVars, workerVars
  <2>2. ~Resetting'
    BY <2>1 DEF Resetting, LastCall
  <2> QED BY <1>0, <2>1, <2>2 DEF Versions
<1>5. CASE Predicates
  <2>1. /\ UNCHANGED <<api, watch, sp, fresh>>
        /\ (cache' = None) = (cache = None)
        /\ cache # None => Behind(cache, cache')
        /\ Ordered(cache') /\ (Resetting => Created(cache))'
    BY <1>5, PredicateVersions DEF Versions
  <2>2. (watch' = <<>> /\ api' # None) => Behind(api', cache')
    <3> SUFFICES ASSUME watch = <<>>, api # None PROVE Behind(api, cache')
      BY <2>1
    <3>1. cache # None /\ cache' # None
      BY <2>1 DEF Guarded, PipelineInv
    <3> QED BY <2>1, <3>1 DEF Versions, Behind, Copy
  <2> QED BY <1>0, <2>1, <2>2 DEF Versions
<1>6. ASSUME NEW r \in Requests, Start(r) PROVE Versions' /\ NotTakenBack
  <2>1. UNCHANGED <<api, watch, cache, notif>>
    BY <1>6 DEF Start, serverVars, informerVars
  <2>2. CASE UNCHANGED <<sp, fresh>>
    BY <1>0, <2>1, <2>2 DEF Versions, Resetting
  <2>3. CASE cache # None /\ sp' = cache /\ fresh' = (watch = <<>>)
    <3>1. fresh' => Behind(api', sp')
      BY <2>1, <2>3 DEF Versions, Guarded, PipelineInv
    <3> QED BY <1>0, <2>1, <2>3, <3>1 DEF Versions, Resetting
  <2> QED BY <1>6, <2>2, <2>3 DEF Start, workerVars
<1>7. ASSUME NEW s \in Specs, UserCreate(s) PROVE Versions' /\ NotTakenBack
  <2>1. /\ api = None /\ api' # None /\ api' \in Copy
        /\ Created(api') /\ Ordered(api')
    <3>1. api' # None
      <4>1. count["creates"] + 1 \in Nat /\ Written + 1 \in Nat
        BY CounterTypes
      <4>2. api' \in Object
        BY <1>7, <4>1 DEF UserCreate, Object, Statuses, EventTypes
      <4> QED BY <4>2
    <3>2. api = None /\ api'.cur = 0 /\ api'.prev = 0
      BY <1>7 DEF UserCreate
    <3> QED BY <3>1, <3>2 DEF Created, Ordered
  <2>2. /\ Stores(api') /\ UNCHANGED notif /\ UNCHANGED sp
    BY <1>7 DEF UserCreate, informerVars, workerVars, Guarded, FreshCopy,
                Stores, Keeps, Like
  <2>3. Versions'
    BY <2>1, <2>2, StoreVersions DEF Versions
  <2> QED BY <2>1, <2>3 DEF NotTakenBack
<1>8. ASSUME NEW s \in Specs, UserUpdate(s) PROVE Versions' /\ NotTakenBack
  <2>1. api # None /\ api' \in Copy /\ api \in Object
    BY <1>8 DEF UserUpdate, Copy
  <2>2. api'.cur = api.cur /\ api'.prev = api.prev
    BY <1>8, <2>1 DEF UserUpdate, Object
  <2>3. Ordered(api') /\ Behind(api, api')
    BY <2>1, <2>2 DEF Versions, Ordered, Behind
  <2>4. Stores(api') /\ UNCHANGED notif /\ UNCHANGED sp
    BY <1>8 DEF UserUpdate, informerVars, Stores, Keeps, Like
  <2>5. Versions'
    BY <2>1, <2>3, <2>4, StoreVersions DEF Versions
  <2> QED BY <2>3, <2>5 DEF NotTakenBack
<1>9. CASE UserDelete
  <2>1. Stores(None) /\ UNCHANGED notif /\ UNCHANGED sp /\ None \in Copy
    BY <1>9 DEF UserDelete, informerVars, Stores, Keeps, Like, Copy
  <2>2. Versions'
    BY <2>1, StoreVersions DEF Versions, Ordered, Created
  <2> QED BY <2>1, <2>2 DEF NotTakenBack, Stores
<1> QED
  BY <1>1, <1>2, <1>3, <1>4, <1>5, <1>6, <1>7, <1>8, <1>9, Kinds
     DEF WorkerMoves, InformerMoves, UserMoves

LEMMA Restarts ==
    ASSUME TypeInv, TypeInv', [Next]_vars
    PROVE  /\ Uncrashed' => Uncrashed /\ ~Crash
           /\ Crash => UNCHANGED api
<1>0. /\ Crash => count'["crashes"] = count["crashes"] + 1
      /\ Crash => UNCHANGED api
      /\ count["crashes"] \in Nat
  <2>1. Crash => UNCHANGED api
    BY DEF Crash
  <2> QED BY <2>1, UserLedger, CounterTypes
<1>1. CASE UNCHANGED Ledger
  BY <1>0, <1>1 DEF Ledger, Uncrashed
<1>2. CASE UserMoves
  <2>1. count'["crashes"] = count["crashes"]
    BY <1>2, UserLedger DEF UserMoves
  <2> QED BY <1>0, <2>1 DEF Uncrashed
<1>3. CASE Crash
  BY <1>0, <1>3 DEF Uncrashed
<1> QED BY <1>1, <1>2, <1>3, Kinds

LEMMA VersionFacts == Spec => []VersionOrder /\ VersionsMonotone
<1> DEFINE Inv == TypeInv /\ Guarded /\ VersionInv
           Step == (Uncrashed /\ api # None /\ api' # None)
                     => (api'.uid = api.uid
                           => api'.cur >= api.cur /\ api'.prev >= api.prev)
<1>1. Init => Inv
  <2>1. Init => TypeInv /\ Guarded
    BY InitTypes DEF Init, Guarded, PipelineInv, FreshCopy
  <2>2. Init => Versions
    BY DEF Init, Versions, Ordered, Created, Resetting
  <2> QED BY <2>1, <2>2 DEF VersionInv
<1>2. Inv /\ [Next]_vars => Inv' /\ [Step]_vars
  <2> SUFFICES ASSUME Inv, [Next]_vars PROVE Inv' /\ Step
    OBVIOUS
  <2>1. TypeInv' /\ Guarded'
    BY NextKeepsTypes, NextGuarded
  <2>2. VersionInv'
    BY <2>1, VersionStep, Restarts DEF VersionInv
  <2>3. Step
    <3>1. CASE Crash
      <4>1. UNCHANGED api
        BY <2>1, <3>1, Restarts
      <4>2. api # None => api.cur \in Nat /\ api.prev \in Nat
        BY ChainTypes, VersionTypes
      <4> QED BY <4>1, <4>2
    <3>2. CASE ~Crash
      <4>1. api # None => api.cur \in Nat /\ api.prev \in Nat
        BY ChainTypes, VersionTypes
      <4>2. api' # None => api'.cur \in Nat /\ api'.prev \in Nat
        BY <2>1, NextChainTypes, VersionTypes DEF Copy
      <4> QED BY <2>1, <3>2, <4>1, <4>2, VersionStep
              DEF VersionInv, NotTakenBack, Behind
    <3> QED BY <3>1, <3>2
  <2> QED BY <2>1, <2>2, <2>3
<1>3. Inv => VersionOrder
  BY ChainTypes DEF VersionInv, Versions, Ordered, VersionOrder, Objects
<1> QED
  BY <1>1, <1>2, <1>3, PTL DEF Spec, VersionsMonotone

\* Until the operator restarts, populateSiddhiApps and getEventType compare
\* versions that are in order on every copy of the object.
THEOREM VersionsInOrder == Spec => []VersionOrder
BY VersionFacts, PTL

\* Until the operator restarts, no status write of Reconcile, from however
\* old a copy, takes the versions of an object back.
THEOREM VersionsNotTakenBack == Spec => VersionsMonotone
BY VersionFacts, PTL
===========================================================================
