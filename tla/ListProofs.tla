----------------------------- MODULE ListProofs -----------------------------
(***************************************************************************)
(* SPContainer and the cluster.  The operator remembers in SPContainer the *)
(* application list it deployed last, and everything it later cleans up or *)
(* judges is taken from that list: NATSBeforeApps, NoOrphans and           *)
(* ClusterMatchesList say when the list can be trusted.                    *)
(***************************************************************************)
EXTENDS OrderProofs

---------------------------------------------------------------------------
(* The steps outside Reconcile.                                            *)

\* Neither the worker nor its memory of the list moves.
Elsewhere == UNCHANGED <<pc, sp, localVars, SPContainer>>

LEMMA OutsideReconcile ==
    ASSUME [Next]_vars
    PROVE  \/ Reconcile
           \/ Elsewhere
           \/ DeleteFunc
           \/ \E r \in Requests : Start(r)
           \/ Crash
<1>1. CASE Environment
  BY <1>1 DEF Environment, UserCreate, UserUpdate, UserDelete,
              UserWriteConfigMap, InstallNATS, AvailabilityChanges,
              CollectGarbage, workerVars, memoryVars, Elsewhere
<1>2. CASE Deliver \/ Resync \/ CMUpdateFunc \/ OwnedEvent
           \/ \E r \in Requests : TimerFires(r)
  BY <1>2 DEF Deliver, Resync, CMUpdateFunc, OwnedEvent, TimerFires,
              workerVars, memoryVars, Elsewhere
<1>3. CASE Predicates /\ ~DeleteFunc
  BY <1>3 DEF Predicates, UpdateFuncBump, UpdateFuncMark, UpdateFuncTimer,
              CreateFuncCurrent, CreateFuncPrevious, workerVars, memoryVars,
              Elsewhere
<1>4. CASE UNCHANGED vars
  BY <1>4 DEF vars, workerVars, memoryVars, Elsewhere
<1> QED BY <1>1, <1>2, <1>3, <1>4 DEF Next

\* Nothing takes the messaging system away.
LEMMA NATSStays ==
    ASSUME TypeInv, [Next]_vars
    PROVE  /\ nats = "cluster" => nats' = "cluster"
           /\ nats # "absent" => nats' # "absent"
<1>1. CASE UNCHANGED nats
  BY <1>1
<1>2. CASE InstallNATS \/ CreateMessagingSystem
  BY <1>2 DEF InstallNATS, CreateMessagingSystem
<1>3. CASE Environment /\ ~InstallNATS
  BY <1>3 DEF Environment, UserCreate, UserUpdate, UserDelete,
              UserWriteConfigMap, AvailabilityChanges, CollectGarbage,
              clusterVars, artifactVars
<1>4. CASE \/ Deliver \/ Resync \/ Predicates \/ CMUpdateFunc \/ OwnedEvent
           \/ \E r \in Requests : TimerFires(r) \/ Start(r)
           \/ Crash
  BY <1>4 DEF Deliver, Resync, Predicates, UpdateFuncBump, UpdateFuncMark,
              UpdateFuncTimer, CreateFuncCurrent, CreateFuncPrevious,
              DeleteFunc, CMUpdateFunc, OwnedEvent, TimerFires, Start, Crash,
              clusterVars, artifactVars
<1>5. CASE Reconcile /\ ~CreateMessagingSystem
  BY <1>5 DEF Reconcile, CountAvailable, SetAvailabilityStatus,
              SetInitialState, UpgradeVersion, ReadApps, PopulateApps,
              ParseSucceeds, ParseFails, CleanArtifact, CleanFails, StoreApps,
              MessagingFails, UpdatePartialAppStatus, DeployApp,
              DeploySwallowed, DeployFails, EndDeploy, SyncVersion, ResetReady,
              CheckDeployment, CheckFails, EndPass, ContinueAfterError,
              ReturnAfterError, Return, clusterVars, artifactVars
<1>6. CASE UNCHANGED vars
  BY <1>6 DEF vars, clusterVars, artifactVars
<1> QED BY <1>1, <1>2, <1>3, <1>4, <1>5, <1>6 DEF Next

---------------------------------------------------------------------------
(* The messaging system is there before the applications that need it.     *)

NATSInv ==
    /\ pc \in {"partial", "deploy", "deployError"} /\ NATSRequired
           => nats = "cluster"
    /\ NATSBeforeApps

\* The steps that lead to the deployments keep the spec and the list.
LEMMA TowardsDeployment ==
    ASSUME TypeInv, [Next]_vars, pc' \in {"partial", "deploy", "deployError"}
    PROVE  \/ CreateMessagingSystem
           \/ /\ pc \in {"partial", "deploy", "deployError"}
              /\ sp \in Object /\ sp'.spec = sp.spec /\ sp'.uid = sp.uid
              /\ apps' = apps
<1>1. CASE Elsewhere
  <2>1. sp \in Object
    BY <1>1, WorkerHolds DEF Elsewhere
  <2> QED BY <1>1, <2>1 DEF Elsewhere, localVars
<1>2. CASE DeleteFunc
  <2>1. UNCHANGED <<pc, sp, apps>>
    BY <1>2 DEF DeleteFunc, workerVars, localVars
  <2> QED BY <2>1, WorkerHolds
<1>3. CASE Crash \/ \E r \in Requests : Start(r)
  BY <1>3 DEF Crash, Forget, Start, workerVars
<1>4. CASE Reconcile
  <2>1. CASE UpdatePartialAppStatus
    <3>1. sp \in Object
      BY <2>1, WorkerHolds DEF UpdatePartialAppStatus
    <3>2. sp' = [sp EXCEPT !.partial = apps] /\ UNCHANGED apps /\ pc = "partial"
      BY <2>1 DEF UpdatePartialAppStatus, StatusUpdate
    <3> QED BY <3>1, <3>2 DEF Object
  <2>2. CASE DeployApp \/ DeploySwallowed \/ DeployFails
    <3>1. pc = "deploy" /\ UNCHANGED <<sp, apps>>
      BY <2>2 DEF DeployApp, DeploySwallowed, DeployFails, StatusUpdate,
                  NoStatusUpdate, localVars
    <3> QED BY <3>1, WorkerHolds
  <2>3. CASE ContinueAfterError
    <3>1. sp \in Object
      BY <2>3, WorkerHolds DEF ContinueAfterError
    <3>2. /\ sp' = [sp EXCEPT !.status = "Error"] /\ UNCHANGED apps
          /\ pc = "deployError"
      BY <2>3 DEF ContinueAfterError, StatusUpdate, WithStatus, Goto
    <3> QED BY <3>1, <3>2 DEF Object
  <2>4. CASE CreateMessagingSystem
    BY <2>4
  <2>5. CASE \/ CountAvailable \/ SetAvailabilityStatus
             \/ SetInitialState \/ UpgradeVersion \/ ReadApps
             \/ PopulateApps \/ ParseSucceeds \/ ParseFails
             \/ CleanArtifact \/ CleanFails \/ StoreApps
             \/ MessagingFails \/ EndDeploy
             \/ SyncVersion \/ ResetReady
             \/ CheckDeployment \/ CheckFails \/ EndPass
             \/ ReturnAfterError
    BY <2>5 DEF CountAvailable, SetAvailabilityStatus, SetInitialState,
                UpgradeVersion, ReadApps, PopulateApps, ParseSucceeds,
                ParseFails, CleanArtifact, CleanFails, StoreApps,
                MessagingFails, EndDeploy, SyncVersion, ResetReady,
                CheckDeployment, CheckFails, EndPass, ReturnAfterError, Goto,
                Return, Forget
  <2> QED BY <1>4, <2>1, <2>2, <2>3, <2>4, <2>5 DEF Reconcile
<1> QED BY <1>1, <1>2, <1>3, <1>4, OutsideReconcile

LEMMA NATSStep ==
    ASSUME TypeInv, NATSInv, [Next]_vars
    PROVE  NATSInv'
<1>0. dep \in [Slot -> Deployment \cup {None}] /\ None \notin Deployment
  BY DeploymentTypes
<1>1. (pc \in {"partial", "deploy", "deployError"} /\ NATSRequired)'
          => nats' = "cluster"
  <2> SUFFICES ASSUME pc' \in {"partial", "deploy", "deployError"},
                      NATSRequired'
               PROVE  nats' = "cluster"
    OBVIOUS
  <2>1. CASE CreateMessagingSystem
    <3>1. UNCHANGED <<sp, apps>> /\ pc' \in {"partial", "failRetry"}
      BY <2>1 DEF CreateMessagingSystem, NoStatusUpdate, localVars, Goto
    <3>2. NATSRequired
      BY <3>1 DEF NATSRequired, persistenceEnabled
    <3> QED BY <2>1, <3>1, <3>2 DEF CreateMessagingSystem, Goto
  <2>2. CASE /\ pc \in {"partial", "deploy", "deployError"}
             /\ sp'.spec = sp.spec /\ apps' = apps
    <3>1. NATSRequired
      BY <2>2 DEF NATSRequired, persistenceEnabled
    <3> QED BY <2>2, <3>1, NATSStays DEF NATSInv
  <2> QED BY <2>1, <2>2, TowardsDeployment
<1>2. NATSBeforeApps'
  <2> SUFFICES ASSUME NEW i \in 1 .. MaxApps, dep'[i] # None,
                      NeedsNATS(dep'[i].spec), Stateful(Parse(dep'[i].src)) # {}
               PROVE  nats' = "cluster"
    BY DEF NATSBeforeApps
  <2>0. i \in Slot
    BY BoundsAssumption DEF Slot
  <2>1. CASE /\ dep[i] # None
             /\ dep'[i].spec = dep[i].spec /\ dep'[i].src = dep[i].src
    BY <2>1, NATSStays DEF NATSInv, NATSBeforeApps
  <2>2. CASE UNCHANGED dep \/ Removed \/ Scaled
    <3>1. /\ dep[i] # None
          /\ dep'[i].spec = dep[i].spec /\ dep'[i].src = dep[i].src
      BY <1>0, <2>0, <2>2 DEF Removed, Scaled
    <3> QED BY <2>1, <3>1
  <2>3. CASE Applied
    <3>1. PICK j \in Slot, d \in Deployment :
              /\ dep' = [dep EXCEPT ![j] = d] /\ d.spec = sp.spec
              /\ \/ j = 0
                 \/ pc = "deploy" /\ apps \in Source /\ d.src = apps
      BY <2>3 DEF Applied
    <3>2. CASE j # i
      BY <1>0, <2>0, <2>1, <3>1, <3>2
    <3>3. CASE j = i
      <4>1. dep'[i] = d /\ pc = "deploy" /\ d.src = apps
        BY <1>0, <2>0, <3>1, <3>3
      <4>2. NATSRequired
        BY <3>1, <4>1 DEF NATSRequired, persistenceEnabled, Stateful
      <4> QED BY <4>1, <4>2, NATSStays DEF NATSInv
    <3> QED BY <3>2, <3>3
  <2> QED BY <2>2, <2>3, DeploymentKinds
<1> QED BY <1>1, <1>2 DEF NATSInv

\* With any parser, through updates, deletions, failures and restarts, a
\* stateful application that relies on the automatic messaging system has
\* its NATS cluster before its deployment exists.
THEOREM MessagingFirst == Spec => []NATSBeforeApps
<1>1. Init => TypeInv /\ NATSInv
  <2>1. Init => NATSInv
    BY BoundsAssumption DEF Init, NATSInv, NATSBeforeApps
  <2> QED BY <2>1, InitTypes
<1>2. TypeInv /\ NATSInv /\ [Next]_vars => (TypeInv /\ NATSInv)'
  BY NextKeepsTypes, NATSStep
<1>3. NATSInv => NATSBeforeApps
  BY DEF NATSInv
<1> QED BY <1>1, <1>2, <1>3, PTL DEF Spec

---------------------------------------------------------------------------
(* Incarnations.                                                           *)

\* The object of the API server has this uid.
Lives(u) == api # None /\ api.uid = u

Same(o) == o # None /\ Lives(o.uid)
Owned(i) == dep[i] # None /\ Lives(dep[i].uid)

Known(o) == o # None => o.uid <= count["creates"]

CopiesKnown ==
    /\ Known(sp) /\ Known(cache) /\ Known(api)
    /\ \A k \in 1 .. Len(watch) : Known(watch[k])

UidInv == CopiesKnown /\ \A i \in Slot : Known(dep[i])

\* No incarnation comes back.
LEMMA LivesBefore ==
    ASSUME TypeInv, ChainStep, NEW u \in Nat, u <= count["creates"], Lives(u)'
    PROVE  Lives(u)
<1>1. api \in Copy /\ None \notin Object /\ count["creates"] \in Nat
  BY ChainTypes, CounterTypes
<1> QED
  BY <1>1 DEF ChainStep, Steady, Reads, Delivers, Loses, Stores, Lives

LEMMA UidKept ==
    ASSUME TypeInv, TypeInv', Guarded, UidInv, [Next]_vars
    PROVE  UidInv'
<1> USE ChainTypes, NextChainTypes, CounterTypes
<1>0. ChainStep /\ count'["creates"] \in {count["creates"], count["creates"] + 1}
  BY ChainSteps DEF ChainStep
<1>1. ASSUME NEW o \in Copy, Known(o) PROVE o # None => o.uid <= count'["creates"]
  BY <1>0, <1>1 DEF Known
<1>2. ASSUME NEW x \in Copy, Stores(x), Known(x)' PROVE CopiesKnown'
  <2>1. /\ Len(watch') = Len(watch) + 1
        /\ \A k \in 1 .. Len(watch) : watch'[k] = watch[k]
        /\ watch'[Len(watch) + 1] = x
    BY <1>2, Appended DEF Stores
  <2>2. ASSUME NEW k \in 1 .. Len(watch') PROVE Known(watch[k])'
    <3>1. CASE k = Len(watch) + 1
      BY <1>2, <2>1, <3>1 DEF Known
    <3>2. CASE k # Len(watch) + 1
      <4>1. k \in 1 .. Len(watch) /\ watch'[k] = watch[k]
        BY <2>1, <3>2
      <4> QED BY <1>1, <4>1 DEF UidInv, CopiesKnown, Known
    <3> QED BY <3>1, <3>2
  <2>3. Known(sp)'
    BY <1>1, <1>2, LikeGen DEF Stores, Keeps, UidInv, CopiesKnown, Known
  <2> QED
    BY <1>1, <1>2, <2>2, <2>3 DEF Stores, UidInv, CopiesKnown, Known
<1>3. CopiesKnown'
  <2>1. CASE Steady \/ Reads
    BY <1>1, <2>1, LikeGen
       DEF Steady, Reads, Keeps, UidInv, CopiesKnown, Known
  <2>2. CASE Loses
    BY <1>1, <2>2 DEF Loses, UidInv, CopiesKnown, Known
  <2>3. CASE Delivers
    <3>1. /\ cache' = watch[1] /\ Len(watch) \in Nat \ {0}
          /\ Len(watch') = Len(watch) - 1
          /\ \A k \in 1 .. Len(watch') :
                 watch'[k] = watch[k + 1] /\ k + 1 \in 1 .. Len(watch)
      BY <2>3, Shortened DEF Delivers
    <3> QED BY <1>1, <2>3, <3>1 DEF Delivers, UidInv, CopiesKnown, Known
  <2>4. ASSUME NEW x \in Copy, Stores(x),
               \/ x = None
               \/ x \in Object /\ api \in Object /\ x.uid = api.uid
               \/ x \in Object /\ x.uid = count'["creates"]
        PROVE  CopiesKnown'
    <3>1. Known(x)'
      BY <1>0, <1>1, <2>4 DEF Known, UidInv, CopiesKnown
    <3> QED BY <1>2, <2>4, <3>1
  <2> QED BY <1>0, <2>1, <2>2, <2>3, <2>4 DEF ChainStep
<1>4. ASSUME NEW i \in Slot PROVE Known(dep[i])'
  <2>1. \A j \in Slot : dep[j] # None => dep[j].uid <= count'["creates"]
    BY <1>0, DeploymentTypes DEF UidInv, Known
  <2>2. CASE UNCHANGED dep \/ Removed \/ Scaled
    BY <2>1, <2>2, DeploymentTypes DEF Removed, Scaled, Known
  <2>3. CASE Applied
    <3>1. sp \in Object /\ sp # None /\ sp.uid <= count'["creates"]
      BY <1>1, <2>3 DEF Applied, UidInv, CopiesKnown, Copy
    <3> QED BY <2>1, <2>3, <3>1, DeploymentTypes DEF Applied, Known
  <2> QED BY <2>2, <2>3, DeploymentKinds
<1> QED BY <1>3, <1>4 DEF UidInv

LEMMA OwnedBefore ==
    ASSUME TypeInv, Guarded, UidInv, [Next]_vars, NEW i \in Slot, Owned(i)'
    PROVE  \/ Owned(i)
           \/ /\ Same(sp)
              /\ \/ i = 0
                 \/ /\ pc = "deploy" /\ i = idx /\ apps \in Source
                    /\ i \in 1 .. Len(Parse(apps))
<1>0. ChainStep
  BY ChainSteps
<1>1. ASSUME dep[i] # None, dep'[i] # None, dep'[i].uid = dep[i].uid
      PROVE  Owned(i)
  <2>1. dep[i].uid \in Nat /\ dep[i].uid <= count["creates"]
    BY <1>1, DeploymentTypes DEF UidInv, Known
  <2>2. \A u \in Nat : u <= count["creates"] /\ Lives(u)' => Lives(u)
    BY <1>0, LivesBefore
  <2>3. PICK u \in Nat : u = dep[i].uid
    BY <2>1
  <2>4. Lives(u)'
    BY <1>1, <2>3 DEF Owned, Lives
  <2> QED BY <1>1, <2>1, <2>2, <2>3, <2>4 DEF Owned, Lives
<1>2. CASE UNCHANGED dep \/ Removed \/ Scaled
  <2>1. dep[i] # None /\ dep'[i] # None /\ dep'[i].uid = dep[i].uid
    BY <1>2, DeploymentTypes DEF Owned, Removed, Scaled
  <2> QED BY <1>1, <2>1
<1>3. CASE Applied
  <2>1. PICK j \in Slot, d \in Deployment :
            /\ dep' = [dep EXCEPT ![j] = d]
            /\ d.uid = IF dep[j] = None THEN sp.uid ELSE dep[j].uid
            /\ \/ j = 0
               \/ /\ pc = "deploy" /\ j = idx /\ apps \in Source
                  /\ j \in 1 .. Len(Parse(apps))
    BY <1>3 DEF Applied
  <2>2. CASE j # i \/ dep[i] # None
    <3>1. dep[i] # None /\ dep'[i] # None /\ dep'[i].uid = dep[i].uid
      BY <2>1, <2>2, DeploymentTypes DEF Owned
    <3> QED BY <1>1, <3>1
  <2>3. CASE j = i /\ dep[i] = None
    <3>1. PICK u \in Nat : u = sp.uid /\ u <= count["creates"]
      BY <1>3, ChainTypes DEF Applied, UidInv, CopiesKnown, Known
    <3>2. Lives(u)'
      BY <2>1, <2>3, <3>1, DeploymentTypes DEF Owned, Lives
    <3>3. Lives(u)
      BY <1>0, <3>1, <3>2, LivesBefore
    <3>4. Same(sp)
      BY <1>3, <3>1, <3>3, NoneAssumption DEF Applied, Same
    <3> QED BY <2>1, <2>3, <3>4
  <2> QED BY <2>2, <2>3
<1> QED BY <1>2, <1>3, DeploymentKinds

LEMMA SameBefore ==
    ASSUME TypeInv, TypeInv', Guarded, UidInv, [Next]_vars, Same(sp)'
    PROVE  Same(sp) \/ (Reads /\ Same(cache))
<1> USE ChainTypes, NextChainTypes
<1>0. ChainStep
  BY ChainSteps
<1>1. PICK u \in Nat : u = sp'.uid /\ Lives(u)'
  BY DEF Same, Lives
<1>2. sp' # None
  BY DEF Same
<1>3. CASE Reads
  <2>1. cache \in Object /\ u = cache.uid /\ u <= count["creates"]
    BY <1>1, <1>3 DEF Reads, UidInv, CopiesKnown, Known
  <2> QED BY <1>0, <1>1, <1>3, <2>1, LivesBefore DEF Same
<1>4. CASE ~Reads
  <2>1. sp # None /\ sp.uid = u /\ u <= count["creates"]
    <3>1. Like(sp, sp') \/ sp' = None
      BY <1>0, <1>4
         DEF ChainStep, Steady, Delivers, Loses, Stores, Keeps, Like
    <3> QED BY <1>1, <1>2, <3>1, LikeGen DEF UidInv, CopiesKnown, Known
  <2> QED BY <1>0, <1>1, <2>1, LivesBefore DEF Same
<1> QED BY <1>3, <1>4

---------------------------------------------------------------------------
(* Deletions on their way.                                                 *)

Deleted == \E k \in 1 .. Len(watch) : watch[k] = None
Deleting == \E k \in 1 .. Len(notif) : notif[k] = "del"

\* A deletion is ahead of every copy that is current, and behind none.
DelInv ==
    /\ Deleted \/ Deleting => count["deletes"] # 0
    /\ \A k \in 1 .. Len(watch) : watch[k] = None =>
           /\ ~Same(sp) /\ ~Same(cache) /\ \A i \in Slot : ~Owned(i)
           /\ \A j \in 1 .. k : ~Same(watch[j])
    /\ RaceFree /\ Deleting => ~Same(sp) /\ \A i \in Slot : ~Owned(i)

LEMMA DeletingBefore ==
    ASSUME TypeInv, [Next]_vars, Deleting'
    PROVE  Deleting \/ (Deliver /\ Head(watch) = None)
<1>0. notif \in Seq(Calls) /\ Len(notif) \in Nat
  BY DEF TypeInv, TypeOK, InformerTypes
<1>1. CASE UNCHANGED notif
  BY <1>1 DEF Deleting
<1>2. CASE Deliver
  <2>1. PICK c \in Calls : /\ notif' = Append(notif, c)
                           /\ c = "del" => Head(watch) = None
    BY <1>2 DEF Deliver, Calls
  <2>2. /\ Len(notif') = Len(notif) + 1 /\ notif'[Len(notif) + 1] = c
        /\ \A k \in 1 .. Len(notif) : notif'[k] = notif[k]
    BY <1>0, <2>1, Appended
  <2>3. PICK k \in 1 .. Len(notif') : notif'[k] = "del"
    BY DEF Deleting
  <2>4. k \in 1 .. Len(notif) \/ k = Len(notif) + 1
    BY <1>0, <2>2, <2>3
  <2> QED BY <1>2, <2>1, <2>2, <2>3, <2>4 DEF Deleting
<1>3. CASE Resync
  <2>1. notif' = <<"same">>
    BY <1>3 DEF Resync
  <2> QED BY <2>1 DEF Deleting
<1>4. CASE Predicates
  <2>1. /\ notif # <<>>
        /\ \/ notif' = Tail(notif)
           \/ \E c \in {"mark", "reset"} : notif' = <<c>> \o Tail(notif)
    BY <1>4 DEF Predicates, UpdateFuncBump, UpdateFuncMark, UpdateFuncTimer,
                CreateFuncCurrent, CreateFuncPrevious, DeleteFunc
  <2>2. /\ Tail(notif) \in Seq(Calls) /\ Len(Tail(notif)) = Len(notif) - 1
        /\ \A k \in 1 .. Len(Tail(notif)) :
               Tail(notif)[k] = notif[k + 1] /\ k + 1 \in 1 .. Len(notif)
    BY <1>0, <2>1, Shortened
  <2>3. PICK k \in 1 .. Len(notif') : notif'[k] = "del"
    BY DEF Deleting
  <2>4. CASE notif' = Tail(notif)
    BY <2>2, <2>3, <2>4 DEF Deleting
  <2>5. ASSUME NEW c \in {"mark", "reset"}, notif' = <<c>> \o Tail(notif)
        PROVE  Deleting
    <3> DEFINE t == Tail(notif)
    <3>0. c \in Calls /\ c # "del"
      BY DEF Calls
    <3>1. /\ Len(notif') = Len(t) + 1 /\ notif'[1] = c
          /\ \A n \in 2 .. Len(notif') : notif'[n] = t[n - 1]
      <4>1. t \in Seq(Calls) /\ notif' = <<c>> \o t
        BY <2>2, <2>5
      <4> HIDE DEF t
      <4> QED BY <3>0, <4>1
    <3>2. k # 1 /\ k - 1 \in 1 .. Len(t) /\ t[k - 1] = "del"
      BY <2>2, <2>3, <3>0, <3>1
    <3> QED BY <2>2, <3>2 DEF Deleting
  <2> QED BY <2>1, <2>4, <2>5
<1>5. CASE Crash
  <2>1. notif' = <<>>
    BY <1>5 DEF Crash
  <2> QED BY <2>1 DEF Deleting
<1>6. CASE WorkerMoves \/ UserMoves \/ \E r \in Requests : Start(r)
  <2>1. UNCHANGED notif
    BY <1>6 DEF WorkerMoves, NothingMoves, WorkerEnds, WorkerWrites, UserMoves,
                UserCreate, UserUpdate, UserDelete, Start, informerVars
  <2> QED BY <1>1, <2>1
<1> QED BY <1>2, <1>3, <1>4, <1>5, <1>6, Kinds DEF InformerMoves

LEMMA DeletesCounted ==
    ASSUME TypeInv, TypeInv', [Next]_vars,
           Deleted \/ Deleting => count["deletes"] # 0, Deleted' \/ Deleting'
    PROVE  count'["deletes"] # 0
<1> USE ChainTypes, NextChainTypes, CounterTypes
<1>0. /\ count["deletes"] # 0 => count'["deletes"] # 0
      /\ UserDelete => count'["deletes"] # 0
  BY UserLedger, Kinds DEF UserMoves, Ledger
<1>1. CASE Deleting'
  <2>1. Deleting \/ (watch # <<>> /\ Head(watch) = None)
    BY <1>1, DeletingBefore DEF Deliver
  <2>2. watch # <<>> => Head(watch) = watch[1] /\ 1 \in 1 .. Len(watch)
    BY Shortened
  <2> QED BY <1>0, <2>1, <2>2 DEF Deleted
<1>2. ASSUME Deleted' PROVE Deleted \/ UserDelete
  <2>1. CASE UNCHANGED watch
    BY <1>2, <2>1 DEF Deleted
  <2>2. ASSUME NEW x \in Object, watch' = Append(watch, x) PROVE Deleted
    <3>1. /\ Len(watch') = Len(watch) + 1 /\ watch'[Len(watch) + 1] = x
          /\ \A k \in 1 .. Len(watch) : watch'[k] = watch[k]
      BY <2>2, Appended DEF Copy
    <3>2. PICK k \in 1 .. Len(watch') : watch'[k] = None
      BY <1>2 DEF Deleted
    <3>3. k \in 1 .. Len(watch)
      BY <3>1, <3>2
    <3> QED BY <3>1, <3>2, <3>3 DEF Deleted
  <2>3. CASE Deliver
    <3>1. /\ Len(watch) \in Nat \ {0} /\ Len(watch') = Len(watch) - 1
          /\ \A k \in 1 .. Len(watch') :
                 watch'[k] = watch[k + 1] /\ k + 1 \in 1 .. Len(watch)
      BY <2>3, Shortened DEF Deliver
    <3> QED BY <1>2, <3>1 DEF Deleted
  <2>4. CASE WorkerMoves
    <3>1. UNCHANGED watch \/ \E x \in Object : watch' = Append(watch, x)
      BY <2>4 DEF WorkerMoves, NothingMoves, WorkerEnds, WorkerWrites, Descends
    <3> QED BY <2>1, <2>2, <3>1
  <2>5. CASE InformerMoves /\ ~Deliver
    BY <2>1, <2>5 DEF InformerMoves, Resync, Predicates, UpdateFuncBump,
                      UpdateFuncMark, UpdateFuncTimer, CreateFuncCurrent,
                      CreateFuncPrevious, DeleteFunc, Start, serverVars
  <2>6. CASE UserMoves
    <3>1. ASSUME NEW s \in Specs, UserCreate(s) \/ UserUpdate(s) PROVE Deleted
      <4>1. watch' = Append(watch, api') /\ api' # None
        <5>1. CASE UserCreate(s)
          <6>1. count["creates"] + 1 \in Nat /\ Written + 1 \in Nat
            OBVIOUS
          <6>2. api' \in Object
            BY <5>1, <6>1 DEF UserCreate, Object, Statuses, EventTypes
          <6> QED BY <5>1, <6>2 DEF UserCreate
        <5>2. CASE UserUpdate(s)
          <6>1. api \in Object /\ Written + 1 \in Nat
            BY <5>2 DEF UserUpdate
          <6>2. api' \in Object
            BY <5>2, <6>1, ObjectUpdate DEF UserUpdate
          <6> QED BY <5>2, <6>2 DEF UserUpdate
        <5> QED BY <3>1, <5>1, <5>2
      <4> QED BY <2>2, <4>1 DEF Copy
    <3> QED BY <2>6, <3>1 DEF UserMoves
  <2>7. CASE Crash
    BY <1>2, <2>7 DEF Crash, Deleted
  <2> QED BY <2>3, <2>4, <2>5, <2>6, <2>7, Kinds
<1> QED BY <1>0, <1>1, <1>2

LEMMA DelKept ==
    ASSUME TypeInv, TypeInv', Guarded, UidInv, DelInv, [Next]_vars
    PROVE  DelInv'
<1> USE ChainTypes, NextChainTypes, CounterTypes
<1>0. ChainStep
  BY ChainSteps
<1>1. (Deleted \/ Deleting => count["deletes"] # 0)'
  BY DeletesCounted DEF DelInv
<1>2. ASSUME ~Same(sp), ~Same(cache) \/ ~Reads, \A i \in Slot : ~Owned(i)
      PROVE  (~Same(sp) /\ \A i \in Slot : ~Owned(i))'
  BY <1>2, SameBefore, OwnedBefore
<1>3. (RaceFree /\ Deleting => ~Same(sp) /\ \A i \in Slot : ~Owned(i))'
  <2> SUFFICES ASSUME RaceFree, Deleting'
               PROVE  (~Same(sp) /\ \A i \in Slot : ~Owned(i))'
    OBVIOUS
  <2>1. CASE Deleting
    <3>1. ~Reads
      BY <2>1 DEF Reads, Deleting
    <3> QED BY <1>2, <2>1, <3>1 DEF DelInv
  <2>2. CASE watch # <<>> /\ Head(watch) = None
    <3>1. 1 \in 1 .. Len(watch) /\ watch[1] = None
      BY <2>2, Shortened
    <3> QED BY <1>2, <3>1 DEF DelInv
  <2> QED BY <2>1, <2>2, DeletingBefore DEF Deliver
<1>4. ASSUME NEW k \in 1 .. Len(watch'), watch'[k] = None
      PROVE  /\ (~Same(sp) /\ ~Same(cache) /\ \A i \in Slot : ~Owned(i))'
             /\ \A j \in 1 .. k : (~Same(watch[j]))'
  <2>1. CASE api' = None
    BY <2>1 DEF Same, Owned, Lives
  <2>2. CASE api' # None
    <3>1. \A o \in Copy : Known(o) /\ ~Same(o) =>
              ~(o # None /\ api' # None /\ api'.uid = o.uid)
      <4>1. \A u \in Nat : u <= count["creates"] /\ Lives(u)' => Lives(u)
        BY <1>0, LivesBefore
      <4> QED BY <4>1 DEF Known, Same, Lives
    <3>2. ASSUME NEW n \in 1 .. Len(watch), watch[n] = None
          PROVE  (~Same(sp) /\ \A i \in Slot : ~Owned(i))'
      BY <1>2, <3>2 DEF DelInv
    <3>3. CASE Steady \/ Reads
      <4>1. /\ watch' = watch /\ Like(cache, cache')
            /\ k \in 1 .. Len(watch) /\ watch[k] = None
        BY <1>4, <3>3 DEF Steady, Reads, Like
      <4>2. ~Same(cache)'
        BY <3>1, <4>1, LikeGen
           DEF DelInv, UidInv, CopiesKnown, Same, Lives
      <4>3. ASSUME NEW j \in 1 .. k PROVE (~Same(watch[j]))'
        <5>1. j \in 1 .. Len(watch) /\ ~Same(watch[j]) /\ Known(watch[j])
          BY <4>1 DEF DelInv, UidInv, CopiesKnown
        <5> QED BY <3>1, <4>1, <5>1 DEF Same, Lives
      <4> QED BY <3>2, <4>1, <4>2, <4>3
    <3>4. CASE Delivers
      <4>1. /\ cache' = watch[1] /\ Len(watch) \in Nat \ {0}
            /\ Len(watch') = Len(watch) - 1
            /\ \A n \in 1 .. Len(watch') : watch'[n] = watch[n + 1]
        BY <3>4, Shortened DEF Delivers
      <4>2. k + 1 \in 1 .. Len(watch) /\ watch[k + 1] = None
        BY <1>4, <4>1
      <4>3. ASSUME NEW n \in 1 .. k + 1
            PROVE  /\ n \in 1 .. Len(watch)
                   /\ ~Same(watch[n]) /\ Known(watch[n])
        BY <4>2 DEF DelInv, UidInv, CopiesKnown
      <4>4. ~Same(cache)'
        <5>1. 1 \in 1 .. k + 1
          BY <4>1
        <5> QED BY <3>1, <4>1, <4>3, <5>1 DEF Same, Lives
      <4>5. ASSUME NEW j \in 1 .. k PROVE (~Same(watch[j]))'
        <5>1. j \in 1 .. Len(watch') /\ j + 1 \in 1 .. k + 1
          BY <4>1
        <5>2. watch'[j] = watch[j + 1]
          BY <4>1, <5>1
        <5> QED BY <3>1, <4>3, <5>1, <5>2 DEF Same, Lives
      <4> QED BY <3>2, <4>2, <4>4, <4>5
    <3>5. CASE Loses
      BY <1>4, <2>2, <3>5 DEF Loses
    <3>6. ASSUME NEW x \in Copy, Stores(x)
          PROVE  /\ (~Same(sp) /\ ~Same(cache) /\ \A i \in Slot : ~Owned(i))'
                 /\ \A j \in 1 .. k : (~Same(watch[j]))'
      <4>1. /\ Len(watch') = Len(watch) + 1 /\ watch'[Len(watch) + 1] = x
            /\ \A n \in 1 .. Len(watch) : watch'[n] = watch[n]
            /\ x # None /\ cache' = cache
        BY <2>2, <3>6, Appended DEF Stores
      <4>2. k \in 1 .. Len(watch) /\ watch[k] = None
        BY <1>4, <4>1
      <4>3. ~Same(cache)'
        BY <3>1, <4>1, <4>2 DEF DelInv, UidInv, CopiesKnown, Same, Lives
      <4>4. ASSUME NEW j \in 1 .. k PROVE (~Same(watch[j]))'
        <5>1. /\ j \in 1 .. Len(watch) /\ watch'[j] = watch[j]
              /\ ~Same(watch[j]) /\ Known(watch[j])
          BY <4>1, <4>2 DEF DelInv, UidInv, CopiesKnown
        <5> QED BY <3>1, <5>1 DEF Same, Lives
      <4> QED BY <3>2, <4>2, <4>3, <4>4
    <3> QED BY <1>0, <3>3, <3>4, <3>5, <3>6 DEF ChainStep
  <2> QED BY <2>1, <2>2
<1> QED BY <1>1, <1>3, <1>4 DEF DelInv

---------------------------------------------------------------------------
(* How the worker gets to the steps the list depends on.                   *)

LEMMA Arrivals ==
    ASSUME [Next]_vars, ~Elsewhere, ~DeleteFunc
    PROVE  /\ pc' = "parsing" => PopulateApps
           /\ pc' = "clean" => ParseSucceeds \/ CleanArtifact
           /\ pc' = "messaging" =>
                  PopulateApps \/ ParseSucceeds \/ StoreApps
           /\ pc' = "partial" => CreateMessagingSystem
           /\ pc' = "deploy" => \/ UpdatePartialAppStatus \/ DeployApp
                                \/ DeploySwallowed \/ ContinueAfterError
           /\ pc' = "deployError" => DeployFails
<1>1. CASE Crash \/ \E r \in Requests : Start(r)
  <2>1. pc' \in {"idle", "timer", "state"}
    BY <1>1 DEF Crash, Forget, Start, workerVars
  <2> QED BY <2>1
<1>2. CASE \/ CountAvailable \/ SetAvailabilityStatus
           \/ SetInitialState \/ UpgradeVersion \/ ReadApps
           \/ ParseFails \/ CleanFails \/ MessagingFails \/ EndDeploy
           \/ SyncVersion \/ ResetReady
           \/ CheckDeployment \/ CheckFails \/ EndPass
           \/ ReturnAfterError
  <2>1. pc' \notin {"parsing", "clean", "messaging", "partial", "deploy",
                    "deployError"}
    BY <1>2 DEF CountAvailable, SetAvailabilityStatus, SetInitialState,
                UpgradeVersion, ReadApps, ParseFails, CleanFails,
                MessagingFails, EndDeploy, SyncVersion, ResetReady,
                CheckDeployment, CheckFails, EndPass, ReturnAfterError, Goto,
                Return, Forget
  <2> QED BY <2>1
<1>3. CASE \/ PopulateApps \/ ParseSucceeds \/ CleanArtifact \/ StoreApps
           \/ CreateMessagingSystem \/ UpdatePartialAppStatus
           \/ DeployApp \/ DeploySwallowed \/ DeployFails
           \/ ContinueAfterError
  <2>1. /\ PopulateApps => pc' \in {"parsing", "messaging"}
        /\ ParseSucceeds => pc' \in {"clean", "messaging"}
        /\ CleanArtifact => pc' = "clean"
        /\ StoreApps => pc' = "messaging"
        /\ CreateMessagingSystem => pc' \in {"partial", "failRetry"}
    BY DEF PopulateApps, ParseSucceeds, CleanArtifact, StoreApps,
           CreateMessagingSystem, Goto
  <2>2. /\ UpdatePartialAppStatus => pc' \in {"sync", "deploy"}
        /\ DeployApp \/ DeploySwallowed => pc' = "deploy"
        /\ DeployFails => pc' = "deployError"
        /\ ContinueAfterError => pc' \in {"check", "deploy"}
    BY DEF UpdatePartialAppStatus, DeployApp, DeploySwallowed, DeployFails,
           ContinueAfterError, Goto
  <2> QED BY <1>3, <2>1, <2>2
<1> QED BY <1>1, <1>2, <1>3, OutsideReconcile DEF Reconcile

LEMMA ContainerMoves ==
    ASSUME [Next]_vars, ~UNCHANGED SPContainer, ~Crash
    PROVE  \/ ParseSucceeds /\ ~modified /\ SPContainer' = apps
           \/ StoreApps
           \/ DeleteFunc
<1>1. CASE Elsewhere \/ \E r \in Requests : Start(r)
  BY <1>1 DEF Elsewhere, Start, memoryVars
<1>2. CASE ParseSucceeds
  BY <1>2 DEF ParseSucceeds
<1>3. CASE Reconcile /\ ~ParseSucceeds /\ ~StoreApps
  BY <1>3 DEF Reconcile, CountAvailable, SetAvailabilityStatus,
              SetInitialState, UpgradeVersion, ReadApps, PopulateApps,
              ParseFails, CleanArtifact, CleanFails, CreateMessagingSystem,
              MessagingFails, UpdatePartialAppStatus, DeployApp,
              DeploySwallowed, DeployFails, EndDeploy, SyncVersion, ResetReady,
              CheckDeployment, CheckFails, EndPass, ContinueAfterError,
              ReturnAfterError, memoryVars
<1> QED BY <1>1, <1>2, <1>3, OutsideReconcile

---------------------------------------------------------------------------
(* Nothing that the object owns is forgotten.                              *)

\* DeleteFunc empties SPContainer in the same order as the events arrive,
\* or never: a late one would empty the list of the next incarnation.
InOrder == RaceFree \/ count["deletes"] = 0

Listed(i) == SPContainer # None /\ i <= Len(Parse(SPContainer))

\* Owned, and not left behind by a deletion that was skipped.
Tracked(i) == Owned(i) /\ i \notin stray

\* Outside CleanArtifacts the list covers what is tracked; CleanArtifacts has
\* the rest before it; from then on the worker has the list it stored.
ListBody ==
    /\ \A i \in 1 .. MaxApps : Tracked(i) => Listed(i)
    /\ pc = "parsing" /\ ~modified => SPContainer = None
    /\ pc = "clean" => \A i \in 1 .. MaxApps :
           Tracked(i) => i <= Len(Parse(apps)) \/ i \in idx .. oldLen
    /\ pc \in {"messaging", "partial", "deploy", "deployError"} /\ Same(sp)
           => SPContainer = apps

ListInv == Uncrashed /\ InOrder => ListBody

\* A DeleteFunc that comes in order finds nothing owned and no current copy.
LEMMA DeleteInOrder ==
    ASSUME TypeInv, DelInv, InOrder, DeleteFunc
    PROVE  /\ UNCHANGED <<pc, sp, apps, idx, oldLen>> /\ SPContainer' = None
           /\ ~Same(sp) /\ ~Same(sp)' /\ count["deletes"] # 0
           /\ \A i \in Slot : ~Owned(i) /\ ~Owned(i)'
<1>1. notif \in Seq(Calls) /\ notif # <<>> /\ Head(notif) = "del"
  BY DEF DeleteFunc, TypeInv, TypeOK, InformerTypes
<1>2. Deleting
  <2>1. 1 \in 1 .. Len(notif) /\ notif[1] = "del"
    BY <1>1, Shortened
  <2> QED BY <2>1 DEF Deleting
<1>3. ~Same(sp) /\ count["deletes"] # 0 /\ \A i \in Slot : ~Owned(i)
  BY <1>2 DEF DelInv, InOrder
<1>4. /\ UNCHANGED <<pc, sp, apps, idx, oldLen, api, dep>>
      /\ SPContainer' = None
  BY DEF DeleteFunc, workerVars, localVars, serverVars, clusterVars,
         artifactVars
<1> QED BY <1>3, <1>4 DEF Same, Owned, Lives

\* A deployment stops being stray when it is deleted or listed again.
LEMMA StrayKept ==
    ASSUME TypeInv, [Next]_vars, NEW i \in 1 .. MaxApps, i \in stray,
           i \notin stray'
    PROVE  \/ dep'[i] = None
           \/ StoreApps /\ i \in DOMAIN Parse(apps)
<1>0. i \in Slot /\ i # 0 /\ dep \in [Slot -> Deployment \cup {None}]
  BY BoundsAssumption DEF TypeInv, TypeOK, ArtifactTypes, Slot
<1>1. CASE \/ \E j \in Slot : CollectGarbage(j)
           \/ ParseSucceeds \/ ParseFails \/ CleanArtifact \/ CleanFails
  BY <1>0, <1>1 DEF CollectGarbage, ParseSucceeds, ParseFails, CleanArtifact,
                    CleanFails, DeleteDeployment
<1>2. CASE StoreApps
  BY <1>2 DEF StoreApps
<1>3. CASE Environment /\ ~\E j \in Slot : CollectGarbage(j)
  BY <1>3 DEF Environment, UserCreate, UserUpdate, UserDelete,
              UserWriteConfigMap, InstallNATS, AvailabilityChanges,
              clusterVars, artifactVars, Slot
<1>4. CASE \/ Deliver \/ Resync \/ Predicates \/ CMUpdateFunc \/ OwnedEvent
           \/ \E q \in Requests : TimerFires(q) \/ Start(q)
           \/ Crash
  BY <1>4 DEF Deliver, Resync, Start, Predicates, UpdateFuncBump,
              UpdateFuncMark, UpdateFuncTimer, CreateFuncCurrent,
              CreateFuncPrevious, DeleteFunc, CMUpdateFunc, OwnedEvent,
              TimerFires, Crash, clusterVars, artifactVars
<1>5. CASE \/ CountAvailable \/ SetAvailabilityStatus \/ SetInitialState
           \/ UpgradeVersion \/ ReadApps \/ PopulateApps
           \/ CreateMessagingSystem \/ MessagingFails
           \/ UpdatePartialAppStatus \/ DeployApp \/ DeploySwallowed
           \/ DeployFails \/ EndDeploy
           \/ SyncVersion \/ ResetReady \/ CheckDeployment \/ CheckFails
           \/ EndPass \/ ContinueAfterError \/ ReturnAfterError
  BY <1>5 DEF CountAvailable, SetAvailabilityStatus, SetInitialState,
              UpgradeVersion, ReadApps, PopulateApps, CreateMessagingSystem,
              MessagingFails, UpdatePartialAppStatus, DeployApp,
              DeploySwallowed, DeployFails, EndDeploy, SyncVersion, ResetReady,
              CheckDeployment, CheckFails, EndPass, ContinueAfterError,
              ReturnAfterError, Return, clusterVars, artifactVars
<1>6. CASE UNCHANGED vars
  BY <1>6 DEF vars, clusterVars, artifactVars
<1> QED BY <1>1, <1>2, <1>3, <1>4, <1>5, <1>6 DEF Next, Reconcile

LEMMA TrackedBefore ==
    ASSUME TypeInv, Guarded, UidInv, [Next]_vars, NEW i \in 1 .. MaxApps,
           Tracked(i)'
    PROVE  \/ Tracked(i)
           \/ StoreApps /\ i \in DOMAIN Parse(apps)
           \/ /\ Same(sp) /\ pc = "deploy" /\ apps \in Source
              /\ i \in 1 .. Len(Parse(apps))
<1>1. i \in Slot /\ i # 0
  BY BoundsAssumption DEF Slot
<1>2. Owned(i)' /\ dep'[i] # None
  BY DEF Tracked, Owned
<1>3. Owned(i) \/ (/\ Same(sp) /\ pc = "deploy" /\ apps \in Source
                   /\ i \in 1 .. Len(Parse(apps)))
  BY <1>1, <1>2, OwnedBefore
<1>4. i \notin stray \/ (StoreApps /\ i \in DOMAIN Parse(apps))
  BY <1>2, StrayKept DEF Tracked
<1> QED BY <1>3, <1>4 DEF Tracked

LEMMA ListedKept ==
    ASSUME TypeInv, TypeInv', Guarded, UidInv, DelInv, InOrder, ListBody,
           [Next]_vars, ~Crash, NEW i \in 1 .. MaxApps, Tracked(i)'
    PROVE  Listed(i)'
<1>0. i \in Slot /\ i # 0
  BY BoundsAssumption DEF Slot
<1>1. \/ Tracked(i)
      \/ StoreApps /\ i \in DOMAIN Parse(apps)
      \/ /\ Same(sp) /\ pc = "deploy" /\ apps \in Source
         /\ i \in 1 .. Len(Parse(apps))
  BY TrackedBefore
<1>2. CASE UNCHANGED SPContainer /\ ~StoreApps
  <2>1. Listed(i)
    BY <1>1, <1>2, NoneAssumption, ParseType DEF ListBody, Listed
  <2> QED BY <1>2, <2>1 DEF Listed
<1>3. CASE ParseSucceeds /\ ~modified /\ SPContainer' = apps
  <2>1. pc = "parsing"
    BY <1>3 DEF ParseSucceeds
  <2>2. Tracked(i) /\ SPContainer = None
    BY <1>1, <1>3, <2>1 DEF ListBody, StoreApps
  <2> QED BY <2>2 DEF ListBody, Listed
<1>4. CASE StoreApps
  <2>1. /\ pc = "clean" /\ idx > oldLen /\ SPContainer' = apps
        /\ idx \in Nat /\ oldLen \in Nat /\ apps \in Source
    BY <1>4, WorkerHolds, StepFacts, BoundsAssumption
       DEF StoreApps, TypeInv, TypeOK, LocalTypes
  <2>2. DOMAIN Parse(apps) = 1 .. Len(Parse(apps))
    BY <2>1, ParseType
  <2>3. i <= Len(Parse(apps))
    BY <1>1, <2>1, <2>2 DEF ListBody
  <2> QED BY <2>1, <2>3, NoneAssumption DEF Listed
<1>5. CASE DeleteFunc
  BY <1>0, <1>5, DeleteInOrder DEF Tracked
<1> QED BY <1>2, <1>3, <1>4, <1>5, ContainerMoves

LEMMA ListStep ==
    ASSUME TypeInv, TypeInv', Guarded, UidInv, DelInv, InOrder, ListBody,
           [Next]_vars, ~Crash
    PROVE  ListBody'
<1>1. ASSUME NEW i \in 1 .. MaxApps, Tracked(i)' PROVE Listed(i)'
  BY <1>1, ListedKept
<1>2. ASSUME pc' = "parsing", ~modified' PROVE SPContainer' = None
  <2>1. CASE PopulateApps
    <3>1. UNCHANGED <<sp, SPContainer>> /\ (modified \/ SPContainer = None)
      BY <1>2, <2>1 DEF PopulateApps, NoStatusUpdate, memoryVars, Goto
    <3> QED BY <1>2, <3>1 DEF modified
  <2>2. CASE Elsewhere
    BY <1>2, <2>2 DEF Elsewhere, ListBody, modified
  <2>3. CASE DeleteFunc
    BY <2>3 DEF DeleteFunc
  <2> QED BY <1>2, <2>1, <2>2, <2>3, Arrivals
<1>3. ASSUME pc' = "clean", NEW i \in 1 .. MaxApps, Tracked(i)'
      PROVE  i <= Len(Parse(apps')) \/ i \in idx' .. oldLen'
  <2>0. /\ i \in Slot /\ i # 0
        /\ pc = "clean" => Tracked(i)
    <3>1. ~StoreApps
      BY <1>3 DEF StoreApps, Goto
    <3> QED BY <1>3, <3>1, TrackedBefore, BoundsAssumption DEF Slot
  <2>1. CASE ParseSucceeds
    <3>1. /\ pc = "parsing" /\ apps' = apps /\ idx' = Len(Parse(apps)) + 1
          /\ UNCHANGED SPContainer
          /\ oldLen' = IF SPContainer = None THEN 0 ELSE Len(Parse(SPContainer))
      BY <1>3, <2>1 DEF ParseSucceeds, Goto, FirstToClean
    <3>2. i <= oldLen'
      BY <1>1, <1>3, <3>1 DEF Listed
    <3>3. apps \in Source /\ Len(Parse(apps)) \in Nat
      BY <3>1, WorkerHolds, StepFacts, ParseType
    <3>4. oldLen' \in Nat
      BY BoundsAssumption DEF TypeInv, TypeOK, LocalTypes
    <3> QED BY <3>1, <3>2, <3>3, <3>4
  <2>2. CASE CleanArtifact
    <3>1. /\ pc = "clean" /\ UNCHANGED <<apps, oldLen>> /\ idx' = idx + 1
          /\ dep' = [dep EXCEPT ![idx] = None] \/ idx \in stray'
          /\ idx \in Nat /\ oldLen \in Nat
      BY <2>2, BoundsAssumption
         DEF CleanArtifact, DeleteDeployment, TypeInv, TypeOK, LocalTypes
    <3>2. i # idx
      BY <1>3, <2>0, <3>1, DeploymentTypes DEF Tracked, Owned
    <3> QED BY <2>0, <3>1, <3>2 DEF ListBody
  <2>3. CASE Elsewhere
    <3>1. UNCHANGED <<pc, apps, idx, oldLen>>
      BY <2>3 DEF Elsewhere, localVars
    <3> QED BY <1>3, <2>0, <3>1 DEF ListBody
  <2>4. CASE DeleteFunc
    BY <1>3, <2>0, <2>4, DeleteInOrder DEF Tracked
  <2> QED BY <1>3, <2>1, <2>2, <2>3, <2>4, Arrivals
<1>4. ASSUME pc' \in {"messaging", "partial", "deploy", "deployError"}, Same(sp)'
      PROVE  SPContainer' = apps'
  <2>1. ASSUME sp \in Object, sp'.uid = sp.uid PROVE Same(sp)
    <3>1. PICK u \in Nat : u = sp.uid /\ u <= count["creates"] /\ Lives(u)'
      BY <1>4, <2>1, ChainTypes
         DEF UidInv, CopiesKnown, Known, Same, Lives
    <3>2. Lives(u)
      BY <3>1, LivesBefore, ChainSteps
    <3> QED BY <2>1, <3>1, <3>2, NoneAssumption DEF Same
  <2>2. CASE DeleteFunc
    BY <1>4, <2>2, DeleteInOrder
  <2>3. CASE pc' = "messaging" /\ (PopulateApps \/ ParseSucceeds \/ StoreApps)
    BY <2>3 DEF PopulateApps, ParseSucceeds, StoreApps, Goto, memoryVars,
                localVars
  <2>4. CASE Elsewhere
    <3>1. UNCHANGED <<pc, sp, apps, SPContainer>>
      BY <2>4 DEF Elsewhere, localVars
    <3>2. sp \in Object
      BY <1>4, <3>1, WorkerHolds
    <3> QED BY <1>4, <2>1, <3>1, <3>2 DEF ListBody
  <2>5. CASE CreateMessagingSystem
    <3>1. UNCHANGED <<sp, apps, SPContainer>> /\ pc = "messaging"
      BY <2>5 DEF CreateMessagingSystem, NoStatusUpdate, localVars, memoryVars
    <3>2. sp \in Object
      BY <3>1, WorkerHolds
    <3> QED BY <2>1, <3>1, <3>2 DEF ListBody
  <2>6. CASE /\ \/ UpdatePartialAppStatus \/ DeployApp \/ DeploySwallowed
                \/ DeployFails \/ ContinueAfterError
             /\ pc' \in {"deploy", "deployError"}
    <3>1. UNCHANGED SPContainer
      BY <2>6 DEF UpdatePartialAppStatus, DeployApp, DeploySwallowed,
                  DeployFails, ContinueAfterError, memoryVars
    <3>2. CASE CreateMessagingSystem
      BY <2>5, <3>2
    <3>3. CASE /\ pc \in {"partial", "deploy", "deployError"}
               /\ sp \in Object /\ sp'.uid = sp.uid /\ apps' = apps
      BY <2>1, <3>1, <3>3 DEF ListBody
    <3> QED BY <2>6, <3>2, <3>3, TowardsDeployment
  <2> QED BY <1>4, <2>2, <2>3, <2>4, <2>5, <2>6, Arrivals
<1> QED BY <1>1, <1>2, <1>3, <1>4 DEF ListBody

LEMMA DeletesBefore ==
    ASSUME TypeInv, [Next]_vars, count'["deletes"] = 0
    PROVE  count["deletes"] = 0
BY UserLedger, CounterTypes, Kinds DEF UserMoves, Ledger

OwnInv == TypeInv /\ Guarded /\ UidInv /\ DelInv

LEMMA InitOwn == Init => OwnInv
<1> SUFFICES ASSUME Init PROVE OwnInv
  OBVIOUS
<1>1. TypeInv /\ Guarded
  BY InitTypes DEF Init, Guarded, PipelineInv, FreshCopy
<1>2. UidInv
  BY DEF Init, UidInv, CopiesKnown, Known, Slot
<1>3. DelInv
  BY DEF Init, DelInv, Deleted, Deleting, Same, Owned, Lives
<1> QED BY <1>1, <1>2, <1>3 DEF OwnInv

LEMMA NextOwn ==
    ASSUME OwnInv, [Next]_vars
    PROVE  OwnInv'
BY NextKeepsTypes, NextGuarded, UidKept, DelKept DEF OwnInv

\* Until the operator restarts, CleanArtifacts can reach every deployment
\* that the object owns and whose deletion DeleteDeployment has not skipped,
\* because SPContainer lists it: whenever the object is never deleted, and
\* with deletions if the predicates run before the worker reads the object.
\* (A DeleteFunc that runs late empties the list of the object created
\* after.)
THEOREM OwnedIsListed ==
    Spec => []((RaceFree \/ count["deletes"] = 0) => NoOrphans)
<1>1. Init => OwnInv /\ ListInv
  <2>1. Init => ListBody
    BY DEF Init, ListBody, Tracked, Owned, Same
  <2> QED BY <2>1, InitOwn DEF ListInv
<1>2. OwnInv /\ ListInv /\ [Next]_vars => (OwnInv /\ ListInv)'
  <2> SUFFICES ASSUME OwnInv, ListInv, [Next]_vars PROVE OwnInv' /\ ListInv'
    OBVIOUS
  <2>1. OwnInv' /\ TypeInv'
    BY NextOwn DEF OwnInv
  <2>2. ASSUME Uncrashed', InOrder' PROVE ListBody'
    <3>1. Uncrashed /\ ~Crash /\ InOrder
      BY <2>1, <2>2, Restarts, DeletesBefore DEF OwnInv, InOrder
    <3> QED BY <2>1, <3>1, ListStep DEF OwnInv, ListInv
  <2> QED BY <2>1, <2>2 DEF ListInv
<1>3. OwnInv /\ ListInv
          => ((RaceFree \/ count["deletes"] = 0) => NoOrphans)
  BY DEF ListInv, ListBody, InOrder, NoOrphans, Tracked, Owned, Lives, Listed
<1> QED BY <1>1, <1>2, <1>3, PTL DEF Spec

---------------------------------------------------------------------------
(* The cluster runs what is listed.                                        *)

LEMMA FaultsCounted ==
    ASSUME TypeInv, [Next]_vars, count'["api"] = 0
    PROVE  /\ count["api"] = 0
           /\ ~CleanFails /\ ~MessagingFails /\ ~DeploySwallowed
           /\ ~DeployFails /\ ~CheckFails
<1>0. count \in [Counters -> Nat] /\ "api" \in Counters /\ "parser" \in Counters
      /\ count["api"] \in Nat
  BY DEF TypeInv, TypeOK, Counters
<1>1. ASSUME NEW max, Spend("api", max) PROVE FALSE
  <2>1. count'["api"] = count["api"] + 1
    BY <1>0, <1>1 DEF Spend
  <2> QED BY <1>0, <2>1
<1>2. ASSUME NEW c \in Counters, NEW max, Spend(c, max) PROVE count["api"] = 0
  BY <1>0, <1>1, <1>2 DEF Spend
<1>3. ~CleanFails /\ ~MessagingFails /\ ~DeploySwallowed
      /\ ~DeployFails /\ ~CheckFails
  BY <1>1 DEF CleanFails, MessagingFails, DeploySwallowed, DeployFails,
              CheckFails
<1>4. UNCHANGED count \/ \E c \in Counters : \E max : Spend(c, max)
  <2>0. Counters = {"creates", "updates", "deletes", "crashes", "api", "parser",
                    "avail"}
    BY DEF Counters
  <2>1. CASE Environment
    BY <2>0, <2>1 DEF Environment, UserCreate, UserUpdate, UserDelete,
                UserWriteConfigMap, InstallNATS, AvailabilityChanges,
                CollectGarbage
  <2>2. CASE \/ Deliver \/ Resync \/ Predicates \/ CMUpdateFunc \/ OwnedEvent
             \/ \E r \in Requests : TimerFires(r) \/ Start(r)
    BY <2>2 DEF Deliver, Resync, Predicates, UpdateFuncBump, UpdateFuncMark,
                UpdateFuncTimer, CreateFuncCurrent, CreateFuncPrevious,
                DeleteFunc, CMUpdateFunc, OwnedEvent, TimerFires, Start
  <2>3. CASE \/ PopulateApps \/ ParseSucceeds \/ StoreApps
             \/ CreateMessagingSystem \/ EndDeploy \/ CheckDeployment
             \/ EndPass \/ UNCHANGED vars
    BY <2>3 DEF PopulateApps, ParseSucceeds, StoreApps, CreateMessagingSystem,
                EndDeploy, CheckDeployment, EndPass, NoStatusUpdate, vars
  <2>4. CASE Crash \/ ParseFails
    BY <2>0, <2>4 DEF Crash, ParseFails
  <2>5. \A obj : StatusUpdate(obj) \/ Put(obj) =>
            UNCHANGED count \/ \E max : Spend("api", max)
    BY DEF StatusUpdate, Put
  <2>6. CASE \/ CountAvailable \/ SetAvailabilityStatus
             \/ SetInitialState \/ UpgradeVersion \/ ReadApps
             \/ CleanArtifact \/ UpdatePartialAppStatus \/ DeployApp
             \/ SyncVersion \/ ResetReady
             \/ ContinueAfterError \/ ReturnAfterError
    <3>1. UNCHANGED count \/ \E obj : StatusUpdate(obj) \/ Put(obj)
      BY <2>6 DEF CountAvailable, SetAvailabilityStatus, SetInitialState,
                  UpgradeVersion, ReadApps, CleanArtifact,
                  UpdatePartialAppStatus, DeployApp, SyncVersion, ResetReady,
                  ContinueAfterError, ReturnAfterError, NoStatusUpdate
    <3> QED BY <2>0, <2>5, <3>1
  <2> QED BY <1>3, <2>1, <2>2, <2>3, <2>4, <2>6 DEF Next, Reconcile
<1> QED BY <1>2, <1>3, <1>4

LEMMA SourceKept ==
    ASSUME TypeInv, [Next]_vars, NEW i \in 1 .. MaxApps, dep'[i] # None
    PROVE  \/ dep[i] # None /\ dep'[i].src = dep[i].src
           \/ /\ pc = "deploy" /\ i = idx /\ apps \in Source
              /\ i \in 1 .. Len(Parse(apps)) /\ dep'[i].src = apps
<1>0. i \in Slot /\ i # 0
  BY BoundsAssumption DEF Slot
<1>1. CASE UNCHANGED dep \/ Removed \/ Scaled
  BY <1>0, <1>1, DeploymentTypes DEF Removed, Scaled
<1>2. CASE Applied
  BY <1>0, <1>2, DeploymentTypes DEF Applied
<1> QED BY <1>1, <1>2, DeploymentKinds

\* How the worker leaves the steps at which the list runs ahead.
LEMMA Departures ==
    ASSUME [Next]_vars, ~Elsewhere, ~DeleteFunc, ~Crash
    PROVE  /\ pc = "messaging" => CreateMessagingSystem \/ MessagingFails
           /\ pc = "partial" => UpdatePartialAppStatus
           /\ pc = "deploy" => \/ DeployApp \/ DeploySwallowed \/ DeployFails
                               \/ EndDeploy
<1>1. CASE \E r \in Requests : Start(r)
  BY <1>1 DEF Start
<1>2. CASE \/ CountAvailable \/ SetAvailabilityStatus
           \/ SetInitialState \/ UpgradeVersion \/ ReadApps
           \/ PopulateApps \/ ParseSucceeds \/ ParseFails
           \/ CleanArtifact \/ CleanFails \/ StoreApps
           \/ SyncVersion \/ ResetReady
           \/ CheckDeployment \/ CheckFails \/ EndPass
           \/ ContinueAfterError \/ ReturnAfterError
  <2>1. pc \notin {"messaging", "partial", "deploy"}
    BY <1>2 DEF CountAvailable, SetAvailabilityStatus, SetInitialState,
                UpgradeVersion, ReadApps, PopulateApps, ParseSucceeds,
                ParseFails, CleanArtifact, CleanFails, StoreApps, SyncVersion,
                ResetReady, CheckDeployment, CheckFails, EndPass,
                ContinueAfterError, ReturnAfterError
  <2> QED BY <2>1
<1>3. CASE \/ CreateMessagingSystem \/ MessagingFails \/ UpdatePartialAppStatus
           \/ DeployApp \/ DeploySwallowed \/ DeployFails \/ EndDeploy
  BY <1>3 DEF CreateMessagingSystem, MessagingFails, UpdatePartialAppStatus,
              DeployApp, DeploySwallowed, DeployFails, EndDeploy
<1> QED BY <1>1, <1>2, <1>3, OutsideReconcile DEF Reconcile

\* Neither the operator nor the object has come back, and no call failed.
Quiet == Uncrashed /\ count["deletes"] = 0 /\ count["api"] = 0

Matches(i) == dep[i] # None => dep[i].src = SPContainer

\* The list runs ahead of the cluster from StoreApps to the end of the loop
\* of CreateArtifacts, and that loop runs whenever the list has changed.
MatchBody ==
    /\ pc # "deployError"
    /\ SPContainer = None => \A i \in 1 .. MaxApps : dep[i] = None
    /\ pc \notin {"messaging", "partial", "deploy"} /\ SPContainer # None
           => \A i \in 1 .. Len(Parse(SPContainer)) : Matches(i)
    /\ pc = "clean" => modified
    /\ pc = "parsing" /\ ~modified => SPContainer = None
    /\ pc \in {"messaging", "partial"} =>
           /\ SPContainer = apps
           /\ modified \/ \A i \in 1 .. Len(Parse(apps)) : Matches(i)
    /\ pc = "deploy" =>
           /\ SPContainer = apps
           /\ \A i \in 1 .. Len(Parse(apps)) : i < idx => Matches(i)

MatchInv == nats # "absent" /\ (Quiet => MatchBody)

LEMMA MatchStep ==
    ASSUME TypeInv, TypeInv', nats # "absent", MatchBody, [Next]_vars,
           ~Crash, ~DeleteFunc, ~CleanFails, ~MessagingFails,
           ~DeploySwallowed, ~DeployFails, ~CheckFails
    PROVE  MatchBody'
<1>0. /\ \A src \in Source : Len(Parse(src)) \in Nat /\ Len(Parse(src)) <= MaxApps
      /\ pc \in StepsWithApps => apps \in Source /\ apps # None
      /\ SPContainer \in Source \cup {None} /\ None \notin Source
      /\ SPContainer' \in Source \cup {None} /\ MaxApps \in Nat
  BY WorkerHolds, ParseType, NoneAssumption, BoundsAssumption
     DEF TypeInv, TypeOK, MemoryTypes
<1>1. ASSUME NEW i \in 1 .. MaxApps, pc # "deploy" \/ i # idx,
             UNCHANGED SPContainer, Matches(i)
      PROVE  Matches(i)'
  BY <1>1, SourceKept DEF Matches
<1>2. \/ UNCHANGED SPContainer
      \/ /\ ParseSucceeds \/ StoreApps
         /\ pc' = "messaging" /\ SPContainer' = apps /\ UNCHANGED <<apps, sp>>
         /\ pc \in StepsWithApps
  <2>1. ASSUME ParseSucceeds /\ ~modified
        PROVE  /\ pc' = "messaging" /\ SPContainer' = apps
               /\ UNCHANGED <<apps, sp>> /\ pc = "parsing"
    BY <2>1 DEF ParseSucceeds, Goto, NoStatusUpdate
  <2>2. ASSUME StoreApps
        PROVE  /\ pc' = "messaging" /\ SPContainer' = apps
               /\ UNCHANGED <<apps, sp>> /\ pc = "clean"
    BY <2>2 DEF StoreApps, Goto, NoStatusUpdate, localVars
  <2> QED BY <2>1, <2>2, ContainerMoves, StepFacts
<1>3. pc' # "deployError"
  BY Arrivals DEF Elsewhere, MatchBody
<1>4. ASSUME SPContainer' = None, NEW i \in 1 .. MaxApps PROVE dep'[i] = None
  <2>1. SPContainer = None
    BY <1>0, <1>2, <1>4
  <2> QED BY <1>0, <2>1, SourceKept, StepFacts DEF MatchBody
<1>5. ASSUME pc' \notin {"messaging", "partial", "deploy"}, SPContainer' # None,
             NEW i \in 1 .. Len(Parse(SPContainer'))
      PROVE  Matches(i)'
  <2>0. UNCHANGED SPContainer /\ SPContainer \in Source /\ i \in 1 .. MaxApps
    BY <1>0, <1>2, <1>5
  <2>1. CASE pc \notin {"messaging", "partial", "deploy"}
    BY <1>1, <1>5, <2>0, <2>1 DEF MatchBody
  <2>2. CASE pc = "messaging"
    <3>1. ~Elsewhere /\ CreateMessagingSystem
      BY <1>5, <2>2, Departures DEF Elsewhere
    <3> QED BY <1>5, <3>1 DEF CreateMessagingSystem, Goto
  <2>3. CASE pc = "partial"
    <3>1. UpdatePartialAppStatus
      BY <1>5, <2>3, Departures DEF Elsewhere
    <3>2. ~modified
      <4>1. EventType(sp) = "none"
        BY <1>5, <3>1 DEF UpdatePartialAppStatus, Goto
      <4> QED BY <4>1 DEF EventType, modified
    <3> QED BY <1>1, <2>0, <2>3, <3>2 DEF MatchBody
  <2>4. CASE pc = "deploy"
    <3>1. EndDeploy
      <4>1. DeployApp \/ EndDeploy
        BY <1>5, <2>4, Departures DEF Elsewhere
      <4> QED BY <1>5, <4>1 DEF DeployApp, Goto
    <3>2. idx > Len(Parse(apps)) /\ SPContainer = apps /\ idx \in Nat
      BY <2>4, <3>1 DEF EndDeploy, MatchBody, TypeInv, TypeOK, LocalTypes
    <3>3. i < idx /\ i # idx
      BY <1>0, <2>0, <3>2
    <3> QED BY <1>1, <2>0, <2>4, <3>2, <3>3 DEF MatchBody
  <2> QED BY <2>1, <2>2, <2>3, <2>4
<1>6. ASSUME pc' = "clean" PROVE modified'
  <2>1. CASE Elsewhere
    BY <1>6, <2>1 DEF Elsewhere, MatchBody, modified
  <2>2. CASE ParseSucceeds
    <3>1. modified /\ UNCHANGED sp
      BY <1>6, <2>2 DEF ParseSucceeds, Goto, NoStatusUpdate
    <3> QED BY <3>1 DEF modified
  <2>3. CASE CleanArtifact
    <3>1. pc = "clean" /\ UNCHANGED sp
      BY <2>3 DEF CleanArtifact, StatusUpdate
    <3> QED BY <3>1 DEF MatchBody, modified
  <2> QED BY <1>6, <2>1, <2>2, <2>3, Arrivals
<1>7. ASSUME pc' = "parsing", ~modified' PROVE SPContainer' = None
  <2>1. CASE PopulateApps
    <3>1. UNCHANGED <<sp, SPContainer>> /\ (modified \/ SPContainer = None)
      BY <1>7, <2>1 DEF PopulateApps, NoStatusUpdate, memoryVars, Goto
    <3> QED BY <1>7, <3>1 DEF modified
  <2>2. CASE Elsewhere
    BY <1>7, <2>2 DEF Elsewhere, MatchBody, modified
  <2> QED BY <1>7, <2>1, <2>2, Arrivals
<1>8. ASSUME pc' \in {"messaging", "partial"}
      PROVE  /\ SPContainer' = apps'
             /\ modified' \/ \A i \in 1 .. Len(Parse(apps')) : Matches(i)'
  <2>1. CASE Elsewhere \/ CreateMessagingSystem
    <3>1. /\ UNCHANGED <<sp, apps, SPContainer>>
          /\ pc \in {"messaging", "partial"} /\ pc \in StepsWithApps
      BY <1>8, <2>1, StepFacts
         DEF Elsewhere, localVars, CreateMessagingSystem, NoStatusUpdate,
             memoryVars
    <3>2. \A i \in 1 .. Len(Parse(apps)) : i \in 1 .. MaxApps
      BY <1>0, <3>1
    <3> QED BY <1>1, <3>1, <3>2 DEF MatchBody, modified
  <2>2. CASE PopulateApps
    <3>1. /\ pc = "parse" /\ ~modified /\ SPContainer # None
          /\ apps' = SPContainer /\ UNCHANGED SPContainer
      BY <1>8, <2>2 DEF PopulateApps, Goto, memoryVars
    <3>2. \A i \in 1 .. Len(Parse(SPContainer)) : i \in 1 .. MaxApps
      BY <1>0, <3>1
    <3> QED BY <1>1, <3>1, <3>2 DEF MatchBody
  <2>3. CASE ParseSucceeds
    <3>1. /\ pc = "parsing" /\ ~modified /\ SPContainer' = apps
          /\ UNCHANGED apps /\ apps \in Source
      BY <1>0, <1>8, <2>3, StepFacts DEF ParseSucceeds, Goto
    <3>2. \A i \in 1 .. MaxApps : dep[i] = None
      BY <3>1 DEF MatchBody
    <3>3. \A i \in 1 .. MaxApps : dep'[i] = None
      BY <3>1, <3>2, SourceKept
    <3>4. \A i \in 1 .. Len(Parse(apps)) : i \in 1 .. MaxApps
      BY <1>0, <3>1
    <3> QED BY <3>1, <3>3, <3>4 DEF Matches
  <2>4. CASE StoreApps
    <3>1. /\ pc = "clean" /\ SPContainer' = apps /\ UNCHANGED <<apps, sp>>
      BY <2>4 DEF StoreApps, Goto, NoStatusUpdate, localVars
    <3> QED BY <3>1 DEF MatchBody, modified
  <2> QED BY <1>8, <2>1, <2>2, <2>3, <2>4, Arrivals
<1>9. ASSUME pc' = "deploy"
      PROVE  /\ SPContainer' = apps'
             /\ \A i \in 1 .. Len(Parse(apps')) : i < idx' => Matches(i)'
  <2>0. UNCHANGED SPContainer
    BY <1>2, <1>9
  <2>1. CASE Elsewhere
    <3>1. UNCHANGED <<pc, apps, idx>> /\ apps \in Source /\ idx \in Nat
      BY <1>0, <1>9, <2>1, StepFacts
         DEF Elsewhere, localVars, TypeInv, TypeOK, LocalTypes
    <3>2. \A i \in 1 .. Len(Parse(apps)) :
              i \in 1 .. MaxApps /\ (i < idx => i # idx)
      BY <1>0, <3>1
    <3> QED BY <1>1, <1>9, <2>0, <3>1, <3>2 DEF MatchBody
  <2>2. CASE UpdatePartialAppStatus
    <3>1. pc = "partial" /\ UNCHANGED apps /\ idx' = 1 /\ apps \in Source
      BY <1>0, <2>2, StepFacts DEF UpdatePartialAppStatus
    <3>2. \A i \in 1 .. Len(Parse(apps)) : ~(i < 1)
      BY <1>0, <3>1
    <3> QED BY <2>0, <3>1, <3>2 DEF MatchBody
  <2>3. CASE DeployApp
    <3>1. /\ pc = "deploy" /\ UNCHANGED apps /\ idx' = idx + 1
          /\ SPContainer = apps /\ apps \in Source /\ idx \in Nat
      BY <1>0, <2>3, StepFacts
         DEF DeployApp, MatchBody, TypeInv, TypeOK, LocalTypes
    <3>2. ASSUME NEW i \in 1 .. Len(Parse(apps)), i < idx' PROVE Matches(i)'
      <4>1. i \in 1 .. MaxApps /\ (i = idx \/ i < idx)
        BY <1>0, <3>1, <3>2
      <4>2. CASE i # idx
        BY <1>1, <2>0, <3>1, <4>1, <4>2 DEF MatchBody
      <4>3. CASE i = idx
        <5>1. dep' = [dep EXCEPT ![i] = DeploymentFor(i)]
          BY <2>3, <4>3 DEF DeployApp
        <5>2. i \in Slot /\ dep[i] \in Deployment \cup {None}
          BY <4>1, DeploymentTypes, BoundsAssumption DEF Slot
        <5>3. DeploymentFor(i).src = apps
          BY <5>2 DEF DeploymentFor, Deployment
        <5> QED BY <2>0, <3>1, <5>1, <5>2, <5>3, DeploymentTypes DEF Matches
      <4> QED BY <4>2, <4>3
    <3> QED BY <2>0, <3>1, <3>2
  <2>4. CASE ContinueAfterError
    BY <1>9, <2>4 DEF ContinueAfterError, Goto, MatchBody
  <2> QED BY <1>9, <2>1, <2>2, <2>3, <2>4, Arrivals
<1> QED BY <1>3, <1>4, <1>5, <1>6, <1>7, <1>8, <1>9 DEF MatchBody

LEMMA MatchNext ==
    ASSUME OwnInv, MatchInv, [Next]_vars
    PROVE  MatchInv'
<1>1. OwnInv' /\ TypeInv' /\ TypeInv /\ DelInv
  BY NextOwn DEF OwnInv
<1>2. nats # "absent" /\ nats' # "absent"
  BY <1>1, NATSStays DEF MatchInv
<1>3. ASSUME Quiet' PROVE MatchBody'
  <2>1. Uncrashed /\ ~Crash /\ count["deletes"] = 0
    BY <1>1, <1>3, Restarts, DeletesBefore DEF Quiet
  <2>2. /\ count["api"] = 0
        /\ ~CleanFails /\ ~MessagingFails /\ ~DeploySwallowed
        /\ ~DeployFails /\ ~CheckFails
    BY <1>1, <1>3, FaultsCounted DEF Quiet
  <2>3. ~DeleteFunc
    BY <1>1, <2>1, DeleteInOrder DEF InOrder
  <2>4. MatchBody
    BY <2>1, <2>2 DEF MatchInv, Quiet
  <2> QED BY <1>1, <1>2, <2>1, <2>2, <2>3, <2>4, MatchStep
<1> QED BY <1>2, <1>3 DEF MatchInv

\* Between two passes the deployments run what SPContainer lists, as long as
\* no API call failed and neither a restart nor a deletion emptied the list
\* while deployments stayed.  CreateMessagingSystem comes after the list is
\* stored and fails where no NATS operator is installed; such a pass leaves
\* the list ahead of the cluster, so an operator must be there from the start.
THEOREM ListIsDeployed ==
    ASSUME "absent" \notin InitialNATS
    PROVE  Spec => [](Uncrashed /\ count["deletes"] = 0 => ClusterMatchesList)
<1>1. Init => OwnInv /\ MatchInv
  <2> SUFFICES ASSUME Init PROVE MatchInv
    BY InitOwn
  <2>1. nats # "absent"
    BY DEF Init
  <2>2. MatchBody
    BY BoundsAssumption DEF Init, MatchBody
  <2> QED BY <2>1, <2>2 DEF MatchInv
<1>2. OwnInv /\ MatchInv /\ [Next]_vars => (OwnInv /\ MatchInv)'
  BY NextOwn, MatchNext
<1>3. OwnInv /\ MatchInv
          => (Uncrashed /\ count["deletes"] = 0 => ClusterMatchesList)
  <2> SUFFICES ASSUME OwnInv, MatchInv, Uncrashed, count["deletes"] = 0,
                      pc = "idle", SPContainer # None, count["api"] = 0
               PROVE  \A i \in DOMAIN Parse(SPContainer) :
                          dep[i] # None => dep[i].src = SPContainer
    BY DEF ClusterMatchesList
  <2>1. SPContainer \in Source
    BY DEF OwnInv, TypeInv, TypeOK, MemoryTypes
  <2> QED BY <2>1, ParseType DEF MatchInv, Quiet, MatchBody, Matches
<1> QED BY <1>1, <1>2, <1>3, PTL DEF Spec
===========================================================================
