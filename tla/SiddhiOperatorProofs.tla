----------------------- MODULE SiddhiOperatorProofs -----------------------
(***************************************************************************)
(* Theorems about SiddhiOperator for every set of specs, every parser and  *)
(* every bound.                                                            *)
(***************************************************************************)
EXTENDS SiddhiOperator, AvailabilityProofs, SequenceTheorems

TypeInv == TypeOK /\ WorkerInv

---------------------------------------------------------------------------
(* Types of the operators the actions are built from.                      *)

LEMMA SpendType ==
    ASSUME TypeOK, NEW c \in Counters, NEW max, Spend(c, max)
    PROVE  count' \in [Counters -> Nat]
BY DEF TypeOK, Spend

LEMMA CounterNames ==
    {"creates", "updates", "deletes", "crashes", "api", "parser", "avail"}
        = Counters
BY DEF Counters

LEMMA ParseType ==
    ASSUME NEW src \in Source
    PROVE  /\ Parse(src) \in Seq(Application)
           /\ Len(Parse(src)) \in 0 .. MaxApps
           /\ DOMAIN Parse(src) = 1 .. Len(Parse(src))
           /\ \A i \in 1 .. Len(Parse(src)) : Parse(src)[i] \in Application
BY ParseAssumption

LEMMA EventTypeType ==
    ASSUME NEW obj PROVE EventType(obj) \in Operations
BY DEF EventType, Operations

\* Assignments to one field of the object.
LEMMA ObjectUpdate ==
    ASSUME NEW o \in Object
    PROVE  /\ \A s \in Specs, g \in Nat :
                  [o EXCEPT !.spec = s, !.gen = g] \in Object
           /\ \A st \in Statuses : [o EXCEPT !.status = st] \in Object
           /\ \A p \in Nat \X Nat : [o EXCEPT !.ready = p] \in Object
           /\ [o EXCEPT !.cur = @ + 1] \in Object
           /\ [o EXCEPT !.cur = 0] \in Object
           /\ [o EXCEPT !.prev = 0] \in Object
           /\ [o EXCEPT !.prev = o.cur] \in Object
           /\ \A e \in EventTypes : [o EXCEPT !.ev = e] \in Object
           /\ \A p \in Source : [o EXCEPT !.partial = p] \in Object
<1>1. \A s \in Specs, g \in Nat : [o EXCEPT !.spec = s, !.gen = g] \in Object
  BY DEF Object
<1>2. /\ \A st \in Statuses : [o EXCEPT !.status = st] \in Object
      /\ \A e \in EventTypes : [o EXCEPT !.ev = e] \in Object
      /\ \A p \in Source : [o EXCEPT !.partial = p] \in Object
  BY DEF Object
<1>3. \A p \in Nat \X Nat : [o EXCEPT !.ready = p] \in Object
  BY DEF Object
<1>4. /\ [o EXCEPT !.cur = @ + 1] \in Object
      /\ [o EXCEPT !.cur = 0] \in Object
      /\ [o EXCEPT !.prev = 0] \in Object
      /\ [o EXCEPT !.prev = o.cur] \in Object
  BY DEF Object
<1> QED BY <1>1, <1>2, <1>3, <1>4

LEMMA DeploymentUpdate ==
    ASSUME NEW d \in Deployment
    PROVE  /\ \A n \in Nat : [d EXCEPT !.avail = n] \in Deployment
           /\ \A n \in Nat : [d EXCEPT !.replicas = n] \in Deployment
           /\ \A s \in Specs, g, v \in Nat :
                  [d EXCEPT !.spec = s, !.gen = g, !.ver = v] \in Deployment
           /\ \A a \in Source, s \in Specs, g, v \in Nat :
                  [d EXCEPT !.src = a, !.spec = s, !.gen = g, !.ver = v]
                      \in Deployment
BY DEF Deployment

LEMMA WithStatusType ==
    ASSUME TypeOK, sp # None, NEW st \in Statuses
    PROVE  WithStatus(st) \in Object
<1>1. sp \in Object
  BY DEF TypeOK, WorkerTypes
<1> QED BY <1>1, ObjectUpdate DEF WithStatus

LEMMA DeploymentForType ==
    ASSUME TypeOK, sp # None, apps # None, NEW i \in 1 .. Len(Parse(apps))
    PROVE  DeploymentFor(i) \in Deployment /\ i \in 0 .. MaxApps
<1>1. apps \in Source
  BY DEF TypeOK, LocalTypes
<1>2. i \in 0 .. MaxApps /\ Parse(apps)[i] \in Application
  BY <1>1, ParseType, BoundsAssumption
<1>3. dep[i] \in Deployment \cup {None}
  BY <1>2 DEF TypeOK, ArtifactTypes
<1>4. /\ sp.uid \in Nat /\ sp.gen \in Nat
      /\ sp.spec \in Specs /\ sp.cur \in Nat
  BY DEF TypeOK, WorkerTypes, Object
<1>5. CASE dep[i] = None
  BY <1>1, <1>2, <1>4, <1>5 DEF DeploymentFor, Deployment, Application
<1>6. CASE dep[i] # None
  BY <1>1, <1>2, <1>3, <1>4, <1>6, DeploymentUpdate DEF DeploymentFor
<1> QED BY <1>2, <1>5, <1>6

\* One deployment replaced or deleted.
LEMMA DepType ==
    ASSUME TypeOK, NEW i \in 0 .. MaxApps, NEW d \in Deployment \cup {None}
    PROVE  [dep EXCEPT ![i] = d] \in [0 .. MaxApps -> Deployment \cup {None}]
BY DEF TypeOK, ArtifactTypes

LEMMA PutType ==
    ASSUME TypeOK, NEW obj \in Object, Put(obj)
    PROVE  ServerTypes' /\ count' \in [Counters -> Nat]
<1>1. "api" \in Counters
  BY DEF Counters
<1>2. /\ api \in Object \cup {None}
      /\ watch \in Seq(Object \cup {None})
      /\ count \in [Counters -> Nat]
  BY DEF TypeOK, ServerTypes
<1>3. CASE api' = obj /\ watch' = Append(watch, obj) /\ UNCHANGED count
  BY <1>2, <1>3 DEF ServerTypes
<1>4. CASE UNCHANGED <<api, watch, count>>
  BY <1>2, <1>4 DEF ServerTypes
<1>5. CASE Spend("api", MaxAPIFaults) /\ UNCHANGED <<api, watch>>
  BY <1>1, <1>2, <1>5, SpendType DEF ServerTypes
<1> QED BY <1>3, <1>4, <1>5 DEF Put

LEMMA ForgetType ==
    ASSUME Forget
    PROVE  WorkerTypes' /\ LocalTypes' /\ pc' = "idle"
<1>1. pc' = "idle" /\ WorkerTypes'
  BY DEF Forget, WorkerTypes, Steps, Requests
<1>2. 0 \in Nat /\ 0 \in 0 .. MaxApps
  BY BoundsAssumption
<1>3. LocalTypes'
  BY <1>2 DEF Forget, LocalTypes, Operations, Verdicts
<1> QED BY <1>1, <1>3

LEMMA ReturnType ==
    ASSUME TypeOK, NEW retry \in SUBSET Requests, Return(retry)
    PROVE  /\ InformerTypes' /\ QueueTypes' /\ WorkerTypes' /\ LocalTypes'
           /\ ArtifactTypes' /\ ConfigMapTypes' /\ pc' = "idle"
<1>1. InformerTypes' /\ ArtifactTypes' /\ ConfigMapTypes'
  BY DEF TypeOK, Return, informerVars, clusterVars, artifactVars,
         InformerTypes, ArtifactTypes, ConfigMapTypes
<1>2. QueueTypes'
  BY DEF TypeOK, QueueTypes, Return
<1>3. WorkerTypes' /\ LocalTypes' /\ pc' = "idle"
  BY ForgetType DEF Return
<1> QED BY <1>1, <1>2, <1>3

LEMMA GotoType ==
    ASSUME TypeOK, NEW step \in Steps, Goto(step), sp' \in Object \cup {None}
    PROVE  InformerTypes' /\ QueueTypes' /\ WorkerTypes' /\ ConfigMapTypes'
<1>1. InformerTypes' /\ QueueTypes' /\ ConfigMapTypes'
  BY DEF TypeOK, Goto, informerVars, queueVars,
         InformerTypes, QueueTypes, ConfigMapTypes
<1>2. WorkerTypes'
  BY DEF TypeOK, Goto, WorkerTypes
<1> QED BY <1>1, <1>2

---------------------------------------------------------------------------
(* Every action keeps the types and what the worker relies on.             *)

\* What an action leaves alone keeps its type.
LEMMA Frame ==
    ASSUME TypeInv
    PROVE  /\ UNCHANGED serverVars => ServerTypes'
           /\ UNCHANGED informerVars => InformerTypes'
           /\ UNCHANGED queueVars => QueueTypes'
           /\ UNCHANGED <<pc, req, sp, fresh>> => WorkerTypes'
           /\ UNCHANGED localVars => LocalTypes'
           /\ UNCHANGED memoryVars => MemoryTypes'
           /\ UNCHANGED artifactVars => ArtifactTypes'
           /\ UNCHANGED <<cm, cmEvent>> => ConfigMapTypes'
           /\ UNCHANGED count => count' \in [Counters -> Nat]
           /\ UNCHANGED <<informerVars, pc, sp, apps, idx>> => WorkerInv'
<1>1. UNCHANGED serverVars => ServerTypes'
  BY DEF TypeInv, TypeOK, serverVars, ServerTypes
<1>2. UNCHANGED informerVars => InformerTypes'
  BY DEF TypeInv, TypeOK, informerVars, InformerTypes
<1>3. UNCHANGED queueVars => QueueTypes'
  BY DEF TypeInv, TypeOK, queueVars, QueueTypes
<1>4. UNCHANGED <<pc, req, sp, fresh>> => WorkerTypes'
  BY DEF TypeInv, TypeOK, WorkerTypes
<1>5. UNCHANGED localVars => LocalTypes'
  BY DEF TypeInv, TypeOK, localVars, LocalTypes
<1>6. UNCHANGED memoryVars => MemoryTypes'
  BY DEF TypeInv, TypeOK, memoryVars, MemoryTypes
<1>7. UNCHANGED artifactVars => ArtifactTypes'
  BY DEF TypeInv, TypeOK, artifactVars, ArtifactTypes
<1>8. UNCHANGED <<cm, cmEvent>> => ConfigMapTypes'
  BY DEF TypeInv, TypeOK, ConfigMapTypes
<1>9. UNCHANGED count => count' \in [Counters -> Nat]
  BY DEF TypeInv, TypeOK
<1>10. UNCHANGED <<informerVars, pc, sp, apps, idx>> => WorkerInv'
  BY DEF TypeInv, WorkerInv, informerVars
<1> QED
  BY <1>1, <1>2, <1>3, <1>4, <1>5, <1>6, <1>7, <1>8, <1>9, <1>10

LEMMA EnvironmentKeepsTypes ==
    ASSUME TypeInv, Environment
    PROVE  TypeInv'
<1>0. TypeOK
  BY DEF TypeInv
<1> USE Frame DEF workerVars, localVars, clusterVars
<1>1. ASSUME NEW s \in Specs, UserCreate(s) PROVE TypeInv'
  <2>1. count["creates"] + 1 \in Nat /\ Written + 1 \in Nat
    BY <1>0, CounterNames DEF TypeOK, Written
  <2>2. api' \in Object
    BY <1>1, <2>1 DEF UserCreate, Object, Statuses, EventTypes
  <2>3. ServerTypes'
    <3>1. watch \in Seq(Object \cup {None}) /\ watch' = Append(watch, api')
      BY <1>0, <1>1 DEF UserCreate, TypeOK, ServerTypes
    <3> QED BY <2>2, <3>1 DEF ServerTypes
  <2>4. count' \in [Counters -> Nat]
    BY <1>0, <1>1, CounterNames, SpendType DEF UserCreate
  <2> QED BY <1>1, <2>3, <2>4 DEF UserCreate, TypeInv, TypeOK
<1>2. ASSUME NEW s \in Specs, UserUpdate(s) PROVE TypeInv'
  <2>1. api \in Object /\ Written + 1 \in Nat
    BY <1>0, <1>2, CounterNames DEF UserUpdate, TypeOK, ServerTypes, Written
  <2>2. api' \in Object
    BY <1>2, <2>1, ObjectUpdate DEF UserUpdate
  <2>3. ServerTypes'
    BY <1>0, <1>2, <2>2 DEF UserUpdate, TypeOK, ServerTypes
  <2>4. count' \in [Counters -> Nat]
    BY <1>0, <1>2, CounterNames, SpendType DEF UserUpdate
  <2>5. WorkerTypes'
    BY <1>0, <1>2 DEF UserUpdate, TypeOK, WorkerTypes
  <2> QED BY <1>2, <2>3, <2>4, <2>5 DEF UserUpdate, TypeInv, TypeOK
<1>3. CASE UserDelete
  <2>1. ServerTypes'
    BY <1>0, <1>3 DEF UserDelete, TypeOK, ServerTypes
  <2>2. count' \in [Counters -> Nat]
    BY <1>0, <1>3, CounterNames, SpendType DEF UserDelete
  <2>3. WorkerTypes'
    BY <1>0, <1>3 DEF UserDelete, TypeOK, WorkerTypes
  <2> QED BY <1>3, <2>1, <2>2, <2>3 DEF UserDelete, TypeInv, TypeOK
<1>4. CASE UserWriteConfigMap
  <2>1. ConfigMapTypes'
    BY <1>0, <1>4, BoundsAssumption
       DEF UserWriteConfigMap, TypeOK, ConfigMapTypes
  <2> QED BY <1>4, <2>1 DEF UserWriteConfigMap, TypeInv, TypeOK, artifactVars
<1>5. CASE InstallNATS
  <2>1. ArtifactTypes'
    BY <1>0, <1>5 DEF InstallNATS, TypeOK, ArtifactTypes
  <2> QED BY <1>5, <2>1 DEF InstallNATS, TypeInv, TypeOK
<1>6. ASSUME NEW i \in 1 .. MaxApps, AvailabilityChanges(i) PROVE TypeInv'
  <2>1. i \in 0 .. MaxApps /\ Surge \in Nat
    BY BoundsAssumption
  <2>2. dep[i] \in Deployment
    BY <1>0, <1>6, <2>1 DEF AvailabilityChanges, TypeOK, ArtifactTypes
  <2>3. dep[i].replicas \in Nat
    BY <2>2 DEF Deployment
  <2>4. PICK n \in 0 .. dep[i].replicas + Surge :
            dep' = [dep EXCEPT ![i].avail = n]
    BY <1>6 DEF AvailabilityChanges
  <2>5. n \in Nat
    BY <2>1, <2>3
  <2>6. [dep[i] EXCEPT !.avail = n] \in Deployment
    BY <2>2, <2>5, DeploymentUpdate
  <2>7. ArtifactTypes'
    BY <1>0, <1>6, <2>1, <2>4, <2>6
       DEF AvailabilityChanges, TypeOK, ArtifactTypes
  <2>8. count' \in [Counters -> Nat]
    BY <1>0, <1>6, CounterNames, SpendType DEF AvailabilityChanges
  <2> QED BY <1>6, <2>7, <2>8 DEF AvailabilityChanges, TypeInv, TypeOK
<1>7. ASSUME NEW i \in 0 .. MaxApps, CollectGarbage(i) PROVE TypeInv'
  <2>1. ArtifactTypes'
    BY <1>0, <1>7, DepType DEF CollectGarbage, TypeOK, ArtifactTypes
  <2> QED BY <1>7, <2>1 DEF CollectGarbage, TypeInv, TypeOK
<1> QED BY <1>1, <1>2, <1>3, <1>4, <1>5, <1>6, <1>7 DEF Environment

---------------------------------------------------------------------------
\* The last predicate call that waits decides whether an object is cached.
Waiting(calls, obj) == (calls # <<>> /\ calls[Len(calls)] # "del") => obj # None

LEMMA CallsTail ==
    ASSUME NEW calls \in Seq(Calls), calls # <<>>, NEW c \in Calls, NEW obj
    PROVE  /\ Tail(calls) \in Seq(Calls) /\ Append(calls, c) \in Seq(Calls)
           /\ <<c>> \o Tail(calls) \in Seq(Calls)
           /\ Waiting(calls, obj) => Waiting(Tail(calls), obj)
           /\ (Waiting(calls, obj) /\ Head(calls) # "del")
                  => Waiting(<<c>> \o Tail(calls), obj)
<1> DEFINE t == Tail(calls)
           r == <<c>> \o t
<1>1. /\ t \in Seq(Calls) /\ Len(t) = Len(calls) - 1
      /\ \A k \in 1 .. Len(t) : t[k] = calls[k + 1]
  OBVIOUS
<1>2. /\ r \in Seq(Calls) /\ Len(r) = Len(calls)
      /\ \A k \in 2 .. Len(r) : r[k] = t[k - 1]
  BY <1>1
<1>3. Append(calls, c) \in Seq(Calls)
  OBVIOUS
<1>4. Waiting(calls, obj) => Waiting(t, obj)
  BY <1>1 DEF Waiting
<1>5. (Waiting(calls, obj) /\ Head(calls) # "del") => Waiting(r, obj)
  <2>1. CASE Len(calls) = 1
    BY <1>2, <2>1 DEF Waiting
  <2>2. CASE Len(calls) # 1
    BY <1>1, <1>2, <2>2 DEF Waiting
  <2> QED BY <2>1, <2>2
<1> QED BY <1>1, <1>2, <1>3, <1>4, <1>5

\* A predicate that runs on the cached object finds it there.
LEMMA PredicateFindsObject ==
    ASSUME TypeInv, notif # <<>>, Head(notif) # "del", Len(notif) = 1
    PROVE  cache \in Object
<1>1. notif \in Seq(Calls) /\ cache \in Object \cup {None}
  BY DEF TypeInv, TypeOK, InformerTypes
<1>2. cache # None
  BY <1>1 DEF TypeInv, WorkerInv
<1> QED BY <1>1, <1>2

\* A predicate assigns to the object of its event and leaves what remains
\* of its call, if anything.
LEMMA PredicateKeepsTypes ==
    ASSUME TypeInv, notif # <<>>, Head(notif) # "del", NEW obj, NEW c \in Calls,
           MutateCached(obj), cache \in Object => obj \in Object,
           \/ notif' = Tail(notif)
           \/ notif' = <<c>> \o Tail(notif),
           UNCHANGED <<pc, sp, apps, idx>>
    PROVE  InformerTypes' /\ WorkerInv'
<1>1. notif \in Seq(Calls) /\ cache \in Object \cup {None}
  BY DEF TypeInv, TypeOK, InformerTypes
<1>2. cache' \in Object \cup {None} /\ (cache # None => cache' # None)
  BY <1>1, PredicateFindsObject, NoneAssumption DEF MutateCached
<1>3. Waiting(notif, cache)
  BY DEF TypeInv, WorkerInv, Waiting
<1>4. Waiting(notif, cache')
  BY <1>2, <1>3 DEF Waiting
<1>5. notif' \in Seq(Calls) /\ Waiting(notif', cache')
  <2>1. /\ Tail(notif) \in Seq(Calls) /\ <<c>> \o Tail(notif) \in Seq(Calls)
        /\ Waiting(notif, cache') => Waiting(Tail(notif), cache')
        /\ Waiting(notif, cache') => Waiting(<<c>> \o Tail(notif), cache')
    BY <1>1, CallsTail
  <2> QED BY <1>4, <2>1
<1>6. InformerTypes'
  BY <1>2, <1>5 DEF InformerTypes
<1>7. WorkerInv'
  BY <1>5 DEF TypeInv, WorkerInv, Waiting
<1> QED BY <1>6, <1>7

LEMMA PredicatesKeepTypes ==
    ASSUME TypeInv, Predicates
    PROVE  TypeInv'
<1>0. /\ TypeOK /\ notif \in Seq(Calls)
      /\ {"add", "reset", "mod", "mark", "same", "del"} = Calls
  BY DEF TypeInv, TypeOK, InformerTypes, Calls
<1> USE Frame DEF workerVars, localVars, clusterVars
<1>1. CASE UpdateFuncBump
  <2>1. InformerTypes' /\ WorkerInv'
    BY <1>0, <1>1, ObjectUpdate, PredicateKeepsTypes DEF UpdateFuncBump
  <2> QED BY <1>1, <2>1 DEF UpdateFuncBump, TypeInv, TypeOK
<1>2. CASE UpdateFuncMark
  <2>1. InformerTypes' /\ WorkerInv'
    BY <1>0, <1>2, ObjectUpdate, PredicateKeepsTypes
       DEF UpdateFuncMark, Marked, EventTypes
  <2>2. QueueTypes'
    BY <1>0, <1>2 DEF UpdateFuncMark, TypeOK, QueueTypes, Requests
  <2> QED BY <1>2, <2>1, <2>2 DEF UpdateFuncMark, TypeInv, TypeOK
<1>3. CASE UpdateFuncTimer
  <2>1. InformerTypes' /\ WorkerInv'
    BY <1>0, <1>3, ObjectUpdate, PredicateKeepsTypes
       DEF UpdateFuncTimer, EventTypes
  <2> QED BY <1>3, <2>1 DEF UpdateFuncTimer, TypeInv, TypeOK
<1>4. CASE CreateFuncCurrent
  <2>1. InformerTypes' /\ WorkerInv'
    BY <1>0, <1>4, ObjectUpdate, PredicateKeepsTypes DEF CreateFuncCurrent
  <2> QED BY <1>4, <2>1 DEF CreateFuncCurrent, TypeInv, TypeOK
<1>5. CASE CreateFuncPrevious
  <2>1. InformerTypes' /\ WorkerInv'
    BY <1>0, <1>5, ObjectUpdate, PredicateKeepsTypes DEF CreateFuncPrevious
  <2>2. QueueTypes'
    BY <1>0, <1>5 DEF CreateFuncPrevious, TypeOK, QueueTypes, Requests
  <2> QED BY <1>5, <2>1, <2>2 DEF CreateFuncPrevious, TypeInv, TypeOK
<1>6. CASE DeleteFunc
  <2>1. Waiting(notif, cache)
    BY DEF TypeInv, WorkerInv, Waiting
  <2>2. notif' \in Seq(Calls) /\ Waiting(notif', cache) /\ cache' = cache
    BY <1>0, <1>6, <2>1, CallsTail DEF DeleteFunc
  <2>3. InformerTypes'
    BY <1>0, <2>2 DEF TypeOK, InformerTypes
  <2>4. WorkerInv'
    BY <1>6, <2>2 DEF DeleteFunc, TypeInv, WorkerInv, Waiting
  <2>5. QueueTypes' /\ MemoryTypes'
    BY <1>0, <1>6 DEF DeleteFunc, TypeOK, QueueTypes, MemoryTypes, Requests
  <2> QED BY <1>6, <2>3, <2>4, <2>5 DEF DeleteFunc, TypeInv, TypeOK
<1> QED BY <1>1, <1>2, <1>3, <1>4, <1>5, <1>6 DEF Predicates

LEMMA EventsKeepTypes ==
    ASSUME TypeInv, \/ Deliver \/ Resync \/ CMUpdateFunc \/ OwnedEvent
                    \/ \E r \in Requests : TimerFires(r) \/ Start(r)
    PROVE  TypeInv'
<1>0. TypeOK
  BY DEF TypeInv
<1> USE Frame DEF workerVars, localVars, clusterVars
<1>1. CASE Deliver
  <2>1. /\ watch \in Seq(Object \cup {None}) /\ watch # <<>>
        /\ notif \in Seq(Calls)
    BY <1>0, <1>1 DEF Deliver, TypeOK, ServerTypes, InformerTypes
  <2>2. /\ Tail(watch) \in Seq(Object \cup {None})
        /\ Head(watch) \in Object \cup {None}
    BY <2>1
  <2>3. PICK c \in Calls : /\ notif' = Append(notif, c)
                           /\ Head(watch) = None => c = "del"
    BY <1>1 DEF Deliver, Calls
  <2>4. notif' \in Seq(Calls) /\ notif'[Len(notif')] = c
    BY <2>1, <2>3
  <2>5. ServerTypes' /\ InformerTypes'
    BY <1>0, <1>1, <2>2, <2>4 DEF Deliver, TypeOK, ServerTypes, InformerTypes
  <2>6. WorkerInv'
    BY <1>1, <2>3, <2>4 DEF Deliver, TypeInv, WorkerInv
  <2> QED BY <1>1, <2>5, <2>6 DEF Deliver, TypeInv, TypeOK
<1>2. CASE Resync
  <2>1. InformerTypes'
    BY <1>0, <1>2 DEF Resync, TypeOK, InformerTypes, Calls
  <2>2. WorkerInv'
    BY <1>2 DEF Resync, TypeInv, WorkerInv
  <2> QED BY <1>2, <2>1, <2>2 DEF Resync, TypeInv, TypeOK
<1>3. CASE CMUpdateFunc
  <2>1. QueueTypes' /\ MemoryTypes' /\ ConfigMapTypes'
    BY <1>0, <1>3 DEF CMUpdateFunc, TypeOK, QueueTypes, MemoryTypes,
                      ConfigMapTypes, Requests
  <2> QED BY <1>3, <2>1 DEF CMUpdateFunc, TypeInv, TypeOK, artifactVars
<1>4. CASE OwnedEvent
  <2>1. QueueTypes' /\ ArtifactTypes'
    BY <1>0, <1>4 DEF OwnedEvent, TypeOK, QueueTypes, ArtifactTypes, Requests
  <2> QED BY <1>4, <2>1 DEF OwnedEvent, TypeInv, TypeOK
<1>5. ASSUME NEW r \in Requests, TimerFires(r) PROVE TypeInv'
  <2>1. QueueTypes'
    BY <1>0, <1>5 DEF TimerFires, TypeOK, QueueTypes
  <2> QED BY <1>5, <2>1 DEF TimerFires, TypeInv, TypeOK
<1>6. ASSUME NEW r \in Requests, Start(r) PROVE TypeInv'
  <2>1. QueueTypes'
    BY <1>0, <1>6 DEF Start, TypeOK, QueueTypes
  <2>2. CASE UNCHANGED workerVars
    BY <1>6, <2>1, <2>2 DEF Start, TypeInv, TypeOK
  <2>3. CASE cache # None /\ ~UNCHANGED workerVars
    <3>1. /\ req' = r /\ sp' = cache /\ fresh' \in BOOLEAN
          /\ \/ pc' = "timer" /\ apps' = SPContainer /\ SPContainer # None
             \/ pc' = "state" /\ apps' = apps
          /\ UNCHANGED <<op, idx, oldLen, verdict>>
      BY <1>6, <2>3 DEF Start
    <3>2. WorkerTypes'
      BY <1>0, <3>1 DEF TypeOK, WorkerTypes, InformerTypes, Steps
    <3>3. LocalTypes'
      BY <1>0, <3>1 DEF TypeOK, LocalTypes, MemoryTypes
    <3>4. WorkerInv'
      BY <1>6, <2>3, <3>1
         DEF Start, informerVars, TypeInv, WorkerInv, Steps, StepsWithApps,
             StepsInLoop
    <3> QED BY <1>6, <2>1, <3>2, <3>3, <3>4 DEF Start, TypeInv, TypeOK
  <2> QED BY <1>6, <2>2, <2>3 DEF Start
<1> QED BY <1>1, <1>2, <1>3, <1>4, <1>5, <1>6

LEMMA CrashKeepsTypes ==
    ASSUME TypeInv, Crash
    PROVE  TypeInv'
<1>0. TypeOK
  BY DEF TypeInv
<1>1. count' \in [Counters -> Nat]
  BY <1>0, CounterNames, SpendType DEF Crash
<1>2. WorkerTypes' /\ LocalTypes' /\ pc' = "idle"
  BY ForgetType DEF Crash
<1>3. ServerTypes'
  <2>1. api \in Object \cup {None} /\ api' = api
    BY <1>0 DEF Crash, TypeOK, ServerTypes
  <2>2. watch' = <<>> \/ watch' = <<api>>
    BY DEF Crash
  <2>3. <<>> \in Seq(Object \cup {None}) /\ <<api>> \in Seq(Object \cup {None})
    BY <2>1
  <2>4. watch' \in Seq(Object \cup {None})
    BY <2>2, <2>3
  <2> QED BY <2>1, <2>4 DEF ServerTypes
<1>4. InformerTypes' /\ notif' = <<>>
  <2>1. cache' = None /\ notif' = <<>>
    BY DEF Crash
  <2> QED BY <2>1 DEF InformerTypes
<1>5. QueueTypes' /\ MemoryTypes'
  BY DEF Crash, QueueTypes, MemoryTypes
<1>6. ArtifactTypes'
  BY <1>0 DEF Crash, TypeOK, ArtifactTypes
<1>7. ConfigMapTypes'
  BY <1>0 DEF Crash, TypeOK, ConfigMapTypes
<1>8. WorkerInv'
  BY <1>2, <1>4 DEF WorkerInv, StepsWithApps, StepsInLoop
<1> QED
  BY <1>1, <1>2, <1>3, <1>4, <1>5, <1>6, <1>7, <1>8 DEF TypeInv, TypeOK

---------------------------------------------------------------------------
\* What the worker holds at each of its steps.
LEMMA WorkerHolds ==
    ASSUME TypeInv
    PROVE  /\ pc # "idle" => sp \in Object
           /\ pc \in StepsWithApps => apps \in Source
           /\ pc \in StepsInLoop => idx \in Nat \ {0}
<1>1. /\ sp \in Object \cup {None} /\ apps \in Source \cup {None}
      /\ idx \in Nat
  BY DEF TypeInv, TypeOK, WorkerTypes, LocalTypes
<1> QED BY <1>1 DEF TypeInv, WorkerInv

LEMMA StatusUpdateType ==
    ASSUME TypeInv, NEW obj \in Object, StatusUpdate(obj)
    PROVE  ServerTypes' /\ count' \in [Counters -> Nat] /\ sp' \in Object
BY PutType DEF TypeInv, StatusUpdate

LEMMA NoStatusUpdateType ==
    ASSUME TypeInv, pc # "idle", NoStatusUpdate
    PROVE  ServerTypes' /\ count' \in [Counters -> Nat] /\ sp' \in Object
BY Frame, WorkerHolds DEF NoStatusUpdate, serverVars

\* A failing call costs one unit of a bound and leaves the object alone.
LEMMA FaultType ==
    ASSUME TypeInv, pc # "idle", NEW c \in Counters, NEW max, Spend(c, max),
           UNCHANGED <<sp, serverVars>>
    PROVE  ServerTypes' /\ count' \in [Counters -> Nat] /\ sp' \in Object
BY Frame, WorkerHolds, SpendType DEF TypeInv

\* A step within Reconcile.
LEMMA GotoKeepsTypes ==
    ASSUME TypeInv, NEW step \in Steps \ {"idle"}, Goto(step),
           ServerTypes' /\ count' \in [Counters -> Nat] /\ sp' \in Object,
           LocalTypes', MemoryTypes', ArtifactTypes',
           step \in StepsWithApps => apps' # None,
           step \in StepsInLoop => idx' >= 1
    PROVE  TypeInv'
<1>1. InformerTypes' /\ QueueTypes' /\ WorkerTypes' /\ ConfigMapTypes'
  BY GotoType DEF TypeInv
<1>2. TypeOK'
  BY <1>1 DEF TypeOK
<1>3. WorkerInv'
  BY NoneAssumption DEF Goto, informerVars, TypeInv, WorkerInv
<1> QED BY <1>2, <1>3 DEF TypeInv

\* The end of Reconcile.
LEMMA ReturnKeepsTypes ==
    ASSUME TypeInv, NEW retry \in SUBSET Requests, Return(retry),
           ServerTypes', count' \in [Counters -> Nat], MemoryTypes'
    PROVE  TypeInv'
<1>1. /\ InformerTypes' /\ QueueTypes' /\ WorkerTypes' /\ LocalTypes'
      /\ ArtifactTypes' /\ ConfigMapTypes' /\ pc' = "idle"
  BY ReturnType DEF TypeInv
<1>2. WorkerInv'
  BY <1>1 DEF Return, informerVars, TypeInv, WorkerInv, StepsWithApps,
              StepsInLoop
<1> QED BY <1>1, <1>2 DEF TypeInv, TypeOK

\* CheckAvailableDeployments reads a well-formed list.
LEMMA TimerKeepsTypes ==
    ASSUME TypeInv, CountAvailable \/ SetAvailabilityStatus
    PROVE  TypeInv'
<1>1. CASE CountAvailable
  <2> DEFINE as == Parse(apps)
             found == {i \in DOMAIN as : dep[i] # None}
             avail == [i \in DOMAIN as |->
                           IF i \in found THEN dep[i].avail ELSE 0]
  <2>1. sp \in Object /\ apps \in Source /\ pc = "timer"
    BY <1>1, WorkerHolds DEF CountAvailable, StepsWithApps, Steps
  <2>2. as \in Seq(Application) /\ DOMAIN as \subseteq 0 .. MaxApps
    BY <2>1, ParseType, BoundsAssumption
  <2>3. \A i \in found : dep[i].avail \in Nat
    BY <2>2 DEF TypeInv, TypeOK, ArtifactTypes, Deployment
  <2>4. Reading(as, found, avail)
    BY <2>2, <2>3 DEF Reading
  <2>5. ReadyPair(as, found, avail) \in Nat \X Nat
    BY <2>4, ReadyPairType
  <2>6. Verdict(as, found, avail) \in Verdicts
    BY VerdictType
  <2>7. /\ StatusUpdate([sp EXCEPT !.ready = ReadyPair(as, found, avail)])
        /\ verdict' = Verdict(as, found, avail)
        /\ Goto("verdict")
        /\ UNCHANGED <<apps, op, idx, oldLen, memoryVars, artifactVars>>
    BY <1>1 DEF CountAvailable
  <2> HIDE DEF as, found, avail
  <2>8. ServerTypes' /\ count' \in [Counters -> Nat] /\ sp' \in Object
    BY <2>1, <2>5, <2>7, ObjectUpdate, StatusUpdateType
  <2>9. LocalTypes'
    BY <2>6, <2>7 DEF TypeInv, TypeOK, LocalTypes
  <2>10. MemoryTypes' /\ ArtifactTypes'
    BY <2>7, Frame
  <2>11. /\ "verdict" \in Steps \ {"idle"}
         /\ "verdict" \notin StepsWithApps /\ "verdict" \notin StepsInLoop
    BY DEF Steps, StepsWithApps, StepsInLoop
  <2> QED BY <2>7, <2>8, <2>9, <2>10, <2>11, GotoKeepsTypes
<1>2. CASE SetAvailabilityStatus
  <2>1. sp \in Object /\ sp # None
    BY <1>2, WorkerHolds, NoneAssumption DEF SetAvailabilityStatus
  <2>2. WithStatus(StatusOf(verdict)) \in Object
    BY <2>1, WithStatusType DEF TypeInv, StatusOf, Statuses
  <2>3. ServerTypes' /\ count' \in [Counters -> Nat]
    BY <1>2, <2>2, PutType, Frame DEF SetAvailabilityStatus, TypeInv
  <2>4. MemoryTypes'
    BY <1>2, Frame DEF SetAvailabilityStatus
  <2>5. {req} \in SUBSET Requests /\ {} \in SUBSET Requests
    BY DEF TypeInv, TypeOK, WorkerTypes
  <2> QED
    BY <1>2, <2>3, <2>4, <2>5, ReturnKeepsTypes DEF SetAvailabilityStatus
<1> QED BY <1>1, <1>2

\* The steps and the sets of steps that the invariant tells apart.
LEMMA StepFacts ==
    /\ \A st \in {"timer", "verdict", "state", "upgrade", "apps", "parse",
                  "parsing", "clean", "messaging", "partial", "deploy", "sync",
                  "readydeps", "check", "fail", "failRetry", "deployError",
                  "checkError"} : st \in Steps \ {"idle"}
    /\ \A st \in {"verdict", "state", "upgrade", "apps", "fail", "failRetry"} :
           st \notin StepsWithApps
    /\ \A st \in {"timer", "parse", "parsing", "clean", "messaging", "partial",
                  "deploy", "sync", "readydeps", "check", "deployError",
                  "checkError"} : st \in StepsWithApps
    /\ \A st \in {"verdict", "state", "upgrade", "apps", "parse", "parsing",
                  "messaging", "partial", "sync", "fail", "failRetry"} :
           st \notin StepsInLoop
    /\ \A st \in {"clean", "deploy", "readydeps", "check", "deployError",
                  "checkError"} : st \in StepsInLoop
BY DEF Steps, StepsWithApps, StepsInLoop

LEMMA ListKeepsTypes ==
    ASSUME TypeInv,
           \/ SetInitialState \/ UpgradeVersion \/ ReadApps
           \/ PopulateApps \/ ParseSucceeds \/ ParseFails
    PROVE  TypeInv'
<1>0. /\ TypeOK
      /\ pc # "idle" => sp \in Object
      /\ pc \in StepsWithApps => apps \in Source
  BY WorkerHolds DEF TypeInv
<1>1. CASE SetInitialState
  <2>1. sp \in Object /\ sp # None
    BY <1>0, <1>1, NoneAssumption DEF SetInitialState
  <2>2. WithStatus("Pending") \in Object /\ WithStatus("Not Ready") \in Object
    BY <1>0, <2>1, WithStatusType DEF Statuses
  <2>3. ServerTypes' /\ count' \in [Counters -> Nat] /\ sp' \in Object
    BY <1>1, <2>2, StatusUpdateType, NoStatusUpdateType DEF SetInitialState
  <2>4. LocalTypes' /\ MemoryTypes' /\ ArtifactTypes'
    BY <1>1, Frame DEF SetInitialState
  <2>5. Goto("upgrade") \/ Goto("apps")
    BY <1>1 DEF SetInitialState
  <2> QED BY <2>3, <2>4, <2>5, StepFacts, GotoKeepsTypes
<1>2. CASE UpgradeVersion
  <2>1. sp \in Object
    BY <1>0, <1>2 DEF UpgradeVersion
  <2>2. ServerTypes' /\ count' \in [Counters -> Nat] /\ sp' \in Object
    BY <1>2, <2>1, ObjectUpdate, StatusUpdateType DEF UpgradeVersion
  <2>3. LocalTypes' /\ MemoryTypes' /\ ArtifactTypes'
    BY <1>2, Frame DEF UpgradeVersion
  <2> QED BY <1>2, <2>2, <2>3, StepFacts, GotoKeepsTypes DEF UpgradeVersion
<1>3. CASE ReadApps
  <2>1. sp \in Object /\ sp.spec \in Specs
    BY <1>0, <1>3 DEF ReadApps, Object
  <2>2. ServerTypes' /\ count' \in [Counters -> Nat] /\ sp' \in Object
    BY <1>3, <2>1, StatusUpdateType, NoStatusUpdateType DEF ReadApps
  <2>3. ArtifactTypes'
    BY <1>3, Frame DEF ReadApps
  <2>4. MemoryTypes'
    BY <1>0, <1>3 DEF ReadApps, TypeOK, MemoryTypes
  <2>5. cm \in 0 .. MaxConfigMaps /\ 0 \in 0 .. MaxConfigMaps
    BY <1>0, BoundsAssumption DEF TypeOK, ConfigMapTypes
  <2>6. \/ Goto("fail") /\ apps' = apps
        \/ Goto("parse") /\ apps' \in Source
    BY <1>3, <2>1, <2>5 DEF ReadApps, getSiddhiApps, Source
  <2>7. LocalTypes'
    BY <1>0, <1>3, <2>6 DEF ReadApps, TypeOK, LocalTypes
  <2> QED
    BY <2>2, <2>3, <2>4, <2>6, <2>7, StepFacts, GotoKeepsTypes, NoneAssumption
<1>4. CASE PopulateApps
  <2>1. sp \in Object /\ apps \in Source /\ pc = "parse"
    BY <1>0, <1>4, StepFacts DEF PopulateApps
  <2>2. /\ sp.uid \in Nat /\ sp.gen \in Nat
        /\ sp.spec \in Specs /\ sp.cur \in Nat
    BY <2>1 DEF Object
  <2>3. ServerTypes' /\ count' \in [Counters -> Nat] /\ sp' \in Object
    BY <1>4, <2>1, NoStatusUpdateType DEF PopulateApps
  <2>4. MemoryTypes'
    BY <1>4, Frame DEF PopulateApps
  <2>5. CASE modified \/ SPContainer = None
    <3>1. 0 \in 0 .. MaxApps
      BY BoundsAssumption
    <3>2. dep[0] \in Deployment \cup {None}
      BY <1>0, <3>1 DEF TypeOK, ArtifactTypes
    <3>3. PICK d : /\ d = IF dep[0] = None
                          THEN [uid |-> sp.uid, src |-> None,
                                spec |-> sp.spec, gen |-> sp.gen,
                                ver |-> sp.cur, replicas |-> 1, avail |-> 0]
                          ELSE [dep[0] EXCEPT !.spec = sp.spec, !.gen = sp.gen,
                                              !.ver = sp.cur]
                   /\ dep' = [dep EXCEPT ![0] = d]
      BY <1>0, <1>4, <2>5, <3>1 DEF PopulateApps, TypeOK, ArtifactTypes
    <3>4. d \in Deployment
      <4>1. CASE dep[0] = None
        BY <2>2, <3>3, <4>1 DEF Deployment
      <4>2. CASE dep[0] # None
        BY <2>2, <3>2, <3>3, <4>2, DeploymentUpdate
      <4> QED BY <4>1, <4>2
    <3>5. dep' \in [0 .. MaxApps -> Deployment \cup {None}]
      BY <1>0, <3>1, <3>3, <3>4, DepType
    <3>6. ArtifactTypes'
      BY <1>0, <1>4, <2>5, <3>5 DEF PopulateApps, TypeOK, ArtifactTypes
    <3>7. LocalTypes' /\ apps' = apps
      BY <1>4, <2>5, Frame DEF PopulateApps, localVars
    <3>8. Goto("parsing")
      BY <1>4, <2>5 DEF PopulateApps
    <3> QED
      BY <2>1, <2>3, <2>4, <3>6, <3>7, <3>8, StepFacts, GotoKeepsTypes,
         NoneAssumption
  <2>6. CASE ~(modified \/ SPContainer = None)
    <3>1. Goto("messaging") /\ apps' = SPContainer /\ apps' # None
      BY <1>4, <2>6 DEF PopulateApps
    <3>2. ArtifactTypes'
      BY <1>4, <2>6, Frame DEF PopulateApps, artifactVars
    <3>3. LocalTypes'
      BY <1>0, <1>4, <3>1 DEF PopulateApps, TypeOK, LocalTypes, MemoryTypes
    <3> QED
      BY <2>3, <2>4, <3>1, <3>2, <3>3, StepFacts, GotoKeepsTypes
  <2> QED BY <2>5, <2>6
<1>5. CASE ParseSucceeds
  <2>1. sp \in Object /\ apps \in Source /\ apps # None /\ pc = "parsing"
    BY <1>0, <1>5, StepFacts, NoneAssumption DEF ParseSucceeds
  <2>2. ServerTypes' /\ count' \in [Counters -> Nat] /\ sp' \in Object
    BY <1>5, <2>1, NoStatusUpdateType DEF ParseSucceeds
  <2>3. ArtifactTypes'
    <3>1. 0 \in 0 .. MaxApps
      BY BoundsAssumption
    <3>2. [dep EXCEPT ![0] = None] \in [0 .. MaxApps -> Deployment \cup {None}]
      BY <1>0, <3>1, DepType
    <3> QED
      BY <1>0, <1>5, <3>1, <3>2
         DEF ParseSucceeds, DeleteDeployment, TypeOK, ArtifactTypes
  <2>4. MemoryTypes' /\ apps' = apps
    BY <1>0, <1>5, <2>1 DEF ParseSucceeds, TypeOK, MemoryTypes
  <2>5. /\ FirstToClean \in Nat \ {0}
        /\ 0 \in 0 .. MaxApps
        /\ SPContainer # None => Len(Parse(SPContainer)) \in 0 .. MaxApps
    <3>1. SPContainer \in Source \cup {None}
      BY <1>0 DEF TypeOK, MemoryTypes
    <3>2. Len(Parse(apps)) \in 0 .. MaxApps
      BY <2>1, ParseType
    <3> QED BY <3>1, <3>2, ParseType, BoundsAssumption DEF FirstToClean
  <2>6. LocalTypes'
    BY <1>0, <1>5, <2>5 DEF ParseSucceeds, TypeOK, LocalTypes
  <2>7. Goto("messaging") \/ (Goto("clean") /\ idx' >= 1)
    BY <1>5, <2>5 DEF ParseSucceeds
  <2> QED
    BY <2>1, <2>2, <2>3, <2>4, <2>6, <2>7, StepFacts, GotoKeepsTypes
<1>6. CASE ParseFails
  <2>1. ServerTypes' /\ count' \in [Counters -> Nat] /\ sp' \in Object
    BY <1>6, FaultType, CounterNames DEF ParseFails
  <2>2. LocalTypes' /\ MemoryTypes'
    BY <1>6, Frame DEF ParseFails
  <2>3. ArtifactTypes'
    <3>1. 0 \in 0 .. MaxApps
      BY BoundsAssumption
    <3>2. [dep EXCEPT ![0] = None] \in [0 .. MaxApps -> Deployment \cup {None}]
      BY <1>0, <3>1, DepType
    <3> QED BY <1>0, <1>6, <3>2 DEF ParseFails, TypeOK, ArtifactTypes
  <2> QED BY <1>6, <2>1, <2>2, <2>3, StepFacts, GotoKeepsTypes DEF ParseFails
<1> QED BY <1>1, <1>2, <1>3, <1>4, <1>5, <1>6

LEMMA CleanKeepsTypes ==
    ASSUME TypeInv,
           \/ CleanArtifact \/ CleanFails \/ StoreApps
           \/ CreateMessagingSystem \/ MessagingFails
    PROVE  TypeInv'
<1>0. /\ TypeOK
      /\ pc # "idle" => sp \in Object
      /\ pc \in StepsWithApps => apps \in Source /\ apps # None
      /\ pc \in StepsInLoop => idx \in Nat \ {0}
  BY WorkerHolds, NoneAssumption DEF TypeInv
<1>1. CASE CleanArtifact
  <2>1. /\ sp \in Object /\ apps # None
        /\ idx \in Nat /\ idx >= 1 /\ idx <= oldLen /\ oldLen \in 0 .. MaxApps
    BY <1>0, <1>1, StepFacts DEF CleanArtifact, TypeOK, LocalTypes
  <2>2. ServerTypes' /\ count' \in [Counters -> Nat] /\ sp' \in Object
    BY <1>1, <2>1, StatusUpdateType DEF CleanArtifact
  <2>3. idx \in 0 .. MaxApps
    BY <2>1, BoundsAssumption
  <2>4. [dep EXCEPT ![idx] = None] \in [0 .. MaxApps -> Deployment \cup {None}]
    BY <1>0, <2>3, DepType
  <2>5. ArtifactTypes'
    BY <1>0, <1>1, <2>3, <2>4
       DEF CleanArtifact, DeleteDeployment, TypeOK, ArtifactTypes
  <2>6. MemoryTypes'
    BY <1>1, Frame DEF CleanArtifact
  <2>7. LocalTypes' /\ idx' >= 1 /\ apps' # None
    BY <1>0, <1>1, <2>1 DEF CleanArtifact, TypeOK, LocalTypes
  <2> QED
    BY <1>1, <2>2, <2>5, <2>6, <2>7, StepFacts, GotoKeepsTypes
       DEF CleanArtifact
<1>2. CASE CleanFails
  <2>1. ServerTypes' /\ count' \in [Counters -> Nat] /\ sp' \in Object
    BY <1>2, FaultType, CounterNames DEF CleanFails
  <2>2. idx \in 0 .. MaxApps
    BY <1>0, <1>2, StepFacts, BoundsAssumption
       DEF CleanFails, TypeOK, LocalTypes
  <2>3. [dep EXCEPT ![idx] = None] \in [0 .. MaxApps -> Deployment \cup {None}]
    BY <1>0, <2>2, DepType
  <2>4. ArtifactTypes'
    BY <1>0, <1>2, <2>3 DEF CleanFails, TypeOK, ArtifactTypes
  <2>5. LocalTypes' /\ MemoryTypes'
    BY <1>2, Frame DEF CleanFails
  <2> QED
    BY <1>2, <2>1, <2>4, <2>5, StepFacts, GotoKeepsTypes DEF CleanFails
<1>3. CASE StoreApps
  <2>1. sp \in Object /\ apps \in Source /\ apps # None /\ pc # "idle"
    BY <1>0, <1>3, StepFacts DEF StoreApps
  <2>2. ServerTypes' /\ count' \in [Counters -> Nat] /\ sp' \in Object
    BY <1>3, <2>1, NoStatusUpdateType DEF StoreApps
  <2>3. LocalTypes' /\ apps' = apps
    BY <1>3, Frame DEF StoreApps, localVars
  <2>4. MemoryTypes'
    BY <1>0, <1>3, <2>1 DEF StoreApps, TypeOK, MemoryTypes
  <2>5. ArtifactTypes'
    BY <1>0, <1>3 DEF StoreApps, TypeOK, ArtifactTypes
  <2> QED
    BY <1>3, <2>1, <2>2, <2>3, <2>4, <2>5, StepFacts, GotoKeepsTypes
       DEF StoreApps
<1>4. CASE CreateMessagingSystem
  <2>1. sp \in Object /\ apps # None /\ pc # "idle"
    BY <1>0, <1>4, StepFacts DEF CreateMessagingSystem
  <2>2. ServerTypes' /\ count' \in [Counters -> Nat] /\ sp' \in Object
    BY <1>4, <2>1, NoStatusUpdateType DEF CreateMessagingSystem
  <2>3. LocalTypes' /\ MemoryTypes' /\ apps' = apps
    BY <1>4, Frame DEF CreateMessagingSystem, localVars
  <2>4. ArtifactTypes'
    BY <1>0, <1>4 DEF CreateMessagingSystem, TypeOK, ArtifactTypes
  <2>5. Goto("failRetry") \/ Goto("partial")
    BY <1>4 DEF CreateMessagingSystem
  <2> QED
    BY <2>1, <2>2, <2>3, <2>4, <2>5, StepFacts, GotoKeepsTypes
<1>5. CASE MessagingFails
  <2>1. ServerTypes' /\ count' \in [Counters -> Nat] /\ sp' \in Object
    BY <1>5, FaultType, CounterNames DEF MessagingFails
  <2>2. LocalTypes' /\ MemoryTypes' /\ ArtifactTypes'
    BY <1>5, Frame DEF MessagingFails
  <2> QED BY <1>5, <2>1, <2>2, StepFacts, GotoKeepsTypes DEF MessagingFails
<1> QED BY <1>1, <1>2, <1>3, <1>4, <1>5

LEMMA DeployKeepsTypes ==
    ASSUME TypeInv,
           \/ UpdatePartialAppStatus \/ DeployApp \/ DeploySwallowed
           \/ DeployFails \/ EndDeploy \/ SyncVersion \/ ResetReady
    PROVE  TypeInv'
<1>0. /\ TypeOK
      /\ pc # "idle" => sp \in Object /\ sp # None
      /\ pc \in StepsWithApps => apps \in Source /\ apps # None
      /\ pc \in StepsInLoop => idx \in Nat \ {0}
  BY WorkerHolds, NoneAssumption DEF TypeInv
<1>1. CASE UpdatePartialAppStatus
  <2>1. sp \in Object /\ apps \in Source /\ apps # None
    BY <1>0, <1>1, StepFacts DEF UpdatePartialAppStatus
  <2>2. ServerTypes' /\ count' \in [Counters -> Nat] /\ sp' \in Object
    BY <1>1, <2>1, ObjectUpdate, StatusUpdateType DEF UpdatePartialAppStatus
  <2>3. MemoryTypes' /\ ArtifactTypes'
    BY <1>1, Frame DEF UpdatePartialAppStatus
  <2>4. LocalTypes' /\ idx' >= 1 /\ apps' # None
    BY <1>0, <1>1, <2>1, EventTypeType
       DEF UpdatePartialAppStatus, TypeOK, LocalTypes
  <2>5. Goto("sync") \/ Goto("deploy")
    BY <1>1 DEF UpdatePartialAppStatus
  <2> QED
    BY <2>2, <2>3, <2>4, <2>5, StepFacts, GotoKeepsTypes
<1>2. CASE DeployApp
  <2>1. /\ sp \in Object /\ sp # None /\ apps \in Source /\ apps # None
        /\ pc # "idle"
        /\ idx \in 1 .. Len(Parse(apps)) /\ idx \in Nat
    BY <1>0, <1>2, StepFacts, ParseType DEF DeployApp
  <2>2. ServerTypes' /\ count' \in [Counters -> Nat] /\ sp' \in Object
    BY <1>2, <2>1, StatusUpdateType, NoStatusUpdateType DEF DeployApp
  <2>3. DeploymentFor(idx) \in Deployment /\ idx \in 0 .. MaxApps
    BY <1>0, <2>1, DeploymentForType
  <2>4. [dep EXCEPT ![idx] = DeploymentFor(idx)]
            \in [0 .. MaxApps -> Deployment \cup {None}]
    BY <1>0, <2>3, DepType
  <2>5. ArtifactTypes'
    BY <1>0, <1>2, <2>4 DEF DeployApp, TypeOK, ArtifactTypes
  <2>6. MemoryTypes'
    BY <1>2, Frame DEF DeployApp
  <2>7. LocalTypes' /\ idx' >= 1 /\ apps' # None
    BY <1>0, <1>2, <2>1 DEF DeployApp, TypeOK, LocalTypes
  <2> QED
    BY <1>2, <2>2, <2>5, <2>6, <2>7, StepFacts, GotoKeepsTypes DEF DeployApp
<1>3. CASE DeploySwallowed
  <2>1. ServerTypes' /\ count' \in [Counters -> Nat] /\ sp' \in Object
    BY <1>3, FaultType, CounterNames DEF DeploySwallowed
  <2>2. MemoryTypes' /\ ArtifactTypes'
    BY <1>3, Frame DEF DeploySwallowed, artifactVars
  <2>3. LocalTypes' /\ idx' >= 1 /\ apps' # None
    BY <1>0, <1>3, StepFacts DEF DeploySwallowed, TypeOK, LocalTypes
  <2> QED
    BY <1>3, <2>1, <2>2, <2>3, StepFacts, GotoKeepsTypes DEF DeploySwallowed
<1>4. CASE DeployFails
  <2>1. /\ sp # None /\ apps \in Source /\ apps # None /\ idx \in Nat \ {0}
        /\ idx \in 1 .. Len(Parse(apps))
    BY <1>0, <1>4, StepFacts, ParseType DEF DeployFails
  <2>2. ServerTypes' /\ count' \in [Counters -> Nat] /\ sp' \in Object
    BY <1>4, FaultType, CounterNames DEF DeployFails
  <2>3. DeploymentFor(idx) \in Deployment /\ idx \in 0 .. MaxApps
    BY <1>0, <2>1, DeploymentForType
  <2>4. [dep EXCEPT ![idx] = DeploymentFor(idx)]
            \in [0 .. MaxApps -> Deployment \cup {None}]
    BY <1>0, <2>3, DepType
  <2>5. ArtifactTypes'
    BY <1>0, <1>4, <2>4 DEF DeployFails, TypeOK, ArtifactTypes
  <2>6. MemoryTypes' /\ LocalTypes' /\ idx' = idx /\ apps' = apps
    BY <1>4, Frame DEF DeployFails, localVars
  <2> QED
    BY <1>4, <2>1, <2>2, <2>5, <2>6, StepFacts, GotoKeepsTypes
       DEF DeployFails
<1>5. CASE EndDeploy
  <2>1. apps # None /\ pc # "idle"
    BY <1>0, <1>5, StepFacts DEF EndDeploy
  <2>2. ServerTypes' /\ count' \in [Counters -> Nat] /\ sp' \in Object
    BY <1>5, <2>1, NoStatusUpdateType DEF EndDeploy
  <2>3. LocalTypes' /\ MemoryTypes' /\ ArtifactTypes' /\ apps' = apps
    BY <1>5, Frame DEF EndDeploy, localVars
  <2> QED
    BY <1>5, <2>1, <2>2, <2>3, StepFacts, GotoKeepsTypes DEF EndDeploy
<1>6. CASE SyncVersion
  <2>1. sp \in Object /\ apps # None
    BY <1>0, <1>6, StepFacts DEF SyncVersion
  <2>2. ServerTypes' /\ count' \in [Counters -> Nat] /\ sp' \in Object
    BY <1>6, <2>1, ObjectUpdate, StatusUpdateType DEF SyncVersion, Synced
  <2>3. MemoryTypes' /\ ArtifactTypes'
    BY <1>6, Frame DEF SyncVersion
  <2>4. LocalTypes' /\ idx' >= 1 /\ apps' # None
    BY <1>0, <1>6, <2>1 DEF SyncVersion, TypeOK, LocalTypes
  <2>5. Goto("check") \/ Goto("readydeps")
    BY <1>6 DEF SyncVersion
  <2> QED BY <2>2, <2>3, <2>4, <2>5, StepFacts, GotoKeepsTypes
<1>7. CASE ResetReady
  <2>1. sp \in Object /\ apps \in Source /\ apps # None /\ idx \in Nat \ {0}
    BY <1>0, <1>7, StepFacts DEF ResetReady
  <2>2. <<0, Len(Parse(apps))>> \in Nat \X Nat
    BY <2>1, ParseType
  <2>3. ServerTypes' /\ count' \in [Counters -> Nat] /\ sp' \in Object
    BY <1>7, <2>1, <2>2, ObjectUpdate, StatusUpdateType DEF ResetReady
  <2>4. LocalTypes' /\ MemoryTypes' /\ ArtifactTypes' /\ apps' = apps
            /\ idx' = idx
    BY <1>7, Frame DEF ResetReady, localVars
  <2> QED
    BY <1>7, <2>1, <2>3, <2>4, StepFacts, GotoKeepsTypes DEF ResetReady
<1> QED BY <1>1, <1>2, <1>3, <1>4, <1>5, <1>6, <1>7

LEMMA CheckKeepsTypes ==
    ASSUME TypeInv,
           \/ CheckDeployment \/ CheckFails \/ EndPass
           \/ ContinueAfterError \/ ReturnAfterError
    PROVE  TypeInv'
<1>0. /\ TypeOK
      /\ pc # "idle" => sp \in Object /\ sp # None
      /\ pc \in StepsWithApps => apps \in Source /\ apps # None
      /\ pc \in StepsInLoop => idx \in Nat \ {0}
      /\ {req} \in SUBSET Requests /\ {} \in SUBSET Requests
  BY WorkerHolds, NoneAssumption DEF TypeInv, TypeOK, WorkerTypes
<1>1. CASE CheckDeployment
  <2>1. /\ apps \in Source /\ apps # None /\ pc # "idle"
        /\ idx \in Nat \ {0} /\ idx \in 1 .. Len(Parse(apps))
        /\ idx \in 0 .. MaxApps
        /\ Parse(apps)[idx] \in Application
    BY <1>0, <1>1, StepFacts, ParseType, BoundsAssumption DEF CheckDeployment
  <2>2. ServerTypes' /\ count' \in [Counters -> Nat] /\ sp' \in Object
    BY <1>1, <2>1, NoStatusUpdateType DEF CheckDeployment
  <2>3. ArtifactTypes'
    <3>1. CASE WrongReplicas(idx)
      <4>1. dep[idx] \in Deployment /\ Parse(apps)[idx].replicas \in Nat
        BY <1>0, <2>1, <3>1
           DEF WrongReplicas, TypeOK, ArtifactTypes, Application
      <4>2. [dep[idx] EXCEPT !.replicas = Parse(apps)[idx].replicas]
                \in Deployment
        BY <4>1, DeploymentUpdate
      <4> QED
        BY <1>0, <1>1, <2>1, <3>1, <4>2
           DEF CheckDeployment, TypeOK, ArtifactTypes
    <3>2. CASE ~WrongReplicas(idx)
      BY <1>1, <3>2, Frame DEF CheckDeployment, artifactVars
    <3> QED BY <3>1, <3>2
  <2>4. MemoryTypes'
    BY <1>1, Frame DEF CheckDeployment
  <2>5. LocalTypes' /\ idx' >= 1 /\ apps' # None
    BY <1>0, <1>1, <2>1 DEF CheckDeployment, TypeOK, LocalTypes
  <2> QED
    BY <1>1, <2>2, <2>3, <2>4, <2>5, StepFacts, GotoKeepsTypes
       DEF CheckDeployment
<1>2. CASE CheckFails
  <2>1. ServerTypes' /\ count' \in [Counters -> Nat] /\ sp' \in Object
    BY <1>2, FaultType, CounterNames DEF CheckFails
  <2>2. /\ LocalTypes' /\ MemoryTypes' /\ ArtifactTypes'
        /\ apps' = apps /\ idx' = idx
    BY <1>2, Frame DEF CheckFails, localVars
  <2>3. apps # None /\ idx >= 1
    BY <1>0, <1>2, StepFacts DEF CheckFails
  <2> QED
    BY <1>2, <2>1, <2>2, <2>3, StepFacts, GotoKeepsTypes DEF CheckFails
<1>3. CASE EndPass
  <2>1. ServerTypes' /\ count' \in [Counters -> Nat]
    BY <1>3, Frame DEF EndPass
  <2>2. MemoryTypes'
    BY <1>0, <1>3 DEF EndPass, TypeOK, MemoryTypes
  <2> QED BY <1>0, <1>3, <2>1, <2>2, ReturnKeepsTypes DEF EndPass
<1>4. CASE ContinueAfterError
  <2>1. sp # None /\ apps # None /\ idx \in Nat \ {0}
    BY <1>0, <1>4, StepFacts DEF ContinueAfterError
  <2>2. WithStatus("Error") \in Object
    BY <1>0, <2>1, WithStatusType DEF Statuses
  <2>3. ServerTypes' /\ count' \in [Counters -> Nat] /\ sp' \in Object
    BY <1>4, <2>2, StatusUpdateType DEF ContinueAfterError
  <2>4. MemoryTypes' /\ ArtifactTypes'
    BY <1>4, Frame DEF ContinueAfterError
  <2>5. LocalTypes' /\ idx' >= 1 /\ apps' # None
    BY <1>0, <1>4, <2>1 DEF ContinueAfterError, TypeOK, LocalTypes
  <2>6. Goto("deploy") \/ Goto("check")
    BY <1>4 DEF ContinueAfterError
  <2> QED BY <2>3, <2>4, <2>5, <2>6, StepFacts, GotoKeepsTypes
<1>5. CASE ReturnAfterError
  <2>1. sp # None
    BY <1>0, <1>5 DEF ReturnAfterError
  <2>2. WithStatus("Error") \in Object
    BY <1>0, <2>1, WithStatusType DEF Statuses
  <2>3. ServerTypes' /\ count' \in [Counters -> Nat]
    BY <1>0, <1>5, <2>2, PutType DEF ReturnAfterError
  <2>4. MemoryTypes'
    BY <1>5, Frame DEF ReturnAfterError
  <2>5. RetryOf(pc) \in SUBSET Requests
    BY <1>0 DEF RetryOf
  <2> QED BY <1>5, <2>3, <2>4, <2>5, ReturnKeepsTypes DEF ReturnAfterError
<1> QED BY <1>1, <1>2, <1>3, <1>4, <1>5

LEMMA InitTypes ==
    ASSUME Init PROVE TypeInv
<1>1. 0 \in Nat /\ 0 \in 0 .. MaxApps /\ 0 \in 0 .. MaxConfigMaps
  BY BoundsAssumption
<1>2. <<>> \in Seq(Object \cup {None}) /\ <<>> \in Seq(Calls)
  OBVIOUS
<1>3. ServerTypes /\ InformerTypes /\ QueueTypes
  BY <1>2 DEF Init, ServerTypes, InformerTypes, QueueTypes
<1>4. WorkerTypes /\ LocalTypes
  BY <1>1 DEF Init, WorkerTypes, LocalTypes, Steps, Requests, Operations,
              Verdicts
<1>5. MemoryTypes /\ ArtifactTypes /\ ConfigMapTypes
  BY <1>1, OperatorAssumption
     DEF Init, MemoryTypes, ArtifactTypes, ConfigMapTypes
<1>6. count \in [Counters -> Nat]
  BY <1>1 DEF Init
<1>7. WorkerInv
  BY DEF Init, WorkerInv, StepsWithApps, StepsInLoop
<1> QED BY <1>3, <1>4, <1>5, <1>6, <1>7 DEF TypeInv, TypeOK

LEMMA NextKeepsTypes ==
    ASSUME TypeInv, [Next]_vars
    PROVE  TypeInv'
<1>1. CASE Reconcile
  BY <1>1, TimerKeepsTypes, ListKeepsTypes, CleanKeepsTypes, DeployKeepsTypes,
     CheckKeepsTypes DEF Reconcile
<1>2. CASE UNCHANGED vars
  BY <1>2, Frame DEF vars, workerVars, localVars, clusterVars, TypeInv, TypeOK
<1> QED
  BY <1>1, <1>2, EnvironmentKeepsTypes, PredicatesKeepTypes, EventsKeepTypes,
     CrashKeepsTypes DEF Next

\* At every point of every execution, for any set of specs, any parser and
\* any bounds, each variable keeps its type and the worker holds what its
\* current step uses: an object wherever Reconcile dereferences one, a list
\* wherever it ranges over one, and a cached object under every predicate
\* call that assigns to it.
THEOREM TypeCorrect == Spec => [](TypeOK /\ WorkerInv)
<1>1. Init => TypeInv
  BY InitTypes
<1>2. TypeInv /\ [Next]_vars => TypeInv'
  BY NextKeepsTypes
<1>3. TypeInv => TypeOK /\ WorkerInv
  BY DEF TypeInv
<1> QED BY <1>1, <1>2, <1>3, PTL DEF Spec

---------------------------------------------------------------------------
(* Reconcile never undoes the user: NoClobber for every set of specs,      *)
(* every parser and every bound, with deletions, restarts and failing      *)
(* calls.  The argument is optimistic concurrency control, end to end: the *)
(* pipeline from the API server to the cache ends in the server's object   *)
(* (PipelineInv), so a copy taken when nothing is under way is a copy of   *)
(* the current incarnation and spec (FreshCopy), and only such a copy can  *)
(* be written.                                                             *)

Guarded == PipelineInv /\ FreshCopy

---------------------------------------------------------------------------
(* The kinds of steps.                                                     *)

\* A step that neither moves the pipeline nor refreshes the worker's copy.
LEMMA QuietStep ==
    ASSUME Guarded, UNCHANGED <<api, watch, cache>>,
           fresh' = FALSE \/ UNCHANGED <<fresh, sp>>
    PROVE  Guarded' /\ KeepsSpec
<1>1. PipelineInv'
  BY DEF Guarded, PipelineInv
<1>2. FreshCopy'
  BY DEF Guarded, FreshCopy
<1>3. KeepsSpec
  BY DEF KeepsSpec
<1> QED BY <1>1, <1>2, <1>3 DEF Guarded

\* A status write, from a copy whose spec and uid Reconcile never assigns.
LEMMA WriteStep ==
    ASSUME TypeInv, Guarded, UNCHANGED cache, NEW obj \in Object,
           obj.uid = sp.uid, obj.spec = sp.spec, Put(obj),
           fresh' = FALSE \/ (fresh' = fresh /\ sp' = obj)
    PROVE  Guarded' /\ KeepsSpec
<1>0. obj # None
  BY NoneAssumption
<1>1. CASE fresh /\ api' = obj /\ watch' = Append(watch, obj)
  <2>1. watch \in Seq(Object \cup {None})
    BY DEF TypeInv, TypeOK, ServerTypes
  <2>2. watch' # <<>> /\ watch'[Len(watch')] = obj
    BY <1>1, <2>1
  <2>3. api # None /\ sp.uid = api.uid /\ sp.spec = api.spec
    BY <1>1 DEF Guarded, FreshCopy
  <2>4. PipelineInv'
    BY <1>1, <2>2 DEF PipelineInv
  <2>5. FreshCopy'
    BY <1>0, <1>1 DEF FreshCopy
  <2>6. KeepsSpec
    BY <1>0, <1>1, <2>3 DEF KeepsSpec
  <2> QED BY <2>4, <2>5, <2>6 DEF Guarded
<1>2. CASE UNCHANGED <<api, watch>>
  <2>1. PipelineInv'
    BY <1>2 DEF Guarded, PipelineInv
  <2>2. FreshCopy'
    BY <1>0, <1>2 DEF Guarded, FreshCopy
  <2>3. KeepsSpec
    BY <1>2 DEF KeepsSpec
  <2> QED BY <2>1, <2>2, <2>3 DEF Guarded
<1> QED BY <1>1, <1>2 DEF Put

LEMMA StatusUpdateStep ==
    ASSUME TypeInv, Guarded, NEW obj \in Object, obj.uid = sp.uid,
           obj.spec = sp.spec, StatusUpdate(obj), UNCHANGED <<cache, fresh>>
    PROVE  Guarded' /\ KeepsSpec
BY WriteStep DEF StatusUpdate

---------------------------------------------------------------------------
(* The user, the informer and the predicates.                              *)

LEMMA SpendMoves ==
    ASSUME TypeInv, NEW c \in Counters, NEW max, Spend(c, max)
    PROVE  count'[c] # count[c]
<1>1. count[c] \in Nat /\ count'[c] = count[c] + 1
  BY DEF TypeInv, TypeOK, Spend
<1> QED BY <1>1

LEMMA EnvironmentGuarded ==
    ASSUME TypeInv, Guarded, Environment
    PROVE  Guarded' /\ KeepsSpec
<1>0. /\ watch \in Seq(Object \cup {None})
      /\ count \in [Counters -> Nat]
      /\ {"creates", "updates", "deletes"} \subseteq Counters
  BY CounterNames DEF TypeInv, TypeOK, ServerTypes
<1>1. ASSUME NEW s \in Specs, UserCreate(s) PROVE Guarded' /\ KeepsSpec
  <2>1. ~fresh /\ fresh' = fresh
    BY <1>1 DEF UserCreate, workerVars, Guarded, FreshCopy
  <2>2. watch' = Append(watch, api')
    BY <1>1 DEF UserCreate
  <2>3. PipelineInv'
    BY <1>0, <2>2 DEF PipelineInv
  <2>4. KeepsSpec
    BY <1>0, <1>1, SpendMoves DEF UserCreate, KeepsSpec
  <2> QED BY <2>1, <2>3, <2>4 DEF Guarded, FreshCopy
<1>2. ASSUME NEW s \in Specs, UserUpdate(s) PROVE Guarded' /\ KeepsSpec
  <2>1. fresh' = FALSE /\ watch' = Append(watch, api')
    BY <1>2 DEF UserUpdate
  <2>2. PipelineInv'
    BY <1>0, <2>1 DEF PipelineInv
  <2>3. KeepsSpec
    BY <1>0, <1>2, SpendMoves DEF UserUpdate, KeepsSpec
  <2> QED BY <2>1, <2>2, <2>3 DEF Guarded, FreshCopy
<1>3. CASE UserDelete
  <2>1. fresh' = FALSE /\ api' = None /\ watch' = Append(watch, None)
    BY <1>3 DEF UserDelete
  <2>2. PipelineInv'
    BY <1>0, <2>1 DEF PipelineInv
  <2>3. KeepsSpec
    BY <1>0, <1>3, SpendMoves DEF UserDelete, KeepsSpec
  <2> QED BY <2>1, <2>2, <2>3 DEF Guarded, FreshCopy
<1>4. CASE \/ UserWriteConfigMap \/ InstallNATS
           \/ \E i \in 1 .. MaxApps : AvailabilityChanges(i)
           \/ \E i \in 0 .. MaxApps : CollectGarbage(i)
  <2>1. UNCHANGED <<api, watch, cache, fresh, sp>>
    BY <1>4 DEF UserWriteConfigMap, InstallNATS, AvailabilityChanges,
                CollectGarbage, serverVars, informerVars, workerVars
  <2> QED BY <2>1, QuietStep
<1> QED BY <1>1, <1>2, <1>3, <1>4 DEF Environment

\* The predicates assign only to the status of the cached object.
LEMMA PredicatesGuarded ==
    ASSUME TypeInv, Guarded, Predicates
    PROVE  Guarded' /\ KeepsSpec
<1>1. UNCHANGED <<api, watch, fresh, sp>>
  BY DEF Predicates, UpdateFuncBump, UpdateFuncMark, UpdateFuncTimer,
         CreateFuncCurrent, CreateFuncPrevious, DeleteFunc, serverVars,
         workerVars
<1>2. \/ cache' = cache
      \/ /\ cache # None /\ cache' # None
         /\ cache'.uid = cache.uid /\ cache'.spec = cache.spec
  <2>1. CASE Len(notif) = 1 /\ ~DeleteFunc
    <3>1. cache \in Object
      BY <2>1, PredicateFindsObject
         DEF Predicates, UpdateFuncBump, UpdateFuncMark, UpdateFuncTimer,
             CreateFuncCurrent, CreateFuncPrevious
    <3>2. \/ cache' = [cache EXCEPT !.cur = @ + 1]
          \/ cache' = [cache EXCEPT !.ev = "Update"]
          \/ cache' = [cache EXCEPT !.ev = "Timer"]
          \/ cache' = [cache EXCEPT !.cur = 0]
          \/ cache' = [cache EXCEPT !.prev = 0]
      BY <2>1 DEF Predicates, UpdateFuncBump, UpdateFuncMark, UpdateFuncTimer,
                  CreateFuncCurrent, CreateFuncPrevious, MutateCached, Marked
    <3>3. cache'.uid = cache.uid /\ cache'.spec = cache.spec
      BY <3>1, <3>2 DEF Object
    <3>4. cache' \in Object
      BY <3>1, <3>2, ObjectUpdate DEF EventTypes
    <3> QED BY <3>1, <3>3, <3>4, NoneAssumption
  <2>2. CASE ~(Len(notif) = 1 /\ ~DeleteFunc)
    BY <2>2 DEF Predicates, UpdateFuncBump, UpdateFuncMark, UpdateFuncTimer,
                CreateFuncCurrent, CreateFuncPrevious, DeleteFunc, MutateCached
  <2> QED BY <2>1, <2>2
<1>3. PipelineInv'
  BY <1>1, <1>2 DEF Guarded, PipelineInv
<1>4. FreshCopy'
  BY <1>1 DEF Guarded, FreshCopy
<1>5. KeepsSpec
  BY <1>1 DEF KeepsSpec
<1> QED BY <1>3, <1>4, <1>5 DEF Guarded

LEMMA EventsGuarded ==
    ASSUME TypeInv, Guarded,
           \/ Deliver \/ Resync \/ CMUpdateFunc \/ OwnedEvent
           \/ \E r \in Requests : TimerFires(r) \/ Start(r)
           \/ Crash
    PROVE  Guarded' /\ KeepsSpec
<1>1. CASE Deliver
  <2>1. /\ watch \in Seq(Object \cup {None}) /\ watch # <<>>
        /\ watch' = Tail(watch) /\ cache' = Head(watch)
        /\ UNCHANGED <<api, fresh, sp>>
    BY <1>1 DEF Deliver, workerVars, TypeInv, TypeOK, ServerTypes
  <2>2. watch[Len(watch)] = api
    BY <2>1 DEF Guarded, PipelineInv
  <2>3. IF Len(watch) = 1 THEN watch' = <<>> /\ cache' = api
        ELSE watch' # <<>> /\ watch'[Len(watch')] = api
    <3>1. /\ watch' \in Seq(Object \cup {None})
          /\ Len(watch) \in Nat \ {0} /\ Len(watch') = Len(watch) - 1
          /\ \A k \in 1 .. Len(watch') : watch'[k] = watch[k + 1]
          /\ cache' = watch[1]
      BY <2>1
    <3>2. CASE Len(watch) = 1
      BY <2>2, <3>1, <3>2
    <3>3. CASE Len(watch) # 1
      BY <2>2, <3>1, <3>3
    <3> QED BY <3>2, <3>3
  <2>4. PipelineInv'
    BY <2>1, <2>3 DEF PipelineInv
  <2>5. FreshCopy'
    BY <2>1 DEF Guarded, FreshCopy
  <2>6. KeepsSpec
    BY <2>1 DEF KeepsSpec
  <2> QED BY <2>4, <2>5, <2>6 DEF Guarded
<1>2. CASE \/ Resync \/ CMUpdateFunc \/ OwnedEvent
           \/ \E r \in Requests : TimerFires(r)
  <2>1. UNCHANGED <<api, watch, cache, fresh, sp>>
    BY <1>2 DEF Resync, CMUpdateFunc, OwnedEvent, TimerFires, serverVars,
                informerVars, workerVars
  <2> QED BY <2>1, QuietStep
<1>3. ASSUME NEW r \in Requests, Start(r) PROVE Guarded' /\ KeepsSpec
  <2>1. UNCHANGED <<api, watch, cache>>
    BY <1>3 DEF Start, serverVars, informerVars
  <2>2. CASE UNCHANGED workerVars
    BY <2>1, <2>2, QuietStep DEF workerVars
  <2>3. CASE cache # None /\ sp' = cache /\ fresh' = (watch = <<>>)
    <3>1. FreshCopy'
      BY <2>1, <2>3 DEF Guarded, PipelineInv, FreshCopy
    <3>2. PipelineInv' /\ KeepsSpec
      BY <2>1 DEF Guarded, PipelineInv, KeepsSpec
    <3> QED BY <3>1, <3>2 DEF Guarded
  <2> QED BY <1>3, <2>2, <2>3 DEF Start
<1>4. CASE Crash
  <2>1. /\ api' = api /\ cache' = None /\ fresh' = FALSE
        /\ watch' = IF api = None THEN <<>> ELSE <<api>>
    BY <1>4 DEF Crash, Forget
  <2>2. PipelineInv'
    BY <2>1 DEF PipelineInv
  <2>3. FreshCopy' /\ KeepsSpec
    BY <2>1 DEF FreshCopy, KeepsSpec
  <2> QED BY <2>2, <2>3 DEF Guarded
<1> QED BY <1>1, <1>2, <1>3, <1>4

---------------------------------------------------------------------------
(* Reconcile.                                                              *)

\* The steps of Reconcile that write no status.
LEMMA SilentReconcileGuarded ==
    ASSUME TypeInv, Guarded,
           \/ PopulateApps \/ ParseSucceeds \/ ParseFails
           \/ CleanFails \/ StoreApps
           \/ CreateMessagingSystem \/ MessagingFails
           \/ DeploySwallowed \/ DeployFails \/ EndDeploy
           \/ CheckDeployment \/ CheckFails \/ EndPass
    PROVE  Guarded' /\ KeepsSpec
<1>1. CASE \/ PopulateApps \/ ParseSucceeds \/ ParseFails
           \/ CleanFails \/ StoreApps
  <2>1. UNCHANGED <<api, watch, cache, fresh, sp>>
    BY <1>1 DEF PopulateApps, ParseSucceeds, ParseFails, CleanFails, StoreApps,
                Goto, NoStatusUpdate, serverVars, informerVars
  <2> QED BY <2>1, QuietStep
<1>2. CASE \/ CreateMessagingSystem \/ MessagingFails
           \/ DeploySwallowed \/ DeployFails \/ EndDeploy
           \/ CheckDeployment \/ CheckFails
  <2>1. UNCHANGED <<api, watch, cache, fresh, sp>>
    BY <1>2 DEF CreateMessagingSystem, MessagingFails, DeploySwallowed,
                DeployFails, EndDeploy, CheckDeployment, CheckFails,
                Goto, NoStatusUpdate, serverVars, informerVars
  <2> QED BY <2>1, QuietStep
<1>3. CASE EndPass
  <2>1. UNCHANGED <<api, watch, cache>> /\ fresh' = FALSE
    BY <1>3 DEF EndPass, Return, Forget, serverVars, informerVars
  <2> QED BY <2>1, QuietStep
<1> QED BY <1>1, <1>2, <1>3

\* The steps of Reconcile that write a status, and what they write.
LEMMA WritingReconcileGuarded ==
    ASSUME TypeInv, Guarded,
           \/ CountAvailable \/ SetAvailabilityStatus
           \/ SetInitialState \/ UpgradeVersion \/ ReadApps
           \/ CleanArtifact \/ UpdatePartialAppStatus \/ DeployApp
           \/ SyncVersion \/ ResetReady
           \/ ContinueAfterError \/ ReturnAfterError
    PROVE  Guarded' /\ KeepsSpec
<1>0. /\ TypeOK
      /\ pc # "idle" => sp \in Object /\ sp # None
      /\ pc \in StepsWithApps => apps \in Source
  BY WorkerHolds, NoneAssumption DEF TypeInv
<1>1. sp \in Object /\ sp # None /\ pc # "idle"
  BY <1>0 DEF CountAvailable, SetAvailabilityStatus, SetInitialState,
              UpgradeVersion, ReadApps, CleanArtifact, UpdatePartialAppStatus,
              DeployApp, SyncVersion, ResetReady, ContinueAfterError,
              ReturnAfterError
<1>2. ASSUME NEW st \in Statuses
      PROVE  /\ WithStatus(st) \in Object
             /\ WithStatus(st).uid = sp.uid /\ WithStatus(st).spec = sp.spec
  <2>1. WithStatus(st) \in Object
    BY <1>0, <1>1, WithStatusType
  <2> QED BY <1>1, <2>1 DEF WithStatus, Object
<1>3. CASE CountAvailable
  <2>1. PICK r : /\ StatusUpdate([sp EXCEPT !.ready = r])
                 /\ UNCHANGED <<cache, fresh>>
    BY <1>3 DEF CountAvailable, Goto, informerVars
  <2>2. sp' = [sp EXCEPT !.ready = r] /\ sp' \in Object
    BY <1>3, <2>1, TimerKeepsTypes, NoneAssumption
       DEF StatusUpdate, CountAvailable, Goto, TypeInv, WorkerInv, TypeOK,
           WorkerTypes
  <2>3. sp'.uid = sp.uid /\ sp'.spec = sp.spec
    BY <1>1, <2>2 DEF Object
  <2> QED BY <2>1, <2>2, <2>3, StatusUpdateStep
<1>4. CASE SetAvailabilityStatus
  <2>1. UNCHANGED cache /\ fresh' = FALSE
    BY <1>4 DEF SetAvailabilityStatus, Return, Forget, informerVars
  <2>2. StatusOf(verdict) \in Statuses
    BY DEF StatusOf, Statuses
  <2>3. CASE UNCHANGED serverVars
    BY <2>1, <2>3, QuietStep DEF serverVars
  <2>4. CASE Put(WithStatus(StatusOf(verdict)))
    BY <1>2, <2>1, <2>2, <2>4, WriteStep
  <2> QED BY <1>4, <2>3, <2>4 DEF SetAvailabilityStatus
<1>5. CASE SetInitialState
  <2>1. UNCHANGED <<cache, fresh>>
    BY <1>5 DEF SetInitialState, Goto, informerVars
  <2>2. \/ StatusUpdate(WithStatus("Pending"))
        \/ StatusUpdate(WithStatus("Not Ready"))
        \/ UNCHANGED <<sp, api, watch>>
    BY <1>5 DEF SetInitialState, NoStatusUpdate
  <2>3. "Pending" \in Statuses /\ "Not Ready" \in Statuses
    BY DEF Statuses
  <2> QED BY <1>2, <2>1, <2>2, <2>3, StatusUpdateStep, QuietStep
<1>6. CASE UpgradeVersion
  <2> DEFINE obj == [sp EXCEPT !.cur = @ + 1]
  <2>1. StatusUpdate(obj) /\ UNCHANGED <<cache, fresh>>
    BY <1>6 DEF UpgradeVersion, Goto, informerVars
  <2>2. obj \in Object /\ obj.uid = sp.uid /\ obj.spec = sp.spec
    BY <1>1 DEF Object
  <2> HIDE DEF obj
  <2> QED BY <2>1, <2>2, StatusUpdateStep
<1>7. CASE ReadApps \/ CleanArtifact \/ DeployApp
  <2>1. UNCHANGED <<cache, fresh>>
    BY <1>7 DEF ReadApps, CleanArtifact, DeployApp, Goto, informerVars
  <2>2. StatusUpdate(sp) \/ UNCHANGED <<sp, api, watch>>
    BY <1>7 DEF ReadApps, CleanArtifact, DeployApp, NoStatusUpdate
  <2> QED BY <1>1, <2>1, <2>2, StatusUpdateStep, QuietStep
<1>8. CASE UpdatePartialAppStatus
  <2> DEFINE obj == [sp EXCEPT !.partial = apps]
  <2>1. StatusUpdate(obj) /\ UNCHANGED <<cache, fresh>>
    BY <1>8 DEF UpdatePartialAppStatus, Goto, informerVars
  <2>2. apps \in Source
    BY <1>0, <1>8, StepFacts DEF UpdatePartialAppStatus
  <2>3. obj \in Object /\ obj.uid = sp.uid /\ obj.spec = sp.spec
    BY <1>1, <2>2 DEF Object
  <2> HIDE DEF obj
  <2> QED BY <2>1, <2>3, StatusUpdateStep
<1>9. CASE SyncVersion
  <2>1. StatusUpdate(Synced(sp)) /\ UNCHANGED <<cache, fresh>>
    BY <1>9 DEF SyncVersion, Goto, informerVars
  <2>2. /\ Synced(sp) \in Object
        /\ Synced(sp).uid = sp.uid /\ Synced(sp).spec = sp.spec
    BY <1>1 DEF Object, Synced
  <2> QED BY <2>1, <2>2, StatusUpdateStep
<1>10. CASE ResetReady
  <2> DEFINE obj == [sp EXCEPT !.ready = <<0, Len(Parse(apps))>>]
  <2>1. StatusUpdate(obj) /\ UNCHANGED <<cache, fresh>>
    BY <1>10 DEF ResetReady, Goto, informerVars
  <2>2. <<0, Len(Parse(apps))>> \in Nat \X Nat
    BY <1>0, <1>10, StepFacts, ParseType DEF ResetReady
  <2>3. obj \in Object
    BY <1>1, <2>2, ObjectUpdate
  <2>4. obj.uid = sp.uid /\ obj.spec = sp.spec
    BY <1>1 DEF Object
  <2> HIDE DEF obj
  <2> QED BY <2>1, <2>3, <2>4, StatusUpdateStep
<1>11. CASE ContinueAfterError
  <2>1. StatusUpdate(WithStatus("Error")) /\ UNCHANGED <<cache, fresh>>
    BY <1>11 DEF ContinueAfterError, Goto, informerVars
  <2> QED BY <1>2, <2>1, StatusUpdateStep DEF Statuses
<1>12. CASE ReturnAfterError
  <2>1. Put(WithStatus("Error")) /\ UNCHANGED cache /\ fresh' = FALSE
    BY <1>12 DEF ReturnAfterError, Return, Forget, informerVars
  <2> QED BY <1>2, <2>1, WriteStep DEF Statuses
<1> QED BY <1>3, <1>4, <1>5, <1>6, <1>7, <1>8, <1>9, <1>10, <1>11, <1>12

---------------------------------------------------------------------------
LEMMA NextGuarded ==
    ASSUME TypeInv, Guarded, [Next]_vars
    PROVE  Guarded' /\ KeepsSpec
<1>1. CASE Reconcile
  BY <1>1, SilentReconcileGuarded, WritingReconcileGuarded DEF Reconcile
<1>2. CASE UNCHANGED vars
  <2>1. UNCHANGED <<api, watch, cache, fresh, sp>>
    BY <1>2 DEF vars, serverVars, informerVars, workerVars
  <2> QED BY <2>1, QuietStep
<1> QED
  BY <1>1, <1>2, EnvironmentGuarded, PredicatesGuarded, EventsGuarded DEF Next

\* In every execution a status write of Reconcile that the API server
\* accepts leaves the incarnation and the spec as the user left them, and a
\* copy that would be accepted is always a copy of what the server holds.
THEOREM NoClobberHolds == Spec => []FreshCopy /\ NoClobber
<1>1. Init => TypeInv /\ Guarded
  <2>1. Init => Guarded
    BY DEF Init, Guarded, PipelineInv, FreshCopy
  <2> QED BY <2>1, InitTypes
<1>2. TypeInv /\ Guarded /\ [Next]_vars => (TypeInv /\ Guarded)'
  BY NextKeepsTypes, NextGuarded
<1>3. TypeInv /\ Guarded /\ [Next]_vars => [KeepsSpec]_vars
  BY NextGuarded
<1>4. TypeInv /\ Guarded => FreshCopy
  BY DEF Guarded
<1> QED BY <1>1, <1>2, <1>3, <1>4, PTL DEF Spec, NoClobber
===========================================================================
