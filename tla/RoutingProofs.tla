--------------------------- MODULE RoutingProofs ---------------------------
(***************************************************************************)
(* For any number of pods, restarts and deletions, at most one pod runs a  *)
(* manager; and for any processes and ConfigMaps, the listeners that the   *)
(* running manager keeps are processes that named the ConfigMap.           *)
(***************************************************************************)
EXTENDS Routing, TLAPS

LEMMA LockInit == LeaderInit => LockInv
BY PodsAssumption DEF LeaderInit, LockInv, LeaderTypes, Phases

LEMMA LockNext == LockInv /\ [LeaderNext]_leaderVars => LockInv'
<1> SUFFICES ASSUME LockInv, [LeaderNext]_leaderVars PROVE LockInv'
  OBVIOUS
<1> USE PodsAssumption DEF LockInv, LeaderTypes, Phases, Enter
<1>1. ASSUME NEW p \in Pods, PodCreated(p) PROVE LockInv'
  BY <1>1 DEF PodCreated
<1>2. ASSUME NEW p \in Pods, Elect(p) PROVE LockInv'
  BY <1>2 DEF Elect, FoundMyLock
<1>3. ASSUME NEW p \in Pods, CreateLock(p) PROVE LockInv'
  BY <1>3 DEF CreateLock
<1>4. ASSUME NEW p \in Pods, StartManager(p) PROVE LockInv'
  BY <1>4 DEF StartManager
<1>5. ASSUME NEW p \in Pods, Exit(p) PROVE LockInv'
  BY <1>5 DEF Exit
<1>6. ASSUME NEW p \in Pods, PodDeleted(p) PROVE LockInv'
  BY <1>6 DEF PodDeleted
\* The lock that is collected belongs to a pod that is gone, and any pod
\* past Become would own it.
<1>7. CASE CollectLock
  BY <1>7 DEF CollectLock
<1>8. CASE UNCHANGED leaderVars
  BY <1>8 DEF leaderVars
<1> QED
  BY <1>1, <1>2, <1>3, <1>4, <1>5, <1>6, <1>7, <1>8 DEF LeaderNext

\* Two running pods would both own the one lock.
LEMMA LockGivesOneManager == LockInv => OneManager
BY DEF LockInv, OneManager

\* At most one pod runs a manager, however pods start, restart and go.
THEOREM OneManagerHolds == LeaderSpec => []OneManager
<1>1. LeaderSpec => []LockInv
  BY LockInit, LockNext, PTL DEF LeaderSpec
<1> QED
  BY <1>1, LockGivesOneManager, PTL

---------------------------------------------------------------------------
(* The specification with events and requests takes the steps of Leader.   *)

LEMMA PodSteps ==
    ASSUME [Next]_vars
    PROVE  [LeaderNext]_leaderVars
BY DEF Next, vars, User, WriteProcess, DeleteProcess, CreateConfigMap,
       DeleteConfigMap, UpdateConfigMap, Change, NewPod, StartUp, Start, Stop,
       LockCollected, Deliver, Reconcile, LeaderNext

\* At most one pod runs a manager while events are delivered and requests
\* handled: no process is reconciled by two managers at a time.
THEOREM OneManagerReconciles == Spec => []OneManager
<1>1. Init => LockInv
  BY LockInit DEF Init
<1>2. LockInv /\ [Next]_vars => LockInv'
  BY LockNext, PodSteps
<1> QED BY <1>1, <1>2, LockGivesOneManager, PTL DEF Spec

---------------------------------------------------------------------------
(* What the manager remembers.                                             *)

\* A process has named the ConfigMap that it, or an older copy of it in the
\* cache, takes its apps from.
NamedBy(copies) ==
    \A p \in Processes : copies[p] \in ConfigMaps => p \in readers[copies[p]]

MemoryInv ==
    /\ TypeOK
    /\ CMContainer \in [ConfigMaps -> Processes \cup {None}]
    /\ NamedBy(sp) /\ NamedBy(cache)

LEMMA MemoryInit == Init => MemoryInv
<1> SUFFICES ASSUME Init PROVE MemoryInv
  OBVIOUS
<1>1. LeaderTypes
  BY LockInit DEF Init, LockInv
<1> QED BY <1>1, NamesAssumption DEF Init, MemoryInv, TypeOK, NamedBy

LEMMA EventFacts ==
    ASSUME TypeOK, NEW e \in events
    PROVE  /\ e[1] = "sp" => e[2] \in Processes
           /\ e[1] # "sp" => e[2] \in ConfigMaps
           /\ e[2] \in Processes \cup ConfigMaps
BY DEF TypeOK, Events

LEMMA EventTypes ==
    /\ \A p \in Processes : <<"sp", p>> \in Events
    /\ \A m \in ConfigMaps : <<"update", m>> \in Events /\ <<"delete", m>> \in Events
    /\ \A p \in Processes : /\ <<p, "own">> \in Processes \X {"own", "cm"}
                            /\ <<p, "cm">> \in Processes \X {"own", "cm"}
BY DEF Events

LEMMA MemoryNext ==
    ASSUME MemoryInv, LockInv, [Next]_vars
    PROVE  MemoryInv'
<1>0. /\ TypeOK /\ LeaderTypes'
      /\ sp \in [Processes -> Specs \cup {None}]
      /\ cache \in [Processes -> Specs \cup {None}]
      /\ readers \in [ConfigMaps -> SUBSET Processes]
      /\ CMContainer \in [ConfigMaps -> Processes \cup {None}]
      /\ None \notin ConfigMaps /\ None \notin Processes /\ "" \notin ConfigMaps
      /\ Specs = ConfigMaps \cup {""}
  BY PodSteps, LockNext, NamesAssumption DEF MemoryInv, TypeOK, LockInv, Specs
<1>1. ASSUME NEW p \in Processes, NEW s \in Specs, WriteProcess(p, s)
      PROVE  MemoryInv'
  <2>1. /\ sp' = [sp EXCEPT ![p] = s] /\ loaded' = loaded \ {p}
        /\ readers' = [m \in ConfigMaps |->
                          readers[m] \cup (IF m = s THEN {p} ELSE {})]
        /\ due' = due \cup {<<p, "own">>}
        /\ events' = events \/ events' = events \cup {<<"sp", p>>}
        /\ UNCHANGED <<cm, everCM, cache, queue, SPContainer, CMContainer>>
    BY <1>1 DEF WriteProcess, Change, Emit, memoryVars
  <2>2. \A m \in ConfigMaps : readers[m] \subseteq readers'[m]
    BY <2>1
  <2>3. readers' \in [ConfigMaps -> SUBSET Processes]
    BY <1>0, <2>1
  <2>4. s \in ConfigMaps => p \in readers'[s]
    BY <2>1
  <2>5. NamedBy(sp)' /\ NamedBy(cache)'
    <3>1. ASSUME NEW q \in Processes, sp'[q] \in ConfigMaps
          PROVE  q \in readers'[sp'[q]]
      <4>1. CASE q = p
        BY <1>0, <2>1, <2>4, <3>1, <4>1
      <4>2. CASE q # p
        <5>1. sp'[q] = sp[q]
          BY <1>0, <2>1, <4>2
        <5>2. q \in readers[sp[q]]
          BY <3>1, <5>1 DEF MemoryInv, NamedBy
        <5> QED BY <2>2, <3>1, <5>1, <5>2
      <4> QED BY <4>1, <4>2
    <3>2. ASSUME NEW q \in Processes, cache'[q] \in ConfigMaps
          PROVE  q \in readers'[cache'[q]]
      <4>1. q \in readers[cache[q]]
        BY <2>1, <3>2 DEF MemoryInv, NamedBy
      <4> QED BY <2>1, <2>2, <3>2, <4>1
    <3> QED BY <3>1, <3>2 DEF NamedBy
  <2>6. events' \subseteq Events /\ due' \subseteq Processes \X {"own", "cm"}
    BY <1>0, <2>1, EventTypes DEF TypeOK
  <2>7. \A q \in loaded' : sp'[q] # None
    BY <1>0, <2>1 DEF TypeOK
  <2>8. \A m \in ConfigMaps : CMContainer'[m] \in readers'[m] \cup {None}
    BY <2>1, <2>2 DEF MemoryInv, TypeOK
  <2>9. sp' \in [Processes -> Specs \cup {None}]
    BY <1>0, <2>1
  <2>10. /\ cm' \subseteq everCM' /\ everCM' \subseteq ConfigMaps
         /\ queue' \subseteq Processes \cup ConfigMaps
         /\ SPContainer' \subseteq Processes /\ loaded' \subseteq Processes
         /\ cache' \in [Processes -> Specs \cup {None}]
         /\ CMContainer' \in [ConfigMaps -> Processes \cup {None}]
    BY <1>0, <2>1 DEF TypeOK
  <2> QED BY <1>0, <2>3, <2>5, <2>6, <2>7, <2>8, <2>9, <2>10 DEF MemoryInv, TypeOK
<1>2. ASSUME NEW p \in Processes, DeleteProcess(p) PROVE MemoryInv'
  <2>1. /\ sp' = [sp EXCEPT ![p] = None] /\ loaded' = loaded \ {p}
        /\ due' \subseteq due
        /\ events' = events \/ events' = events \cup {<<"sp", p>>}
        /\ UNCHANGED <<cm, everCM, readers, cache, queue, SPContainer, CMContainer>>
    BY <1>2 DEF DeleteProcess, Change, Emit, memoryVars
  <2>2. NamedBy(sp)' /\ NamedBy(cache)'
    BY <1>0, <2>1 DEF MemoryInv, NamedBy
  <2>3. events' \subseteq Events
    <3>1. events \subseteq Events
      BY <1>0 DEF TypeOK
    <3> QED BY <2>1, <3>1, EventTypes
  <2>4. \A q \in loaded' : sp'[q] # None
    BY <1>0, <2>1 DEF TypeOK
  <2>5. /\ cm' \subseteq everCM' /\ everCM' \subseteq ConfigMaps
         /\ queue' \subseteq Processes \cup ConfigMaps
         /\ SPContainer' \subseteq Processes /\ loaded' \subseteq Processes
         /\ cache' \in [Processes -> Specs \cup {None}]
         /\ CMContainer' \in [ConfigMaps -> Processes \cup {None}]
    BY <1>0, <2>1 DEF TypeOK
  <2>6. /\ sp' \in [Processes -> Specs \cup {None}]
        /\ due' \subseteq Processes \X {"own", "cm"}
    BY <1>0, <2>1 DEF TypeOK
  <2>7. /\ \A m \in ConfigMaps : CMContainer'[m] \in readers'[m] \cup {None}
        /\ readers' \in [ConfigMaps -> SUBSET Processes]
    BY <1>0, <2>1 DEF TypeOK
  <2> QED BY <1>0, <2>2, <2>3, <2>4, <2>5, <2>6, <2>7 DEF MemoryInv, TypeOK
<1>3. ASSUME NEW m \in ConfigMaps,
             CreateConfigMap(m) \/ DeleteConfigMap(m) \/ UpdateConfigMap(m)
      PROVE  MemoryInv'
  <2>1. /\ cm' \subseteq everCM' /\ everCM' \subseteq ConfigMaps
        /\ UNCHANGED <<sp, readers, cache, queue, SPContainer, CMContainer, loaded>>
    BY <1>0, <1>3 DEF CreateConfigMap, DeleteConfigMap, UpdateConfigMap, Change,
                      memoryVars, TypeOK
  <2>2. due' \subseteq Processes \X {"own", "cm"}
    <3>1. due \subseteq Processes \X {"own", "cm"} /\ loaded \subseteq Processes
      BY <1>0 DEF TypeOK
    <3>2. due' \subseteq due \cup {<<q, "cm">> : q \in Processes}
      BY <1>3, <3>1 DEF CreateConfigMap, DeleteConfigMap, UpdateConfigMap
    <3> QED BY <3>1, <3>2, EventTypes
  <2>3. events' \subseteq Events
    <3>1. events' \subseteq events \cup {<<"update", m>>, <<"delete", m>>}
      BY <1>3 DEF CreateConfigMap, DeleteConfigMap, UpdateConfigMap, Emit
    <3>2. events \subseteq Events
      BY <1>0 DEF TypeOK
    <3> QED BY <3>1, <3>2, EventTypes
  <2>4. NamedBy(sp)' /\ NamedBy(cache)'
    BY <2>1 DEF MemoryInv, NamedBy
  <2>5. /\ cm' \subseteq everCM' /\ everCM' \subseteq ConfigMaps
         /\ queue' \subseteq Processes \cup ConfigMaps
         /\ SPContainer' \subseteq Processes /\ loaded' \subseteq Processes
         /\ cache' \in [Processes -> Specs \cup {None}]
         /\ CMContainer' \in [ConfigMaps -> Processes \cup {None}]
    BY <1>0, <2>1 DEF TypeOK
  <2>6. /\ \A q \in loaded' : sp'[q] # None
        /\ sp' \in [Processes -> Specs \cup {None}]
        /\ \A n \in ConfigMaps : CMContainer'[n] \in readers'[n] \cup {None}
        /\ readers' \in [ConfigMaps -> SUBSET Processes]
    BY <1>0, <2>1 DEF TypeOK
  <2> QED BY <1>0, <2>2, <2>3, <2>4, <2>5, <2>6 DEF MemoryInv, TypeOK
<1>4. ASSUME NEW p \in Pods, NewPod(p) \/ StartUp(p) PROVE MemoryInv'
  BY <1>0, <1>4 DEF NewPod, StartUp, routingVars, userVars, memoryVars,
                    MemoryInv, TypeOK, NamedBy
<1>5. CASE LockCollected \/ UNCHANGED vars
  BY <1>0, <1>5 DEF LockCollected, vars, routingVars, userVars, memoryVars,
                    MemoryInv, TypeOK, NamedBy
<1>6. ASSUME NEW p \in Pods, Start(p) PROVE MemoryInv'
  <2>1. /\ cache' = sp /\ queue' = {} /\ SPContainer' = {}
        /\ CMContainer' = [m \in ConfigMaps |-> None] /\ events' = InitialEvents
        /\ UNCHANGED <<sp, cm, readers, everCM, loaded, due>>
    BY <1>6 DEF Start, userVars
  <2>2. events' \subseteq Events
    BY <2>1 DEF InitialEvents, Events
  <2>3. NamedBy(sp)' /\ NamedBy(cache)'
    BY <2>1 DEF MemoryInv, NamedBy
  <2> QED BY <1>0, <2>1, <2>2, <2>3 DEF MemoryInv, TypeOK
<1>7. ASSUME NEW p \in Pods, Stop(p) PROVE MemoryInv'
  <2>1. /\ UNCHANGED <<sp, cm, readers, everCM, loaded, due>>
        /\ \/ UNCHANGED <<cache, queue, SPContainer, CMContainer, events>>
           \/ /\ cache' = [q \in Processes |-> None]
              /\ queue' = {} /\ events' = {} /\ SPContainer' = {}
              /\ CMContainer' = [m \in ConfigMaps |-> None]
    BY <1>7 DEF Stop, userVars, memoryVars
  <2>2. NamedBy(sp)' /\ NamedBy(cache)'
    BY <1>0, <2>1 DEF MemoryInv, NamedBy
  <2> QED BY <1>0, <2>1, <2>2 DEF MemoryInv, TypeOK
<1>8. ASSUME NEW e \in events, Deliver(e) PROVE MemoryInv'
  <2>1. /\ events' = events \ {e}
        /\ cache' = IF e[1] = "sp" THEN [cache EXCEPT ![e[2]] = sp[e[2]]] ELSE cache
        /\ SPContainer' \subseteq SPContainer /\ queue' \subseteq queue \cup {e[2]}
        /\ UNCHANGED <<sp, cm, readers, everCM, CMContainer, loaded, due>>
    BY <1>8 DEF Deliver, userVars
  <2>2. cache' \in [Processes -> Specs \cup {None}]
    BY <1>0, <1>8, <2>1, EventFacts
  <2>3. NamedBy(sp)' /\ NamedBy(cache)'
    BY <1>0, <1>8, <2>1, EventFacts DEF MemoryInv, NamedBy
  <2>4. queue' \subseteq Processes \cup ConfigMaps
    <3>1. e[2] \in Processes \cup ConfigMaps
      BY <1>0, <1>8, EventFacts
    <3>2. queue \subseteq Processes \cup ConfigMaps
      BY <1>0 DEF TypeOK
    <3> QED BY <2>1, <3>1, <3>2
  <2> QED BY <1>0, <2>1, <2>2, <2>3, <2>4 DEF MemoryInv, TypeOK
<1>9. ASSUME NEW r \in queue, Reconcile(r) PROVE MemoryInv'
  <2>1. /\ queue' = queue \ {r}
        /\ UNCHANGED <<sp, cm, readers, everCM, cache, events>>
    BY <1>9 DEF Reconcile, userVars
  <2>2. NamedBy(sp)' /\ NamedBy(cache)'
    BY <2>1 DEF MemoryInv, NamedBy
  <2>3. CASE NotFound(r)
    BY <1>0, <2>1, <2>2, <2>3 DEF NotFound, MemoryInv, TypeOK
  <2>4. ASSUME NEW p \in Processes, cache[p] # None,
               TimerBranch(p) \/ AppReadError(p) \/ AppsRead(p),
               due' \subseteq due
        PROVE  MemoryInv'
    <3>1. SPContainer' \subseteq Processes
      BY <1>0, <2>4 DEF TimerBranch, AppReadError, AppsRead, TypeOK
    <3>2. loaded' \subseteq Processes /\ \A q \in loaded' : sp'[q] # None
      BY <1>0, <2>1, <2>4 DEF TimerBranch, AppReadError, AppsRead, TypeOK
    <3>3. \/ UNCHANGED CMContainer
          \/ cache[p] # "" /\ CMContainer' = [CMContainer EXCEPT ![cache[p]] = p]
      BY <2>4 DEF TimerBranch, AppReadError, AppsRead, Register
    <3>4. cache[p] # "" => cache[p] \in ConfigMaps /\ p \in readers[cache[p]]
      BY <1>0, <2>4 DEF MemoryInv, NamedBy
    <3>5. /\ CMContainer' \in [ConfigMaps -> Processes \cup {None}]
          /\ \A m \in ConfigMaps : CMContainer'[m] \in readers'[m] \cup {None}
      <4>1. \A m \in ConfigMaps : CMContainer[m] \in readers[m] \cup {None}
        BY <1>0 DEF TypeOK
      <4>2. readers' = readers
        BY <2>1
      <4>3. CASE UNCHANGED CMContainer
        BY <1>0, <4>1, <4>2, <4>3
      <4>4. CASE cache[p] # "" /\ CMContainer' = [CMContainer EXCEPT ![cache[p]] = p]
        <5>1. cache[p] \in ConfigMaps /\ p \in readers[cache[p]]
          BY <3>4, <4>4
        <5>2. CMContainer' \in [ConfigMaps -> Processes \cup {None}]
          BY <1>0, <4>4, <5>1
        <5>3. ASSUME NEW m \in ConfigMaps
              PROVE  CMContainer'[m] = IF m = cache[p] THEN p ELSE CMContainer[m]
          BY <1>0, <4>4
        <5> QED BY <4>1, <4>2, <5>1, <5>2, <5>3
      <4> QED BY <3>3, <4>3, <4>4
    <3> QED BY <1>0, <2>1, <2>2, <2>4, <3>1, <3>2, <3>5 DEF MemoryInv, TypeOK
  <2> QED BY <1>9, <2>3, <2>4 DEF Reconcile
<1> QED BY <1>1, <1>2, <1>3, <1>4, <1>5, <1>6, <1>7, <1>8, <1>9 DEF Next, User

\* For any processes and ConfigMaps, every listener in CMContainer is a
\* process that named the ConfigMap, also when a pass worked on an outdated
\* copy, and a process that runs what it read still exists.
THEOREM ListenersNamed == Spec => []TypeOK
<1>1. Init => LockInv /\ MemoryInv
  BY LockInit, MemoryInit DEF Init
<1>2. LockInv /\ MemoryInv /\ [Next]_vars => (LockInv /\ MemoryInv)'
  BY LockNext, PodSteps, MemoryNext
<1>3. MemoryInv => TypeOK
  BY DEF MemoryInv
<1> QED BY <1>1, <1>2, <1>3, PTL DEF Spec
===========================================================================
