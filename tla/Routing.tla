------------------------------ MODULE Routing ------------------------------
(***************************************************************************)
(* How a change of a SiddhiProcess or of a ConfigMap finds its way to      *)
(* Reconcile: the predicates, the requests, which carry nothing but a      *)
(* name, the listeners in CMContainer, and the manager that holds them in  *)
(* memory (module Leader).  What Reconcile then does to the process is     *)
(* module SiddhiOperator; here a pass either reads the apps or takes the   *)
(* timer branch, and the ConfigMaps it Gets are up to date.                *)
(*                                                                         *)
(* A SiddhiProcess is the name of the ConfigMap it takes its apps from, or *)
(* "" when they are in its spec.  Processes and ConfigMaps may have the    *)
(* same name.                                                              *)
(***************************************************************************)
EXTENDS Leader

CONSTANTS
    None,          \* "not found"
    Processes,     \* names of SiddhiProcesses
    ConfigMaps,    \* names of ConfigMaps
    MaxChanges     \* changes by the user

ASSUME NamesAssumption ==
    /\ None \notin Processes \cup ConfigMaps
    /\ "" \notin ConfigMaps
    /\ MaxChanges \in Nat

VARIABLES
    sp,            \* the SiddhiProcesses in the API server
    cache,         \* those in the informer's cache
    cm,            \* the ConfigMaps that exist
    events,        \* events on their way to the predicates
    queue,         \* requests
    SPContainer,   \* the processes with a list of applications
    CMContainer,   \* the SiddhiProcess of each listener, or None
    loaded,        \* processes whose last pass read their apps
    readers,       \* processes that ever named a ConfigMap
    everCM,        \* ConfigMaps that ever existed
    due,           \* changes that Reconcile has yet to see: of the process's
                   \* "own" spec, or of its ConfigMap ("cm")
    changes        \* changes by the user so far

userVars == <<sp, cm, readers, everCM, changes>>
memoryVars == <<cache, queue, SPContainer, CMContainer>>
routingVars == <<userVars, memoryVars, events, loaded, due>>
vars == <<leaderVars, routingVars>>

Specs == ConfigMaps \cup {""}

Events == ({"sp"} \X Processes) \cup ({"update", "delete"} \X ConfigMaps)

TypeOK ==
    /\ LeaderTypes
    /\ sp \in [Processes -> Specs \cup {None}]
    /\ cache \in [Processes -> Specs \cup {None}]
    /\ cm \subseteq everCM /\ everCM \subseteq ConfigMaps
    /\ queue \subseteq Processes \cup ConfigMaps
    /\ SPContainer \subseteq Processes
    /\ \A m \in ConfigMaps : CMContainer[m] \in readers[m] \cup {None}
    /\ events \subseteq Events
    /\ loaded \subseteq Processes /\ due \subseteq Processes \X {"own", "cm"}
    /\ \A p \in loaded : sp[p] # None
    /\ readers \in [ConfigMaps -> SUBSET Processes]

Init ==
    /\ LeaderInit
    /\ sp = [p \in Processes |-> None]
    /\ cache = sp
    /\ cm = {} /\ everCM = {} /\ events = {} /\ queue = {}
    /\ SPContainer = {}
    /\ CMContainer = [m \in ConfigMaps |-> None]
    /\ loaded = {} /\ due = {} /\ changes = 0
    /\ readers = [m \in ConfigMaps |-> {}]

---------------------------------------------------------------------------
(* The user.  Events reach only a manager that runs.                       *)

Change ==
    /\ changes < MaxChanges
    /\ changes' = changes + 1
    /\ UNCHANGED <<leaderVars, memoryVars>>

Changes(p) == {p} \X {"own", "cm"}

Emit(e) == events' = IF Running THEN events \cup {e} ELSE events

\* The user creates a process or changes where its apps are.
WriteProcess(p, s) ==
    /\ Change
    /\ s # sp[p]
    /\ sp' = [sp EXCEPT ![p] = s]
    /\ readers' = [m \in ConfigMaps |->
                      readers[m] \cup (IF m = s THEN {p} ELSE {})]
    /\ due' = due \cup {<<p, "own">>}
    /\ loaded' = loaded \ {p}
    /\ Emit(<<"sp", p>>)
    /\ UNCHANGED <<cm, everCM>>

DeleteProcess(p) ==
    /\ Change
    /\ sp[p] # None
    /\ sp' = [sp EXCEPT ![p] = None]
    /\ due' = due \ Changes(p) /\ loaded' = loaded \ {p}
    /\ Emit(<<"sp", p>>)
    /\ UNCHANGED <<cm, everCM, readers>>

\* cmPredicate.CreateFunc returns false.
CreateConfigMap(m) ==
    /\ Change
    /\ m \notin cm
    /\ cm' = cm \cup {m} /\ everCM' = everCM \cup {m}
    /\ UNCHANGED <<sp, readers, due, loaded, events>>

DeleteConfigMap(m) ==
    /\ Change
    /\ m \in cm
    /\ cm' = cm \ {m}
    /\ due' = {d \in due : ~(d[2] = "cm" /\ sp[d[1]] = m)}
    /\ Emit(<<"delete", m>>)
    /\ UNCHANGED <<sp, everCM, readers, loaded>>

\* The content of a ConfigMap changes.  It concerns the processes that run
\* what they read from it.
UpdateConfigMap(m) ==
    /\ Change
    /\ m \in cm
    /\ due' = due \cup {<<p, "cm">> : p \in {q \in loaded : sp[q] = m}}
    /\ Emit(<<"update", m>>)
    /\ UNCHANGED <<sp, cm, everCM, readers, loaded>>

---------------------------------------------------------------------------
(* The manager.                                                            *)

\* Mutant of InitialEvents: the objects found at the start are ignored.
InitialEventsNone == {}

\* The informer lists the objects, and CreateFunc lets them through.
InitialEvents == {<<"sp", p>> : p \in {q \in Processes : sp[q] # None}}

\* add makes new maps; the cache is filled before the first event.
Start(p) ==
    /\ StartManager(p)
    /\ cache' = sp
    /\ queue' = {}
    /\ SPContainer' = {} /\ CMContainer' = [m \in ConfigMaps |-> None]
    /\ events' = InitialEvents
    /\ UNCHANGED <<userVars, loaded, due>>

\* The manager's process ends, and its memory with it.
Stop(p) ==
    /\ Exit(p) \/ PodDeleted(p)
    /\ IF phase[p] = "running"
       THEN /\ cache' = [q \in Processes |-> None]
            /\ queue' = {} /\ events' = {} /\ SPContainer' = {}
            /\ CMContainer' = [m \in ConfigMaps |-> None]
       ELSE UNCHANGED <<memoryVars, events>>
    /\ UNCHANGED <<userVars, loaded, due>>

\* The predicates.  An event of a process is enqueued under its name (the
\* specs differ), and DeleteFunc drops its list; the update of a ConfigMap
\* is enqueued only if it has a listener, its deletion always, as the
\* predicate has no DeleteFunc.
Deliver(e) ==
    /\ Running
    /\ events' = events \ {e}
    /\ cache' = IF e[1] = "sp" THEN [cache EXCEPT ![e[2]] = sp[e[2]]] ELSE cache
    /\ SPContainer' = IF e[1] = "sp" /\ sp[e[2]] = None
                      THEN SPContainer \ {e[2]} ELSE SPContainer
    /\ queue' = IF e[1] = "update" /\ CMContainer[e[2]] = None THEN queue
                ELSE queue \cup {e[2]}
    /\ UNCHANGED <<leaderVars, userVars, CMContainer, loaded, due>>

\* The process that a request is for: where a ConfigMap of that name exists,
\* the one that listens to it.
Resolve(r) == IF r \in cm THEN CMContainer[r] ELSE r

\* Mutant of Register: no listener is kept.
RegisterNot(m, p) == CMContainer

\* Mutant of Register: key and value are mixed up.
RegisterSwapped(m, p) == [CMContainer EXCEPT ![p] = m]

\* getSiddhiApps remembers the reader, the last one only.
Register(m, p) == [CMContainer EXCEPT ![m] = p]

\* The request resolves to no process: Reconcile returns.
NotFound(r) ==
    /\ Resolve(r) \in Processes => cache[Resolve(r)] = None
    /\ UNCHANGED <<SPContainer, CMContainer, loaded, due>>

\* EventType is Timer and there is a list: its availability is checked.
TimerBranch(p) ==
    /\ p \in SPContainer
    /\ UNCHANGED <<SPContainer, CMContainer, loaded>>

\* getSiddhiApps cannot read the ConfigMap: AppReadError, no retry.
AppReadError(p) ==
    /\ cache[p] # "" /\ cache[p] \notin cm
    /\ loaded' = loaded \ {p}
    /\ UNCHANGED <<SPContainer, CMContainer>>

\* getSiddhiApps reads them, and the parser may fail.
AppsRead(p) ==
    /\ cache[p] = "" \/ cache[p] \in cm
    /\ loaded' = IF cache[p] = sp[p] THEN loaded \cup {p} ELSE loaded
    /\ CMContainer' = IF cache[p] = "" THEN CMContainer ELSE Register(cache[p], p)
    /\ SPContainer' \in {SPContainer, SPContainer \cup {p}}

\* One request.  A pass on an outdated object leaves the change to be seen.
Reconcile(r) ==
    /\ Running
    /\ r \in queue
    /\ queue' = queue \ {r}
    /\ \/ NotFound(r)
       \/ \E p \in Processes :
              /\ p = Resolve(r) /\ cache[p] # None
              /\ TimerBranch(p) \/ AppReadError(p) \/ AppsRead(p)
              /\ due' = IF cache[p] = sp[p] THEN due \ Changes(p) ELSE due
    /\ UNCHANGED <<leaderVars, userVars, cache, events>>

---------------------------------------------------------------------------
User ==
    \/ \E p \in Processes :
           (\E s \in Specs : WriteProcess(p, s)) \/ DeleteProcess(p)
    \/ \E m \in ConfigMaps :
           CreateConfigMap(m) \/ DeleteConfigMap(m) \/ UpdateConfigMap(m)

\* The steps of a pod that is not the leader yet.
StartUp(p) == (Elect(p) \/ CreateLock(p)) /\ UNCHANGED routingVars

NewPod(p) == PodCreated(p) /\ UNCHANGED routingVars

LockCollected == CollectLock /\ UNCHANGED routingVars

Next ==
    \/ User
    \/ \E p \in Pods : NewPod(p) \/ StartUp(p) \/ Start(p) \/ Stop(p)
    \/ LockCollected
    \/ \E e \in events : Deliver(e)
    \/ \E r \in queue : Reconcile(r)

Spec == Init /\ [][Next]_vars

\* Pods that exist get on with starting up, the garbage collector runs, and
\* the goroutines of a running manager keep running.
FairSpec ==
    /\ Spec
    /\ \A p \in Pods : /\ WF_vars(StartUp(p)) /\ WF_vars(Start(p))
    /\ WF_vars(LockCollected)
    /\ \A e \in Events : WF_vars(e \in events /\ Deliver(e))
    /\ \A r \in Processes \cup ConfigMaps : WF_vars(Reconcile(r))

---------------------------------------------------------------------------
\* An operator that exists comes to work: as long as there is a pod, some
\* pod gets to run a manager, also when the leader was deleted or its
\* process ended at any step of its start-up.
TakeOver == (\E p \in Pods : Live(p)) ~> (Running \/ ~\E p \in Pods : Live(p))

NoOperator == \A p \in Pods : ~Live(p)

\* A created or changed process is brought before Reconcile, also when the
\* manager goes down on the way, unless there was a ConfigMap of the same
\* name: Reconcile takes the process's own request for one of the ConfigMap.
OwnRequestArrives ==
    \A p \in Processes :
        <<p, "own">> \in due
            ~> (<<p, "own">> \notin due \/ p \in everCM \/ NoOperator)

\* A change of a ConfigMap is brought before Reconcile for the process that
\* runs from it, provided that no other process ever named that ConfigMap:
\* CMContainer remembers one reader.
ChangeArrives ==
    \A p \in Processes, m \in ConfigMaps :
        (<<p, "cm">> \in due /\ sp[p] = m)
            ~> \/ <<p, "cm">> \notin due \/ p \in everCM
               \/ readers[m] # {p} \/ NoOperator
===========================================================================
