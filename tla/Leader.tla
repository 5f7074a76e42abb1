------------------------------ MODULE Leader ------------------------------
(***************************************************************************)
(* The start-up of the operator's pods: main calls leader.Become, which    *)
(* returns once the pod owns the ConfigMap "siddhi-operator-lock", then    *)
(* builds the manager and runs it.  A start-up step that fails ends the    *)
(* process; the kubelet starts the container of the same pod again.  The   *)
(* lock belongs to the pod, not to the process: it outlives a restart of   *)
(* the container, and the garbage collector deletes it once the pod is     *)
(* gone.  A pod counts as gone when its containers have ended.             *)
(***************************************************************************)
EXTENDS Naturals

CONSTANTS
    NoPod,       \* the lock does not exist
    Pods,        \* names of the operator's pods, each used once
    MaxExits     \* exits of an operator process that are not the pod's end

ASSUME PodsAssumption == NoPod \notin Pods /\ MaxExits \in Nat

VARIABLES
    phase,       \* where main is, in each pod
    lock,        \* the pod that owns siddhi-operator-lock, or NoPod
    exits        \* exits so far

leaderVars == <<phase, lock, exits>>

Phases == {"unborn", "start", "waiting", "setup", "running", "gone"}

LeaderTypes ==
    /\ phase \in [Pods -> Phases]
    /\ lock \in Pods \cup {NoPod}
    /\ exits \in 0 .. MaxExits

LeaderInit ==
    /\ phase = [p \in Pods |-> "unborn"]
    /\ lock = NoPod
    /\ exits = 0

Live(p) == phase[p] \notin {"unborn", "gone"}

Running == \E p \in Pods : phase[p] = "running"

Enter(p, ph) == phase' = [phase EXCEPT ![p] = ph]

PodCreated(p) ==
    /\ phase[p] = "unborn"
    /\ Enter(p, "start")
    /\ UNCHANGED <<lock, exits>>

\* Mutant of FoundMyLock: any lock is taken for one's own.
FoundMyLockAny(p) == lock # NoPod

\* Mutant of FoundMyLock: a restarted leader does not know its lock again.
FoundMyLockNever(p) == FALSE

\* Become finds an existing lock with the name of this pod.
FoundMyLock(p) == lock = p

\* main up to the Get of the lock.
Elect(p) ==
    /\ phase[p] = "start"
    /\ Enter(p, IF FoundMyLock(p) THEN "setup" ELSE "waiting")
    /\ UNCHANGED <<lock, exits>>

\* The Create that Become repeats until it succeeds.
CreateLock(p) ==
    /\ phase[p] = "waiting" /\ lock = NoPod
    /\ lock' = p
    /\ Enter(p, "setup")
    /\ UNCHANGED exits

\* The rest of main: the manager, the schemes, the controllers.  That the
\* metrics port cannot be exposed is only logged.
StartManager(p) ==
    /\ phase[p] = "setup"
    /\ Enter(p, "running")
    /\ UNCHANGED <<lock, exits>>

\* os.Exit(1), or the end of the process for any other reason.
Exit(p) ==
    /\ phase[p] \in {"start", "waiting", "setup", "running"}
    /\ exits < MaxExits
    /\ exits' = exits + 1
    /\ Enter(p, "start")
    /\ UNCHANGED lock

PodDeleted(p) ==
    /\ Live(p)
    /\ Enter(p, "gone")
    /\ UNCHANGED <<lock, exits>>

CollectLock ==
    /\ lock # NoPod
    /\ phase[lock] = "gone"
    /\ lock' = NoPod
    /\ UNCHANGED <<phase, exits>>

LeaderNext ==
    \/ \E p \in Pods :
           \/ PodCreated(p) \/ Elect(p) \/ CreateLock(p) \/ StartManager(p)
           \/ Exit(p) \/ PodDeleted(p)
    \/ CollectLock

LeaderSpec == LeaderInit /\ [][LeaderNext]_leaderVars

---------------------------------------------------------------------------
\* The containers in main.go share no memory: two managers would reconcile
\* the same objects with different SPContainers.  Whatever restarts or is
\* deleted when, at most one pod runs a manager.
OneManager ==
    \A p, q \in Pods :
        (phase[p] = "running" /\ phase[q] = "running") => p = q

\* What makes OneManager inductive: a pod past Become owns the lock.
LockInv ==
    /\ LeaderTypes
    /\ \A p \in Pods : phase[p] \in {"setup", "running"} => lock = p
===========================================================================
