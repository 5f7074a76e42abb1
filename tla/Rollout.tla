------------------------------ MODULE Rollout ------------------------------
(***************************************************************************)
(* What the operator promises about the deployments of a SiddhiProcess,    *)
(* without saying how: the user writes specs, numbered in the order they   *)
(* are written, and the operator brings the deployments forward.  A        *)
(* deployment may skip a spec or stay behind for a while, but it is never  *)
(* made from a spec that nobody wrote, and once some deployment runs a     *)
(* spec, no deployment is taken back to an older one.                      *)
(***************************************************************************)
EXTENDS Naturals

CONSTANT Slots      \* the places a deployment can take

VARIABLES
    gen,            \* number of the last spec the user has written
    runs            \* number of the spec each slot was made from, or 0

vars == <<gen, runs>>

Init ==
    /\ gen = 0
    /\ runs = [i \in Slots |-> 0]

\* The user creates the process or changes its spec.
Write ==
    /\ gen' = gen + 1
    /\ UNCHANGED runs

\* The operator writes a deployment.
Apply(i) ==
    /\ \E g \in 1 .. gen :
           /\ \A j \in Slots : runs[j] <= g
           /\ runs' = [runs EXCEPT ![i] = g]
    /\ UNCHANGED gen

\* The operator or the garbage collector deletes one.
Remove(i) ==
    /\ runs' = [runs EXCEPT ![i] = 0]
    /\ UNCHANGED gen

Next == Write \/ \E i \in Slots : Apply(i) \/ Remove(i)

Spec == Init /\ [][Next]_vars
===========================================================================
