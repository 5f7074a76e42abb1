------------------------- MODULE MCSiddhiOperator -------------------------
(***************************************************************************)
(* Small instances of SiddhiOperator for TLC: two specs, "one" with a      *)
(* single stateful application and "two" with a stateful and a stateless   *)
(* one, so that going from "two" to "one" leaves a deployment to clean up. *)
(***************************************************************************)
EXTENDS SiddhiOperator

SameSpec(s, t) == s = t

Never(s) == FALSE

App(n, p) == [replicas |-> n, persistent |-> p]

\* One replica everywhere.
ParseSingle(src) ==
    IF src.spec = "one" THEN <<App(1, TRUE)>>
    ELSE <<App(1, TRUE), App(1, FALSE)>>

\* The stateful application is scaled by the change of spec as well.
ParseScaled(src) ==
    IF src.spec = "one" THEN <<App(2, TRUE)>>
    ELSE <<App(1, TRUE), App(1, FALSE)>>

\* The apps come from the ConfigMap in both specs.
Always(s) == TRUE

ParseConfigMap(src) ==
    IF src.cm < 2 THEN <<App(1, TRUE), App(1, FALSE)>> ELSE <<App(1, TRUE)>>

\* Only spec "two" leaves the messaging system to the operator.
TwoNeedsNATS(s) == s = "two"
===========================================================================
