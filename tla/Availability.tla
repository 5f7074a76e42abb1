--------------------------- MODULE Availability ---------------------------
(***************************************************************************)
(* The arithmetic of SiddhiController.CheckAvailableDeployments: from the  *)
(* applications of a SiddhiProcess and the available replicas of their     *)
(* deployments, the "available/needed" text of Status.Ready and the        *)
(* verdict that decides the status and whether polling stops.              *)
(*                                                                         *)
(*   apps   sequence of [replicas, persistent], one per deployment         *)
(*   found  the positions whose deployment the API server knows (err=nil)  *)
(*   avail  AvailableReplicas of each deployment (read only for found)     *)
(*                                                                         *)
(* The running totals of the Go loop are cardinalities of sets of          *)
(* <<position, replica>> pairs, which is a sum a proof can reason about.   *)
(***************************************************************************)
EXTENDS Naturals, Sequences, FiniteSets

Application == [replicas : Nat, persistent : BOOLEAN]

\* The replicas, one pair each, of the positions in I.
Replicas(count, I) == UNION {{i} \X (1 .. count[i]) : i \in I}

Total(count, I) == Cardinality(Replicas(count, I))

Wanted(apps) == [i \in DOMAIN apps |-> apps[i].replicas]

Stateful(apps) == {i \in DOMAIN apps : apps[i].persistent}

needDeployments(apps, I) == Total(Wanted(apps), I)

availableDeployments(avail, found, I) == Total(avail, found \cap I)

\* Set to FALSE only by a deployment that exists and has no available
\* replica: a stateless deployment that is missing does not count.
isStatelessReady(apps, found, avail) ==
    \A i \in found \ Stateful(apps) : avail[i] # 0

\* The value of Status.Ready, kept as a pair instead of the text "a/n".
ReadyPair(apps, found, avail) ==
    <<availableDeployments(avail, found, DOMAIN apps),
      needDeployments(apps, DOMAIN apps)>>

---------------------------------------------------------------------------
(* Mutants of Verdict.                                                     *)

VerdictAtLeast(apps, found, avail) ==
    IF availableDeployments(avail, found, DOMAIN apps) + 1
         >= needDeployments(apps, DOMAIN apps)
    THEN "all" ELSE "notReady"

VerdictIgnoresStateful(apps, found, avail) ==
    CASE availableDeployments(avail, found, DOMAIN apps)
           = needDeployments(apps, DOMAIN apps) -> "all"
      [] isStatelessReady(apps, found, avail) -> "ready"
      [] OTHER -> "notReady"

VerdictAlwaysPolls(apps, found, avail) ==
    IF /\ isStatelessReady(apps, found, avail)
       /\ availableDeployments(avail, found, Stateful(apps))
            = needDeployments(apps, Stateful(apps))
    THEN "ready" ELSE "notReady"

---------------------------------------------------------------------------
(* The branch CheckAvailableDeployments ends in: "all" sets Ready and      *)
(* terminates the polling, "ready" sets Ready and keeps polling,           *)
(* "notReady" keeps polling.                                               *)
Verdict(apps, found, avail) ==
    IF availableDeployments(avail, found, DOMAIN apps)
         = needDeployments(apps, DOMAIN apps)
    THEN "all"
    ELSE IF /\ isStatelessReady(apps, found, avail)
            /\ availableDeployments(avail, found, Stateful(apps))
                 = needDeployments(apps, Stateful(apps))
    THEN "ready"
    ELSE "notReady"

Verdicts == {"all", "ready", "notReady"}

---------------------------------------------------------------------------
(* What the verdicts promise about the individual deployments.             *)

\* No deployment has more available replicas than its application asks for:
\* true outside a rolling update (maxSurge) and a scale-down.
NoSurge(apps, found, avail) ==
    \A i \in found : avail[i] <= apps[i].replicas

\* Every wanted replica of the positions in I is available.
FullyAvailable(apps, found, avail, I) ==
    \A i \in I : apps[i].replicas > 0
                    => i \in found /\ avail[i] = apps[i].replicas
===========================================================================
