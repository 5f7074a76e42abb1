------------------------ MODULE AvailabilityProofs ------------------------
(***************************************************************************)
(* For any number of applications and replicas: the totals that            *)
(* CheckAvailableDeployments compares are natural numbers, and outside a   *)
(* surge equal totals mean that every single deployment is complete.       *)
(***************************************************************************)
EXTENDS Availability, FiniteSetTheorems, TLAPS

\* A finite number of counters counts a finite set of replicas.
LEMMA ReplicasFinite ==
    ASSUME NEW I, IsFiniteSet(I), NEW count, \A i \in I : count[i] \in Nat
    PROVE  IsFiniteSet(Replicas(count, I))
<1> DEFINE R(i) == {i} \X (1 .. count[i])
           T == {R(i) : i \in I}
           f == [i \in I |-> R(i)]
<1>1. f \in Surjection(I, T)
  BY DEF Surjection
<1>2. IsFiniteSet(T)
  <2> HIDE DEF f, T
  <2> QED BY <1>1, FS_Surjection
<1>3. ASSUME NEW X \in T PROVE IsFiniteSet(X)
  <2>1. PICK i \in I : X = R(i)
    OBVIOUS
  <2>2. IsFiniteSet({i})
    BY FS_Singleton
  <2>3. IsFiniteSet(1 .. count[i])
    BY FS_Interval
  <2>4. IsFiniteSet(R(i))
    BY <2>2, <2>3, FS_Product
  <2> QED BY <2>1, <2>4
<1>4. IsFiniteSet(UNION T)
  <2> HIDE DEF T
  <2> QED BY <1>2, <1>3, FS_UNION
<1> QED BY <1>4 DEF Replicas

\* The running totals of the loop are natural numbers.
LEMMA TotalType ==
    ASSUME NEW I, IsFiniteSet(I), NEW count, \A i \in I : count[i] \in Nat
    PROVE  Total(count, I) \in Nat
<1>1. IsFiniteSet(Replicas(count, I))
  BY ReplicasFinite
<1> QED BY <1>1, FS_CardinalityType DEF Total

Counts(count, I) == \A i \in I : count[i] \in Nat

AtMost(have, want, J) == \A i \in J : have[i] <= want[i]

Complete(have, want, I, J) ==
    \A i \in I : want[i] > 0 => i \in J /\ have[i] = want[i]

\* Equal totals of which one is nowhere above the other are equal
\* everywhere: no deployment's surplus can hide another one's deficit.
LEMMA EqualTotals ==
    ASSUME NEW I, IsFiniteSet(I), NEW J \in SUBSET I,
           NEW have, NEW want, Counts(have, J), Counts(want, I),
           AtMost(have, want, J),
           Total(have, J) = Total(want, I)
    PROVE  Complete(have, want, I, J)
<1> USE DEF Counts, AtMost
<1>1. IsFiniteSet(Replicas(want, I))
  BY ReplicasFinite
<1>2. Replicas(have, J) \subseteq Replicas(want, I)
  BY DEF Replicas
<1>3. Replicas(want, I) = Replicas(have, J)
  BY <1>1, <1>2, FS_Subset DEF Total
<1> SUFFICES ASSUME NEW i \in I, want[i] > 0
             PROVE  i \in J /\ have[i] = want[i]
  BY DEF Complete
<1>4. <<i, want[i]>> \in Replicas(want, I)
  BY DEF Replicas
<1>5. <<i, want[i]>> \in Replicas(have, J)
  BY <1>3, <1>4
<1>6. i \in J /\ want[i] <= have[i]
  BY <1>5 DEF Replicas
<1> QED BY <1>6

---------------------------------------------------------------------------
\* The shape of what CheckAvailableDeployments reads.
Reading(apps, found, avail) ==
    /\ apps \in Seq(Application)
    /\ found \subseteq DOMAIN apps
    /\ \A i \in DOMAIN apps : avail[i] \in Nat

LEMMA ReadingFinite ==
    ASSUME NEW apps, NEW found, NEW avail, Reading(apps, found, avail)
    PROVE  /\ IsFiniteSet(DOMAIN apps) /\ IsFiniteSet(Stateful(apps))
           /\ \A i \in DOMAIN apps : Wanted(apps)[i] \in Nat
           /\ \A i \in DOMAIN apps : Wanted(apps)[i] = apps[i].replicas
<1>1. DOMAIN apps = 1 .. Len(apps) /\ Len(apps) \in Nat
  BY DEF Reading
<1>2. IsFiniteSet(DOMAIN apps)
  BY <1>1, FS_Interval
<1>3. IsFiniteSet(Stateful(apps))
  BY <1>2, FS_Subset DEF Stateful
<1>4. \A i \in DOMAIN apps : apps[i] \in Application
  BY <1>1 DEF Reading
<1> QED BY <1>2, <1>3, <1>4 DEF Wanted, Application

\* Status.Ready always holds two natural numbers.
LEMMA ReadyPairType ==
    ASSUME NEW apps, NEW found, NEW avail, Reading(apps, found, avail)
    PROVE  ReadyPair(apps, found, avail) \in Nat \X Nat
<1> DEFINE D == DOMAIN apps
<1>1. IsFiniteSet(D) /\ \A i \in D : Wanted(apps)[i] \in Nat
  BY ReadingFinite
<1>2. IsFiniteSet(found \cap D) /\ \A i \in found \cap D : avail[i] \in Nat
  BY <1>1, FS_Subset DEF Reading
<1>3. Total(Wanted(apps), D) \in Nat
  <2> HIDE DEF D
  <2> QED BY <1>1, TotalType
<1>4. Total(avail, found \cap D) \in Nat
  <2> HIDE DEF D
  <2> QED BY <1>2, TotalType
<1> QED BY <1>3, <1>4 DEF ReadyPair, availableDeployments, needDeployments

LEMMA VerdictType ==
    ASSUME NEW apps, NEW found, NEW avail
    PROVE  Verdict(apps, found, avail) \in Verdicts
BY DEF Verdict, Verdicts

\* When CheckAvailableDeployments returns terminate = true and polling
\* stops, every wanted replica of every application is available, although
\* the code only compares two sums.  No surge is the only assumption.
THEOREM TerminateSound ==
    ASSUME NEW apps, NEW found, NEW avail, Reading(apps, found, avail),
           NoSurge(apps, found, avail),
           Verdict(apps, found, avail) = "all"
    PROVE  FullyAvailable(apps, found, avail, DOMAIN apps)
<1> DEFINE D == DOMAIN apps
           want == Wanted(apps)
<1>1. /\ IsFiniteSet(D)
      /\ \A i \in D : want[i] \in Nat /\ want[i] = apps[i].replicas
  BY ReadingFinite
<1>2. found \cap D = found /\ found \subseteq D
  BY DEF Reading
<1>3. Total(avail, found \cap D) = Total(want, D)
  BY DEF Verdict, availableDeployments, needDeployments
<1>4. \A i \in found : avail[i] \in Nat /\ avail[i] <= want[i]
  BY <1>1, <1>2 DEF Reading, NoSurge
<1>5. Complete(avail, want, D, found)
  <2>1. /\ found \in SUBSET D
        /\ Total(avail, found) = Total(want, D)
    BY <1>2, <1>3
  <2>2. Counts(avail, found) /\ AtMost(avail, want, found)
    BY <1>4 DEF Counts, AtMost
  <2>3. Counts(want, D)
    BY <1>1 DEF Counts
  <2> HIDE DEF D, want
  <2> QED BY <1>1, <2>1, <2>2, <2>3, EqualTotals
<1> QED BY <1>1, <1>5 DEF FullyAvailable, Complete

\* Whenever CheckAvailableDeployments sets the status Ready, every stateful
\* application is complete, outside a surge.
THEOREM ReadySound ==
    ASSUME NEW apps, NEW found, NEW avail, Reading(apps, found, avail),
           NoSurge(apps, found, avail),
           Verdict(apps, found, avail) # "notReady"
    PROVE  FullyAvailable(apps, found, avail, Stateful(apps))
<1>0. Stateful(apps) \subseteq DOMAIN apps
  BY DEF Stateful
<1>1. CASE Verdict(apps, found, avail) = "all"
  BY <1>0, <1>1, TerminateSound DEF FullyAvailable
<1>2. CASE Verdict(apps, found, avail) = "ready"
  <2> DEFINE S == Stateful(apps)
             want == Wanted(apps)
             F == found \cap S
  <2>1. /\ IsFiniteSet(S)
        /\ \A i \in S : want[i] \in Nat /\ want[i] = apps[i].replicas
    BY <1>0, ReadingFinite
  <2>2. Total(avail, F) = Total(want, S)
    BY <1>2 DEF Verdict, availableDeployments, needDeployments
  <2>3. \A i \in F : avail[i] \in Nat /\ avail[i] <= want[i]
    BY <2>1, <1>0 DEF Reading, NoSurge
  <2>4. F \in SUBSET S
    OBVIOUS
  <2>5. Complete(avail, want, S, F)
    <3>1. Counts(avail, F) /\ AtMost(avail, want, F)
      BY <2>3 DEF Counts, AtMost
    <3>2. Counts(want, S)
      BY <2>1 DEF Counts
    <3> HIDE DEF S, want, F
    <3> QED BY <2>1, <2>2, <2>4, <3>1, <3>2, EqualTotals
  <2> QED BY <2>1, <2>5 DEF FullyAvailable, Complete
<1> QED BY <1>1, <1>2, VerdictType DEF Verdicts
===========================================================================
