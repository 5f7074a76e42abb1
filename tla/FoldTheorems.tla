--------------------------- MODULE FoldTheorems ---------------------------
(***************************************************************************)
(* Induction over numbers, and the folds over sequences that translate the *)
(* loops of the code.                                                      *)
(*                                                                         *)
(* The induction principles of the library have the induction hypothesis   *)
(* as a parameter; here they are replaced by the least element of a set    *)
(* of counterexamples.  A recursive function is the CHOOSE of a solution   *)
(* of its equation, so what it computes rests on the existence of one.     *)
(***************************************************************************)
EXTENDS Integers, FiniteSetsExt, WellFoundedInduction, TLAPS

LEMMA LeastNumber ==
    ASSUME NEW T, T \subseteq Nat, T # {}
    PROVE  \E n \in T : \A k \in T : n <= k
<1>1. \E n \in T : \A k \in T : ~(<<k, n>> \in OpToRel(<, Nat))
  BY NatLessThanWellFounded, WFMin
<1>2. \A n \in T, k \in T : ~(<<k, n>> \in OpToRel(<, Nat)) => n <= k
  BY DEF OpToRel
<1> QED BY <1>1, <1>2

\* Induction: a set of numbers with 0 and the successor of each of its
\* elements below n contains every number up to n.
LEMMA Induction ==
    ASSUME NEW n \in Nat, NEW S, 0 \in S,
           \A k \in 0 .. n - 1 : k \in S => k + 1 \in S
    PROVE  \A k \in 0 .. n : k \in S
<1> DEFINE T == {k \in 0 .. n : k \notin S}
<1> SUFFICES ASSUME T # {} PROVE FALSE
  OBVIOUS
<1>1. T \subseteq Nat
  OBVIOUS
<1>2. PICK k \in T : \A j \in T : k <= j
  <2> HIDE DEF T
  <2> QED BY <1>1, LeastNumber
<1>3. k # 0 /\ k - 1 \in 0 .. n - 1 /\ k - 1 \notin T
  BY <1>2
<1>4. k - 1 \in S
  BY <1>3
<1> QED BY <1>2, <1>3, <1>4

\* The greatest element of a set of numbers up to m.
LEMMA MaxOfPrefix ==
    ASSUME NEW m \in Nat, NEW s \in SUBSET (1 .. m), m \in s
    PROVE  Max(s) = m
<1>1. \A x \in s : x \in Nat /\ m >= x
  OBVIOUS
<1>2. Max(s) \in s /\ \A y \in s : Max(s) >= y
  <2>1. \E x \in s : \A y \in s : x >= y
    BY <1>1
  <2>2. Max(s) = CHOOSE x \in s : \A y \in s : x >= y
    BY DEF Max
  <2> QED BY <2>1, <2>2, Zenon
<1>3. \A x \in s : (\A y \in s : x >= y) => x = m
  BY <1>1
<1> QED BY <1>2, <1>3, Zenon

LEMMA GreatestNumber ==
    ASSUME NEW n \in Nat, NEW s \in SUBSET (0 .. n), s # {}
    PROVE  \E m \in s : \A x \in s : x <= m
<1> DEFINE T == {m \in 0 .. n : \A x \in s : x <= m}
<1>1. T \subseteq Nat /\ n \in T
  OBVIOUS
<1>2. PICK m \in T : \A k \in T : m <= k
  <2> HIDE DEF T
  <2> QED BY <1>1, LeastNumber
<1>3. m \in s
  <2> SUFFICES ASSUME m \notin s PROVE FALSE
    OBVIOUS
  <2>1. \A x \in s : x <= m - 1
    BY <1>2
  <2>2. \E x \in s : x \in 0 .. n
    OBVIOUS
  <2>3. m - 1 \in T
    BY <1>2, <2>1, <2>2
  <2> QED BY <1>2, <2>3
<1> QED BY <1>2, <1>3

LEMMA MaxIn ==
    ASSUME NEW n \in Nat, NEW s \in SUBSET (1 .. n), s # {}
    PROVE  Max(s) \in s
<1>1. s \in SUBSET (0 .. n)
  OBVIOUS
<1>2. PICK m \in s : \A x \in s : x <= m
  BY <1>1, GreatestNumber
<1>3. s \in SUBSET (1 .. m) /\ m \in Nat
  BY <1>2
<1> QED BY <1>3, MaxOfPrefix

\* g is the table of partial results of a fold over 1 .. m: the result for a
\* set of positions comes from the one without its greatest position.
Solves(g, m, b, step) ==
    \A s \in SUBSET (1 .. m) :
        g[s] = IF s = {} THEN b ELSE step[<<g[s \ {Max(s)}], Max(s)>>]

LEMMA SolutionExtends ==
    ASSUME NEW A, NEW n \in Nat, NEW b \in A, NEW step \in [A \X (1 .. n) -> A],
           NEW m \in 0 .. n - 1, NEW g \in [SUBSET (1 .. m) -> A],
           Solves(g, m, b, step)
    PROVE  \E h \in [SUBSET (1 .. m + 1) -> A] : Solves(h, m + 1, b, step)
<1> DEFINE h == [s \in SUBSET (1 .. m + 1) |->
                    IF m + 1 \in s THEN step[<<g[s \ {m + 1}], m + 1>>] ELSE g[s]]
<1>1. ASSUME NEW s \in SUBSET (1 .. m + 1)
      PROVE  /\ s \ {m + 1} \in SUBSET (1 .. m)
             /\ m + 1 \notin s => s \in SUBSET (1 .. m)
  OBVIOUS
<1>2. h \in [SUBSET (1 .. m + 1) -> A]
  BY <1>1
<1>3. ASSUME NEW s \in SUBSET (1 .. m + 1)
      PROVE  h[s] = IF s = {} THEN b ELSE step[<<h[s \ {Max(s)}], Max(s)>>]
  <2>1. CASE m + 1 \in s
    <3>1. Max(s) = m + 1
      BY <2>1, MaxOfPrefix
    <3>2. h[s] = step[<<g[s \ {m + 1}], m + 1>>]
      BY <2>1
    <3>3. h[s \ {m + 1}] = g[s \ {m + 1}]
      BY <1>1
    <3> QED BY <2>1, <3>1, <3>2, <3>3
  <2>2. CASE m + 1 \notin s
    <3>1. s \in SUBSET (1 .. m)
      BY <1>1, <2>2
    <3>2. h[s] = IF s = {} THEN b ELSE step[<<g[s \ {Max(s)}], Max(s)>>]
      BY <2>2, <3>1 DEF Solves
    <3>3. h[s \ {Max(s)}] = g[s \ {Max(s)}]
      BY <2>2
    <3> QED BY <3>2, <3>3
  <2> QED BY <2>1, <2>2
<1> QED BY <1>2, <1>3 DEF Solves

LEMMA FoldExists ==
    ASSUME NEW A, NEW n \in Nat, NEW b \in A, NEW step \in [A \X (1 .. n) -> A]
    PROVE  \E g \in [SUBSET (1 .. n) -> A] : Solves(g, n, b, step)
<1> DEFINE S == {m \in 0 .. n : \E g \in [SUBSET (1 .. m) -> A] :
                                    Solves(g, m, b, step)}
<1>1. 0 \in S
  <2> DEFINE g == [s \in SUBSET (1 .. 0) |-> b]
  <2>1. 1 .. 0 = {}
    OBVIOUS
  <2>2. \A s \in SUBSET (1 .. 0) : s = {} /\ g[s] = b
    BY <2>1
  <2>3. g \in [SUBSET (1 .. 0) -> A] /\ Solves(g, 0, b, step)
    BY <2>2, Zenon DEF Solves
  <2> QED BY <2>3
<1>2. ASSUME NEW m \in 0 .. n - 1, m \in S PROVE m + 1 \in S
  <2>1. PICK g \in [SUBSET (1 .. m) -> A] : Solves(g, m, b, step)
    BY <1>2
  <2>2. \E h \in [SUBSET (1 .. m + 1) -> A] : Solves(h, m + 1, b, step)
    BY <2>1, SolutionExtends
  <2>3. m + 1 \in 0 .. n
    OBVIOUS
  <2> QED BY <2>2, <2>3
<1> HIDE DEF S
<1>3. n \in S
  BY <1>1, <1>2, Induction
<1> QED BY <1>3 DEF S
===========================================================================
