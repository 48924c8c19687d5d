------------------------------- MODULE Induction -------------------------------
(*****************************************************************************)
(* Induction over the naturals, for a set instead of an operator: the lemma  *)
(* can then be cited. It rests on the sets 1..n being ordered by inclusion,  *)
(* which is well-founded on finite sets. With it, what a fold over a         *)
(* sequence computes: its value for one more element comes from its value    *)
(* before by a step.                                                         *)
(*****************************************************************************)
EXTENDS Integers, FiniteSetsExt, FiniteSetTheorems, TLAPS

\* Every set of naturals that is not empty has a least element.
LEMMA LeastNat ==
    ASSUME NEW S \in SUBSET Nat, S # {}
    PROVE  \E m \in S : \A n \in S : m <= n
<1> DEFINE T == {1..n : n \in S}
<1>1. T \subseteq FiniteSubsetsOf(Nat) /\ T # {}
  <2>1. \A n \in S : IsFiniteSet(1..n) /\ (1..n) \subseteq Nat
    BY FS_Interval
  <2> QED BY <2>1 DEF FiniteSubsetsOf
<1>2. IsWellFoundedOn(StrictSubsetOrdering(Nat), FiniteSubsetsOf(Nat))
  BY FS_StrictSubsetOrderingWellFounded
<1>3. PICK x \in T : \A y \in T : ~ (<<y, x>> \in StrictSubsetOrdering(Nat))
  <2> HIDE DEF T
  <2> QED BY <1>1, <1>2, WFMin
<1>4. PICK m \in S : x = 1..m
  OBVIOUS
<1>5. ASSUME NEW n \in S PROVE m <= n
  <2>1. ASSUME ~(m <= n) PROVE FALSE
    <3>1. (1..n) \subseteq (1..m) /\ (1..n) # (1..m)
      <4>1. m \in 1..m /\ m \notin 1..n
        BY <2>1
      <4> QED BY <2>1, <4>1
    <3>2. <<1..n, 1..m>> \in StrictSubsetOrdering(Nat)
      BY <3>1 DEF StrictSubsetOrdering
    <3> QED BY <1>3, <1>4, <3>2
  <2> QED BY <2>1
<1> QED BY <1>5

\* What holds of 0, and of n + 1 whenever it holds of n, holds of every natural.
LEMMA SetInduction ==
    ASSUME NEW P \in SUBSET Nat, 0 \in P, \A n \in P : n + 1 \in P
    PROVE  \A n \in Nat : n \in P
<1> SUFFICES ASSUME NEW x \in Nat, x \notin P PROVE FALSE
  OBVIOUS
<1> DEFINE S == Nat \ P
<1>1. PICK m \in S : \A n \in S : m <= n
  <2>1. S \in SUBSET Nat /\ S # {}
    OBVIOUS
  <2> HIDE DEF S
  <2> QED BY <2>1, LeastNat
<1>2. m \in Nat /\ m # 0 /\ m - 1 \in Nat
  OBVIOUS
<1>3. m - 1 \in P
  BY <1>1, <1>2
<1>4. (m - 1) + 1 = m
  BY <1>2
<1>5. (m - 1) + 1 \in P /\ m \notin P
  BY <1>1, <1>3
<1> QED BY <1>4, <1>5

--------------------------------------------------------------------------------
(* Folds. FoldLeft over a sequence recurs over the sets 1..k of its positions. *)

LEMMA MaxOf ==
    ASSUME NEW n \in Nat, NEW s \in SUBSET (1..n), s # {}
    PROVE  Max(s) \in s /\ \A y \in s : Max(s) >= y
<1> DEFINE T == {n - y : y \in s}
<1>1. T \in SUBSET Nat /\ T # {}
  <2>1. \A y \in s : n - y \in Nat
    OBVIOUS
  <2> QED BY <2>1
<1>2. PICK m \in T : \A k \in T : m <= k
  <2> HIDE DEF T
  <2> QED BY <1>1, LeastNat
<1>3. PICK x \in s : m = n - x
  OBVIOUS
<1>4. \A y \in s : x >= y
  <2> SUFFICES ASSUME NEW y \in s PROVE x >= y
    OBVIOUS
  <2>1. n - x <= n - y
    BY <1>2, <1>3
  <2>2. x \in Nat /\ y \in Nat
    OBVIOUS
  <2> HIDE DEF T
  <2> QED BY <2>1, <2>2, SMT
<1>5. \E z \in s : \A y \in s : z >= y
  BY <1>4
<1> QED BY <1>5, Zenon DEF Max

LEMMA MaxOfInterval ==
    ASSUME NEW n \in Nat, n # 0
    PROVE  Max(1..n) = n /\ (1..n) \ {n} = 1..(n - 1) /\ (1..n) \in SUBSET (1..n) /\ (1..n) # {}
<1>1. n \in 1..n /\ (1..n) \ {n} = 1..(n - 1) /\ (1..n) \in SUBSET (1..n) /\ (1..n) # {}
  OBVIOUS
<1>2. Max(1..n) \in 1..n /\ \A y \in 1..n : Max(1..n) >= y
  BY <1>1, MaxOf
<1>3. Max(1..n) >= n
  BY <1>1, <1>2
<1> QED BY <1>1, <1>2, <1>3, SMT

\* What a fold over a sequence of length n is made of: b is the value it begins
\* with, g the step.
Recursion(n, b, g, it) ==
    it = [s \in SUBSET (1..n) |-> IF s = {} THEN b ELSE g[<<Max(s), it[s \ {Max(s)}]>>]]

LEMMA RecursionExists ==
    ASSUME NEW n \in Nat, NEW V, NEW b \in V, NEW g \in [(1..n) \X V -> V]
    PROVE  \E it \in [SUBSET (1..n) -> V] : Recursion(n, b, g, it)
<1> DEFINE P == {k \in Nat : k <= n => \E it \in [SUBSET (1..k) -> V] : Recursion(k, b, g, it)}
<1>1. 0 \in P
  <2> DEFINE it == [s \in SUBSET (1..0) |-> b]
  <2>1. it \in [SUBSET (1..0) -> V]
    OBVIOUS
  <2>2. \A s \in SUBSET (1..0) : s = {}
    OBVIOUS
  <2>3. Recursion(0, b, g, it)
    BY <2>2 DEF Recursion
  <2> QED BY <2>1, <2>3
<1>2. ASSUME NEW k \in P PROVE k + 1 \in P
  <2>0. k + 1 \in Nat
    OBVIOUS
  <2> SUFFICES ASSUME k + 1 <= n
               PROVE  \E it \in [SUBSET (1..(k + 1)) -> V] : Recursion(k + 1, b, g, it)
    BY <2>0, Zenon
  <2>1. k \in Nat /\ k <= n /\ k + 1 \in 1..n
    BY <1>2
  <2>2. PICK f \in [SUBSET (1..k) -> V] : Recursion(k, b, g, f)
    BY <2>1
  <2> DEFINE S == SUBSET (1..(k + 1))
             it == [s \in S |-> IF k + 1 \in s THEN g[<<k + 1, f[s \ {k + 1}]>>] ELSE f[s]]
  <2>3. ASSUME NEW s \in S, k + 1 \in s PROVE s \ {k + 1} \in SUBSET (1..k) /\ Max(s) = k + 1 /\ s # {}
    <3>1. s \ {k + 1} \in SUBSET (1..k)
      BY <2>1, <2>3
    <3>2. s # {} /\ k + 1 \in Nat
      BY <2>1, <2>3
    <3>3. Max(s) \in s /\ \A y \in s : Max(s) >= y
      BY <3>2, MaxOf
    <3>4. Max(s) \in 1..(k + 1) /\ Max(s) >= k + 1
      BY <2>3, <3>3
    <3>5. Max(s) = k + 1
      <4> DEFINE m == Max(s)
      <4>1. m \in 1..(k + 1) /\ m >= k + 1
        BY <3>4
      <4> HIDE DEF m
      <4>2. m = k + 1
        BY <2>1, <4>1, SMT
      <4> QED BY <4>2 DEF m
    <3> QED BY <3>1, <3>2, <3>5
  <2>4. ASSUME NEW s \in S, k + 1 \notin s PROVE s \in SUBSET (1..k)
    BY <2>1, <2>4
  <2>5. ASSUME NEW s \in S PROVE it[s] \in V
    <3>1. CASE k + 1 \in s
      <4>1. f[s \ {k + 1}] \in V
        BY <2>3, <3>1
      <4> QED BY <2>1, <3>1, <4>1
    <3>2. CASE k + 1 \notin s
      BY <2>4, <3>2
    <3> QED BY <3>1, <3>2
  <2>6. ASSUME NEW s \in S PROVE it[s] = IF s = {} THEN b ELSE g[<<Max(s), it[s \ {Max(s)}]>>]
    <3>1. CASE k + 1 \in s
      <4>1. s \ {k + 1} \in S /\ k + 1 \notin s \ {k + 1}
        BY <2>3, <3>1, <2>1
      <4>2. it[s \ {k + 1}] = f[s \ {k + 1}]
        BY <4>1
      <4>3. it[s] = g[<<k + 1, f[s \ {k + 1}]>>]
        BY <3>1
      <4> HIDE DEF it
      <4> QED BY <2>3, <3>1, <4>2, <4>3
    <3>2. CASE k + 1 \notin s
      <4>1. s \in SUBSET (1..k) /\ it[s] = f[s]
        BY <2>4, <3>2
      <4>2. f[s] = IF s = {} THEN b ELSE g[<<Max(s), f[s \ {Max(s)}]>>]
        BY <2>2, <4>1 DEF Recursion
      <4>3. s \ {Max(s)} \in S /\ k + 1 \notin s \ {Max(s)}
        BY <3>2
      <4>4. it[s \ {Max(s)}] = f[s \ {Max(s)}]
        BY <4>3
      <4> HIDE DEF it
      <4> QED BY <4>1, <4>2, <4>4
    <3> QED BY <3>1, <3>2
  <2>7. it \in [S -> V]
    BY <2>5
  <2>8. it = [s \in S |-> IF s = {} THEN b ELSE g[<<Max(s), it[s \ {Max(s)}]>>]]
    <3>1. it = [s \in S |-> it[s]]
      OBVIOUS
    <3> HIDE DEF it
    <3> QED BY <2>6, <3>1
  <2> QED BY <2>7, <2>8 DEF Recursion
<1>3. n \in P
  <2>1. P \in SUBSET Nat /\ \A k \in P : k + 1 \in P
    BY <1>2
  <2> HIDE DEF P
  <2> QED BY <1>1, <2>1, SetInduction
<1>4. n <= n
  OBVIOUS
<1> QED BY <1>3, <1>4, Zenon

LEMMA RecursionStep ==
    ASSUME NEW n \in Nat, NEW b, NEW g, NEW it, Recursion(n, b, g, it)
    PROVE  it[1..0] = b /\ \A k \in 1..n : it[1..k] = g[<<k, it[1..(k - 1)]>>]
<1>1. it[1..0] = b
  <2>1. 1..0 = {} /\ {} \in SUBSET (1..n)
    OBVIOUS
  <2> QED BY <2>1 DEF Recursion
<1>2. ASSUME NEW k \in 1..n PROVE it[1..k] = g[<<k, it[1..(k - 1)]>>]
  <2>1. (1..k) \in SUBSET (1..n)
    BY SMT
  <2>2. Max(1..k) = k /\ (1..k) \ {k} = 1..(k - 1) /\ (1..k) # {}
    <3>1. k \in Nat /\ k # 0
      OBVIOUS
    <3> QED BY <3>1, MaxOfInterval
  <2>3. it[1..k] = IF 1..k = {} THEN b ELSE g[<<Max(1..k), it[(1..k) \ {Max(1..k)}]>>]
    BY <2>1 DEF Recursion
  <2> QED BY <2>2, <2>3
<1> QED BY <1>1, <1>2
================================================================================
