----------------------------- MODULE Induction -----------------------------
(***************************************************************************)
(* Induction over the natural numbers, and loops: functions defined by     *)
(* recursion on a counter exist and keep the type of what they compute.    *)
(* Everything is stated with sets and functions, so that the provers can   *)
(* use the lemmas.                                                         *)
(***************************************************************************)
EXTENDS Integers, WellFoundedInduction, TLAPS

\* Every non-empty set of natural numbers has a least element.
LEMMA LeastElement ==
    ASSUME NEW T \in SUBSET Nat, T # {}
    PROVE  \E n \in T : \A m \in T : n <= m
<1>1. IsWellFoundedOn(OpToRel(<, Nat), Nat)
  BY NatLessThanWellFounded
<1>2. \E x \in T : \A y \in T : ~ (<<y, x>> \in OpToRel(<, Nat))
  BY <1>1, WFMin
<1>3. ASSUME NEW x \in Nat, NEW y \in Nat, x < y
      PROVE  <<x, y>> \in OpToRel(<, Nat)
  BY <1>3, Zenon DEF OpToRel
<1>4. PICK x \in T : \A y \in T : ~ (<<y, x>> \in OpToRel(<, Nat))
  BY <1>2, Zenon
<1>5. \A y \in T : ~(y < x)
  BY <1>3, <1>4, Zenon
<1> HIDE DEF OpToRel
<1>6. x \in Nat /\ T \subseteq Nat
  OBVIOUS
<1>7. \A y \in T : x <= y
  BY ONLY <1>5, <1>6, SMT
<1> QED BY ONLY <1>7, x \in T, Zenon

\* A set that holds 0 and the successor of each of its members is Nat.
LEMMA Induct ==
    ASSUME NEW T \in SUBSET Nat, 0 \in T, \A n \in T : n + 1 \in T
    PROVE  T = Nat
<1>1. SUFFICES ASSUME NEW x \in Nat, x \notin T PROVE FALSE
  OBVIOUS
<1>2. PICK n \in Nat \ T : \A m \in Nat \ T : n <= m
  BY <1>1, LeastElement
<1>3. n # 0 /\ n - 1 \in Nat
  BY <1>2
<1>4. n - 1 \in T
  BY <1>2, <1>3
<1> QED BY <1>2, <1>3, <1>4

\* g is the loop with body st, started from e, up to n.
IsLoop(g, n, S, e, st) ==
    /\ g \in [0 .. n -> S]
    /\ g[0] = e
    /\ \A i \in 1 .. n : g[i] = st[<<i, g[i - 1]>>]

\* Such a loop exists, whatever its body computes from the counter and the
\* value before.
LEMMA LoopExists ==
    ASSUME NEW S, NEW e \in S, NEW n \in Nat,
           NEW st \in [(Nat \ {0}) \X S -> S]
    PROVE  \E g : IsLoop(g, n, S, e, st)
<1> DEFINE T == {k \in Nat : \E g : IsLoop(g, k, S, e, st)}
<1>1. 0 \in T
  <2>1. IsLoop([i \in 0 .. 0 |-> e], 0, S, e, st)
    BY DEF IsLoop
  <2> QED BY <2>1
<1>2. ASSUME NEW k \in T PROVE k + 1 \in T
  <2>1. PICK g : IsLoop(g, k, S, e, st)
    BY <1>2
  <2> DEFINE h == [i \in 0 .. k + 1 |->
                     IF i <= k THEN g[i] ELSE st[<<k + 1, g[k]>>]]
  <2>2. k \in Nat /\ g \in [0 .. k -> S] /\ g[k] \in S
    BY <1>2, <2>1 DEF IsLoop
  <2>3. st[<<k + 1, g[k]>>] \in S
    BY <2>2
  <2>4. h \in [0 .. k + 1 -> S] /\ h[0] = e
    BY <2>1, <2>2, <2>3 DEF IsLoop
  <2>5. ASSUME NEW i \in 1 .. k + 1 PROVE h[i] = st[<<i, h[i - 1]>>]
    <3>1. CASE i = k + 1
      BY <3>1, <2>2
    <3>2. CASE i # k + 1
      BY <3>2, <2>1, <2>2 DEF IsLoop
    <3> QED BY <3>1, <3>2
  <2>6. IsLoop(h, k + 1, S, e, st)
    BY <2>4, <2>5 DEF IsLoop
  <2> HIDE DEF h
  <2> QED BY <2>2, <2>6
<1> HIDE DEF T
<1>3. T = Nat
  <2>1. T \in SUBSET Nat
    BY DEF T
  <2> QED BY <1>1, <1>2, <2>1, Induct
<1> QED BY <1>3 DEF T

\* What holds of 0 and is kept by every step up to n holds up to n.
LEMMA Upto ==
    ASSUME NEW n \in Nat, NEW T, 0 \in T,
           \A i \in 1 .. n : i - 1 \in T => i \in T
    PROVE  \A i \in 0 .. n : i \in T
<1> DEFINE U == {i \in Nat : i <= n => i \in T}
<1>1. U \in SUBSET Nat /\ 0 \in U
  OBVIOUS
<1>2. ASSUME NEW i \in U PROVE i + 1 \in U
  <2>1. i \in Nat /\ (i <= n => i \in T)
    BY <1>2
  <2>2. i + 1 <= n => i + 1 \in T
    BY <2>1
  <2> QED BY <2>1, <2>2
<1> HIDE DEF U
<1>3. U = Nat
  BY <1>1, <1>2, Induct
<1> QED BY <1>3 DEF U

=============================================================================
