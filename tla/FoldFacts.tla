----------------------------- MODULE FoldFacts ------------------------------
(***************************************************************************)
(* What the proofs about loops need: induction on the natural numbers in   *)
(* the form of a set, and that a loop which takes one step per index of a  *)
(* sequence has a run.  A recursive function on 0..n is then known by its  *)
(* equation, and facts about it follow index by index.                     *)
(***************************************************************************)
EXTENDS Integers, WellFoundedInduction, TLAPS

\* A set of natural numbers that is not empty has a least element.
LEMMA LeastNumber ==
    ASSUME NEW T \in SUBSET Nat, T # {}
    PROVE  \E x \in T : \A y \in T : x <= y
<1> DEFINE R == {p \in Nat \X Nat : p[1] < p[2]}
<1>1. IsWellFoundedOn(R, Nat)
  BY NatLessThanWellFounded DEF OpToRel
<1>2. ASSUME NEW x \in T, NEW y \in T, <<y, x>> \notin R PROVE x <= y
  <2>1. <<y, x>> \in Nat \X Nat /\ <<y, x>>[1] = y /\ <<y, x>>[2] = x
    OBVIOUS
  <2>2. ~(y < x)
    BY <1>2, <2>1
  <2> QED BY <2>2
<1> HIDE DEF R
<1>3. PICK x \in T : \A y \in T : <<y, x>> \notin R
  BY <1>1, WFMin
<1> QED BY <1>2, <1>3

\* A set that has 0, and the successor of each of its numbers, has them all.
LEMMA SetInduction ==
    ASSUME NEW S, 0 \in S, \A n \in Nat : n \in S => n + 1 \in S
    PROVE  Nat \subseteq S
<1> DEFINE T == {n \in Nat : n \notin S}
<1> SUFFICES ASSUME T # {} PROVE FALSE
  OBVIOUS
<1>1. PICK x \in T : \A y \in T : x <= y
  BY LeastNumber
<1>2. x # 0
  OBVIOUS
<1>3. x - 1 \in Nat /\ x - 1 \notin T
  BY <1>1, <1>2
<1> QED BY <1>3

\* The same up to a bound.
LEMMA BoundedInduction ==
    ASSUME NEW N \in Nat, NEW S, 0 \in S,
           \A n \in 1..N : n - 1 \in S => n \in S
    PROVE  0..N \subseteq S
<1> DEFINE T == {n \in Nat : n <= N => n \in S}
<1>1. 0 \in T
  OBVIOUS
<1>2. ASSUME NEW n \in Nat, n \in T PROVE n + 1 \in T
  <2> SUFFICES ASSUME n + 1 <= N PROVE n + 1 \in S
    OBVIOUS
  <2>1. n + 1 \in 1..N /\ (n + 1) - 1 = n /\ n \in S
    BY <1>2
  <2> QED BY <2>1
<1>3. Nat \subseteq T
  <2> HIDE DEF T
  <2> QED BY <1>1, <1>2, SetInduction
<1> QED BY <1>3

\* A loop: step i takes the state after i - 1 steps to the one after i.
Steps(N, S) == [1..N -> [S -> S]]

Runs(g, S, N, start, F) ==
    /\ g \in [0..N -> S]
    /\ g[0] = start
    /\ \A i \in 1..N : g[i] = F[i][g[i - 1]]

\* Every loop over a finite number of steps has a run.
LEMMA RunExists ==
    ASSUME NEW S, NEW N \in Nat, NEW start \in S, NEW F \in Steps(N, S)
    PROVE  \E g : Runs(g, S, N, start, F)
<1> USE DEF Steps, Runs
<1> DEFINE Ok(n, g) == g[0] = start /\ \A i \in 1..n : g[i] = F[i][g[i - 1]]
           D == {n \in Nat : n <= N => \E g \in [0..n -> S] : Ok(n, g)}
<1>1. 0 \in D
  <2>1. [i \in 0..0 |-> start] \in [0..0 -> S] /\ Ok(0, [i \in 0..0 |-> start])
    OBVIOUS
  <2> HIDE DEF Ok
  <2> QED BY <2>1
<1>2. ASSUME NEW n \in Nat, n \in D PROVE n + 1 \in D
  <2> SUFFICES ASSUME n + 1 <= N PROVE \E g \in [0..(n + 1) -> S] : Ok(n + 1, g)
    OBVIOUS
  <2>1. PICK h \in [0..n -> S] : Ok(n, h)
    BY <1>2
  <2> DEFINE g == [i \in 0..(n + 1) |-> IF i <= n THEN h[i] ELSE F[n + 1][h[n]]]
  <2>2. F[n + 1][h[n]] \in S
    OBVIOUS
  <2>3. g \in [0..(n + 1) -> S]
    BY <2>2
  <2>4. g[0] = start
    BY <2>1
  <2>5. ASSUME NEW i \in 1..(n + 1) PROVE g[i] = F[i][g[i - 1]]
    <3>1. CASE i <= n
      <4>1. g[i] = h[i] /\ g[i - 1] = h[i - 1]
        BY <3>1
      <4> QED BY <2>1, <3>1, <4>1
    <3>2. CASE i = n + 1
      <4>1. g[i] = F[n + 1][h[n]] /\ g[i - 1] = h[n]
        BY <3>2
      <4> QED BY <3>2, <4>1
    <3> QED BY <3>1, <3>2
  <2> QED BY <2>3, <2>4, <2>5
<1> HIDE DEF D
<1>3. N \in D
  BY <1>1, <1>2, SetInduction
<1> QED BY <1>3 DEF D
=============================================================================
