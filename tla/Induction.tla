------------------------------ MODULE Induction ------------------------------
(***************************************************************************)
(* Induction over the natural numbers and definition by recursion, stated  *)
(* for sets and functions so that they can be cited for any predicate and  *)
(* any recursive function of the models.                                   *)
(***************************************************************************)
EXTENDS Integers, WellFoundedInduction, TLAPS

LEMMA InductionOnNat ==
  ASSUME NEW S, 0 \in S, \A n \in Nat : n \in S => n + 1 \in S
  PROVE  \A n \in Nat : n \in S
<1> SUFFICES ASSUME NEW n \in Nat, n \notin S PROVE FALSE
  OBVIOUS
<1> DEFINE Rest == Nat \ S
           Less == OpToRel(<, Nat)
<1>1. IsWellFoundedOn(Less, Nat)
  BY NatLessThanWellFounded, Zenon
<1>2. Rest \subseteq Nat /\ Rest # {}
  OBVIOUS
<1>3. ASSUME NEW x \in Nat, x # 0 PROVE <<x - 1, x>> \in Less
  <2>1. x - 1 \in Nat /\ x - 1 < x
    BY <1>3
  <2> QED  BY <2>1, Zenon DEF OpToRel
<1> HIDE DEF Less
<1>4. PICK x \in Rest : \A y \in Rest : <<y, x>> \notin Less
  <2> HIDE DEF Rest
  <2> QED  BY <1>1, <1>2, WFMin, Zenon
<1>5. x \in Nat /\ x # 0 /\ x - 1 \in Rest
  BY SMT
<1> QED
  BY <1>3, <1>4, <1>5

\* The first m values of a function that is defined by recursion exist.
LEMMA RecursionExists ==
  ASSUME NEW V, NEW base \in V, NEW m \in Nat, NEW next \in [1 .. m -> [V -> V]]
  PROVE  \E f \in [0 .. m -> V] :
           f[0] = base /\ \A n \in 1 .. m : f[n] = next[n][f[n - 1]]
<1> DEFINE Defines(f, k) == /\ f \in [0 .. k -> V] /\ f[0] = base
                            /\ \A n \in 1 .. k : f[n] = next[n][f[n - 1]]
           S == {k \in Nat : k <= m => \E f : Defines(f, k)}
<1>1. 0 \in S
  <2>1. Defines([i \in 0 .. 0 |-> base], 0)
    OBVIOUS
  <2> QED  BY <2>1
<1>2. ASSUME NEW k \in Nat, k \in S PROVE k + 1 \in S
  <2> SUFFICES ASSUME k + 1 <= m PROVE \E f : Defines(f, k + 1)
    OBVIOUS
  <2>1. PICK f : Defines(f, k)
    BY <1>2
  <2> DEFINE g == [i \in 0 .. k + 1 |-> IF i = k + 1 THEN next[k + 1][f[k]] ELSE f[i]]
  <2>2. k + 1 \in 1 .. m /\ f[k] \in V /\ next[k + 1][f[k]] \in V
    BY <2>1
  <2>3. g \in [0 .. k + 1 -> V] /\ g[0] = base
    BY <2>1, <2>2
  <2>4. ASSUME NEW n \in 1 .. k + 1 PROVE g[n] = next[n][g[n - 1]]
    <3>1. CASE n = k + 1
      BY <3>1
    <3>2. CASE n # k + 1
      <4>1. n \in 1 .. k /\ n - 1 \in 0 .. k /\ n - 1 # k + 1
        BY <3>2
      <4> QED  BY <2>1, <4>1
    <3> QED  BY <3>1, <3>2
  <2>5. Defines(g, k + 1)
    <3> HIDE DEF g
    <3> QED  BY <2>3, <2>4
  <2> QED  BY <2>5
<1> HIDE DEF S
<1>3. m \in S
  BY <1>1, <1>2, InductionOnNat
<1> QED
  BY <1>3 DEF S

\* The same for one turn that is taken n times, in V, from start on.
Walks(f, turn, start, n, V) ==
  /\ f \in [0 .. n -> V] /\ f[0] = start
  /\ \A k \in 1 .. n : f[k] = turn[f[k - 1]]

LEMMA TurnsExist ==
  ASSUME NEW V, NEW start \in V, NEW n \in Nat, NEW turn \in [V -> V]
  PROVE  \E f : Walks(f, turn, start, n, V)
<1> DEFINE next == [k \in 1 .. n |-> turn]
<1>1. next \in [1 .. n -> [V -> V]] /\ \A k \in 1 .. n : next[k] = turn
  OBVIOUS
<1> HIDE DEF next
<1>2. \E f \in [0 .. n -> V] : f[0] = start /\ \A k \in 1 .. n : f[k] = next[k][f[k - 1]]
  BY <1>1, RecursionExists
<1> QED  BY <1>1, <1>2 DEF Walks

\* And two functions are the same, if they are whenever they were one step before.
LEMMA RecursionUnique ==
  ASSUME NEW k \in Nat, NEW f, NEW g, f[0] = g[0],
         \A n \in 1 .. k : f[n - 1] = g[n - 1] => f[n] = g[n]
  PROVE  \A n \in 0 .. k : f[n] = g[n]
<1> DEFINE S == {n \in Nat : n <= k => f[n] = g[n]}
<1>1. 0 \in S
  OBVIOUS
<1>2. ASSUME NEW n \in Nat, n \in S PROVE n + 1 \in S
  <2> SUFFICES ASSUME n + 1 <= k PROVE f[n + 1] = g[n + 1]
    OBVIOUS
  <2>1. n + 1 \in 1 .. k /\ (n + 1) - 1 = n /\ f[n] = g[n]
    BY <1>2
  <2> QED  BY <2>1
<1> HIDE DEF S
<1>3. \A n \in Nat : n \in S
  BY <1>1, <1>2, InductionOnNat
<1> QED
  BY <1>3 DEF S

\* A set of natural numbers that is not empty has a least one.
LEMMA LeastExists ==
  ASSUME NEW S, S \subseteq Nat, S # {}
  PROVE  \E n \in S : \A m \in S : n <= m
<1> DEFINE Less == OpToRel(<, Nat)
<1>1. IsWellFoundedOn(Less, Nat)
  BY NatLessThanWellFounded, Zenon
<1>2. ASSUME NEW x \in Nat, NEW y \in Nat, y < x PROVE <<y, x>> \in Less
  BY <1>2, Zenon DEF OpToRel
<1> HIDE DEF Less
<1>3. PICK n \in S : \A m \in S : <<m, n>> \notin Less
  BY <1>1, WFMin, Zenon
<1>4. ASSUME NEW m \in S PROVE n <= m
  <2>1. n \in Nat /\ m \in Nat /\ ~(m < n)
    BY <1>2, <1>3
  <2> QED  BY <2>1
<1> QED
  BY <1>4
=============================================================================
