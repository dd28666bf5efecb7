--------------------------- MODULE RecursionLemmas ---------------------------
(***************************************************************************)
(* Induction over the naturals as a fact about sets, and what it says of   *)
(* the recursive functions that fold a sequence: they are defined, and     *)
(* their values are of the type their steps keep.  The induction theorems  *)
(* of the library take the proposition as an operator; a set is first      *)
(* order, and is instantiated like any other value.                        *)
(***************************************************************************)
EXTENDS Integers, Sequences, WellFoundedInduction, TLAPS

\* Every set of naturals that is not empty has a least element.
LEMMA Least ==
    ASSUME NEW T \in SUBSET Nat, T # {}
    PROVE  \E x \in T : \A y \in T : x <= y
<1>1. PICK x \in T : \A y \in T : ~(<<y, x>> \in OpToRel(<, Nat))
  BY WFMin, NatLessThanWellFounded
<1>2. \A y \in T : ~(y < x)
  BY <1>1 DEF OpToRel
<1> QED
  BY <1>2

\* A set that has zero, and with every number the next one, has them all.
LEMMA Induction ==
    ASSUME NEW S, 0 \in S, \A n \in Nat : n \in S => n + 1 \in S
    PROVE  Nat \subseteq S
<1>1. SUFFICES ASSUME Nat \ S # {} PROVE FALSE
  OBVIOUS
<1>2. PICK x \in Nat \ S : \A y \in Nat \ S : x <= y
  BY <1>1, Least
<1>3. x # 0 /\ x - 1 \in Nat /\ x = (x - 1) + 1
  BY <1>2
<1>4. x - 1 \in S
  BY <1>2, <1>3
<1> QED
  BY <1>2, <1>3, <1>4

\* The steps 1..length of an iteration over the states S.
Steps(length, S) == [1..length -> [S -> S]]

\* The states f that step goes through from start.
Runs(f, S, start, length, step) ==
    /\ f \in [0..length -> S] /\ f[0] = start
    /\ \A n \in 1..length : f[n] = step[n][f[n - 1]]

\* An iteration goes on to its end.
LEMMA Iteration ==
    ASSUME NEW S, NEW start \in S, NEW length \in Nat, NEW step \in Steps(length, S)
    PROVE  \E f : Runs(f, S, start, length, step)
<1> DEFINE Upto(k) == \E f \in [0..k -> S] : f[0] = start /\ \A n \in 1..k : f[n] = step[n][f[n - 1]]
           T == {k \in Nat : k <= length => Upto(k)}
<1>1. 0 \in T
  <2> DEFINE f == [n \in 0..0 |-> start]
  <2>1. f \in [0..0 -> S] /\ f[0] = start /\ \A n \in 1..0 : f[n] = step[n][f[n - 1]]
    OBVIOUS
  <2> HIDE DEF f
  <2> QED
    BY <2>1
<1>2. ASSUME NEW k \in Nat, k \in T PROVE k + 1 \in T
  <2>1. SUFFICES ASSUME k + 1 <= length PROVE Upto(k + 1)
    OBVIOUS
  <2>2. PICK f \in [0..k -> S] : f[0] = start /\ \A n \in 1..k : f[n] = step[n][f[n - 1]]
    BY <1>2, <2>1
  <2> DEFINE g == [n \in 0..(k + 1) |-> IF n = k + 1 THEN step[k + 1][f[k]] ELSE f[n]]
  <2>3. k + 1 \in 1..length /\ step[k + 1][f[k]] \in S
    BY <2>1 DEF Steps
  <2>4. g \in [0..(k + 1) -> S]
    BY <2>3
  <2>5. g[k + 1] = step[k + 1][f[k]] /\ \A n \in 0..k : g[n] = f[n]
    OBVIOUS
  <2> HIDE DEF g
  <2>6. ASSUME NEW n \in 1..(k + 1) PROVE g[n] = step[n][g[n - 1]]
    <3>1. CASE n = k + 1
      BY <2>5, <3>1
    <3>2. CASE n # k + 1
      <4>1. n \in 1..k /\ n - 1 \in 0..k /\ n \in 0..k
        BY <3>2
      <4> QED
        BY <2>2, <2>5, <4>1
    <3> QED
      BY <3>1, <3>2
  <2>7. g[0] = start
    BY <2>2, <2>5
  <2> QED
    BY <2>4, <2>6, <2>7
<1>3. length \in T
  <2> HIDE DEF T
  <2> QED
    BY <1>1, <1>2, Induction
<1> QED
  BY <1>3 DEF Runs
=============================================================================
