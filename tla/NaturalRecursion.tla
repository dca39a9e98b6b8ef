------------------------- MODULE NaturalRecursion -------------------------
(***************************************************************************)
(* What the proofs about code that loops over bytes rest on: sets of       *)
(* numbers closed under successor hold every number, and a function that   *)
(* says what one turn of a loop does determines what n turns do.  Both are *)
(* stated with sets and functions where a textbook has predicates.         *)
(***************************************************************************)
EXTENDS Integers, WellFoundedInduction, TLAPS

Below == {pair \in Nat \X Nat : pair[1] < pair[2]}

LEMMA NatBelow == IsWellFoundedOn(Below, Nat)
BY NatLessThanWellFounded DEF OpToRel, Below

LEMMA Induction ==
    ASSUME NEW S, 0 \in S, \A n \in Nat : n \in S => n + 1 \in S
    PROVE  Nat \subseteq S
<1> DEFINE Others == Nat \ S
<1> SUFFICES ASSUME Others # {} PROVE FALSE
  OBVIOUS
<1>1. PICK least \in Others : \A n \in Others : <<n, least>> \notin Below
  <2>1. Others \subseteq Nat
    OBVIOUS
  <2> HIDE DEF Others
  <2> QED
    BY <2>1, NatBelow, WFMin
<1>2. least # 0 /\ least - 1 \in Nat /\ least - 1 < least /\ (least - 1) + 1 = least
  OBVIOUS
<1>3. least - 1 \notin Others
  BY <1>1, <1>2 DEF Below
<1> QED
  BY <1>2, <1>3

(* f is the record of n turns of a loop that starts from `first`. *)
Turns(f, first, turn, n) ==
    /\ DOMAIN f = 0..n
    /\ f[0] = first
    /\ \A i \in 1..n : f[i] = turn[i][f[i - 1]]

LEMMA Recursion ==
    ASSUME NEW S, NEW first \in S, NEW n \in Nat, NEW turn \in [Nat \ {0} -> [S -> S]]
    PROVE  \E f \in [0..n -> S] : Turns(f, first, turn, n)
<1> DEFINE Long == {m \in Nat : \E f \in [0..m -> S] : Turns(f, first, turn, m)}
<1>1. 0 \in Long
  <2>1. [i \in 0..0 |-> first] \in [0..0 -> S]
    OBVIOUS
  <2>2. Turns([i \in 0..0 |-> first], first, turn, 0)
    BY DEF Turns
  <2> QED
    BY <2>1, <2>2
<1>2. ASSUME NEW m \in Nat, m \in Long PROVE m + 1 \in Long
  <2>1. PICK f \in [0..m -> S] : Turns(f, first, turn, m)
    BY <1>2
  <2>2. f[m] \in S /\ turn[m + 1][f[m]] \in S
    OBVIOUS
  <2> DEFINE longer == [i \in 0..(m + 1) |-> IF i = m + 1 THEN turn[m + 1][f[m]] ELSE f[i]]
  <2>3. longer \in [0..(m + 1) -> S]
    BY <2>2
  <2>4. Turns(longer, first, turn, m + 1)
    <3>1. longer[0] = first
      BY <2>1 DEF Turns
    <3>2. ASSUME NEW i \in 1..(m + 1) PROVE longer[i] = turn[i][longer[i - 1]]
      <4>1. CASE i = m + 1
        BY <4>1
      <4>2. CASE i # m + 1
        <5>1. i \in 1..m /\ i - 1 \in 0..m
          BY <4>2
        <5> QED
          BY <2>1, <4>2, <5>1 DEF Turns
      <4> QED
        BY <4>1, <4>2
    <3> QED
      BY <3>1, <3>2 DEF Turns
  <2> QED
    BY <2>3, <2>4
<1> HIDE DEF Long
<1>3. Nat \subseteq Long
  BY <1>1, <1>2, Induction
<1> QED
  BY <1>3 DEF Long

=============================================================================
