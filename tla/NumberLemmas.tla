---------------------------- MODULE NumberLemmas ----------------------------
(***************************************************************************)
(* The least and the greatest element of a set of numbers, which Min and   *)
(* Max of the community modules choose.                                    *)
(***************************************************************************)
EXTENDS Integers, FiniteSetsExt, WellFoundedInduction, TLAPS

LEMMA LeastExists ==
  ASSUME NEW S, S \subseteq Nat, S # {}
  PROVE  \E x \in S : \A y \in S : x <= y
PROOF
<1> DEFINE R == {p \in Nat \X Nat : p[1] < p[2]}
<1>1. IsWellFoundedOn(R, Nat)
  BY NatLessThanWellFounded DEF OpToRel
<1>2. PICK x \in S : \A y \in S : ~ (<<y, x>> \in R)
  BY <1>1, WFMin
<1>3. \A y \in S : ~ (y < x)
  BY <1>2
<1> QED
  BY <1>3

LEMMA GreatestExists ==
  ASSUME NEW S, NEW bound \in Nat, S \subseteq 0..bound, S # {}
  PROVE  \E x \in S : \A y \in S : y <= x
PROOF
<1> DEFINE T == {n \in Nat : bound - n \in S}
<1>1. T \subseteq Nat /\ T # {}
  <2>1. PICK x \in S : TRUE
    OBVIOUS
  <2>2. bound - x \in Nat /\ bound - (bound - x) = x
    OBVIOUS
  <2> QED
    BY <2>1, <2>2
<1>2. PICK t \in T : \A u \in T : t <= u
  BY <1>1, LeastExists
<1>3. bound - t \in S
  BY <1>2
<1>4. ASSUME NEW y \in S
      PROVE  y <= bound - t
  <2>1. bound - y \in Nat /\ bound - (bound - y) = y
    OBVIOUS
  <2>2. bound - y \in T
    BY <2>1
  <2>3. t <= bound - y
    BY <1>2, <2>2
  <2>4. t \in Nat /\ y \in Nat
    BY <1>1
  <2> QED
    BY <2>3, <2>4
<1> QED
  BY <1>3, <1>4

LEMMA MinIsLeast ==
  ASSUME NEW S, S \subseteq Nat, S # {}
  PROVE  Min(S) \in S /\ \A y \in S : Min(S) <= y
BY LeastExists DEF Min

LEMMA MaxIsGreatest ==
  ASSUME NEW S, NEW bound \in Nat, S \subseteq 0..bound, S # {}
  PROVE  Max(S) \in S /\ \A y \in S : y <= Max(S)
PROOF
<1>1. \E x \in S : \A y \in S : x >= y
  BY GreatestExists
<1> QED
  BY <1>1 DEF Max
=============================================================================
