-------------------------------- MODULE Smallest --------------------------------
(***************************************************************************)
(* Every set of natural numbers that is not empty has a smallest member:   *)
(* what a CHOOSE of the first order, of the first entry that is not        *)
(* expired, or of the oldest message rests on.                             *)
(***************************************************************************)
EXTENDS Naturals, WellFoundedInduction, TLAPS

\* A set of numbers that is not empty has a smallest one.
LEMMA HasSmallest ==
    ASSUME NEW S \in SUBSET Nat, S # {}
    PROVE  \E i \in S : \A j \in S : i <= j
<1> DEFINE R == OpToRel(<, Nat)
<1>1. \A x, y \in Nat : <<x, y>> \in R <=> x < y
  BY DEF OpToRel
<1>2. IsWellFoundedOn(R, Nat)
  BY NatLessThanWellFounded
<1> HIDE DEF R
<1>3. \E i \in S : \A j \in S : ~ (<<j, i>> \in R)
  BY <1>2, WFMin, Zenon
<1>4. PICK i \in S : \A j \in S : ~ (<<j, i>> \in R)
  BY <1>3
<1>5. ASSUME NEW j \in S PROVE i <= j
  <2>1. ~ (<<j, i>> \in R)
    BY <1>4
  <2>2. ~ (j < i)
    BY <1>1, <2>1, Zenon
  <2>3. QED BY <2>2
<1>6. QED BY <1>5
================================================================================
