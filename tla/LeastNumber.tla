---------------------------- MODULE LeastNumber ----------------------------
(***************************************************************************)
(* Every set of numbers has a least one: what Min needs to mean something, *)
(* for the first record of a response and the first free subnet.           *)
(***************************************************************************)
EXTENDS FiniteSetsExt, WellFoundedInduction, TLAPS

\* Min is a member of its set, and the least.
LEMMA MinProperties ==
    ASSUME NEW S \in SUBSET Nat, S # {}
    PROVE  Min(S) \in S /\ \A y \in S : Min(S) <= y
  <1> DEFINE R == OpToRel(<, Nat)
  <1>1. \A x, y \in Nat : y < x <=> <<y, x>> \in R
    BY DEF OpToRel
  <1>2. PICK x \in S : \A y \in S : ~(<<y, x>> \in R)
    BY NatLessThanWellFounded, WFMin
  <1> HIDE DEF R
  <1>3. ASSUME NEW y \in S PROVE ~(y < x)
    <2>1. y \in Nat /\ x \in Nat
      OBVIOUS
    <2>2. QED
      BY <1>1, <1>2, <2>1, Zenon
  <1>4. \A y \in S : x <= y
    BY <1>3
  <1>5. QED
    BY <1>4 DEF Min
=============================================================================
