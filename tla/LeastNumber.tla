---------------------------- MODULE LeastNumber ----------------------------
(***************************************************************************)
(* The least element of a set of natural numbers, and with it proofs by    *)
(* contradiction on the least counterexample.                              *)
(***************************************************************************)
EXTENDS Integers, FiniteSetTheorems, TLAPS

\* Every set of natural numbers that is not empty has a least element.
LEMMA Least ==
    ASSUME NEW T, T \subseteq Nat, T # {}
    PROVE  \E n \in T : \A m \in T : n <= m
<1>1. PICK k \in T : TRUE
  OBVIOUS
<1> DEFINE Upto(n) == T \cap (0..n)
           Cuts == {Upto(n) : n \in Upto(k)}
<1>2. IsFiniteSet(0..k)
  BY <1>1, FS_Interval
<1>3. IsWellFoundedOn(StrictSubsetOrdering(0..k), SUBSET (0..k))
  BY <1>2, FS_FiniteSubsetsOfFinite, FS_StrictSubsetOrderingWellFounded
<1>4. Cuts \subseteq SUBSET (0..k) /\ Cuts # {}
  <2>1. k \in Upto(k)
    BY <1>1
  <2>2. ASSUME NEW n \in Upto(k) PROVE Upto(n) \subseteq 0..k
    BY <2>2, <1>1
  <2> QED
    BY <2>1, <2>2
<1>5. PICK X \in Cuts : \A Y \in Cuts : ~(<<Y, X>> \in StrictSubsetOrdering(0..k))
  <2> HIDE DEF Cuts
  <2> QED
    BY <1>3, <1>4, WFMin, Zenon
<1>6. PICK n \in Upto(k) : X = Upto(n)
  BY <1>5
<1>7. ASSUME NEW m \in T, ~(n <= m) PROVE FALSE
  <2>1. m \in Nat /\ n \in Nat /\ m < n /\ n <= k
    BY <1>1, <1>6, <1>7
  <2>2. m \in Upto(k) /\ Upto(m) \in Cuts
    BY <2>1, <1>1
  <2>3. Upto(m) \subseteq Upto(n) /\ n \in Upto(n) /\ n \notin Upto(m)
    BY <2>1, <1>6
  <2>4. <<Upto(m), X>> \in StrictSubsetOrdering(0..k)
    <3>1. Upto(m) # X
      BY <2>3, <1>6
    <3>2. Upto(m) \subseteq X /\ Upto(m) \in SUBSET (0..k) /\ X \in SUBSET (0..k)
      BY <1>4, <1>5, <1>6, <2>2, <2>3
    <3> HIDE DEF Upto, Cuts
    <3> QED
      BY <3>1, <3>2 DEF StrictSubsetOrdering
  <2> QED
    BY <1>5, <2>2, <2>4
<1> QED
  BY <1>6, <1>7

\* And one that is bounded has a greatest.
LEMMA Greatest ==
    ASSUME NEW T, NEW k \in Nat, T \subseteq 0..k, T # {}
    PROVE  \E n \in T : \A m \in T : m <= n
<1> DEFINE Mirrored == {k - n : n \in T}
<1>1. Mirrored \subseteq Nat /\ Mirrored # {}
  <2>1. ASSUME NEW n \in T PROVE k - n \in Nat
    <3>1. n \in 0..k
      OBVIOUS
    <3> QED
      BY <3>1
  <2> QED
    BY <2>1
<1>2. PICK d \in Mirrored : \A m \in Mirrored : d <= m
  <2> HIDE DEF Mirrored
  <2> QED
    BY <1>1, Least
<1>3. PICK n \in T : d = k - n
  BY <1>2
<1>4. ASSUME NEW m \in T PROVE m <= n
  <2>1. k - n <= k - m
    BY <1>2, <1>3
  <2> QED
    BY <2>1
<1> QED
  BY <1>4
=============================================================================
