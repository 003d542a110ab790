----------------------------- MODULE OrderLemmas -----------------------------
(* Facts about numbers and finite sets that several proof modules cite.      *)
EXTENDS Integers, FiniteSets, FiniteSetTheorems, WellFoundedInduction, TLAPS

\* A nonempty set of naturals has a least element.
LEMMA HasLeast ==
    ASSUME NEW S \in SUBSET Nat, S # {}
    PROVE  \E i \in S : \A j \in S : i <= j
  <1> DEFINE R == OpToRel(<, Nat)
  <1>1. IsWellFoundedOn(R, Nat)  BY NatLessThanWellFounded
  <1>2. \A i, j \in Nat : j < i => <<j, i>> \in R  BY DEF OpToRel
  <1> HIDE DEF R
  <1>3. \E i \in S : \A j \in S : <<j, i>> \notin R  BY <1>1, WFMin, Zenon
  <1>4. PICK i \in S : \A j \in S : <<j, i>> \notin R  BY <1>3
  <1>5. \A j \in S : ~(j < i)  BY <1>2, <1>4
  <1>6. i \in Nat /\ \A j \in S : j \in Nat  OBVIOUS
  <1>7. \A j \in S : i <= j  BY <1>5, <1>6
  <1> QED BY <1>4, <1>7

\* A nonempty set of numbers up to n has a greatest element.
LEMMA HasGreatest ==
    ASSUME NEW n \in Nat, NEW S \in SUBSET (1..n), S # {}
    PROVE  \E i \in S : \A j \in S : j <= i
  <1> DEFINE T == {n - i : i \in S}
  <1>1. T \in SUBSET Nat
    <2> SUFFICES ASSUME NEW t \in T PROVE t \in Nat  OBVIOUS
    <2> PICK i \in S : t = n - i  OBVIOUS
    <2> i \in 1..n  OBVIOUS
    <2> QED OBVIOUS
  <1>n. T # {}  OBVIOUS
  <1>2. PICK t \in T : \A u \in T : t <= u  BY <1>1, <1>n, HasLeast
  <1>3. PICK i \in S : t = n - i  BY <1>2
  <1>4. \A j \in S : n - i <= n - j  BY <1>2, <1>3
  <1> QED BY <1>3, <1>4
=============================================================================
