----------------------------- MODULE Induction -------------------------------
(***************************************************************************)
(* Induction about sets.  The theorems of the libraries take the property  *)
(* to be proved as an operator; here it is a set, or the set of its        *)
(* counterexamples, so that these lemmas can be cited like any other.      *)
(***************************************************************************)
EXTENDS Integers, FiniteSetsExt, FiniteSetTheorems, WellFoundedInduction, TLAPS

(* Every set of natural numbers that is not empty has a least element. *)
LEMMA LeastNatural ==
  ASSUME NEW T \in SUBSET Nat, T # {}
  PROVE  \E n \in T : \A m \in T : n <= m
<1>. DEFINE Less == OpToRel(<, Nat)
<1>1. \A m, n \in T : <<m, n>> \in Less <=> m < n
  BY SMT DEF OpToRel
<1>2. IsWellFoundedOn(Less, Nat)
  BY NatLessThanWellFounded
<1>. HIDE DEF Less
<1>3. PICK n \in T : \A m \in T : ~(<<m, n>> \in Less)
  BY <1>2, WFMin
<1>4. \A m \in T : ~(m < n)
  BY <1>1, <1>3
<1>. QED
  BY <1>4

(* What holds of 0 and of the successor of each number it holds of holds of all. *)
LEMMA NaturalInduction ==
  ASSUME NEW T \in SUBSET Nat, 0 \in T, \A n \in T : n + 1 \in T
  PROVE  T = Nat
<1>. SUFFICES ASSUME T # Nat PROVE FALSE
  OBVIOUS
<1>1. PICK n \in Nat \ T : \A m \in Nat \ T : n <= m
  BY LeastNatural
<1>2. n - 1 \in Nat
  BY <1>1
<1>3. n - 1 \in T
  BY <1>1, <1>2
<1>. QED
  BY <1>1, <1>2, <1>3

(* A family of finite sets has a member that leaves it with any element it loses. *)
LEMMA SmallestSet ==
  ASSUME NEW S, IsFiniteSet(S), NEW T \in SUBSET SUBSET S, T # {}
  PROVE  \E s \in T : \A x \in s : s \ {x} \notin T
<1>. DEFINE sizes == {Cardinality(s) : s \in T}
<1>1. \A s \in T : IsFiniteSet(s) /\ Cardinality(s) \in Nat
  BY FS_Subset, FS_CardinalityType
<1>2. sizes \in SUBSET Nat /\ sizes # {}
  BY <1>1
<1>3. PICK n \in sizes : \A m \in sizes : n <= m
  <2>. HIDE DEF sizes
  <2>. QED
    BY <1>2, LeastNatural
<1>4. PICK s \in T : Cardinality(s) = n
  BY <1>3
<1>5. \A x \in s : Cardinality(s \ {x}) = Cardinality(s) - 1
  BY <1>1, FS_RemoveElement
<1>6. \A x \in s : s \ {x} \in T => Cardinality(s) <= Cardinality(s \ {x})
  BY <1>3, <1>4
<1>7. ASSUME NEW x \in s PROVE s \ {x} \notin T
  <2>1. Cardinality(s) \in Nat /\ Cardinality(s \ {x}) = Cardinality(s) - 1
    BY <1>1, <1>5
  <2>. QED
    BY <1>6, <2>1
<1>. QED
  BY <1>7

(* The subsets of S that have at most n elements. *)
SubsetsUpTo(S, n) == {s \in SUBSET S : Cardinality(s) <= n}

(* Those of no element, the step from n to n + 1, and those that are all. *)
LEMMA SubsetsUpToFacts ==
  ASSUME NEW S, IsFiniteSet(S)
  PROVE  /\ SubsetsUpTo(S, 0) = {{}}
         /\ \A n \in Nat : SubsetsUpTo(S, n) \subseteq SubsetsUpTo(S, n + 1)
         /\ \A n \in Nat : \A s \in SubsetsUpTo(S, n + 1) : \A x \in s :
              s \ {x} \in SubsetsUpTo(S, n)
         /\ SubsetsUpTo(S, Cardinality(S)) = SUBSET S
         /\ Cardinality(S) \in Nat
<1>1. \A s \in SUBSET S : /\ IsFiniteSet(s) /\ Cardinality(s) \in Nat
                          /\ Cardinality(s) <= Cardinality(S)
                          /\ Cardinality(s) = 0 <=> s = {}
  BY FS_Subset, FS_CardinalityType, FS_EmptySet
<1>2. Cardinality(S) \in Nat
  BY FS_CardinalityType
<1>3. \A s \in SUBSET S : \A x \in s : Cardinality(s \ {x}) = Cardinality(s) - 1
  BY <1>1, FS_RemoveElement
<1>4. SubsetsUpTo(S, 0) = {{}}
  BY <1>1 DEF SubsetsUpTo
<1>5. \A n \in Nat : SubsetsUpTo(S, n) \subseteq SubsetsUpTo(S, n + 1)
  BY <1>1 DEF SubsetsUpTo
<1>6. ASSUME NEW n \in Nat, NEW s \in SubsetsUpTo(S, n + 1), NEW x \in s
      PROVE  s \ {x} \in SubsetsUpTo(S, n)
  BY <1>1, <1>3 DEF SubsetsUpTo
<1>7. SubsetsUpTo(S, Cardinality(S)) = SUBSET S
  BY <1>1 DEF SubsetsUpTo
<1>. QED
  BY <1>2, <1>4, <1>5, <1>6, <1>7

-----------------------------------------------------------------------------
(* The greatest and the least element of a set of numbers that has one. *)

LEMMA MaxFact ==
  ASSUME NEW S \in SUBSET Int, NEW m \in S, \A x \in S : x <= m
  PROVE  Max(S) = m
<1>1. \A x \in S : m >= x
  OBVIOUS
<1>2. PICK n \in S : n = Max(S) /\ \A x \in S : n >= x
  BY <1>1 DEF Max
<1>. QED
  BY <1>2

LEMMA MinFact ==
  ASSUME NEW S \in SUBSET Int, NEW m \in S, \A x \in S : m <= x
  PROVE  Min(S) = m
<1>1. PICK n \in S : n = Min(S) /\ \A x \in S : n =< x
  BY DEF Min
<1>. QED
  BY <1>1

(* A finite one that is not empty has a greatest. *)
LEMMA MaxExists ==
  ASSUME NEW S \in SUBSET Int, IsFiniteSet(S), S # {}
  PROVE  Max(S) \in S /\ \A x \in S : x <= Max(S)
<1>. DEFINE T == {s \in SUBSET S : s # {} /\ ~\E m \in s : \A x \in s : x <= m}
<1>1. T = {}
  <2>. SUFFICES ASSUME T # {} PROVE FALSE
    OBVIOUS
  <2>1. PICK s \in T : \A x \in s : s \ {x} \notin T
    <3>1. T \in SUBSET SUBSET S
      OBVIOUS
    <3>. HIDE DEF T
    <3>. QED
      BY <3>1, SmallestSet
  <2>2. PICK y \in s : TRUE
    OBVIOUS
  <2>3. s \subseteq Int /\ ~\E m \in s : \A x \in s : x <= m
    OBVIOUS
  <2>4. CASE s \ {y} = {}
    BY <2>2, <2>3, <2>4
  <2>5. CASE s \ {y} # {}
    <3>1. PICK m \in s \ {y} : \A x \in s \ {y} : x <= m
      BY <2>1, <2>2, <2>5
    <3>. QED
      BY <2>2, <2>3, <3>1
  <2>. QED
    BY <2>4, <2>5
<1>2. PICK m \in S : \A x \in S : x <= m
  BY <1>1
<1>. QED
  BY <1>2, MaxFact
=============================================================================
