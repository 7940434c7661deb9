-------------------------- MODULE Extremes_proofs --------------------------
(***************************************************************************)
(* Sets of times and positions have least and greatest elements; hence     *)
(* induction over a set of numbers, and positions of every rank.           *)
(***************************************************************************)
EXTENDS Lookups, TLAPS, WellFoundedInduction, FiniteSetTheorems

\* A set of times has a least one: the first of the sorted keys exists.
LEMMA LeastExists ==
    ASSUME NEW S \in SUBSET Nat, S # {}
    PROVE  Least(S) \in S /\ \A y \in S : Least(S) <= y
<1> DEFINE Below == {0 .. x : x \in S}
<1>1. Below \subseteq FiniteSubsetsOf(Nat) /\ Below # {}
  <2>1. ASSUME NEW x \in S PROVE 0 .. x \in FiniteSubsetsOf(Nat)
    <3>1. x \in Int /\ 0 \in Int /\ 0 .. x \in SUBSET Nat
      OBVIOUS
    <3> QED
      BY <3>1, FS_Interval DEF FiniteSubsetsOf
  <2> QED
    BY <2>1
<1>2. PICK I \in Below : \A J \in Below : ~(<<J, I>> \in StrictSubsetOrdering(Nat))
  BY <1>1, FS_StrictSubsetOrderingWellFounded, WFMin
<1>3. PICK x \in S : I = 0 .. x
  OBVIOUS
<1>4. ASSUME NEW y \in S, y < x PROVE FALSE
  <2>1. 0 .. y \subseteq 0 .. x /\ x \notin 0 .. y /\ x \in 0 .. x
    BY <1>4
  <2>2. 0 .. y \in Below /\ 0 .. y # I /\ 0 .. y \subseteq I
    BY <2>1, <1>3
  <2> HIDE DEF Below
  <2> QED
    BY <2>2, <1>1, <1>2 DEF StrictSubsetOrdering, FiniteSubsetsOf
<1>5. \A y \in S : x <= y
  BY <1>4
<1> QED
  BY <1>5 DEF Least

\* A set of times before some time has a greatest one: the last of the keys.
LEMMA GreatestExists ==
    ASSUME NEW S \in SUBSET Nat, S # {}, NEW t \in Nat, \A y \in S : y <= t
    PROVE  Greatest(S) \in S /\ \A y \in S : y <= Greatest(S)
<1> DEFINE Gaps == {t - y : y \in S}
<1>1. Gaps \in SUBSET Nat /\ Gaps # {}
  <2>1. ASSUME NEW y \in S PROVE t - y \in Nat
    OBVIOUS
  <2> QED
    BY <2>1
<1>2. PICK y \in S : Least(Gaps) = t - y
  BY <1>1, LeastExists
<1>3. \A z \in S : z <= y
  BY <1>1, <1>2, LeastExists
<1> QED
  BY <1>3 DEF Greatest

\* Induction, for a property that is given as the set of numbers that have it.
LEMMA SetInduction ==
    ASSUME NEW T, 0 \in T, \A n \in Nat : n \in T => n + 1 \in T
    PROVE  Nat \subseteq T
<1> SUFFICES ASSUME Nat \ T # {} PROVE FALSE
  OBVIOUS
<1> DEFINE S == Nat \ T
           l == Least(S)
<1>1. l \in S /\ \A y \in S : l <= y
  <2>1. S \in SUBSET Nat /\ S # {}
    OBVIOUS
  <2> QED
    BY <2>1, LeastExists
<1>2. l \in Nat /\ l \notin T /\ l # 0
  BY <1>1
<1>3. l - 1 \in Nat /\ ~(l <= l - 1)
  BY <1>2
<1>4. l - 1 \in T
  BY <1>1, <1>3
<1> QED
  BY <1>2, <1>3, <1>4

\* Every rank below the size of a set of positions is that of one position.
LEMMA RankExists ==
    ASSUME NEW S \in SUBSET Nat, IsFiniteSet(S), NEW n \in 0 .. Cardinality(S) - 1
    PROVE  \E i \in S : Cardinality({j \in S : j < i}) = n
<1> DEFINE Before(i) == {j \in S : j < i}
           R == 0 .. Cardinality(S) - 1
           rank == [i \in S |-> Cardinality(Before(i))]
<1>1. \A i \in S : Before(i) \subseteq S /\ i \notin Before(i)
  OBVIOUS
<1>2. Cardinality(S) \in Nat
  BY FS_CardinalityType
<1>3. ASSUME NEW i \in S PROVE rank[i] \in R
  <2>1. IsFiniteSet(Before(i)) /\ Cardinality(Before(i)) <= Cardinality(S)
    BY <1>1, FS_Subset
  <2>2. Cardinality(Before(i)) # Cardinality(S)
    BY <1>1, FS_Subset
  <2>3. Cardinality(Before(i)) \in Nat
    BY <2>1, FS_CardinalityType
  <2> QED
    BY <1>2, <2>1, <2>2, <2>3
<1>4. ASSUME NEW i \in S, NEW k \in S, i < k PROVE rank[i] # rank[k]
  <2>1. Before(i) \subseteq Before(k) /\ i \in Before(k)
    <3>1. i \in Nat /\ k \in Nat /\ \A j \in S : j \in Nat
      OBVIOUS
    <3>2. \A j \in S : j < i => j < k
      BY <1>4, <3>1
    <3> QED
      BY <1>4, <3>2
  <2>2. IsFiniteSet(Before(k))
    BY <1>1, FS_Subset
  <2>3. Cardinality(Before(i)) = Cardinality(Before(k)) => Before(i) = Before(k)
    BY <2>1, <2>2, FS_Subset
  <2> QED
    BY <1>1, <2>1, <2>3
<1>5. rank \in Injection(S, R)
  <2>1. \A i, k \in S : i < k \/ k < i \/ i = k
    OBVIOUS
  <2>2. \A i, k \in S : rank[i] = rank[k] => i = k
    BY <2>1, <1>4
  <2>3. rank \in [S -> R]
    BY <1>3
  <2> HIDE DEF rank, R
  <2> QED
    BY <2>2, <2>3 DEF Injection, IsInjective
<1>6. IsFiniteSet(R) /\ Cardinality(R) = Cardinality(S)
  <2>1. 0 \in Int /\ Cardinality(S) - 1 \in Int
    BY <1>2
  <2> QED
    BY <1>2, <2>1, FS_Interval
<1>7. rank \in Surjection(S, R)
  BY <1>5, <1>6, FS_Injection
<1>8. PICK i \in S : rank[i] = n
  BY <1>7 DEF Surjection
<1> QED
  BY <1>8
=============================================================================
