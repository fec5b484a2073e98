------------------------------ MODULE SetLemmas ------------------------------
(* Facts about data that the components' proofs share: the least and the      *)
(* greatest of a bounded set, induction over the naturals as a statement about *)
(* sets, and the sequence a finite set is laid out in. All rest on one fact    *)
(* of the library that takes no operator: strict inclusion of finite sets is   *)
(* well-founded.                                                             *)
EXTENDS Integers, Sequences, FiniteSets, SequencesExt, FiniteSetTheorems,
        SequenceTheorems, TLAPS

(* Of sets s..n, the smallest is that of the greatest s.                      *)
LEMMA GreatestExists ==
  ASSUME NEW m \in Int, NEW n \in Int, NEW S, S \subseteq m..n, S # {}
  PROVE  \E x \in S : \A y \in S : y <= x
<1> DEFINE F == {s..n : s \in S}
<1>1. F # {} /\ F \subseteq FiniteSubsetsOf(Int)
  <2>1. \A s \in S : s..n \in SUBSET Int /\ IsFiniteSet(s..n)
    BY FS_Interval
  <2> QED
    BY <2>1 DEF FiniteSubsetsOf
<1>2. \E x \in F : \A y \in F : ~(<<y, x>> \in StrictSubsetOrdering(Int))
  <2> HIDE DEF F
  <2> QED
    BY <1>1, FS_StrictSubsetOrderingWellFounded, WFMin
<1>3. PICK x \in S : \A y \in S : ~(<<y..n, x..n>> \in StrictSubsetOrdering(Int))
  BY <1>2
<1>4. ASSUME NEW y \in S, y > x PROVE FALSE
  <2>1. y..n \in SUBSET (x..n) /\ y..n # x..n
    <3>1. x \in x..n /\ x \notin y..n
      BY <1>4
    <3> QED
      BY <1>4, <3>1
  <2>2. <<y..n, x..n>> \in StrictSubsetOrdering(Int)
    BY <2>1 DEF StrictSubsetOrdering
  <2> QED
    BY <1>3, <2>2
<1> QED
  BY <1>4

(* Max of a bounded set is its greatest element.                              *)
LEMMA MaxIsGreatest ==
  ASSUME NEW m \in Int, NEW n \in Int, NEW S, S \subseteq m..n, S # {}
  PROVE  Max(S) \in S /\ \A y \in S : y <= Max(S)
<1>1. \E x \in S : \A y \in S : x >= y
  BY GreatestExists
<1> QED
  BY <1>1 DEF Max

(* And Min its least.                                                         *)
LEMMA MinIsLeast ==
  ASSUME NEW m \in Int, NEW n \in Int, NEW S, S \subseteq m..n, S # {}
  PROVE  Min(S) \in S /\ \A y \in S : Min(S) <= y
<1> DEFINE T == {-s : s \in S}
<1>1. T \subseteq (-n)..(-m) /\ T # {} /\ -n \in Int /\ -m \in Int
  <2>1. \A s \in S : s \in Int /\ m <= s /\ s <= n
    OBVIOUS
  <2>2. \A s \in S : -s \in (-n)..(-m)
    BY <2>1
  <2>3. T \subseteq (-n)..(-m)
    BY <2>2
  <2>4. T # {}
    OBVIOUS
  <2>5. -n \in Int /\ -m \in Int
    OBVIOUS
  <2> QED
    BY <2>3, <2>4, <2>5
<1>2. \E x \in T : \A y \in T : y <= x
  <2> HIDE DEF T
  <2> QED
    BY <1>1, GreatestExists
<1>3. \E x \in S : \A y \in S : x <= y
  BY <1>2
<1> QED
  BY <1>3 DEF Min

(* Induction: a set of naturals with 0, and with the successors of its        *)
(* elements, has them all.                                                    *)
LEMMA SetInduction ==
  ASSUME NEW T, 0 \in T, \A n \in Nat : n \in T => n + 1 \in T
  PROVE  Nat \subseteq T
<1> SUFFICES ASSUME NEW n \in Nat, n \notin T PROVE FALSE
  OBVIOUS
<1> DEFINE Without == {i \in 0..n : \A j \in 0..i : j \in T}
<1>1. Without \subseteq 0..n /\ Without # {}
  <2>1. 0 \in Without
    OBVIOUS
  <2> QED
    BY <2>1
<1>2. \E x \in Without : \A y \in Without : y <= x
  <2> HIDE DEF Without
  <2> 0 \in Int /\ n \in Int
    OBVIOUS
  <2> QED
    BY <1>1, GreatestExists
<1>3. PICK x \in Without : \A y \in Without : y <= x
  BY <1>2
<1>4. x \in 0..n /\ \A j \in 0..x : j \in T
  OBVIOUS
<1>5. x # n /\ x + 1 \in T
  BY <1>4
<1>6. x + 1 \in Without
  BY <1>4, <1>5
<1> QED
  BY <1>3, <1>4, <1>6

(* SetToSeq lays out a finite set: each element, and nothing else.             *)
LEMMA SetToSeqIs ==
  ASSUME NEW S, IsFiniteSet(S)
  PROVE  /\ SetToSeq(S) \in Seq(S) /\ Len(SetToSeq(S)) = Cardinality(S)
         /\ Cardinality(S) \in Nat
         /\ \A x \in S : \E i \in 1..Len(SetToSeq(S)) : SetToSeq(S)[i] = x
<1>1. Cardinality(S) \in Nat /\ ExistsBijection(1..Cardinality(S), S)
  BY FS_CardinalityType
<1>2. \E f \in [1..Cardinality(S) -> S] : IsInjective(f)
  BY <1>1 DEF ExistsBijection, Bijection, Injection
<1>3. SetToSeq(S) \in [1..Cardinality(S) -> S] /\ IsInjective(SetToSeq(S))
  BY <1>2 DEF SetToSeq
<1>4. SetToSeq(S) \in Injection(1..Cardinality(S), S)
  BY <1>3 DEF Injection
<1>5. Cardinality(1..Cardinality(S)) = Cardinality(S)
  BY <1>1, FS_Interval
<1>6. SetToSeq(S) \in Surjection(1..Cardinality(S), S)
  BY <1>4, <1>5, FS_Injection
<1>7. SetToSeq(S) \in Seq(S) /\ Len(SetToSeq(S)) = Cardinality(S)
  BY <1>1, <1>3
<1> QED
  BY <1>1, <1>6, <1>7 DEF Surjection

(* SetToSeqs: every order of a finite set has each of its elements.           *)
LEMMA SetToSeqsAre ==
  ASSUME NEW S, IsFiniteSet(S), NEW s \in SetToSeqs(S)
  PROVE  s \in Seq(S) /\ Range(s) = S
<1>1. Cardinality(S) \in Nat /\ Cardinality(1..Cardinality(S)) = Cardinality(S)
      /\ IsFiniteSet(1..Cardinality(S))
  BY FS_CardinalityType, FS_Interval
<1>2. s \in [1..Cardinality(S) -> S]
      /\ \A i, j \in 1..Cardinality(S) : i # j => s[i] # s[j]
  BY DEF SetToSeqs
<1>3. s \in Injection(1..Cardinality(S), S)
  BY <1>2 DEF Injection, IsInjective
<1>4. s \in Surjection(1..Cardinality(S), S)
  BY <1>1, <1>3, FS_Injection
<1> QED
  BY <1>1, <1>2, <1>4 DEF Surjection, Range

(* The elements of one sequence after another, and of one more.               *)
LEMMA RangeOf ==
  ASSUME NEW S, NEW s \in Seq(S), NEW t \in Seq(S), NEW e \in S
  PROVE  /\ Range(s \o t) = Range(s) \cup Range(t)
         /\ Range(Append(s, e)) = Range(s) \cup {e}
         /\ s # <<>> => Range(s) = {Head(s)} \cup Range(Tail(s))
         /\ Range(s) \subseteq S
<1>1. ASSUME NEW a \in Seq(S), NEW b \in Seq(S)
      PROVE  Range(a \o b) = Range(a) \cup Range(b)
  <2>1. /\ a \o b \in Seq(S) /\ Len(a \o b) = Len(a) + Len(b)
        /\ \A i \in 1..(Len(a) + Len(b)) :
             (a \o b)[i] = IF i <= Len(a) THEN a[i] ELSE b[i - Len(a)]
    BY ConcatProperties
  <2>2. DOMAIN (a \o b) = 1..(Len(a) + Len(b)) /\ DOMAIN a = 1..Len(a) /\ DOMAIN b = 1..Len(b)
        /\ Len(a) \in Nat /\ Len(b) \in Nat
    BY <2>1
  <2>3. ASSUME NEW x \in Range(a \o b) PROVE x \in Range(a) \cup Range(b)
    <3>1. PICK i \in 1..(Len(a) + Len(b)) : x = (a \o b)[i]
      BY <2>2 DEF Range
    <3>2. CASE i <= Len(a)
      BY <2>1, <2>2, <3>1, <3>2 DEF Range
    <3>3. CASE i > Len(a)
      <4>1. i - Len(a) \in 1..Len(b) /\ x = b[i - Len(a)]
        BY <2>1, <2>2, <3>1, <3>3
      <4> QED
        BY <2>2, <4>1 DEF Range
    <3> QED
      BY <2>2, <3>2, <3>3
  <2>4. ASSUME NEW i \in 1..Len(a) PROVE a[i] \in Range(a \o b)
    <3>1. i \in 1..(Len(a) + Len(b)) /\ (a \o b)[i] = a[i]
      BY <2>1, <2>2
    <3> QED
      BY <2>2, <3>1 DEF Range
  <2>5. ASSUME NEW i \in 1..Len(b) PROVE b[i] \in Range(a \o b)
    <3>1. i + Len(a) \in 1..(Len(a) + Len(b)) /\ (a \o b)[i + Len(a)] = b[i]
      BY <2>1, <2>2
    <3> QED
      BY <2>2, <3>1 DEF Range
  <2> QED
    BY <2>2, <2>3, <2>4, <2>5 DEF Range
<1>2. ASSUME NEW x \in S PROVE <<x>> \in Seq(S) /\ Range(<<x>>) = {x}
  BY DEF Range
<1>3. Range(Append(s, e)) = Range(s) \cup {e}
  <2>1. Append(s, e) = s \o <<e>>
    BY AppendIsConcat
  <2> QED
    BY <1>1, <1>2, <2>1
<1>4. ASSUME s # <<>> PROVE Range(s) = {Head(s)} \cup Range(Tail(s))
  <2>1. /\ Head(s) \in S /\ Tail(s) \in Seq(S) /\ Len(Tail(s)) = Len(s) - 1
        /\ \A i \in 1..Len(Tail(s)) : Tail(s)[i] = s[i + 1]
        /\ Head(s) = s[1]
    BY <1>4, HeadTailProperties
  <2>2. Len(s) \in Nat \ {0} /\ DOMAIN s = 1..Len(s) /\ DOMAIN Tail(s) = 1..(Len(s) - 1)
    BY <1>4, <2>1, EmptySeq
  <2>3. \A i \in 1..Len(s) : i = 1 \/ (i - 1 \in 1..(Len(s) - 1) /\ (i - 1) + 1 = i)
    BY <2>2
  <2>4. 1 \in 1..Len(s) /\ \A i \in 1..(Len(s) - 1) : i + 1 \in 1..Len(s)
    BY <2>2
  <2>5. ASSUME NEW i \in 1..Len(s) PROVE s[i] \in {Head(s)} \cup Range(Tail(s))
    <3>1. CASE i = 1
      BY <2>1, <3>1
    <3>2. CASE i # 1
      <4>1. i - 1 \in 1..(Len(s) - 1) /\ Tail(s)[i - 1] = s[i]
        BY <2>1, <2>2, <2>3, <3>2
      <4> QED
        BY <2>2, <4>1 DEF Range
    <3> QED
      BY <3>1, <3>2
  <2>6. ASSUME NEW i \in 1..(Len(s) - 1) PROVE Tail(s)[i] \in Range(s)
    <3>1. i + 1 \in 1..Len(s) /\ Tail(s)[i] = s[i + 1]
      BY <2>1, <2>2, <2>4
    <3> QED
      BY <2>2, <3>1 DEF Range
  <2> QED
    BY <2>1, <2>2, <2>4, <2>5, <2>6 DEF Range
<1>5. Range(s) \subseteq S
  BY DEF Range
<1> QED
  BY <1>1, <1>3, <1>4, <1>5
=============================================================================
