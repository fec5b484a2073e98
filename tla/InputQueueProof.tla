-------------------------- MODULE InputQueueProof --------------------------
(* What holds of the input's way to the guest for any keys, pads, bindings    *)
(* and any length of the queue: no wakeup is lost, no key sticks, and no      *)
(* drain shows the guest a position the pad never had.                        *)
EXTENDS InputQueue, SetLemmas

AllKeys == Keys \cup PadKeys
Calls == Events \cup {Flush}

-----------------------------------------------------------------------------
(* What a run of events leaves                                               *)

(* What an event can be.                                                      *)
LEMMA EventKinds ==
  ASSUME NEW e \in Calls
  PROVE  /\ e.kind = "key" => e.key \in AllKeys /\ e.down \in BOOLEAN
         /\ e.kind = "pad" => e.pad \in PadStates
         /\ e # Flush <=> e \in Events
  BY DEF Calls, Events, Key, Pad, Pointer, Flush, AllKeys

(* The last word about a key is its state, and with none it is as before.     *)
LEMMA HeldIs ==
  ASSUME NEW s \in Seq(Calls), NEW before, NEW k
  PROVE  /\ About(s, k) \subseteq 1..Len(s)
         /\ k \in HeldAfter(s, before) <=>
              /\ k \in AllKeys
              /\ \/ About(s, k) = {} /\ k \in before
                 \/ \E i \in About(s, k) : s[i].down /\ \A j \in About(s, k) : j <= i
<1>1. About(s, k) \subseteq 1..Len(s)
  BY DEF About
<1>2. ASSUME About(s, k) # {}
      PROVE  /\ Max(About(s, k)) \in About(s, k)
             /\ \A j \in About(s, k) : j <= Max(About(s, k))
  <2>1. 1 \in Int /\ Len(s) \in Int
    OBVIOUS
  <2> QED
    BY <1>1, <1>2, <2>1, MaxIsGreatest
<1>3. \A i \in About(s, k) : (\A j \in About(s, k) : j <= i) => i = Max(About(s, k))
  BY <1>1, <1>2
<1>4. k \in HeldAfter(s, before) <=>
        /\ k \in AllKeys
        /\ IF About(s, k) = {} THEN k \in before ELSE s[Max(About(s, k))].down
  BY DEF HeldAfter, AllKeys
<1> QED
  BY <1>1, <1>2, <1>3, <1>4

(* Only keys are held.                                                        *)
LEMMA HeldType ==
  ASSUME NEW s, NEW before
  PROVE  HeldAfter(s, before) \subseteq AllKeys
  BY DEF HeldAfter, AllKeys

(* One run after another.                                                     *)
LEMMA HeldConcat ==
  ASSUME NEW s \in Seq(Calls), NEW t \in Seq(Calls), NEW before
  PROVE  HeldAfter(s \o t, before) = HeldAfter(t, HeldAfter(s, before))
<1>0. /\ HeldAfter(s \o t, before) \subseteq AllKeys
      /\ HeldAfter(t, HeldAfter(s, before)) \subseteq AllKeys
  BY HeldType
<1> SUFFICES ASSUME NEW k \in AllKeys
             PROVE  k \in HeldAfter(s \o t, before)
                      <=> k \in HeldAfter(t, HeldAfter(s, before))
  BY <1>0
<1>1. s \o t \in Seq(Calls) /\ Len(s \o t) = Len(s) + Len(t)
      /\ \A i \in 1..(Len(s) + Len(t)) :
           (s \o t)[i] = IF i <= Len(s) THEN s[i] ELSE t[i - Len(s)]
  BY ConcatProperties
<1>2. About(s, k) = {i \in 1..Len(s) : s[i].kind = "key" /\ s[i].key = k}
  BY DEF About
<1>3. About(t, k) = {i \in 1..Len(t) : t[i].kind = "key" /\ t[i].key = k}
  BY DEF About
<1>4. About(s \o t, k) = {i \in 1..(Len(s) + Len(t)) :
                            (s \o t)[i].kind = "key" /\ (s \o t)[i].key = k}
  BY <1>1 DEF About
<1>5. \A i \in 1..Len(s) : i \in About(s \o t, k) <=> i \in About(s, k)
  BY <1>1, <1>2, <1>4
<1>6. \A i \in 1..Len(t) : i + Len(s) \in About(s \o t, k) <=> i \in About(t, k)
  <2> SUFFICES ASSUME NEW i \in 1..Len(t)
               PROVE  i + Len(s) \in About(s \o t, k) <=> i \in About(t, k)
    OBVIOUS
  <2>1. i + Len(s) \in 1..(Len(s) + Len(t)) /\ (s \o t)[i + Len(s)] = t[i]
    BY <1>1
  <2> QED
    BY <1>3, <1>4, <2>1
<1>7. \A i \in About(s \o t, k) : i \in About(s, k) \/ i - Len(s) \in About(t, k)
  <2> SUFFICES ASSUME NEW i \in About(s \o t, k), i \notin About(s, k)
               PROVE  i - Len(s) \in About(t, k)
    OBVIOUS
  <2>1. i \in 1..(Len(s) + Len(t)) /\ i > Len(s)
    BY <1>4, <1>5
  <2>2. i - Len(s) \in 1..Len(t) /\ (i - Len(s)) + Len(s) = i
    BY <2>1
  <2> QED
    BY <1>6, <2>2
<1>8. CASE About(t, k) = {}
  <2>1. About(s \o t, k) = About(s, k)
    BY <1>2, <1>4, <1>5, <1>7, <1>8
  <2>2. \A i \in About(s, k) : (s \o t)[i] = s[i]
    BY <1>1, <1>2
  <2>3. k \in HeldAfter(t, HeldAfter(s, before)) <=> k \in HeldAfter(s, before)
    BY <1>8, HeldIs
  <2>4. k \in HeldAfter(s \o t, before) <=>
          \/ About(s \o t, k) = {} /\ k \in before
          \/ \E i \in About(s \o t, k) :
               (s \o t)[i].down /\ \A j \in About(s \o t, k) : j <= i
    BY <1>1, HeldIs
  <2>5. k \in HeldAfter(s, before) <=>
          \/ About(s, k) = {} /\ k \in before
          \/ \E i \in About(s, k) : s[i].down /\ \A j \in About(s, k) : j <= i
    BY HeldIs
  <2> QED
    BY <2>1, <2>2, <2>3, <2>4, <2>5
<1>9. CASE About(t, k) # {}
  <2>1. PICK m \in About(t, k) : \A j \in About(t, k) : j <= m
    <3>1. About(t, k) \subseteq 1..Len(t) /\ 1 \in Int /\ Len(t) \in Int
      BY <1>3
    <3> QED
      BY <1>9, <3>1, GreatestExists
  <2>2. m \in 1..Len(t) /\ m + Len(s) \in About(s \o t, k)
        /\ (s \o t)[m + Len(s)] = t[m]
    BY <1>1, <1>3, <1>6
  <2>3. \A j \in About(s \o t, k) : j <= m + Len(s)
    <3> SUFFICES ASSUME NEW j \in About(s \o t, k) PROVE j <= m + Len(s)
      OBVIOUS
    <3>1. CASE j \in About(s, k)
      BY <1>2, <2>2, <3>1
    <3>2. CASE j - Len(s) \in About(t, k)
      BY <1>4, <2>1, <2>2, <3>2
    <3> QED
      BY <1>7, <3>1, <3>2
  <2>4. k \in HeldAfter(t, HeldAfter(s, before)) <=> t[m].down
    <3>1. \A i \in About(t, k) : (\A j \in About(t, k) : j <= i) => i = m
      BY <1>3, <2>1
    <3>2. k \in HeldAfter(t, HeldAfter(s, before)) <=>
            \E i \in About(t, k) : t[i].down /\ \A j \in About(t, k) : j <= i
      BY <1>9, HeldIs
    <3> QED
      BY <2>1, <3>1, <3>2
  <2>5. k \in HeldAfter(s \o t, before) <=> (s \o t)[m + Len(s)].down
    <3>1. \A i \in About(s \o t, k) :
            (\A j \in About(s \o t, k) : j <= i) => i = m + Len(s)
      <4> SUFFICES ASSUME NEW i \in About(s \o t, k), \A j \in About(s \o t, k) : j <= i
                   PROVE  i = m + Len(s)
        OBVIOUS
      <4>1. i \in Int /\ m + Len(s) \in Int
        BY <1>4, <2>2
      <4>2. i <= m + Len(s) /\ m + Len(s) <= i
        BY <2>2, <2>3
      <4> QED
        BY <4>1, <4>2
    <3>2. k \in HeldAfter(s \o t, before) <=>
            \E i \in About(s \o t, k) :
              (s \o t)[i].down /\ \A j \in About(s \o t, k) : j <= i
      BY <1>1, <2>2, HeldIs
    <3> QED
      BY <2>2, <2>3, <3>1, <3>2
  <2> QED
    BY <2>2, <2>4, <2>5
<1> QED
  BY <1>8, <1>9

(* Nothing, and an event that is not a key's.                                 *)
LEMMA HeldNothing ==
  ASSUME NEW before, before \subseteq AllKeys
  PROVE  HeldAfter(<<>>, before) = before
  BY DEF HeldAfter, About, AllKeys

(* An event that is not a key's leaves the keys as they are.                  *)
LEMMA HeldOther ==
  ASSUME NEW e \in Calls, e.kind # "key", NEW before, before \subseteq AllKeys
  PROVE  HeldAfter(<<e>>, before) = before
<1>1. \A k : About(<<e>>, k) = {}
  BY DEF About
<1> QED
  BY <1>1 DEF HeldAfter, AllKeys

(* The keys of a set, all one way, in any order; and a flush behind.          *)
LEMMA EachIs ==
  ASSUME NEW keys, keys \subseteq AllKeys, IsFiniteSet(keys), NEW down \in BOOLEAN
  PROVE  /\ Each(keys, down) \in Seq(Events)
         /\ \A i \in 1..Len(Each(keys, down)) :
              \E k \in keys : Each(keys, down)[i] = Key(k, down)
         /\ \A k \in keys :
              \E i \in 1..Len(Each(keys, down)) : Each(keys, down)[i] = Key(k, down)
<1> DEFINE n == Len(SetToSeq(keys))
<1>1. /\ SetToSeq(keys) \in Seq(keys) /\ n \in Nat
      /\ \A k \in keys : \E i \in 1..n : SetToSeq(keys)[i] = k
  BY SetToSeqIs
<1>2. Each(keys, down) = [i \in 1..n |-> Key(SetToSeq(keys)[i], down)]
  BY DEF Each
<1>3. \A i \in 1..n : SetToSeq(keys)[i] \in keys
  BY <1>1
<1>4. \A k \in keys : Key(k, down) \in Events
  BY DEF Events, AllKeys
<1>5. Each(keys, down) \in [1..n -> Events]
  BY <1>2, <1>3, <1>4
<1>6. Each(keys, down) \in Seq(Events) /\ Len(Each(keys, down)) = n
  BY <1>1, <1>5
<1> QED
  BY <1>1, <1>2, <1>3, <1>6

(* A set of keys one way leaves them all that way.                            *)
LEMMA HeldEach ==
  ASSUME NEW keys, keys \subseteq AllKeys, IsFiniteSet(keys), NEW down \in BOOLEAN,
         NEW before, before \subseteq AllKeys
  PROVE  HeldAfter(Each(keys, down), before)
           = IF down THEN before \cup keys ELSE before \ keys
<1> DEFINE s == Each(keys, down)
<1>1. /\ s \in Seq(Events)
      /\ \A i \in 1..Len(s) : \E k \in keys : s[i] = Key(k, down)
      /\ \A k \in keys : \E i \in 1..Len(s) : s[i] = Key(k, down)
  BY EachIs
<1>2. s \in Seq(Calls)
  BY <1>1 DEF Calls
<1> HIDE DEF s
<1>3. HeldAfter(s, before) \subseteq AllKeys
  BY HeldType
<1> SUFFICES ASSUME NEW k \in AllKeys
             PROVE  k \in HeldAfter(s, before)
                      <=> k \in (IF down THEN before \cup keys ELSE before \ keys)
  BY <1>3 DEF s
<1>4. \A i \in 1..Len(s) : s[i].kind = "key" /\ s[i].key \in keys /\ s[i].down = down
  <2> SUFFICES ASSUME NEW i \in 1..Len(s)
               PROVE  s[i].kind = "key" /\ s[i].key \in keys /\ s[i].down = down
    OBVIOUS
  <2>1. PICK x \in keys : s[i] = Key(x, down)
    BY <1>1
  <2> QED
    BY <2>1 DEF Key
<1>5. About(s, k) = {i \in 1..Len(s) : s[i].key = k}
  BY <1>2, <1>4 DEF About
<1>6. CASE k \notin keys
  <2>1. About(s, k) = {}
    BY <1>4, <1>5, <1>6
  <2> QED
    BY <1>2, <1>6, <2>1, HeldIs
<1>7. CASE k \in keys
  <2>1. About(s, k) # {} /\ About(s, k) \subseteq 1..Len(s) /\ 1 \in Int /\ Len(s) \in Int
    <3>1. PICK i \in 1..Len(s) : s[i] = Key(k, down)
      BY <1>1, <1>7
    <3>2. i \in About(s, k)
      BY <1>5, <3>1 DEF Key
    <3> QED
      BY <1>2, <1>5, <3>2
  <2>2. \E i \in About(s, k) : \A j \in About(s, k) : j <= i
    BY <2>1, GreatestExists
  <2>3. \A i \in About(s, k) : s[i].down = down
    BY <1>4, <2>1
  <2> QED
    BY <1>2, <1>7, <2>1, <2>2, <2>3, HeldIs
<1> QED
  BY <1>6, <1>7

(* The flush behind a run changes nothing of what it leaves held.             *)
LEMMA FlushedIs ==
  ASSUME NEW s \in Seq(Events)
  PROVE  /\ Flushed(s) \in Seq(Calls)
         /\ Flushed(s) # <<>> => Flushed(s)[Len(Flushed(s))] = Flush
         /\ \A before \in SUBSET AllKeys : HeldAfter(Flushed(s), before) = HeldAfter(s, before)
<1>1. s \in Seq(Calls) /\ Flush \in Calls /\ <<Flush>> \in Seq(Calls)
  BY DEF Calls
<1>2. CASE s = <<>>
  BY <1>1, <1>2 DEF Flushed
<1>3. CASE s # <<>>
  <2>1. Flushed(s) = s \o <<Flush>> /\ Flushed(s) = Append(s, Flush)
    BY <1>1, <1>3, AppendIsConcat DEF Flushed
  <2>2. Flush.kind # "key"
    BY DEF Flush
  <2>3. ASSUME NEW before \in SUBSET AllKeys
        PROVE  HeldAfter(Flushed(s), before) = HeldAfter(s, before)
    <3>1. HeldAfter(Flushed(s), before) = HeldAfter(<<Flush>>, HeldAfter(s, before))
      <4>1. HeldAfter(s \o <<Flush>>, before) = HeldAfter(<<Flush>>, HeldAfter(s, before))
        BY <1>1, HeldConcat
      <4> QED
        BY <2>1, <4>1
    <3>2. HeldAfter(s, before) \subseteq AllKeys
      BY HeldType
    <3> QED
      BY <1>1, <2>2, <3>1, <3>2, HeldOther
  <2>4. Flushed(s) \in Seq(Calls) /\ Flushed(s)[Len(Flushed(s))] = Flush
    BY <1>1, <2>1, AppendProperties
  <2> QED
    BY <2>3, <2>4
<1> QED
  BY <1>2, <1>3

-----------------------------------------------------------------------------
(* Where a drain may cut                                                     *)

(* The keys only the pad presses; and a combination some position means.      *)
Pure == PadKeys \ Keys
Pressed(p) == {Bindings[c] : c \in p}
Means(keys) == \E p \in PadStates : keys \cap Pure \subseteq Pressed(p)

(* Wherever a run is cut, what it leaves so far means something.              *)
AllCuts(s, before) == \A n \in 0..Len(s) : Means(HeldAfter(SubSeq(s, 1, n), before))

(* The keys a run presses.                                                    *)
Presses(s) == {s[i].key : i \in {j \in 1..Len(s) : s[j].kind = "key" /\ s[j].down}}

(* The part of a run up to n, of two runs one after another.                  *)
LEMMA PartOfConcat ==
  ASSUME NEW s \in Seq(Calls), NEW t \in Seq(Calls), NEW n \in 0..(Len(s) + Len(t))
  PROVE  /\ n <= Len(s) => SubSeq(s \o t, 1, n) = SubSeq(s, 1, n)
         /\ n >= Len(s) => SubSeq(s \o t, 1, n) = s \o SubSeq(t, 1, n - Len(s))
         /\ n <= Len(s) => SubSeq(s, 1, n) \in Seq(Calls) /\ Len(SubSeq(s, 1, n)) = n
         /\ n >= Len(s) => SubSeq(t, 1, n - Len(s)) \in Seq(Calls)
<1>1. /\ s \o t \in Seq(Calls) /\ Len(s \o t) = Len(s) + Len(t)
      /\ \A i \in 1..(Len(s) + Len(t)) :
           (s \o t)[i] = IF i <= Len(s) THEN s[i] ELSE t[i - Len(s)]
  BY ConcatProperties
<1>2. /\ \A i \in 1..n : (s \o t)[i] \in Calls
      /\ n \in Int /\ 1 \in Int
  BY <1>1
<1>3. /\ SubSeq(s \o t, 1, n) \in Seq(Calls) /\ Len(SubSeq(s \o t, 1, n)) = n
      /\ \A i \in 1..n : SubSeq(s \o t, 1, n)[i] = (s \o t)[i]
  BY <1>2, SubSeqProperties
<1>4. CASE n <= Len(s)
  <2>1. \A i \in 1..n : s[i] \in Calls
    BY <1>4
  <2>2. /\ SubSeq(s, 1, n) \in Seq(Calls) /\ Len(SubSeq(s, 1, n)) = n
        /\ \A i \in 1..n : SubSeq(s, 1, n)[i] = s[i]
    BY <1>2, <2>1, SubSeqProperties
  <2>3. \A i \in 1..n : SubSeq(s \o t, 1, n)[i] = SubSeq(s, 1, n)[i]
    BY <1>1, <1>3, <1>4, <2>2
  <2>4. SubSeq(s \o t, 1, n) = SubSeq(s, 1, n)
    BY <1>3, <2>2, <2>3, SeqEqual
  <2>5. n = Len(s) => s \o SubSeq(t, 1, n - Len(s)) = s /\ SubSeq(s, 1, n) = s
                      /\ SubSeq(t, 1, n - Len(s)) \in Seq(Calls)
    BY SubSeqEmpty, SubSeqFull, ConcatEmptySeq
  <2> QED
    BY <1>4, <2>2, <2>4, <2>5
<1>5. CASE n > Len(s)
  <2> DEFINE m == n - Len(s)
  <2>1. m \in 1..Len(t)
    BY <1>5
  <2>2. \A i \in 1..m : t[i] \in Calls
    BY <2>1
  <2>3. /\ SubSeq(t, 1, m) \in Seq(Calls) /\ Len(SubSeq(t, 1, m)) = m
        /\ \A i \in 1..m : SubSeq(t, 1, m)[i] = t[i]
    BY <1>2, <2>1, <2>2, SubSeqProperties
  <2> DEFINE u == SubSeq(t, 1, m)
  <2> HIDE DEF u
  <2>4. /\ s \o u \in Seq(Calls) /\ Len(s \o u) = Len(s) + Len(u)
        /\ \A i \in 1..(Len(s) + Len(u)) :
             (s \o u)[i] = IF i <= Len(s) THEN s[i] ELSE u[i - Len(s)]
    BY <2>3, ConcatProperties DEF u
  <2>5. Len(s) + Len(u) = n
    BY <2>3 DEF u
  <2>6. \A i \in 1..n : SubSeq(s \o t, 1, n)[i] = (s \o u)[i]
    <3> SUFFICES ASSUME NEW i \in 1..n PROVE SubSeq(s \o t, 1, n)[i] = (s \o u)[i]
      OBVIOUS
    <3>1. CASE i <= Len(s)
      BY <1>1, <1>3, <2>4, <2>5, <3>1
    <3>2. CASE i > Len(s)
      <4>1. i - Len(s) \in 1..m /\ u[i - Len(s)] = t[i - Len(s)]
        BY <2>1, <2>3, <3>2 DEF u
      <4> QED
        BY <1>1, <1>3, <2>4, <2>5, <3>2, <4>1
    <3>3. i <= Len(s) \/ i > Len(s)
      OBVIOUS
    <3> QED
      BY <3>1, <3>2, <3>3
  <2>7. SubSeq(s \o t, 1, n) = s \o u
    BY <1>3, <2>4, <2>5, <2>6, SeqEqual
  <2> QED
    BY <1>5, <2>3, <2>7 DEF u
<1> QED
  BY <1>4, <1>5

(* One run after another: the cuts of the first, then those of the second     *)
(* behind what the first leaves.                                              *)
LEMMA CutsConcat ==
  ASSUME NEW s \in Seq(Calls), NEW t \in Seq(Calls), NEW before
  PROVE  AllCuts(s \o t, before) <=> AllCuts(s, before) /\ AllCuts(t, HeldAfter(s, before))
<1>1. Len(s \o t) = Len(s) + Len(t) /\ Len(s) \in Nat /\ Len(t) \in Nat
  BY ConcatProperties
<1>2. \A n \in 0..Len(s) : SubSeq(s \o t, 1, n) = SubSeq(s, 1, n)
  BY <1>1, PartOfConcat
<1>3. ASSUME NEW n \in 0..Len(t)
      PROVE  HeldAfter(SubSeq(s \o t, 1, n + Len(s)), before)
               = HeldAfter(SubSeq(t, 1, n), HeldAfter(s, before))
  <2>1. n + Len(s) \in 0..(Len(s) + Len(t)) /\ n + Len(s) >= Len(s)
        /\ (n + Len(s)) - Len(s) = n
    BY <1>1
  <2>2. /\ SubSeq(s \o t, 1, n + Len(s)) = s \o SubSeq(t, 1, n)
        /\ SubSeq(t, 1, n) \in Seq(Calls)
    BY <2>1, PartOfConcat
  <2>3. HeldAfter(s \o SubSeq(t, 1, n), before)
          = HeldAfter(SubSeq(t, 1, n), HeldAfter(s, before))
    BY <2>2, HeldConcat
  <2> QED
    BY <2>2, <2>3
<1>4. ASSUME AllCuts(s \o t, before)
      PROVE  AllCuts(s, before) /\ AllCuts(t, HeldAfter(s, before))
  <2>1. \A n \in 0..Len(s) : n \in 0..Len(s \o t)
    BY <1>1
  <2>2. \A n \in 0..Len(t) : n + Len(s) \in 0..Len(s \o t)
    BY <1>1
  <2> QED
    BY <1>2, <1>3, <1>4, <2>1, <2>2 DEF AllCuts
<1>5. ASSUME AllCuts(s, before), AllCuts(t, HeldAfter(s, before))
      PROVE  AllCuts(s \o t, before)
  <2> SUFFICES ASSUME NEW n \in 0..Len(s \o t)
               PROVE  Means(HeldAfter(SubSeq(s \o t, 1, n), before))
    BY DEF AllCuts
  <2>1. CASE n <= Len(s)
    <3>1. n \in 0..Len(s)
      BY <1>1, <2>1
    <3> QED
      BY <1>2, <1>5, <3>1 DEF AllCuts
  <2>2. CASE n > Len(s)
    <3>1. n - Len(s) \in 0..Len(t) /\ (n - Len(s)) + Len(s) = n
      BY <1>1, <2>2
    <3> QED
      BY <1>3, <1>5, <3>1 DEF AllCuts
  <2> QED
    BY <1>1, <2>1, <2>2
<1> QED
  BY <1>4, <1>5

(* A run of one, and of none.                                                 *)
LEMMA CutsOne ==
  ASSUME NEW e \in Calls, NEW before, before \subseteq AllKeys
  PROVE  /\ AllCuts(<<e>>, before) <=> Means(before) /\ Means(HeldAfter(<<e>>, before))
         /\ AllCuts(<<>>, before) <=> Means(before)
<1>1. SubSeq(<<e>>, 1, 0) = <<>> /\ SubSeq(<<>>, 1, 0) = <<>>
  BY SubSeqEmpty
<1>2. SubSeq(<<e>>, 1, 1) = <<e>>
  <2>1. <<e>> \in Seq(Calls) /\ Len(<<e>>) = 1
    OBVIOUS
  <2> QED
    BY <2>1, SubSeqFull
<1>3. 0..Len(<<e>>) = {0, 1} /\ 0..Len(<<>>) = {0}
  OBVIOUS
<1>4. HeldAfter(<<>>, before) = before
  BY HeldNothing
<1> QED
  BY <1>1, <1>2, <1>3, <1>4 DEF AllCuts

(* A run that presses only what a position means, from such a state.           *)
LEMMA CutsWithin ==
  ASSUME NEW s \in Seq(Calls), NEW before, NEW p \in PadStates,
         before \cap Pure \subseteq Pressed(p), Presses(s) \cap Pure \subseteq Pressed(p)
  PROVE  AllCuts(s, before)
<1> SUFFICES ASSUME NEW n \in 0..Len(s), NEW k \in HeldAfter(SubSeq(s, 1, n), before) \cap Pure
             PROVE  k \in Pressed(p)
  BY DEF AllCuts, Means
<1>1. /\ SubSeq(s, 1, n) \in Seq(Calls) /\ Len(SubSeq(s, 1, n)) = n
      /\ \A i \in 1..n : SubSeq(s, 1, n)[i] = s[i]
  <2>1. (\A i \in 1..n : s[i] \in Calls) /\ n \in Int /\ 1 \in Int
    OBVIOUS
  <2>2. n - 1 + 1 = n /\ (1 <= n => n - 1 + 1 = n) /\ (~(1 <= n) => n = 0)
    OBVIOUS
  <2> QED
    BY <2>1, <2>2, SubSeqProperties
<1> DEFINE t == SubSeq(s, 1, n)
<1>2. CASE About(t, k) = {} /\ k \in before
  BY <1>2
<1>3. CASE \E i \in About(t, k) : t[i].down
  <2>1. PICK i \in About(t, k) : t[i].down
    BY <1>3
  <2>2. i \in 1..Len(s) /\ t[i] = s[i] /\ s[i].kind = "key" /\ s[i].key = k
    BY <1>1 DEF About
  <2> QED
    BY <2>1, <2>2 DEF Presses
<1>4. k \in HeldAfter(t, before)
  OBVIOUS
<1>5. \/ About(t, k) = {} /\ k \in before
      \/ \E i \in About(t, k) : t[i].down
  <2> HIDE DEF t
  <2> QED
    BY <1>1, <1>4, HeldIs DEF t
<1> QED
  BY <1>2, <1>3, <1>5

(* What a run presses is what its parts press.                                *)
LEMMA PressesOf ==
  /\ \A s, t \in Seq(Calls) : Presses(s \o t) \subseteq Presses(s) \cup Presses(t)
  /\ \A s \in Seq(Events) : Presses(Flushed(s)) \subseteq Presses(s)
  /\ \A e : Presses(<<e>>) \subseteq {e.key}
  /\ \A e : ~e.down => Presses(<<e>>) = {}
  /\ \A e : e.kind # "key" => Presses(<<e>>) = {}
<1>1. ASSUME NEW s \in Seq(Calls), NEW t \in Seq(Calls)
      PROVE  Presses(s \o t) \subseteq Presses(s) \cup Presses(t)
  <2>1. Len(s \o t) = Len(s) + Len(t)
        /\ \A i \in 1..(Len(s) + Len(t)) :
             (s \o t)[i] = IF i <= Len(s) THEN s[i] ELSE t[i - Len(s)]
    BY ConcatProperties
  <2> SUFFICES ASSUME NEW i \in 1..(Len(s) + Len(t)), (s \o t)[i].kind = "key",
                      (s \o t)[i].down
               PROVE  (s \o t)[i].key \in Presses(s) \cup Presses(t)
    BY <2>1 DEF Presses
  <2>2. CASE i <= Len(s)
    BY <2>1, <2>2 DEF Presses
  <2>3. CASE i > Len(s)
    <3>1. i - Len(s) \in 1..Len(t) /\ (s \o t)[i] = t[i - Len(s)]
      BY <2>1, <2>3
    <3> QED
      BY <3>1 DEF Presses
  <2> QED
    BY <2>2, <2>3
<1>2. \A e : e.kind # "key" => Presses(<<e>>) = {}
  BY DEF Presses
<1>3. ASSUME NEW s \in Seq(Events)
      PROVE  Presses(Flushed(s)) \subseteq Presses(s)
  <2>1. s \in Seq(Calls) /\ <<Flush>> \in Seq(Calls)
    BY DEF Calls
  <2>2. Flushed(s) = s \/ Flushed(s) = s \o <<Flush>>
    BY <2>1, AppendIsConcat DEF Flushed, Calls
  <2>3. Presses(<<Flush>>) = {}
    BY <1>2 DEF Flush
  <2>4. Presses(s \o <<Flush>>) \subseteq Presses(s)
    BY <1>1, <2>1, <2>3
  <2> QED
    BY <2>2, <2>4
<1>4. \A e : Presses(<<e>>) \subseteq {e.key}
  BY DEF Presses
<1>5. \A e : ~e.down => Presses(<<e>>) = {}
  BY DEF Presses
<1> QED
  BY <1>1, <1>2, <1>3, <1>4, <1>5

(* A flush behind a run adds no cut that shows anything new.                  *)
LEMMA CutsFlushed ==
  ASSUME NEW s \in Seq(Events), NEW before, before \subseteq AllKeys, AllCuts(s, before)
  PROVE  AllCuts(Flushed(s), before)
<1>1. s \in Seq(Calls) /\ <<Flush>> \in Seq(Calls) /\ Flush \in Calls
  BY DEF Calls
<1>2. HeldAfter(s, before) \subseteq AllKeys
  BY HeldType
<1>3. Means(HeldAfter(s, before))
  <2>1. SubSeq(s, 1, Len(s)) = s /\ Len(s) \in 0..Len(s)
    BY <1>1, SubSeqFull
  <2> QED
    BY <2>1 DEF AllCuts
<1>4. AllCuts(<<Flush>>, HeldAfter(s, before))
  <2>1. HeldAfter(<<Flush>>, HeldAfter(s, before)) = HeldAfter(s, before)
    BY <1>1, <1>2, HeldOther DEF Flush
  <2> QED
    BY <1>1, <1>2, <1>3, <2>1, CutsOne
<1>5. AllCuts(s \o <<Flush>>, before)
  BY <1>1, <1>4, CutsConcat
<1>6. Flushed(s) = s \/ Flushed(s) = s \o <<Flush>>
  BY <1>1, AppendIsConcat DEF Flushed
<1> QED
  BY <1>5, <1>6

-----------------------------------------------------------------------------
(* The front end's operations, as what they have the library called with     *)

(* All sets of keys are finite, and those the front end holds are of keys.    *)
LEMMA KeysFinite ==
  \A keys \in SUBSET AllKeys : IsFiniteSet(keys)
<1> DEFINE f == [c \in Controls |-> Bindings[c]]
<1>1. f \in Surjection(Controls, PadKeys)
  BY DEF Surjection, PadKeys
<1>2. IsFiniteSet(PadKeys)
  BY <1>1, FiniteAssumption, FS_Surjection
<1>3. IsFiniteSet(AllKeys)
  BY <1>2, FiniteAssumption, FS_Union DEF AllKeys
<1> QED
  BY <1>3, FS_Subset

(* A position of the pad presses keys of the pad.                             *)
LEMMA PressedIsPadKeys ==
  /\ \A p \in PadStates : Pressed(p) \subseteq PadKeys
  /\ \A p \in PadStates : {Bindings[c] : c \in p} = Pressed(p)
  /\ {} \in PadStates
  BY PadAssumption DEF Pressed, PadKeys

(* The keys of a set one way: a run, what it leaves, what it presses.         *)
LEMMA EachDoes ==
  ASSUME NEW keys \in SUBSET AllKeys, NEW down \in BOOLEAN
  PROVE  /\ Each(keys, down) \in Seq(Events) /\ Each(keys, down) \in Seq(Calls)
         /\ \A before \in SUBSET AllKeys :
              HeldAfter(Each(keys, down), before)
                = IF down THEN before \cup keys ELSE before \ keys
         /\ Presses(Each(keys, down)) \subseteq IF down THEN keys ELSE {}
<1>1. IsFiniteSet(keys)
  BY KeysFinite
<1>2. /\ Each(keys, down) \in Seq(Events)
      /\ \A i \in 1..Len(Each(keys, down)) : \E k \in keys : Each(keys, down)[i] = Key(k, down)
  BY <1>1, EachIs
<1>3. \A before \in SUBSET AllKeys :
        HeldAfter(Each(keys, down), before) = IF down THEN before \cup keys ELSE before \ keys
  BY <1>1, HeldEach
<1>4. Presses(Each(keys, down)) \subseteq IF down THEN keys ELSE {}
  <2> SUFFICES ASSUME NEW i \in 1..Len(Each(keys, down)), Each(keys, down)[i].down
               PROVE  Each(keys, down)[i].key \in (IF down THEN keys ELSE {})
    BY DEF Presses
  <2>1. PICK k \in keys : Each(keys, down)[i] = Key(k, down)
    BY <1>2
  <2> QED
    BY <2>1 DEF Key
<1>5. Each(keys, down) \in Seq(Calls)
  BY <1>2 DEF Calls
<1> QED
  BY <1>2, <1>3, <1>4, <1>5

(* One key.                                                                   *)
LEMMA KeyDoes ==
  ASSUME NEW k \in AllKeys, NEW down \in BOOLEAN
  PROVE  /\ Key(k, down) \in Events /\ Key(k, down) \in Calls
         /\ <<Key(k, down)>> \in Seq(Events) /\ <<Key(k, down)>> \in Seq(Calls)
         /\ \A before \in SUBSET AllKeys :
              HeldAfter(<<Key(k, down)>>, before)
                = IF down THEN before \cup {k} ELSE before \ {k}
         /\ Presses(<<Key(k, down)>>) \subseteq IF down THEN {k} ELSE {}
<1>1. Key(k, down) \in Events /\ Key(k, down) \in Calls
  BY DEF Events, Calls, AllKeys
<1>2. Key(k, down).kind = "key" /\ Key(k, down).key = k /\ Key(k, down).down = down
  BY DEF Key
<1>3. ASSUME NEW before \in SUBSET AllKeys
      PROVE  HeldAfter(<<Key(k, down)>>, before)
               = IF down THEN before \cup {k} ELSE before \ {k}
  <2> DEFINE s == <<Key(k, down)>>
  <2>1. s \in Seq(Calls) /\ Len(s) = 1 /\ s[1] = Key(k, down)
    BY <1>1
  <2>2. \A x : About(s, x) = IF x = k THEN {1} ELSE {}
    <3>1. DOMAIN s = {1}
      OBVIOUS
    <3> QED
      BY <1>2, <2>1, <3>1 DEF About
  <2> HIDE DEF s
  <2>3. \A x \in AllKeys : x # k => (x \in HeldAfter(s, before) <=> x \in before)
    BY <2>1, <2>2, HeldIs
  <2>4. k \in HeldAfter(s, before) <=> down
    <3>1. \A j \in About(s, k) : j <= 1
      BY <2>2
    <3> QED
      BY <1>2, <2>1, <2>2, <3>1, HeldIs
  <2>5. HeldAfter(s, before) \subseteq AllKeys
    BY HeldType
  <2>6. HeldAfter(s, before) = IF down THEN before \cup {k} ELSE before \ {k}
    BY <2>3, <2>4, <2>5
  <2> QED
    BY <2>6 DEF s
<1>4. Presses(<<Key(k, down)>>) \subseteq IF down THEN {k} ELSE {}
  BY <1>2, PressesOf
<1> QED
  BY <1>1, <1>3, <1>4

(* The pad's map holds what some position means.                              *)
HeldMeans == \E p \in PadStates : held \subseteq Pressed(p)

(* What each operation sends: calls that end with a flush, after which the    *)
(* guest holds no more than the front end knows of, and at no cut a           *)
(* combination no position means.                                             *)
KnowsOf(keys) == keys \subseteq AllKeys /\ keys \subseteq keys_down \cup held
Sends ==
  /\ todo = <<>> /\ UNCHANGED <<queueVars, guestVars>>
  /\ todo' \in Seq(Calls)
  /\ todo' # <<>> => todo'[Len(todo')] = Flush
  /\ keys_down' \subseteq Keys /\ held' \subseteq PadKeys /\ HeldMeans'
  /\ \A keys : KnowsOf(keys) => /\ HeldAfter(todo', keys) \subseteq keys_down' \cup held'
                                 /\ AllCuts(todo', keys)

(* What the guest may hold of the pad's own keys is within one position of    *)
(* the pad.                                                                   *)
LEMMA KnownMeans ==
  ASSUME TypeOK, HeldMeans, NEW keys, KnowsOf(keys)
  PROVE  \E p \in PadStates : keys \cap Pure \subseteq Pressed(p) /\ held \subseteq Pressed(p)
  BY DEF TypeOK, HeldMeans, KnowsOf, Pure

(* Most operations press none of the pad's own keys, so no cut matters.       *)
LEMMA CutsOfKeyboard ==
  ASSUME TypeOK, HeldMeans, NEW keys, KnowsOf(keys), NEW s \in Seq(Calls),
         Presses(s) \cap Pure = {}
  PROVE  AllCuts(s, keys)
<1>1. PICK p \in PadStates : keys \cap Pure \subseteq Pressed(p)
  BY KnownMeans
<1> QED
  BY <1>1, CutsWithin

(* A run of events with a flush behind it.                                    *)
LEMMA RunFlushed ==
  ASSUME NEW s \in Seq(Events), NEW keys, keys \subseteq AllKeys
  PROVE  /\ Flushed(s) \in Seq(Calls)
         /\ Flushed(s) # <<>> => Flushed(s)[Len(Flushed(s))] = Flush
         /\ HeldAfter(Flushed(s), keys) = HeldAfter(s, keys)
         /\ Presses(Flushed(s)) \subseteq Presses(s)
  BY FlushedIs, PressesOf

(* A key of the keyboard.                                                     *)
LEMMA KeyInputSends ==
  ASSUME TypeOK, HeldMeans, KeyInput
  PROVE  Sends
<1>1. PICK k \in Keys, down \in BOOLEAN :
        /\ todo' = Flushed(<<Key(k, down)>>)
        /\ keys_down' = IF down THEN keys_down \cup {k} ELSE keys_down \ {k}
  BY DEF KeyInput
<1>2. todo = <<>> /\ UNCHANGED <<queueVars, guestVars, held>>
  BY DEF KeyInput, Typing, Input, padVars
<1>3. k \in AllKeys /\ <<Key(k, down)>> \in Seq(Events) /\ Presses(<<Key(k, down)>>) \subseteq {k}
  <2>1. k \in AllKeys
    BY DEF AllKeys
  <2> QED
    BY <2>1, KeyDoes
<1>4. todo' \in Seq(Calls) /\ (todo' # <<>> => todo'[Len(todo')] = Flush)
  BY <1>1, <1>3, FlushedIs
<1>5. keys_down' \subseteq Keys /\ held' \subseteq PadKeys /\ HeldMeans'
  BY <1>1, <1>2 DEF TypeOK, HeldMeans
<1>6. ASSUME NEW keys, KnowsOf(keys)
      PROVE  HeldAfter(todo', keys) \subseteq keys_down' \cup held' /\ AllCuts(todo', keys)
  <2>1. keys \in SUBSET AllKeys
    BY <1>6 DEF KnowsOf
  <2>2. HeldAfter(todo', keys) = IF down THEN keys \cup {k} ELSE keys \ {k}
    <3>1. HeldAfter(<<Key(k, down)>>, keys) = IF down THEN keys \cup {k} ELSE keys \ {k}
      BY <1>3, <2>1, KeyDoes
    <3>2. HeldAfter(Flushed(<<Key(k, down)>>), keys) = HeldAfter(<<Key(k, down)>>, keys)
      BY <1>3, <2>1, RunFlushed
    <3> QED
      BY <1>1, <3>1, <3>2
  <2>3. Presses(todo') \cap Pure = {}
    BY <1>1, <1>3, <2>1, RunFlushed DEF Pure
  <2>4. AllCuts(todo', keys)
    BY <1>4, <1>6, <2>3, CutsOfKeyboard
  <2> QED
    BY <1>1, <1>2, <1>6, <2>2, <2>4 DEF KnowsOf
<1> QED
  BY <1>2, <1>4, <1>5, <1>6 DEF Sends

(* A pointer event, or the window's return.                                   *)
LEMMA PointerInputSends ==
  ASSUME TypeOK, HeldMeans, PointerInput \/ WindowBack
  PROVE  Sends
<1>1. todo' = <<>> \/ todo' = Flushed(<<Pointer>>)
  BY DEF PointerInput, WindowBack, Input, Flushed
<1>2. todo = <<>> /\ UNCHANGED <<queueVars, guestVars, held, keys_down>>
  BY DEF PointerInput, WindowBack, Typing, Input, padVars
<1>3. <<Pointer>> \in Seq(Events) /\ Presses(<<Pointer>>) = {}
      /\ \A keys : keys \subseteq AllKeys => HeldAfter(<<Pointer>>, keys) = keys
  <2>1. Pointer \in Events /\ Pointer \in Calls /\ Pointer.kind # "key"
    BY DEF Events, Calls, Pointer
  <2> QED
    BY <2>1, PressesOf, HeldOther
<1>4. todo' \in Seq(Calls) /\ (todo' # <<>> => todo'[Len(todo')] = Flush)
  <2>1. /\ Flushed(<<Pointer>>) \in Seq(Calls)
        /\ Flushed(<<Pointer>>) # <<>> => Flushed(<<Pointer>>)[Len(Flushed(<<Pointer>>))] = Flush
    BY <1>3, FlushedIs
  <2>2. CASE todo' = <<>>
    BY <2>2
  <2>3. CASE todo' = Flushed(<<Pointer>>)
    BY <2>1, <2>3
  <2> QED
    BY <1>1, <2>2, <2>3
<1>5. keys_down' \subseteq Keys /\ held' \subseteq PadKeys /\ HeldMeans'
  BY <1>2 DEF TypeOK, HeldMeans
<1>6. ASSUME NEW keys, KnowsOf(keys)
      PROVE  HeldAfter(todo', keys) \subseteq keys_down' \cup held' /\ AllCuts(todo', keys)
  <2>1. keys \subseteq AllKeys
    BY <1>6 DEF KnowsOf
  <2>2. HeldAfter(todo', keys) = keys
    <3>1. HeldAfter(Flushed(<<Pointer>>), keys) = HeldAfter(<<Pointer>>, keys)
      BY <1>3, <2>1, RunFlushed
    <3>2. HeldAfter(<<>>, keys) = keys /\ HeldAfter(<<Pointer>>, keys) = keys
      BY <1>3, <2>1, HeldNothing
    <3> QED
      BY <1>1, <3>1, <3>2
  <2>3. Presses(todo') = {}
    <3>1. Presses(<<>>) = {}
      BY DEF Presses
    <3> QED
      BY <1>1, <1>3, <2>1, <3>1, RunFlushed
  <2>4. AllCuts(todo', keys)
    BY <1>4, <1>6, <2>3, CutsOfKeyboard
  <2> QED
    BY <1>2, <1>6, <2>2, <2>4 DEF KnowsOf
<1> QED
  BY <1>2, <1>4, <1>5, <1>6 DEF Sends

(* Two runs, one after the other.                                             *)
LEMMA RunsDo ==
  ASSUME NEW s \in Seq(Events), NEW t \in Seq(Events), NEW keys
  PROVE  /\ s \o t \in Seq(Events) /\ s \in Seq(Calls) /\ t \in Seq(Calls)
         /\ HeldAfter(s \o t, keys) = HeldAfter(t, HeldAfter(s, keys))
         /\ Presses(s \o t) \subseteq Presses(s) \cup Presses(t)
<1>1. s \in Seq(Calls) /\ t \in Seq(Calls) /\ s \o t \in Seq(Events)
  BY DEF Calls
<1> QED
  BY <1>1, HeldConcat, PressesOf

(* The chord: what is in its way is lifted, what is missing pressed.          *)
LEMMA CtrlAltDelDownSends ==
  ASSUME TypeOK, HeldMeans, CtrlAltDelDown
  PROVE  Sends /\ cad_extra' \subseteq Keys
<1> DEFINE lifted == CadLifts \cap keys_down
           extra == {CadLeft[pair] : pair \in {q \in CadPairs : q \cap keys_down = {}}}
           a == Each(lifted, FALSE)
           b == Each(extra, TRUE)
           c == <<Key(Del, TRUE)>>
<1>1. /\ todo' = Flushed((a \o b) \o c)
      /\ keys_down' = (keys_down \ lifted) \cup extra \cup {Del}
      /\ cad_extra' = cad_extra \cup extra
  BY DEF CtrlAltDelDown, WithChord
<1>2. todo = <<>> /\ UNCHANGED <<queueVars, guestVars, held>>
  BY DEF CtrlAltDelDown, Typing, Input, padVars
<1>3. lifted \subseteq Keys /\ extra \subseteq Keys /\ Del \in Keys
  BY CadAssumption DEF TypeOK
<1>4. lifted \in SUBSET AllKeys /\ extra \in SUBSET AllKeys /\ Del \in AllKeys
  BY <1>3 DEF AllKeys
<1> HIDE DEF lifted, extra
<1>5. a \in Seq(Events) /\ b \in Seq(Events) /\ c \in Seq(Events)
      /\ Presses(a) \subseteq {} /\ Presses(b) \subseteq extra /\ Presses(c) \subseteq {Del}
  BY <1>4, EachDoes, KeyDoes
<1>6. ASSUME NEW keys, keys \subseteq AllKeys
      PROVE  HeldAfter((a \o b) \o c, keys) = ((keys \ lifted) \cup extra) \cup {Del}
  <2>1. HeldAfter(a, keys) = keys \ lifted
    BY <1>4, <1>6, EachDoes
  <2>2. HeldAfter(b, keys \ lifted) = (keys \ lifted) \cup extra
    BY <1>4, <1>6, EachDoes
  <2>3. HeldAfter(c, (keys \ lifted) \cup extra) = ((keys \ lifted) \cup extra) \cup {Del}
    <3>1. (keys \ lifted) \cup extra \in SUBSET AllKeys
      BY <1>4, <1>6
    <3> QED
      BY <1>4, <3>1, KeyDoes
  <2> HIDE DEF a, b, c
  <2>4. HeldAfter(a \o b, keys) = HeldAfter(b, HeldAfter(a, keys)) /\ a \o b \in Seq(Events)
    BY <1>5, RunsDo
  <2> DEFINE d == a \o b
  <2>5. d \in Seq(Events)
    BY <2>4
  <2> HIDE DEF d
  <2>6. HeldAfter(d \o c, keys) = HeldAfter(c, HeldAfter(d, keys))
    BY <1>5, <2>5, RunsDo
  <2>7. HeldAfter((a \o b) \o c, keys) = HeldAfter(c, HeldAfter(a \o b, keys))
    BY <2>6 DEF d
  <2> QED
    BY <2>1, <2>2, <2>3, <2>4, <2>7
<1>7. (a \o b) \o c \in Seq(Events) /\ Presses((a \o b) \o c) \cap Pure = {}
  <2> HIDE DEF a, b, c
  <2>1. a \o b \in Seq(Events) /\ Presses(a \o b) \subseteq Presses(a) \cup Presses(b)
    BY <1>5, RunsDo
  <2>2. (a \o b) \o c \in Seq(Events)
        /\ Presses((a \o b) \o c) \subseteq Presses(a \o b) \cup Presses(c)
    BY <1>5, <2>1, RunsDo
  <2> QED
    BY <1>3, <1>5, <2>1, <2>2 DEF Pure
<1> HIDE DEF a, b, c
<1>8. todo' \in Seq(Calls) /\ (todo' # <<>> => todo'[Len(todo')] = Flush)
  BY <1>1, <1>7, FlushedIs
<1>9. keys_down' \subseteq Keys /\ held' \subseteq PadKeys /\ HeldMeans' /\ cad_extra' \subseteq Keys
  BY <1>1, <1>2, <1>3 DEF TypeOK, HeldMeans
<1>10. ASSUME NEW keys, KnowsOf(keys)
       PROVE  HeldAfter(todo', keys) \subseteq keys_down' \cup held' /\ AllCuts(todo', keys)
  <2>1. keys \subseteq AllKeys
    BY <1>10 DEF KnowsOf
  <2>2. HeldAfter(todo', keys) = ((keys \ lifted) \cup extra) \cup {Del}
        /\ Presses(todo') \cap Pure = {}
    <3>1. HeldAfter((a \o b) \o c, keys) = ((keys \ lifted) \cup extra) \cup {Del}
      BY <1>6, <2>1
    <3>2. /\ HeldAfter(Flushed((a \o b) \o c), keys) = HeldAfter((a \o b) \o c, keys)
          /\ Presses(Flushed((a \o b) \o c)) \subseteq Presses((a \o b) \o c)
      BY <1>7, <2>1, RunFlushed
    <3> QED
      BY <1>1, <1>7, <3>1, <3>2
  <2>3. AllCuts(todo', keys)
    BY <1>8, <1>10, <2>2, CutsOfKeyboard
  <2> QED
    BY <1>1, <1>2, <1>10, <2>2, <2>3 DEF KnowsOf
<1> QED
  BY <1>2, <1>8, <1>9, <1>10 DEF Sends

(* Its end lifts what the chord pressed itself.                               *)
LEMMA CtrlAltDelUpSends ==
  ASSUME TypeOK, HeldMeans, CtrlAltDelUp
  PROVE  Sends
<1> DEFINE a == <<Key(Del, FALSE)>>
           b == Each(cad_extra, FALSE)
<1>1. todo' = Flushed(a \o b) /\ keys_down' = keys_down \ ({Del} \cup cad_extra)
  BY DEF CtrlAltDelUp
<1>2. todo = <<>> /\ UNCHANGED <<queueVars, guestVars, held>>
  BY DEF CtrlAltDelUp, Input, padVars
<1>3. cad_extra \in SUBSET AllKeys /\ Del \in AllKeys
  BY CadAssumption DEF TypeOK, AllKeys
<1>4. a \in Seq(Events) /\ b \in Seq(Events) /\ Presses(a) \subseteq {} /\ Presses(b) \subseteq {}
  BY <1>3, EachDoes, KeyDoes
<1>5. ASSUME NEW keys, keys \subseteq AllKeys
      PROVE  HeldAfter(a \o b, keys) = (keys \ {Del}) \ cad_extra
  <2>1. HeldAfter(a, keys) = keys \ {Del}
    BY <1>3, <1>5, KeyDoes
  <2>2. HeldAfter(b, keys \ {Del}) = (keys \ {Del}) \ cad_extra
    BY <1>3, <1>5, EachDoes
  <2> HIDE DEF a, b
  <2>3. HeldAfter(a \o b, keys) = HeldAfter(b, HeldAfter(a, keys))
    BY <1>4, RunsDo
  <2> QED
    BY <2>1, <2>2, <2>3
<1> HIDE DEF a, b
<1>6. a \o b \in Seq(Events) /\ Presses(a \o b) \cap Pure = {}
  BY <1>4, RunsDo
<1>7. todo' \in Seq(Calls) /\ (todo' # <<>> => todo'[Len(todo')] = Flush)
  BY <1>1, <1>6, FlushedIs
<1>8. keys_down' \subseteq Keys /\ held' \subseteq PadKeys /\ HeldMeans'
  BY <1>1, <1>2 DEF TypeOK, HeldMeans
<1>9. ASSUME NEW keys, KnowsOf(keys)
      PROVE  HeldAfter(todo', keys) \subseteq keys_down' \cup held' /\ AllCuts(todo', keys)
  <2>1. keys \subseteq AllKeys
    BY <1>9 DEF KnowsOf
  <2>2. HeldAfter(todo', keys) = (keys \ {Del}) \ cad_extra /\ Presses(todo') \cap Pure = {}
    <3>1. HeldAfter(a \o b, keys) = (keys \ {Del}) \ cad_extra
      BY <1>5, <2>1
    <3>2. /\ HeldAfter(Flushed(a \o b), keys) = HeldAfter(a \o b, keys)
          /\ Presses(Flushed(a \o b)) \subseteq Presses(a \o b)
      BY <1>6, <2>1, RunFlushed
    <3> QED
      BY <1>1, <1>6, <3>1, <3>2
  <2>3. AllCuts(todo', keys)
    BY <1>7, <1>9, <2>2, CutsOfKeyboard
  <2> QED
    BY <1>1, <1>2, <1>9, <2>2, <2>3 DEF KnowsOf
<1> QED
  BY <1>2, <1>7, <1>8, <1>9 DEF Sends

(* lift_all: the pad's keys and then the keyboard's, each run with its flush. *)
LEMMA LiftAllSends ==
  ASSUME TypeOK, HeldMeans, LiftAll
  PROVE  Sends
<1> DEFINE a == Each(held, FALSE)
           b == Each(keys_down, FALSE)
           x == Flushed(a)
           y == Flushed(b)
<1>1. todo' = x \o y /\ held' = {} /\ keys_down' = {}
  BY DEF LiftAll, Lifts
<1>2. todo = <<>> /\ UNCHANGED <<queueVars, guestVars>>
  BY DEF LiftAll, Input
<1>3. held \in SUBSET AllKeys /\ keys_down \in SUBSET AllKeys
  BY DEF TypeOK, AllKeys
<1>4. a \in Seq(Events) /\ b \in Seq(Events) /\ Presses(a) = {} /\ Presses(b) = {}
  BY <1>3, EachDoes
<1>5. /\ \A keys \in SUBSET AllKeys : HeldAfter(a, keys) = keys \ held
      /\ \A keys \in SUBSET AllKeys : HeldAfter(b, keys) = keys \ keys_down
  BY <1>3, EachDoes
<1> HIDE DEF a, b
<1>6. /\ x \in Seq(Calls) /\ y \in Seq(Calls) /\ Presses(x) = {} /\ Presses(y) = {}
      /\ \A keys \in SUBSET AllKeys : HeldAfter(x, keys) = keys \ held
      /\ \A keys \in SUBSET AllKeys : HeldAfter(y, keys) = keys \ keys_down
      /\ x # <<>> => x[Len(x)] = Flush
      /\ y # <<>> => y[Len(y)] = Flush
  <2>1. x \in Seq(Calls) /\ (x # <<>> => x[Len(x)] = Flush) /\ Presses(x) = {}
        /\ \A keys \in SUBSET AllKeys : HeldAfter(x, keys) = keys \ held
    BY <1>4, <1>5, FlushedIs, PressesOf
  <2>2. y \in Seq(Calls) /\ (y # <<>> => y[Len(y)] = Flush) /\ Presses(y) = {}
        /\ \A keys \in SUBSET AllKeys : HeldAfter(y, keys) = keys \ keys_down
    BY <1>4, <1>5, FlushedIs, PressesOf
  <2> QED
    BY <2>1, <2>2
<1> HIDE DEF x, y
<1>7. x \o y \in Seq(Calls) /\ Presses(x \o y) = {}
  BY <1>6, PressesOf
<1>8. x \o y # <<>> => (x \o y)[Len(x \o y)] = Flush
  <2>1. Len(x \o y) = Len(x) + Len(y)
        /\ \A i \in 1..(Len(x) + Len(y)) :
             (x \o y)[i] = IF i <= Len(x) THEN x[i] ELSE y[i - Len(x)]
    BY <1>6, ConcatProperties
  <2>2. CASE y = <<>>
    <3>1. x \o y = x
      BY <1>6, <2>2, ConcatEmptySeq
    <3> QED
      BY <1>6, <3>1
  <2>3. CASE y # <<>>
    <3>1. Len(y) \in Nat \ {0} /\ Len(x) \in Nat
      BY <1>6, <2>3, EmptySeq
    <3>2. (Len(x) + Len(y)) \in 1..(Len(x) + Len(y)) /\ ~(Len(x) + Len(y) <= Len(x))
          /\ (Len(x) + Len(y)) - Len(x) = Len(y)
      BY <3>1
    <3> QED
      BY <1>6, <2>1, <2>3, <3>2
  <2> QED
    BY <2>2, <2>3
<1>9. ASSUME NEW keys, KnowsOf(keys)
      PROVE  HeldAfter(todo', keys) \subseteq keys_down' \cup held' /\ AllCuts(todo', keys)
  <2>1. keys \in SUBSET AllKeys /\ keys \subseteq keys_down \cup held
    BY <1>9 DEF KnowsOf
  <2>2. HeldAfter(x \o y, keys) = {}
    <3>1. HeldAfter(x \o y, keys) = HeldAfter(y, HeldAfter(x, keys))
      BY <1>6, HeldConcat
    <3>2. HeldAfter(x, keys) = keys \ held /\ HeldAfter(y, keys \ held) = (keys \ held) \ keys_down
      BY <1>6, <2>1
    <3> QED
      BY <2>1, <3>1, <3>2
  <2>3. AllCuts(x \o y, keys)
    BY <1>7, <1>9, CutsOfKeyboard
  <2> QED
    BY <1>1, <2>2, <2>3
<1>10. HeldMeans'
  BY <1>1, PressedIsPadKeys DEF HeldMeans
<1> QED
  BY <1>1, <1>2, <1>7, <1>8, <1>9, <1>10 DEF Sends

(* KeyMap::apply: what one position held and the next does not is released    *)
(* first, so a cut shows a part of the one or of the other.                   *)
LEMMA KeyMapSends ==
  ASSUME TypeOK, HeldMeans, NEW q \in PadStates, NEW keys, KnowsOf(keys)
  PROVE  /\ KeyMapApply(held, Pressed(q)) \in Seq(Events)
         /\ HeldAfter(KeyMapApply(held, Pressed(q)), keys) \subseteq keys_down \cup Pressed(q)
         /\ AllCuts(KeyMapApply(held, Pressed(q)), keys)
<1> DEFINE a == Each(held \ Pressed(q), FALSE)
           b == Each(Pressed(q) \ held, TRUE)
<1>1. /\ keys \in SUBSET AllKeys /\ keys \subseteq keys_down \cup held
      /\ held \ Pressed(q) \in SUBSET AllKeys /\ Pressed(q) \ held \in SUBSET AllKeys
      /\ held \subseteq PadKeys /\ keys_down \subseteq Keys
  BY PressedIsPadKeys DEF TypeOK, AllKeys, KnowsOf
<1>2. /\ a \in Seq(Events) /\ a \in Seq(Calls) /\ Presses(a) = {}
      /\ b \in Seq(Events) /\ b \in Seq(Calls) /\ Presses(b) \subseteq Pressed(q) \ held
      /\ HeldAfter(a, keys) = keys \ (held \ Pressed(q))
      /\ \A more \in SUBSET AllKeys : HeldAfter(b, more) = more \cup (Pressed(q) \ held)
  BY <1>1, EachDoes
<1>3. KeyMapApply(held, Pressed(q)) = a \o b
  BY DEF KeyMapApply
<1> HIDE DEF a, b
<1>4. HeldAfter(a \o b, keys) = (keys \ (held \ Pressed(q))) \cup (Pressed(q) \ held)
  <2> a \in Seq(Calls) /\ b \in Seq(Calls)
    BY <1>2
  <2>1. HeldAfter(a \o b, keys) = HeldAfter(b, HeldAfter(a, keys))
    BY HeldConcat
  <2> QED
    BY <1>1, <1>2, <2>1
<1>5. AllCuts(a, keys)
  BY <1>2, CutsOfKeyboard
<1>6. AllCuts(b, HeldAfter(a, keys))
  <2>1. HeldAfter(a, keys) \cap Pure \subseteq Pressed(q)
    BY <1>1, <1>2 DEF Pure
  <2> QED
    BY <1>2, <2>1, CutsWithin
<1>7. AllCuts(a \o b, keys) /\ a \o b \in Seq(Events)
  <2> a \in Seq(Calls) /\ b \in Seq(Calls)
    BY <1>2
  <2>1. AllCuts(a \o b, keys)
    BY <1>5, <1>6, CutsConcat
  <2>2. a \o b \in Seq(Events)
    BY <1>2, RunsDo
  <2> QED
    BY <2>1, <2>2
<1> QED
  BY <1>1, <1>3, <1>4, <1>7

(* A poll of a pad that stands for keys lifts before it presses; of one that  *)
(* is a device it sends the whole pad, which moves no key.                    *)
LEMMA PollPadsSends ==
  ASSUME TypeOK, HeldMeans, PollPads
  PROVE  Sends
<1>1. /\ todo = <<>> /\ UNCHANGED <<queueVars, guestVars, keys_down>> /\ pad' \in PadStates
  BY DEF PollPads, TypeOK
<1>2. {Bindings[c] : c \in pad'} = Pressed(pad')
  BY <1>1, PressedIsPadKeys
<1>3. CASE pad_mode = "keys"
  <2> DEFINE s == KeyMapApply(held, Pressed(pad'))
  <2>1. todo' = Flushed(s) /\ held' = Pressed(pad')
    BY <1>2, <1>3 DEF PollPads
  <2>2. s \in Seq(Events)
    <3>1. KnowsOf({})
      BY DEF KnowsOf
    <3> QED
      BY <1>1, <3>1, KeyMapSends
  <2>3. ASSUME NEW keys, KnowsOf(keys)
        PROVE  HeldAfter(Flushed(s), keys) \subseteq keys_down \cup Pressed(pad')
               /\ AllCuts(Flushed(s), keys)
    <3>1. keys \subseteq AllKeys
      BY <2>3 DEF KnowsOf
    <3>2. HeldAfter(s, keys) \subseteq keys_down \cup Pressed(pad') /\ AllCuts(s, keys)
      BY <1>1, <2>3, KeyMapSends
    <3> HIDE DEF s
    <3> QED
      BY <2>2, <3>1, <3>2, RunFlushed, CutsFlushed
  <2> HIDE DEF s
  <2>4. Flushed(s) \in Seq(Calls) /\ (Flushed(s) # <<>> => Flushed(s)[Len(Flushed(s))] = Flush)
    BY <2>2, FlushedIs
  <2>5. keys_down' \subseteq Keys /\ held' \subseteq PadKeys /\ HeldMeans'
    BY <1>1, <2>1, PressedIsPadKeys DEF TypeOK, HeldMeans
  <2> QED
    BY <1>1, <2>1, <2>3, <2>4, <2>5 DEF Sends
<1>4. CASE pad_mode # "keys"
  <2> DEFINE e == Pad(pad')
             s == <<e>>
  <2>1. /\ todo' = Flushed(s) \/ todo' = <<>>
        /\ held' = held
    BY <1>1, <1>4 DEF PollPads, PadDevice
  <2>2. s \in Seq(Events) /\ Presses(s) = {}
        /\ \A keys : keys \subseteq AllKeys => HeldAfter(s, keys) = keys
    <3>1. e \in Events /\ e \in Calls /\ e.kind # "key"
      BY <1>1 DEF Events, Calls, Pad
    <3> HIDE DEF e
    <3> QED
      BY <3>1, PressesOf, HeldOther
  <2> HIDE DEF s
  <2>3. todo' \in Seq(Calls) /\ (todo' # <<>> => todo'[Len(todo')] = Flush)
    <3>1. Flushed(s) \in Seq(Calls) /\ (Flushed(s) # <<>> => Flushed(s)[Len(Flushed(s))] = Flush)
      BY <2>2, FlushedIs
    <3>2. CASE todo' = <<>>
      BY <3>2
    <3>3. CASE todo' = Flushed(s)
      BY <3>1, <3>3
    <3> QED
      BY <2>1, <3>2, <3>3
  <2>4. keys_down' \subseteq Keys /\ held' \subseteq PadKeys /\ HeldMeans'
    BY <1>1, <2>1 DEF TypeOK, HeldMeans
  <2>5. ASSUME NEW keys, KnowsOf(keys)
        PROVE  HeldAfter(todo', keys) \subseteq keys_down' \cup held' /\ AllCuts(todo', keys)
    <3>1. keys \subseteq AllKeys
      BY <2>5 DEF KnowsOf
    <3>2. HeldAfter(Flushed(s), keys) = keys /\ HeldAfter(<<>>, keys) = keys
      BY <2>2, <3>1, RunFlushed, HeldNothing
    <3>3. Presses(Flushed(s)) = {} /\ Presses(<<>>) = {}
      <4>1. Presses(<<>>) = {}
        BY DEF Presses
      <4> QED
        BY <2>2, <4>1, PressesOf
    <3>4. HeldAfter(todo', keys) = keys /\ Presses(todo') \cap Pure = {}
      BY <2>1, <3>2, <3>3
    <3>5. AllCuts(todo', keys)
      BY <2>3, <2>5, <3>4, CutsOfKeyboard
    <3> QED
      BY <1>1, <2>1, <2>5, <3>4, <3>5 DEF KnowsOf
  <2> QED
    BY <1>1, <2>1, <2>3, <2>4, <2>5 DEF Sends
<1> QED
  BY <1>3, <1>4

(* Every operation of the front end is one of these.                          *)
LEMMA FrontEndSends ==
  ASSUME TypeOK, HeldMeans, FrontEnd
  PROVE  Sends
<1>1. CASE LoseFocus \/ AskToClose
  BY <1>1, LiftAllSends DEF LoseFocus, AskToClose
<1>2. CASE CtrlAltDelDown
  BY <1>2, CtrlAltDelDownSends
<1> QED
  BY <1>1, <1>2, KeyInputSends, PointerInputSends, CtrlAltDelUpSends, PollPadsSends
     DEF FrontEnd

-----------------------------------------------------------------------------
(* The inductive invariant                                                   *)

(* Every operation's calls end with a flush.                                  *)
EndsFlushed == todo # <<>> => todo[Len(todo)] = Flush

(* Wherever what is queued and what is still to be called is cut.             *)
Delivered == HeldAfter(batch, guest_keys)
Queued == HeldAfter(in_q, Delivered)
CutsMean == ~dropped => AllCuts(in_q, Delivered) /\ AllCuts(todo, Queued)

IInv ==
  /\ TypeOK
  /\ QueuedIsDrained
  /\ EndsFlushed
  /\ HeldMeans
  /\ NoKeySticks
  /\ NeverBothWays
  /\ CutsMean

(* One run after another after another.                                       *)
LEMMA HeldOfThree ==
  ASSUME NEW s \in Seq(Events), NEW t \in Seq(Events), NEW u \in Seq(Calls), NEW before
  PROVE  HeldAfter(s \o t \o u, before) = HeldAfter(u, HeldAfter(t, HeldAfter(s, before)))
<1> DEFINE b == s \o t
<1>1. b \in Seq(Calls) /\ HeldAfter(b, before) = HeldAfter(t, HeldAfter(s, before))
  BY RunsDo DEF Calls
<1> HIDE DEF b
<1>2. HeldAfter(b \o u, before) = HeldAfter(u, HeldAfter(b, before))
  BY <1>1, HeldConcat
<1> QED
  BY <1>1, <1>2 DEF b

(* What the guest will hold, in steps: the batch, then the queue, then the    *)
(* calls yet to be made.                                                      *)
LEMMA OnTheWayIs ==
  ASSUME TypeOK
  PROVE  /\ OnTheWay = HeldAfter(todo, Queued)
         /\ Queued \subseteq AllKeys /\ Delivered \subseteq AllKeys /\ guest_keys \subseteq AllKeys
         /\ todo \in Seq(Calls) /\ in_q \in Seq(Calls) /\ batch \in Seq(Calls)
<1>1. todo \in Seq(Calls) /\ in_q \in Seq(Calls) /\ batch \in Seq(Calls)
  BY DEF TypeOK, Calls
<1>2. OnTheWay = HeldAfter(todo, Queued)
  BY HeldOfThree DEF TypeOK, Calls, OnTheWay, Queued, Delivered
<1>5. Queued \subseteq AllKeys /\ Delivered \subseteq AllKeys
  BY HeldType DEF Queued, Delivered
<1> QED
  BY <1>1, <1>2, <1>5 DEF TypeOK, AllKeys

(* The first cut is before the run, the last behind it.                       *)
LEMMA CutsEnd ==
  ASSUME NEW s \in Seq(Calls), NEW before, before \subseteq AllKeys, AllCuts(s, before)
  PROVE  Means(before) /\ Means(HeldAfter(s, before))
<1>1. SubSeq(s, 1, 0) = <<>> /\ SubSeq(s, 1, Len(s)) = s
      /\ 0 \in 0..Len(s) /\ Len(s) \in 0..Len(s)
  BY SubSeqFull, SubSeqEmpty
<1>2. HeldAfter(<<>>, before) = before
  BY HeldNothing
<1> QED
  BY <1>1, <1>2 DEF AllCuts

(* What the guest is told of the pad is a position.                           *)
LEMMA PadAfterIs ==
  ASSUME NEW s \in Seq(Events), NEW before \in PadStates
  PROVE  PadAfter(s, before) \in PadStates
<1> DEFINE said == {i \in DOMAIN s : s[i].kind = "pad"}
<1>1. said \subseteq 1..Len(s) /\ 1 \in Int /\ Len(s) \in Int
  OBVIOUS
<1>2. PadAfter(s, before) = IF said = {} THEN before ELSE s[Max(said)].pad
  BY DEF PadAfter
<1>3. ASSUME said # {} PROVE s[Max(said)].pad \in PadStates
  <2>1. Max(said) \in said
    <3> HIDE DEF said
    <3> QED
      BY <1>1, <1>3, MaxIsGreatest
  <2>2. s[Max(said)] \in Events /\ s[Max(said)].kind = "pad"
    BY <2>1
  <2> QED
    BY <2>2, EventKinds DEF Calls
<1> QED
  BY <1>2, <1>3

(* The next call, and those behind it.                                        *)
LEMMA NextCall ==
  ASSUME todo \in Seq(Calls), todo # <<>>, EndsFlushed
  PROVE  /\ Head(todo) \in Calls /\ Tail(todo) \in Seq(Calls)
         /\ todo = <<Head(todo)>> \o Tail(todo)
         /\ Tail(todo) = <<>> => Head(todo) = Flush
         /\ Tail(todo) # <<>> => Tail(todo)[Len(Tail(todo))] = Flush
<1>1. Head(todo) \in Calls /\ Tail(todo) \in Seq(Calls)
      /\ Len(todo) \in Nat \ {0} /\ Len(Tail(todo)) = Len(todo) - 1
      /\ \A i \in 1..Len(Tail(todo)) : Tail(todo)[i] = todo[i + 1]
      /\ Head(todo) = todo[1]
  BY HeadTailProperties, EmptySeq
<1>2. todo = <<Head(todo)>> \o Tail(todo)
  <2> DEFINE h == <<Head(todo)>>
             r == Tail(todo)
  <2>1. h \in Seq(Calls) /\ r \in Seq(Calls) /\ Len(h) = 1 /\ h[1] = todo[1]
    BY <1>1
  <2>2. Len(r) = Len(todo) - 1 /\ \A i \in 1..Len(r) : r[i] = todo[i + 1]
    BY <1>1
  <2> HIDE DEF h, r
  <2>3. h \o r \in Seq(Calls) /\ Len(h \o r) = Len(h) + Len(r)
        /\ \A i \in 1..(Len(h) + Len(r)) :
             (h \o r)[i] = IF i <= Len(h) THEN h[i] ELSE r[i - Len(h)]
    BY <2>1, ConcatProperties
  <2>4. \A i \in 1..Len(todo) : (h \o r)[i] = todo[i]
    <3> SUFFICES ASSUME NEW i \in 1..Len(todo) PROVE (h \o r)[i] = todo[i]
      OBVIOUS
    <3>1. CASE i = 1
      BY <1>1, <2>1, <2>2, <2>3, <3>1
    <3>2. CASE i # 1
      <4>1. i - 1 \in 1..Len(r) /\ (i - 1) + 1 = i /\ ~(i <= 1)
            /\ i \in 1..(Len(h) + Len(r))
        BY <1>1, <2>1, <2>2, <3>2
      <4> QED
        BY <2>1, <2>2, <2>3, <4>1
    <3> QED
      BY <3>1, <3>2
  <2>5. Len(h \o r) = Len(todo)
    BY <1>1, <2>1, <2>2, <2>3
  <2> DEFINE u == h \o r
  <2>6. u \in Seq(Calls) /\ Len(u) = Len(todo) /\ \A i \in 1..Len(u) : u[i] = todo[i]
    BY <2>3, <2>4, <2>5
  <2> HIDE DEF u
  <2>7. u = todo
    BY <2>6, SeqEqual
  <2> QED
    BY <2>7 DEF h, r, u
<1>3. ASSUME Tail(todo) = <<>> PROVE Head(todo) = Flush
  <2>1. Len(Tail(todo)) = 0
    BY <1>3, EmptySeq
  <2>2. Len(todo) = 1
    <3> DEFINE n == Len(todo)
    <3>1. n \in Int /\ n - 1 = 0
      BY <2>1, HeadTailProperties
    <3> HIDE DEF n
    <3>2. n = 1
      BY <3>1
    <3> QED
      BY <3>2 DEF n
  <2> QED
    BY <1>1, <2>2 DEF EndsFlushed
<1>4. ASSUME Tail(todo) # <<>> PROVE Tail(todo)[Len(Tail(todo))] = Flush
  <2>1. Len(Tail(todo)) # 0 /\ Len(Tail(todo)) \in Nat
    BY <1>1, <1>4, EmptySeq
  <2> QED
    BY <1>1, <2>1 DEF EndsFlushed
<1> QED
  BY <1>1, <1>2, <1>3, <1>4

(* At the start nobody holds anything.                                        *)
LEMMA InitInv == Init => IInv
<1> SUFFICES ASSUME Init PROVE IInv
  OBVIOUS
<1>1. TypeOK
  <2>1. MaxInputs[pad_mode] \in Nat /\ 0 \in 0..MaxInputs[pad_mode]
    BY QueueAssumption DEF Init
  <2>2. <<>> \in Seq(Events) /\ <<>> \in Seq(Events \cup {Flush}) /\ Len(<<>>) <= QueueLen
    BY QueueAssumption, EmptySeq
  <2> QED
    BY <2>1, <2>2, PadAssumption DEF Init, TypeOK
<1>2. /\ guest_keys = {} /\ todo = <<>> /\ in_q = <<>> /\ batch = <<>> /\ held = {}
      /\ keys_down = {}
  BY DEF Init
<1>3. Delivered = {} /\ Queued = {} /\ OnTheWay = {}
  <2>1. HeldAfter(<<>>, {}) = {}
    BY HeldNothing
  <2> QED
    BY <1>1, <1>2, <2>1, OnTheWayIs DEF Delivered, Queued
<1>4. AllCuts(<<>>, {})
  <2>1. Means({})
    BY PressedIsPadKeys DEF Means
  <2>2. Flush \in Calls
    BY DEF Calls
  <2> QED
    BY <2>1, <2>2, CutsOne
<1>5. CutsMean
  BY <1>2, <1>3, <1>4 DEF CutsMean
<1>6. HeldMeans /\ NeverBothWays
  BY <1>2, PressedIsPadKeys DEF HeldMeans, NeverBothWays
<1> QED
  BY <1>1, <1>2, <1>3, <1>5, <1>6 DEF IInv, QueuedIsDrained, EndsFlushed, NoKeySticks

(* An operation of the front end: it has nothing left to call before, and     *)
(* what it calls is for what will be held once the queue is delivered.        *)
LEMMA FrontEndInv ==
  ASSUME IInv, FrontEnd
  PROVE  IInv'
<1>1. Sends
  BY FrontEndSends DEF IInv
<1>2. TypeOK'
  <2>1. todo' \in Seq(Events \cup {Flush}) /\ keys_down' \subseteq Keys /\ held' \subseteq PadKeys
    BY <1>1 DEF Sends, Calls
  <2>2. in_q' = in_q /\ in_bh_pending' = in_bh_pending /\ dropped' = dropped
        /\ batch' = batch /\ guest_keys' = guest_keys /\ guest_pad' = guest_pad
    BY <1>1 DEF Sends, queueVars, guestVars
  <2>3. pad_mode' = pad_mode /\ inputs' \in 0..MaxInputs[pad_mode] /\ pad' \in PadStates
    <3>1. MaxInputs[pad_mode] \in Nat /\ inputs \in 0..MaxInputs[pad_mode] /\ pad \in PadStates
      BY QueueAssumption DEF IInv, TypeOK
    <3>2. CASE Input /\ UNCHANGED <<pad_mode, pad>>
      BY <3>1, <3>2 DEF Input
    <3>3. CASE PollPads
      BY <3>1, <3>3 DEF PollPads, still
    <3>4. FrontEnd => PollPads \/ (Input /\ UNCHANGED <<pad_mode, pad>>)
      BY DEF FrontEnd, KeyInput, PointerInput, CtrlAltDelDown, CtrlAltDelUp, LoseFocus,
             AskToClose, LiftAll, WindowBack, Typing, padVars
    <3> QED
      BY <3>2, <3>3, <3>4
  <2>4. focused' \in BOOLEAN /\ asking' \in BOOLEAN /\ cad_held' \in BOOLEAN
    BY DEF IInv, TypeOK, FrontEnd, KeyInput, PointerInput, CtrlAltDelDown, CtrlAltDelUp,
           LoseFocus, AskToClose, LiftAll, WindowBack, PollPads, windowVars, chordVars
  <2>5. cad_extra' \subseteq Keys
    <3>1. CASE CtrlAltDelDown
      BY <3>1, CtrlAltDelDownSends DEF IInv
    <3>2. CASE ~CtrlAltDelDown
      BY <3>2 DEF IInv, TypeOK, FrontEnd, KeyInput, PointerInput, CtrlAltDelUp,
                  LoseFocus, AskToClose, LiftAll, WindowBack, PollPads, chordVars
    <3> QED
      BY <3>1, <3>2
  <2> QED
    BY <2>1, <2>2, <2>3, <2>4, <2>5 DEF IInv, TypeOK
<1>3. UNCHANGED <<in_q, in_bh_pending, dropped, batch, guest_keys>> /\ todo = <<>>
  BY <1>1 DEF Sends, queueVars, guestVars
<1>4. Queued' = Queued /\ Delivered' = Delivered
  BY <1>3 DEF Queued, Delivered
<1>5. ~dropped => KnowsOf(Queued)
  <2>1. OnTheWay = HeldAfter(<<>>, Queued) /\ Queued \subseteq AllKeys
    BY <1>3, OnTheWayIs DEF IInv
  <2>2. OnTheWay = Queued
    BY <2>1, HeldNothing
  <2> QED
    BY <2>1, <2>2 DEF IInv, NoKeySticks, KnowsOf
<1>6. NoKeySticks'
  <2>1. OnTheWay' = HeldAfter(todo', Queued')
    BY <1>2, HeldOfThree DEF TypeOK, Calls, OnTheWay, Queued, Delivered
  <2> QED
    BY <1>1, <1>3, <1>4, <1>5, <2>1 DEF Sends, NoKeySticks
<1>7. CutsMean'
  BY <1>1, <1>3, <1>4, <1>5 DEF Sends, CutsMean, IInv
<1>8. NeverBothWays' /\ QueuedIsDrained'
  BY <1>3 DEF IInv, NeverBothWays, QueuedIsDrained
<1>9. EndsFlushed' /\ HeldMeans'
  BY <1>1 DEF Sends, EndsFlushed
<1> QED
  BY <1>2, <1>6, <1>7, <1>8, <1>9 DEF IInv

(* A call of the library takes the next word of the operation to the queue,   *)
(* or drops it; a flush has a drain come for what is queued.                  *)
LEMMA EnqueueInv ==
  ASSUME IInv, Enqueue
  PROVE  IInv'
<1> DEFINE h == Head(todo)
           r == Tail(todo)
<1>1. /\ todo # <<>> /\ h # Flush /\ todo' = r
      /\ UNCHANGED <<inputs, windowVars, keys_down, chordVars, padVars, in_bh_pending,
                     guestVars>>
      /\ \/ Room /\ in_q' = Append(in_q, h) /\ dropped' = dropped
         \/ dropped' = TRUE /\ in_q' = in_q
  BY DEF Enqueue
<1>2. /\ h \in Calls /\ r \in Seq(Calls) /\ todo = <<h>> \o r
      /\ r # <<>> /\ r[Len(r)] = Flush
  BY <1>1, NextCall, OnTheWayIs DEF IInv
<1>3. h \in Events /\ <<h>> \in Seq(Calls)
  BY <1>1, <1>2, EventKinds
<1> HIDE DEF h, r
<1>4. /\ Queued \subseteq AllKeys /\ Delivered \subseteq AllKeys
      /\ todo \in Seq(Calls) /\ in_q \in Seq(Calls)
      /\ OnTheWay = HeldAfter(todo, Queued)
  BY OnTheWayIs DEF IInv
<1>5. TypeOK'
  <2>1. in_q' \in Seq(Events) /\ Len(in_q') <= QueueLen /\ dropped' \in BOOLEAN
    <3>1. in_q \in Seq(Events) /\ Len(in_q) <= QueueLen /\ dropped \in BOOLEAN
      BY DEF IInv, TypeOK
    <3>2. CASE Room /\ in_q' = Append(in_q, h) /\ dropped' = dropped
      <4>1. in_q' \in Seq(Events) /\ Len(in_q') = Len(in_q) + 1
        BY <1>3, <3>1, <3>2, AppendProperties
      <4> QED
        BY <3>1, <3>2, <4>1, QueueAssumption DEF Room
    <3> QED
      BY <1>1, <3>1, <3>2
  <2> QED
    BY <1>1, <1>2, <2>1 DEF IInv, TypeOK, Calls, windowVars, chordVars, padVars, guestVars
<1>6. QueuedIsDrained' /\ EndsFlushed' /\ HeldMeans' /\ Delivered' = Delivered
  BY <1>1, <1>2 DEF QueuedIsDrained, EndsFlushed, HeldMeans, IInv, padVars, guestVars, Delivered
<1>7. CASE dropped'
  <2>1. NeverBothWays' /\ NoKeySticks' /\ CutsMean'
    BY <1>7 DEF NeverBothWays, NoKeySticks, CutsMean
  <2> QED
    BY <1>5, <1>6, <2>1 DEF IInv
<1>8. CASE ~dropped'
  <2>1. in_q' = Append(in_q, h) /\ in_q' = in_q \o <<h>> /\ ~dropped
    <3>1. in_q' = Append(in_q, h) /\ ~dropped
      BY <1>1, <1>8
    <3>2. Append(in_q, h) = in_q \o <<h>>
      BY <1>2, <1>4, AppendIsConcat
    <3> QED
      BY <3>1, <3>2
  <2>2. Queued' = HeldAfter(<<h>>, Queued)
    <3>1. HeldAfter(in_q \o <<h>>, Delivered) = HeldAfter(<<h>>, HeldAfter(in_q, Delivered))
      BY <1>3, <1>4, HeldConcat
    <3> QED
      BY <1>6, <2>1, <3>1 DEF Queued
  <2>3. HeldAfter(todo, Queued) = HeldAfter(r, Queued')
    <3>1. HeldAfter(<<h>> \o r, Queued) = HeldAfter(r, HeldAfter(<<h>>, Queued))
      BY <1>2, <1>3, HeldConcat
    <3> QED
      BY <1>2, <2>2, <3>1
  <2>4. OnTheWay' = OnTheWay
    <3>1. OnTheWay' = HeldAfter(todo', Queued')
      BY <1>5, HeldOfThree DEF TypeOK, Calls, OnTheWay, Queued, Delivered
    <3> QED
      BY <1>1, <1>4, <2>3, <3>1
  <2>5. NoKeySticks' /\ NeverBothWays'
    BY <1>1, <2>1, <2>4 DEF IInv, NoKeySticks, NeverBothWays, padVars, guestVars
  <2>6. AllCuts(in_q, Delivered) /\ AllCuts(<<h>> \o r, Queued)
    BY <1>2, <2>1 DEF IInv, CutsMean
  <2>7. AllCuts(<<h>>, Queued) /\ AllCuts(r, HeldAfter(<<h>>, Queued))
    BY <1>2, <1>3, <2>6, CutsConcat
  <2>8. AllCuts(in_q \o <<h>>, Delivered)
    BY <1>3, <1>4, <2>6, <2>7, CutsConcat DEF Queued
  <2>9. CutsMean'
    BY <1>1, <1>6, <2>1, <2>2, <2>7, <2>8 DEF CutsMean
  <2> QED
    BY <1>5, <1>6, <2>5, <2>9 DEF IInv
<1> QED
  BY <1>7, <1>8

(* The flush schedules the bottom half whenever something is queued.          *)
LEMMA InputFlushInv ==
  ASSUME IInv, InputFlush
  PROVE  IInv'
<1> DEFINE r == Tail(todo)
<1>1. /\ todo # <<>> /\ Head(todo) = Flush /\ todo' = r
      /\ in_bh_pending' = (in_bh_pending \/ in_q # <<>>)
      /\ UNCHANGED <<inputs, windowVars, keys_down, chordVars, padVars, in_q, dropped,
                     guestVars>>
  BY DEF InputFlush
<1>2. /\ r \in Seq(Calls) /\ todo = <<Flush>> \o r /\ (r # <<>> => r[Len(r)] = Flush)
      /\ <<Flush>> \in Seq(Calls) /\ Flush \in Calls
  <2>1. todo \in Seq(Calls)
    BY OnTheWayIs DEF IInv
  <2>2. r \in Seq(Calls) /\ todo = <<Head(todo)>> \o r /\ (r # <<>> => r[Len(r)] = Flush)
    BY <1>1, <2>1, NextCall DEF IInv
  <2>3. Flush \in Calls
    BY DEF Calls
  <2> QED
    BY <1>1, <2>2, <2>3
<1> HIDE DEF r
<1>3. TypeOK'
  <2>1. in_bh_pending' \in BOOLEAN
    BY <1>1 DEF IInv, TypeOK
  <2> QED
    BY <1>1, <1>2, <2>1 DEF IInv, TypeOK, Calls, windowVars, chordVars, padVars, guestVars
<1>4. Queued' = Queued /\ Delivered' = Delivered /\ Queued \subseteq AllKeys
  BY <1>1, OnTheWayIs DEF Queued, Delivered, guestVars, IInv
<1>5. HeldAfter(<<Flush>>, Queued) = Queued
  BY <1>2, <1>4, HeldOther DEF Flush
<1>6. OnTheWay' = OnTheWay
  <2>1. OnTheWay' = HeldAfter(todo', Queued')
    BY <1>3, HeldOfThree DEF TypeOK, Calls, OnTheWay, Queued, Delivered
  <2>2. HeldAfter(<<Flush>> \o r, Queued) = HeldAfter(r, HeldAfter(<<Flush>>, Queued))
    BY <1>2, HeldConcat
  <2>3. OnTheWay = HeldAfter(todo, Queued)
    BY OnTheWayIs DEF IInv
  <2> QED
    BY <1>1, <1>2, <1>4, <1>5, <2>1, <2>2, <2>3
<1>7. CutsMean'
  <2> SUFFICES ASSUME ~dropped PROVE AllCuts(in_q, Delivered) /\ AllCuts(r, Queued)
    BY <1>1, <1>4 DEF CutsMean
  <2>1. AllCuts(in_q, Delivered) /\ AllCuts(<<Flush>> \o r, Queued)
    BY <1>2 DEF IInv, CutsMean
  <2>2. AllCuts(r, HeldAfter(<<Flush>>, Queued))
    BY <1>2, <2>1, CutsConcat
  <2> QED
    BY <1>5, <2>1, <2>2
<1>8. QueuedIsDrained' /\ EndsFlushed' /\ HeldMeans' /\ NoKeySticks' /\ NeverBothWays'
  BY <1>1, <1>2, <1>6 DEF IInv, QueuedIsDrained, EndsFlushed, HeldMeans, NoKeySticks,
     NeverBothWays, padVars, guestVars
<1> QED
  BY <1>3, <1>7, <1>8 DEF IInv

(* The drain takes the queue and clears the flag at once, and delivers later. *)
LEMMA DrainTakeInv ==
  ASSUME IInv, DrainTake
  PROVE  IInv'
<1>1. /\ batch = <<>> /\ batch' = in_q /\ in_q' = <<>> /\ in_bh_pending' = FALSE
      /\ UNCHANGED <<inputs, windowVars, keys_down, chordVars, padVars, todo, dropped,
                     guest_keys, guest_pad>>
  BY DEF DrainTake
<1>2. TypeOK'
  <2>1. in_q' \in Seq(Events) /\ Len(in_q') <= QueueLen
    BY <1>1, QueueAssumption, EmptySeq
  <2> QED
    BY <1>1, <2>1 DEF IInv, TypeOK, windowVars, chordVars, padVars
<1>3. Delivered = guest_keys /\ Delivered' = Queued /\ Queued' = Queued
      /\ Queued \subseteq AllKeys
  <2>1. guest_keys \subseteq AllKeys /\ Queued \subseteq AllKeys
    BY OnTheWayIs DEF IInv
  <2>2. HeldAfter(<<>>, guest_keys) = guest_keys /\ HeldAfter(<<>>, Queued) = Queued
    BY <2>1, HeldNothing
  <2>3. Delivered = guest_keys
    BY <1>1, <2>2 DEF Delivered
  <2>4. Delivered' = HeldAfter(in_q, guest_keys)
    BY <1>1 DEF Delivered
  <2>5. Queued = HeldAfter(in_q, guest_keys)
    BY <2>3 DEF Queued
  <2>6. Queued' = HeldAfter(<<>>, Delivered')
    BY <1>1 DEF Queued
  <2> QED
    BY <2>1, <2>2, <2>3, <2>4, <2>5, <2>6
<1>4. OnTheWay' = OnTheWay
  <2>1. OnTheWay' = HeldAfter(todo', Queued')
    BY <1>2, HeldOfThree DEF TypeOK, Calls, OnTheWay, Queued, Delivered
  <2>2. OnTheWay = HeldAfter(todo, Queued)
    BY OnTheWayIs DEF IInv
  <2> QED
    BY <1>1, <1>3, <2>1, <2>2
<1>5. CutsMean'
  <2> SUFFICES ASSUME ~dropped PROVE AllCuts(<<>>, Queued) /\ AllCuts(todo, Queued)
    BY <1>1, <1>3 DEF CutsMean
  <2>1. AllCuts(in_q, Delivered) /\ AllCuts(todo, Queued)
    BY DEF IInv, CutsMean
  <2>2. Means(Queued)
    <3>1. in_q \in Seq(Calls) /\ Delivered \subseteq AllKeys
      BY OnTheWayIs DEF IInv
    <3> QED
      BY <2>1, <3>1, CutsEnd DEF Queued
  <2>3. Flush \in Calls
    BY DEF Calls
  <2> QED
    BY <1>3, <2>1, <2>2, <2>3, CutsOne
<1>6. QueuedIsDrained' /\ EndsFlushed' /\ HeldMeans' /\ NoKeySticks' /\ NeverBothWays'
  BY <1>1, <1>4 DEF IInv, QueuedIsDrained, EndsFlushed, HeldMeans, NoKeySticks,
     NeverBothWays, padVars
<1> QED
  BY <1>2, <1>5, <1>6 DEF IInv

(* The batch delivered: the guest now holds what it was bound to hold.        *)
LEMMA DrainDeliverInv ==
  ASSUME IInv, DrainDeliver
  PROVE  IInv'
<1>1. /\ guest_keys' = Delivered /\ guest_pad' = PadAfter(batch, guest_pad) /\ batch' = <<>>
      /\ UNCHANGED <<inputs, windowVars, keys_down, chordVars, padVars, todo, queueVars>>
  BY DEF DrainDeliver, Delivered
<1>2. /\ Queued \subseteq AllKeys /\ Delivered \subseteq AllKeys
      /\ in_q \in Seq(Calls) /\ OnTheWay = HeldAfter(todo, Queued)
  BY OnTheWayIs DEF IInv
<1>3. TypeOK'
  <2>1. guest_pad' \in PadStates
    BY <1>1, PadAfterIs DEF IInv, TypeOK
  <2>2. batch' \in Seq(Events)
    BY <1>1, EmptySeq
  <2> QED
    BY <1>1, <1>2, <2>1, <2>2
       DEF IInv, TypeOK, AllKeys, windowVars, chordVars, padVars, queueVars
<1>4. Delivered' = Delivered /\ Queued' = Queued
  <2>1. HeldAfter(<<>>, Delivered) = Delivered
    BY <1>2, HeldNothing
  <2>2. Delivered' = HeldAfter(batch', guest_keys')
    BY DEF Delivered
  <2>3. Delivered' = Delivered
    BY <1>1, <2>1, <2>2
  <2> QED
    BY <1>1, <2>3 DEF Queued, queueVars
<1>5. OnTheWay' = OnTheWay
  <2>1. OnTheWay' = HeldAfter(todo', Queued')
    BY <1>3, HeldOfThree DEF TypeOK, Calls, OnTheWay, Queued, Delivered
  <2> QED
    BY <1>1, <1>2, <1>4, <2>1
<1>6. NeverBothWays'
  <2> SUFFICES ASSUME ~dropped PROVE Means(Delivered)
    BY <1>1, PressedIsPadKeys DEF NeverBothWays, queueVars, Means, Pure, Pressed
  <2>1. AllCuts(in_q, Delivered)
    BY DEF IInv, CutsMean
  <2> QED
    BY <1>2, <2>1, CutsEnd
<1>7. CutsMean' /\ NoKeySticks'
  BY <1>1, <1>4, <1>5 DEF IInv, CutsMean, NoKeySticks, queueVars, padVars
<1>8. QueuedIsDrained' /\ EndsFlushed' /\ HeldMeans'
  BY <1>1 DEF IInv, QueuedIsDrained, EndsFlushed, HeldMeans, queueVars, padVars
<1> QED
  BY <1>3, <1>6, <1>7, <1>8 DEF IInv

(* Every step keeps the invariant.                                            *)
LEMMA NextInv == IInv /\ [Next]_vars => IInv'
<1> SUFFICES ASSUME IInv, [Next]_vars PROVE IInv'
  OBVIOUS
<1>1. CASE FrontEnd
  BY <1>1, FrontEndInv
<1>2. CASE Library
  BY <1>2, EnqueueInv, InputFlushInv DEF Library
<1>3. CASE MainLoop
  BY <1>3, DrainTakeInv, DrainDeliverInv DEF MainLoop
<1>4. CASE UNCHANGED vars
  <2>1. UNCHANGED <<inputs, focused, asking, keys_down, cad_held, cad_extra, pad_mode, pad,
                    held, todo, in_q, in_bh_pending, dropped, batch, guest_keys, guest_pad>>
    BY <1>4 DEF vars, windowVars, chordVars, padVars, queueVars, guestVars
  <2>2. Delivered' = Delivered /\ Queued' = Queued /\ OnTheWay' = OnTheWay
    BY <2>1 DEF Delivered, Queued, OnTheWay
  <2> QED
    BY <2>1, <2>2 DEF IInv, TypeOK, QueuedIsDrained, EndsFlushed, HeldMeans, NoKeySticks,
       NeverBothWays, CutsMean
<1> QED
  BY <1>1, <1>2, <1>3, <1>4 DEF Next

(* It holds of every behaviour.                                               *)
LEMMA Invariant == Spec => []IInv
  BY InitInv, NextInv, PTL DEF Spec

-----------------------------------------------------------------------------
(* What it means for the program                                             *)

(* Every variable of the path has its type, the queue its length.             *)
THEOREM TypeCorrect == Spec => []TypeOK
<1>1. IInv => TypeOK
  BY DEF IInv
<1> QED
  BY <1>1, Invariant, PTL

(* No event is left in the queue without a drain coming for it, whatever the  *)
(* UI thread queues between the drain's clearing of the flag and its delivery. *)
THEOREM NoWakeupLost == Spec => []QueuedIsDrained
<1>1. IInv => QueuedIsDrained
  BY DEF IInv
<1> QED
  BY <1>1, Invariant, PTL

(* The guest never ends up holding a key the front end does not know of, as   *)
(* long as the queue takes what it is given: not through the chord, focus     *)
(* loss, the close question or keys that the pad and the keyboard share.      *)
THEOREM KeysAreKnown == Spec => []NoKeySticks
<1>1. IInv => NoKeySticks
  BY DEF IInv
<1> QED
  BY <1>1, Invariant, PTL

(* However the drain cuts the queue, the guest never holds a combination of   *)
(* the pad's keys that no position of the pad means.                          *)
THEOREM NoFalsePosition == Spec => []NeverBothWays
<1>1. IInv => NeverBothWays
  BY DEF IInv
<1> QED
  BY <1>1, Invariant, PTL

(* While the question is up the keyboard's keys stay lifted.                  *)
KeyboardLifted == asking => keys_down = {}

(* No key of the keyboard gets through while the question is up.              *)
LEMMA KeyboardStaysLifted == Spec => []KeyboardLifted
<1>1. Init => KeyboardLifted
  BY DEF Init, KeyboardLifted
<1>2. KeyboardLifted /\ [Next]_vars => KeyboardLifted'
  <2> SUFFICES ASSUME KeyboardLifted, [Next]_vars PROVE KeyboardLifted'
    OBVIOUS
  <2>1. CASE KeyInput \/ PointerInput \/ CtrlAltDelDown
    BY <2>1 DEF KeyInput, PointerInput, CtrlAltDelDown, Typing, windowVars, KeyboardLifted
  <2>2. CASE CtrlAltDelUp
    BY <2>2 DEF CtrlAltDelUp, windowVars, KeyboardLifted
  <2>3. CASE LoseFocus \/ AskToClose
    BY <2>3 DEF LoseFocus, AskToClose, LiftAll, KeyboardLifted
  <2>4. CASE WindowBack \/ PollPads
    BY <2>4 DEF WindowBack, PollPads, windowVars, KeyboardLifted
  <2>5. CASE Library \/ MainLoop
    BY <2>5 DEF Library, Enqueue, InputFlush, MainLoop, DrainTake, DrainDeliver, windowVars,
                KeyboardLifted
  <2>6. CASE UNCHANGED vars
    BY <2>6 DEF vars, windowVars, KeyboardLifted
  <2> QED
    BY <2>1, <2>2, <2>3, <2>4, <2>5, <2>6 DEF Next, FrontEnd
<1> QED
  BY <1>1, <1>2, PTL DEF Spec

(* What NothingWhileAsking, which the code breaks, comes down to: while the   *)
(* close question is up the guest is left with the pad's keys and no others.  *)
OnlyThePadWhileAsking == asking /\ ~dropped => OnTheWay \subseteq held

(* With a queue that never filled, the guest is left with no key of the       *)
(* keyboard while the question is up: the pad, which is still polled, is the  *)
(* only thing that can press one.                                             *)
THEOREM QuestionTakesTheKeyboard == Spec => []OnlyThePadWhileAsking
<1>1. IInv /\ KeyboardLifted => OnlyThePadWhileAsking
  BY DEF IInv, NoKeySticks, KeyboardLifted, OnlyThePadWhileAsking
<1> QED
  BY <1>1, Invariant, KeyboardStaysLifted, PTL
=============================================================================
