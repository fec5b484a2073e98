--------------------------- MODULE D3dWindowProof ---------------------------
(* What holds of Direct3D's way to the host for any allocations, addresses    *)
(* and limits: the driver and the executor agree on what is where, and what   *)
(* the executor writes into VRAM is seen.                                     *)
EXTENDS D3dWindow, SetLemmas

-----------------------------------------------------------------------------
(* A batch, record by record                                                 *)

Start == [surfs |-> surfs, wrote |-> <<>>, slot |-> slot, err |-> FALSE]

(* The executor's states along a batch exist, and the last is its result.     *)
LEMMA ExecRun ==
  ASSUME NEW records, Len(records) \in Nat, NEW hr
  PROVE  \E f : /\ f[0] = Start
                /\ \A n \in 1..Len(records) : f[n] = ExecOne(f[n - 1], records[n], hr)
                /\ ExecBatch(records, hr) = f[Len(records)]
<1> DEFINE Step(f, n) == IF n = 0 THEN Start ELSE ExecOne(f[n - 1], records[n], hr)
           T == {m \in Nat : \E f : f = [n \in 0..m |-> Step(f, n)]}
<1>1. 0 \in T
  <2> DEFINE f == [n \in 0..0 |-> Start]
  <2>1. f = [n \in 0..0 |-> Step(f, n)]
    OBVIOUS
  <2> QED
    BY <2>1
<1>2. ASSUME NEW m \in Nat, m \in T PROVE m + 1 \in T
  <2>1. PICK f : f = [n \in 0..m |-> Step(f, n)]
    BY <1>2
  <2> DEFINE g == [n \in 0..(m + 1) |-> IF n = m + 1 THEN Step(f, n) ELSE f[n]]
  <2>2. \A n \in 0..(m + 1) : g[n] = Step(g, n)
    <3> SUFFICES ASSUME NEW n \in 0..(m + 1) PROVE g[n] = Step(g, n)
      OBVIOUS
    <3>1. n # 0 => n - 1 \in 0..(m + 1) /\ n - 1 # m + 1
      OBVIOUS
    <3>2. n # 0 => g[n - 1] = f[n - 1]
      BY <3>1
    <3>3. Step(g, n) = Step(f, n)
      BY <3>2
    <3>4. CASE n = m + 1
      BY <3>3, <3>4
    <3>5. CASE n # m + 1
      <4>1. n \in 0..m
        BY <3>5
      <4>2. f[n] = Step(f, n)
        BY <2>1, <4>1
      <4> QED
        BY <3>3, <3>5, <4>2
    <3> QED
      BY <3>4, <3>5
  <2>3. g = [n \in 0..(m + 1) |-> Step(g, n)]
    BY <2>2
  <2> HIDE DEF g
  <2> QED
    BY <2>3
<1>3. Len(records) \in T
  <2> HIDE DEF T
  <2> QED
    BY <1>1, <1>2, SetInduction
<1> DEFINE after == CHOOSE f : f = [n \in 0..Len(records) |-> Step(f, n)]
<1>4. after = [n \in 0..Len(records) |-> Step(after, n)]
  BY <1>3
<1>5. ExecBatch(records, hr) = after[Len(records)]
  BY DEF ExecBatch, Start
<1> HIDE DEF after
<1>6. after[0] = Start
  BY <1>4
<1>7. \A n \in 1..Len(records) : after[n] = ExecOne(after[n - 1], records[n], hr)
  BY <1>4
<1> QED
  BY <1>5, <1>6, <1>7

(* The ranges that a batch's writes leave, likewise.                          *)
LEMMA NotedRun ==
  ASSUME NEW wrote, Len(wrote) \in Nat
  PROVE  \E f : /\ f[0] = <<>>
                /\ \A n \in 1..Len(wrote) : f[n] = NoteDirty(f[n - 1], wrote[n])
                /\ DirtyRanges(wrote) = f[Len(wrote)]
<1> DEFINE Step(f, n) == IF n = 0 THEN <<>> ELSE NoteDirty(f[n - 1], wrote[n])
           T == {m \in Nat : \E f : f = [n \in 0..m |-> Step(f, n)]}
<1>1. 0 \in T
  <2> DEFINE f == [n \in 0..0 |-> <<>>]
  <2>1. f = [n \in 0..0 |-> Step(f, n)]
    OBVIOUS
  <2> QED
    BY <2>1
<1>2. ASSUME NEW m \in Nat, m \in T PROVE m + 1 \in T
  <2>1. PICK f : f = [n \in 0..m |-> Step(f, n)]
    BY <1>2
  <2> DEFINE g == [n \in 0..(m + 1) |-> IF n = m + 1 THEN Step(f, n) ELSE f[n]]
  <2>2. \A n \in 0..(m + 1) : g[n] = Step(g, n)
    <3> SUFFICES ASSUME NEW n \in 0..(m + 1) PROVE g[n] = Step(g, n)
      OBVIOUS
    <3>1. n # 0 => n - 1 \in 0..(m + 1) /\ n - 1 # m + 1
      OBVIOUS
    <3>2. n # 0 => g[n - 1] = f[n - 1]
      BY <3>1
    <3>3. Step(g, n) = Step(f, n)
      BY <3>2
    <3>4. CASE n = m + 1
      BY <3>3, <3>4
    <3>5. CASE n # m + 1
      <4>1. n \in 0..m
        BY <3>5
      <4>2. f[n] = Step(f, n)
        BY <2>1, <4>1
      <4> QED
        BY <3>3, <3>5, <4>2
    <3> QED
      BY <3>4, <3>5
  <2>3. g = [n \in 0..(m + 1) |-> Step(g, n)]
    BY <2>2
  <2> HIDE DEF g
  <2> QED
    BY <2>3
<1>3. Len(wrote) \in T
  <2> HIDE DEF T
  <2> QED
    BY <1>1, <1>2, SetInduction
<1> DEFINE noted == CHOOSE f : f = [n \in 0..Len(wrote) |-> Step(f, n)]
<1>4. noted = [n \in 0..Len(wrote) |-> Step(noted, n)]
  BY <1>3
<1>5. DirtyRanges(wrote) = noted[Len(wrote)]
  BY DEF DirtyRanges
<1> HIDE DEF noted
<1>6. noted[0] = <<>>
  BY <1>4
<1>7. \A n \in 1..Len(wrote) : noted[n] = NoteDirty(noted[n - 1], wrote[n])
  BY <1>4
<1> QED
  BY <1>5, <1>6, <1>7

(* The surfaces the executor may know, and what it has along a batch.         *)
SurfMaps == UNION {[D -> Addrs] : D \in SUBSET Mirrored}
States == [surfs : SurfMaps, wrote : Seq(Addrs), slot : Answers, err : BOOLEAN]
Placing == {"release", "surface"}

(* Such a map is a function from some allocations to places.                  *)
LEMMA SurfMapsAre ==
  ASSUME NEW s
  PROVE  s \in SurfMaps <=> /\ DOMAIN s \subseteq Mirrored
                            /\ s = [x \in DOMAIN s |-> s[x]]
                            /\ \A x \in DOMAIN s : s[x] \in Addrs
<1>1. ASSUME s \in SurfMaps
      PROVE  /\ DOMAIN s \subseteq Mirrored /\ s = [x \in DOMAIN s |-> s[x]]
             /\ \A x \in DOMAIN s : s[x] \in Addrs
  <2>1. PICK D \in SUBSET Mirrored : s \in [D -> Addrs]
    BY <1>1 DEF SurfMaps
  <2> QED
    BY <2>1
<1>2. ASSUME DOMAIN s \subseteq Mirrored, s = [x \in DOMAIN s |-> s[x]],
             \A x \in DOMAIN s : s[x] \in Addrs
      PROVE  s \in SurfMaps
  <2>1. s \in [DOMAIN s -> Addrs]
    BY <1>2
  <2> QED
    BY <1>2, <2>1 DEF SurfMaps
<1> QED
  BY <1>1, <1>2

(* A surface more.                                                            *)
LEMMA SurfMapsClosed ==
  ASSUME NEW s \in SurfMaps, NEW h \in Mirrored, NEW a \in Addrs
  PROVE  With(s, h, a) \in SurfMaps
<1> DEFINE w == With(s, h, a)
<1>0. DOMAIN s \subseteq Mirrored /\ \A x \in DOMAIN s : s[x] \in Addrs
  BY SurfMapsAre
<1>1. /\ DOMAIN w = DOMAIN s \cup {h} /\ w = [x \in DOMAIN w |-> w[x]]
      /\ w[h] = a /\ \A x \in DOMAIN s : x # h => w[x] = s[x]
  BY DEF With
<1> HIDE DEF w
<1>2. w \in SurfMaps
  BY <1>0, <1>1, SurfMapsAre
<1> QED
  BY <1>2 DEF w

(* And one fewer.                                                             *)
LEMMA SurfMapsWithout ==
  ASSUME NEW s \in SurfMaps, NEW h
  PROVE  Without(s, h) \in SurfMaps
<1> DEFINE u == Without(s, h)
<1>0. DOMAIN s \subseteq Mirrored /\ \A x \in DOMAIN s : s[x] \in Addrs
  BY SurfMapsAre
<1>1. /\ DOMAIN u = DOMAIN s \ {h} /\ u = [x \in DOMAIN u |-> u[x]]
      /\ \A x \in DOMAIN s : x # h => u[x] = s[x]
  BY DEF Without
<1> HIDE DEF u
<1>2. u \in SurfMaps
  BY <1>0, <1>1, SurfMapsAre
<1> QED
  BY <1>2 DEF u

(* One record: what it leaves has its type; and, with no error, of the        *)
(* surfaces only its own is touched.                                          *)
LEMMA ExecOneIs ==
  ASSUME NEW st \in States, NEW r \in Records, NEW hr \in {"ok", "later"}
  PROVE  /\ ExecOne(st, r, hr) \in States
         /\ ~ExecOne(st, r, hr).err =>
              /\ ~st.err
              /\ r.op = "release" => ExecOne(st, r, hr).surfs = Without(st.surfs, r.h)
              /\ r.op = "surface" =>
                   ExecOne(st, r, hr).surfs = IF r.h \in Mirrored THEN With(st.surfs, r.h, r.at)
                                                                 ELSE st.surfs
              /\ r.op \notin Placing => ExecOne(st, r, hr).surfs = st.surfs
<1>0. st.surfs \in SurfMaps /\ st.wrote \in Seq(Addrs) /\ st.slot \in Answers
      /\ st.err \in BOOLEAN
      /\ st = [surfs |-> st.surfs, wrote |-> st.wrote, slot |-> st.slot, err |-> st.err]
  BY DEF States
<1>1. CASE st.err
  BY <1>1 DEF ExecOne
<1>2. CASE ~st.err /\ r \in Releases
  <2>1. r.op = "release" /\ r.h \in Handles
    BY <1>2 DEF Releases
  <2>2. ExecOne(st, r, hr) = [st EXCEPT !.surfs = Without(@, r.h)]
    BY <1>2, <2>1 DEF ExecOne
  <2>3. Without(st.surfs, r.h) \in SurfMaps
    BY <1>0, SurfMapsWithout
  <2> QED
    BY <1>0, <1>2, <2>1, <2>2, <2>3 DEF States, Placing
<1>3. CASE ~st.err /\ r \in Registers
  <2>1. r.op = "surface" /\ r.h \in Handles /\ r.at \in Addrs
    BY <1>3 DEF Registers
  <2>2. \/ r.h \in Mirrored /\ ExecOne(st, r, hr) = [st EXCEPT !.surfs = With(@, r.h, r.at)]
        \/ r.h \notin Mirrored /\ ExecOne(st, r, hr) = st
        \/ ExecOne(st, r, hr) = [st EXCEPT !.err = TRUE]
    BY <1>3, <2>1 DEF ExecOne
  <2>3. r.h \in Mirrored => With(st.surfs, r.h, r.at) \in SurfMaps
    BY <1>0, <2>1, SurfMapsClosed
  <2> QED
    BY <1>0, <1>3, <2>1, <2>2, <2>3 DEF States, Placing
<1>4. CASE ~st.err /\ r \in Uses
  <2>1. r.op \in {"target", "readback"} /\ r.h \in Handles
    BY <1>4 DEF Uses
  <2>2. CASE r.op = "target"
    <3>1. ExecOne(st, r, hr) = [st EXCEPT !.err = r.h \notin DOMAIN st.surfs]
      BY <1>4, <2>2 DEF ExecOne
    <3> QED
      BY <1>0, <1>4, <2>2, <3>1 DEF States, Placing
  <2>3. CASE r.op = "readback"
    <3>1. ExecOne(st, r, hr) = IF r.h \in DOMAIN st.surfs
                               THEN [st EXCEPT !.wrote = Append(@, st.surfs[r.h])] ELSE st
      BY <1>4, <2>3 DEF ExecOne
    <3>2. r.h \in DOMAIN st.surfs => Append(st.wrote, st.surfs[r.h]) \in Seq(Addrs)
      BY <1>0, SurfMapsAre
    <3> QED
      BY <1>0, <1>4, <2>3, <3>1, <3>2 DEF States, Placing
  <2> QED
    BY <2>1, <2>2, <2>3
<1>5. CASE ~st.err /\ r \in Gets
  <2>1. r.op = "get"
    BY <1>5 DEF Gets
  <2>2. ExecOne(st, r, hr) = [st EXCEPT !.slot = [hr |-> hr, own |-> TRUE]]
    BY <1>5, <2>1 DEF ExecOne
  <2>3. [hr |-> hr, own |-> TRUE] \in Answers
    BY DEF Answers
  <2> QED
    BY <1>0, <1>5, <2>1, <2>2, <2>3 DEF States, Placing
<1> QED
  BY <1>0, <1>1, <1>2, <1>3, <1>4, <1>5 DEF Records

(* What the driver has registered and not released, of what the host mirrors; *)
(* whether the executor knows of one what the driver thinks; whether a record *)
(* is in keeping.                                                             *)
Known == {h \in Mirrored : alloc[h].host # Nowhere /\ h \in Live \cup rel \cup rel_lost}
AgreesOn(s, h) == /\ h \in DOMAIN s <=> h \in Known
                  /\ h \in Known => s[h] = alloc[h].host
InKeeping(r) == /\ r.op = "surface" /\ r.h \in Mirrored
                     => r.h \in Known /\ r.at = alloc[r.h].host
                /\ r.op = "release" => r.h \notin Known
Places(r, h) == r.op \in Placing /\ r.h = h
SameOn(s, t, h) == /\ h \in DOMAIN s <=> h \in DOMAIN t
                   /\ h \in DOMAIN t => s[h] = t[h]

(* One record in keeping with the driver's view brings its own surface into   *)
(* agreement and leaves the others.                                           *)
LEMMA ExecOneAgrees ==
  ASSUME NEW st \in States, NEW r \in Records, NEW hr \in {"ok", "later"},
         InKeeping(r), ~ExecOne(st, r, hr).err, NEW h \in Handles
  PROVE  /\ Places(r, h) => AgreesOn(ExecOne(st, r, hr).surfs, h)
         /\ ~Places(r, h) => SameOn(ExecOne(st, r, hr).surfs, st.surfs, h)
<1> DEFINE new == ExecOne(st, r, hr).surfs
<1>1. CASE r.op = "release"
  <2>1. r.h \in Handles /\ new = Without(st.surfs, r.h) /\ r.h \notin Known
    BY <1>1, ExecOneIs DEF InKeeping, Records, Releases, Uses, Registers, Gets
  <2>2. /\ DOMAIN new = DOMAIN st.surfs \ {r.h}
        /\ \A x \in DOMAIN st.surfs : x # r.h => new[x] = st.surfs[x]
    <3>1. \A k \in Handles : /\ DOMAIN Without(st.surfs, k) = DOMAIN st.surfs \ {k}
                             /\ \A x \in DOMAIN st.surfs :
                                  x # k => Without(st.surfs, k)[x] = st.surfs[x]
      BY DEF Without
    <3> HIDE DEF new
    <3> QED
      BY <2>1, <3>1
  <2> HIDE DEF new
  <2>3. Places(r, h) <=> r.h = h
    BY <1>1 DEF Places, Placing
  <2>4. (r.h = h => AgreesOn(new, h)) /\ (r.h # h => SameOn(new, st.surfs, h))
    BY <2>1, <2>2 DEF AgreesOn, SameOn
  <2> QED
    BY <2>3, <2>4 DEF new
<1>2. CASE r.op = "surface" /\ r.h \in Mirrored
  <2>1. r.h \in Handles /\ r.at \in Addrs /\ new = With(st.surfs, r.h, r.at)
        /\ r.h \in Known /\ r.at = alloc[r.h].host
    BY <1>2, ExecOneIs DEF InKeeping, Records, Releases, Uses, Registers, Gets
  <2>2. /\ DOMAIN new = DOMAIN st.surfs \cup {r.h} /\ new[r.h] = r.at
        /\ \A x \in DOMAIN st.surfs : x # r.h => new[x] = st.surfs[x]
    <3>1. \A k \in Handles, a \in Addrs :
            /\ DOMAIN With(st.surfs, k, a) = DOMAIN st.surfs \cup {k}
            /\ With(st.surfs, k, a)[k] = a
            /\ \A x \in DOMAIN st.surfs : x # k => With(st.surfs, k, a)[x] = st.surfs[x]
      BY DEF With
    <3> HIDE DEF new
    <3> QED
      BY <2>1, <3>1
  <2> HIDE DEF new
  <2>3. Places(r, h) <=> r.h = h
    BY <1>2 DEF Places, Placing
  <2>4. (r.h = h => AgreesOn(new, h)) /\ (r.h # h => SameOn(new, st.surfs, h))
    BY <2>1, <2>2 DEF AgreesOn, SameOn
  <2> QED
    BY <2>3, <2>4 DEF new
<1>3. CASE r.op \notin Placing
  BY <1>3, ExecOneIs DEF Places, SameOn
<1>4. CASE r.op = "surface" /\ r.h \notin Mirrored
  <2>1. new = st.surfs
    BY <1>4, ExecOneIs
  <2>2. DOMAIN st.surfs \subseteq Mirrored
    BY SurfMapsAre DEF States
  <2> HIDE DEF new
  <2>3. r.h \notin DOMAIN new /\ r.h \notin Known
    BY <1>4, <2>1, <2>2 DEF Known
  <2> QED
    BY <2>1, <2>3 DEF Places, SameOn, AgreesOn, new
<1> QED
  BY <1>1, <1>2, <1>3, <1>4 DEF Placing

(* A batch: what it leaves has its type; and, with no error, each surface a   *)
(* record of it places is what the driver thinks, and the others are as they  *)
(* were.                                                                      *)
LEMMA ExecBatchIs ==
  ASSUME NEW records \in Seq(Records), NEW hr \in {"ok", "later"},
         surfs \in SurfMaps, slot \in Answers
  PROVE  /\ ExecBatch(records, hr) \in States
         /\ (\A i \in DOMAIN records : InKeeping(records[i])) /\ ~ExecBatch(records, hr).err
            => \A h \in Handles :
                 \/ AgreesOn(ExecBatch(records, hr).surfs, h)
                 \/ /\ \A i \in DOMAIN records : ~Places(records[i], h)
                    /\ SameOn(ExecBatch(records, hr).surfs, surfs, h)
<1>0. Len(records) \in Nat /\ DOMAIN records = 1..Len(records)
      /\ \A i \in 1..Len(records) : records[i] \in Records
  OBVIOUS
<1>1. PICK f : /\ f[0] = Start
               /\ \A n \in 1..Len(records) : f[n] = ExecOne(f[n - 1], records[n], hr)
               /\ ExecBatch(records, hr) = f[Len(records)]
  BY <1>0, ExecRun
<1>2. Start \in States
  <2>1. <<>> \in Seq(Addrs)
    BY EmptySeq
  <2> QED
    BY <2>1 DEF Start, States
<1> DEFINE Typed == {n \in Nat : n <= Len(records) => f[n] \in States}
<1>3. Nat \subseteq Typed
  <2>1. 0 \in Typed
    BY <1>1, <1>2
  <2>2. ASSUME NEW n \in Nat, n \in Typed PROVE n + 1 \in Typed
    <3> SUFFICES ASSUME n + 1 <= Len(records) PROVE f[n + 1] \in States
      OBVIOUS
    <3>1. n + 1 \in 1..Len(records) /\ (n + 1) - 1 = n /\ f[n] \in States
      BY <1>0, <2>2
    <3>2. f[n + 1] = ExecOne(f[n], records[n + 1], hr)
      BY <1>1, <3>1
    <3> QED
      BY <1>0, <3>1, <3>2, ExecOneIs
  <2> HIDE DEF Typed
  <2> QED
    BY <2>1, <2>2, SetInduction
<1>4. \A n \in 0..Len(records) : f[n] \in States
  BY <1>0, <1>3
<1>5. ASSUME \A i \in DOMAIN records : InKeeping(records[i]),
             ~ExecBatch(records, hr).err, NEW h \in Handles
      PROVE  \/ AgreesOn(ExecBatch(records, hr).surfs, h)
             \/ /\ \A i \in DOMAIN records : ~Places(records[i], h)
                /\ SameOn(ExecBatch(records, hr).surfs, surfs, h)
  <2> DEFINE So(n) == f[n].err \/ AgreesOn(f[n].surfs, h)
                        \/ (/\ \A i \in 1..n : ~Places(records[i], h)
                            /\ SameOn(f[n].surfs, surfs, h))
             T == {n \in Nat : n <= Len(records) => So(n)}
  <2>1. 0 \in T
    BY <1>1 DEF Start, SameOn
  <2>2. ASSUME NEW n \in Nat, n \in T PROVE n + 1 \in T
    <3> SUFFICES ASSUME n + 1 <= Len(records), ~f[n + 1].err PROVE So(n + 1)
      OBVIOUS
    <3> DEFINE r == records[n + 1]
    <3>1. n + 1 \in 1..Len(records) /\ (n + 1) - 1 = n /\ n \in 0..Len(records)
          /\ n <= Len(records)
      BY <1>0
    <3>2. f[n] \in States /\ r \in Records /\ InKeeping(r)
          /\ f[n + 1] = ExecOne(f[n], r, hr)
      BY <1>0, <1>1, <1>4, <1>5, <3>1
    <3>3. ~f[n].err /\ So(n)
      <4>1. ~ExecOne(f[n], r, hr).err
        BY <3>2
      <4> HIDE DEF r
      <4>2. ~f[n].err
        BY <3>2, <4>1, ExecOneIs
      <4> QED
        BY <2>2, <3>1, <4>2
    <3>4. /\ Places(r, h) => AgreesOn(f[n + 1].surfs, h)
          /\ ~Places(r, h) => SameOn(f[n + 1].surfs, f[n].surfs, h)
      BY <3>2, ExecOneAgrees
    <3>5. CASE Places(r, h)
      BY <3>4, <3>5
    <3>6. CASE ~Places(r, h) /\ AgreesOn(f[n].surfs, h)
      BY <3>4, <3>6 DEF AgreesOn, SameOn
    <3>7. CASE ~Places(r, h) /\ (\A i \in 1..n : ~Places(records[i], h))
               /\ SameOn(f[n].surfs, surfs, h)
      <4>1. \A i \in 1..(n + 1) : i \in 1..n \/ i = n + 1
        OBVIOUS
      <4>2. \A i \in 1..(n + 1) : ~Places(records[i], h)
        BY <3>7, <4>1
      <4>3. SameOn(f[n + 1].surfs, surfs, h)
        BY <3>4, <3>7 DEF SameOn
      <4> QED
        BY <4>2, <4>3
    <3> QED
      BY <3>3, <3>5, <3>6, <3>7
  <2>3. Len(records) \in T
    <3> HIDE DEF T
    <3> QED
      BY <1>0, <2>1, <2>2, SetInduction
  <2> QED
    BY <1>0, <1>1, <1>5, <2>3
<1>6. ExecBatch(records, hr) \in States
  BY <1>0, <1>1, <1>4
<1> QED
  BY <1>5, <1>6

-----------------------------------------------------------------------------
(* The ranges a reply carries                                                *)

Pairs(b) == (0..b) \X (0..b)

(* One write more: what was covered stays covered, and it is.                 *)
LEMMA NoteDirtyCovers ==
  ASSUME NEW b \in Nat, NEW ranges \in Seq(Pairs(b)), NEW at \in 0..b
  PROVE  /\ NoteDirty(ranges, at) \in Seq(Pairs(b))
         /\ Covered(ranges) \cup {at} \subseteq Covered(NoteDirty(ranges, at))
<1>0. <<at, at>> \in Pairs(b) /\ at \in at..at
  BY DEF Pairs
<1>1. CASE Len(ranges) < MaxDirty
  <2> DEFINE new == Append(ranges, <<at, at>>)
  <2>1. NoteDirty(ranges, at) = new
    BY <1>1 DEF NoteDirty
  <2>2. new \in Seq(Pairs(b)) /\ Len(new) = Len(ranges) + 1 /\ new[Len(ranges) + 1] = <<at, at>>
        /\ \A i \in 1..Len(ranges) : new[i] = ranges[i]
    BY <1>0, AppendProperties
  <2> HIDE DEF new
  <2>3. Range(new) = Range(ranges) \cup {<<at, at>>}
    <3>1. DOMAIN new = 1..(Len(ranges) + 1) /\ DOMAIN ranges = 1..Len(ranges)
      BY <2>2
    <3>2. \A i \in 1..(Len(ranges) + 1) : i \in 1..Len(ranges) \/ i = Len(ranges) + 1
      OBVIOUS
    <3>3. Len(ranges) + 1 \in 1..(Len(ranges) + 1)
          /\ \A i \in 1..Len(ranges) : i \in 1..(Len(ranges) + 1)
      OBVIOUS
    <3> QED
      BY <2>2, <3>1, <3>2, <3>3 DEF Range
  <2> QED
    BY <1>0, <2>1, <2>2, <2>3 DEF Covered
<1>2. CASE ~(Len(ranges) < MaxDirty)
  <2> DEFINE all == Range(ranges) \cup {<<at, at>>}
             firsts == {r[1] : r \in all}
             lasts == {r[2] : r \in all}
  <2>1. NoteDirty(ranges, at) = << Hull(all) >> /\ Hull(all) = <<Min(firsts), Max(lasts)>>
    BY <1>2 DEF NoteDirty, Hull
  <2>2. all \subseteq Pairs(b) /\ all # {} /\ <<at, at>> \in all
    BY <1>0 DEF Range
  <2> HIDE DEF all
  <2>3. firsts \subseteq 0..b /\ firsts # {} /\ lasts \subseteq 0..b /\ lasts # {}
        /\ at \in firsts /\ at \in lasts
    BY <2>2 DEF Pairs
  <2>4. \A r \in all : r[1] \in firsts /\ r[2] \in lasts
    OBVIOUS
  <2> HIDE DEF firsts, lasts
  <2>5. Min(firsts) \in firsts /\ (\A y \in firsts : Min(firsts) <= y)
        /\ Max(lasts) \in lasts /\ (\A y \in lasts : y <= Max(lasts))
    <3> 0 \in Int /\ b \in Int
      OBVIOUS
    <3> QED
      BY <2>3, MinIsLeast, MaxIsGreatest
  <2> DEFINE lo == Min(firsts)
             hi == Max(lasts)
  <2>6. lo \in 0..b /\ hi \in 0..b
    BY <2>3, <2>5
  <2> HIDE DEF lo, hi
  <2>7. NoteDirty(ranges, at) = << <<lo, hi>> >>
    BY <2>1 DEF lo, hi
  <2>8. Covered(<< <<lo, hi>> >>) = lo..hi
    BY DEF Covered, Range
  <2>9. at \in lo..hi
    BY <2>3, <2>5, <2>6 DEF lo, hi
  <2>10. ASSUME NEW r \in Range(ranges) PROVE r[1]..r[2] \subseteq lo..hi
    <3>1. r \in all /\ r[1] \in 0..b /\ r[2] \in 0..b
      BY <2>2 DEF all, Pairs
    <3>2. lo <= r[1] /\ r[2] <= hi
      BY <2>4, <2>5, <3>1 DEF lo, hi
    <3> QED
      BY <2>6, <3>1, <3>2
  <2>11. <<lo, hi>> \in Pairs(b)
    BY <2>6 DEF Pairs
  <2> QED
    BY <2>7, <2>8, <2>9, <2>10, <2>11 DEF Covered
<1> QED
  BY <1>1, <1>2

(* The numbers of a sequence have a bound.                                    *)
LEMMA SeqBounded ==
  ASSUME NEW s \in Seq(Nat)
  PROVE  \E b \in Nat : \A i \in 1..Len(s) : s[i] \in 0..b
<1> DEFINE T == {n \in Nat : n <= Len(s) => \E b \in Nat : \A i \in 1..n : s[i] \in 0..b}
<1>1. 0 \in T
  OBVIOUS
<1>2. ASSUME NEW n \in Nat, n \in T PROVE n + 1 \in T
  <2> SUFFICES ASSUME n + 1 <= Len(s)
               PROVE  \E b \in Nat : \A i \in 1..(n + 1) : s[i] \in 0..b
    OBVIOUS
  <2>1. PICK b \in Nat : \A i \in 1..n : s[i] \in 0..b
    BY <1>2
  <2>2. s[n + 1] \in Nat
    OBVIOUS
  <2>3. \A i \in 1..(n + 1) : s[i] \in 0..(b + s[n + 1])
    <3> SUFFICES ASSUME NEW i \in 1..(n + 1) PROVE s[i] \in 0..(b + s[n + 1])
      OBVIOUS
    <3>1. CASE i = n + 1
      BY <2>2, <3>1
    <3>2. CASE i # n + 1
      <4>1. i \in 1..n
        BY <3>2
      <4> QED
        BY <2>1, <2>2, <4>1
    <3> QED
      BY <3>1, <3>2
  <2>4. b + s[n + 1] \in Nat
    BY <2>2
  <2> QED
    BY <2>3, <2>4
<1>3. Len(s) \in T
  <2> HIDE DEF T
  <2> QED
    BY <1>1, <1>2, SetInduction
<1> QED
  BY <1>3

(* However many writes and however few ranges, every write is covered.        *)
LEMMA DirtyCovers ==
  ASSUME NEW wrote \in Seq(Addrs)
  PROVE  Range(wrote) \subseteq Covered(DirtyRanges(wrote))
<1>0. wrote \in Seq(Nat) /\ Len(wrote) \in Nat /\ DOMAIN wrote = 1..Len(wrote)
  <2>1. Len(wrote) \in Nat /\ DOMAIN wrote = 1..Len(wrote)
        /\ wrote \in [1..Len(wrote) -> Addrs]
    OBVIOUS
  <2>2. wrote \in [1..Len(wrote) -> Nat]
    BY <2>1, WindowAssumption
  <2> QED
    BY <2>1, <2>2
<1>1. PICK b \in Nat : \A i \in 1..Len(wrote) : wrote[i] \in 0..b
  BY <1>0, SeqBounded
<1>2. PICK f : /\ f[0] = <<>>
               /\ \A n \in 1..Len(wrote) : f[n] = NoteDirty(f[n - 1], wrote[n])
               /\ DirtyRanges(wrote) = f[Len(wrote)]
  BY <1>0, NotedRun
<1> DEFINE So(n) == /\ f[n] \in Seq(Pairs(b))
                    /\ \A i \in 1..n : wrote[i] \in Covered(f[n])
           T == {n \in Nat : n <= Len(wrote) => So(n)}
<1>3. 0 \in T
  <2>1. <<>> \in Seq(Pairs(b)) /\ 1..0 = {}
    BY EmptySeq
  <2> QED
    BY <1>2, <2>1
<1>4. ASSUME NEW n \in Nat, n \in T PROVE n + 1 \in T
  <2> SUFFICES ASSUME n + 1 <= Len(wrote) PROVE So(n + 1)
    OBVIOUS
  <2>1. n + 1 \in 1..Len(wrote) /\ (n + 1) - 1 = n /\ n <= Len(wrote)
    BY <1>0
  <2>2. f[n + 1] = NoteDirty(f[n], wrote[n + 1]) /\ wrote[n + 1] \in 0..b
    BY <1>1, <1>2, <2>1
  <2>3. So(n)
    BY <1>4, <2>1
  <2>4. f[n + 1] \in Seq(Pairs(b))
        /\ Covered(f[n]) \cup {wrote[n + 1]} \subseteq Covered(f[n + 1])
    BY <2>2, <2>3, NoteDirtyCovers
  <2>5. \A i \in 1..(n + 1) : i \in 1..n \/ i = n + 1
    OBVIOUS
  <2> QED
    BY <2>3, <2>4, <2>5
<1>5. Len(wrote) \in T
  <2> HIDE DEF T
  <2> QED
    BY <1>0, <1>3, <1>4, SetInduction
<1> QED
  BY <1>0, <1>2, <1>5 DEF Range

-----------------------------------------------------------------------------
(* The inductive invariant                                                   *)

Outstanding == Range(batch) \cup Range(todo)

(* A release is of an allocation that is gone, queued or lost but not both;   *)
(* one not yet created was told to nobody; and the user-mode driver's buffer  *)
(* is about living ones only.                                                 *)
Lives ==
  /\ \A h \in Handles : alloc[h].life = "new" => alloc[h].host = Nowhere
  /\ \A h \in rel \cup rel_lost : alloc[h].life = "gone"
  /\ rel \cap rel_lost = {}
  /\ \A i \in DOMAIN cmds : cmds[i].h \in Live

(* What is on its way to the executor is in keeping with what the driver      *)
(* thinks, the uses among it of what is where the host was told; and of the   *)
(* rest the executor knows just what the driver thinks.                       *)
Told == \A r \in Outstanding : InKeeping(r)
Placed ==
  \A r \in Outstanding : r \in Uses => alloc[r.h].cur \in {Nowhere, alloc[r.h].host}
Settled ==
  exec = "up" /\ ~failed =>
    \A h \in Handles : (\A r \in Outstanding : ~Places(r, h)) => AgreesOn(surfs, h)

IInv ==
  /\ WindowTypeOK /\ surfs \in SurfMaps /\ IsFiniteSet(rel)
  /\ Lives /\ Told /\ Placed /\ Settled
  /\ NothingUnseen

(* Before anything is created the host knows nothing, and nothing is on its   *)
(* way.                                                                       *)
LEMMA InitInv == WindowInit => IInv
<1> SUFFICES ASSUME WindowInit PROVE IInv
  OBVIOUS
<1>2. WindowTypeOK
  <2>1. Cardinality(rel) <= MaxRel /\ Zeroed \in Answers
    BY FS_EmptySet, WindowAssumption DEF WindowInit, Zeroed, Answers
  <2>2. alloc \in [Handles -> [life : {"new", "live", "gone"}, cur : Addrs \cup {Nowhere},
                            host : Addrs \cup {Nowhere}]]
    BY DEF WindowInit, New
  <2>3. <<>> \in Seq(Uses) /\ <<>> \in Seq(Records) /\ Len(<<>>) = 0
    BY EmptySeq
  <2>4. DOMAIN surfs \subseteq Handles /\ Range(surfs) \subseteq Addrs
    <3>1. DOMAIN <<>> = {}
      OBVIOUS
    <3> QED
      BY <3>1 DEF WindowInit, Range
  <2>5. Len(cmds) <= MaxCmds /\ Len(batch) <= MaxBatch
    BY <2>3, WindowAssumption DEF WindowInit
  <2> QED
    BY <2>1, <2>2, <2>3, <2>4, <2>5 DEF WindowInit, WindowTypeOK
<1>3. surfs \in SurfMaps
  <2>1. <<>> \in [{} -> Addrs]
    OBVIOUS
  <2> QED
    BY <2>1 DEF WindowInit, SurfMaps
<1>4. IsFiniteSet(rel) /\ Lives /\ Told /\ Placed /\ NothingUnseen
  BY FS_EmptySet DEF WindowInit, New, Lives, Told, Placed, Outstanding, Range, NothingUnseen
<1>5. Settled
  BY DEF WindowInit, Settled, AgreesOn, Known, New, Mirrored
<1> QED
  BY <1>2, <1>3, <1>4, <1>5 DEF IInv

(* A step that leaves what the driver thinks of its registered allocations,   *)
(* what is on its way and what the executor knows, and moves nothing while    *)
(* something is on its way.                                                   *)
SameView ==
  /\ Known' = Known /\ \A h \in Handles : alloc'[h].host = alloc[h].host
  /\ Outstanding = {} \/ \A h \in Handles : alloc'[h].cur \in {Nowhere, alloc[h].cur}
  /\ Outstanding' = Outstanding /\ UNCHANGED <<surfs, exec, failed>>

(* Such a step changes nothing the two sides have to agree on.                *)
LEMMA SameViewKeeps ==
  ASSUME IInv, SameView
  PROVE  Told' /\ Placed' /\ Settled'
<1>0. \A h \in Known : h \in Handles
  BY DEF Known, Mirrored
<1>1. \A r : InKeeping(r)' <=> InKeeping(r)
  BY <1>0 DEF SameView, InKeeping
<1>2. \A h : AgreesOn(surfs, h)' <=> AgreesOn(surfs, h)
  BY <1>0 DEF SameView, AgreesOn
<1>3. Placed'
  <2>1. \A r \in Uses : r.h \in Handles
    BY DEF Uses
  <2> QED
    BY <2>1 DEF SameView, IInv, Placed
<1> QED
  BY <1>1, <1>2, <1>3 DEF SameView, IInv, Told, Settled

(* A new allocation was never registered.                                     *)
LEMMA CreateInv ==
  ASSUME IInv, NEW h \in Handles, Create(h)
  PROVE  IInv'
<1>1. /\ alloc[h].life = "new" /\ alloc' = [alloc EXCEPT ![h].life = "live"]
      /\ UNCHANGED <<rel, rel_lost, cmds, asking, res, todo, batch, slot, execVars, unseen,
                     failed>>
  BY DEF Create
<1>2. alloc \in [Handles -> [life : {"new", "live", "gone"}, cur : Addrs \cup {Nowhere},
                             host : Addrs \cup {Nowhere}]]
  BY DEF IInv, WindowTypeOK
<1>3. WindowTypeOK'
  BY <1>1, <1>2 DEF IInv, WindowTypeOK, execVars
<1>4. /\ \A x \in Handles : x # h => alloc'[x] = alloc[x]
      /\ alloc'[h].life = "live"
      /\ \A x \in Handles : alloc'[x].cur = alloc[x].cur /\ alloc'[x].host = alloc[x].host
  BY <1>1, <1>2
<1>5. h \notin rel \cup rel_lost /\ h \notin Live
  BY <1>1 DEF IInv, Lives, Live
<1>6. Lives'
  BY <1>1, <1>4, <1>5 DEF IInv, Lives, Live, WindowTypeOK
<1>7. SameView
  <2>1. \A x \in Handles : x # h => (x \in Live' <=> x \in Live)
    BY <1>4 DEF Live
  <2>2. h \notin Known /\ h \notin Known'
    BY <1>1, <1>4 DEF Known, IInv, Lives
  <2>3. Known' = Known
    BY <1>1, <1>4, <2>1, <2>2 DEF Known, Mirrored
  <2> QED
    BY <1>1, <1>4, <2>3 DEF SameView, Outstanding, execVars
<1> QED
  BY <1>1, <1>3, <1>6, <1>7, SameViewKeeps DEF IInv, NothingUnseen, execVars

(* A destroyed allocation the host knows of stays known until its release is  *)
(* sent, or for good when the queue is full.                                  *)
LEMMA DestroyInv ==
  ASSUME IInv, NEW h \in Handles, Destroy(h)
  PROVE  IInv'
<1> DEFINE known == alloc[h].host # Nowhere
<1>1. /\ h \in Live /\ h \notin Named /\ alloc' = [alloc EXCEPT ![h].life = "gone", ![h].cur = Nowhere]
      /\ rel' = IF known /\ RelRoom THEN rel \cup {h} ELSE rel
      /\ rel_lost' = IF known /\ ~RelRoom THEN rel_lost \cup {h} ELSE rel_lost
      /\ UNCHANGED <<cmds, asking, res, todo, batch, slot, execVars, unseen, failed>>
  BY DEF Destroy
<1>2. /\ alloc \in [Handles -> [life : {"new", "live", "gone"}, cur : Addrs \cup {Nowhere},
                                host : Addrs \cup {Nowhere}]]
      /\ rel \subseteq Handles /\ rel_lost \subseteq Handles /\ Cardinality(rel) <= MaxRel
      /\ IsFiniteSet(rel)
  BY DEF IInv, WindowTypeOK
<1>3. /\ \A x \in Handles : x # h => alloc'[x] = alloc[x]
      /\ alloc'[h].life = "gone" /\ alloc'[h].host = alloc[h].host /\ alloc'[h].cur = Nowhere
      /\ alloc' \in [Handles -> [life : {"new", "live", "gone"}, cur : Addrs \cup {Nowhere},
                                 host : Addrs \cup {Nowhere}]]
  BY <1>1, <1>2
<1>4. h \notin rel \cup rel_lost
  BY <1>1 DEF IInv, Lives, Live
<1>5. IsFiniteSet(rel') /\ Cardinality(rel') <= MaxRel
  <2>1. CASE known /\ RelRoom
    <3>1. IsFiniteSet(rel \cup {h}) /\ Cardinality(rel \cup {h}) = Cardinality(rel) + 1
      BY <1>2, <1>4, FS_AddElement
    <3>2. Cardinality(rel) \in Nat /\ Cardinality(rel) < MaxRel
      BY <1>2, <2>1, FS_CardinalityType DEF RelRoom
    <3> QED
      BY <1>1, <2>1, <3>1, <3>2, WindowAssumption
  <2> QED
    BY <1>1, <1>2, <2>1
<1>6. WindowTypeOK'
  BY <1>1, <1>2, <1>3, <1>5 DEF IInv, WindowTypeOK, execVars
<1>7. Live' = Live \ {h}
  BY <1>3 DEF Live
<1>8. Lives'
  <2>1. \A x \in rel' \cup rel_lost' : alloc'[x].life = "gone"
    BY <1>1, <1>2, <1>3 DEF IInv, Lives
  <2>2. rel' \cap rel_lost' = {}
    BY <1>1, <1>4 DEF IInv, Lives
  <2>3. \A i \in DOMAIN cmds : cmds[i].h \in Live /\ cmds[i].h # h
    BY <1>1 DEF IInv, Lives, Named
  <2>4. \A x \in Handles : alloc'[x].life = "new" => alloc'[x].host = Nowhere
    BY <1>3 DEF IInv, Lives
  <2> QED
    BY <1>1, <1>7, <2>1, <2>2, <2>3, <2>4 DEF Lives
<1>9. SameView
  <2>1. \A x \in Handles : alloc'[x].host = alloc[x].host
                          /\ alloc'[x].cur \in {Nowhere, alloc[x].cur}
    BY <1>3
  <2>2. \A x \in Mirrored : x # h => (x \in Known' <=> x \in Known)
    BY <1>1, <1>7, <2>1 DEF Known, Mirrored
  <2>3. h \in Known' <=> known /\ h \in Mirrored
    BY <1>1, <1>7, <2>1 DEF Known
  <2>4. h \in Known <=> known /\ h \in Mirrored
    BY <1>1 DEF Known
  <2>5. Known' = Known
    BY <2>2, <2>3, <2>4 DEF Known
  <2> QED
    BY <1>1, <2>1, <2>5 DEF SameView, Outstanding, execVars
<1> QED
  BY <1>1, <1>5, <1>6, <1>8, <1>9, SameViewKeeps DEF IInv, NothingUnseen, execVars

(* A move changes where an allocation is, not where the host was told it is.  *)
LEMMA MoveInv ==
  ASSUME IInv, NEW h \in Handles, NEW a \in Addrs \cup {Nowhere}, Move(h, a)
  PROVE  IInv'
<1>1. /\ todo = <<>> /\ batch = <<>> /\ alloc' = [alloc EXCEPT ![h].cur = a]
      /\ UNCHANGED <<rel, rel_lost, cmds, asking, res, todo, batch, slot, execVars, unseen,
                     failed>>
  BY DEF Move, Idle
<1>2. alloc \in [Handles -> [life : {"new", "live", "gone"}, cur : Addrs \cup {Nowhere},
                             host : Addrs \cup {Nowhere}]]
  BY DEF IInv, WindowTypeOK
<1>3. /\ \A x \in Handles : alloc'[x].life = alloc[x].life /\ alloc'[x].host = alloc[x].host
      /\ alloc' \in [Handles -> [life : {"new", "live", "gone"}, cur : Addrs \cup {Nowhere},
                                 host : Addrs \cup {Nowhere}]]
  BY <1>1, <1>2
<1>4. WindowTypeOK'
  BY <1>1, <1>3 DEF IInv, WindowTypeOK, execVars
<1>5. Live' = Live
  BY <1>3 DEF Live
<1>6. Lives'
  BY <1>1, <1>3, <1>5 DEF IInv, Lives, WindowTypeOK
<1>7. Known' = Known
  BY <1>1, <1>3, <1>5 DEF Known, Mirrored
<1>8. SameView
  <2>1. Outstanding = {} /\ Outstanding' = Outstanding
    BY <1>1 DEF Outstanding, Range
  <2> QED
    BY <1>1, <1>3, <1>7, <2>1 DEF SameView, execVars
<1> QED
  BY <1>1, <1>4, <1>6, <1>8, SameViewKeeps DEF IInv, NothingUnseen, execVars

(* The user-mode driver's gathering and taking, and a record into the window. *)
LEMMA RecordInv ==
  ASSUME IInv, NEW use \in Uses, Record(use)
  PROVE  IInv'
<1>1. /\ Len(cmds) < MaxCmds /\ use.h \in Live /\ cmds' = Append(cmds, use)
      /\ UNCHANGED <<alloc, rel, rel_lost, asking, res, todo, batch, slot, execVars, unseen,
                     failed>>
  BY DEF Record
<1>2. cmds \in Seq(Uses)
  BY DEF IInv, WindowTypeOK
<1>3. /\ cmds' \in Seq(Uses) /\ Len(cmds') = Len(cmds) + 1
      /\ \A i \in 1..Len(cmds) : cmds'[i] = cmds[i]
      /\ cmds'[Len(cmds) + 1] = use
  BY <1>1, <1>2, AppendProperties
<1>4. WindowTypeOK'
  <2>1. Len(cmds') <= MaxCmds
    BY <1>1, <1>2, <1>3, WindowAssumption
  <2> QED
    BY <1>1, <1>3, <2>1 DEF IInv, WindowTypeOK, execVars
<1>5. Lives'
  <2>1. \A i \in 1..Len(cmds') : cmds'[i].h \in Live
    <3> SUFFICES ASSUME NEW i \in 1..Len(cmds') PROVE cmds'[i].h \in Live
      OBVIOUS
    <3>1. CASE i = Len(cmds) + 1
      BY <1>1, <1>3, <3>1
    <3>2. CASE i # Len(cmds) + 1
      <4>1. i \in 1..Len(cmds)
        BY <1>2, <1>3, <3>2
      <4> QED
        BY <1>2, <1>3, <4>1 DEF IInv, Lives
    <3> QED
      BY <3>1, <3>2
  <2>2. DOMAIN cmds' = 1..Len(cmds')
    BY <1>3
  <2> QED
    BY <1>1, <2>1, <2>2 DEF IInv, Lives, Live
<1>6. SameView
  BY <1>1 DEF SameView, Known, Live, Outstanding, execVars
<1> QED
  BY <1>1, <1>4, <1>5, <1>6, SameViewKeeps DEF IInv, NothingUnseen, execVars

(* An old answer is still an answer.                                          *)
LEMMA NotOwnIs ==
  ASSUME NEW answer \in Answers
  PROVE  NotOwn(answer) \in Answers
  BY DEF NotOwn, Answers

(* Reading the result allocation changes nothing else.                        *)
LEMMA TakeResultInv ==
  ASSUME IInv, TakeResult
  PROVE  IInv'
<1>1. /\ asking' = FALSE /\ res' = NotOwn(res) /\ slot' = NotOwn(slot)
      /\ UNCHANGED <<alloc, rel, rel_lost, cmds, todo, batch, execVars, unseen, failed>>
  BY DEF TakeResult
<1>2. WindowTypeOK'
  BY <1>1, NotOwnIs DEF IInv, WindowTypeOK, execVars
<1>3. SameView
  BY <1>1 DEF SameView, Known, Live, Outstanding, execVars
<1> QED
  BY <1>1, <1>2, <1>3, SameViewKeeps DEF IInv, Lives, Live, NothingUnseen, execVars

(* A record moves from the submission into the window: what is on its way     *)
(* stays.                                                                     *)
LEMMA PutInv ==
  ASSUME IInv, Put
  PROVE  IInv'
<1>1. /\ todo # <<>> /\ Len(batch) < MaxBatch /\ batch' = Append(batch, Head(todo))
      /\ todo' = Tail(todo)
      /\ UNCHANGED <<guestVars, res, slot, execVars, unseen, failed>>
  BY DEF Put
<1>2. todo \in Seq(Records) /\ batch \in Seq(Records)
  BY DEF IInv, WindowTypeOK
<1>3. Head(todo) \in Records /\ Tail(todo) \in Seq(Records)
  BY <1>1, <1>2, HeadTailProperties
<1>4. batch' \in Seq(Records) /\ Len(batch') <= MaxBatch
  <2>1. batch' \in Seq(Records) /\ Len(batch') = Len(batch) + 1 /\ Len(batch) \in Nat
    BY <1>1, <1>2, <1>3, AppendProperties
  <2> QED
    BY <1>1, <2>1, WindowAssumption
<1>5. WindowTypeOK'
  BY <1>1, <1>3, <1>4 DEF IInv, WindowTypeOK, execVars, guestVars
<1>6. Outstanding' = Outstanding
  <2>1. Range(Append(batch, Head(todo))) = Range(batch) \cup {Head(todo)}
    BY <1>2, <1>3, RangeOf
  <2>2. Range(todo) = {Head(todo)} \cup Range(Tail(todo))
    BY <1>1, <1>2, <1>3, RangeOf
  <2> QED
    BY <1>1, <2>1, <2>2 DEF Outstanding
<1>7. SameView
  BY <1>1, <1>6 DEF SameView, Known, Live, execVars, guestVars
<1> QED
  BY <1>1, <1>5, <1>7, SameViewKeeps DEF IInv, Lives, Live, NothingUnseen, execVars, guestVars

(* A submission: the records in front of the user-mode driver's bring the     *)
(* executor from what the driver thought before to what it thinks now.        *)
LEMMA SubmitKeeps ==
  ASSUME IInv, NEW list, list \subseteq Live, IsFiniteSet(list),
         NEW records \in Seq(Records), \A i \in DOMAIN records : records[i].op \notin Placing,
         \A i \in DOMAIN records : records[i] \in Uses => records[i].h \in list,
         Submit(list, records)
  PROVE  /\ alloc' \in [Handles -> [life : {"new", "live", "gone"}, cur : Addrs \cup {Nowhere},
                                    host : Addrs \cup {Nowhere}]]
         /\ todo' \in Seq(Records) /\ rel' = {} /\ cmds' = <<>>
         /\ UNCHANGED <<rel_lost, batch, execVars, unseen, failed>>
         /\ Lives' /\ Told' /\ Placed' /\ Settled'
         /\ \E front \in Seq(Records) : todo' = front \o records
<1> DEFINE told == {h \in list : Unregistered(h)}
<1>1. PICK first \in SetToSeqs(ReleaseRecords), then \in SetToSeqs(RegisterRecords(list)) :
        todo' = first \o then \o records
  BY DEF Submit
<1>2. /\ todo = <<>> /\ batch = <<>> /\ rel' = {} /\ cmds' = <<>>
      /\ alloc' = [h \in Handles |-> IF h \in list /\ Unregistered(h)
                                     THEN [alloc[h] EXCEPT !.host = alloc[h].cur] ELSE alloc[h]]
      /\ UNCHANGED <<rel_lost, batch, execVars, unseen, failed>>
  BY DEF Submit, Idle
<1>3. /\ alloc \in [Handles -> [life : {"new", "live", "gone"}, cur : Addrs \cup {Nowhere},
                                host : Addrs \cup {Nowhere}]]
      /\ rel \subseteq Handles /\ rel_lost \subseteq Handles /\ IsFiniteSet(rel)
      /\ list \subseteq Handles
  BY DEF IInv, WindowTypeOK, Live
<1>4. /\ \A h \in Handles : alloc'[h].life = alloc[h].life /\ alloc'[h].cur = alloc[h].cur
      /\ \A h \in told : alloc'[h].host = alloc[h].cur /\ alloc[h].cur # Nowhere
      /\ \A h \in Handles \ told : alloc'[h].host = alloc[h].host
      /\ alloc' \in [Handles -> [life : {"new", "live", "gone"}, cur : Addrs \cup {Nowhere},
                                 host : Addrs \cup {Nowhere}]]
  <2>1. told \subseteq Handles
    BY <1>3
  <2>2. \A h \in told : alloc[h].cur # Nowhere
    BY DEF Unregistered
  <2>3. alloc' = [h \in Handles |-> IF h \in told THEN [alloc[h] EXCEPT !.host = alloc[h].cur]
                                                  ELSE alloc[h]]
    BY <1>2
  <2> HIDE DEF told
  <2> QED
    BY <1>3, <2>1, <2>2, <2>3
<1>5. Live' = Live
  BY <1>4 DEF Live
<1>6. Lives'
  <2>1. cmds' = <<>> /\ DOMAIN cmds' = {}
    BY <1>2
  <2>2. \A h \in told : alloc[h].life = "live"
    BY DEF Live
  <2> HIDE DEF told
  <2> QED
    BY <1>2, <1>3, <1>4, <2>1, <2>2 DEF IInv, Lives
<1>7. /\ \A h \in told : h \in Mirrored => h \in Known'
      /\ \A h \in rel : h \notin Known' /\ h \notin told
      /\ \A h \in Handles : h \notin rel /\ h \notin told => (h \in Known' <=> h \in Known)
  <2>1. \A h \in rel : h \notin Live /\ h \notin rel_lost
    BY DEF IInv, Lives, Live
  <2>2. told \subseteq Live
    OBVIOUS
  <2> HIDE DEF told
  <2>3. \A h \in Handles :
          h \in Known' <=> h \in Mirrored /\ alloc'[h].host # Nowhere /\ h \in Live \cup rel_lost
    BY <1>2, <1>5 DEF Known
  <2> QED
    BY <1>3, <1>4, <2>1, <2>2, <2>3 DEF Known, Live, Mirrored
<1>8. /\ first \in Seq(ReleaseRecords) /\ Range(first) = ReleaseRecords
      /\ then \in Seq(RegisterRecords(list)) /\ Range(then) = RegisterRecords(list)
  <2>1. IsFiniteSet(ReleaseRecords)
    <3>1. IsFiniteSet({[op |-> "release", h |-> h] : h \in rel})
      <4> DEFINE f == [h \in rel |-> [op |-> "release", h |-> h]]
      <4>1. f \in Surjection(rel, {[op |-> "release", h |-> h] : h \in rel})
        BY DEF Surjection
      <4> QED
        BY <1>3, <4>1, FS_Surjection
    <3> QED
      BY <3>1 DEF ReleaseRecords
  <2>2. IsFiniteSet(RegisterRecords(list))
    <3> DEFINE those == {l \in list : Unregistered(l)}
               f == [h \in those |-> [op |-> "surface", h |-> h, at |-> alloc[h].cur]]
    <3>1. IsFiniteSet(those)
      BY FS_Subset
    <3>2. f \in Surjection(those, RegisterRecords(list))
      BY DEF Surjection, RegisterRecords
    <3> QED
      BY <3>1, <3>2, FS_Surjection
  <2> QED
    BY <2>1, <2>2, SetToSeqsAre
<1>9. ReleaseRecords \subseteq Records /\ RegisterRecords(list) \subseteq Records
  BY <1>3 DEF ReleaseRecords, RegisterRecords, Records, Releases, Registers, Unregistered
<1>10. /\ todo' \in Seq(Records) /\ \E front \in Seq(Records) : todo' = front \o records
       /\ Outstanding' = ReleaseRecords \cup RegisterRecords(list) \cup Range(records)
  <2>1. first \in Seq(Records) /\ then \in Seq(Records)
    BY <1>8, <1>9
  <2> DEFINE both == first \o then
  <2>2. both \in Seq(Records) /\ Range(both) = ReleaseRecords \cup RegisterRecords(list)
    <3>1. Range(first \o then) = Range(first) \cup Range(then)
      <4>1. [op |-> "get", copied |-> TRUE] \in Records
        BY DEF Records, Gets
      <4> QED
        BY <2>1, <4>1, RangeOf
    <3>2. first \o then \in Seq(Records)
      BY <2>1
    <3> QED
      BY <1>8, <3>1, <3>2
  <2> HIDE DEF both
  <2>3. both \o records \in Seq(Records) /\ Range(both \o records) = Range(both) \cup Range(records)
    <3>1. [op |-> "get", copied |-> TRUE] \in Records
      BY DEF Records, Gets
    <3>2. Range(both \o records) = Range(both) \cup Range(records)
      BY <2>2, <3>1, RangeOf
    <3>3. both \o records \in Seq(Records)
      BY <2>2
    <3> QED
      BY <3>2, <3>3
  <2>4. Range(<<>>) = {}
    BY DEF Range
  <2>5. Outstanding' = Range(batch') \cup Range(todo')
    BY DEF Outstanding
  <2>6. todo' = both \o records
    BY <1>1 DEF both
  <2> QED
    BY <1>2, <2>2, <2>3, <2>4, <2>5, <2>6
<1>11. \A r \in Range(records) : r.op \notin Placing
  BY DEF Range
<1>12. Told'
  <2> SUFFICES ASSUME NEW r \in Outstanding' PROVE InKeeping(r)'
    BY DEF Told
  <2>1. CASE r \in ReleaseRecords
    BY <1>7, <2>1 DEF ReleaseRecords, InKeeping
  <2>2. CASE r \in RegisterRecords(list)
    <3>1. PICK h \in told : r = [op |-> "surface", h |-> h, at |-> alloc[h].cur]
      BY <2>2 DEF RegisterRecords
    <3> HIDE DEF told
    <3> QED
      BY <1>4, <1>7, <3>1 DEF InKeeping
  <2>3. CASE r \in Range(records)
    BY <1>11, <2>3 DEF InKeeping, Placing
  <2> QED
    BY <1>10, <2>1, <2>2, <2>3
<1>13. Settled'
  <2> SUFFICES ASSUME exec = "up", ~failed, NEW h \in Handles,
                      \A r \in Outstanding' : ~Places(r, h)
               PROVE  AgreesOn(surfs, h)'
    BY <1>2 DEF Settled, execVars
  <2>1. h \notin rel
    <3> SUFFICES ASSUME h \in rel PROVE FALSE
      OBVIOUS
    <3>1. [op |-> "release", h |-> h] \in Outstanding'
      BY <1>10 DEF ReleaseRecords
    <3> QED
      BY <3>1 DEF Places, Placing
  <2>2. h \notin told
    <3> SUFFICES ASSUME h \in list, Unregistered(h) PROVE FALSE
      OBVIOUS
    <3>1. [op |-> "surface", h |-> h, at |-> alloc[h].cur] \in Outstanding'
      BY <1>10 DEF RegisterRecords
    <3> QED
      BY <3>1 DEF Places, Placing
  <2>3. AgreesOn(surfs, h)
    BY <1>2 DEF IInv, Settled, Outstanding, Range
  <2> HIDE DEF told
  <2>4. alloc'[h].host = alloc[h].host /\ (h \in Known' <=> h \in Known)
    BY <1>4, <1>7, <2>1, <2>2
  <2> QED
    BY <1>2, <2>3, <2>4 DEF AgreesOn, execVars
<1>14. Placed'
  <2> SUFFICES ASSUME NEW r \in Outstanding', r \in Uses
               PROVE  alloc'[r.h].cur \in {Nowhere, alloc'[r.h].host}
    BY DEF Placed
  <2>1. r \in Range(records)
    BY <1>10 DEF ReleaseRecords, RegisterRecords, Uses
  <2>2. r.h \in list
    BY <2>1 DEF Range
  <2>3. r.h \notin told => alloc[r.h].cur \in {Nowhere, alloc[r.h].host}
    BY <2>2 DEF Unregistered
  <2> HIDE DEF told
  <2> QED
    BY <1>3, <1>4, <2>2, <2>3
<1> QED
  BY <1>2, <1>4, <1>6, <1>10, <1>12, <1>13, <1>14

(* The user-mode driver's submissions are of that kind.                       *)
LEMMA ListIs ==
  ASSUME IInv
  PROVE  List \subseteq Live /\ IsFiniteSet(List)
<1>1. cmds \in Seq(Uses)
  BY DEF IInv, WindowTypeOK
<1>2. List \subseteq Live
  BY DEF IInv, Lives, List
<1>3. IsFiniteSet(DOMAIN cmds)
  BY <1>1, FS_Interval
<1> DEFINE f == [i \in DOMAIN cmds |-> cmds[i].h]
<1>4. f \in Surjection(DOMAIN cmds, List)
  BY DEF Surjection, List
<1> QED
  BY <1>2, <1>3, <1>4, FS_Surjection

(* The three submissions of the user-mode driver.                             *)
LEMMA SubmissionInv ==
  ASSUME IInv, CmdFlush \/ GetQueryData \/ AskAgain
  PROVE  IInv'
<1>1. cmds \in Seq(Uses) /\ cmds \in Seq(Records)
      /\ \A i \in DOMAIN cmds : cmds[i].op \notin Placing /\ cmds[i].h \in List
  <2>1. cmds \in Seq(Uses)
    BY DEF IInv, WindowTypeOK
  <2>2. \A u \in Uses : u.op \notin Placing /\ u \in Records
    BY DEF Uses, Placing, Records
  <2> QED
    BY <2>1, <2>2 DEF List
<1>2. ASSUME NEW copied \in BOOLEAN
      PROVE  /\ Append(cmds, Get(copied)) \in Seq(Records)
             /\ \A i \in DOMAIN Append(cmds, Get(copied)) :
                  /\ Append(cmds, Get(copied))[i].op \notin Placing
                  /\ Append(cmds, Get(copied))[i] \in Uses
                     => Append(cmds, Get(copied))[i].h \in List
             /\ <<Get(copied)>> \in Seq(Records)
             /\ \A i \in DOMAIN <<Get(copied)>> :
                  <<Get(copied)>>[i].op \notin Placing /\ <<Get(copied)>>[i] \notin Uses
  <2>1. Get(copied) \in Records /\ Get(copied).op \notin Placing /\ Get(copied) \notin Uses
    BY DEF Get, Records, Gets, Placing, Uses
  <2> DEFINE g == Get(copied)
             s == Append(cmds, g)
  <2> HIDE DEF g
  <2>2. s \in Seq(Records) /\ Len(s) = Len(cmds) + 1 /\ s[Len(cmds) + 1] = g
        /\ \A i \in 1..Len(cmds) : s[i] = cmds[i]
    BY <1>1, <2>1, AppendProperties DEF g
  <2> HIDE DEF s
  <2>3. \A i \in DOMAIN s : s[i].op \notin Placing /\ (s[i] \in Uses => s[i].h \in List)
    <3> SUFFICES ASSUME NEW i \in 1..(Len(cmds) + 1)
                 PROVE  s[i].op \notin Placing /\ (s[i] \in Uses => s[i].h \in List)
      BY <2>2
    <3>1. CASE i = Len(cmds) + 1
      BY <2>1, <2>2, <3>1 DEF g
    <3>2. CASE i # Len(cmds) + 1
      <4>1. i \in 1..Len(cmds)
        BY <1>1, <3>2
      <4> QED
        BY <1>1, <2>2, <4>1
    <3> QED
      BY <3>1, <3>2
  <2>4. <<Get(copied)>> \in Seq(Records)
        /\ \A i \in DOMAIN <<Get(copied)>> :
             <<Get(copied)>>[i].op \notin Placing /\ <<Get(copied)>>[i] \notin Uses
    BY <2>1
  <2> QED
    BY <2>2, <2>3, <2>4 DEF s, g
<1> DEFINE Kept ==
      /\ alloc' \in [Handles -> [life : {"new", "live", "gone"}, cur : Addrs \cup {Nowhere},
                                 host : Addrs \cup {Nowhere}]]
      /\ todo' \in Seq(Records) /\ rel' = {} /\ cmds' = <<>>
      /\ UNCHANGED <<rel_lost, batch, execVars, unseen, failed>>
      /\ Lives' /\ Told' /\ Placed' /\ Settled'
<1>3. CASE CmdFlush
  <2>1. Submit(List, cmds) /\ UNCHANGED <<asking, res, slot>>
    BY <1>3 DEF CmdFlush
  <2>2. Kept
    BY <1>1, <2>1, ListIs, SubmitKeeps
  <2> QED
    BY <2>1, <2>2, FS_EmptySet, WindowAssumption, EmptySeq
       DEF IInv, WindowTypeOK, NothingUnseen, execVars
<1>4. CASE GetQueryData
  <2>1. PICK copied \in BOOLEAN : Submit(List, Append(cmds, Get(copied)))
    BY <1>4 DEF GetQueryData, Copies
  <2>2. asking' = TRUE /\ res' = NotOwn(res) /\ slot' = NotOwn(slot)
    BY <1>4 DEF GetQueryData
  <2>3. Kept
    BY <1>2, <2>1, ListIs, SubmitKeeps
  <2>4. res' \in Answers /\ slot' \in Answers
    BY <2>2, NotOwnIs DEF IInv, WindowTypeOK
  <2> QED
    BY <2>2, <2>3, <2>4, FS_EmptySet, WindowAssumption, EmptySeq
       DEF IInv, WindowTypeOK, NothingUnseen, execVars
<1>5. CASE AskAgain
  <2>1. PICK copied \in BOOLEAN : Submit({}, <<Get(copied)>>)
    BY <1>5 DEF AskAgain, Copies
  <2>2. asking' = TRUE /\ res' = NotOwn(res) /\ slot' = NotOwn(slot)
    BY <1>5 DEF AskAgain
  <2>3. Kept
    <3>1. {} \subseteq Live /\ IsFiniteSet({})
      BY FS_EmptySet
    <3> QED
      BY <1>2, <2>1, <3>1, SubmitKeeps
  <2>4. res' \in Answers /\ slot' \in Answers
    BY <2>2, NotOwnIs DEF IInv, WindowTypeOK
  <2> QED
    BY <2>2, <2>3, <2>4, FS_EmptySet, WindowAssumption, EmptySeq
       DEF IInv, WindowTypeOK, NothingUnseen, execVars
<1> QED
  BY <1>3, <1>4, <1>5

(* Nothing known to the executor.                                             *)
LEMMA NoSurfs ==
  /\ <<>> \in SurfMaps
  /\ \A s \in SurfMaps : DOMAIN s \subseteq Handles /\ Range(s) \subseteq Addrs
<1>1. <<>> \in [{} -> Addrs]
  OBVIOUS
<1>2. \A s \in SurfMaps : DOMAIN s \subseteq Handles /\ Range(s) \subseteq Addrs
  BY SurfMapsAre DEF Range, Mirrored
<1> QED
  BY <1>1, <1>2 DEF SurfMaps

(* The window is run: refused, cut short, or to its end.                      *)
LEMMA FlushInv ==
  ASSUME IInv, Flush
  PROVE  IInv'
<1>1. /\ batch' = <<>> /\ (res' = slot' \/ res' = res)
      /\ UNCHANGED <<alloc, rel, rel_lost, cmds, asking, todo>>
  BY DEF Flush, guestVars
<1>2. /\ batch \in Seq(Records) /\ todo \in Seq(Records) /\ surfs \in SurfMaps
      /\ slot \in Answers /\ unseen \subseteq Addrs
  BY DEF IInv, WindowTypeOK
<1>3. Outstanding' = Range(todo) /\ Range(todo) \subseteq Outstanding
      /\ Range(batch) \subseteq Outstanding
  <2>1. Range(<<>>) = {}
    BY DEF Range
  <2> QED
    BY <1>1, <2>1 DEF Outstanding
<1>4. /\ Lives' /\ Told' /\ Placed' /\ IsFiniteSet(rel') /\ \A s, h : AgreesOn(s, h)' <=> AgreesOn(s, h)
  <2>1. Known' = Known /\ Live' = Live
    BY <1>1 DEF Known, Live
  <2>2. \A r : InKeeping(r) => InKeeping(r)'
    BY <1>1, <2>1 DEF InKeeping
  <2> QED
    BY <1>1, <1>3, <2>1, <2>2 DEF IInv, Lives, Told, Placed, AgreesOn
<1>5. ASSUME slot' \in Answers, surfs' \in SurfMaps, unseen' \subseteq Addrs,
             exec' \in {"up", "gone"}, mapped' \in BOOLEAN, UNCHANGED has_vram,
             failed' \in BOOLEAN, Settled', NothingUnseen'
      PROVE  IInv'
  <2>1. DOMAIN surfs' \subseteq Handles /\ Range(surfs') \subseteq Addrs
    BY <1>5, NoSurfs
  <2>2. batch' \in Seq(Records) /\ Len(batch') <= MaxBatch
    BY <1>1, EmptySeq, WindowAssumption
  <2> QED
    BY <1>1, <1>4, <1>5, <2>1, <2>2 DEF IInv, WindowTypeOK
<1>6. CASE CallFails
  <2>1. failed' = TRUE /\ UNCHANGED <<slot, exec, mapped, has_vram, surfs, unseen>>
    BY <1>6 DEF CallFails, execVars
  <2>2. Settled' /\ NothingUnseen'
    BY <2>1 DEF Settled, IInv, NothingUnseen
  <2> QED
    BY <1>2, <1>5, <2>1, <2>2 DEF IInv, WindowTypeOK
<1>7. CASE ProcessDies
  <2>1. PICK n \in 0..Len(batch) :
          /\ slot' = ExecBatch(SubSeq(batch, 1, n), "ok").slot
          /\ unseen' = unseen \cup Range(ExecBatch(SubSeq(batch, 1, n), "ok").wrote)
          /\ mapped' = (mapped \/ n > 0)
    BY <1>7 DEF ProcessDies
  <2>2. exec' = "gone" /\ failed' = TRUE /\ surfs' = <<>> /\ UNCHANGED has_vram
    BY <1>7 DEF ProcessDies
  <2>3. SubSeq(batch, 1, n) \in Seq(Records)
    <3>1. \A i \in 1..n : batch[i] \in Records
      BY <1>2
    <3> QED
      BY <1>2, <3>1, SubSeqProperties
  <2> DEFINE st == ExecBatch(SubSeq(batch, 1, n), "ok")
  <2>4. st \in States
    BY <1>2, <2>3, ExecBatchIs
  <2>5. slot' \in Answers /\ unseen' \subseteq Addrs
    <3>1. st.slot \in Answers /\ st.wrote \in Seq(Addrs)
      BY <2>4 DEF States
    <3> HIDE DEF st
    <3>2. Range(st.wrote) \subseteq Addrs
      BY <3>1 DEF Range
    <3> QED
      BY <1>2, <2>1, <3>1, <3>2 DEF st
  <2>6. Settled' /\ NothingUnseen'
    BY <2>2 DEF Settled, NothingUnseen
  <2>7. mapped' \in BOOLEAN
    BY <2>1
  <2> QED
    BY <1>5, <2>2, <2>5, <2>6, <2>7, NoSurfs
<1>8. CASE Answered
  <2>1. PICK hr \in {"ok", "later"} :
          /\ surfs' = ExecBatch(batch, hr).surfs /\ slot' = ExecBatch(batch, hr).slot
          /\ unseen' = (unseen \cup Range(ExecBatch(batch, hr).wrote))
                         \ Covered(DirtyRanges(ExecBatch(batch, hr).wrote))
          /\ failed' = (failed \/ ExecBatch(batch, hr).err)
    BY <1>8 DEF Answered
  <2>2. exec = "up" /\ mapped' = TRUE /\ UNCHANGED <<exec, has_vram>>
    BY <1>8 DEF Answered
  <2> DEFINE st == ExecBatch(batch, hr)
  <2>3. /\ st \in States
        /\ ~st.err => \A h \in Handles :
                        \/ AgreesOn(st.surfs, h)
                        \/ /\ \A i \in DOMAIN batch : ~Places(batch[i], h)
                           /\ SameOn(st.surfs, surfs, h)
    <3>1. \A i \in DOMAIN batch : InKeeping(batch[i])
      BY <1>3 DEF IInv, Told, Range
    <3> QED
      BY <1>2, <3>1, ExecBatchIs
  <2>4. /\ surfs' = st.surfs /\ slot' = st.slot /\ failed' = (failed \/ st.err)
        /\ unseen' = (unseen \cup Range(st.wrote)) \ Covered(DirtyRanges(st.wrote))
    BY <2>1
  <2> HIDE DEF st
  <2>5. st.surfs \in SurfMaps /\ st.wrote \in Seq(Addrs) /\ st.slot \in Answers
        /\ st.err \in BOOLEAN
    BY <2>3 DEF States
  <2>6. Range(st.wrote) \subseteq Covered(DirtyRanges(st.wrote))
    BY <2>5, DirtyCovers
  <2>7. unseen = {}
    BY <2>2 DEF IInv, NothingUnseen
  <2>8. unseen' = {}
    BY <2>4, <2>6, <2>7
  <2>9. Settled'
    <3> SUFFICES ASSUME ~failed, ~st.err, NEW h \in Handles,
                        \A r \in Outstanding' : ~Places(r, h)
                 PROVE  AgreesOn(surfs, h)'
      BY <2>4 DEF Settled
    <3>1. CASE AgreesOn(st.surfs, h)
      BY <1>1, <2>4, <3>1 DEF AgreesOn, Known, Live
    <3>2. CASE /\ \A i \in DOMAIN batch : ~Places(batch[i], h)
               /\ SameOn(st.surfs, surfs, h)
      <4>1. \A r \in Outstanding : ~Places(r, h)
        BY <1>3, <3>2 DEF Outstanding, Range
      <4>2. AgreesOn(surfs, h)
        BY <2>2, <4>1 DEF IInv, Settled
      <4>3. AgreesOn(st.surfs, h)
        BY <3>2, <4>2 DEF AgreesOn, SameOn
      <4> QED
        BY <1>1, <2>4, <4>3 DEF AgreesOn, Known, Live
    <3> QED
      BY <2>3, <3>1, <3>2
  <2>10. NothingUnseen' /\ failed' \in BOOLEAN
    BY <2>4, <2>5, <2>8 DEF NothingUnseen, IInv, WindowTypeOK
  <2>11. exec' \in {"up", "gone"} /\ mapped' \in BOOLEAN /\ unseen' \subseteq Addrs
    BY <2>2, <2>8
  <2> QED
    BY <1>5, <2>2, <2>4, <2>5, <2>9, <2>10, <2>11
<1> QED
  BY <1>6, <1>7, <1>8 DEF Flush

(* After a restart both sides have forgotten everything.                      *)
LEMMA MachineResetInv ==
  ASSUME IInv, MachineReset
  PROVE  IInv'
<1>1. /\ surfs' = <<>> /\ alloc' = [h \in Handles |-> New] /\ rel' = {} /\ rel_lost' = {}
      /\ cmds' = <<>> /\ asking' = FALSE /\ todo' = <<>> /\ batch' = <<>> /\ failed' = FALSE
      /\ UNCHANGED <<res, slot, exec, mapped, has_vram, unseen>>
  BY DEF MachineReset
<1>2. alloc' \in [Handles -> [life : {"new", "live", "gone"}, cur : Addrs \cup {Nowhere},
                              host : Addrs \cup {Nowhere}]]
  BY <1>1 DEF New
<1>3. WindowTypeOK'
  <2>1. Cardinality(rel') <= MaxRel
    BY <1>1, FS_EmptySet, WindowAssumption
  <2>2. cmds' \in Seq(Uses) /\ Len(cmds') <= MaxCmds /\ todo' \in Seq(Records)
        /\ batch' \in Seq(Records) /\ Len(batch') <= MaxBatch
    BY <1>1, EmptySeq, WindowAssumption
  <2>3. DOMAIN surfs' \subseteq Handles /\ Range(surfs') \subseteq Addrs
    BY <1>1, NoSurfs
  <2> QED
    BY <1>1, <1>2, <2>1, <2>2, <2>3 DEF IInv, WindowTypeOK
<1>4. Known' = {} /\ Outstanding' = {}
  BY <1>1 DEF Known, Outstanding, Range, New, Mirrored
<1>5. Lives' /\ Told' /\ Placed' /\ Settled' /\ NothingUnseen' /\ IsFiniteSet(rel') /\ surfs' \in SurfMaps
  BY <1>1, <1>4, FS_EmptySet, NoSurfs
     DEF Lives, New, Told, Placed, Settled, AgreesOn, NothingUnseen, IInv
<1> QED
  BY <1>3, <1>5 DEF IInv

(* Every step keeps the invariant.                                            *)
LEMMA NextInv == IInv /\ [WindowNext]_windowVars => IInv'
<1> SUFFICES ASSUME IInv, [WindowNext]_windowVars PROVE IInv'
  OBVIOUS
<1>1. CASE UNCHANGED windowVars
  <2>1. UNCHANGED <<alloc, rel, rel_lost, cmds, asking, res, todo, batch, slot, exec, mapped,
                    has_vram, surfs, unseen, failed>>
    BY <1>1 DEF windowVars, guestVars, execVars
  <2>2. SameView
    BY <2>1 DEF SameView, Known, Live, Outstanding
  <2> QED
    BY <2>1, <2>2, SameViewKeeps DEF IInv, WindowTypeOK, Lives, Live, NothingUnseen
<1>2. CASE WindowNext
  BY <1>2, CreateInv, DestroyInv, MoveInv, RecordInv, SubmissionInv, TakeResultInv, PutInv,
     FlushInv, MachineResetInv DEF WindowNext
<1> QED
  BY <1>1, <1>2

(* It holds of every behaviour.                                               *)
LEMMA Invariant == WindowSpec => []IInv
  BY InitInv, NextInv, PTL DEF WindowSpec

-----------------------------------------------------------------------------
(* What it means for the program                                             *)

(* Every variable has its type; the window and the release queue, their       *)
(* lengths.                                                                   *)
THEOREM WindowTypeCorrect == WindowSpec => []WindowTypeOK
<1>1. IInv => WindowTypeOK
  BY DEF IInv
<1> QED
  BY <1>1, Invariant, PTL

(* Whatever is on its way to the host is about allocations that, if they are  *)
(* in VRAM, are where the host was last told; and between submissions the     *)
(* host knows just the allocations the driver thinks it knows, each where the *)
(* driver thinks, whatever moved, left VRAM, was destroyed in the middle of a *)
(* submission or was split over window-full flushes, unless the host refused  *)
(* a batch or its process is gone, and but for the formats it does not        *)
(* mirror, of which it knows none.                                            *)
THEOREM HostKnowsWhatTheDriverThinks == WindowSpec => []HostAgrees
<1>1. ASSUME IInv PROVE HostAgrees
  <2>1. ASSUME Idle, exec = "up", ~failed
        PROVE  surfs = [h \in Known |-> alloc[h].host]
    <3>1. \A h \in Handles : AgreesOn(surfs, h)
      BY <1>1, <2>1 DEF IInv, Settled, Idle, Outstanding, Range
    <3>2. DOMAIN surfs = Known /\ \A h \in Known : surfs[h] = alloc[h].host
      BY <1>1, <3>1 DEF IInv, WindowTypeOK, AgreesOn, Known, Mirrored
    <3>3. surfs = [h \in DOMAIN surfs |-> surfs[h]]
      BY <1>1, SurfMapsAre DEF IInv
    <3> QED
      BY <3>2, <3>3
  <2>2. \A r \in Range(todo) \cup Range(batch) :
          r \in Uses => alloc[r.h].cur \in {Nowhere, alloc[r.h].host}
    BY <1>1 DEF IInv, Placed, Outstanding
  <2> QED
    BY <2>1, <2>2 DEF HostAgrees, Known
<1> QED
  BY <1>1, Invariant, PTL

(* However many writes a batch has and however few ranges a reply carries,    *)
(* the scanout is told of every byte the executor wrote.                      *)
THEOREM WritesAreSeen == WindowSpec => []NothingUnseen
<1>1. IInv => NothingUnseen
  BY DEF IInv
<1> QED
  BY <1>1, Invariant, PTL

-----------------------------------------------------------------------------
(* The query whose answer is taken                                           *)

(* A query's record is the last of what is on its way, until its answer is    *)
(* in the result allocation.                                                  *)
Asked ==
  asking /\ exec = "up" /\ ~failed =>
    \/ todo # <<>> /\ Last(todo) = Get(TRUE)
    \/ todo = <<>> /\ batch # <<>> /\ Last(batch) = Get(TRUE)
    \/ Idle /\ res.own

(* A batch that ends with a query and meets no error leaves its own answer.   *)
LEMMA BatchAnswers ==
  ASSUME NEW records \in Seq(Records), NEW hr \in {"ok", "later"}, records # <<>>,
         Last(records).op = "get", ~ExecBatch(records, hr).err,
         surfs \in SurfMaps, slot \in Answers
  PROVE  ExecBatch(records, hr).slot = [hr |-> hr, own |-> TRUE]
<1>1. Len(records) \in Nat \ {0} /\ Last(records) = records[Len(records)]
  BY EmptySeq DEF Last
<1>2. PICK f : /\ f[0] = Start
               /\ \A n \in 1..Len(records) : f[n] = ExecOne(f[n - 1], records[n], hr)
               /\ ExecBatch(records, hr) = f[Len(records)]
  BY <1>1, ExecRun
<1> DEFINE st == f[Len(records) - 1]
           r == records[Len(records)]
<1>3. ExecBatch(records, hr) = ExecOne(st, r, hr) /\ r.op = "get"
  BY <1>1, <1>2
<1> HIDE DEF st, r
<1>4. ~st.err
  BY <1>3 DEF ExecOne
<1>5. ExecOne(st, r, hr) = [st EXCEPT !.slot = [hr |-> hr, own |-> TRUE]]
  BY <1>3, <1>4 DEF ExecOne
<1>6. "slot" \in DOMAIN ExecBatch(records, hr)
  <2>1. ExecBatch(records, hr) \in States
    BY ExecBatchIs
  <2> QED
    BY <2>1 DEF States
<1>7. "slot" \in DOMAIN st
  BY <1>3, <1>5, <1>6
<1> QED
  BY <1>3, <1>5, <1>7

(* What a submission with a query at its end leaves to be put into the        *)
(* window ends with the query.                                                *)
LEMMA SubmitAsks ==
  ASSUME IInv, NEW list, list \subseteq Live, IsFiniteSet(list),
         NEW records \in Seq(Records), \A i \in DOMAIN records : records[i].op \notin Placing,
         \A i \in DOMAIN records : records[i] \in Uses => records[i].h \in list,
         records # <<>>, Last(records) = Get(TRUE), Submit(list, records)
  PROVE  todo' # <<>> /\ Last(todo') = Get(TRUE)
<1>1. PICK front \in Seq(Records) : todo' = front \o records
  BY SubmitKeeps
<1>2. Len(records) \in Nat \ {0} /\ Len(front) \in Nat
  BY EmptySeq
<1>3. /\ todo' \in Seq(Records) /\ Len(todo') = Len(front) + Len(records)
      /\ todo'[Len(front) + Len(records)] = records[Len(records)]
  BY <1>1, <1>2, ConcatProperties
<1> QED
  BY <1>2, <1>3, EmptySeq DEF Last

(* With no buffer that ends between a query and the record that has it        *)
(* copied, no step loses the query.                                           *)
LEMMA AskedKept ==
  ASSUME ~Splits, IInv, Asked, [WindowNext]_windowVars
  PROVE  Asked'
<1> USE DEF Asked
<1>0. todo \in Seq(Records) /\ batch \in Seq(Records) /\ cmds \in Seq(Records)
  <2>1. \A u \in Uses : u \in Records
    BY DEF Records
  <2> QED
    BY <2>1 DEF IInv, WindowTypeOK
<1>1. ASSUME UNCHANGED <<asking, res, todo, batch, exec, failed>> PROVE Asked'
  BY <1>1 DEF Idle
<1>2. CASE UNCHANGED windowVars
  BY <1>1, <1>2 DEF windowVars, guestVars, execVars
<1>3. CASE \E h \in Handles : Create(h) \/ Destroy(h) \/ \E a \in Addrs \cup {Nowhere} : Move(h, a)
  BY <1>1, <1>3 DEF Destroy, Create, Move, execVars
<1>4. CASE \E use \in Uses : Record(use)
  BY <1>1, <1>4 DEF Record, execVars
<1>5. CASE CmdFlush \/ TakeResult \/ MachineReset
  BY <1>5 DEF CmdFlush, TakeResult, MachineReset
<1>6. CASE GetQueryData
  <2>1. PICK copied \in Copies : Submit(List, Append(cmds, Get(copied)))
    BY <1>6 DEF GetQueryData
  <2> DEFINE s == Append(cmds, Get(TRUE))
  <2>2. Submit(List, s)
    BY <2>1 DEF Copies
  <2>3. Get(TRUE) \in Records /\ Get(TRUE).op \notin Placing /\ Get(TRUE) \notin Uses
    BY DEF Get, Records, Gets, Placing, Uses
  <2>4. s \in Seq(Records) /\ Len(s) = Len(cmds) + 1 /\ s[Len(cmds) + 1] = Get(TRUE)
        /\ \A i \in 1..Len(cmds) : s[i] = cmds[i]
    <3>1. cmds \in Seq(Records)
      BY <1>0
    <3>2. \A e \in Records :
            /\ Append(cmds, e) \in Seq(Records) /\ Len(Append(cmds, e)) = Len(cmds) + 1
            /\ Append(cmds, e)[Len(cmds) + 1] = e
            /\ \A i \in 1..Len(cmds) : Append(cmds, e)[i] = cmds[i]
      BY <3>1, AppendProperties
    <3> QED
      BY <2>3, <3>2
  <2>5. \A i \in 1..Len(cmds) : cmds[i].op \notin Placing /\ cmds[i].h \in List
    <3>1. cmds \in Seq(Uses)
      BY DEF IInv, WindowTypeOK
    <3>2. \A u \in Uses : u.op \notin Placing
      BY DEF Uses, Placing
    <3> QED
      BY <3>1, <3>2 DEF List
  <2> HIDE DEF s
  <2>6. s # <<>> /\ Last(s) = Get(TRUE)
        /\ (\A i \in DOMAIN s : s[i].op \notin Placing)
        /\ \A i \in DOMAIN s : s[i] \in Uses => s[i].h \in List
    <3>1. Len(cmds) \in Nat /\ DOMAIN s = 1..(Len(cmds) + 1)
      BY <1>0, <2>4
    <3>2. \A i \in DOMAIN s : s[i].op \notin Placing /\ (s[i] \in Uses => s[i].h \in List)
      <4> SUFFICES ASSUME NEW i \in 1..(Len(cmds) + 1)
                   PROVE  s[i].op \notin Placing /\ (s[i] \in Uses => s[i].h \in List)
        BY <3>1
      <4>1. i = Len(cmds) + 1 \/ i \in 1..Len(cmds)
        BY <3>1
      <4> QED
        BY <2>3, <2>4, <2>5, <4>1
    <3> QED
      BY <2>4, <3>1, <3>2, EmptySeq DEF Last
  <2> QED
    BY <2>2, <2>4, <2>6, ListIs, SubmitAsks
<1>7. CASE AskAgain
  <2>1. Submit({}, <<Get(TRUE)>>)
    BY <1>7 DEF AskAgain, Copies
  <2>2. <<Get(TRUE)>> \in Seq(Records) /\ <<Get(TRUE)>> # <<>> /\ Last(<<Get(TRUE)>>) = Get(TRUE)
        /\ \A i \in DOMAIN <<Get(TRUE)>> :
             <<Get(TRUE)>>[i].op \notin Placing /\ <<Get(TRUE)>>[i] \notin Uses
    BY DEF Get, Records, Gets, Placing, Uses, Last
  <2>3. {} \subseteq Live /\ IsFiniteSet({})
    BY FS_EmptySet
  <2> QED
    BY <2>1, <2>2, <2>3, SubmitAsks
<1>8. CASE Put
  <2>1. /\ todo # <<>> /\ batch' = Append(batch, Head(todo)) /\ todo' = Tail(todo)
        /\ UNCHANGED <<asking, res, exec, failed>>
    BY <1>8 DEF Put, guestVars, execVars
  <2>2. SUFFICES ASSUME Last(todo) = Get(TRUE)
                 PROVE  \/ todo' # <<>> /\ Last(todo') = Get(TRUE)
                        \/ todo' = <<>> /\ batch' # <<>> /\ Last(batch') = Get(TRUE)
    BY <2>1 DEF Idle
  <2>3. /\ Head(todo) = todo[1] /\ Tail(todo) \in Seq(Records)
        /\ Len(todo) \in Nat \ {0} /\ Len(Tail(todo)) = Len(todo) - 1
        /\ \A i \in 1..Len(Tail(todo)) : Tail(todo)[i] = todo[i + 1]
    BY <1>0, <2>1, HeadTailProperties, EmptySeq
  <2>4. /\ batch' \in Seq(Records) /\ Len(batch') = Len(batch) + 1 /\ Len(batch) \in Nat
        /\ batch'[Len(batch) + 1] = Head(todo)
    <3>1. Head(todo) \in Records
      BY <1>0, <2>1, HeadTailProperties
    <3> QED
      BY <1>0, <2>1, <3>1, AppendProperties
  <2>5. CASE Len(todo) = 1
    <3>1. todo' = <<>> /\ Last(todo) = Head(todo)
      BY <2>1, <2>3, <2>5, EmptySeq DEF Last
    <3>2. batch' # <<>> /\ Last(batch') = Head(todo)
      BY <2>4, EmptySeq DEF Last
    <3> QED
      BY <2>2, <3>1, <3>2
  <2>6. CASE Len(todo) # 1
    <3>1. Len(Tail(todo)) \in 1..Len(Tail(todo)) /\ Len(Tail(todo)) + 1 = Len(todo)
      BY <2>3, <2>6
    <3>2. todo' # <<>> /\ Last(todo') = todo[Len(todo)]
      <4>1. Last(Tail(todo)) = Tail(todo)[Len(Tail(todo))]
        BY DEF Last
      <4> QED
        BY <2>1, <2>3, <3>1, <4>1, EmptySeq
    <3> QED
      BY <2>2, <3>2 DEF Last
  <2> QED
    BY <2>5, <2>6
<1>9. CASE Flush
  <2>1. /\ batch # <<>> /\ batch' = <<>> /\ res' = (IF AwaitsCopy THEN slot' ELSE res)
        /\ UNCHANGED <<asking, todo>>
    BY <1>9 DEF Flush, guestVars
  <2>2. SUFFICES ASSUME asking, exec' = "up", ~failed', todo = <<>> PROVE res'.own
    <3>1. todo # <<>> /\ exec = "up" /\ ~failed /\ asking => Last(todo) = Get(TRUE)
      BY DEF Idle
    <3>2. exec' = "up" /\ ~failed' => exec = "up" /\ ~failed
      BY <1>9 DEF Flush, CallFails, ProcessDies, Answered
    <3> QED
      BY <2>1, <3>1, <3>2 DEF Idle
  <2>3. Answered
    BY <1>9, <2>2 DEF Flush, CallFails, ProcessDies
  <2>4. PICK hr \in {"ok", "later"} : /\ slot' = ExecBatch(batch, hr).slot
                                      /\ failed' = (failed \/ ExecBatch(batch, hr).err)
    BY <2>3 DEF Answered
  <2>5. exec = "up" /\ ~failed
    BY <2>2, <2>3, <2>4 DEF Answered
  <2>6. Last(batch) = Get(TRUE)
    BY <2>1, <2>2, <2>5 DEF Idle
  <2>7. slot' = [hr |-> hr, own |-> TRUE]
    <3>1. Last(batch).op = "get" /\ surfs \in SurfMaps /\ slot \in Answers
      BY <2>6 DEF Get, IInv, WindowTypeOK
    <3> QED
      BY <1>0, <2>1, <2>2, <2>4, <3>1, BatchAnswers
  <2>8. AwaitsCopy
    BY <2>1, <2>6 DEF AwaitsCopy, Get
  <2> QED
    BY <2>1, <2>7, <2>8
<1> QED
  BY <1>2, <1>3, <1>4, <1>5, <1>6, <1>7, <1>8, <1>9 DEF WindowNext

(* A query's answer is never another's while the host refuses no batch and    *)
(* no command buffer ends between the query's record and the one that has it  *)
(* copied: those two, and the process's death, are all that can make the      *)
(* driver take an old answer for a new one.                                   *)
THEOREM AnswerIsOwnUnlessRefused ==
  ASSUME ~Splits
  PROVE  WindowSpec => [][TakeResult /\ exec = "up" /\ ~failed => res.own]_windowVars
<1>1. WindowInit => Asked
  BY DEF WindowInit, Asked
<1>2. IInv /\ Asked /\ [WindowNext]_windowVars => Asked'
  BY AskedKept
<1>3. Asked /\ [WindowNext]_windowVars
      => [TakeResult /\ exec = "up" /\ ~failed => res.own]_windowVars
  BY DEF Asked, TakeResult, Idle
<1> QED
  BY <1>1, <1>2, <1>3, Invariant, PTL DEF WindowSpec
=============================================================================
