--------------------------- MODULE AudioRingProof ---------------------------
(* What holds of the sound's ring for any size, burst, cushion and callback:  *)
(* the two threads that share it without a lock never touch the same frame,   *)
(* and what is heard is what the guest played, in order.                      *)
EXTENDS AudioRing, TLAPS

(* The inductive invariant, in parts. The buffer handed out lies in the free  *)
(* part of the ring, below its end, and is charged to what is owed and held.  *)
HandedOut ==
  /\ ppc = "put" => pending \in 1..Least(live, owed)
  /\ ppc = "put" /\ ~pending_drop => wr + pending <= RingFrames

(* It holds the frames that follow the last one delivered.                    *)
HoldsNext ==
  ppc = "put" /\ ~pending_drop =>
    \A i \in wr..(wr + pending - 1) : buf[i] = made - live + 1 + (i - wr)

(* The clock bounds what was delivered and what is owed on top of it.         *)
Paced == live <= made /\ made - live + owed <= clock

(* What a callback skips and pops is there.                                   *)
CallbackHas ==
  /\ cpc = "idle" => excess = 0
  /\ cpc = "copy" => chunk <= Fill /\ chunk <= want

IInv == /\ TypeOK /\ HandedOut /\ HandedOutIsFree /\ HoldsNext
        /\ Paced /\ NeverAhead /\ CallbackHas /\ SkipLeavesCushion

-----------------------------------------------------------------------------
(* The ring's arithmetic                                                     *)

(* Indices stay in the ring.                                                  *)
LEMMA WrapInRing ==
  ASSUME NEW i \in 0..(RingFrames - 1), NEW n \in 0..RingFrames
  PROVE  Wrap(i + n) \in 0..(RingFrames - 1)
  BY RingAssumption DEF Wrap

(* The fill is below the ring's size, whatever the indices.                   *)
LEMMA FillInRing ==
  ASSUME wr \in 0..(RingFrames - 1), rd \in 0..(RingFrames - 1)
  PROVE  Fill \in 0..(RingFrames - 1)
  BY RingAssumption DEF Fill

(* The reader takes n of what there is.                                       *)
LEMMA ReadLessens ==
  ASSUME wr \in 0..(RingFrames - 1), rd \in 0..(RingFrames - 1),
         NEW n \in 0..Fill, rd' = Wrap(rd + n), wr' = wr
  PROVE  rd' \in 0..(RingFrames - 1) /\ Fill' = Fill - n
  BY RingAssumption DEF Fill, Wrap

(* The writer adds n to it, where there is room.                              *)
LEMMA WriteAdds ==
  ASSUME wr \in 0..(RingFrames - 1), rd \in 0..(RingFrames - 1),
         NEW n \in Nat, n + Fill < RingFrames, wr' = Wrap(wr + n), rd' = rd
  PROVE  wr' \in 0..(RingFrames - 1) /\ Fill' = Fill + n
  BY RingAssumption DEF Fill, Wrap

(* Every frame that waits lies outside the part that may be handed out.       *)
LEMMA UnreadIsElsewhere ==
  ASSUME wr \in 0..(RingFrames - 1), rd \in 0..(RingFrames - 1),
         NEW n \in Nat, n + Fill < RingFrames, NEW i \in 1..Fill
  PROVE  /\ Wrap(rd + i - 1) \in 0..(RingFrames - 1)
         /\ ~(wr <= Wrap(rd + i - 1) /\ Wrap(rd + i - 1) < wr + n)
  BY RingAssumption DEF Fill, Wrap

(* What get_buffer_out hands out.                                             *)
LEMMA RoomIsFree ==
  ASSUME TypeOK
  PROVE  /\ Room \in Nat /\ Room <= live /\ Room <= owed
         /\ wr + Room <= RingFrames /\ Room + Fill < RingFrames
  BY FillInRing, RingAssumption, PaceAssumption DEF TypeOK, Room, Free, Least

-----------------------------------------------------------------------------
(* The invariant                                                             *)

(* An empty ring: nothing handed out, nothing owed.                           *)
LEMMA InitInv == Init => IInv
<1> SUFFICES ASSUME Init PROVE IInv
  OBVIOUS
<1>1. Fill = 0
  BY RingAssumption DEF Init, Fill
<1>2. TypeOK
  <2>1. buf \in [0..(RingFrames - 1) -> Nat]
    BY DEF Init
  <2>2. wr \in 0..(RingFrames - 1) /\ rd \in 0..(RingFrames - 1)
    BY RingAssumption DEF Init
  <2>3. owed \in 0..Cap /\ live \in 0..Burst /\ clock \in 0..MaxClock
    BY PaceAssumption, BoundAssumption DEF Init
  <2> QED
    BY <2>1, <2>2, <2>3 DEF Init, TypeOK
<1> QED
  BY <1>1, <1>2 DEF Init, IInv, HandedOut, HandedOutIsFree, HoldsNext, Paced, NeverAhead,
    CallbackHas, SkipLeavesCushion

(* Every call of the mixer and every load of the callback keeps it.           *)
LEMMA NextInv == IInv /\ [Next]_vars => IInv'
<1> SUFFICES ASSUME IInv, [Next]_vars PROVE IInv'
  OBVIOUS
<1> USE RingAssumption, PaceAssumption, BoundAssumption, ConsumerAssumption DEF IInv
<1>0. Fill \in 0..(RingFrames - 1)
  BY FillInRing DEF TypeOK
<1>1. ASSUME UNCHANGED <<buf, producerVars, consumerVars>> PROVE IInv'
  BY <1>1 DEF vars, producerVars, consumerVars, TypeOK, HandedOut, HandedOutIsFree, HoldsNext,
    Paced, NeverAhead, CallbackHas, SkipLeavesCushion, Fill, Least
<1>2. ASSUME Devices \/ MixerRuns \/ NothingOwed PROVE IInv'
  <2>1. UNCHANGED <<buf, wr, pending, pending_drop, consumerVars>>
        /\ ppc' # "put" /\ ppc # "put" /\ Fill' = Fill
    BY <1>2 DEF Devices, MixerRuns, NothingOwed, StreamBegins, StreamEnds, DeviceWrites,
      consumerVars, Fill
  <2>2. owed' \in 0..Cap /\ clock' \in 0..MaxClock /\ live' \in 0..Burst /\ made' \in Nat
        /\ enabled' \in BOOLEAN /\ ppc' \in {"idle", "get"}
        /\ Paced' /\ NeverAhead'
    <3>1. CASE StreamBegins \/ StreamEnds \/ NothingOwed
      <4>1. (owed' = 0 \/ owed' = owed) /\ clock' = clock /\ live' = live /\ made' = made
            /\ enabled' \in BOOLEAN /\ ppc' \in {"idle", "get"}
        BY <3>1 DEF StreamBegins, StreamEnds, NothingOwed, TypeOK
      <4>2. owed \in Nat /\ live \in Nat /\ clock \in Nat /\ made \in Nat
        BY DEF TypeOK
      <4>3. owed' \in 0..Cap /\ clock' \in 0..MaxClock /\ live' \in 0..Burst /\ made' \in Nat
        BY <4>1 DEF TypeOK
      <4>4. Paced'
        BY <4>1, <4>2 DEF Paced
      <4> QED
        BY <4>1, <4>3, <4>4 DEF NeverAhead
    <3>2. CASE DeviceWrites \/ MixerRuns
      <4>1. PICK c \in 0..MaxTick : /\ clock + c <= MaxClock /\ clock' = clock + c
                                    /\ owed' = Least(owed + c, Cap)
        BY <3>2 DEF DeviceWrites, MixerRuns, Tick
      <4>2. owed' \in 0..Cap /\ owed' <= owed + c /\ clock' \in 0..MaxClock
        BY <4>1 DEF TypeOK, Least
      <4>3. CASE DeviceWrites
        BY <4>1, <4>2, <4>3 DEF DeviceWrites, TypeOK, Paced, NeverAhead, Least
      <4>4. CASE MixerRuns
        BY <4>1, <4>2, <4>4 DEF MixerRuns, TypeOK, Paced, NeverAhead
      <4> QED
        BY <3>2, <4>3, <4>4
    <3> QED
      BY <1>2, <3>1, <3>2 DEF Devices
  <2>3. TypeOK'
    BY <2>1, <2>2 DEF TypeOK, consumerVars
  <2> QED
    BY <2>1, <2>2, <2>3 DEF HandedOut, HandedOutIsFree, HoldsNext, CallbackHas,
      SkipLeavesCushion, consumerVars
<1>3. ASSUME GetBuffer PROVE IInv'
  <2>1. Fill' = Fill
    BY <1>3 DEF GetBuffer, Fill, consumerVars
  <2>2. TypeOK'
    <3>1. buf' \in [0..(RingFrames - 1) -> Nat]
      BY <1>3, RoomIsFree DEF GetBuffer, TypeOK, Paced
    <3> QED
      BY <1>3, <3>1, RoomIsFree DEF GetBuffer, TypeOK, consumerVars
  <2>3. HandedOut' /\ HandedOutIsFree'
    BY <1>3, <2>1, RoomIsFree DEF GetBuffer, HandedOut, HandedOutIsFree, TypeOK, Least,
      consumerVars
  <2>4. HoldsNext'
    <3> SUFFICES ASSUME NEW i \in wr..(wr + Room - 1)
                 PROVE  buf'[i] = made - live + 1 + (i - wr)
      BY <1>3 DEF GetBuffer, HoldsNext
    <3>0. Room \in Nat /\ wr + Room <= RingFrames
      BY RoomIsFree
    <3>1. i \in 0..(RingFrames - 1) /\ wr <= i /\ i < wr + Room
      BY <3>0 DEF TypeOK
    <3>2. DOMAIN buf = 0..(RingFrames - 1)
      BY DEF TypeOK
    <3> QED
      BY <1>3, <3>1, <3>2 DEF GetBuffer
  <2> QED
    BY <1>3, <2>1, <2>2, <2>3, <2>4 DEF GetBuffer, Paced, NeverAhead, CallbackHas,
      SkipLeavesCushion, consumerVars
<1>4. ASSUME GetScratch PROVE IInv'
  <2>1. Fill' = Fill
    BY <1>4 DEF GetScratch, Fill, consumerVars
  <2> QED
    BY <1>4, <2>1 DEF GetScratch, TypeOK, HandedOut, HandedOutIsFree, HoldsNext, Paced,
      NeverAhead, CallbackHas, SkipLeavesCushion, consumerVars, Least
<1>5. ASSUME PutBuffer PROVE IInv'
  <2>1. wr' \in 0..(RingFrames - 1) /\ Fill' \in Nat /\ Fill' >= Fill
    <3>1. CASE pending_drop
      BY <1>5, <3>1, <1>0 DEF PutBuffer, Fill, TypeOK, consumerVars
    <3>2. CASE ~pending_drop
      BY <1>5, <3>2, <1>0, WriteAdds DEF PutBuffer, HandedOutIsFree, TypeOK, consumerVars
    <3> QED
      BY <3>1, <3>2 DEF TypeOK
  <2>2. pending <= live /\ pending <= owed
    BY <1>5 DEF PutBuffer, HandedOut, TypeOK, Least
  <2>3. TypeOK'
    BY <1>5, <2>1, <2>2 DEF PutBuffer, TypeOK, Charged, consumerVars
  <2>4. Paced' /\ NeverAhead'
    BY <1>5, <2>2 DEF PutBuffer, Paced, NeverAhead, TypeOK, Charged, consumerVars
  <2>5. CallbackHas' /\ SkipLeavesCushion'
    BY <1>5, <1>0, <2>1 DEF PutBuffer, CallbackHas, SkipLeavesCushion, TypeOK, consumerVars
  <2> QED
    BY <1>5, <2>3, <2>4, <2>5 DEF PutBuffer, HandedOut, HandedOutIsFree, HoldsNext
<1>6. ASSUME FillWaits \/ FillPlays \/ FillExceeds \/ DeviceAsks PROVE IInv'
  <2>1. Fill' = Fill /\ UNCHANGED <<buf, producerVars, rd, chunk>>
    BY <1>6 DEF FillWaits, FillPlays, FillExceeds, DeviceAsks, Fill, producerVars
  <2>2. TypeOK'
    <3>1. want' \in Periods /\ playing' \in BOOLEAN /\ cpc' \in {"idle", "skip", "pop", "copy"}
      BY <1>6 DEF FillWaits, FillPlays, FillExceeds, DeviceAsks, TypeOK
    <3>2. excess' \in Nat
      BY <1>0, <1>6 DEF FillWaits, FillPlays, FillExceeds, DeviceAsks, TypeOK, Keeps
    <3> QED
      BY <2>1, <3>1, <3>2 DEF TypeOK, producerVars
  <2>3. CallbackHas' /\ SkipLeavesCushion'
    BY <1>0, <1>6, <2>1 DEF TypeOK, CallbackHas, SkipLeavesCushion, FillWaits, FillPlays,
      FillExceeds, DeviceAsks, Keeps, producerVars
  <2> QED
    BY <2>1, <2>2, <2>3 DEF HandedOut, HandedOutIsFree, HoldsNext, Paced, NeverAhead,
      producerVars
<1>7. ASSUME FillSkips PROVE IInv'
  <2>1. Least(excess, Fill) = excess /\ excess \in 0..Fill
    BY <1>0, <1>7 DEF FillSkips, SkipLeavesCushion, TypeOK, Least
  <2>2. rd' \in 0..(RingFrames - 1) /\ Fill' = Fill - excess
    BY <1>7, <2>1, ReadLessens DEF FillSkips, TypeOK, producerVars
  <2> QED
    BY <1>0, <1>7, <2>1, <2>2 DEF FillSkips, TypeOK, HandedOut, HandedOutIsFree, HoldsNext,
      Paced, NeverAhead, CallbackHas, SkipLeavesCushion, producerVars
<1>8. ASSUME PopLoads PROVE IInv'
  <2>1. Fill' = Fill
    BY <1>8 DEF PopLoads, Fill, producerVars
  <2> QED
    BY <1>0, <1>8, <2>1 DEF PopLoads, TypeOK, HandedOut, HandedOutIsFree, HoldsNext, Paced,
      NeverAhead, CallbackHas, SkipLeavesCushion, producerVars, Least
<1>9. ASSUME PopStores PROVE IInv'
  <2>1. rd' \in 0..(RingFrames - 1) /\ Fill' = Fill - chunk /\ chunk \in 0..Fill
    BY <1>0, <1>9, ReadLessens DEF PopStores, CallbackHas, TypeOK, producerVars
  <2> QED
    BY <1>0, <1>9, <2>1 DEF PopStores, TypeOK, HandedOut, HandedOutIsFree, HoldsNext, Paced,
      NeverAhead, CallbackHas, SkipLeavesCushion, producerVars
<1> QED
  BY <1>1, <1>2, <1>3, <1>4, <1>5, <1>6, <1>7, <1>8, <1>9
  DEF Next, Mixer, Consumer, vars

(* It holds of every behaviour.                                               *)
LEMMA Invariant == Spec => []IInv
<1> QED
  BY InitInv, NextInv, PTL DEF Spec

(* The values of the ring, its threads and its clock, whatever the sizes.     *)
THEOREM TypeCorrect == Spec => []TypeOK
<1>1. IInv => TypeOK
  BY DEF IInv
<1> QED
  BY <1>1, Invariant, PTL

(* The callback may move rd as it likes between get_buffer_out and            *)
(* put_buffer_out: the buffer handed out stays out of its reach.              *)
THEOREM HandedOutStaysFree == Spec => []HandedOutIsFree
<1>1. IInv => HandedOutIsFree
  BY DEF IInv
<1> QED
  BY <1>1, Invariant, PTL

(* The guest's devices deliver no more than its clock has played.             *)
THEOREM GuestKeepsTime == Spec => []NeverAhead
<1>1. IInv => NeverAhead
  BY DEF IInv
<1> QED
  BY <1>1, Invariant, PTL

(* A skip leaves what a stream starts with, whatever the producer does        *)
(* between the look at the fill and the pop.                                  *)
THEOREM SkipIsSafe == Spec => []SkipLeavesCushion
<1>1. IInv => SkipLeavesCushion
  BY DEF IInv
<1> QED
  BY <1>1, Invariant, PTL

-----------------------------------------------------------------------------
(* The ring implements the abstract stream                                   *)

(* The empty ring is the empty stream.                                        *)
LEMMA InitStream == Init => Stream!Init
<1> SUFFICES ASSUME Init PROVE Stream!Init
  OBVIOUS
<1>1. Fill = 0
  BY RingAssumption DEF Init, Fill
<1> QED
  BY <1>1 DEF Init, Stream!Init, Unread

(* Nothing waits anywhere else, and in the same frames: the stream stutters.  *)
LEMMA StreamStutters ==
  ASSUME wr' = wr, rd' = rd, out' = out, made' - live' = made - live,
         \A i \in 1..Fill : buf'[Wrap(rd + i - 1)] = buf[Wrap(rd + i - 1)]
  PROVE  UNCHANGED Stream!vars
<1>1. Fill' = Fill
  BY DEF Fill
<1>2. Unread' = Unread
  BY <1>1 DEF Unread, Wrap
<1> QED
  BY <1>1, <1>2 DEF Stream!vars

(* The reader took n of what waited.                                          *)
LEMMA StreamLeaves ==
  ASSUME wr \in 0..(RingFrames - 1), rd \in 0..(RingFrames - 1),
         NEW n \in 0..Fill, rd' = Wrap(rd + n), wr' = wr, UNCHANGED <<buf, made, live>>
  PROVE  Stream!Leave(n)
<1>1. Fill' = Fill - n /\ Fill \in Nat
  BY ReadLessens, FillInRing
<1>2. \A i \in 1..(Fill - n) : Wrap(rd' + i - 1) = Wrap(rd + (i + n) - 1)
  BY RingAssumption DEF Wrap, Fill
<1>3. Unread' = [i \in 1..(Fill - n) |-> Unread[i + n]]
  <2>1. Unread' = [i \in 1..(Fill - n) |-> buf[Wrap(rd' + i - 1)]]
    BY <1>1 DEF Unread, Wrap
  <2>2. \A i \in 1..(Fill - n) : Unread[i + n] = buf[Wrap(rd + (i + n) - 1)]
    BY <1>1 DEF Unread
  <2> QED
    BY <1>2, <2>1, <2>2
<1> QED
  BY <1>1, <1>3 DEF Stream!Leave

(* put_buffer_out that takes what the mixer wrote is the stream's entry.      *)
LEMMA StreamEnters ==
  ASSUME IInv, PutBuffer, ~pending_drop
  PROVE  Stream!Enter(pending)
<1> USE DEF IInv
<1>1. pending \in Nat /\ pending <= live /\ pending + Fill < RingFrames
      /\ Fill \in 0..(RingFrames - 1) /\ wr + pending <= RingFrames
  BY FillInRing DEF PutBuffer, HandedOut, HandedOutIsFree, TypeOK, Least
<1>2. wr' = Wrap(wr + pending) /\ UNCHANGED <<buf, rd, made, out>> /\ live' = live - pending
  BY DEF PutBuffer, consumerVars
<1>3. Fill' = Fill + pending
  BY <1>1, <1>2, WriteAdds DEF TypeOK
<1>4. ASSUME NEW i \in 1..(Fill + pending)
      PROVE  buf[Wrap(rd + i - 1)]
               = IF i <= Fill THEN Unread[i] ELSE made - live + (i - Fill)
  <2>1. CASE i <= Fill
    BY <1>1, <2>1 DEF Unread
  <2>2. CASE i > Fill
    <3>1. Wrap(rd + i - 1) = wr + (i - Fill) - 1
      BY <1>1, <2>2, RingAssumption DEF Wrap, Fill, TypeOK
    <3>2. wr + (i - Fill) - 1 \in wr..(wr + pending - 1)
      BY <1>1, <2>2 DEF TypeOK
    <3>3. buf[wr + (i - Fill) - 1] = made - live + 1 + ((wr + (i - Fill) - 1) - wr)
      BY <3>2 DEF HoldsNext, PutBuffer
    <3> QED
      BY <1>1, <2>2, <3>1, <3>3 DEF TypeOK
  <2> QED
    BY <1>1, <2>1, <2>2
<1>5. Unread' = [i \in 1..(Fill + pending) |->
                   IF i <= Fill THEN Unread[i] ELSE made - live + (i - Fill)]
  <2>1. Unread' = [i \in 1..(Fill + pending) |-> buf[Wrap(rd + i - 1)]]
    BY <1>2, <1>3 DEF Unread, Wrap
  <2> QED
    BY <1>4, <2>1
<1>6. (made - live)' = made - live + pending
  BY <1>1, <1>2 DEF TypeOK
<1> QED
  BY <1>2, <1>3, <1>5, <1>6 DEF Stream!Enter

(* Every step of the ring is one of the stream's, or a stutter.               *)
LEMMA StepOfStream == IInv /\ [Next]_vars => [Stream!Next]_(Stream!vars)
<1> SUFFICES ASSUME IInv, [Next]_vars PROVE [Stream!Next]_(Stream!vars)
  OBVIOUS
<1> USE DEF IInv
<1>0. Fill \in 0..(RingFrames - 1) /\ RingFrames \in Nat /\ Burst \in Nat
  BY FillInRing, RingAssumption, PaceAssumption DEF TypeOK
<1>1. ASSUME UNCHANGED <<buf, wr, rd, out>>, made' - live' = made - live
      PROVE  UNCHANGED Stream!vars
  BY <1>1, StreamStutters
<1>2. CASE Devices \/ MixerRuns \/ NothingOwed \/ GetScratch
  <2>1. UNCHANGED <<buf, wr, rd, out>>
    BY <1>2 DEF Devices, StreamBegins, StreamEnds, DeviceWrites, MixerRuns, NothingOwed,
      GetScratch, consumerVars
  <2>2. made' - live' = made - live
    BY <1>2 DEF Devices, StreamBegins, StreamEnds, DeviceWrites, MixerRuns, NothingOwed,
      GetScratch, TypeOK
  <2> QED
    BY <1>1, <2>1, <2>2
<1>3. CASE GetBuffer
  <2>1. wr' = wr /\ rd' = rd /\ out' = out /\ made' - live' = made - live
    BY <1>3 DEF GetBuffer, consumerVars
  <2>2. ASSUME NEW i \in 1..Fill PROVE buf'[Wrap(rd + i - 1)] = buf[Wrap(rd + i - 1)]
    <3>1. /\ Wrap(rd + i - 1) \in DOMAIN buf
          /\ ~(wr <= Wrap(rd + i - 1) /\ Wrap(rd + i - 1) < wr + Room)
      <4>1. Room \in Nat /\ Room + Fill < RingFrames
        BY RoomIsFree
      <4>2. wr \in 0..(RingFrames - 1) /\ rd \in 0..(RingFrames - 1)
            /\ DOMAIN buf = 0..(RingFrames - 1)
        BY DEF TypeOK
      <4> QED
        BY <4>1, <4>2, UnreadIsElsewhere
    <3> QED
      BY <1>3, <3>1 DEF GetBuffer
  <2> QED
    BY <2>1, <2>2, StreamStutters
<1>4. CASE PutBuffer
  <2>1. pending \in 0..(RingFrames + Burst)
    BY <1>0, <1>4 DEF PutBuffer, HandedOut, TypeOK, Least
  <2>2. CASE pending_drop
    <3>1. UNCHANGED <<buf, wr, rd, out>> /\ (made - live)' = made - live + pending
      BY <1>4, <2>1, <2>2 DEF PutBuffer, consumerVars, TypeOK
    <3>2. Fill' = Fill /\ Unread' = Unread
      BY <3>1 DEF Fill, Unread, Wrap
    <3> QED
      BY <2>1, <3>1, <3>2 DEF Stream!Next, Stream!Lose
  <2>3. CASE ~pending_drop
    BY <1>4, <2>1, <2>3, StreamEnters DEF Stream!Next
  <2> QED
    BY <2>2, <2>3 DEF TypeOK
<1>5. CASE FillPlays \/ FillExceeds \/ PopLoads \/ DeviceAsks
  BY <1>1, <1>5 DEF FillPlays, FillExceeds, PopLoads, DeviceAsks, producerVars
<1>6. CASE FillWaits
  <2>1. UNCHANGED <<buf, wr, rd, made, live>> /\ out' = [i \in 1..0 |-> 0]
    BY <1>6 DEF FillWaits, producerVars
  <2>2. rd' = Wrap(rd + 0)
    BY <1>0, <2>1 DEF Wrap, TypeOK
  <2>3. Stream!Leave(0)
    BY <1>0, <2>1, <2>2, StreamLeaves DEF TypeOK
  <2>4. out' = [i \in 1..0 |-> Unread[i]]
    BY <2>1
  <2> QED
    BY <1>0, <2>3, <2>4 DEF Stream!Next, Stream!Hear
<1>7. CASE FillSkips
  <2>1. Least(excess, Fill) \in 0..Fill
    BY <1>0 DEF Least, TypeOK
  <2>2. Stream!Leave(Least(excess, Fill)) /\ out' = out
    BY <1>7, <2>1, StreamLeaves DEF FillSkips, TypeOK, producerVars
  <2>3. Least(excess, Fill) \in 0..(RingFrames + Burst)
    BY <1>0, <2>1
  <2> QED
    BY <2>2, <2>3 DEF Stream!Next, Stream!Skip
<1>8. CASE PopStores
  <2>1. chunk \in 0..Fill /\ chunk \in 0..(RingFrames + Burst)
    BY <1>0, <1>8 DEF PopStores, CallbackHas, TypeOK
  <2>2. Stream!Leave(chunk)
    BY <1>8, <2>1, StreamLeaves DEF PopStores, TypeOK, producerVars
  <2>3. out' = [i \in 1..chunk |-> Unread[i]]
    BY <1>0, <1>8, <2>1 DEF PopStores, Unread
  <2> QED
    BY <2>1, <2>2, <2>3 DEF Stream!Next, Stream!Hear
<1>9. CASE UNCHANGED vars
  BY <1>1, <1>9 DEF vars, producerVars, consumerVars
<1> QED
  BY <1>2, <1>3, <1>4, <1>5, <1>6, <1>7, <1>8, <1>9 DEF Next, Mixer, Consumer

(* What is heard is what the guest played, in order, each frame at most once  *)
(* and untorn, whatever the two threads do between each other's steps.        *)
THEOREM Implements == Spec => ImplementsAudioStream
<1> QED
  BY InitStream, StepOfStream, Invariant, PTL DEF Spec, ImplementsAudioStream, Stream!Spec
=============================================================================
