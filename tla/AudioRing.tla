------------------------------ MODULE AudioRing ------------------------------
(* The guest's sound on its way to the host: embed/embedaudio.c, QEMU's main *)
(* loop putting what its mixer holds into a ring at the pace of the guest's  *)
(* clock, and player-core/src/audio.rs, the host device's callback taking it *)
(* out. There is no lock: each side stores one index.                        *)
(*                                                                           *)
(* The unit is a frame, numbered as the guest's devices deliver it; the ring *)
(* keeps one free. Time is the guest's, in frames played: a tick adds what   *)
(* has passed, the rate correction (adj) included. The mixer between the     *)
(* devices and this backend is QEMU's.                                       *)
EXTENDS Naturals

CONSTANTS RingFrames,  (* ring_size                                          *)
          Burst,       (* the most the devices may be ahead of the ring      *)
          Cap,         (* the most that may stay owed                        *)
          Cushion,     (* what a stream starts with besides one callback's   *)
          Slack,       (* the stall the ring may soak up                     *)
          Periods,     (* how many frames a callback may ask for             *)
          MaxTick,     (* bounds what one tick adds                          *)
          MaxClock     (* bounds the guest's clock: then it is paused        *)

ASSUME RingAssumption == RingFrames \in Nat /\ RingFrames > 1
ASSUME PaceAssumption == Burst \in Nat \ {0} /\ Cap \in Nat \ {0}
ASSUME ConsumerAssumption ==
  Cushion \in Nat /\ Slack \in Nat /\ Periods \subseteq Nat \ {0} /\ Periods # {}
ASSUME BoundAssumption == MaxTick \in Nat /\ MaxClock \in Nat

VARIABLES
  (* the ring                                                                *)
  buf, wr, rd,
  (* QEMU's main loop: its step, frames owed, frames in the mixer, the buffer *)
  (* handed out, whether the stream is enabled                               *)
  ppc, owed, live, pending, pending_drop, enabled,
  (* the device's callback: its step, what it wants, what to skip, what to   *)
  (* pop, and what it handed over last                                       *)
  cpc, playing, want, excess, chunk, out,
  (* frames the guest's clock has played while enabled, frames delivered     *)
  clock, made

producerVars == <<wr, ppc, owed, live, pending, pending_drop, enabled, clock, made>>
consumerVars == <<rd, cpc, playing, want, excess, chunk, out>>
vars == <<buf, producerVars, consumerVars>>

Least(a, b) == IF a <= b THEN a ELSE b

NoWrap(i) == i
Wrap(i) == IF i >= RingFrames THEN i - RingFrames ELSE i

(* ring_fill (available), ring_free                                          *)
Fill == IF wr >= rd THEN wr - rd ELSE RingFrames + wr - rd

FreeToTheLast == RingFrames - Fill
Free == RingFrames - 1 - Fill

Init ==
  /\ buf = [i \in 0..(RingFrames - 1) |-> 0] /\ wr = 0 /\ rd = 0
  /\ ppc = "idle" /\ owed = 0 /\ live = 0 /\ pending = 0 /\ pending_drop = FALSE
  /\ enabled = FALSE
  /\ cpc = "idle" /\ playing = FALSE /\ want \in Periods /\ excess = 0 /\ chunk = 0
  /\ out = [i \in 1..0 |-> 0]
  /\ clock = 0 /\ made = 0

-----------------------------------------------------------------------------
(* QEMU's main loop                                                          *)

(* enable_out, when the mixer opens a stream and when a paused VM resumes     *)
(* with one open: restart forgets what was owed.                             *)
StreamBegins ==
  /\ ppc = "idle"
  /\ enabled' = TRUE /\ owed' = 0
  /\ UNCHANGED <<buf, wr, ppc, live, pending, pending_drop, clock, made, consumerVars>>

(* The mixer closes a stream it holds nothing of.                            *)
StreamEnds ==
  /\ enabled /\ ppc = "idle" /\ live = 0
  /\ enabled' = FALSE
  /\ UNCHANGED <<buf, wr, ppc, owed, live, pending, pending_drop, clock, made, consumerVars>>

(* tick, by every buffer_get_free: what the clock has played is owed, and    *)
(* forgotten past the cap.                                                   *)
Tick ==
  \E c \in 0..MaxTick :
    /\ clock + c <= MaxClock /\ clock' = clock + c
    /\ owed' = Least(owed + c, Cap)

(* A device delivers to the mixer, not more than buffer_get_free leaves.     *)
DeviceWrites ==
  /\ enabled /\ ppc = "idle"
  /\ Tick
  /\ \E k \in 1..Burst :
       /\ live + k <= Least(owed', Burst)
       /\ live' = live + k /\ made' = made + k
  /\ UNCHANGED <<buf, wr, ppc, pending, pending_drop, enabled, consumerVars>>

(* The mixer's timer. What the mixer holds is taken a buffer at a time.      *)
MixerRuns ==
  /\ enabled /\ ppc = "idle"
  /\ Tick
  /\ ppc' = IF live > 0 THEN "get" ELSE "idle"
  /\ UNCHANGED <<buf, wr, live, pending, pending_drop, enabled, made, consumerVars>>

(* get_buffer_out: up to the ring's end, or what is free of it; the mixer    *)
(* writes into it. A full ring gets none, and what was owed goes nowhere.    *)
RoomToTheEnd == Least(Least(live, owed), RingFrames - wr)
Room == Least(Least(live, owed), Least(Free, RingFrames - wr))

NothingOwed ==
  /\ ppc = "get" /\ Least(live, owed) = 0
  /\ ppc' = "idle"
  /\ UNCHANGED <<buf, wr, owed, live, pending, pending_drop, enabled, clock, made, consumerVars>>

GetBuffer ==
  /\ ppc = "get" /\ ppc' = "put"
  /\ Room > 0
  /\ pending' = Room /\ pending_drop' = FALSE
  /\ buf' = [i \in DOMAIN buf |-> IF wr <= i /\ i < wr + Room
                                  THEN made - live + 1 + (i - wr) ELSE buf[i]]
  /\ UNCHANGED <<wr, owed, live, enabled, clock, made, consumerVars>>

(* Nothing handed out on a full ring.                                        *)
GetNothing ==
  /\ ppc = "get" /\ ppc' = "idle"
  /\ Room = 0 /\ Least(live, owed) > 0
  /\ UNCHANGED <<buf, wr, owed, live, pending, pending_drop, enabled, clock, made, consumerVars>>

GetScratch ==
  /\ ppc = "get" /\ ppc' = "put"
  /\ Room = 0 /\ Least(live, owed) > 0
  /\ pending' = Least(live, owed) /\ pending_drop' = TRUE
  /\ UNCHANGED <<buf, wr, owed, live, enabled, clock, made, consumerVars>>

(* put_buffer_out, after which the mixer asks again for what it still holds. *)
ChargedIfHeard == IF pending_drop THEN 0 ELSE pending
Charged == pending

PutBuffer ==
  /\ ppc = "put"
  /\ wr' = IF pending_drop THEN wr ELSE Wrap(wr + pending)
  /\ owed' = owed - Charged
  /\ live' = live - pending /\ pending' = 0
  /\ ppc' = IF live' > 0 THEN "get" ELSE "idle"
  /\ UNCHANGED <<buf, pending_drop, enabled, clock, made, consumerVars>>

-----------------------------------------------------------------------------
(* The device's callback (Consumer::fill), between whose loads of wr the     *)
(* other thread moves it                                                     *)

StartsWithSlack(w) == 2 * w + Cushion + Slack
StartsWith(w) == w + Cushion

KeepsCushion(w) == Cushion
Keeps(w) == w + Cushion

(* The device asks for as much as it likes, the same for long.               *)
DeviceAsks ==
  /\ cpc = "idle" /\ want' \in Periods
  /\ UNCHANGED <<buf, producerVars, rd, cpc, playing, excess, chunk, out>>

(* Not playing, it hands out silence until the ring holds enough.            *)
FillWaits ==
  /\ cpc = "idle" /\ ~playing
  /\ Fill < StartsWith(want)
  /\ out' = [i \in 1..0 |-> 0]
  /\ UNCHANGED <<buf, producerVars, rd, cpc, playing, want, excess, chunk>>

FillPlays ==
  /\ cpc = "idle" /\ cpc' = "pop"
  /\ \/ ~playing /\ Fill >= StartsWith(want)
     \/ playing /\ Fill <= 2 * want + Cushion + Slack
  /\ playing' = TRUE
  /\ UNCHANGED <<buf, producerVars, rd, want, excess, chunk, out>>

(* The device stalled: skip back to where a stream starts.                   *)
FillExceeds ==
  /\ cpc = "idle" /\ cpc' = "skip"
  /\ playing /\ Fill > 2 * want + Cushion + Slack
  /\ excess' = Fill - Keeps(want)
  /\ UNCHANGED <<buf, producerVars, rd, playing, want, chunk, out>>

FillSkips ==
  /\ cpc = "skip" /\ cpc' = "pop"
  /\ rd' = Wrap(rd + Least(excess, Fill))
  /\ UNCHANGED <<buf, producerVars, playing, want, excess, chunk, out>>

(* pop_f32: how much there is, then the copy and the store.                  *)
PopLoads ==
  /\ cpc = "pop" /\ cpc' = "copy"
  /\ chunk' = Least(Fill, want)
  /\ UNCHANGED <<buf, producerVars, rd, playing, want, excess, out>>

PopStores ==
  /\ cpc = "copy" /\ cpc' = "idle"
  /\ out' = [i \in 1..chunk |-> buf[Wrap(rd + i - 1)]]
  /\ rd' = Wrap(rd + chunk)
  /\ playing' = (chunk = want)
  /\ chunk' = 0 /\ excess' = 0
  /\ UNCHANGED <<buf, producerVars, want>>

-----------------------------------------------------------------------------

Devices == StreamBegins \/ StreamEnds \/ DeviceWrites
Mixer == MixerRuns \/ NothingOwed \/ GetBuffer \/ GetScratch \/ PutBuffer
Consumer == FillWaits \/ FillPlays \/ FillExceeds \/ FillSkips \/ PopLoads \/ PopStores

Next == Devices \/ Mixer \/ Consumer \/ DeviceAsks

(* The mixer's timer ticks while a stream is on. The device may stall: its   *)
(* callbacks are asked for where a property needs a listener.                *)
Fairness == WF_vars(Mixer)
Listening == WF_vars(Consumer)

Spec == Init /\ [][Next]_vars /\ Fairness

-----------------------------------------------------------------------------

TypeOK ==
  /\ buf \in [0..(RingFrames - 1) -> Nat]
  /\ wr \in 0..(RingFrames - 1) /\ rd \in 0..(RingFrames - 1)
  /\ ppc \in {"idle", "get", "put"} /\ owed \in 0..Cap /\ live \in 0..Burst
  /\ pending \in Nat /\ pending_drop \in BOOLEAN /\ enabled \in BOOLEAN
  /\ cpc \in {"idle", "skip", "pop", "copy"} /\ playing \in BOOLEAN
  /\ want \in Periods /\ excess \in Nat /\ chunk \in Nat
  /\ clock \in 0..MaxClock /\ made \in Nat

(* What the mixer writes into is nothing the callback may still read, though *)
(* the callback moves rd between get_buffer_out and put_buffer_out           *)
(* (ring_free, the one slot kept free).                                      *)
HandedOutIsFree == ppc = "put" /\ ~pending_drop => pending + Fill < RingFrames

(* The guest is never pulled ahead of its own clock: its devices deliver no  *)
(* more than the clock has played, across stalls paid back, frames dropped   *)
(* on a full ring and streams begun anew (embedaudio.c, "Pacing").           *)
NeverAhead == made <= clock

(* A skip never makes a gap of its own: what it leaves is what a stream      *)
(* starts with, and the chunk that follows is whole.                         *)
SkipLeavesCushion ==
  /\ cpc = "skip" => Fill >= excess + want + Cushion
  /\ cpc \in {"pop", "copy"} /\ excess > 0 => Fill >= want + Cushion

(* The ring is the abstract stream: what is heard is what was played, in     *)
(* order, each frame at most once, none torn or overwritten while read.      *)
Unread == [i \in 1..Fill |-> buf[Wrap(rd + i - 1)]]
Stream == INSTANCE AudioStream WITH
            MaxFrames <- RingFrames + Burst, gone <- made - live, size <- Fill,
            queue <- Unread, out <- out
ImplementsAudioStream == Stream!Spec

(* A host that has stopped listening does not hold the guest up: the mixer   *)
(* gets rid of what the devices delivered, as far as the guest's clock has   *)
(* played it, callbacks or none ("goes nowhere, as it would on a card nobody *)
(* listened to").                                                            *)
MixerNeverBlocks == (live > 0 /\ owed > 0) ~> (live = 0 \/ owed = 0)

(* A listened-to ring does not stay full and silent ("this side starts a     *)
(* stream only once the ring holds one of the device's periods plus that     *)
(* cushion").                                                                *)
FullRingPlays == Listening => ((Fill = RingFrames - 1) ~> playing)
=============================================================================
