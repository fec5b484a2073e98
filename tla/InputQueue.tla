----------------------------- MODULE InputQueue -----------------------------
(* Input on its way to the guest: player-core/src/input.rs (what the front  *)
(* end holds: the keyboard's keys, the Ctrl+Alt+Del chord, the host         *)
(* gamepad), player-core/src/pad.rs (KeyMap), and the queue of              *)
(* embed/libqemu_embed.c between the UI thread and QEMU's main loop, which  *)
(* drops what does not fit.                                                 *)
(*                                                                          *)
(* One operation of the front end is many calls of the library, each taking *)
(* the queue's lock: `todo` is what it has yet to call. The pointer's       *)
(* events are one kind that only takes room.                                *)
EXTENDS Naturals, Sequences, FiniteSets, SequencesExt

CONSTANTS QueueLen,   (* IN_QUEUE_LEN                                        *)
          Keys,       (* the keyboard's                                      *)
          CadPairs,   (* for Ctrl and for Alt, the left and right keys       *)
          CadLeft,    (* of such a pair, the key the chord presses           *)
          CadLifts,   (* Shift and the Windows keys                          *)
          Del,
          PadModes,   (* what a machine may say of its pad                   *)
          Controls,   (* the pad's pressable halves                          *)
          PadStates,  (* the sets of them a hand can press at once           *)
          Bindings,   (* the keys they press: several may press one          *)
          MaxInputs   (* bounds what the hands do in a run, by pad mode      *)

ASSUME QueueAssumption == QueueLen \in Nat \ {0} /\ MaxInputs \in [PadModes -> Nat]
ASSUME CadAssumption ==
  /\ Del \in Keys /\ CadLifts \subseteq Keys
  /\ \A pair \in CadPairs : pair \subseteq Keys /\ CadLeft[pair] \in pair
ASSUME PadAssumption ==
  /\ PadModes \subseteq {"keys", "device", "off"}
  /\ PadStates \subseteq SUBSET Controls /\ {} \in PadStates
  /\ DOMAIN Bindings = Controls
ASSUME FiniteAssumption == IsFiniteSet(Keys) /\ IsFiniteSet(Controls)

VARIABLES
  (* the front end (UI thread)                                              *)
  focused, asking, keys_down, cad_held, cad_extra, pad_mode, pad, held, todo,
  (* the queue                                                              *)
  in_q, in_bh_pending, dropped,
  (* QEMU's main loop and the guest                                         *)
  batch, guest_keys, guest_pad,
  (* what the hands have done; at MaxInputs they are off for good           *)
  inputs

windowVars == <<focused, asking>>
chordVars == <<cad_held, cad_extra>>
padVars == <<pad_mode, pad, held>>
queueVars == <<in_q, in_bh_pending, dropped>>
guestVars == <<batch, guest_keys, guest_pad>>
vars == <<inputs, windowVars, keys_down, chordVars, padVars, todo, queueVars, guestVars>>

PadKeys == {Bindings[c] : c \in Controls}

Key(k, down) == [kind |-> "key", key |-> k, down |-> down]
Pad(p) == [kind |-> "pad", pad |-> p]
Pointer == [kind |-> "pointer"]
Flush == [kind |-> "flush"]     (* a call of input_flush, not an event *)

Events == {Key(k, down) : k \in Keys \cup PadKeys, down \in BOOLEAN}
            \cup {Pad(p) : p \in PadStates} \cup {Pointer}

(* The key events for a set of keys, one way, in any fixed order.           *)
Each(keys, down) ==
  LET order == SetToSeq(keys) IN [i \in 1..Len(order) |-> Key(order[i], down)]

(* Nothing to say is no call at all, a flush included.                      *)
Flushed(events) == IF events = <<>> THEN <<>> ELSE Append(events, Flush)

-----------------------------------------------------------------------------

Init ==
  /\ focused = TRUE /\ asking = FALSE /\ inputs = 0
  /\ keys_down = {} /\ cad_held = FALSE /\ cad_extra = {}
  /\ pad_mode \in PadModes /\ pad = {} /\ held = {}
  /\ todo = <<>> /\ in_q = <<>> /\ in_bh_pending = FALSE /\ dropped = FALSE
  /\ batch = <<>> /\ guest_keys = {} /\ guest_pad = {}

-----------------------------------------------------------------------------
(* The front end: one operation at a time, each to its last library call    *)

Input == todo = <<>> /\ inputs < MaxInputs[pad_mode] /\ inputs' = inputs + 1
Typing == Input /\ focused /\ ~asking
still == inputs = MaxInputs[pad_mode]

KeyInput ==
  /\ Typing
  /\ \E k \in Keys, down \in BOOLEAN :
       /\ todo' = Flushed(<<Key(k, down)>>)
       /\ keys_down' = IF down THEN keys_down \cup {k} ELSE keys_down \ {k}
  /\ UNCHANGED <<windowVars, chordVars, padVars, queueVars, guestVars>>

PointerInput ==
  /\ Typing
  /\ todo' = <<Pointer, Flush>>
  /\ UNCHANGED <<windowVars, keys_down, chordVars, padVars, queueVars, guestVars>>

(* The chord's own keys are held like typed ones, for lift_all's sake.      *)
WithDelAlone(down, extra) == down \cup {Del}
WithChord(down, extra) == down \cup extra \cup {Del}

(* ctrl_alt_del(down): Shift goes, Ctrl and Alt come if no hand holds them, *)
(* and Delete is pressed; a repeat changes nothing.                         *)
CtrlAltDelDown ==
  /\ Typing /\ ~cad_held
  /\ LET lifted == CadLifts \cap keys_down
         missing == {pair \in CadPairs : pair \cap keys_down = {}}
         extra == {CadLeft[pair] : pair \in missing}
     IN
     /\ todo' = Flushed(Each(lifted, FALSE) \o Each(extra, TRUE)
                          \o <<Key(Del, TRUE)>>)
     /\ keys_down' = WithChord(keys_down \ lifted, extra)
     /\ cad_extra' = cad_extra \cup extra
  /\ cad_held' = TRUE
  /\ UNCHANGED <<windowVars, padVars, queueVars, guestVars>>

(* ctrl_alt_del(up), by the key's release or by the menu's timer, whatever  *)
(* happened to the window since.                                            *)
CtrlAltDelUp ==
  /\ Input
  /\ cad_held' = FALSE /\ cad_extra' = {}
  /\ todo' = Flushed(<<Key(Del, FALSE)>> \o Each(cad_extra, FALSE))
  /\ keys_down' = keys_down \ ({Del} \cup cad_extra)
  /\ UNCHANGED <<windowVars, padVars, queueVars, guestVars>>

(* lift_all: the pad's keys through its map, then the keyboard's, each with *)
(* a flush of its own.                                                      *)
LiftsUnflushed == Flushed(Each(held, FALSE)) \o Each(keys_down, FALSE)
Lifts == Flushed(Each(held, FALSE)) \o Flushed(Each(keys_down, FALSE))

LiftAll ==
  /\ Input
  /\ todo' = Lifts
  /\ held' = {} /\ keys_down' = {} /\ cad_held' = FALSE /\ cad_extra' = {}
  /\ UNCHANGED <<pad_mode, pad, queueVars, guestVars>>

LoseFocus == focused /\ focused' = FALSE /\ LiftAll /\ UNCHANGED asking

(* ask_to_close: the question takes the keyboard and the pointer.           *)
AskToClose == focused /\ ~asking /\ asking' = TRUE /\ LiftAll /\ UNCHANGED focused

WindowBack ==
  /\ Input
  /\ \/ ~focused /\ focused' = TRUE /\ UNCHANGED asking
     \/ focused /\ asking /\ asking' = FALSE /\ UNCHANGED focused
  /\ UNCHANGED <<keys_down, chordVars, padVars, todo, queueVars, guestVars>>

(* KeyMap::apply: from what the map holds to what the pad wants.            *)
PressesFirst(from, to) == Each(to \ from, TRUE) \o Each(from \ to, FALSE)
KeyMapApply(from, to) == Each(from \ to, FALSE) \o Each(to \ from, TRUE)

(* apply_pad_device: the whole pad, moved or not.                           *)
OnlyMoves(p) == IF p = pad THEN <<>> ELSE <<Pad(p)>>
PadDevice(p) == <<Pad(p)>>

(* poll_pads on every wake, focused or not, asking or not: read the pad,    *)
(* and say it the machine's way.                                            *)
PollPads ==
  /\ todo = <<>>
  /\ IF still THEN UNCHANGED <<pad, inputs>>
     ELSE pad' \in PadStates /\ inputs' = IF pad' = pad THEN inputs ELSE inputs + 1
  /\ LET wanted == {Bindings[c] : c \in pad'} IN
     \/ /\ pad_mode = "keys"
        /\ todo' = Flushed(KeyMapApply(held, wanted)) /\ held' = wanted
     \/ /\ pad_mode = "device"
        /\ todo' = Flushed(PadDevice(pad')) /\ UNCHANGED held
     \/ pad_mode = "off" /\ UNCHANGED <<todo, held>>
  /\ UNCHANGED <<windowVars, keys_down, chordVars, pad_mode, queueVars, guestVars>>

-----------------------------------------------------------------------------
(* The library's calls                                                      *)

RoomOffByOne == Len(in_q) <= QueueLen
Room == Len(in_q) < QueueLen

Enqueue ==
  /\ todo # <<>> /\ Head(todo) # Flush
  /\ todo' = Tail(todo)
  /\ IF Room
     THEN in_q' = Append(in_q, Head(todo)) /\ UNCHANGED dropped
     ELSE dropped' = TRUE /\ UNCHANGED in_q
  /\ UNCHANGED <<inputs, windowVars, keys_down, chordVars, padVars, in_bh_pending,
                 guestVars>>

(* One drain is scheduled for whatever is queued by the time it runs.       *)
InputFlush ==
  /\ todo # <<>> /\ Head(todo) = Flush
  /\ todo' = Tail(todo)
  /\ in_bh_pending' = (in_bh_pending \/ in_q # <<>>)
  /\ UNCHANGED <<inputs, windowVars, keys_down, chordVars, padVars, in_q, dropped,
                 guestVars>>

-----------------------------------------------------------------------------
(* QEMU's main loop: bh_input_drain copies the queue under its lock, then   *)
(* delivers the copy under the big lock, which keeps the guest out.         *)

DrainTake ==
  /\ in_bh_pending /\ batch = <<>>
  /\ batch' = in_q /\ in_q' = <<>> /\ in_bh_pending' = FALSE
  /\ UNCHANGED <<inputs, windowVars, keys_down, chordVars, padVars, todo, dropped,
                 guest_keys, guest_pad>>

(* What a run of events leaves: of each key, and of the pad, the last word. *)
About(events, k) ==
  {i \in DOMAIN events : events[i].kind = "key" /\ events[i].key = k}

HeldAfter(events, before) ==
  {k \in Keys \cup PadKeys :
     IF About(events, k) = {} THEN k \in before
     ELSE events[Max(About(events, k))].down}

PadAfter(events, before) ==
  LET said == {i \in DOMAIN events : events[i].kind = "pad"}
  IN IF said = {} THEN before ELSE events[Max(said)].pad

DrainDeliverEndsPending ==
  /\ batch # <<>>
  /\ guest_keys' = HeldAfter(batch, guest_keys)
  /\ guest_pad' = PadAfter(batch, guest_pad)
  /\ batch' = <<>> /\ in_bh_pending' = FALSE
  /\ UNCHANGED <<inputs, windowVars, keys_down, chordVars, padVars, todo, in_q,
                 dropped>>

DrainDeliver ==
  /\ batch # <<>>
  /\ guest_keys' = HeldAfter(batch, guest_keys)
  /\ guest_pad' = PadAfter(batch, guest_pad)
  /\ batch' = <<>>
  /\ UNCHANGED <<inputs, windowVars, keys_down, chordVars, padVars, todo, queueVars>>

FrontEnd == \/ KeyInput \/ PointerInput \/ CtrlAltDelDown \/ CtrlAltDelUp
            \/ LoseFocus \/ AskToClose \/ WindowBack \/ PollPads
Library == Enqueue \/ InputFlush
MainLoop == DrainTake \/ DrainDeliver

Next == FrontEnd \/ Library \/ MainLoop

(* A call returns, a scheduled bottom half runs, and published frames keep  *)
(* waking the front end, which then polls the pad.                          *)
Fairness ==
  /\ WF_vars(Library) /\ WF_vars(DrainTake) /\ WF_vars(DrainDeliver)
  /\ WF_vars(PollPads)

Spec == Init /\ [][Next]_vars /\ Fairness

-----------------------------------------------------------------------------

TypeOK ==
  /\ focused \in BOOLEAN /\ asking \in BOOLEAN /\ inputs \in 0..MaxInputs[pad_mode]
  /\ keys_down \subseteq Keys /\ cad_held \in BOOLEAN /\ cad_extra \subseteq Keys
  /\ pad_mode \in PadModes /\ pad \in PadStates /\ held \subseteq PadKeys
  /\ todo \in Seq(Events \cup {Flush}) /\ in_q \in Seq(Events)
  /\ Len(in_q) <= QueueLen /\ batch \in Seq(Events)
  /\ in_bh_pending \in BOOLEAN /\ dropped \in BOOLEAN
  /\ guest_keys \subseteq Keys \cup PadKeys /\ guest_pad \in PadStates

(* No wakeup is lost (in_bh_pending): once the front end's call is through, *)
(* a queued event has a drain coming, though the drain clears the flag      *)
(* before it delivers and the front end queues more meanwhile.              *)
QueuedIsDrained == todo = <<>> /\ in_q # <<>> => in_bh_pending

(* No key sticks: after what is on its way is delivered the guest holds     *)
(* only keys the front end knows of and so can lift (keys_down, the pad's   *)
(* map), unless the queue has dropped an event. The chord, the pad and the  *)
(* keyboard press and release the same keys.                                *)
OnTheWay == HeldAfter(batch \o in_q \o todo, guest_keys)
NoKeySticks == ~dropped => OnTheWay \subseteq keys_down \cup held

(* A stick swung from one side to the other is a release and a press, and   *)
(* however the drain cuts the two apart the guest holds no combination that *)
(* no position of the pad means (KeyMap::apply, releases first).            *)
NeverBothWays ==
  ~dropped => \E p \in PadStates :
                guest_keys \cap (PadKeys \ Keys) \subseteq {Bindings[c] : c \in p}

(* A pad sent as a device catches up even when updates were dropped: the    *)
(* whole state is sent on every wake.                                       *)
PadCatchesUp == (still /\ pad_mode = "device") ~> (guest_pad = pad)

(* Focus loss empties the guest's hands, unless an event was dropped.       *)
FocusLossLifts == (still /\ ~focused /\ pad = {}) ~> (dropped \/ guest_keys = {})

(* "Nothing reaches the guest while the question is up": the keys it holds  *)
(* are lifted, and none is pressed again.                                   *)
NothingWhileAsking ==
  asking /\ ~dropped /\ todo = <<>> => OnTheWay = {}
=============================================================================
