--------------------------- MODULE VmLifecycleProof ---------------------------
(* Proofs about VmLifecycle: under whom the handle is freed, the release   *)
(* deadline cuts the start only, and the process ends in order.              *)
EXTENDS VmLifecycle, TLAPS

(* Past the wait for the release the main thread has promised, or was cut.   *)
PastWaiting == {"detaching", "cleanup", "destroy", "finished"}

HandleInv ==
  /\ freed <=> qemu = "finished"
  /\ qemu \in PastWaiting => released \/ overdue
  /\ released => ui \in {"joining", "exited", "killed"}
  /\ ui = "joining" => released

ClipInv ==
  /\ clip = "calling" => clip_vm
  /\ qemu \in {"cleanup", "destroy", "finished"} => ~clip_vm

StartInv == ui \in Starting => ~session

EndInv ==
  /\ ui = "exited" => qemu = "finished"
  /\ ui = "killed" => qemu \in {"failed", "wedged"}
  /\ stopped => qemu \notin {"init", "running", "wedged", "failed"}
  /\ ui \in {"leaving", "joining"} => off \/ stopped

Inv == TypeOK /\ HandleInv /\ ClipInv /\ StartInv /\ EndInv

(* The invariant holds of every start. *)
LEMMA InitInv == Init => Inv
BY DEF Init, Inv, TypeOK, HandleInv, ClipInv, StartInv, EndInv, QemuSteps,
       UiSteps, Starting, Calling, PastWaiting, Request

(* A step of QEMU's thread keeps the invariant. *)
LEMMA QemuThreadInv ==
  ASSUME Inv, ~Over, QemuThread
  PROVE  Inv'
<1> USE DEF Inv, TypeOK, HandleInv, ClipInv, StartInv, EndInv, QemuSteps, UiSteps,
            Starting, Calling, PastWaiting, Request, Over, qemuVars, uiVars,
            helperVars, qmpVars, Goes
<1>1. CASE QemuInit
  <2>1. TypeOK'
    <3>1. /\ qemu' \in QemuSteps /\ clip_vm' \in BOOLEAN
          /\ clip' \in {"off", "polling", "calling"}
      BY <1>1 DEF QemuInit
    <3>2. UNCHANGED <<vblank, off, stopped, overdue, freed, uiVars, woken, qmpVars>>
      BY <1>1 DEF QemuInit
    <3> QED
      BY <3>1, <3>2
  <2>2. HandleInv'
    BY <1>1 DEF QemuInit
  <2>3. ClipInv'
    BY <1>1 DEF QemuInit
  <2>4. StartInv'
    BY <1>1 DEF QemuInit
  <2>5. EndInv'
    BY <1>1 DEF QemuInit
  <2> QED
    BY <2>1, <2>2, <2>3, <2>4, <2>5
<1>2. CASE RunReturns
  BY <1>2 DEF RunReturns
<1>3. CASE WakeTheFrontEnd
  BY <1>3 DEF WakeTheFrontEnd
<1>4. CASE SeesRelease
  BY <1>4 DEF SeesRelease
<1>5. CASE ReleaseDeadline
  BY <1>5 DEF ReleaseDeadline, MainWaits
<1>6. CASE ClipboardStop
  <2>1. TypeOK'
    <3>1. qemu' \in QemuSteps /\ clip_vm' \in BOOLEAN
      BY <1>6 DEF ClipboardStop
    <3>2. UNCHANGED <<off, stopped, overdue, freed, uiVars, woken, clip, vblank, qmpVars>>
      BY <1>6 DEF ClipboardStop
    <3> QED
      BY <3>1, <3>2
  <2>2. HandleInv'
    BY <1>6 DEF ClipboardStop
  <2>3. ClipInv'
    BY <1>6 DEF ClipboardStop
  <2>4. StartInv'
    BY <1>6 DEF ClipboardStop
  <2>5. EndInv'
    BY <1>6 DEF ClipboardStop
  <2> QED
    BY <2>1, <2>2, <2>3, <2>4, <2>5
<1>7. CASE Cleanup
  BY <1>7 DEF Cleanup
<1>8. CASE Free
  BY <1>8 DEF Free
<1> QED
  BY <1>1, <1>2, <1>3, <1>4, <1>5, <1>6, <1>7, <1>8 DEF QemuThread

(* A step of the main thread keeps the invariant. *)
LEMMA MainThreadInv ==
  ASSUME Inv, ~Over, MainThread
  PROVE  Inv'
<1> USE DEF Inv, TypeOK, HandleInv, ClipInv, StartInv, EndInv, QemuSteps, UiSteps,
            Starting, Calling, PastWaiting, Request, Over, qemuVars, uiVars,
            helperVars, qmpVars, Goes
<1>1. CASE Receive
  BY <1>1 DEF Receive
<1>2. CASE SetRefresh
  <2>1. TypeOK'
    <3>1. ui' \in UiSteps
      BY <1>2 DEF SetRefresh
    <3>2. session' \in BOOLEAN
      BY <1>2 DEF SetRefresh
    <3>3. UNCHANGED <<qemuVars, released, closing, woken, helperVars, qmpVars>>
      BY <1>2 DEF SetRefresh
    <3> QED
      BY <3>1, <3>2, <3>3
  <2>2. HandleInv'
    BY <1>2 DEF SetRefresh
  <2>3. ClipInv'
    BY <1>2 DEF SetRefresh
  <2>4. StartInv'
    <3>1. CASE ui' = "greeting" /\ UNCHANGED session
      BY <1>2, <3>1 DEF SetRefresh
    <3>2. CASE ui' = "loop"
      BY <3>2
    <3> QED
      BY <1>2, <3>1, <3>2 DEF SetRefresh
  <2>5. EndInv'
    BY <1>2 DEF SetRefresh
  <2> QED
    BY <2>1, <2>2, <2>3, <2>4, <2>5
<1>3. CASE WaitReady
  BY <1>3 DEF WaitReady
<1>4. CASE QueryVersion
  BY <1>4 DEF QueryVersion
<1>5. CASE EventReturns
  BY <1>5 DEF EventReturns
<1>6. CASE WakeCalls
  <2>1. TypeOK'
    <3>1. woken' \in BOOLEAN
      BY <1>6 DEF WakeCalls
    <3>2. ui' \in UiSteps
      BY <1>6 DEF WakeCalls
    <3>3. UNCHANGED <<qemuVars, session, released, closing, helperVars, qmpVars>>
      BY <1>6 DEF WakeCalls
    <3> QED
      BY <3>1, <3>2, <3>3
  <2>2. HandleInv'
    BY <1>6 DEF WakeCalls
  <2>3. ClipInv'
    BY <1>6 DEF WakeCalls
  <2>4. StartInv'
    BY <1>6 DEF WakeCalls
  <2>5. EndInv'
    BY <1>6 DEF WakeCalls
  <2> QED
    BY <2>1, <2>2, <2>3, <2>4, <2>5
<1>7. CASE WakeReturns
  BY <1>7 DEF WakeReturns
<1>8. CASE WakeStops
  BY <1>8 DEF WakeStops
<1>9. CASE WakeGoesOn
  BY <1>9 DEF WakeGoesOn
<1>10. CASE CloseReturns
  BY <1>10 DEF CloseReturns
<1>11. CASE JoinReleases
  BY <1>11 DEF JoinReleases
<1>12. CASE JoinReturns
  BY <1>12 DEF JoinReturns
<1>13. CASE JoinDeadline
  BY <1>13 DEF JoinDeadline
<1> QED
  BY <1>1, <1>2, <1>3, <1>4, <1>5, <1>6, <1>7, <1>8, <1>9, <1>10, <1>11, <1>12, <1>13 DEF MainThread

(* A step of the clipboard's thread keeps the invariant. *)
LEMMA ClipboardInv ==
  ASSUME Inv, ~Over, Clipboard
  PROVE  Inv'
<1> USE DEF Inv, TypeOK, HandleInv, ClipInv, StartInv, EndInv, QemuSteps, UiSteps,
            Starting, Calling, PastWaiting, Request, Over, qemuVars, uiVars,
            helperVars, qmpVars, Goes
<1>1. CASE ClipCalls
  BY <1>1 DEF ClipCalls
<1>2. CASE ClipReturns
  BY <1>2 DEF ClipReturns
<1>3. CASE ClipEnds
  BY <1>3 DEF ClipEnds
<1> QED
  BY <1>1, <1>2, <1>3 DEF Clipboard

(* A step of the vertical blank's thread keeps the invariant, of which it     *)
(* touches only a type.                                                       *)
LEMMA HostVBlankInv ==
  ASSUME Inv, ~Over, HostVBlank
  PROVE  Inv'
<1>1. /\ vblank' \in {"off", "waiting", "calling"}
      /\ UNCHANGED <<clip, clip_vm, qemuVars, uiVars, woken, qmpVars>>
  BY DEF HostVBlank, VblankStart, VblankCalls, VblankReturns
<1>2. UNCHANGED <<qemu, off, stopped, overdue, freed, ui, session, released, closing, woken,
                  clip, clip_vm, version, exec>>
  BY <1>1 DEF qemuVars, uiVars, qmpVars
<1> QED
  BY <1>1, <1>2 DEF Inv, TypeOK, HandleInv, ClipInv, StartInv, EndInv

(* A step of the guest and the host keeps the invariant. *)
LEMMA EnvironmentInv ==
  ASSUME Inv, ~Over, Environment
  PROVE  Inv'
<1> USE DEF Inv, TypeOK, HandleInv, ClipInv, StartInv, EndInv, QemuSteps, UiSteps,
            Starting, Calling, PastWaiting, Request, Over, qemuVars, uiVars,
            helperVars, qmpVars, Goes
<1>1. CASE PowerOff
  BY <1>1 DEF PowerOff
<1>2. CASE Publish
  BY <1>2 DEF Publish
<1>3. CASE Wedge
  BY <1>3 DEF Wedge
<1>4. CASE QemuInitFails
  BY <1>4 DEF QemuInitFails
<1> QED
  BY <1>1, <1>2, <1>3, <1>4 DEF Environment

(* A step of the user keeps the invariant. *)
LEMMA UserInv ==
  ASSUME Inv, ~Over, User
  PROVE  Inv'
<1> USE DEF Inv, TypeOK, HandleInv, ClipInv, StartInv, EndInv, QemuSteps, UiSteps,
            Starting, Calling, PastWaiting, Request, Over, qemuVars, uiVars,
            helperVars, qmpVars, Goes
<1>1. CASE EventCalls
  BY <1>1 DEF EventCalls
<1>2. CASE CloseCalls
  BY <1>2 DEF CloseCalls
<1> QED
  BY <1>1, <1>2 DEF User

(* A reply keeps the invariant. *)
LEMMA ReplyInv ==
  ASSUME Inv, ~Over, Reply
  PROVE  Inv'
<1>1. UNCHANGED <<qemu, stopped, overdue, freed, uiVars, woken, helperVars>>
  BY DEF Reply
<1>2. off' \in {off, TRUE}
  BY DEF Reply
<1>3. TypeOK'
  <2>1. version' \in Request /\ exec' \in Request /\ off' \in BOOLEAN
    BY DEF Reply, Inv, TypeOK, Request, qmpVars
  <2> QED
    BY <1>1, <2>1 DEF Inv, TypeOK, uiVars, helperVars
<1>4. EndInv'
  BY <1>1, <1>2 DEF Inv, EndInv, uiVars
<1> QED
  BY <1>1, <1>3, <1>4 DEF Inv, HandleInv, ClipInv, StartInv, uiVars, helperVars

(* The handle's invariant is inductive. *)
LEMMA NextInv == Inv /\ [Next]_vars => Inv'
<1> SUFFICES ASSUME Inv, [Next]_vars
             PROVE  Inv'
    OBVIOUS
<1>1. CASE ~Over /\ QemuThread
  BY <1>1, QemuThreadInv
<1>2. CASE ~Over /\ MainThread
  BY <1>2, MainThreadInv
<1>3. CASE ~Over /\ Clipboard
  BY <1>3, ClipboardInv
<1>8. CASE ~Over /\ HostVBlank
  BY <1>8, HostVBlankInv
<1>4. CASE ~Over /\ Reply
  BY <1>4, ReplyInv
<1>5. CASE ~Over /\ Environment
  BY <1>5, EnvironmentInv
<1>6. CASE ~Over /\ User
  BY <1>6, UserInv
<1>7. CASE UNCHANGED vars
  BY <1>7 DEF vars, Inv, TypeOK, HandleInv, ClipInv, StartInv, EndInv, qemuVars,
      uiVars, helperVars, qmpVars
<1> QED
  BY <1>1, <1>2, <1>3, <1>4, <1>5, <1>6, <1>7, <1>8 DEF Next, Ended

(* The invariant holds in every behaviour. *)
LEMMA Invariant == Spec => []Inv
BY InitInv, NextInv, PTL DEF Spec

(* destroy frees the handle under no call of the clipboard's thread, under    *)
(* one of the front end only when the wait for its release was cut, and under *)
(* one of the vertical blank's thread, which nothing waits for, only while    *)
(* the front end is in join or that wait was cut (qemu_vm.rs start,           *)
(* clipboard.rs stop, session.rs join, screen.rs HostVBlank).                 *)
THEOREM HandleOutlivesOtherCalls == Spec => []FreedUnderVblankOnly
<1>1. Inv => FreedUnderVblankOnly
  BY DEF Inv, HandleInv, ClipInv, EndInv, FreedUnderVblankOnly, PastWaiting, Calling
<1> QED
  BY <1>1, Invariant, PTL

(* A process ends with QEMU's cleanup done, unless QEMU never started or     *)
(* never comes back (session.rs join).                                       *)
THEOREM EndsInOrder == Spec => []OrderlyExit
<1>1. Inv => OrderlyExit
  BY DEF Inv, HandleInv, EndInv, OrderlyExit
<1> QED
  BY <1>1, Invariant, PTL

(* The wait for the release is cut only while start still waits for QMP.     *)
THEOREM CutOnlyAtStart == Spec => DeadlineOnlyAtStart
<1>1. Inv /\ [Next]_vars => [overdue' # overdue => ~session]_vars
  <2> SUFFICES ASSUME Inv, Next, overdue' # overdue
               PROVE  ~session
      OBVIOUS
  <2>1. ReleaseDeadline
    BY DEF Next, QemuThread, MainThread, Clipboard, HostVBlank, Reply, Environment, User, Ended,
           QemuInit, RunReturns, WakeTheFrontEnd, SeesRelease, ClipboardStop,
           Cleanup, Free, Receive, SetRefresh, WaitReady, QueryVersion,
           EventReturns, WakeCalls, WakeReturns, WakeStops, WakeGoesOn,
           CloseReturns, JoinReleases, JoinReturns, JoinDeadline, ClipCalls,
           ClipReturns, ClipEnds, VblankStart, VblankCalls, VblankReturns, PowerOff, Publish, Wedge, QemuInitFails,
           EventCalls, CloseCalls, Goes, vars, qemuVars
  <2> QED
    BY <2>1 DEF ReleaseDeadline, MainWaits, Inv, HandleInv, StartInv, Starting
<1> QED
  BY <1>1, Invariant, PTL DEF Spec, DeadlineOnlyAtStart
=============================================================================
