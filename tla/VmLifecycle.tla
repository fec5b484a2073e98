----------------------------- MODULE VmLifecycle -----------------------------
(* Starting and ending the machine: player-core/src/qemu_vm.rs (start and    *)
(* the QEMU thread), session.rs (wake, shut_down, join), clipboard.rs and    *)
(* screen.rs (threads that call the library), qmp.rs (who waits for a reply) *)
(* and the end of the handle in embed/libqemu_embed.c (destroy).             *)
(*                                                                           *)
(* Several threads hold one raw handle, and destroy frees it. A library call *)
(* is two steps, so that the handle can be freed under it. Deadlines are     *)
(* long for a thread that can run: one passes only while the thread that is  *)
(* waited for waits itself, or is wedged.                                    *)

VARIABLES
  (* QEMU's thread, and the flags of Shared                                  *)
  qemu, off, stopped, released, overdue,
  (* the handle is freed                                                     *)
  freed,
  (* the main thread: start, then the front end's event loop, then join      *)
  ui, session, woken, closing,
  (* the clipboard thread, and its static VM                                 *)
  clip, clip_vm,
  (* the vertical blank's thread, which player-mitsuami starts               *)
  vblank,
  (* the QMP callers: query-version of start, PLAYER_QMP_EXEC's own thread   *)
  version, exec

qemuVars == <<qemu, off, stopped, overdue, freed>>
uiVars == <<ui, session, released, closing>>
helperVars == <<clip, clip_vm, vblank>>
qmpVars == <<version, exec>>
vars == <<qemuVars, uiVars, woken, helperVars, qmpVars>>

QemuSteps == {"init", "running", "wedged", "returned", "waiting", "detaching",
              "cleanup", "destroy", "finished", "failed"}
Starting == {"recv", "refresh", "greeting", "version"}
(* Inside the library, with the handle.                                     *)
Calling == {"refresh", "event", "follows", "shutdown"}
UiSteps == Starting \cup Calling
             \cup {"loop", "checks", "leaving", "joining", "exited", "killed"}
Over == ui \in {"exited", "killed"}

(* A request: a reply may come while the main loop runs, and comes at the   *)
(* latest from the cleanup, or the socket closes.                           *)
Request == {"none", "sent", "answered"}

Init ==
  /\ qemu = "init" /\ off = FALSE /\ stopped = FALSE /\ released = FALSE
  /\ overdue = FALSE /\ freed = FALSE
  /\ ui = "recv" /\ session = FALSE /\ woken = FALSE /\ closing = FALSE
  /\ clip = "off" /\ clip_vm = FALSE /\ vblank = "off"
  /\ version = "none" /\ exec = "none"

-----------------------------------------------------------------------------
(* QEMU's thread                                                             *)

(* Qemu::new, the clipboard if the machine has an agent and the host a       *)
(* clipboard, vm_start, tx.send.                                             *)
QemuInit ==
  /\ qemu = "init" /\ qemu' = "running"
  /\ \/ clip' = "polling" /\ clip_vm' = TRUE
     \/ clip' = "off" /\ clip_vm' \in BOOLEAN
  /\ UNCHANGED <<vblank, off, stopped, overdue, freed, uiVars, woken, qmpVars>>

(* Qemu::new fails: the thread panics and its sender is gone.                *)
QemuInitFails ==
  /\ qemu = "init" /\ qemu' = "failed"
  /\ UNCHANGED <<off, stopped, overdue, freed, uiVars, woken, helperVars, qmpVars>>

(* A published frame wakes the front end.                                    *)
Publish ==
  /\ qemu = "running" /\ woken' = TRUE
  /\ UNCHANGED <<qemuVars, uiVars, helperVars, qmpVars>>

(* The guest powers off; `off` is the main loop's request to end.            *)
PowerOff ==
  /\ qemu = "running" /\ off' = TRUE
  /\ UNCHANGED <<qemu, stopped, overdue, freed, uiVars, woken, helperVars, qmpVars>>

(* The main loop is stuck for good in a call that never returns.             *)
Wedge ==
  /\ qemu = "running" /\ qemu' = "wedged"
  /\ UNCHANGED <<off, stopped, overdue, freed, uiVars, woken, helperVars, qmpVars>>

RunReturns ==
  /\ qemu = "running" /\ off
  /\ qemu' = "returned" /\ stopped' = TRUE
  /\ UNCHANGED <<off, overdue, freed, uiVars, woken, helperVars, qmpVars>>

ReturnsUnseen ==
  /\ qemu = "returned" /\ qemu' = "waiting"
  /\ UNCHANGED <<off, stopped, overdue, freed, uiVars, woken, helperVars, qmpVars>>

WakeTheFrontEnd ==
  /\ qemu = "returned" /\ qemu' = "waiting"
  /\ woken' = TRUE
  /\ UNCHANGED <<off, stopped, overdue, freed, uiVars, helperVars, qmpVars>>

SeesRelease ==
  /\ qemu = "waiting" /\ released
  /\ qemu' = "detaching"
  /\ UNCHANGED <<off, stopped, overdue, freed, uiVars, woken, helperVars, qmpVars>>

(* Five seconds without a release: "cleaning up anyway".                     *)
MainWaits ==
  \/ ui \in {"greeting", "version"} /\ version # "answered"
  \/ ui = "joining"

ReleaseDeadline ==
  /\ qemu = "waiting" /\ ~released /\ MainWaits
  /\ qemu' = "detaching" /\ overdue' = TRUE
  /\ UNCHANGED <<off, stopped, freed, uiVars, woken, helperVars, qmpVars>>

(* clipboard::stop waits for the lock the clipboard's thread calls under.    *)
StopWithoutLock ==
  /\ qemu = "detaching" /\ qemu' = "cleanup"
  /\ clip_vm' = FALSE
  /\ UNCHANGED <<off, stopped, overdue, freed, uiVars, woken, clip, vblank, qmpVars>>

ClipboardStop ==
  /\ qemu = "detaching" /\ clip # "calling"
  /\ qemu' = "cleanup" /\ clip_vm' = FALSE
  /\ UNCHANGED <<off, stopped, overdue, freed, uiVars, woken, clip, vblank, qmpVars>>

(* qemu_cleanup flushes the monitor: who still waits is answered, or failed  *)
(* by the reader's end of file.                                              *)
Cleanup ==
  /\ qemu = "cleanup" /\ qemu' = "destroy"
  /\ version' = IF version = "sent" THEN "answered" ELSE version
  /\ exec' = IF exec = "sent" THEN "answered" ELSE exec
  /\ UNCHANGED <<off, stopped, overdue, freed, uiVars, woken, helperVars>>

Free ==
  /\ qemu = "destroy" /\ qemu' = "finished"
  /\ freed' = TRUE
  /\ UNCHANGED <<off, stopped, overdue, uiVars, woken, helperVars, qmpVars>>

QemuThread == \/ QemuInit \/ RunReturns \/ WakeTheFrontEnd \/ SeesRelease
              \/ ReleaseDeadline \/ ClipboardStop \/ Cleanup \/ Free

(* The monitor answers while the main loop runs; a `quit` of PLAYER_QMP_EXEC *)
(* ends the loop and is answered by the cleanup.                             *)
Reply ==
  /\ qemu = "running"
  /\ \/ version = "sent" /\ version' = "answered" /\ UNCHANGED <<exec, off>>
     \/ exec = "sent" /\ exec' = "answered" /\ UNCHANGED <<version, off>>
     \/ exec = "sent" /\ off' = TRUE /\ UNCHANGED qmpVars
  /\ UNCHANGED <<qemu, stopped, overdue, freed, uiVars, woken, helperVars>>

-----------------------------------------------------------------------------
(* The main thread                                                           *)

Goes(from, to) == ui = from /\ ui' = to

(* start: the handle comes through the channel, or the sender is gone and    *)
(* this thread panics too.                                                   *)
Receive ==
  /\ \/ qemu \notin {"init", "failed"} /\ Goes("recv", "refresh")
     \/ qemu = "failed" /\ Goes("recv", "killed")
  /\ UNCHANGED <<session, released, closing, qemuVars, woken, helperVars, qmpVars>>

(* set_refresh_ms; without a QMP pair the start ends here.                   *)
SetRefresh ==
  /\ \/ Goes("refresh", "greeting") /\ UNCHANGED session
     \/ Goes("refresh", "loop") /\ session' = TRUE
  /\ UNCHANGED <<released, closing, qemuVars, woken, helperVars, qmpVars>>

(* wait_ready, to the greeting or its own deadline; then query-version is    *)
(* sent, which fails at once on a closed socket.                             *)
WaitReady ==
  /\ Goes("greeting", "version")
  /\ version' = IF qemu \in {"destroy", "finished"} THEN "answered" ELSE "sent"
  /\ UNCHANGED <<session, released, closing, qemuVars, woken, helperVars, exec>>

(* The reply, or ten seconds without one, twice the release's deadline.      *)
QueryVersion ==
  /\ version = "answered" \/ qemu = "wedged"
  /\ Goes("version", "loop") /\ session' = TRUE
  /\ UNCHANGED <<released, closing, qemuVars, woken, helperVars, qmpVars>>

(* An event of the window: a key, a pointer, a size; vm() is None once the   *)
(* session is closing.                                                       *)
EventCalls ==
  /\ ~closing /\ Goes("loop", "event")
  /\ UNCHANGED <<session, released, closing, qemuVars, woken, helperVars, qmpVars>>

EventReturns ==
  /\ Goes("event", "loop")
  /\ UNCHANGED <<session, released, closing, qemuVars, woken, helperVars, qmpVars>>

(* wake: it asks the library first, and then looks whether the loop ended.   *)
WakeCalls ==
  /\ woken /\ woken' = FALSE
  /\ Goes("loop", "follows")
  /\ UNCHANGED <<session, released, closing, qemuVars, helperVars, qmpVars>>

WakeReturns ==
  /\ Goes("follows", "checks")
  /\ UNCHANGED <<session, released, closing, qemuVars, woken, helperVars, qmpVars>>

WakeStops ==
  /\ stopped /\ Goes("checks", "leaving")
  /\ closing' = TRUE
  /\ UNCHANGED <<session, released, qemuVars, woken, helperVars, qmpVars>>

(* PLAYER_QMP_EXEC runs once, on a thread of its own: run here, it would be  *)
(* this thread that waits for the reply.                                     *)
ExecInWake ==
  /\ ~stopped
  /\ IF exec = "none"
     THEN Goes("checks", "version") /\ exec' = "sent" /\ version' = "sent"
     ELSE Goes("checks", "loop") /\ UNCHANGED qmpVars
  /\ UNCHANGED <<session, released, closing, qemuVars, woken, helperVars>>

WakeGoesOn ==
  /\ ~stopped /\ Goes("checks", "loop")
  /\ exec' \in IF exec = "none" THEN {"none", "sent"} ELSE {exec}
  /\ UNCHANGED <<session, released, closing, qemuVars, woken, helperVars, version>>

(* The window is closed: vm_shutdown, and the front end leaves its loop.     *)
CloseCalls ==
  /\ ~closing /\ Goes("loop", "shutdown")
  /\ UNCHANGED <<session, released, closing, qemuVars, woken, helperVars, qmpVars>>

CloseReturns ==
  /\ Goes("shutdown", "leaving")
  /\ closing' = TRUE
  /\ off' = TRUE
  /\ UNCHANGED <<session, released, qemu, stopped, overdue, freed, woken, helperVars, qmpVars>>

JoinReleases ==
  /\ Goes("leaving", "joining")
  /\ released' = TRUE /\ closing' = TRUE
  /\ UNCHANGED <<session, qemuVars, woken, helperVars, qmpVars>>

JoinAtOnce ==
  /\ Goes("joining", "exited")
  /\ UNCHANGED <<session, released, closing, qemuVars, woken, helperVars, qmpVars>>

(* QEMU's thread is done; the front end lets go of what it holds, which      *)
(* tells the vertical blank's thread to stop, and exits at once.             *)
JoinReturns ==
  /\ qemu = "finished" /\ Goes("joining", "exited")
  /\ UNCHANGED <<session, released, closing, qemuVars, woken, helperVars, qmpVars>>

(* Fifteen seconds, and QEMU's thread is not there, stuck or not asked to    *)
(* stop: hard_exit.                                                          *)
JoinForever == FALSE /\ UNCHANGED vars

JoinDeadline ==
  /\ qemu = "wedged" \/ (qemu = "running" /\ ~off)
  /\ Goes("joining", "killed")
  /\ UNCHANGED <<session, released, closing, qemuVars, woken, helperVars, qmpVars>>

MainThread == \/ Receive \/ SetRefresh \/ WaitReady \/ QueryVersion
              \/ EventReturns \/ WakeCalls \/ WakeReturns
              \/ WakeStops \/ WakeGoesOn \/ CloseReturns
              \/ JoinReleases \/ JoinReturns \/ JoinDeadline

-----------------------------------------------------------------------------
(* The clipboard's thread: a call under the static's lock, until it is None. *)

ClipCalls ==
  /\ clip = "polling" /\ clip_vm /\ clip' = "calling"
  /\ UNCHANGED <<clip_vm, vblank, qemuVars, uiVars, woken, qmpVars>>

ClipReturns ==
  /\ clip = "calling" /\ clip' = "polling"
  /\ UNCHANGED <<clip_vm, vblank, qemuVars, uiVars, woken, qmpVars>>

ClipEnds ==
  /\ clip = "polling" /\ ~clip_vm /\ clip' = "off"
  /\ UNCHANGED <<clip_vm, vblank, qemuVars, uiVars, woken, qmpVars>>

-----------------------------------------------------------------------------
(* The vertical blank's thread (HostVBlank): it has a copy of the handle, in *)
(* no static that anybody could take from it, and runs until the process     *)
(* exits.                                                                    *)

VblankStart ==
  /\ vblank = "off" /\ ui = "loop" /\ ~closing
  /\ vblank' = "waiting"
  /\ UNCHANGED <<clip, clip_vm, qemuVars, uiVars, woken, qmpVars>>

VblankCalls ==
  /\ vblank = "waiting" /\ vblank' = "calling"
  /\ UNCHANGED <<clip, clip_vm, qemuVars, uiVars, woken, qmpVars>>

VblankReturns ==
  /\ vblank = "calling" /\ vblank' = "waiting"
  /\ UNCHANGED <<clip, clip_vm, qemuVars, uiVars, woken, qmpVars>>

-----------------------------------------------------------------------------

Environment == PowerOff \/ Publish \/ Wedge \/ QemuInitFails
User == EventCalls \/ CloseCalls
Clipboard == ClipCalls \/ ClipReturns \/ ClipEnds
HostVBlank == VblankStart \/ VblankCalls \/ VblankReturns

(* The process is over; nothing else runs.                                   *)
Ended == Over /\ UNCHANGED vars

Next ==
  \/ ~Over /\ (QemuThread \/ MainThread \/ Clipboard \/ HostVBlank \/ Reply
                \/ Environment \/ User)
  \/ Ended

(* Every thread that can run does, and the event loop's queue is one: a wake *)
(* gets its turn between the window's events. The clipboard's thread sleeps  *)
(* half a second between its calls, so stop gets the lock. Nothing is asked  *)
(* of the guest, of the user or of the host's screen.                        *)
Fairness ==
  /\ WF_vars(~Over /\ QemuThread) /\ WF_vars(~Over /\ MainThread)
  /\ SF_vars(~Over /\ WakeCalls) /\ SF_vars(~Over /\ ClipboardStop)
  /\ WF_vars(~Over /\ ClipReturns) /\ WF_vars(~Over /\ Reply)

Spec == Init /\ [][Next]_vars /\ Fairness

-----------------------------------------------------------------------------

TypeOK ==
  /\ qemu \in QemuSteps /\ ui \in UiSteps
  /\ clip \in {"off", "polling", "calling"}
  /\ vblank \in {"off", "waiting", "calling"}
  /\ off \in BOOLEAN /\ stopped \in BOOLEAN /\ released \in BOOLEAN
  /\ overdue \in BOOLEAN /\ freed \in BOOLEAN /\ woken \in BOOLEAN
  /\ closing \in BOOLEAN /\ session \in BOOLEAN /\ clip_vm \in BOOLEAN
  /\ version \in Request /\ exec \in Request

(* Under whose call destroy may free the handle: the clipboard's thread is   *)
(* never inside the library with a freed one, and the front end only if the  *)
(* wait for its release was cut at the deadline. The vertical blank's thread *)
(* may be, as nothing waits for it, but in no session that still runs: the   *)
(* front end is then in join, from which it exits (HostVBlank, Session::join,*)
(* clipboard::stop; qemu_embed_vblank passes the pointer on and does not     *)
(* look inside it).                                                          *)
FreedUnderVblankOnly ==
  freed => /\ clip # "calling"
           /\ ui \in Calling => overdue
           /\ vblank = "calling" => overdue \/ ui \in {"joining", "exited"}

(* The wait for the release is cut only under the start's own QMP exchange:  *)
(* once there is a session, nothing the main thread waits for waits for it   *)
(* (the reply to a PLAYER_QMP_EXEC `quit` comes only once QEMU has torn      *)
(* down).                                                                    *)
DeadlineOnlyAtStart == [][overdue' # overdue => ~session]_vars

(* A process that was not cut off ends with QEMU's cleanup done, and one is  *)
(* cut off only when QEMU never started or never comes back.                 *)
OrderlyExit ==
  /\ ui = "exited" => freed
  /\ ui = "killed" => qemu \in {"failed", "wedged"}

(* A guest that powers off, and a closed window, end the process.            *)
EndEnds == (off /\ qemu # "wedged") ~> (Over \/ qemu = "wedged")
CloseEnds == closing ~> Over
=============================================================================
