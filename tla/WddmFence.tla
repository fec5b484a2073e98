------------------------------ MODULE WddmFence ------------------------------
(* Fences, flips and the vertical blank of the WDDM kernel driver             *)
(* (guest-tools/src/d3dptvid/wddm/km/d3dptkmd.c) on the display adapter's     *)
(* interrupt registers (d3dpt/hw/d3dpt_vga.c).                                *)
(*                                                                           *)
(* dxgkrnl submits work and flips one at a time, and preempts between two;   *)
(* it turns the vertical blank on and off from another CPU; the device       *)
(* interrupts a third. DxgkCbSynchronizeExecution and the interrupt routine  *)
(* share one lock: what runs under it is one step, but for the interrupt     *)
(* routine, which reads vsync_on twice and vsync_on changes outside the lock.*)
(* A flip's address is the id of its submission.                             *)
EXTENDS Naturals

CONSTANT MaxFence           (* how many submissions dxgkrnl makes             *)
ASSUME MaxFenceAssumption == MaxFence \in Nat \ {0}

VARIABLES
  (* the adapter's CAPS, as StartDevice read them                            *)
  vsync_irq, fence_irq,
  (* the device: the interrupt registers, FENCE_DONE and OFFSET              *)
  irq_enable, irq_status, fence_reg, offset,
  (* the driver's D3DPT_ADAPTER                                              *)
  vsync_on, flip_defer, flip_pending, flip_addr, fence_held, held_fence,
  fence_done, fence_notify, scan_addr,
  (* SubmitCommand: where it is, what it submits and the last fence          *)
  sub, kind, fence,
  (* ControlInterrupt, the interrupt routine, the timer and its tick         *)
  ctl, isr, timer, tick,
  (* dxgkrnl: the highest fence reported to it, whether the DPC is queued,   *)
  (* the reports its DPC has seen, the flip it waits to see on the scanout,  *)
  (* and (history) the flips the scanout took                                *)
  reported, dpc, heard, waiting, shown

caps == <<vsync_irq, fence_irq>>
device == <<irq_enable, irq_status, fence_reg, offset>>
flipVars == <<flip_pending, flip_addr, fence_held, held_fence, scan_addr>>
fenceVars == <<fence_done, fence_notify>>
subVars == <<sub, kind, fence, flip_defer>>
threads == <<ctl, isr, timer, tick>>
dxgk == <<reported, dpc, heard, waiting, shown>>
vars == <<caps, device, vsync_on, flipVars, fenceVars, subVars, threads, dxgk>>

Irqs == {"VBLANK", "DMA"}
Kinds == {"work", "flip", "nowait"}      (* flip: with an interval            *)
Desktop == 0                             (* the primary's address             *)

Init ==
  /\ vsync_irq \in BOOLEAN /\ fence_irq \in BOOLEAN
  /\ fence_irq => vsync_irq
  /\ irq_enable = (IF fence_irq THEN {"DMA"} ELSE {})
  /\ irq_status = {} /\ fence_reg = 0 /\ offset = Desktop
  /\ vsync_on = FALSE /\ flip_defer = FALSE /\ flip_pending = FALSE
  /\ flip_addr = 0 /\ fence_held = FALSE /\ held_fence = 0
  /\ fence_done = 0 /\ fence_notify = 0 /\ scan_addr = Desktop
  /\ sub = "idle" /\ kind = "work" /\ fence = 0
  /\ ctl = "idle" /\ isr = "idle" /\ timer = FALSE /\ tick = FALSE
  /\ reported = 0 /\ dpc = FALSE /\ heard = 0 /\ waiting = 0 /\ shown = {}

(* The interrupt lock is free.                                              *)
Lock == isr = "idle"

-----------------------------------------------------------------------------
(* Under the interrupt lock                                                  *)

(* The FENCE register's write raises the DMA interrupt (fence_irq), or the   *)
(* fence is reported here as an interrupt would.                             *)
FenceDone(f) ==
  /\ fence_done' = f
  /\ IF fence_irq
     THEN /\ fence_reg' = f
          /\ irq_status' = irq_status \cup (irq_enable \cap {"DMA"})
          /\ UNCHANGED fence_notify
     ELSE fence_notify' = f /\ UNCHANGED <<fence_reg, irq_status>>

FenceDoneSync(f) == FenceDone(f) /\ reported' = (IF fence_irq THEN reported ELSE f)

NoFenceDone == UNCHANGED <<fence_done, fence_reg, irq_status, fence_notify>>

ShowFlipAgain ==
  IF flip_pending
  THEN /\ offset' = flip_addr /\ scan_addr' = flip_addr
       /\ shown' = shown \cup {flip_addr} /\ UNCHANGED flip_pending
  ELSE UNCHANGED <<offset, scan_addr, shown, flip_pending>>

ShowFlip ==
  IF flip_pending
  THEN /\ offset' = flip_addr /\ scan_addr' = flip_addr
       /\ shown' = shown \cup {flip_addr} /\ flip_pending' = FALSE
  ELSE UNCHANGED <<offset, scan_addr, shown, flip_pending>>

ReleaseFenceOnly(f) ==
  /\ fence_held' = FALSE
  /\ LET last == IF f # 0 THEN f ELSE IF fence_held THEN held_fence ELSE 0
     IN  IF last # 0
         THEN FenceDoneSync(last) /\ dpc' = (dpc \/ ~fence_irq)
         ELSE NoFenceDone /\ UNCHANGED <<reported, dpc>>
  /\ UNCHANGED <<offset, scan_addr, shown, flip_pending, flip_addr, held_fence>>

(* The scanout takes the held flip's address, then its fence is done, and    *)
(* f's if there is one behind it (0: none).                                  *)
ReleaseFlipSync(f) ==
  /\ ShowFlip
  /\ fence_held' = FALSE
  /\ LET last == IF f # 0 THEN f ELSE IF fence_held THEN held_fence ELSE 0
     IN  IF last # 0
         THEN FenceDoneSync(last) /\ dpc' = (dpc \/ ~fence_irq)
         ELSE NoFenceDone /\ UNCHANGED <<reported, dpc>>
  /\ UNCHANGED <<flip_addr, held_fence>>

(* The flip goes first, then CRTC_VSYNC says what the scanout shows.         *)
NotifyVsync ==
  /\ ShowFlip
  /\ fence_held' = FALSE
  /\ IF fence_held THEN FenceDoneSync(held_fence) ELSE NoFenceDone /\ UNCHANGED reported
  /\ waiting' = IF scan_addr' = waiting THEN 0 ELSE waiting
  /\ dpc' = TRUE
  /\ UNCHANGED <<flip_addr, held_fence>>

-----------------------------------------------------------------------------
(* dxgkrnl's scheduler: submissions and preemptions, one at a time           *)

(* MaxQueuedFlipOnVSync is 1: no flip is submitted while one is waited for.  *)
SubmitCommand(k) ==
  /\ sub = "idle" /\ fence < MaxFence
  /\ k # "work" => waiting = 0
  /\ sub' = "run" /\ kind' = k /\ fence' = fence + 1
  /\ flip_defer' = (k = "flip" /\ vsync_on)
  /\ waiting' = IF k = "flip" THEN fence' ELSE waiting
  /\ UNCHANGED <<caps, device, vsync_on, flipVars, fenceVars, threads,
                 reported, dpc, heard, shown>>

(* run(): a deferred flip leaves its address in flip_addr. The flip's packet *)
(* is the driver's own (d3dpt_present), in system memory, and its source an  *)
(* allocation whose only segment is VRAM (SupportedReadSegmentSet), which    *)
(* dxgkrnl has resident when it submits: what run does of a packet with      *)
(* another magic, a source outside VRAM or a buffer with no address, it is   *)
(* never given. (It would leave the flip_addr of the flip before.)           *)
Run ==
  /\ sub = "run" /\ sub' = "finish"
  /\ \/ /\ kind = "work"
        /\ UNCHANGED <<flip_addr, offset, scan_addr, shown>>
     \/ /\ kind # "work" /\ flip_defer
        /\ flip_addr' = fence
        /\ UNCHANGED <<offset, scan_addr, shown>>
     \/ /\ kind # "work" /\ ~flip_defer
        /\ offset' = fence /\ scan_addr' = fence /\ shown' = shown \cup {fence}
        /\ UNCHANGED flip_addr
  /\ UNCHANGED <<caps, irq_enable, irq_status, fence_reg, vsync_on, flip_pending,
                 fence_held, held_fence, fenceVars, kind, fence, flip_defer,
                 threads, reported, dpc, heard, waiting>>

(* complete_fence: held behind a flip that waits (this one, or an earlier    *)
(* one), or done now, with what was held.                                    *)
HoldsForever == flip_defer \/ fence_held

Holds == vsync_on /\ (flip_defer \/ fence_held)

Hold ==
  /\ flip_pending' = (flip_pending \/ flip_defer)
  /\ fence_held' = TRUE /\ held_fence' = fence
  /\ NoFenceDone /\ UNCHANGED <<reported, offset, scan_addr, shown, flip_addr, dpc>>

FinishSubmission ==
  /\ sub = "finish" /\ Lock
  /\ sub' = "idle" /\ flip_defer' = FALSE
  /\ IF Holds THEN Hold ELSE ReleaseFlipSync(fence)
  /\ UNCHANGED <<caps, irq_enable, vsync_on, kind, fence, threads, heard, waiting>>

PreemptLeavesHeld ==
  /\ sub = "idle" /\ Lock
  /\ NoFenceDone
  /\ reported' = fence_done' /\ dpc' = TRUE
  /\ UNCHANGED <<caps, irq_enable, offset, shown, vsync_on, flipVars, subVars,
                 threads, heard, waiting>>

PreemptAnswersSubmitted ==
  /\ sub = "idle" /\ Lock
  /\ NoFenceDone
  /\ reported' = fence /\ dpc' = TRUE
  /\ UNCHANGED <<caps, irq_enable, offset, shown, vsync_on, flipVars, subVars,
                 threads, heard, waiting>>

(* Everything that ran is done: a held flip is released, and the answer      *)
(* names the last fence.                                                     *)
PreemptCommand ==
  /\ sub = "idle" /\ Lock
  /\ ShowFlip /\ fence_held' = FALSE
  /\ IF fence_held THEN FenceDone(held_fence) ELSE NoFenceDone
  /\ reported' = fence_done' /\ dpc' = TRUE
  /\ UNCHANGED <<caps, irq_enable, vsync_on, flip_addr, held_fence, subVars,
                 threads, heard, waiting>>

(* A mode set points the scanout at the primary, with no flip under way.     *)
SetVidPnSourceAddress ==
  /\ waiting = 0 /\ sub = "idle"
  /\ offset' = Desktop /\ scan_addr' = Desktop
  /\ UNCHANGED <<caps, irq_enable, irq_status, fence_reg, vsync_on, flip_pending,
                 flip_addr, fence_held, held_fence, fenceVars, subVars, threads, dxgk>>

-----------------------------------------------------------------------------
(* ControlInterrupt: the vertical blank on and off                           *)

ControlOn ==
  /\ ctl = "idle" /\ vsync_on' = TRUE
  /\ ctl' = (IF vsync_irq THEN "unmask" ELSE "idle")
  /\ timer' = (timer \/ (~vsync_irq /\ ~vsync_on))
  /\ UNCHANGED <<caps, device, flipVars, fenceVars, subVars, isr, tick, dxgk>>

Unmask ==
  /\ ctl = "unmask" /\ ctl' = "idle"
  /\ irq_enable' = irq_enable \cup {"VBLANK"}
  /\ UNCHANGED <<caps, irq_status, fence_reg, offset, vsync_on, flipVars, fenceVars,
                 subVars, isr, timer, tick, dxgk>>

(* vsync_stop                                                                *)
ControlOff ==
  /\ ctl = "idle" /\ vsync_on' = FALSE /\ ctl' = "release"
  /\ UNCHANGED <<caps, device, flipVars, fenceVars, subVars, isr, timer, tick, dxgk>>

StopKeepsFlip ==
  /\ ctl = "release" /\ Lock /\ ctl' = "mask"
  /\ UNCHANGED <<caps, device, vsync_on, flipVars, fenceVars, subVars, isr, timer,
                 tick, dxgk>>

ReleaseFlip ==
  /\ ctl = "release" /\ Lock /\ ctl' = "mask"
  /\ ReleaseFlipSync(0)
  /\ UNCHANGED <<caps, irq_enable, vsync_on, subVars, isr, timer, tick, heard, waiting>>

MaskKeepsPending ==
  /\ ctl = "mask" /\ ctl' = "idle"
  /\ irq_enable' = irq_enable \ {"VBLANK"}
  /\ timer' = FALSE
  /\ UNCHANGED <<caps, irq_status, fence_reg, offset, vsync_on, flipVars, fenceVars,
                 subVars, isr, tick, dxgk>>

Mask ==
  /\ ctl = "mask" /\ ctl' = "idle"
  /\ irq_enable' = irq_enable \ {"VBLANK"}
  /\ irq_status' = irq_status \cap irq_enable'
  /\ timer' = FALSE
  /\ UNCHANGED <<caps, fence_reg, offset, vsync_on, flipVars, fenceVars, subVars,
                 isr, tick, dxgk>>

-----------------------------------------------------------------------------
(* The device and its interrupt                                              *)

(* The guest-clock timer or the host screen's blank.                         *)
RaiseVblank ==
  /\ "VBLANK" \in irq_enable \ irq_status
  /\ irq_status' = irq_status \cup {"VBLANK"}
  /\ UNCHANGED <<caps, irq_enable, fence_reg, offset, vsync_on, flipVars, fenceVars,
                 subVars, threads, dxgk>>

(* The routine up to the vertical blank: what is pending is acknowledged, a  *)
(* fence reported; vsync_on is read a first time for the DPC.                *)
Interrupt ==
  /\ vsync_irq /\ Lock /\ irq_status # {}
  /\ irq_status' = {}
  /\ isr' = (IF "VBLANK" \in irq_status THEN "vblank" ELSE "idle")
  /\ IF "DMA" \in irq_status
     THEN /\ fence_notify' = fence_reg /\ reported' = fence_reg
          /\ dpc' = (dpc \/ "VBLANK" \notin irq_status \/ ~vsync_on)
     ELSE UNCHANGED <<fence_notify, reported, dpc>>
  /\ UNCHANGED <<caps, irq_enable, fence_reg, offset, vsync_on, flipVars, fence_done,
                 subVars, ctl, timer, tick, heard, waiting, shown>>

(* And the vertical blank, if vsync_on still says so.                        *)
InterruptVblank ==
  /\ isr = "vblank" /\ isr' = "idle"
  /\ \/ vsync_on /\ NotifyVsync
     \/ /\ ~vsync_on
        /\ NoFenceDone
        /\ UNCHANGED <<reported, offset, scan_addr, shown, flip_pending, fence_held,
                       flip_addr, held_fence, dpc, waiting>>
  /\ UNCHANGED <<caps, irq_enable, vsync_on, subVars, ctl, timer, tick, heard>>

(* No CAP_IRQ: a periodic timer, whose DPC reads vsync_on before the lock.   *)
VsyncTick ==
  /\ timer /\ vsync_on /\ ~tick /\ tick' = TRUE
  /\ UNCHANGED <<caps, device, vsync_on, flipVars, fenceVars, subVars, ctl, isr,
                 timer, dxgk>>

TickNotifies ==
  /\ tick /\ Lock /\ tick' = FALSE
  /\ NotifyVsync
  /\ UNCHANGED <<caps, irq_enable, vsync_on, subVars, ctl, isr, timer, heard>>

Dpc ==
  /\ dpc /\ dpc' = FALSE /\ heard' = reported
  /\ UNCHANGED <<caps, device, vsync_on, flipVars, fenceVars, subVars, threads,
                 reported, waiting, shown>>

-----------------------------------------------------------------------------
Next ==
  \/ \E k \in Kinds : SubmitCommand(k)
  \/ Run \/ FinishSubmission \/ PreemptCommand \/ SetVidPnSourceAddress
  \/ ControlOn \/ Unmask \/ ControlOff \/ ReleaseFlip \/ Mask
  \/ RaiseVblank \/ Interrupt \/ InterruptVblank
  \/ VsyncTick \/ TickNotifies \/ Dpc

Spec == Init /\ [][Next]_vars

(* A routine that began goes on, the interrupt lock is granted in the end,   *)
(* and while the vertical blank is unmasked one comes. Nothing makes dxgkrnl *)
(* submit, preempt or switch the vertical blank.                             *)
Fairness ==
  /\ WF_vars(Run) /\ SF_vars(FinishSubmission)
  /\ WF_vars(Unmask) /\ SF_vars(ReleaseFlip) /\ WF_vars(Mask)
  /\ WF_vars(RaiseVblank) /\ SF_vars(Interrupt) /\ WF_vars(InterruptVblank)
  /\ WF_vars(VsyncTick) /\ SF_vars(TickNotifies) /\ WF_vars(Dpc)

FairSpec == Spec /\ Fairness

-----------------------------------------------------------------------------
(* Properties                                                                *)

(* The values every variable takes; a pending interrupt is an enabled one    *)
(* (fb_irq_enable: nothing stays pending that is off).                       *)
Fences == 0 .. MaxFence
TypeOK ==
  /\ vsync_irq \in BOOLEAN /\ fence_irq \in BOOLEAN
  /\ irq_enable \in SUBSET Irqs /\ irq_status \in SUBSET irq_enable
  /\ fence_reg \in Fences /\ offset \in Fences /\ scan_addr \in Fences
  /\ vsync_on \in BOOLEAN /\ flip_defer \in BOOLEAN
  /\ flip_pending \in BOOLEAN /\ fence_held \in BOOLEAN
  /\ flip_addr \in Fences /\ held_fence \in Fences
  /\ fence_done \in Fences /\ fence_notify \in Fences
  /\ sub \in {"idle", "run", "finish"} /\ kind \in Kinds /\ fence \in Fences
  /\ ctl \in {"idle", "unmask", "release", "mask"} /\ isr \in {"idle", "vblank"}
  /\ timer \in BOOLEAN /\ tick \in BOOLEAN /\ dpc \in BOOLEAN
  /\ reported \in Fences /\ heard \in Fences /\ waiting \in Fences
  /\ shown \in SUBSET Fences

(* A fence is held only while a vertical blank will come for it, or the stop *)
(* that releases it is on its way (vsync_stop, finish_submission: nothing    *)
(* waits for a vertical blank that will not come).                           *)
HeldIsReleased == fence_held => vsync_on \/ ctl = "release"

(* While a flip waits for the vertical blank, neither its own fence nor one  *)
(* submitted behind it is done or reported done.                             *)
FenceWaitsForFlip ==
  flip_pending => /\ fence_held
                  /\ fence_done < flip_addr /\ reported < flip_addr

(* dxgkrnl never hears of a fence before the work ran, and what it is told   *)
(* never goes back: not by a held fence, the DMA interrupt, a preemption or  *)
(* their order.                                                              *)
FencesInOrder ==
  [][/\ reported' >= reported /\ fence_done' >= fence_done
     /\ reported' <= fence_done']_vars

(* A preemption is answered with every fence done (notify_preempted): none   *)
(* is completed after dxgkrnl took it for preempted.                         *)
PreemptAnswersAll == [][PreemptCommand => reported' = fence]_vars

(* The scanout never returns to an older flip: it moves forward, or to the   *)
(* primary at a mode set.                                                    *)
ScanoutInOrder == [][offset' >= offset \/ offset' = Desktop]_vars

(* Every submission is reported done, whatever is switched meanwhile; and    *)
(* where fences have no interrupt of their own, with a DPC behind it, so     *)
(* that dxgkrnl's scheduler hears of it. (With one, vsync_stop can fall      *)
(* between the interrupt routine's two looks at vsync_on: the README.)       *)
EveryFenceReported ==
  \A f \in 1 .. MaxFence :
    /\ (fence >= f) ~> (reported >= f)
    /\ (~fence_irq /\ fence >= f) ~> (heard >= f)

(* "The scanout takes the flip's address, then the fences are done"          *)
(* (release_flip_sync): a flip whose fence is done was shown.                *)
FlipBeforeFence ==
  (kind # "work" /\ fence_done >= fence) => fence \in shown
=============================================================================
