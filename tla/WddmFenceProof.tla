--------------------------- MODULE WddmFenceProof ---------------------------
(* What holds of fences, flips and the vertical blank for any number of      *)
(* submissions: the inductive invariant of WddmFence and its consequences.   *)
EXTENDS WddmFence, TLAPS

(* FENCE_DONE is what the driver wrote last, only a driver that reports by   *)
(* it enables its interrupt, and scan_addr is what the scanout shows.        *)
Registers ==
  /\ fence_irq => vsync_irq /\ fence_reg = fence_done
  /\ "DMA" \in irq_enable => fence_irq
  /\ scan_addr = offset

(* Everything submitted is done or held, the last held fence stands for all  *)
(* of them, and the submission being run comes after it.                     *)
Ran == IF sub = "idle" THEN fence ELSE fence - 1

InFlight ==
  /\ sub # "idle" => fence >= 1
  /\ fence_held => held_fence = Ran /\ fence_done < Ran
  /\ ~fence_held => fence_done = Ran
  /\ reported <= fence_done

(* Where the flip that dxgkrnl waits for is: run and not yet held, pending,  *)
(* or none; an older address is on the scanout until then.                   *)
FlipPlace ==
  /\ offset <= fence
  /\ flip_pending => waiting = flip_addr /\ flip_addr <= Ran /\ offset < flip_addr
  /\ sub = "run" => offset < fence
  /\ flip_defer => sub # "idle" /\ kind = "flip" /\ waiting = fence /\ offset < fence
  /\ flip_defer /\ sub = "finish" => flip_addr = fence
  /\ sub # "idle" /\ kind # "work" => ~flip_pending

IInv == TypeOK /\ HeldIsReleased /\ FenceWaitsForFlip /\ Registers /\ InFlight /\ FlipPlace
(* TypeOK in four parts, for the provers: sets, numbers, Booleans and steps.  *)
DeviceType == irq_enable \in SUBSET Irqs /\ irq_status \in SUBSET irq_enable /\ shown \in SUBSET Fences
NumberType ==
  /\ fence_reg \in Fences /\ offset \in Fences /\ scan_addr \in Fences
  /\ flip_addr \in Fences /\ held_fence \in Fences /\ fence_done \in Fences
  /\ fence_notify \in Fences /\ fence \in Fences /\ reported \in Fences
  /\ heard \in Fences /\ waiting \in Fences
FlagType ==
  /\ vsync_irq \in BOOLEAN /\ fence_irq \in BOOLEAN /\ vsync_on \in BOOLEAN
  /\ flip_defer \in BOOLEAN /\ flip_pending \in BOOLEAN /\ fence_held \in BOOLEAN
  /\ timer \in BOOLEAN /\ tick \in BOOLEAN /\ dpc \in BOOLEAN
PlaceType ==
  /\ sub \in {"idle", "run", "finish"} /\ kind \in Kinds
  /\ ctl \in {"idle", "unmask", "release", "mask"} /\ isr \in {"idle", "vblank"}

(* The parts make up the invariant, before and after a step.                  *)
LEMMA TypeParts ==
  /\ DeviceType /\ NumberType /\ FlagType /\ PlaceType => TypeOK
  /\ (DeviceType /\ NumberType /\ FlagType /\ PlaceType)' => TypeOK'
  BY DEF DeviceType, NumberType, FlagType, PlaceType, TypeOK

(* The invariant holds at the start.                                         *)
LEMMA InitIInv == Init => IInv
<1> SUFFICES ASSUME Init PROVE IInv
  OBVIOUS
<1> USE MaxFenceAssumption DEF Init
<1>1. TypeOK
  <2>1. DeviceType
    BY DEF DeviceType, Irqs
  <2>2. NumberType
    BY DEF NumberType, Fences, Desktop
  <2>3. FlagType
    BY DEF FlagType
  <2>4. PlaceType
    BY DEF PlaceType, Kinds
  <2> QED
    BY <2>1, <2>2, <2>3, <2>4, TypeParts
<1>2. HeldIsReleased /\ FenceWaitsForFlip
  BY DEF HeldIsReleased, FenceWaitsForFlip
<1>3. Registers
  BY DEF Registers, Desktop
<1>4. InFlight /\ FlipPlace
  BY DEF InFlight, FlipPlace, Ran, Desktop
<1> QED
  BY <1>1, <1>2, <1>3, <1>4 DEF IInv

(* Every step keeps the invariant.                                           *)
LEMMA NextIInv == IInv /\ [Next]_vars => IInv'
<1> SUFFICES ASSUME IInv, [Next]_vars
             PROVE  IInv'
  OBVIOUS
<1> USE MaxFenceAssumption DEF IInv, TypeOK, HeldIsReleased, FenceWaitsForFlip, Registers,
        InFlight, FlipPlace, Ran, Fences, Irqs, Kinds,
        caps, device, flipVars, fenceVars, subVars, threads, dxgk
<1>1. ASSUME NEW k \in Kinds, SubmitCommand(k)
      PROVE  IInv'
  BY <1>1 DEF SubmitCommand
<1>2. CASE Run
  <2> USE <1>2 DEF Run
  <2>1. TypeOK'
    <3>1. DeviceType'
      BY DEF DeviceType
    <3>2. NumberType'
      BY DEF NumberType
    <3>3. FlagType'
      BY DEF FlagType
    <3>4. PlaceType'
      BY DEF PlaceType
    <3> QED
      BY <3>1, <3>2, <3>3, <3>4, TypeParts
  <2>2. HeldIsReleased'
    OBVIOUS
  <2>3. FenceWaitsForFlip'
    OBVIOUS
  <2>4. Registers'
    OBVIOUS
  <2>5. InFlight'
    OBVIOUS
  <2>6. FlipPlace'
    OBVIOUS
  <2> QED
    BY <2>1, <2>2, <2>3, <2>4, <2>5, <2>6
<1>3. CASE FinishSubmission
  <2> USE <1>3 DEF FinishSubmission, Holds, Hold, Lock, ReleaseFlipSync, ShowFlip, FenceDoneSync, FenceDone, NoFenceDone
  <2>1. TypeOK'
    <3>1. DeviceType'
      BY DEF DeviceType
    <3>2. NumberType'
      BY DEF NumberType
    <3>3. FlagType'
      BY DEF FlagType
    <3>4. PlaceType'
      BY DEF PlaceType
    <3> QED
      BY <3>1, <3>2, <3>3, <3>4, TypeParts
  <2>2. HeldIsReleased'
    OBVIOUS
  <2>3. FenceWaitsForFlip'
    <3>1. CASE vsync_on /\ flip_defer
      <4>1. flip_addr' = fence /\ fence_done' = fence_done /\ reported' = reported /\ fence_held'
        BY <3>1
      <4>2. fence_done < fence /\ reported <= fence_done
        OBVIOUS
      <4> QED
        BY <4>1, <4>2
    <3>2. CASE vsync_on /\ ~flip_defer /\ fence_held
      BY <3>2
    <3>3. CASE ~(vsync_on /\ (flip_defer \/ fence_held))
      BY <3>3
    <3> QED
      BY <3>1, <3>2, <3>3
  <2>4. Registers'
    OBVIOUS
  <2>5. InFlight'
    OBVIOUS
  <2>6. FlipPlace'
    OBVIOUS
  <2> QED
    BY <2>1, <2>2, <2>3, <2>4, <2>5, <2>6
<1>4. CASE PreemptCommand
  <2> USE <1>4 DEF PreemptCommand, Lock, ShowFlip, FenceDone, NoFenceDone
  <2>1. TypeOK'
    <3>1. DeviceType'
      BY DEF DeviceType
    <3>2. NumberType'
      BY DEF NumberType
    <3>3. FlagType'
      BY DEF FlagType
    <3>4. PlaceType'
      BY DEF PlaceType
    <3> QED
      BY <3>1, <3>2, <3>3, <3>4, TypeParts
  <2>2. HeldIsReleased'
    OBVIOUS
  <2>3. FenceWaitsForFlip'
    OBVIOUS
  <2>4. Registers'
    OBVIOUS
  <2>5. InFlight'
    OBVIOUS
  <2>6. FlipPlace'
    OBVIOUS
  <2> QED
    BY <2>1, <2>2, <2>3, <2>4, <2>5, <2>6
<1>5. CASE SetVidPnSourceAddress
  BY <1>5 DEF SetVidPnSourceAddress, Desktop
<1>6. CASE ControlOn
  BY <1>6 DEF ControlOn
<1>7. CASE Unmask
  BY <1>7 DEF Unmask
<1>8. CASE ControlOff
  <2> USE <1>8 DEF ControlOff
  <2>1. TypeOK'
    <3>1. DeviceType'
      BY DEF DeviceType
    <3>2. NumberType'
      BY DEF NumberType
    <3>3. FlagType'
      BY DEF FlagType
    <3>4. PlaceType'
      BY DEF PlaceType
    <3> QED
      BY <3>1, <3>2, <3>3, <3>4, TypeParts
  <2>2. HeldIsReleased'
    OBVIOUS
  <2>3. FenceWaitsForFlip'
    OBVIOUS
  <2>4. Registers'
    OBVIOUS
  <2>5. InFlight'
    OBVIOUS
  <2>6. FlipPlace'
    OBVIOUS
  <2> QED
    BY <2>1, <2>2, <2>3, <2>4, <2>5, <2>6
<1>9. CASE ReleaseFlip
  <2> USE <1>9 DEF ReleaseFlip, Lock, ReleaseFlipSync, ShowFlip, FenceDoneSync, FenceDone, NoFenceDone
  <2>1. TypeOK'
    <3>1. DeviceType'
      BY DEF DeviceType
    <3>2. NumberType'
      BY DEF NumberType
    <3>3. FlagType'
      BY DEF FlagType
    <3>4. PlaceType'
      BY DEF PlaceType
    <3> QED
      BY <3>1, <3>2, <3>3, <3>4, TypeParts
  <2>2. HeldIsReleased'
    OBVIOUS
  <2>3. FenceWaitsForFlip'
    OBVIOUS
  <2>4. Registers'
    OBVIOUS
  <2>5. InFlight'
    OBVIOUS
  <2>6. FlipPlace'
    OBVIOUS
  <2> QED
    BY <2>1, <2>2, <2>3, <2>4, <2>5, <2>6
<1>10. CASE Mask
  <2> USE <1>10 DEF Mask
  <2>1. TypeOK'
    OBVIOUS
  <2>2. HeldIsReleased'
    OBVIOUS
  <2>3. FenceWaitsForFlip'
    OBVIOUS
  <2>4. Registers'
    OBVIOUS
  <2>5. InFlight'
    OBVIOUS
  <2>6. FlipPlace'
    OBVIOUS
  <2> QED
    BY <2>1, <2>2, <2>3, <2>4, <2>5, <2>6
<1>11. CASE RaiseVblank
  <2> USE <1>11 DEF RaiseVblank
  <2>1. TypeOK'
    OBVIOUS
  <2>2. HeldIsReleased'
    OBVIOUS
  <2>3. FenceWaitsForFlip'
    OBVIOUS
  <2>4. Registers'
    OBVIOUS
  <2>5. InFlight'
    OBVIOUS
  <2>6. FlipPlace'
    OBVIOUS
  <2> QED
    BY <2>1, <2>2, <2>3, <2>4, <2>5, <2>6
<1>12. CASE Interrupt
  <2> USE <1>12 DEF Interrupt, Lock
  <2>1. TypeOK'
    OBVIOUS
  <2>2. HeldIsReleased'
    OBVIOUS
  <2>3. FenceWaitsForFlip'
    OBVIOUS
  <2>4. Registers'
    OBVIOUS
  <2>5. InFlight'
    OBVIOUS
  <2>6. FlipPlace'
    OBVIOUS
  <2> QED
    BY <2>1, <2>2, <2>3, <2>4, <2>5, <2>6
<1>13. CASE InterruptVblank
  <2> USE <1>13 DEF InterruptVblank, NotifyVsync, ShowFlip, FenceDoneSync, FenceDone, NoFenceDone
  <2>1. TypeOK'
    <3>1. DeviceType'
      BY DEF DeviceType
    <3>2. NumberType'
      BY DEF NumberType
    <3>3. FlagType'
      BY DEF FlagType
    <3>4. PlaceType'
      BY DEF PlaceType
    <3> QED
      BY <3>1, <3>2, <3>3, <3>4, TypeParts
  <2>2. HeldIsReleased'
    OBVIOUS
  <2>3. FenceWaitsForFlip'
    OBVIOUS
  <2>4. Registers'
    OBVIOUS
  <2>5. InFlight'
    OBVIOUS
  <2>6. FlipPlace'
    OBVIOUS
  <2> QED
    BY <2>1, <2>2, <2>3, <2>4, <2>5, <2>6
<1>14. CASE VsyncTick
  BY <1>14 DEF VsyncTick
<1>15. CASE TickNotifies
  <2> USE <1>15 DEF TickNotifies, Lock, NotifyVsync, ShowFlip, FenceDoneSync, FenceDone, NoFenceDone
  <2>1. TypeOK'
    <3>1. DeviceType'
      BY DEF DeviceType
    <3>2. NumberType'
      BY DEF NumberType
    <3>3. FlagType'
      BY DEF FlagType
    <3>4. PlaceType'
      BY DEF PlaceType
    <3> QED
      BY <3>1, <3>2, <3>3, <3>4, TypeParts
  <2>2. HeldIsReleased'
    OBVIOUS
  <2>3. FenceWaitsForFlip'
    OBVIOUS
  <2>4. Registers'
    OBVIOUS
  <2>5. InFlight'
    OBVIOUS
  <2>6. FlipPlace'
    OBVIOUS
  <2> QED
    BY <2>1, <2>2, <2>3, <2>4, <2>5, <2>6
<1>16. CASE Dpc
  <2> USE <1>16 DEF Dpc
  <2>1. TypeOK'
    <3>1. DeviceType'
      BY DEF DeviceType
    <3>2. NumberType'
      BY DEF NumberType
    <3>3. FlagType'
      BY DEF FlagType
    <3>4. PlaceType'
      BY DEF PlaceType
    <3> QED
      BY <3>1, <3>2, <3>3, <3>4, TypeParts
  <2>2. HeldIsReleased'
    OBVIOUS
  <2>3. FenceWaitsForFlip'
    OBVIOUS
  <2>4. Registers'
    OBVIOUS
  <2>5. InFlight'
    OBVIOUS
  <2>6. FlipPlace'
    OBVIOUS
  <2> QED
    BY <2>1, <2>2, <2>3, <2>4, <2>5, <2>6
<1>17. CASE UNCHANGED vars
  BY <1>17 DEF vars
<1> QED
  BY <1>1, <1>2, <1>3, <1>4, <1>5, <1>6, <1>7, <1>8, <1>9, <1>10, <1>11, <1>12, <1>13, <1>14, <1>15, <1>16, <1>17 DEF Next

(* The inductive invariant holds of every behaviour.                          *)
THEOREM Invariant == Spec => []IInv
  BY InitIInv, NextIInv, PTL DEF Spec

(* The type invariant, for any number of submissions.                        *)
THEOREM TypeCorrect == Spec => []TypeOK
  BY Invariant, PTL DEF IInv

(* No fence is left held with the vertical blank off and nobody to release   *)
(* it.                                                                       *)
THEOREM NothingHeldForever == Spec => []HeldIsReleased
  BY Invariant, PTL DEF IInv

(* A flip's fence, and those behind it, wait for the vertical blank with it. *)
THEOREM FencesWait == Spec => []FenceWaitsForFlip
  BY Invariant, PTL DEF IInv

(* What dxgkrnl is told never goes back and never runs ahead of the work.    *)
THEOREM ReportsInOrder == Spec => FencesInOrder
<1>1. IInv /\ IInv' /\ [Next]_vars =>
        /\ reported' >= reported /\ fence_done' >= fence_done
        /\ reported' <= fence_done'
  <2> SUFFICES ASSUME IInv, IInv', [Next]_vars
               PROVE  reported' >= reported /\ fence_done' >= fence_done
    BY DEF IInv, InFlight
  <2> USE DEF IInv, TypeOK, Fences, Registers, InFlight, Ran
  <2>1. CASE FinishSubmission
    BY <2>1 DEF FinishSubmission, Holds, Hold, ReleaseFlipSync, FenceDoneSync, FenceDone, NoFenceDone
  <2>2. CASE ReleaseFlip
    BY <2>2 DEF ReleaseFlip, ReleaseFlipSync, FenceDoneSync, FenceDone, NoFenceDone
  <2>3. CASE InterruptVblank \/ TickNotifies
    BY <2>3 DEF InterruptVblank, TickNotifies, NotifyVsync, FenceDoneSync, FenceDone, NoFenceDone
  <2>4. CASE PreemptCommand
    BY <2>4 DEF PreemptCommand, FenceDone, NoFenceDone
  <2>5. CASE Interrupt
    BY <2>5 DEF Interrupt
  <2>6. UNCHANGED fence_done /\ UNCHANGED reported =>
           reported' >= reported /\ fence_done' >= fence_done
    OBVIOUS
  <2>7. ASSUME NEW k \in Kinds, SubmitCommand(k)
        PROVE  UNCHANGED fence_done /\ UNCHANGED reported
    BY <2>7 DEF SubmitCommand, fenceVars
  <2>8. CASE Run \/ SetVidPnSourceAddress \/ ControlOn \/ Unmask \/ ControlOff \/ Mask
             \/ RaiseVblank \/ VsyncTick \/ Dpc
    BY <2>8, <2>6 DEF Run, SetVidPnSourceAddress, ControlOn, Unmask, ControlOff, Mask,
       RaiseVblank, VsyncTick, Dpc, fenceVars, dxgk
  <2>9. CASE UNCHANGED vars
    BY <2>9, <2>6 DEF vars, fenceVars, dxgk
  <2> QED
    BY <2>1, <2>2, <2>3, <2>4, <2>5, <2>6, <2>7, <2>8, <2>9 DEF Next
<1> QED
  BY <1>1, Invariant, PTL DEF Spec, FencesInOrder

(* A preemption is answered with every submission done.                      *)
THEOREM PreemptionsAnswered == Spec => PreemptAnswersAll
<1>1. IInv /\ [Next]_vars => [PreemptCommand => reported' = fence]_vars
  <2> SUFFICES ASSUME IInv, PreemptCommand PROVE reported' = fence
    OBVIOUS
  <2> QED
    BY DEF IInv, TypeOK, Fences, InFlight, Ran, PreemptCommand, FenceDone, NoFenceDone
<1> QED
  BY <1>1, Invariant, PTL DEF Spec, PreemptAnswersAll

(* The scanout never goes back to an older flip.                             *)
THEOREM FlipsInOrder == Spec => ScanoutInOrder
<1>1. IInv /\ [Next]_vars => [offset' >= offset \/ offset' = Desktop]_vars
  <2> SUFFICES ASSUME IInv, [Next]_vars
               PROVE  offset' >= offset \/ offset' = Desktop
    OBVIOUS
  <2> USE DEF IInv, TypeOK, Fences, FlipPlace
  <2>1. CASE Run
    BY <2>1 DEF Run
  <2>2. CASE FinishSubmission \/ ReleaseFlip
    BY <2>2 DEF FinishSubmission, Hold, ReleaseFlip, ReleaseFlipSync, ShowFlip
  <2>3. CASE InterruptVblank \/ TickNotifies
    BY <2>3 DEF InterruptVblank, TickNotifies, NotifyVsync, ShowFlip
  <2>4. CASE PreemptCommand
    BY <2>4 DEF PreemptCommand, ShowFlip
  <2>5. CASE SetVidPnSourceAddress
    BY <2>5 DEF SetVidPnSourceAddress
  <2>6. ASSUME NEW k \in Kinds, SubmitCommand(k)
        PROVE  offset' >= offset
    BY <2>6 DEF SubmitCommand, device
  <2>7. CASE ControlOn \/ Unmask \/ ControlOff \/ Mask \/ RaiseVblank \/ VsyncTick \/ Dpc
             \/ Interrupt
    BY <2>7 DEF ControlOn, Unmask, ControlOff, Mask, RaiseVblank, VsyncTick, Dpc,
       Interrupt, device
  <2>8. CASE UNCHANGED vars
    BY <2>8 DEF vars, device
  <2> QED
    BY <2>1, <2>2, <2>3, <2>4, <2>5, <2>6, <2>7, <2>8 DEF Next
<1> QED
  BY <1>1, Invariant, PTL DEF Spec, ScanoutInOrder
-----------------------------------------------------------------------------
(* How far the lost flip goes                                                *)

(* Where the last submission's flip is: not run yet, on its way into the     *)
(* registers with a fence held for it, or shown.                             *)
FlipIsSomewhere ==
  /\ flip_pending => fence_held
  /\ kind # "work" /\ sub = "finish" /\ ~flip_defer => fence \in shown
  /\ kind # "work" /\ sub = "idle" =>
       fence \in shown \/ (flip_pending /\ flip_addr = fence)
StillOn == FinishSubmission /\ flip_defer => vsync_on

(* A flip that waits for the vertical blank gets into the registers if the   *)
(* vertical blank is on when its submission ends.                            *)
LEMMA NextFlipIsSomewhere ==
  ASSUME IInv, FlipIsSomewhere, Next, StillOn
  PROVE  FlipIsSomewhere'
<1> USE DEF FlipIsSomewhere
<1>1. ASSUME NEW k \in Kinds, SubmitCommand(k)
      PROVE  FlipIsSomewhere'
  BY <1>1 DEF SubmitCommand, flipVars
<1>2. CASE Run
  BY <1>2 DEF Run
<1>3. CASE FinishSubmission
  <2>1. sub = "finish" /\ sub' = "idle" /\ UNCHANGED <<kind, fence>>
    BY <1>3 DEF FinishSubmission
  <2>2. CASE Holds
    <3>1. /\ flip_pending' = (flip_pending \/ flip_defer) /\ fence_held' = TRUE
          /\ UNCHANGED <<flip_addr, shown>>
      BY <1>3, <2>2 DEF FinishSubmission, Hold
    <3>2. flip_defer => flip_addr = fence
      BY <2>1 DEF IInv, FlipPlace
    <3> QED
      BY <2>1, <3>1, <3>2
  <2>3. CASE ~Holds
    <3>1. ~flip_defer
      BY <1>3, <2>3 DEF StillOn, Holds
    <3>2. /\ fence_held' = FALSE /\ flip_pending' = FALSE
          /\ shown \subseteq shown'
      BY <1>3, <2>3 DEF FinishSubmission, ReleaseFlipSync, ShowFlip, IInv, TypeOK
    <3> QED
      BY <2>1, <3>1, <3>2
  <2> QED
    BY <2>2, <2>3
<1>4. CASE PreemptCommand
  BY <1>4 DEF PreemptCommand, ShowFlip, subVars, IInv, TypeOK
<1>5. CASE ReleaseFlip
  BY <1>5 DEF ReleaseFlip, ReleaseFlipSync, ShowFlip, subVars, IInv, TypeOK
<1>6. CASE InterruptVblank \/ TickNotifies
  BY <1>6 DEF InterruptVblank, TickNotifies, NotifyVsync, ShowFlip, subVars, IInv, TypeOK
<1>7. CASE UNCHANGED <<flip_pending, fence_held, flip_addr, subVars, shown>>
  BY <1>7 DEF subVars
<1>8. \/ \E k \in Kinds : SubmitCommand(k)
      \/ Run \/ FinishSubmission \/ PreemptCommand \/ ReleaseFlip \/ InterruptVblank
      \/ TickNotifies
      \/ UNCHANGED <<flip_pending, fence_held, flip_addr, subVars, shown>>
  BY DEF Next, SetVidPnSourceAddress, ControlOn, Unmask, ControlOff, Mask, RaiseVblank,
     Interrupt, VsyncTick, Dpc, flipVars, dxgk
<1> QED
  BY <1>1, <1>2, <1>3, <1>4, <1>5, <1>6, <1>7, <1>8

(* A flip is lost, its fence done and its address never shown, in one way    *)
(* only: the vertical blank was on when it was submitted and is off when its *)
(* submission ends. Preemptions, switches of the vertical blank at any other *)
(* moment, the timer and the interrupts never lose one.                      *)
THEOREM LossNeedsStopInSubmission == Spec /\ [][StillOn]_vars => []FlipBeforeFence
<1>1. Init => FlipIsSomewhere
  BY DEF Init, FlipIsSomewhere
<1>2. IInv /\ FlipIsSomewhere /\ [Next]_vars /\ [StillOn]_vars => FlipIsSomewhere'
  <2> SUFFICES ASSUME IInv, FlipIsSomewhere, [Next]_vars, [StillOn]_vars
               PROVE  FlipIsSomewhere'
    OBVIOUS
  <2>1. CASE UNCHANGED vars
    BY <2>1 DEF vars, flipVars, subVars, dxgk, FlipIsSomewhere
  <2>2. CASE Next /\ StillOn
    BY <2>2, NextFlipIsSomewhere
  <2> QED
    BY <2>1, <2>2
<1>3. IInv /\ FlipIsSomewhere => FlipBeforeFence
  <2> SUFFICES ASSUME IInv, FlipIsSomewhere, kind # "work", fence_done >= fence
               PROVE  fence \in shown
    BY DEF FlipBeforeFence
  <2>1. fence \in Nat /\ fence_done \in Nat
    BY DEF IInv, TypeOK, Fences
  <2>2. sub = "idle"
    BY <2>1 DEF IInv, InFlight, Ran
  <2>3. ~fence_held
    BY <2>1, <2>2 DEF IInv, InFlight, Ran
  <2> QED
    BY <2>2, <2>3 DEF FlipIsSomewhere
<1> QED
  BY <1>1, <1>2, <1>3, Invariant, PTL DEF Spec
=============================================================================
