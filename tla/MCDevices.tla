----------------------------- MODULE MCDevices -----------------------------
(* TLC's instance of the modules of the paravirtual display adapter. They    *)
(* share no variable: each behaviour runs one of them, and the others stand  *)
(* still, so that their states add instead of multiplying. The picture and   *)
(* the cursor meet in the mode registers, which both parts run with.         *)

EXTENDS VgaScanout, D3dWindow, TLC

VARIABLE part

Symmetry == Permutations(Colours) \cup Permutations(Palettes) \cup Permutations(Mirrored)

(* Bounds. Between restarts the guest creates two allocations of all the     *)
(* kinds there are. Once the executor process is gone, which nothing brings  *)
(* back, or refused a batch, which only a restart makes good, the guest      *)
(* creates and moves no more; and once it is gone, the guest records no more *)
(* and only finishes what it began.                                          *)
MaxCreated == 2
GuestBound ==
  /\ Cardinality({h \in Handles : alloc'[h].life # "new"}) <= MaxCreated
  /\ exec = "gone" => Len(cmds') <= Len(cmds)
  /\ exec = "gone" \/ failed =>
       \A h \in Handles : /\ alloc'[h].life = "live" => h \in Live
                          /\ alloc'[h].cur \in {Nowhere, alloc[h].cur}

DevicesInit ==
  /\ part \in {"picture", "cursor", "direct3d"}
  /\ ScanInit /\ WindowInit
  /\ part = "direct3d" => /\ ~flip_push /\ pal = CHOOSE p \in Palettes : TRUE
                          /\ vram = [p \in Pages |-> CHOOSE c \in Colours : TRUE]
  /\ part # "direct3d" => mapped

DevicesNext ==
  /\ UNCHANGED part
  /\ \/ part = "picture" /\ (PictureStep \/ ModeStep) /\ UNCHANGED windowVars
     \/ part = "cursor" /\ (CursorStep \/ ModeStep) /\ UNCHANGED windowVars
     \/ part = "direct3d" /\ WindowNext /\ GuestBound /\ UNCHANGED scanVars

DevicesSpec == DevicesInit /\ [][DevicesNext]_<<part, scanVars, windowVars>>
=============================================================================
