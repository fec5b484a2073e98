---------------------------- MODULE LatestFrame ----------------------------
(* What the display path promises, with none of its machinery: the guest   *)
(* side publishes whole pictures, the render thread shows the last one.    *)
(* Nothing here is partial. FrameHandoff copies and uploads only what      *)
(* changed and is shown to implement this module.                          *)
EXTENDS Naturals

CONSTANTS Pixels,       (* the colours a pixel may have                     *)
          SpritePixel,  (* a pixel of the guest's hardware cursor           *)
          MaxWidth      (* the widest picture                               *)

VARIABLES published,    (* the picture last published                       *)
          sprite,       (* where the cursor is drawn next; 0: nowhere       *)
          screen,       (* the picture on show                              *)
          newer         (* one was published since the screen last took one *)

vars == <<published, sprite, screen, newer>>

Columns == 1..MaxWidth

(* A picture is one row of pixels; the empty one is "no frame yet".         *)
Pictures == UNION {[1..w -> Pixels] : w \in 0..MaxWidth}

(* A picture with the cursor's sprite drawn over it at column x (0: none,   *)
(* and a place outside the picture is clipped).                             *)
Overlay(p, x) == [c \in DOMAIN p |-> IF c = x THEN SpritePixel ELSE p[c]]

Init ==
  /\ published = [c \in 1..0 |-> SpritePixel]
  /\ screen = [c \in 1..0 |-> SpritePixel]
  /\ sprite = 0
  /\ newer = FALSE

Publish ==
  /\ published' \in Pictures
  /\ newer' = TRUE
  /\ UNCHANGED <<sprite, screen>>

(* The host says whether, and where, the next picture has the cursor in it. *)
PlaceSprite ==
  /\ sprite' \in 0..MaxWidth
  /\ UNCHANGED <<published, screen, newer>>

(* A picture is shown with the cursor where it was last placed: of one      *)
(* drawn elsewhere before nothing is left.                                  *)
Show ==
  /\ newer
  /\ screen' = Overlay(published, sprite)
  /\ sprite' = 0
  /\ newer' = FALSE
  /\ UNCHANGED published

Next == Publish \/ PlaceSprite \/ Show

Spec == Init /\ [][Next]_vars
=============================================================================
