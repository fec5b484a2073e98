---------------------------- MODULE FrameSettles ----------------------------
(* FrameHandoff under fairness, with a guest that may stop drawing for good: *)
(* what it drew last must reach the screen.                                  *)
EXTENDS FrameHandoff

CONSTANT SlotWidth   (* bound: the widest mode of a player with ring slots    *)

ASSUME SlotWidthAssumption == SlotWidth \in 1..MaxWidth

VARIABLE quiet

svars == <<vars, quiet>>

SettlingInit == Init /\ quiet = FALSE

Alive(A) == ~aborted /\ A /\ UNCHANGED <<aborted, quiet>>
Panics == ~aborted /\ OnRefreshPanics /\ UNCHANGED quiet

(* Bounds on the guest. With ring slots its modes are narrow and its pointer *)
(* is a software one; it defines its hardware cursor once; a frame read back *)
(* is of one colour and of the surface's size.                               *)
GuestBound ==
  /\ zero_copy => width' <= SlotWidth /\ front_width' <= SlotWidth /\ ~cursor'
  /\ cursor => cursor'
  /\ cursor_x' # cursor_x => cursor
  /\ pixels' # pixels => IsUniform(pixels') /\ front_width' = width

GuestActs == ~quiet /\ Alive(GuestStep) /\ GuestBound
HostActs == /\ ~aborted /\ UNCHANGED quiet
            /\ ((HostStep \/ Clock) /\ UNCHANGED aborted) \/ OnRefreshPanics
GoesQuiet == ~aborted /\ ~quiet /\ quiet' = TRUE /\ UNCHANGED vars

SettlingNext == GuestActs \/ HostActs \/ GoesQuiet

(* The display timer keeps ticking (QEMU re-arms it), the event loop keeps   *)
(* presenting, time passes. Nothing is asked of the guest or the 3D backend. *)
Fairness ==
  /\ WF_svars(Alive(OnRefreshDone)) /\ WF_svars(Panics)
  /\ WF_svars(Alive(RenderStep)) /\ WF_svars(Alive(GraceExpires))

SettlingSpec == SettlingInit /\ [][SettlingNext]_svars /\ Fairness

-----------------------------------------------------------------------------

(* Once the guest draws no more and 3D is off, its surface gets to the       *)
(* screen, all of it: past a transitional fill shown black, a surface of     *)
(* another size, updates of a part, 3D frames read back and a sprite drawn   *)
(* over it (on_refresh_done, present_guest_frame).                           *)
Shown == /\ ext_current = NoSlot /\ fb_width = width
         /\ \A c \in Whole(width) : fb[c] \in {back[c], SpritePixel}

SurfaceShown ==
  (quiet /\ ~three_d /\ ~zero_copy /\ width # 0) ~> (aborted \/ Shown)

(* With ring slots too the window leaves the last slot once 3D is over (no   *)
(* claim while 3D is active and only its frames have stopped: VGA_FALLBACK). *)
SlotLeavesScreen ==
  (quiet /\ ~three_d /\ width # 0) ~> (aborted \/ ext_current = NoSlot)
=============================================================================
