---------------------------- MODULE FrameHandoff ----------------------------
(* The guest's picture on its way to the window: player-core/src/qemu_vm.rs *)
(* (the display callbacks of the QEMU and vCPU threads, under one mutex)    *)
(* and player-core/src/gpu.rs (the render thread). Two dirty rectangles     *)
(* keep the copies small: `back_dirty`, what changed in the copy of the     *)
(* guest's surface since the last publish, and `pending`, what changed in   *)
(* the published frame since the render thread last took it.                *)
(*                                                                          *)
(* A frame is one row of `width` columns. Time is two flags: whether the    *)
(* last 3D frame is recent (VGA_FALLBACK) and whether the last mode switch  *)
(* is (SWITCH_GRACE). `front.seq` against the render thread's last_seq is   *)
(* the flag `newer`.                                                        *)
EXTENDS Naturals

CONSTANTS MaxWidth,     (* the widest mode                                  *)
          Pixels,       (* the colours a pixel may have                     *)
          Black,        (* the one a transitional frame is filled with      *)
          SpritePixel,  (* a pixel of the guest's hardware cursor           *)
          Slots,        (* the 3D backend's ring slots                      *)
          NoSlot,
          ZeroCopy,     (* whether the GPU can import slots: the answers    *)
          CursorColumns (* where the guest puts its hardware cursor; {}: a  *)
                        (* guest with a software pointer                    *)

ASSUME MaxWidthAssumption == MaxWidth \in Nat \ {0}
ASSUME PixelAssumption == Black \in Pixels /\ SpritePixel \notin Pixels
ASSUME SlotAssumption == NoSlot \notin Slots
ASSUME ZeroCopyAssumption == ZeroCopy \subseteq BOOLEAN
ASSUME CursorAssumption == CursorColumns \subseteq 1..MaxWidth

VARIABLES
  (* the copy of the guest's surface                                        *)
  width, back, back_dirty, vga_dirty, in_grace,
  (* 3D pass-through                                                        *)
  three_d, recent_3d, zero_copy, offered, dmabufs,
  (* the published frame                                                    *)
  ext_slot, front_width, pixels, pending, front_stale, newer,
  (* the guest's hardware cursor                                            *)
  cursor, cursor_visible, cursor_x,
  (* the render thread: its step, the sprite it read, its textures          *)
  rpc, sprite, imported, ext_current, fb_width, fb, fb_whole,
  (* a panic in a callback has ended the process                            *)
  aborted

surfaceVars == <<width, back, back_dirty, vga_dirty, in_grace>>
modeVars == <<three_d, recent_3d>>
ringVars == <<zero_copy, offered, dmabufs>>
frontVars == <<ext_slot, front_width, pixels, pending, front_stale, newer>>
cursorVars == <<cursor, cursor_visible, cursor_x>>
fbVars == <<fb_width, fb, fb_whole>>
renderVars == <<rpc, sprite, imported, ext_current, fbVars>>
vars == <<surfaceVars, modeVars, ringVars, frontVars, cursorVars, renderVars,
          aborted>>

-----------------------------------------------------------------------------
(* Rectangles: sets of columns, {} for None.                                *)

Columns == 1..MaxWidth
Whole(w) == 1..w
Rects == {i..j : i, j \in Columns}

(* Rect::union is the bounding box, more than the two sets' union.          *)
Union(a, b) == {c \in Columns : \E i, j \in a \cup b : i <= c /\ c <= j}

Frames(w) == [Whole(w) -> Pixels]

(* The pixels of `to`, with those of `from` in the rectangle r.             *)
CopyRect(from, to, r) == [c \in DOMAIN to |-> IF c \in r THEN from[c] ELSE to[c]]

IsUniform(p) == \A c, d \in DOMAIN p : p[c] = p[d]

(* composite_cursor: a hot spot outside the frame is clipped; 0 is no sprite *)
Composite(p, x) == [c \in DOMAIN p |-> IF c = x THEN SpritePixel ELSE p[c]]

-----------------------------------------------------------------------------

Init ==
  /\ width = 0 /\ back = [c \in {} |-> Black] /\ back_dirty = {}
  /\ vga_dirty = FALSE /\ in_grace = FALSE
  /\ three_d = FALSE /\ recent_3d = FALSE
  /\ zero_copy \in ZeroCopy /\ offered = {} /\ dmabufs = {}
  /\ ext_slot = NoSlot /\ front_width = 0 /\ pixels = [c \in {} |-> Black]
  /\ pending = {} /\ front_stale = FALSE /\ newer = FALSE
  /\ cursor = FALSE /\ cursor_visible = FALSE /\ cursor_x = 0
  /\ rpc = "idle" /\ sprite = 0 /\ imported = {} /\ ext_current = NoSlot
  /\ fb_width = 0 /\ fb = [c \in {} |-> Black] /\ fb_whole = TRUE
  /\ aborted = FALSE

-----------------------------------------------------------------------------
(* The QEMU thread's callbacks                                              *)

(* A new surface. The whole of it is copied; what was dirty in the one      *)
(* before stays in back_dirty. A stride or a height may change with the     *)
(* width unchanged, which is a mode change too.                             *)
SwitchForgets(w) == back_dirty
SwitchDirties(w) == Union(back_dirty, Whole(w))

OldBack(w) == {back}
NewBack(w) == Frames(w)

OnSwitch ==
  /\ \E w \in Columns :
       /\ width' = w
       /\ back' \in NewBack(w)
       /\ back_dirty' = SwitchDirties(w)
       /\ in_grace' \in IF w # width THEN {TRUE} ELSE {TRUE, in_grace}
  /\ vga_dirty' = TRUE
  /\ UNCHANGED <<modeVars, ringVars, frontVars, cursorVars, renderVars>>

(* The guest drew in r: copy_rect clamps it to the surface.                 *)
Unseen == vga_dirty
Seen == TRUE

OnUpdate ==
  /\ width # 0
  /\ \E r \in Rects, drawn \in Frames(width) :
       LET clamped == r \cap Whole(width) IN
       /\ back' = CopyRect(drawn, back, clamped)
       /\ back_dirty' = IF clamped = {} THEN back_dirty
                        ELSE Union(back_dirty, clamped)
  /\ vga_dirty' = Seen
  /\ UNCHANGED <<width, in_grace, modeVars, ringVars, frontVars, cursorVars,
                 renderVars>>

(* The refresh tick (and on_flush, a whole frame pushed outside it).        *)
(* VgaHidden: recent 3D frames win, and an untouched surface stays hidden.  *)
VgaHidden == three_d /\ (recent_3d \/ ~vga_dirty)

Transitional == in_grace /\ IsUniform(back)

(* The published frame is of another size, or not the surface's picture.    *)
Recopy == front_width # width \/ front_stale

Region == IF Recopy THEN Whole(width) ELSE back_dirty

(* Copying outside the frame indexes past front.pixels: a panic in an       *)
(* extern "C" callback, which ends the process.                             *)
OnRefreshPanics ==
  /\ width # 0 /\ ~VgaHidden
  /\ ~Transitional /\ ~(Region \subseteq Whole(width))
  /\ aborted' = TRUE
  /\ UNCHANGED <<surfaceVars, modeVars, ringVars, frontVars, cursorVars,
                 renderVars>>

(* What the render thread has not taken yet: no region of a frame of        *)
(* another size, or of one copied whole.                                    *)
LeftOfAnySize == pending
LeftPending == IF Recopy THEN {} ELSE pending

LastOnly(left, region) == region
Gathered(left, region) == IF region = {} THEN left ELSE Union(left, region)

(* A transitional fill is shown black, and the surface copied after it.     *)
NeverStale == FALSE
LeavesStale == Transitional

SlotStays == ext_slot
SlotGone == NoSlot

OnRefreshDone ==
  /\ width # 0 /\ ~VgaHidden
  /\ LET region == IF Transitional THEN Whole(width) ELSE Region
         base == IF Recopy THEN [c \in Whole(width) |-> Black] ELSE pixels
     IN
     /\ region \subseteq Whole(width)
     /\ pixels' = IF Transitional THEN [c \in Whole(width) |-> Black]
                  ELSE CopyRect(back, base, region)
     /\ pending' = Gathered(LeftPending, region)
  /\ front_width' = width
  /\ front_stale' = LeavesStale
  /\ in_grace' = Transitional
  /\ vga_dirty' = FALSE /\ back_dirty' = {}
  /\ ext_slot' = SlotGone /\ newer' = TRUE
  /\ UNCHANGED <<width, back, modeVars, ringVars, cursorVars, renderVars>>

On3dActive ==
  /\ three_d' \in BOOLEAN
  /\ UNCHANGED <<surfaceVars, recent_3d, ringVars, frontVars, cursorVars,
                 renderVars>>

OnCursor ==
  /\ cursor' \in BOOLEAN
  /\ UNCHANGED <<surfaceVars, modeVars, ringVars, frontVars, cursor_visible,
                 cursor_x, renderVars>>

(* A move alone republishes the frame.                                      *)
OnMouseSet ==
  /\ cursor_visible' \in BOOLEAN /\ cursor_x' \in CursorColumns
  /\ LET changed == <<cursor_visible, cursor_x>>' # <<cursor_visible, cursor_x>>
     IN newer' = (newer \/ (changed /\ cursor /\ front_width # 0
                              /\ ext_slot = NoSlot))
  /\ UNCHANGED <<surfaceVars, modeVars, ringVars, ext_slot, front_width, pixels,
                 pending, front_stale, cursor, renderVars>>

-----------------------------------------------------------------------------
(* The 3D backend's callbacks (vCPU thread)                                 *)

(* A frame read back: published at once, whole.                             *)
On3dFrame ==
  /\ \E w \in Columns : front_width' = w /\ pixels' \in Frames(w)
  /\ pending' = Whole(front_width')
  /\ front_stale' = TRUE /\ ext_slot' = NoSlot /\ newer' = TRUE
  /\ recent_3d' = TRUE
  /\ UNCHANGED <<surfaceVars, three_d, ringVars, cursorVars, renderVars>>

(* A ring slot offered (on_3d_dmabuf, on_3d_iosurface): declined without    *)
(* zero copy.                                                               *)
On3dSlotOffered ==
  /\ zero_copy
  /\ \E s \in Slots : offered' = offered \cup {s} /\ dmabufs' = dmabufs \cup {s}
  /\ UNCHANGED <<surfaceVars, modeVars, zero_copy, frontVars, cursorVars,
                 renderVars>>

(* The backend names only slots whose offer was taken.                      *)
On3dFrameReady ==
  /\ ext_slot' \in offered
  /\ newer' = TRUE /\ recent_3d' = TRUE
  /\ UNCHANGED <<surfaceVars, three_d, ringVars, front_width, pixels, pending,
                 front_stale, cursorVars, renderVars>>

-----------------------------------------------------------------------------
(* The render thread                                                        *)

(* import_slot for every offered slot; an import may fail.                  *)
ImportSlots ==
  /\ \E ok \in SUBSET dmabufs : imported' = (imported \ dmabufs) \cup ok
  /\ dmabufs' = {}

(* Session::wake imports between frames, ...                                *)
WakeImports ==
  /\ rpc = "idle" /\ dmabufs # {}
  /\ ImportSlots
  /\ UNCHANGED <<surfaceVars, modeVars, zero_copy, offered, frontVars, cursorVars, rpc,
                 sprite, ext_current, fbVars>>

(* ... and present_guest_frame begins with it, then asks for the sprite:    *)
(* the host cursor stands in for the guest's unless the mouse is relative   *)
(* or grabbed (composite). The frame is taken under a later lock. The slots *)
(* and the sprite are locked apart too, but no callback touches both.       *)
PresentBegins ==
  /\ rpc = "idle" /\ rpc' = "take"
  /\ ImportSlots
  /\ \E composite \in BOOLEAN :
       sprite' = IF composite /\ cursor_visible /\ cursor THEN cursor_x ELSE 0
  /\ UNCHANGED <<surfaceVars, modeVars, zero_copy, offered, frontVars, cursorVars,
                 ext_current, fbVars>>

(* take_newer finds nothing newer, or no frame yet.                         *)
PresentNothing ==
  /\ rpc = "take" /\ rpc' = "idle"
  /\ ~newer \/ front_width = 0
  /\ sprite' = 0
  /\ UNCHANGED <<surfaceVars, modeVars, ringVars, frontVars, cursorVars,
                 imported, ext_current, fbVars>>

(* What a take does to the lock's side: `pending` is the render thread's.   *)
TakeNewer ==
  /\ rpc = "take" /\ rpc' = "idle"
  /\ newer /\ front_width # 0
  /\ newer' = FALSE /\ pending' = {}
  /\ sprite' = 0
  /\ UNCHANGED <<surfaceVars, modeVars, ringVars, ext_slot, front_width, pixels,
                 front_stale, cursorVars, imported>>

(* The frame is in a slot: select it, upload nothing. A slot that is not    *)
(* imported leaves the upload texture on show.                              *)
PresentSlot ==
  /\ TakeNewer /\ ext_slot # NoSlot
  /\ ext_current' = IF ext_slot \in imported THEN ext_slot ELSE NoSlot
  /\ UNCHANGED fbVars

(* A composited copy is uploaded whole, and the next frame is whole too.    *)
PresentWithSpriteOnce ==
  /\ TakeNewer /\ ext_slot = NoSlot /\ sprite # 0
  /\ ext_current' = NoSlot
  /\ fb_width' = front_width /\ fb' = Composite(pixels, sprite)
  /\ fb_whole' = FALSE

PresentWithSprite ==
  /\ TakeNewer /\ ext_slot = NoSlot /\ sprite # 0
  /\ ext_current' = NoSlot
  /\ fb_width' = front_width /\ fb' = Composite(pixels, sprite)
  /\ fb_whole' = TRUE

(* Otherwise what changed, or all of it into a new or a sprited texture.    *)
PresentPixels ==
  /\ TakeNewer /\ ext_slot = NoSlot /\ sprite = 0
  /\ ext_current' = NoSlot
  /\ IF fb_whole \/ fb_width # front_width
     THEN fb_width' = front_width /\ fb' = pixels
     ELSE fb' = CopyRect(pixels, fb, pending) /\ UNCHANGED fb_width
  /\ fb_whole' = FALSE

-----------------------------------------------------------------------------
(* Time                                                                     *)

FallbackExpires ==
  /\ recent_3d /\ recent_3d' = FALSE
  /\ UNCHANGED <<surfaceVars, three_d, ringVars, frontVars, cursorVars,
                 renderVars>>

GraceExpires ==
  /\ in_grace /\ in_grace' = FALSE
  /\ UNCHANGED <<width, back, back_dirty, vga_dirty, modeVars, ringVars,
                 frontVars, cursorVars, renderVars>>

GuestStep == \/ OnSwitch \/ OnUpdate \/ On3dActive \/ OnCursor \/ OnMouseSet
             \/ On3dFrame \/ On3dSlotOffered \/ On3dFrameReady
RenderStep == \/ PresentBegins \/ PresentNothing
              \/ PresentSlot \/ PresentWithSprite \/ PresentPixels

HostStep == OnRefreshDone \/ WakeImports \/ RenderStep
Clock == FallbackExpires \/ GraceExpires

Next ==
  /\ ~aborted
  /\ \/ (GuestStep \/ HostStep \/ Clock) /\ UNCHANGED aborted
     \/ OnRefreshPanics

Spec == Init /\ [][Next]_vars

-----------------------------------------------------------------------------
(* Properties                                                               *)

SurfaceTypeOK ==
  /\ width \in 0..MaxWidth /\ back \in Frames(width)
  /\ back_dirty \subseteq Columns /\ vga_dirty \in BOOLEAN
  /\ in_grace \in BOOLEAN
  /\ three_d \in BOOLEAN /\ recent_3d \in BOOLEAN /\ aborted \in BOOLEAN

RingTypeOK ==
  /\ zero_copy \in BOOLEAN /\ (~zero_copy => offered = {})
  /\ offered \subseteq Slots /\ dmabufs \subseteq offered
  /\ imported \subseteq offered
  /\ ext_slot \in offered \cup {NoSlot}
  /\ ext_current \in offered \cup {NoSlot}

FrontTypeOK ==
  /\ front_width \in 0..MaxWidth /\ pixels \in Frames(front_width)
  /\ pending \subseteq Columns /\ front_stale \in BOOLEAN /\ newer \in BOOLEAN

CursorTypeOK ==
  /\ cursor \in BOOLEAN /\ cursor_visible \in BOOLEAN
  /\ cursor_x \in CursorColumns \cup {0}

RenderTypeOK ==
  /\ rpc \in {"idle", "take"} /\ sprite \in 0..MaxWidth
  /\ fb_width \in 0..MaxWidth
  /\ fb \in [Whole(fb_width) -> Pixels \cup {SpritePixel}]
  /\ fb_whole \in BOOLEAN

TypeOK == SurfaceTypeOK /\ RingTypeOK /\ FrontTypeOK /\ CursorTypeOK /\ RenderTypeOK

(* The region the render thread uploads lies in the frame it is lent: a      *)
(* mode switch between two takes leaves no rectangle of the old size         *)
(* (on_refresh_done, on_3d_frame).                                           *)
PendingFitsFrame == pending \subseteq Whole(front_width)

(* Copying only what changed loses nothing: outside back_dirty the published *)
(* frame is the guest's surface, unless it is marked stale or is of another  *)
(* size.                                                                     *)
FrontHasSurface ==
  front_width = width /\ ~front_stale =>
    \A c \in Whole(width) \ back_dirty : pixels[c] = back[c]

(* Uploading only what changed loses nothing either: outside `pending` the   *)
(* texture is the published frame, unless the next upload is whole. A player *)
(* with ring slots is another matter: see TakenFrameIsShown.                 *)
TextureHasFront ==
  ~zero_copy /\ fb_width = front_width /\ ~fb_whole =>
    \A c \in Whole(front_width) \ pending : fb[c] = pixels[c]

(* The same as it shows with ring slots: once the render thread has taken a  *)
(* copied frame, that frame is what the window shows. take_newer hands the   *)
(* dirty region over with whatever frame it lends, a slot's too: "what       *)
(* changed is then the render thread's".                                     *)
TakenFrameIsShown ==
  ~newer /\ ext_slot = NoSlot /\ ~fb_whole => fb = pixels

(* on_refresh_done copies inside the frame only.                             *)
NoPanic == ~aborted

(* A drawn-on surface is not forgotten: whatever changed since the last      *)
(* publish keeps vga_dirty, which is what brings the surface back when 3D    *)
(* frames stop.                                                              *)
DirtyIsSeen == back_dirty # {} => vga_dirty

(* Without ring slots the whole path is the abstract one: what is on screen  *)
(* after a take is the last published picture, all of it, and of a sprite    *)
(* drawn earlier nothing.                                                    *)
Abstract == INSTANCE LatestFrame
              WITH published <- pixels, sprite <- sprite, screen <- fb,
                   newer <- newer
ImplementsLatestFrame == Abstract!Spec
=============================================================================
