------------------------- MODULE FrameHandoffProof -------------------------
(* FrameHandoff for every width, palette, ring and cursor: the types, the   *)
(* two copies' coherence, and, without ring slots, that the path implements *)
(* LatestFrame.                                                             *)
EXTENDS FrameHandoff, TLAPS

Assumptions == /\ MaxWidth \in Nat \ {0}
               /\ Black \in Pixels /\ SpritePixel \notin Pixels
               /\ NoSlot \notin Slots
               /\ ZeroCopy \subseteq BOOLEAN
               /\ CursorColumns \subseteq 1..MaxWidth

(* The parts of on_switch and on_refresh_done that only name an expression.  *)
USE DEF SwitchDirties, NewBack, LeftPending, Gathered, LeavesStale, SlotGone, Seen

(* What the assumptions on the constants say, for the provers.               *)
LEMMA ConstantsOK == Assumptions
BY MaxWidthAssumption, PixelAssumption, SlotAssumption, ZeroCopyAssumption,
   CursorAssumption DEF Assumptions

(* The bounding box holds both rectangles.                                   *)
LEMMA UnionCovers ==
  ASSUME NEW a \in SUBSET Columns, NEW b \in SUBSET Columns
  PROVE  a \subseteq Union(a, b) /\ b \subseteq Union(a, b)
BY ConstantsOK DEF Union, Columns, Assumptions

(* The bounding box of two rectangles of a frame is inside the frame.        *)
LEMMA UnionFits ==
  ASSUME NEW w \in 0..MaxWidth, NEW a \in SUBSET Whole(w), NEW b \in SUBSET Whole(w)
  PROVE  Union(a, b) \subseteq Whole(w)
BY ConstantsOK DEF Union, Columns, Whole, Assumptions

(* A bounding box is made of columns.                                        *)
LEMMA UnionType ==
  ASSUME NEW a, NEW b
  PROVE  Union(a, b) \subseteq Columns
BY DEF Union

(* So is a whole frame, of any width there is.                               *)
LEMMA WholeType ==
  ASSUME NEW w \in 0..MaxWidth
  PROVE  Whole(w) \subseteq Columns
BY ConstantsOK DEF Whole, Columns, Assumptions

(* Every variable starts with its type.                                      *)
LEMMA InitTypeOK == Init => TypeOK
<1> SUFFICES ASSUME Init PROVE TypeOK
  OBVIOUS
<1>1. Whole(0) = {}
  BY DEF Whole
<1>2. SurfaceTypeOK
  <2>1. back \in Frames(width)
    BY <1>1 DEF Init, Frames
  <2>2. width \in 0..MaxWidth
    BY ConstantsOK DEF Init, Assumptions
  <2>3. back_dirty \subseteq Columns
    BY DEF Init
  <2>4. in_grace \in BOOLEAN /\ vga_dirty \in BOOLEAN
    BY DEF Init
  <2> QED
    BY <2>1, <2>2, <2>3, <2>4 DEF Init, SurfaceTypeOK
<1>3. RingTypeOK
  BY ConstantsOK DEF Init, RingTypeOK, Assumptions
<1>4. FrontTypeOK
  <2>1. pixels \in Frames(front_width)
    BY <1>1 DEF Init, Frames
  <2>2. front_width \in 0..MaxWidth /\ pending \subseteq Columns
    BY ConstantsOK DEF Init, Assumptions
  <2> QED
    BY <2>1, <2>2 DEF Init, FrontTypeOK
<1>5. CursorTypeOK
  BY DEF Init, CursorTypeOK
<1>6. RenderTypeOK
  <2>1. fb \in [Whole(fb_width) -> Pixels \cup {SpritePixel}]
    BY <1>1 DEF Init
  <2>2. fb_width \in 0..MaxWidth /\ sprite \in 0..MaxWidth
    BY ConstantsOK DEF Init, Assumptions
  <2> QED
    BY <2>1, <2>2 DEF Init, RenderTypeOK
<1> QED
  BY <1>2, <1>3, <1>4, <1>5, <1>6 DEF TypeOK

(* Every step keeps the types: one case per callback and per step of the     *)
(* render thread.                                                            *)
LEMMA NextTypeOK == TypeOK /\ [Next]_vars => TypeOK'
<1> SUFFICES ASSUME TypeOK, [Next]_vars PROVE TypeOK'
  OBVIOUS
<1> USE DEF TypeOK
<1>1. CASE OnSwitch /\ UNCHANGED aborted
  <2>1. SurfaceTypeOK'
    <3>1. in_grace' \in BOOLEAN
      <4>1. PICK w \in Columns :
              in_grace' \in IF w # width THEN {TRUE} ELSE {TRUE, in_grace}
        BY <1>1 DEF OnSwitch
      <4>2. in_grace' \in {TRUE} \/ in_grace' \in {TRUE, in_grace}
        BY <4>1
      <4> QED
        BY <4>2, Zenon DEF SurfaceTypeOK
    <3>2. /\ width' \in 0..MaxWidth /\ back' \in Frames(width')
          /\ back_dirty' \subseteq Columns
      BY <1>1, ConstantsOK, WholeType, UnionType DEF OnSwitch, SurfaceTypeOK, Columns,
         Assumptions
    <3> QED
      BY <1>1, <3>1, <3>2 DEF OnSwitch, SurfaceTypeOK, modeVars
  <2>2. RingTypeOK' /\ FrontTypeOK' /\ CursorTypeOK' /\ RenderTypeOK'
    BY <1>1 DEF OnSwitch, RingTypeOK, FrontTypeOK, CursorTypeOK, RenderTypeOK,
       surfaceVars, modeVars, ringVars, frontVars, cursorVars, renderVars, fbVars
  <2> QED
    BY <2>1, <2>2
<1>2. CASE OnUpdate /\ UNCHANGED aborted
  <2>1. SurfaceTypeOK'
    BY <1>2, UnionType DEF OnUpdate, SurfaceTypeOK, surfaceVars, modeVars, Frames,
       CopyRect
  <2>2. RingTypeOK' /\ FrontTypeOK' /\ CursorTypeOK' /\ RenderTypeOK'
    BY <1>2 DEF OnUpdate, RingTypeOK, FrontTypeOK, CursorTypeOK, RenderTypeOK,
       surfaceVars, modeVars, ringVars, frontVars, cursorVars, renderVars, fbVars
  <2> QED
    BY <2>1, <2>2
<1>3. CASE OnRefreshDone /\ UNCHANGED aborted
  <2>1. SurfaceTypeOK'
    BY <1>3 DEF OnRefreshDone, Transitional, SurfaceTypeOK, surfaceVars, modeVars
  <2>2. RingTypeOK'
    BY <1>3 DEF OnRefreshDone, Transitional, RingTypeOK, ringVars, frontVars,
       renderVars
  <2>3. FrontTypeOK'
    <3>1. front_width' = width /\ front_width' \in 0..MaxWidth
      BY <1>3 DEF OnRefreshDone, SurfaceTypeOK
    <3>2. pixels' \in Frames(width)
      BY <1>3, ConstantsOK DEF OnRefreshDone, FrontTypeOK, SurfaceTypeOK, Recopy, Region,
         Frames, CopyRect, Assumptions
    <3>3. pending' \subseteq Columns
      BY <1>3, UnionType DEF OnRefreshDone, FrontTypeOK
    <3> QED
      BY <1>3, <3>1, <3>2, <3>3 DEF OnRefreshDone, FrontTypeOK, Transitional
  <2>4. CursorTypeOK' /\ RenderTypeOK'
    BY <1>3 DEF OnRefreshDone, Transitional, CursorTypeOK, RenderTypeOK,
       surfaceVars, modeVars, ringVars, frontVars, cursorVars, renderVars, fbVars
  <2> QED
    BY <2>1, <2>2, <2>3, <2>4
<1>4. CASE OnRefreshPanics
  <2>1. SurfaceTypeOK'
    BY <1>4 DEF OnRefreshPanics, SurfaceTypeOK, surfaceVars, modeVars
  <2>2. RingTypeOK' /\ FrontTypeOK' /\ CursorTypeOK' /\ RenderTypeOK'
    BY <1>4 DEF OnRefreshPanics, RingTypeOK, FrontTypeOK, CursorTypeOK,
       RenderTypeOK, surfaceVars, modeVars, ringVars, frontVars, cursorVars,
       renderVars, fbVars
  <2> QED
    BY <2>1, <2>2
<1>5. CASE On3dActive /\ UNCHANGED aborted
  <2>1. SurfaceTypeOK'
    BY <1>5 DEF On3dActive, SurfaceTypeOK, surfaceVars, modeVars
  <2>2. RingTypeOK' /\ FrontTypeOK' /\ CursorTypeOK' /\ RenderTypeOK'
    BY <1>5 DEF On3dActive, RingTypeOK, FrontTypeOK, CursorTypeOK, RenderTypeOK,
       surfaceVars, modeVars, ringVars, frontVars, cursorVars, renderVars, fbVars
  <2> QED
    BY <2>1, <2>2
<1>6. CASE OnCursor /\ UNCHANGED aborted
  <2>1. CursorTypeOK'
    BY <1>6 DEF OnCursor, CursorTypeOK, cursorVars
  <2>2. SurfaceTypeOK' /\ RingTypeOK' /\ FrontTypeOK' /\ RenderTypeOK'
    BY <1>6 DEF OnCursor, SurfaceTypeOK, RingTypeOK, FrontTypeOK, RenderTypeOK,
       surfaceVars, modeVars, ringVars, frontVars, cursorVars, renderVars, fbVars
  <2> QED
    BY <2>1, <2>2
<1>7. CASE OnMouseSet /\ UNCHANGED aborted
  <2>1. CursorTypeOK'
    BY <1>7 DEF OnMouseSet, CursorTypeOK, cursorVars
  <2>2. FrontTypeOK'
    BY <1>7 DEF OnMouseSet, FrontTypeOK, frontVars
  <2>3. RingTypeOK'
    BY <1>7 DEF OnMouseSet, RingTypeOK, ringVars, frontVars, renderVars
  <2>4. SurfaceTypeOK' /\ RenderTypeOK'
    BY <1>7 DEF OnMouseSet, SurfaceTypeOK, RenderTypeOK, surfaceVars, modeVars,
       ringVars, frontVars, cursorVars, renderVars, fbVars
  <2> QED
    BY <2>1, <2>2, <2>3, <2>4
<1>8. CASE On3dFrame /\ UNCHANGED aborted
  <2>1. SurfaceTypeOK'
    BY <1>8 DEF On3dFrame, SurfaceTypeOK, surfaceVars, modeVars
  <2>2. RingTypeOK'
    BY <1>8 DEF On3dFrame, RingTypeOK, ringVars, frontVars, renderVars
  <2>3. FrontTypeOK'
    BY <1>8, ConstantsOK, WholeType DEF On3dFrame, FrontTypeOK, frontVars, Columns,
       Assumptions
  <2>4. CursorTypeOK' /\ RenderTypeOK'
    BY <1>8 DEF On3dFrame, CursorTypeOK, RenderTypeOK, surfaceVars, modeVars,
       ringVars, frontVars, cursorVars, renderVars, fbVars
  <2> QED
    BY <2>1, <2>2, <2>3, <2>4
<1>9. CASE On3dSlotOffered /\ UNCHANGED aborted
  <2>1. RingTypeOK'
    BY <1>9 DEF On3dSlotOffered, RingTypeOK, ringVars, frontVars, renderVars
  <2>2. SurfaceTypeOK' /\ FrontTypeOK' /\ CursorTypeOK' /\ RenderTypeOK'
    BY <1>9 DEF On3dSlotOffered, SurfaceTypeOK, FrontTypeOK, CursorTypeOK,
       RenderTypeOK, surfaceVars, modeVars, ringVars, frontVars, cursorVars,
       renderVars, fbVars
  <2> QED
    BY <2>1, <2>2
<1>10. CASE On3dFrameReady /\ UNCHANGED aborted
  <2>1. SurfaceTypeOK'
    BY <1>10 DEF On3dFrameReady, SurfaceTypeOK, surfaceVars, modeVars
  <2>2. RingTypeOK'
    BY <1>10 DEF On3dFrameReady, RingTypeOK, ringVars, frontVars, renderVars
  <2>3. FrontTypeOK'
    BY <1>10 DEF On3dFrameReady, FrontTypeOK, frontVars
  <2>4. CursorTypeOK' /\ RenderTypeOK'
    BY <1>10 DEF On3dFrameReady, CursorTypeOK, RenderTypeOK, surfaceVars, modeVars,
       ringVars, frontVars, cursorVars, renderVars, fbVars
  <2> QED
    BY <2>1, <2>2, <2>3, <2>4
<1>11. CASE WakeImports /\ UNCHANGED aborted
  <2>1. RingTypeOK'
    BY <1>11 DEF WakeImports, ImportSlots, RingTypeOK, ringVars,
       frontVars, renderVars
  <2>2. RenderTypeOK'
    BY <1>11 DEF WakeImports, ImportSlots, RenderTypeOK, renderVars,
       fbVars
  <2>3. SurfaceTypeOK' /\ FrontTypeOK' /\ CursorTypeOK'
    BY <1>11 DEF WakeImports, ImportSlots, SurfaceTypeOK,
       FrontTypeOK, CursorTypeOK, surfaceVars, modeVars, ringVars, frontVars,
       cursorVars, renderVars, fbVars
  <2> QED
    BY <2>1, <2>2, <2>3
<1>12. CASE PresentBegins /\ UNCHANGED aborted
  <2>1. RingTypeOK'
    BY <1>12 DEF PresentBegins, ImportSlots, RingTypeOK, ringVars, frontVars, renderVars
  <2>2. RenderTypeOK'
    BY <1>12, ConstantsOK DEF PresentBegins, ImportSlots, RenderTypeOK, renderVars, fbVars,
       CursorTypeOK, Assumptions
  <2>3. SurfaceTypeOK' /\ FrontTypeOK' /\ CursorTypeOK'
    BY <1>12 DEF PresentBegins, ImportSlots, SurfaceTypeOK, FrontTypeOK, CursorTypeOK,
       surfaceVars, modeVars, ringVars, frontVars, cursorVars, renderVars, fbVars
  <2> QED
    BY <2>1, <2>2, <2>3
<1>13. CASE PresentNothing /\ UNCHANGED aborted
  <2>1. RingTypeOK'
    BY <1>13 DEF PresentNothing, RingTypeOK, ringVars, frontVars, renderVars
  <2>2. RenderTypeOK'
    BY <1>13, ConstantsOK DEF PresentNothing, RenderTypeOK, renderVars, fbVars,
       Assumptions
  <2>3. SurfaceTypeOK' /\ FrontTypeOK' /\ CursorTypeOK'
    BY <1>13 DEF PresentNothing, SurfaceTypeOK, FrontTypeOK, CursorTypeOK,
       surfaceVars, modeVars, ringVars, frontVars, cursorVars, renderVars, fbVars
  <2> QED
    BY <2>1, <2>2, <2>3
<1>14. CASE (PresentSlot \/ PresentWithSprite \/ PresentPixels) /\ UNCHANGED aborted
  <2>1. RingTypeOK'
    BY <1>14 DEF PresentSlot, PresentWithSprite, PresentPixels, TakeNewer,
       RingTypeOK, ringVars, frontVars, renderVars
  <2>2. FrontTypeOK'
    BY <1>14 DEF PresentSlot, PresentWithSprite, PresentPixels, TakeNewer,
       FrontTypeOK, frontVars
  <2>3. RenderTypeOK'
    <3>1. CASE PresentSlot
      BY <1>14, <3>1, ConstantsOK DEF PresentSlot, TakeNewer, RenderTypeOK, fbVars, Assumptions
    <3>2. CASE PresentWithSprite
      <4>1. fb' \in [Whole(fb_width') -> Pixels \cup {SpritePixel}]
        BY <3>2 DEF PresentWithSprite, FrontTypeOK, Frames, Composite
      <4> QED
        BY <3>2, <4>1, ConstantsOK DEF PresentWithSprite, TakeNewer, FrontTypeOK, RenderTypeOK,
           Assumptions
    <3>3. CASE PresentPixels
      <4>1. fb_width' \in 0..MaxWidth
        BY <3>3 DEF PresentPixels, FrontTypeOK, RenderTypeOK
      <4>2. fb' \in [Whole(fb_width') -> Pixels \cup {SpritePixel}]
        <5>1. CASE fb_whole \/ fb_width # front_width
          BY <3>3, <5>1 DEF PresentPixels, FrontTypeOK, Frames
        <5>2. CASE ~(fb_whole \/ fb_width # front_width)
          BY <3>3, <5>2 DEF PresentPixels, FrontTypeOK, RenderTypeOK, Frames, CopyRect
        <5> QED
          BY <5>1, <5>2
      <4> QED
        BY <3>3, <4>1, <4>2, ConstantsOK DEF PresentPixels, TakeNewer, RenderTypeOK, Assumptions
    <3> QED
      BY <1>14, <3>1, <3>2, <3>3
  <2>4. SurfaceTypeOK' /\ CursorTypeOK'
    BY <1>14 DEF PresentSlot, PresentWithSprite, PresentPixels, TakeNewer,
       SurfaceTypeOK, CursorTypeOK, surfaceVars, modeVars, ringVars, frontVars,
       cursorVars, renderVars, fbVars
  <2> QED
    BY <2>1, <2>2, <2>3, <2>4
<1>15. CASE Clock /\ UNCHANGED aborted
  <2>1. SurfaceTypeOK'
    BY <1>15 DEF Clock, FallbackExpires, GraceExpires, SurfaceTypeOK, surfaceVars,
       modeVars
  <2>2. RingTypeOK' /\ FrontTypeOK' /\ CursorTypeOK' /\ RenderTypeOK'
    BY <1>15 DEF Clock, FallbackExpires, GraceExpires, RingTypeOK, FrontTypeOK,
       CursorTypeOK, RenderTypeOK, surfaceVars, modeVars, ringVars, frontVars,
       cursorVars, renderVars, fbVars
  <2> QED
    BY <2>1, <2>2
<1>16. CASE UNCHANGED vars
  <2>1. SurfaceTypeOK' /\ RingTypeOK' /\ FrontTypeOK' /\ CursorTypeOK' /\ RenderTypeOK'
    BY <1>16 DEF vars, SurfaceTypeOK, RingTypeOK, FrontTypeOK, CursorTypeOK,
       RenderTypeOK, surfaceVars, modeVars, ringVars, frontVars, cursorVars,
       renderVars, fbVars
  <2> QED
    BY <2>1
<1> QED
  BY <1>1, <1>2, <1>3, <1>4, <1>5, <1>6, <1>7, <1>8, <1>9, <1>10, <1>11, <1>12, <1>13, <1>14, <1>15, <1>16
     DEF Next, GuestStep, HostStep, RenderStep

(* Every variable keeps its type.                                            *)
THEOREM TypeCorrect == Spec => []TypeOK
BY InitTypeOK, NextTypeOK, PTL DEF Spec

-----------------------------------------------------------------------------
(* PendingFitsFrame                                                          *)

(* No step leaves `pending` outside the published frame: on_refresh_done     *)
(* forgets it with the frame's size, and on_3d_frame replaces it.            *)
LEMMA NextPendingFits ==
  TypeOK /\ PendingFitsFrame /\ [Next]_vars => PendingFitsFrame'
<1> SUFFICES ASSUME TypeOK, PendingFitsFrame, [Next]_vars PROVE PendingFitsFrame'
  OBVIOUS
<1> USE DEF PendingFitsFrame
<1>1. CASE OnRefreshDone
  <2>1. width \in 0..MaxWidth
    BY DEF TypeOK, SurfaceTypeOK
  <2>2. CASE Recopy
    <3>1. pending' = Union({}, Whole(width)) \/ pending' = {}
      BY <1>1, <2>2 DEF OnRefreshDone, Region
    <3> QED
      BY <1>1, <2>1, <3>1, UnionFits DEF OnRefreshDone
  <2>3. CASE ~Recopy
    <3>1. pending \in SUBSET Whole(width)
      BY <2>3 DEF Recopy
    <3>2. PICK r \in SUBSET Whole(width) : pending' = pending \/ pending' = Union(pending, r)
      BY <1>1, <2>3 DEF OnRefreshDone
    <3> QED
      BY <1>1, <2>1, <3>1, <3>2, UnionFits DEF OnRefreshDone
  <2> QED
    BY <2>2, <2>3
<1>2. CASE On3dFrame
  BY <1>2 DEF On3dFrame
<1>3. CASE OnMouseSet
  BY <1>3 DEF OnMouseSet
<1>4. CASE On3dFrameReady
  BY <1>4 DEF On3dFrameReady
<1>5. CASE PresentSlot \/ PresentWithSprite \/ PresentPixels
  BY <1>5 DEF PresentSlot, PresentWithSprite, PresentPixels, TakeNewer
<1>6. CASE UNCHANGED frontVars
  BY <1>6 DEF frontVars
<1>7. \/ OnRefreshDone \/ On3dFrame \/ OnMouseSet \/ On3dFrameReady
      \/ PresentSlot \/ PresentWithSprite \/ PresentPixels \/ UNCHANGED frontVars
  BY DEF Next, GuestStep, HostStep, RenderStep, Clock, OnSwitch, OnUpdate, On3dActive, OnCursor,
     On3dSlotOffered, WakeImports, PresentBegins, PresentNothing, FallbackExpires,
     GraceExpires, OnRefreshPanics, vars
<1> QED
  BY <1>1, <1>2, <1>3, <1>4, <1>5, <1>6, <1>7

(* The region the render thread is lent lies in the frame it comes with,     *)
(* whatever mode switches and 3D frames come between two takes.              *)
THEOREM RegionInsideFrame == Spec => []PendingFitsFrame
<1>1. Init => PendingFitsFrame
  BY DEF Init, PendingFitsFrame
<1> QED
  BY <1>1, TypeCorrect, NextPendingFits, PTL DEF Spec

-----------------------------------------------------------------------------
(* FrontHasSurface                                                           *)

(* A step that changes the surface's copy grows back_dirty by as much, and   *)
(* one that empties back_dirty has published it.                             *)
LEMMA NextFrontHasSurface ==
  TypeOK /\ FrontHasSurface /\ [Next]_vars => FrontHasSurface'
<1> SUFFICES ASSUME TypeOK, FrontHasSurface, [Next]_vars,
                    front_width' = width', ~front_stale',
                    NEW c \in Whole(width') \ back_dirty'
             PROVE  pixels'[c] = back'[c]
  BY DEF FrontHasSurface
<1> USE DEF FrontHasSurface
<1>t. width \in 0..MaxWidth /\ back \in Frames(width) /\ back_dirty \in SUBSET Columns
  BY DEF TypeOK, SurfaceTypeOK
<1>1. CASE OnSwitch
  <2>1. Whole(width') \subseteq back_dirty'
    <3>1. PICK w \in Columns : width' = w /\ back_dirty' = Union(back_dirty, Whole(w))
      BY <1>1 DEF OnSwitch
    <3>2. Whole(w) \in SUBSET Columns
      BY WholeType, ConstantsOK DEF Columns, Assumptions
    <3> QED
      BY <3>1, <3>2, <1>t, UnionCovers
  <2> QED
    BY <2>1
<1>2. CASE OnUpdate
  <2>1. PICK r \in Rects, drawn \in Frames(width) :
          /\ back' = CopyRect(drawn, back, r \cap Whole(width))
          /\ back_dirty' = IF r \cap Whole(width) = {} THEN back_dirty
                           ELSE Union(back_dirty, r \cap Whole(width))
    BY <1>2 DEF OnUpdate
  <2>2. r \cap Whole(width) \in SUBSET Columns
    BY <1>t, WholeType
  <2>3. back_dirty \subseteq back_dirty' /\ r \cap Whole(width) \subseteq back_dirty'
    BY <2>1, <2>2, <1>t, UnionCovers
  <2>4. width' = width /\ front_width' = front_width /\ front_stale' = front_stale
        /\ pixels' = pixels
    BY <1>2 DEF OnUpdate, frontVars
  <2>5. back'[c] = back[c]
    BY <2>1, <2>3, <2>4, <1>t DEF CopyRect, Frames
  <2> QED
    BY <2>3, <2>4, <2>5
<1>3. CASE OnRefreshDone
  <2>1. width' = width /\ back' = back /\ ~Transitional
    BY <1>3 DEF OnRefreshDone
  <2>2. CASE Recopy
    BY <1>3, <2>1, <2>2 DEF OnRefreshDone, CopyRect, Region
  <2>3. CASE ~Recopy
    <3>1. pixels' = CopyRect(back, pixels, back_dirty)
      BY <1>3, <2>1, <2>3 DEF OnRefreshDone, Region
    <3>2. c \in DOMAIN pixels
      BY <2>1, <2>3 DEF Recopy, TypeOK, FrontTypeOK, Frames
    <3>3. c \notin back_dirty => pixels[c] = back[c]
      BY <2>1, <2>3 DEF Recopy
    <3> QED
      BY <2>1, <3>1, <3>2, <3>3 DEF CopyRect
  <2> QED
    BY <2>2, <2>3
<1>4. CASE On3dFrame
  BY <1>4 DEF On3dFrame
<1>5. CASE UNCHANGED <<width, back, back_dirty, front_width, pixels, front_stale>>
  BY <1>5
<1>6. \/ OnSwitch \/ OnUpdate \/ OnRefreshDone \/ On3dFrame
      \/ UNCHANGED <<width, back, back_dirty, front_width, pixels, front_stale>>
  BY DEF Next, GuestStep, HostStep, RenderStep, Clock, On3dActive, OnCursor, OnMouseSet,
     On3dSlotOffered, On3dFrameReady, WakeImports, PresentBegins, PresentNothing,
     PresentSlot, PresentWithSprite, PresentPixels, TakeNewer, FallbackExpires, GraceExpires,
     OnRefreshPanics, vars, surfaceVars, frontVars
<1> QED
  BY <1>1, <1>2, <1>3, <1>4, <1>5, <1>6

(* Copying only the dirty rectangle never leaves a stale pixel in the        *)
(* published frame.                                                          *)
THEOREM PublishedIsSurface == Spec => []FrontHasSurface
<1>1. Init => FrontHasSurface
  BY DEF Init, FrontHasSurface, Whole
<1> QED
  BY <1>1, TypeCorrect, NextFrontHasSurface, PTL DEF Spec

-----------------------------------------------------------------------------
(* DirtyIsSeen                                                               *)

(* Whatever makes the surface's copy dirty marks the surface drawn on, and   *)
(* both are settled by the same publish.                                     *)
THEOREM DirtyIsKept == Spec => []DirtyIsSeen
<1>1. Init => DirtyIsSeen
  BY DEF Init, DirtyIsSeen
<1>2. DirtyIsSeen /\ [Next]_vars => DirtyIsSeen'
  BY DEF DirtyIsSeen, Next, GuestStep, HostStep, RenderStep, Clock, OnSwitch, OnUpdate,
     OnRefreshDone, On3dActive, OnCursor, OnMouseSet, On3dFrame, On3dSlotOffered,
     On3dFrameReady, WakeImports, PresentBegins, PresentNothing, PresentSlot,
     PresentWithSprite, PresentPixels, TakeNewer, FallbackExpires, GraceExpires,
     OnRefreshPanics, vars, surfaceVars
<1> QED
  BY <1>1, <1>2, PTL DEF Spec

-----------------------------------------------------------------------------
(* TextureHasFront                                                           *)

(* Without zero copy no slot is ever offered, so none is published.          *)
LEMMA NoSlotPublished == TypeOK /\ ~zero_copy => ext_slot = NoSlot
BY DEF TypeOK, RingTypeOK

(* What TextureHasFront says, of a player with ring slots too.               *)
TextureCurrent ==
  fb_width = front_width /\ ~fb_whole =>
    \A c \in Whole(front_width) \ pending : fb[c] = pixels[c]

(* A step that changes the published pixels grows `pending` by as much, and  *)
(* a take that empties `pending` has uploaded it, unless it is a slot's.     *)
LEMMA NextTextureCurrent ==
  ASSUME TypeOK, TextureCurrent, [Next]_vars, PresentSlot => pending = {}
  PROVE  TextureCurrent'
<1> SUFFICES ASSUME fb_width' = front_width', ~fb_whole',
                    NEW c \in Whole(front_width') \ pending'
             PROVE  fb'[c] = pixels'[c]
  BY DEF TextureCurrent
<1> USE DEF TextureCurrent
<1>t. front_width \in 0..MaxWidth /\ pixels \in Frames(front_width)
      /\ pending \in SUBSET Columns
      /\ fb \in [Whole(fb_width) -> Pixels \cup {SpritePixel}]
      /\ width \in 0..MaxWidth /\ back_dirty \in SUBSET Columns
  BY DEF TypeOK, SurfaceTypeOK, FrontTypeOK, RenderTypeOK
<1>1. CASE OnRefreshDone
  <2>0. front_width' = width /\ fb' = fb /\ fb_width' = fb_width /\ fb_whole' = fb_whole
    BY <1>1 DEF OnRefreshDone, renderVars, fbVars
  <2>1. CASE Recopy \/ Transitional
    <3>1. PICK left \in SUBSET Columns : pending' = Union(left, Whole(width))
                                      \/ Whole(width) = {}
      BY <1>1, <2>1, <1>t DEF OnRefreshDone, Region
    <3>2. Whole(width) \in SUBSET Columns
      BY <1>t, WholeType
    <3> QED
      BY <2>0, <3>1, <3>2, UnionCovers
  <2>2. CASE ~Recopy /\ ~Transitional
    <3>1. pixels' = CopyRect(back, pixels, back_dirty)
      BY <1>1, <2>2 DEF OnRefreshDone, Region
    <3>2. pending' = IF back_dirty = {} THEN pending ELSE Union(pending, back_dirty)
      BY <1>1, <2>2 DEF OnRefreshDone, Region
    <3>3. c \notin pending /\ c \notin back_dirty
      BY <3>2, <1>t, UnionCovers
    <3>4. front_width = width
      BY <2>2 DEF Recopy
    <3>5. pixels'[c] = pixels[c]
      BY <2>0, <3>1, <3>3, <3>4, <1>t DEF CopyRect, Frames
    <3> QED
      BY <2>0, <3>3, <3>4, <3>5
  <2> QED
    BY <2>1, <2>2
<1>2. CASE On3dFrame
  BY <1>2 DEF On3dFrame
<1>3. CASE PresentSlot
  <2>1. pending = {} /\ UNCHANGED <<front_width, pixels, fb_width, fb, fb_whole>>
    BY <1>3 DEF PresentSlot, TakeNewer, fbVars
  <2> QED
    BY <2>1
<1>4. CASE PresentWithSprite
  BY <1>4 DEF PresentWithSprite
<1>5. CASE PresentPixels
  <2>1. pixels' = pixels /\ front_width' = front_width
    BY <1>5 DEF PresentPixels, TakeNewer
  <2>2. CASE fb_whole \/ fb_width # front_width
    BY <1>5, <2>1, <2>2 DEF PresentPixels
  <2>3. CASE ~fb_whole /\ fb_width = front_width
    <3>1. fb' = CopyRect(pixels, fb, pending)
      BY <1>5, <2>3 DEF PresentPixels
    <3>2. c \in DOMAIN fb
      BY <2>1, <2>3, <1>t
    <3>3. c \notin pending => fb[c] = pixels[c]
      BY <2>1, <2>3
    <3> QED
      BY <2>1, <3>1, <3>2, <3>3 DEF CopyRect
  <2> QED
    BY <2>2, <2>3
<1>6. CASE UNCHANGED <<front_width, pixels, pending, fb_width, fb, fb_whole>>
  BY <1>6
<1>7. \/ OnRefreshDone \/ On3dFrame \/ PresentSlot \/ PresentWithSprite \/ PresentPixels
      \/ UNCHANGED <<front_width, pixels, pending, fb_width, fb, fb_whole>>
  BY DEF Next, GuestStep, HostStep, RenderStep, Clock, OnSwitch, OnUpdate, On3dActive, OnCursor,
     OnMouseSet, On3dSlotOffered, On3dFrameReady, WakeImports, PresentBegins,
     PresentNothing, FallbackExpires, GraceExpires, OnRefreshPanics, vars, frontVars, renderVars,
     fbVars
<1> QED
  BY <1>1, <1>2, <1>3, <1>4, <1>5, <1>6, <1>7

(* Without ring slots no slot is taken, and `zero_copy` never changes.       *)
LEMMA NextTextureHasFront ==
  TypeOK /\ TextureHasFront /\ [Next]_vars => TextureHasFront'
<1> SUFFICES ASSUME TypeOK, TextureHasFront, [Next]_vars, ~zero_copy' PROVE TextureCurrent'
  BY DEF TextureHasFront, TextureCurrent
<1>1. zero_copy' = zero_copy
  BY DEF Next, GuestStep, HostStep, RenderStep, Clock, OnSwitch, OnUpdate, OnRefreshDone,
     On3dActive, OnCursor, OnMouseSet, On3dFrame, On3dSlotOffered, On3dFrameReady, WakeImports,
     PresentBegins, PresentNothing, PresentSlot, PresentWithSprite, PresentPixels,
     TakeNewer, FallbackExpires, GraceExpires, OnRefreshPanics, vars, ringVars
<1>2. TextureCurrent
  BY <1>1 DEF TextureHasFront, TextureCurrent
<1>3. ~PresentSlot
  BY <1>1, NoSlotPublished DEF PresentSlot
<1> QED
  BY <1>2, <1>3, NextTextureCurrent

(* Uploading only `pending` never leaves a stale pixel in the texture, when  *)
(* no frame comes by reference.                                              *)
THEOREM TextureIsPublished == Spec => []TextureHasFront
<1>1. Init => TextureHasFront
  BY DEF Init, TextureHasFront
<1> QED
  BY <1>1, TypeCorrect, NextTextureHasFront, PTL DEF Spec

-----------------------------------------------------------------------------
(* The refinement                                                            *)

IInv == TypeOK /\ TextureHasFront /\ ~zero_copy

(* A frame is a picture of the abstract display.                             *)
LEMMA FramesArePictures ==
  ASSUME NEW w \in 0..MaxWidth, NEW p \in Frames(w)
  PROVE  p \in Abstract!Pictures
BY DEF Abstract!Pictures, Frames, Whole

(* Every step publishes, places the sprite, shows, or changes nothing the    *)
(* abstract display sees.                                                    *)
LEMMA StepImplements == IInv /\ IInv' /\ [Next]_vars => [Abstract!Next]_(Abstract!vars)
<1> SUFFICES ASSUME IInv, IInv', [Next]_vars PROVE [Abstract!Next]_(Abstract!vars)
  OBVIOUS
<1>t. front_width \in 0..MaxWidth /\ pixels \in Frames(front_width)
      /\ pending \in SUBSET Columns /\ sprite \in 0..MaxWidth
      /\ fb \in [Whole(fb_width) -> Pixels \cup {SpritePixel}]
  BY DEF IInv, TypeOK, FrontTypeOK, RenderTypeOK
<1>p. pixels' \in Abstract!Pictures
  BY FramesArePictures DEF IInv, TypeOK, FrontTypeOK
<1>1. CASE newer' = TRUE /\ UNCHANGED <<fb, sprite>>
  BY <1>1, <1>p DEF Abstract!Next, Abstract!Publish
<1>2. CASE PresentWithSprite
  <2>1. fb' = Abstract!Overlay(pixels, sprite)
    BY <1>2 DEF PresentWithSprite, Composite, Abstract!Overlay
  <2> QED
    BY <1>2, <2>1, <1>t DEF PresentWithSprite, TakeNewer, Abstract!Next, Abstract!Show
<1>3. CASE PresentPixels
  <2>1. fb' = pixels
    <3>1. CASE fb_whole \/ fb_width # front_width
      BY <1>3, <3>1 DEF PresentPixels
    <3>2. CASE ~fb_whole /\ fb_width = front_width
      <4>1. fb' = [c \in Whole(front_width) |-> IF c \in pending THEN pixels[c] ELSE fb[c]]
        BY <1>3, <3>2, <1>t DEF PresentPixels, CopyRect
      <4>2. \A c \in Whole(front_width) \ pending : fb[c] = pixels[c]
        BY <3>2 DEF IInv, TextureHasFront
      <4> QED
        BY <4>1, <4>2, <1>t DEF Frames
    <3> QED
      BY <3>1, <3>2
  <2>2. Abstract!Overlay(pixels, 0) = pixels
    BY <1>t DEF Abstract!Overlay, Frames, Whole
  <2> QED
    BY <1>3, <2>1, <2>2, <1>t DEF PresentPixels, TakeNewer, Abstract!Next, Abstract!Show
<1>4. CASE PresentSlot
  BY <1>4, NoSlotPublished DEF PresentSlot, IInv
<1>5. CASE UNCHANGED <<pixels, fb, newer>>
  <2>1. sprite' \in 0..MaxWidth
    BY DEF IInv, TypeOK, RenderTypeOK
  <2> QED
    BY <1>5, <2>1 DEF Abstract!Next, Abstract!PlaceSprite
<1>6. CASE OnMouseSet
  <2>1. UNCHANGED <<pixels, sprite, fb>> /\ (newer' = newer \/ newer' = TRUE)
    BY <1>6 DEF OnMouseSet, renderVars, fbVars, IInv, TypeOK, FrontTypeOK
  <2> QED
    BY <2>1, <1>1, <1>5
<1>7. \/ newer' = TRUE /\ UNCHANGED <<fb, sprite>>
      \/ PresentWithSprite \/ PresentPixels \/ PresentSlot \/ OnMouseSet
      \/ UNCHANGED <<pixels, fb, newer>>
  BY DEF Next, GuestStep, HostStep, RenderStep, Clock, OnSwitch, OnUpdate, OnRefreshDone,
     On3dActive, OnCursor, On3dFrame, On3dSlotOffered, On3dFrameReady, WakeImports,
     PresentBegins, PresentNothing, FallbackExpires, GraceExpires, OnRefreshPanics, vars,
     frontVars, renderVars, fbVars
<1> QED
  BY <1>1, <1>2, <1>3, <1>4, <1>5, <1>6, <1>7

(* The whole incremental path shows what a path that copied and uploaded     *)
(* every frame would: the last published picture, with the sprite of that    *)
(* take over it, if any.                                                     *)
THEOREM Implements == Spec /\ ZeroCopy = {FALSE} => ImplementsLatestFrame
<1>1. Init /\ ZeroCopy = {FALSE} => ~zero_copy /\ Abstract!Init
  BY DEF Init, Abstract!Init
<1>2. ~zero_copy /\ [Next]_vars => ~zero_copy'
  BY DEF Next, GuestStep, HostStep, RenderStep, Clock, OnSwitch, OnUpdate, OnRefreshDone,
     On3dActive, OnCursor, OnMouseSet, On3dFrame, On3dSlotOffered, On3dFrameReady, WakeImports,
     PresentBegins, PresentNothing, PresentSlot, PresentWithSprite, PresentPixels,
     TakeNewer, FallbackExpires, GraceExpires, OnRefreshPanics, vars, ringVars
<1> QED
  BY <1>1, <1>2, TypeCorrect, TextureIsPublished, StepImplements, PTL
     DEF Spec, IInv, ImplementsLatestFrame, Abstract!Spec
-----------------------------------------------------------------------------
(* How far the two failures of this path go                                  *)

(* Nothing dirty lies outside the surface, as long as no smaller surface     *)
(* comes while something waits to be published.                              *)
DirtyFits == back_dirty \subseteq Whole(width)
NoDirtyShrink == OnSwitch /\ width' < width => back_dirty = {}

(* A switch that shrinks the surface is the only step that could break it.   *)
LEMMA NextDirtyFits ==
  ASSUME TypeOK, DirtyFits, [Next]_vars, NoDirtyShrink
  PROVE  DirtyFits'
<1>t. width \in 0..MaxWidth /\ MaxWidth \in Nat
  BY ConstantsOK DEF TypeOK, SurfaceTypeOK, Assumptions
<1>1. CASE OnSwitch
  <2>1. PICK w \in Columns : width' = w /\ back_dirty' = Union(back_dirty, Whole(w))
    BY <1>1 DEF OnSwitch
  <2>2. w \in 0..MaxWidth
    BY <1>t DEF Columns
  <2>3. back_dirty \in SUBSET Whole(w)
    <3>1. CASE w < width
      BY <1>1, <2>1, <3>1 DEF NoDirtyShrink
    <3>2. CASE ~(w < width)
      BY <1>t, <2>2, <3>2 DEF DirtyFits, Whole
    <3> QED
      BY <3>1, <3>2
  <2> QED
    BY <2>1, <2>2, <2>3, UnionFits DEF DirtyFits
<1>2. CASE OnUpdate
  <2>1. PICK r : back_dirty' = back_dirty \/ back_dirty' = Union(back_dirty, r \cap Whole(width))
    BY <1>2 DEF OnUpdate
  <2>2. width' = width /\ r \cap Whole(width) \in SUBSET Whole(width)
    BY <1>2 DEF OnUpdate
  <2> QED
    BY <1>t, <2>1, <2>2, UnionFits DEF DirtyFits
<1>3. CASE OnRefreshDone
  BY <1>3 DEF OnRefreshDone, DirtyFits
<1>4. \/ OnSwitch \/ OnUpdate \/ OnRefreshDone \/ UNCHANGED <<width, back_dirty>>
  BY DEF Next, GuestStep, HostStep, RenderStep, Clock, On3dActive, OnCursor, OnMouseSet,
     On3dFrame, On3dSlotOffered, On3dFrameReady, WakeImports, PresentBegins, PresentNothing,
     PresentSlot, PresentWithSprite, PresentPixels, TakeNewer, FallbackExpires, GraceExpires,
     OnRefreshPanics, vars, surfaceVars
<1> QED
  BY <1>1, <1>2, <1>3, <1>4 DEF DirtyFits

(* The panic of NoPanic has one cause: a smaller surface than the one with   *)
(* unpublished changes before it. A larger one, or one that finds everything *)
(* published, never leads to it, whatever comes between.                     *)
THEOREM PanicNeedsDirtyShrink == Spec /\ [][NoDirtyShrink]_vars => []NoPanic
<1>1. Init => DirtyFits /\ NoPanic
  BY DEF Init, DirtyFits, NoPanic
<1>2. TypeOK /\ DirtyFits /\ [Next]_vars /\ [NoDirtyShrink]_vars => DirtyFits'
  <2> SUFFICES ASSUME TypeOK, DirtyFits, [Next]_vars, [NoDirtyShrink]_vars PROVE DirtyFits'
    OBVIOUS
  <2>1. CASE UNCHANGED vars
    BY <2>1 DEF vars, surfaceVars, DirtyFits
  <2>2. CASE NoDirtyShrink
    BY <2>2, NextDirtyFits
  <2> QED
    BY <2>1, <2>2
<1>3. DirtyFits /\ NoPanic /\ [Next]_vars => NoPanic'
  <2> SUFFICES ASSUME DirtyFits, NoPanic, [Next]_vars PROVE NoPanic'
    OBVIOUS
  <2>1. ~OnRefreshPanics
    BY DEF OnRefreshPanics, Region, DirtyFits
  <2> QED
    BY <2>1 DEF Next, NoPanic, vars
<1> QED
  BY <1>1, <1>2, <1>3, TypeCorrect, PTL DEF Spec

(* A copied frame once taken has nothing pending and the texture's size.     *)
TakenWhole ==
  ~newer /\ ext_slot = NoSlot /\ ~fb_whole => pending = {} /\ fb_width = front_width
NoSlotOverPending == PresentSlot => pending = {}

(* Whatever publishes a copied frame makes it newer, and a take settles it.  *)
LEMMA NextTakenWhole ==
  ASSUME TypeOK, TakenWhole, [Next]_vars
  PROVE  TakenWhole'
<1>1. CASE newer' = TRUE
  BY <1>1 DEF TakenWhole
<1>2. CASE PresentSlot
  BY <1>2 DEF PresentSlot, TakeNewer, TakenWhole
<1>3. CASE PresentWithSprite
  BY <1>3 DEF PresentWithSprite, TakenWhole
<1>4. CASE PresentPixels
  BY <1>4 DEF PresentPixels, TakeNewer, TakenWhole
<1>5. CASE OnMouseSet
  BY <1>1, <1>5 DEF OnMouseSet, renderVars, fbVars, TakenWhole, TypeOK, FrontTypeOK
<1>6. CASE UNCHANGED <<frontVars, fbVars>>
  BY <1>6 DEF frontVars, fbVars, TakenWhole
<1>7. \/ newer' = TRUE \/ PresentSlot \/ PresentWithSprite \/ PresentPixels \/ OnMouseSet
      \/ UNCHANGED <<frontVars, fbVars>>
  BY DEF Next, GuestStep, HostStep, RenderStep, Clock, OnSwitch, OnUpdate, OnRefreshDone,
     On3dActive, OnCursor, On3dFrame, On3dSlotOffered, On3dFrameReady, WakeImports,
     PresentBegins, PresentNothing, FallbackExpires, GraceExpires, OnRefreshPanics, vars,
     renderVars
<1> QED
  BY <1>1, <1>2, <1>3, <1>4, <1>5, <1>6, <1>7

(* With ring slots too, the window shows all of the copied frame it took,    *)
(* as long as no slot's frame is taken while a copied region is pending.     *)
THEOREM StaleNeedsSlotOverPending == Spec /\ [][NoSlotOverPending]_vars => []TakenFrameIsShown
<1>1. Init => TextureCurrent /\ TakenWhole
  BY DEF Init, TextureCurrent, TakenWhole
<1>2. TypeOK /\ TextureCurrent /\ [Next]_vars /\ [NoSlotOverPending]_vars => TextureCurrent'
  <2> SUFFICES ASSUME TypeOK, TextureCurrent, [Next]_vars, [NoSlotOverPending]_vars
               PROVE  TextureCurrent'
    OBVIOUS
  <2>1. CASE UNCHANGED vars
    BY <2>1 DEF vars, frontVars, renderVars, fbVars, TextureCurrent
  <2>2. CASE NoSlotOverPending
    BY <2>2, NextTextureCurrent DEF NoSlotOverPending
  <2> QED
    BY <2>1, <2>2
<1>3. TypeOK /\ TakenWhole /\ [Next]_vars => TakenWhole'
  BY NextTakenWhole
<1>4. TypeOK /\ TextureCurrent /\ TakenWhole => TakenFrameIsShown
  <2> SUFFICES ASSUME TypeOK, TextureCurrent, TakenWhole, ~newer, ext_slot = NoSlot, ~fb_whole
               PROVE  fb = pixels
    BY DEF TakenFrameIsShown
  <2>1. fb_width = front_width /\ \A c \in Whole(front_width) : fb[c] = pixels[c]
    BY DEF TextureCurrent, TakenWhole
  <2>2. /\ pixels \in [Whole(front_width) -> Pixels]
        /\ fb \in [Whole(fb_width) -> Pixels \cup {SpritePixel}]
    BY DEF TypeOK, FrontTypeOK, RenderTypeOK, Frames
  <2> QED
    BY <2>1, <2>2
<1> QED
  BY <1>1, <1>2, <1>3, <1>4, TypeCorrect, PTL DEF Spec
=============================================================================
