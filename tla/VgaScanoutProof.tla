--------------------------- MODULE VgaScanoutProof ---------------------------
(* What holds of the picture and of the sprite for any set of pages,         *)
(* colours, palettes and gamma ramps: the inductive invariants of VgaScanout *)
(* and their consequences.                                                   *)
EXTENDS VgaScanout, TLAPS

(* The type invariant in parts, for the provers.                             *)
ModeType == /\ flip_push \in BOOLEAN /\ r_enable \in BOOLEAN
            /\ r_bpp \in Depths /\ r_offset \in Pages
LinType == /\ lin_on \in BOOLEAN /\ lin \in Modes /\ shadow \in BOOLEAN
           /\ full_update \in BOOLEAN /\ resurface \in BOOLEAN /\ vga_grace \in BOOLEAN
ColourType == /\ pal \in Palettes /\ pal_dirty \in BOOLEAN
              /\ gamma \in Ramps /\ gamma_dirty \in BOOLEAN
VramType == vram \in [Pages -> Colours] /\ dirty \in [Pages -> BOOLEAN]
ConsoleType == /\ owner \in {"ours", "other"} /\ surface \in {"vga", "own", "other"}
               /\ shown \in {Foreign("vga"), Foreign("other")} \cup Pictures
               /\ owner = "other" => surface = "other"
CursorType == /\ cur_on \in BOOLEAN /\ cur_defined \in BOOLEAN /\ cur_flip_hidden \in BOOLEAN
              /\ cur_flip_desktop \in Pages /\ cur_owned \in BOOLEAN
              /\ flip_timer \in BOOLEAN /\ mouse \in BOOLEAN

(* The parts make up the invariant, before and after a step.                  *)
LEMMA TypeParts ==
  /\ ScanTypeOK <=> ModeType /\ LinType /\ ColourType /\ VramType /\ ConsoleType /\ CursorType
  /\ ScanTypeOK' <=> (ModeType /\ LinType /\ ColourType /\ VramType /\ ConsoleType /\ CursorType)'
  BY DEF ScanTypeOK, ModeType, LinType, ColourType, VramType, ConsoleType, CursorType

(* A sprite that is on has a shape; flips hide it only in a linear mode and  *)
(* of a driver that does not say itself when it hides.                       *)
SpriteInv ==
  /\ SpriteFollows /\ HiddenHasTimer
  /\ cur_on => cur_defined
  /\ cur_flip_hidden => r_enable /\ ~cur_owned

(* While the linear mode has the console, its surface is there; and what is  *)
(* shown is the page as it is, but for what the next tick still owes.        *)
HasConsole == lin_on /\ owner = "ours" /\ ~resurface
Owes == full_update \/ gamma_dirty \/ (pal_dirty /\ lin.bpp = 8) \/ dirty[lin.offset]
PictureInv ==
  HasConsole => /\ surface = "own"
                /\ ~Owes => shown = Picture(lin.offset, lin.bpp)

(* A linear mode that fb_get_mode takes, and a page as a picture.              *)
LEMMA PictureIsOne ==
  ASSUME VramType, ColourType, NEW page \in Pages, NEW b \in {8, 32}
  PROVE  Picture(page, b) \in Pictures /\ [bpp |-> b, offset |-> page] \in Modes
  BY DEF VramType, ColourType, Picture, Pictures, Modes

(* The steps of the picture alone keep the types.                            *)
LEMMA PictureTypes ==
  ASSUME ScanTypeOK, PictureStep
  PROVE  ScanTypeOK'
<1>0. ModeType /\ LinType /\ ColourType /\ VramType /\ ConsoleType /\ CursorType
  BY TypeParts
<1>1. ASSUME GfxUpdateLinear PROVE ScanTypeOK'
  <2>1. ModeType'
    BY <1>0, <1>1 DEF ModeType, GfxUpdateLinear, UpdateConsole, ModeValid, Mode, Switches,
      StillOn, RampMovesSurface, FlippedPage, WantsShadow, Whole, Recolours, modeVars,
      linVars, colourVars, vramVars, consoleVars, cursorVars
  <2>2. LinType'
    <3>1. Mode \in Modes
      BY <1>0, <1>1, PictureIsOne DEF GfxUpdateLinear, ModeValid, Mode, ModeType, Depths
    <3> QED
      BY <1>0, <1>1, <3>1 DEF LinType, GfxUpdateLinear, WantsShadow
  <2>3. ColourType'
    BY <1>0, <1>1 DEF ColourType, GfxUpdateLinear, UpdateConsole, ModeValid, Mode, Switches,
      StillOn, RampMovesSurface, FlippedPage, WantsShadow, Whole, Recolours, modeVars,
      linVars, colourVars, vramVars, consoleVars, cursorVars
  <2>4. VramType'
    BY <1>0, <1>1 DEF VramType, GfxUpdateLinear, UpdateConsole, ModeValid, Mode, Switches,
      StillOn, RampMovesSurface, FlippedPage, WantsShadow, Whole, Recolours, modeVars,
      linVars, colourVars, vramVars, consoleVars, cursorVars
  <2>5. ConsoleType'
    <3>1. Picture(r_offset, r_bpp) \in Pictures
      BY <1>0, <1>1, PictureIsOne DEF GfxUpdateLinear, ModeValid, ModeType, Depths
    <3>2. surface' \in {"vga", "own", "other"} /\ owner' = "ours"
      BY <1>0, <1>1 DEF ConsoleType, GfxUpdateLinear
    <3>3. shown' \in {Foreign("vga"), Foreign("other")} \cup Pictures
      BY <1>0, <1>1, <3>1, <3>2 DEF ConsoleType, GfxUpdateLinear, UpdateConsole
    <3> QED
      BY <1>0, <3>2, <3>3 DEF ConsoleType
  <2>6. CursorType'
    BY <1>0, <1>1 DEF CursorType, GfxUpdateLinear, UpdateConsole, ModeValid, Mode, Switches,
      StillOn, RampMovesSurface, FlippedPage, WantsShadow, Whole, Recolours, modeVars,
      linVars, colourVars, vramVars, consoleVars, cursorVars
  <2> QED
    BY <2>1, <2>2, <2>3, <2>4, <2>5, <2>6, TypeParts
<1>2. ASSUME GfxUpdateVga PROVE ScanTypeOK'
  <2>1. ModeType'
    BY <1>0, <1>2 DEF ModeType, GfxUpdateVga, ModeValid, modeVars, linVars, colourVars,
      vramVars, consoleVars, cursorVars
  <2>2. LinType'
    BY <1>0, <1>2 DEF LinType, GfxUpdateVga, ModeValid, modeVars, linVars, colourVars,
      vramVars, consoleVars, cursorVars
  <2>3. ColourType'
    BY <1>0, <1>2 DEF ColourType, GfxUpdateVga, ModeValid, modeVars, linVars, colourVars,
      vramVars, consoleVars, cursorVars
  <2>4. VramType'
    BY <1>0, <1>2 DEF VramType, GfxUpdateVga, ModeValid, modeVars, linVars, colourVars,
      vramVars, consoleVars, cursorVars
  <2>5. ConsoleType'
    BY <1>0, <1>2 DEF ConsoleType, GfxUpdateVga, ModeValid, modeVars, linVars, colourVars,
      vramVars, consoleVars, cursorVars, Foreign
  <2>6. CursorType'
    BY <1>0, <1>2 DEF CursorType, GfxUpdateVga, ModeValid, modeVars, linVars, colourVars,
      vramVars, consoleVars, cursorVars
  <2> QED
    BY <2>1, <2>2, <2>3, <2>4, <2>5, <2>6, TypeParts
<1>3. ASSUME GraceEnds PROVE ScanTypeOK'
  BY <1>0, <1>3, TypeParts DEF ModeType, LinType, ColourType, VramType, ConsoleType,
    CursorType, GraceEnds, modeVars, linVars, colourVars, vramVars, consoleVars, cursorVars
<1>4. ASSUME TakeConsole PROVE ScanTypeOK'
  <2>1. ModeType'
    BY <1>0, <1>4 DEF ModeType, TakeConsole, modeVars, linVars, colourVars, vramVars,
      consoleVars, cursorVars
  <2>2. LinType'
    BY <1>0, <1>4 DEF LinType, TakeConsole, modeVars, linVars, colourVars, vramVars,
      consoleVars, cursorVars
  <2>3. ColourType'
    BY <1>0, <1>4 DEF ColourType, TakeConsole, modeVars, linVars, colourVars, vramVars,
      consoleVars, cursorVars
  <2>4. VramType'
    BY <1>0, <1>4 DEF VramType, TakeConsole, modeVars, linVars, colourVars, vramVars,
      consoleVars, cursorVars
  <2>5. ConsoleType'
    BY <1>0, <1>4 DEF ConsoleType, TakeConsole, modeVars, linVars, colourVars, vramVars,
      consoleVars, cursorVars, Foreign
  <2>6. CursorType'
    BY <1>0, <1>4 DEF CursorType, TakeConsole, modeVars, linVars, colourVars, vramVars,
      consoleVars, cursorVars
  <2> QED
    BY <2>1, <2>2, <2>3, <2>4, <2>5, <2>6, TypeParts
<1>5. ASSUME GiveBackConsole PROVE ScanTypeOK'
  BY <1>0, <1>5, TypeParts DEF ModeType, LinType, ColourType, VramType, ConsoleType,
    CursorType, GiveBackConsole, Invalidate, modeVars, linVars, colourVars, vramVars,
    consoleVars, cursorVars
<1>6. ASSUME NEW p \in Pages, Draw(p) PROVE ScanTypeOK'
  <2>1. ModeType'
    BY <1>0, <1>6 DEF ModeType, Draw, modeVars, linVars, colourVars, vramVars, consoleVars,
      cursorVars
  <2>2. LinType'
    BY <1>0, <1>6 DEF LinType, Draw, modeVars, linVars, colourVars, vramVars, consoleVars,
      cursorVars
  <2>3. ColourType'
    BY <1>0, <1>6 DEF ColourType, Draw, modeVars, linVars, colourVars, vramVars,
      consoleVars, cursorVars
  <2>4. VramType'
    BY <1>0, <1>6 DEF VramType, Draw, modeVars, linVars, colourVars, vramVars, consoleVars,
      cursorVars
  <2>5. ConsoleType'
    BY <1>0, <1>6 DEF ConsoleType, Draw, modeVars, linVars, colourVars, vramVars,
      consoleVars, cursorVars
  <2>6. CursorType'
    BY <1>0, <1>6 DEF CursorType, Draw, modeVars, linVars, colourVars, vramVars,
      consoleVars, cursorVars
  <2> QED
    BY <2>1, <2>2, <2>3, <2>4, <2>5, <2>6, TypeParts
<1>7. ASSUME NEW q \in Palettes, WritePalette(q) PROVE ScanTypeOK'
  BY <1>0, <1>7, TypeParts DEF ModeType, LinType, ColourType, VramType, ConsoleType,
    CursorType, WritePalette, modeVars, linVars, colourVars, vramVars, consoleVars,
    cursorVars
<1>8. ASSUME NEW g \in Ramps, WriteGamma(g) PROVE ScanTypeOK'
  BY <1>0, <1>8, TypeParts DEF ModeType, LinType, ColourType, VramType, ConsoleType,
    CursorType, WriteGamma, modeVars, linVars, colourVars, vramVars, consoleVars, cursorVars
<1> QED
  BY <1>1, <1>2, <1>3, <1>4, <1>5, <1>6, <1>7, <1>8 DEF PictureStep

(* The steps of the cursor alone keep them.                                   *)
LEMMA CursorTypes ==
  ASSUME ScanTypeOK, CursorStep
  PROVE  ScanTypeOK'
<1>0. ModeType /\ LinType /\ ColourType /\ VramType /\ ConsoleType /\ CursorType
  BY TypeParts
<1>1. ASSUME CursorDefine PROVE ScanTypeOK'
  BY <1>0, <1>1, TypeParts DEF ModeType, LinType, ColourType, VramType, ConsoleType,
    CursorType, CursorDefine, modeVars, linVars, colourVars, vramVars, consoleVars,
    cursorVars
<1>2. ASSUME CursorClear PROVE ScanTypeOK'
  BY <1>0, <1>2, TypeParts DEF ModeType, LinType, ColourType, VramType, ConsoleType,
    CursorType, CursorClear, modeVars, linVars, colourVars, vramVars, consoleVars,
    cursorVars
<1>3. ASSUME FlipIdle PROVE ScanTypeOK'
  BY <1>0, <1>3, TypeParts DEF ModeType, LinType, ColourType, VramType, ConsoleType,
    CursorType, FlipIdle, MoveIfDefined, CursorMove, modeVars, linVars, colourVars,
    vramVars, consoleVars, cursorVars
<1>4. ASSUME NEW on \in BOOLEAN, CursorEnable(on) PROVE ScanTypeOK'
  BY <1>0, <1>4, TypeParts DEF ModeType, LinType, ColourType, VramType, ConsoleType,
    CursorType, CursorEnable, CursorMove, modeVars, linVars, colourVars, vramVars,
    consoleVars, cursorVars
<1>5. ASSUME NEW on \in BOOLEAN, CursorFlags(on) PROVE ScanTypeOK'
  BY <1>0, <1>5, TypeParts DEF ModeType, LinType, ColourType, VramType, ConsoleType,
    CursorType, CursorFlags, CursorMove, modeVars, linVars, colourVars, vramVars,
    consoleVars, cursorVars
<1> QED
  BY <1>1, <1>2, <1>3, <1>4, <1>5 DEF CursorStep

(* And the writes of the mode registers, which both parts share.             *)
LEMMA ModeTypes ==
  ASSUME ScanTypeOK, ModeStep
  PROVE  ScanTypeOK'
<1>0. ModeType /\ LinType /\ ColourType /\ VramType /\ ConsoleType /\ CursorType
  BY TypeParts
<1>1. ASSUME NEW b \in Depths, WriteBpp(b) PROVE ScanTypeOK'
  BY <1>0, <1>1, TypeParts DEF ModeType, LinType, ColourType, VramType, ConsoleType,
    CursorType, WriteBpp, modeVars, linVars, colourVars, vramVars, consoleVars, cursorVars
<1>2. ASSUME NEW on \in BOOLEAN, WriteEnable(on) PROVE ScanTypeOK'
  <2>1. ModeType'
    BY <1>0, <1>2 DEF ModeType, WriteEnable, Invalidate, MoveIfDefined, CursorMove,
      modeVars, linVars, colourVars, vramVars, consoleVars, cursorVars
  <2>2. LinType'
    BY <1>0, <1>2 DEF LinType, WriteEnable, Invalidate, MoveIfDefined, CursorMove, modeVars,
      linVars, colourVars, vramVars, consoleVars, cursorVars
  <2>3. ColourType'
    BY <1>0, <1>2 DEF ColourType, WriteEnable, Invalidate, MoveIfDefined, CursorMove,
      modeVars, linVars, colourVars, vramVars, consoleVars, cursorVars
  <2>4. VramType'
    BY <1>0, <1>2 DEF VramType, WriteEnable, Invalidate, MoveIfDefined, CursorMove,
      modeVars, linVars, colourVars, vramVars, consoleVars, cursorVars
  <2>5. ConsoleType'
    BY <1>0, <1>2 DEF ConsoleType, WriteEnable, Invalidate, MoveIfDefined, CursorMove,
      modeVars, linVars, colourVars, vramVars, consoleVars, cursorVars
  <2>6. CursorType'
    BY <1>0, <1>2 DEF CursorType, WriteEnable, Invalidate, MoveIfDefined, CursorMove,
      modeVars, linVars, colourVars, vramVars, consoleVars, cursorVars
  <2> QED
    BY <2>1, <2>2, <2>3, <2>4, <2>5, <2>6, TypeParts
<1>3. ASSUME NEW p \in Pages, WriteOffset(p) PROVE ScanTypeOK'
  <2>1. ModeType'
    BY <1>0, <1>3 DEF ModeType, WriteOffset, HideByFlip, FirstOfChain, MoveIfDefined,
      CursorMove, Push, PushTaken, ModeValid, modeVars, linVars, colourVars, vramVars,
      consoleVars, cursorVars
  <2>2. LinType'
    <3>1. PushTaken(p) => [bpp |-> r_bpp, offset |-> p] \in Modes
      BY <1>0, <1>3, PictureIsOne DEF PushTaken, ModeValid, ModeType, Depths
    <3> QED
      BY <1>0, <1>3, <3>1 DEF LinType, WriteOffset, Push
  <2>3. ColourType'
    BY <1>0, <1>3 DEF ColourType, WriteOffset, HideByFlip, FirstOfChain, MoveIfDefined,
      CursorMove, Push, PushTaken, ModeValid, modeVars, linVars, colourVars, vramVars,
      consoleVars, cursorVars
  <2>4. VramType'
    BY <1>0, <1>3 DEF VramType, WriteOffset, HideByFlip, FirstOfChain, MoveIfDefined,
      CursorMove, Push, PushTaken, ModeValid, modeVars, linVars, colourVars, vramVars,
      consoleVars, cursorVars
  <2>5. ConsoleType'
    <3>1. PushTaken(p) => Picture(p, r_bpp) \in Pictures
      BY <1>0, <1>3, PictureIsOne DEF PushTaken, ModeValid, ModeType, Depths
    <3> QED
      BY <1>0, <1>3, <3>1 DEF ConsoleType, WriteOffset, Push
  <2>6. CursorType'
    <3>1. cur_flip_hidden' \in BOOLEAN /\ flip_timer' \in BOOLEAN /\ cur_flip_desktop' \in Pages
      BY <1>0, <1>3 DEF CursorType, ModeType, WriteOffset, HideByFlip, FirstOfChain
    <3>2. cur_on' \in BOOLEAN /\ cur_defined' \in BOOLEAN /\ cur_owned' \in BOOLEAN
      BY <1>0, <1>3 DEF CursorType, WriteOffset
    <3>3. mouse' \in BOOLEAN
      BY <1>0, <1>3 DEF CursorType, WriteOffset, MoveIfDefined, CursorMove
    <3> QED
      BY <3>1, <3>2, <3>3 DEF CursorType
  <2> QED
    BY <2>1, <2>2, <2>3, <2>4, <2>5, <2>6, TypeParts
<1>4. ASSUME ScanReset PROVE ScanTypeOK'
  <2>1. ModeType'
    BY <1>0, <1>4, ScanAssumption DEF ModeType, ScanReset, modeVars, linVars, colourVars,
      vramVars, consoleVars, cursorVars, Depths
  <2>2. LinType'
    BY <1>0, <1>4, ScanAssumption DEF LinType, ScanReset, modeVars, linVars, colourVars,
      vramVars, consoleVars, cursorVars
  <2>3. ColourType'
    BY <1>0, <1>4, ScanAssumption DEF ColourType, ScanReset, modeVars, linVars, colourVars,
      vramVars, consoleVars, cursorVars
  <2>4. VramType'
    BY <1>0, <1>4, ScanAssumption DEF VramType, ScanReset, modeVars, linVars, colourVars,
      vramVars, consoleVars, cursorVars
  <2>5. ConsoleType'
    BY <1>0, <1>4, ScanAssumption DEF ConsoleType, ScanReset, modeVars, linVars, colourVars,
      vramVars, consoleVars, cursorVars
  <2>6. CursorType'
    BY <1>0, <1>4, ScanAssumption DEF CursorType, ScanReset, modeVars, linVars, colourVars,
      vramVars, consoleVars, cursorVars
  <2> QED
    BY <2>1, <2>2, <2>3, <2>4, <2>5, <2>6, TypeParts
<1> QED
  BY <1>1, <1>2, <1>3, <1>4 DEF ModeStep

(* The state at the start.                                                   *)
LEMMA InitInv == ScanInit => ScanTypeOK /\ SpriteInv /\ PictureInv
<1> SUFFICES ASSUME ScanInit PROVE ScanTypeOK /\ SpriteInv /\ PictureInv
  OBVIOUS
<1> USE ScanAssumption DEF ScanInit
<1>1. ModeType /\ LinType
  BY DEF ModeType, LinType, Depths, Modes
<1>2. ColourType /\ VramType
  BY DEF ColourType, VramType
<1>3. ConsoleType /\ CursorType
  BY DEF ConsoleType, CursorType, Foreign
<1>4. SpriteInv
  BY DEF SpriteInv, SpriteFollows, HiddenHasTimer
<1>5. PictureInv
  BY DEF PictureInv, HasConsole
<1> QED
  BY <1>1, <1>2, <1>3, <1>4, <1>5, TypeParts

(* Every step keeps the type invariant.                                       *)
LEMMA NextTypes == ScanTypeOK /\ [ScanNext]_scanVars => ScanTypeOK'
<1>1. ASSUME ScanTypeOK, UNCHANGED scanVars PROVE ScanTypeOK'
  BY <1>1 DEF ScanTypeOK, scanVars, modeVars, linVars, colourVars, vramVars, consoleVars,
              cursorVars, Picture
<1> QED
  BY <1>1, PictureTypes, CursorTypes, ModeTypes DEF ScanNext

-----------------------------------------------------------------------------
(* The sprite                                                                *)

(* Every step keeps the sprite's invariant.                                   *)
LEMMA NextSprite == ScanTypeOK /\ SpriteInv /\ [ScanNext]_scanVars => SpriteInv'
<1> SUFFICES ASSUME ScanTypeOK, SpriteInv, [ScanNext]_scanVars PROVE SpriteInv'
  OBVIOUS
<1> DEFINE Still == UNCHANGED <<r_enable, r_offset, cursorVars>>
<1>0. CursorType /\ ModeType /\ CursorType' /\ ModeType'
  BY TypeParts, NextTypes
<1>1. Still => SpriteInv'
  BY DEF SpriteInv, SpriteFollows, HiddenHasTimer, cursorVars
<1>2. PictureStep \/ UNCHANGED scanVars => Still
  BY DEF PictureStep, GfxUpdateLinear, GfxUpdateVga, GraceEnds, TakeConsole,
    GiveBackConsole, Draw, WritePalette, WriteGamma, modeVars, cursorVars, scanVars
<1>3. ASSUME CursorDefine PROVE SpriteInv'
  BY <1>0, <1>3 DEF SpriteInv, SpriteFollows, HiddenHasTimer, CursorType, ModeType,
    CursorDefine, modeVars
<1>4. ASSUME CursorClear PROVE SpriteInv'
  BY <1>0, <1>4 DEF SpriteInv, SpriteFollows, HiddenHasTimer, CursorType, ModeType,
    CursorClear, modeVars
<1>5. ASSUME FlipIdle PROVE SpriteInv'
  BY <1>0, <1>5 DEF SpriteInv, SpriteFollows, HiddenHasTimer, CursorType, ModeType,
    FlipIdle, MoveIfDefined, CursorMove, modeVars
<1>6. ASSUME NEW on \in BOOLEAN, CursorEnable(on) PROVE SpriteInv'
  BY <1>0, <1>6 DEF SpriteInv, SpriteFollows, HiddenHasTimer, CursorType, ModeType,
    CursorEnable, CursorMove, modeVars
<1>7. ASSUME NEW on \in BOOLEAN, CursorFlags(on) PROVE SpriteInv'
  BY <1>0, <1>7 DEF SpriteInv, SpriteFollows, HiddenHasTimer, CursorType, ModeType,
    CursorFlags, CursorMove, modeVars
<1>8. ASSUME NEW b \in Depths, WriteBpp(b) PROVE SpriteInv'
  BY <1>8, <1>1 DEF WriteBpp
<1>9. ASSUME NEW on \in BOOLEAN, WriteEnable(on) PROVE SpriteInv'
  BY <1>0, <1>9 DEF SpriteInv, SpriteFollows, HiddenHasTimer, CursorType, ModeType,
    WriteEnable, MoveIfDefined, CursorMove, modeVars
<1>10. ASSUME NEW p \in Pages, WriteOffset(p) PROVE SpriteInv'
  BY <1>0, <1>10 DEF SpriteInv, SpriteFollows, HiddenHasTimer, CursorType, ModeType,
    WriteOffset, HideByFlip, FirstOfChain, MoveIfDefined, CursorMove, modeVars
<1>11. ASSUME ScanReset PROVE SpriteInv'
  BY <1>0, <1>11 DEF SpriteInv, SpriteFollows, HiddenHasTimer, CursorType, ModeType,
    ScanReset, modeVars
<1> QED
  BY <1>1, <1>2, <1>3, <1>4, <1>5, <1>6, <1>7, <1>8, <1>9, <1>10, <1>11 DEF ScanNext,
    CursorStep, ModeStep

-----------------------------------------------------------------------------
(* The picture                                                               *)

(* A tick in the linear mode leaves our surface with the page scanned out.    *)
LEMMA TickOfPicture ==
  ASSUME ScanTypeOK, PictureInv, GfxUpdateLinear
  PROVE  lin' = Mode /\ surface' = "own" /\ shown' = Picture(r_offset, r_bpp)
<1>0. LinType /\ ColourType /\ VramType /\ ModeType
  BY TypeParts
<1>1. lin' = Mode
  BY DEF GfxUpdateLinear
<1>2. surface' = "own"
  BY <1>0 DEF GfxUpdateLinear, Switches, StillOn, PictureInv, HasConsole, LinType
<1>3. CASE Whole \/ dirty[r_offset]
  BY <1>2, <1>3 DEF GfxUpdateLinear, UpdateConsole
<1>4. CASE ~(Whole \/ dirty[r_offset])
  <2>1. HasConsole /\ lin = Mode
    BY <1>0, <1>4 DEF GfxUpdateLinear, Whole, Switches, StillOn, HasConsole, LinType
  <2>2. ~Owes
    BY <1>0, <1>4, <2>1 DEF Owes, Whole, Recolours, Mode
  <2> QED
    BY <1>4, <2>1, <2>2 DEF GfxUpdateLinear, PictureInv, Mode
<1> QED
  BY <1>1, <1>2, <1>3, <1>4

(* Every step keeps the picture's invariant.                                 *)
LEMMA NextPicture == ScanTypeOK /\ PictureInv /\ [ScanNext]_scanVars => PictureInv'
<1> SUFFICES ASSUME ScanTypeOK, PictureInv, [ScanNext]_scanVars PROVE PictureInv'
  OBVIOUS
<1> DEFINE Still == UNCHANGED <<linVars, colourVars, vramVars, consoleVars>>
<1>0. LinType /\ ColourType /\ VramType /\ ConsoleType /\ ModeType
  BY TypeParts
<1>1. Still => PictureInv'
  BY DEF PictureInv, HasConsole, Owes, Picture, linVars, colourVars, vramVars, consoleVars
<1>2. CursorStep \/ UNCHANGED scanVars \/ GraceEnds \/ (\E b \in Depths : WriteBpp(b)) => Still
  BY DEF CursorDefine, CursorClear, FlipIdle, CursorEnable, CursorFlags, CursorStep,
    GraceEnds, WriteBpp, scanVars
<1>3. ASSUME GfxUpdateLinear PROVE PictureInv'
  <2>1. lin' = Mode /\ surface' = "own" /\ shown' = Picture(r_offset, r_bpp)
    BY <1>3, TickOfPicture
  <2> QED
    BY <2>1, <1>3 DEF GfxUpdateLinear, PictureInv, Picture, Mode
<1>4. ASSUME GfxUpdateVga PROVE PictureInv'
  BY <1>0, <1>4 DEF PictureInv, HasConsole, Owes, Picture, GfxUpdateVga, modeVars, linVars,
    colourVars, vramVars, consoleVars, cursorVars
<1>5. ASSUME TakeConsole PROVE PictureInv'
  BY <1>0, <1>5 DEF PictureInv, HasConsole, Owes, Picture, TakeConsole, modeVars, linVars,
    colourVars, vramVars, consoleVars, cursorVars
<1>6. ASSUME GiveBackConsole PROVE PictureInv'
  BY <1>0, <1>6 DEF PictureInv, HasConsole, Owes, Picture, GiveBackConsole, Invalidate,
    modeVars, linVars, colourVars, vramVars, consoleVars, cursorVars
<1>7. ASSUME NEW p \in Pages, Draw(p) PROVE PictureInv'
  BY <1>0, <1>7 DEF PictureInv, HasConsole, Owes, Picture, Draw, LinType, ConsoleType,
    Modes, VramType, modeVars, linVars, colourVars, vramVars, consoleVars, cursorVars
<1>8. ASSUME NEW q \in Palettes, WritePalette(q) PROVE PictureInv'
  BY <1>0, <1>8 DEF PictureInv, HasConsole, Owes, Picture, WritePalette, LinType,
    ConsoleType, Modes, modeVars, linVars, colourVars, vramVars, consoleVars, cursorVars
<1>9. ASSUME NEW g \in Ramps, WriteGamma(g) PROVE PictureInv'
  BY <1>0, <1>9 DEF PictureInv, HasConsole, Owes, Picture, WriteGamma, modeVars, linVars,
    colourVars, vramVars, consoleVars, cursorVars
<1>10. ASSUME NEW on \in BOOLEAN, WriteEnable(on) PROVE PictureInv'
  BY <1>0, <1>10 DEF PictureInv, HasConsole, Owes, Picture, WriteEnable, Invalidate,
    modeVars, linVars, colourVars, vramVars, consoleVars, cursorVars
<1>11. ASSUME NEW p \in Pages, WriteOffset(p) PROVE PictureInv'
  <2>1. CASE PushTaken(p) /\ ~FirstOfChain
    <3>1. /\ lin' = [bpp |-> r_bpp, offset |-> p] /\ UNCHANGED <<lin_on, resurface, surface, owner>>
          /\ UNCHANGED <<vram, pal, gamma>>
          /\ shown' = IF surface = "own" THEN Picture(p, r_bpp) ELSE Foreign(surface)
      BY <1>11, <2>1 DEF WriteOffset, Push
    <3> QED
      BY <3>1 DEF PictureInv, HasConsole, Picture
  <2>2. CASE ~PushTaken(p) \/ FirstOfChain
    <3>1. Still
      BY <1>11, <2>2 DEF WriteOffset, Push, linVars, colourVars, vramVars, consoleVars
    <3> QED
      BY <1>1, <3>1
  <2> QED
    BY <2>1, <2>2
<1>12. ASSUME ScanReset PROVE PictureInv'
  BY <1>0, <1>12 DEF PictureInv, HasConsole, Owes, Picture, ScanReset, modeVars, linVars,
    colourVars, vramVars, consoleVars, cursorVars
<1> QED
  BY <1>1, <1>2, <1>3, <1>4, <1>5, <1>6, <1>7, <1>8, <1>9, <1>10, <1>11, <1>12 DEF ScanNext,
    PictureStep, ModeStep

-----------------------------------------------------------------------------
(* The inductive invariant holds of every behaviour.                          *)
THEOREM Invariant == ScanSpec => [](ScanTypeOK /\ SpriteInv /\ PictureInv)
<1>1. ScanTypeOK /\ SpriteInv /\ PictureInv /\ [ScanNext]_scanVars
      => (ScanTypeOK /\ SpriteInv /\ PictureInv)'
  BY NextTypes, NextSprite, NextPicture
<1> QED
  BY InitInv, <1>1, PTL DEF ScanSpec

(* The type invariant, for any pages, colours, palettes and ramps.            *)
THEOREM TypeCorrect == ScanSpec => []ScanTypeOK
  BY Invariant, PTL

(* The sprite is up exactly when the guest has it on, in a linear mode, with *)
(* no flip chain on the screen.                                              *)
THEOREM SpriteIsGuests == ScanSpec => []SpriteFollows
<1>1. SpriteInv => SpriteFollows
  BY DEF SpriteInv
<1> QED
  BY <1>1, Invariant, PTL

(* A sprite that flips hid comes back: the idle timer runs.                  *)
THEOREM HiddenComesBack == ScanSpec => []HiddenHasTimer
<1>1. SpriteInv => HiddenHasTimer
  BY DEF SpriteInv
<1> QED
  BY <1>1, Invariant, PTL

(* A tick that finds nothing to repaint finds the page the guest scans out   *)
(* on the display: updating dirty spans only loses nothing.                  *)
THEOREM TickIsExact == ScanSpec => []TickShowsPage
<1>1. ScanTypeOK /\ PictureInv => TickShowsPage
  <2> SUFFICES ASSUME ScanTypeOK, PictureInv, owner = "ours", ModeValid, ~Whole,
                      ~dirty[r_offset]
               PROVE  shown = Picture(r_offset, r_bpp)
    BY DEF TickShowsPage
  <2>0. LinType
    BY TypeParts
  <2>1. HasConsole /\ lin = Mode
    BY <2>0 DEF Whole, Switches, StillOn, HasConsole, LinType
  <2>2. ~Owes
    BY <2>1 DEF Owes, Whole, Recolours, Mode
  <2> QED
    BY <2>1, <2>2 DEF PictureInv, Mode
<1> QED
  BY <1>1, Invariant, PTL
=============================================================================
