----------------------------- MODULE VgaScanout -----------------------------
(* The display adapter's linear mode and its sprite (d3dpt/hw/d3dpt_vga.c):   *)
(* the console's picture from a page of VRAM, by dirty bits at the display's  *)
(* tick or by a flip's push, and the cursor that flips hide. Every register   *)
(* write and every tick runs under QEMU's lock, so each is one step; their    *)
(* order is the guest's and the host's.                                      *)
(*                                                                           *)
(* A page of VRAM is a colour; what the display was last told is that colour  *)
(* with the depth, the palette and the gamma ramp it was converted through.   *)
(* Depth 0 stands for a mode fb_get_mode refuses.                            *)

CONSTANTS Pages, Colours, Palettes, Ramps,
          Desktop, Identity     (* the page after a reset; no gamma ramp       *)
ASSUME ScanAssumption == Desktop \in Pages /\ Identity \in Ramps

VARIABLES
  (* the property flip-push; the mode registers                              *)
  flip_push, r_enable, r_bpp, r_offset,
  (* the mode shown, its shadow, and what the next tick owes                 *)
  lin_on, lin, shadow, full_update, resurface, vga_grace,
  (* the palette, the ramp, and that they changed                            *)
  pal, pal_dirty, gamma, gamma_dirty,
  (* VRAM and its dirty log                                                  *)
  vram, dirty,
  (* the console: whose it is, the surface on it, what the display shows     *)
  owner, surface, shown,
  (* the cursor; mouse is what the console was told last                     *)
  cur_on, cur_defined, cur_flip_hidden, cur_flip_desktop, cur_owned, flip_timer, mouse

modeVars == <<r_enable, r_bpp, r_offset>>
linVars == <<lin_on, lin, shadow, full_update, resurface>>
colourVars == <<pal, pal_dirty, gamma, gamma_dirty>>
vramVars == <<vram, dirty>>
consoleVars == <<owner, surface, shown>>
cursorVars == <<cur_on, cur_defined, cur_flip_hidden, cur_flip_desktop, cur_owned,
                flip_timer, mouse>>
scanVars == <<flip_push, modeVars, linVars, vga_grace, colourVars, vramVars,
              consoleVars, cursorVars>>

Depths == {0, 8, 32}
Modes == [bpp : {8, 32}, offset : Pages]
(* A page as the console shows it in a depth; the palette is 8 bpp's only.    *)
Picture(page, bpp) ==
  [bpp |-> bpp, colour |-> vram[page], pal |-> IF bpp = 8 THEN pal ELSE "none",
   gamma |-> gamma]
Pictures == [bpp : {8, 32}, colour : Colours, pal : Palettes \cup {"none"},
             gamma : Ramps]
(* The VGA core's screen, or another device's.                               *)
Foreign(who) == [screen |-> who]

ScanInit ==
  /\ flip_push \in BOOLEAN
  /\ r_enable = FALSE /\ r_bpp = 0 /\ r_offset = Desktop
  /\ lin_on = FALSE /\ lin = [bpp |-> 8, offset |-> Desktop] /\ shadow = FALSE
  /\ full_update = FALSE /\ resurface = FALSE /\ vga_grace = FALSE
  /\ pal \in Palettes /\ pal_dirty = FALSE /\ gamma = Identity /\ gamma_dirty = FALSE
  /\ vram \in [Pages -> Colours] /\ dirty = [p \in Pages |-> FALSE]
  /\ owner = "ours" /\ surface = "vga" /\ shown = Foreign("vga")
  /\ cur_on = FALSE /\ cur_defined = FALSE /\ cur_flip_hidden = FALSE
  /\ cur_flip_desktop = Desktop /\ cur_owned = FALSE /\ flip_timer = FALSE
  /\ mouse = FALSE

-----------------------------------------------------------------------------
(* The display's tick                                                        *)

ModeEnabled == r_enable
ModeValid == r_enable /\ r_bpp # 0
Mode == [bpp |-> r_bpp, offset |-> r_offset]
WantsShadow(bpp) == bpp # 32 \/ gamma # Identity \/ flip_push

(* A 32 bpp mode moves between VRAM itself and the shadow.                   *)
RampMovesSurface == gamma_dirty /\ lin_on /\ r_bpp = 32 /\ shadow # WantsShadow(32)
StillOn == lin_on /\ ~RampMovesSurface
(* A page flip no push took: the same shadow, the new page.                  *)
FlippedPage ==
  StillOn /\ ~resurface /\ shadow /\ r_offset # lin.offset /\ r_bpp = lin.bpp
Switches ==
  \/ ~StillOn \/ resurface
  \/ ~FlippedPage /\ lin # Mode
Recolours == gamma_dirty \/ (pal_dirty /\ r_bpp = 8)
Whole == full_update \/ Recolours \/ FlippedPage \/ Switches

(* fb_update_span on the surface the console has.                            *)
UpdateConsole ==
  shown' = IF surface' = "own" THEN Picture(r_offset, r_bpp) ELSE Foreign(surface')

GfxUpdateLinear ==
  /\ owner = "ours" /\ ModeValid
  /\ lin_on' = TRUE /\ lin' = Mode /\ gamma_dirty' = FALSE
  /\ pal_dirty' = (pal_dirty /\ r_bpp # 8)
  /\ full_update' = FALSE
  /\ IF Switches
     THEN surface' = "own" /\ shadow' = WantsShadow(r_bpp) /\ resurface' = FALSE
     ELSE UNCHANGED <<surface, shadow, resurface>>
  /\ dirty' = [dirty EXCEPT ![r_offset] = FALSE]
  /\ IF Whole \/ dirty[r_offset] THEN UpdateConsole ELSE UNCHANGED shown
  /\ UNCHANGED <<flip_push, modeVars, vga_grace, pal, gamma, vram, owner, cursorVars>>

(* No linear mode: the last frame is held for a moment, then the VGA core.   *)
GfxUpdateVga ==
  /\ owner = "ours" /\ ~ModeValid
  /\ ~(lin_on /\ vga_grace)
  /\ lin_on' = FALSE /\ shadow' = (shadow /\ ~lin_on)
  /\ surface' = "vga" /\ shown' = Foreign("vga")
  /\ UNCHANGED <<flip_push, modeVars, lin, full_update, resurface, vga_grace,
                 colourVars, vramVars, owner, cursorVars>>

GraceEnds ==
  /\ vga_grace /\ vga_grace' = FALSE
  /\ UNCHANGED <<flip_push, modeVars, linVars, colourVars, vramVars, consoleVars, cursorVars>>

-----------------------------------------------------------------------------
(* The console changes hands                                                 *)

Invalidate == full_update' = TRUE /\ resurface' = TRUE

(* Another device takes the console, and gives it back invalidated.          *)
TakeConsole ==
  /\ owner = "ours" /\ owner' = "other"
  /\ surface' = "other" /\ shown' = Foreign("other")
  /\ UNCHANGED <<flip_push, modeVars, linVars, vga_grace, colourVars, vramVars, cursorVars>>

GiveBackConsole ==
  /\ owner = "other" /\ owner' = "ours"
  /\ Invalidate
  /\ UNCHANGED <<flip_push, modeVars, lin_on, lin, shadow, vga_grace, colourVars,
                 vramVars, surface, shown, cursorVars>>

-----------------------------------------------------------------------------
(* The guest's register writes: the picture                                  *)

(* The CPU's stores, a fill, a copy or the executor, all in the dirty log.   *)
Draw(p) ==
  /\ vram' \in {[vram EXCEPT ![p] = c] : c \in Colours}
  /\ dirty' = [dirty EXCEPT ![p] = TRUE]
  /\ UNCHANGED <<flip_push, modeVars, linVars, vga_grace, colourVars, consoleVars, cursorVars>>

WriteBpp(b) ==
  /\ r_bpp' = b
  /\ UNCHANGED <<flip_push, r_enable, r_offset, linVars, vga_grace, colourVars, vramVars,
                 consoleVars, cursorVars>>

(* What fb_cursor_move publishes of the state it leaves.                     *)
CursorMove == mouse' = (cur_on' /\ r_enable' /\ ~cur_flip_hidden')
MoveIfShown == IF mouse THEN CursorMove ELSE UNCHANGED mouse
MoveIfDefined == IF cur_defined /\ cur_on THEN CursorMove ELSE UNCHANGED mouse

(* A mode set: the flip chain is gone, the sprite follows, and the console's *)
(* hardware (us, or who has it) is invalidated.                              *)
WriteEnable(on) ==
  /\ r_enable' = on
  /\ vga_grace' = (vga_grace \/ (r_enable /\ ~on))
  /\ cur_flip_hidden' = FALSE /\ flip_timer' = FALSE
  /\ UNCHANGED <<cur_on, cur_defined, cur_flip_desktop, cur_owned>>
  /\ MoveIfDefined
  /\ IF owner = "ours" THEN Invalidate ELSE UNCHANGED <<full_update, resurface>>
  /\ UNCHANGED <<flip_push, r_bpp, r_offset, lin_on, lin, shadow, colourVars, vramVars,
                 consoleVars>>

(* fb_flip_push, with the offset just written.                               *)
PushTaken(page) ==
  /\ flip_push /\ lin_on /\ shadow /\ ~resurface
  /\ ModeValid /\ r_bpp = lin.bpp

PushOldPage(page) ==
  IF PushTaken(page)
  THEN /\ lin' = [bpp |-> r_bpp, offset |-> page]
       /\ pal_dirty' = (pal_dirty /\ r_bpp # 8)
       /\ dirty' = [dirty EXCEPT ![page] = FALSE]
       /\ UNCHANGED shown
  ELSE UNCHANGED <<lin, pal_dirty, dirty, shown>>

Push(page) ==
  IF PushTaken(page)
  THEN /\ lin' = [bpp |-> r_bpp, offset |-> page]
       /\ pal_dirty' = (pal_dirty /\ r_bpp # 8)
       /\ dirty' = [dirty EXCEPT ![page] = FALSE]
       /\ shown' = IF surface = "own" THEN Picture(page, r_bpp) ELSE Foreign(surface)
  ELSE UNCHANGED <<lin, pal_dirty, dirty, shown>>

(* The first flip of a chain hides the sprite, remembers the page it left,   *)
(* and is not pushed; every flip starts the idle timer again.                *)
FirstOfChain == r_enable /\ ~cur_owned /\ ~cur_flip_hidden

HideUntimed ==
  /\ cur_flip_hidden' = (cur_flip_hidden \/ FirstOfChain)
  /\ cur_flip_desktop' = IF FirstOfChain THEN r_offset ELSE cur_flip_desktop
  /\ flip_timer' = (flip_timer \/ FirstOfChain)

HideByFlip ==
  /\ cur_flip_hidden' = (cur_flip_hidden \/ FirstOfChain)
  /\ cur_flip_desktop' = IF FirstOfChain THEN r_offset ELSE cur_flip_desktop
  /\ flip_timer' = (flip_timer \/ (r_enable /\ ~cur_owned))

WriteOffset(page) ==
  /\ page # r_offset /\ r_offset' = page
  /\ HideByFlip
  /\ UNCHANGED <<r_enable, cur_on, cur_defined, cur_owned>>
  /\ IF FirstOfChain
     THEN MoveIfDefined /\ UNCHANGED <<lin, pal_dirty, dirty, shown>>
     ELSE UNCHANGED mouse /\ Push(page)
  /\ UNCHANGED <<flip_push, r_bpp, lin_on, shadow, full_update, resurface, vga_grace,
                 pal, gamma, gamma_dirty, vram, owner, surface>>

WritePalette(entries) ==
  /\ pal' = entries /\ pal_dirty' = TRUE
  /\ UNCHANGED <<flip_push, modeVars, linVars, vga_grace, gamma, gamma_dirty, vramVars,
                 consoleVars, cursorVars>>

(* GAMMA_ENABLE, the entries written before.                                 *)
WriteGamma(ramp) ==
  /\ gamma' = ramp /\ gamma_dirty' = TRUE
  /\ UNCHANGED <<flip_push, modeVars, linVars, vga_grace, pal, pal_dirty, vramVars,
                 consoleVars, cursorVars>>

-----------------------------------------------------------------------------
(* The guest's register writes: the cursor                                   *)

CursorDefine ==
  /\ cur_defined' = TRUE
  /\ UNCHANGED <<flip_push, modeVars, linVars, vga_grace, colourVars, vramVars, consoleVars,
                 cur_on, cur_flip_hidden, cur_flip_desktop, cur_owned, flip_timer, mouse>>

CursorClear ==
  /\ cur_defined' = FALSE /\ cur_on' = FALSE /\ mouse' = FALSE
  /\ UNCHANGED <<flip_push, modeVars, linVars, vga_grace, colourVars, vramVars, consoleVars,
                 cur_flip_hidden, cur_flip_desktop, cur_owned, flip_timer>>

(* CURSOR_ENABLE or a move; the guest's drivers define a shape first.        *)
CursorEnable(on) ==
  /\ on => cur_defined
  /\ cur_on' = on
  /\ UNCHANGED <<flip_push, modeVars, linVars, vga_grace, colourVars, vramVars, consoleVars,
                 cur_defined, cur_flip_hidden, cur_flip_desktop, cur_owned, flip_timer>>
  /\ CursorMove

(* CURSOR_FLAGS: a driver that says when the pointer hides.                  *)
CursorFlags(owned) ==
  /\ cur_owned' = owned
  /\ cur_flip_hidden' = (cur_flip_hidden /\ ~owned)
  /\ flip_timer' = (flip_timer /\ ~owned)
  /\ UNCHANGED <<flip_push, modeVars, linVars, vga_grace, colourVars, vramVars, consoleVars,
                 cur_on, cur_defined, cur_flip_desktop>>
  /\ IF owned /\ cur_defined THEN CursorMove ELSE UNCHANGED mouse

(* No flip for D3DPT_FB_FLIP_IDLE_MS: on the desktop's page, the chain is    *)
(* gone.                                                                     *)
FlipIdle ==
  /\ flip_timer /\ flip_timer' = FALSE
  /\ cur_flip_hidden' = (cur_flip_hidden /\ (~r_enable \/ r_offset # cur_flip_desktop))
  /\ UNCHANGED <<flip_push, modeVars, linVars, vga_grace, colourVars, vramVars, consoleVars,
                 cur_on, cur_defined, cur_flip_desktop, cur_owned>>
  /\ IF cur_flip_hidden /\ ~cur_flip_hidden' THEN MoveIfDefined ELSE UNCHANGED mouse

(* The machine restarts.                                                     *)
ScanReset ==
  /\ r_enable' = FALSE /\ r_bpp' = 0 /\ r_offset' = Desktop
  /\ cur_flip_hidden' = FALSE /\ cur_owned' = FALSE /\ flip_timer' = FALSE
  /\ vga_grace' = FALSE
  /\ IF cur_on \/ cur_defined
     THEN cur_defined' = FALSE /\ cur_on' = FALSE /\ mouse' = FALSE
     ELSE UNCHANGED <<cur_defined, cur_on, mouse>>
  /\ gamma' = Identity /\ gamma_dirty' = TRUE
  /\ UNCHANGED <<flip_push, linVars, pal, pal_dirty, vramVars, consoleVars, cur_flip_desktop>>

-----------------------------------------------------------------------------
PictureStep ==
  \/ GfxUpdateLinear \/ GfxUpdateVga \/ GraceEnds
  \/ TakeConsole \/ GiveBackConsole
  \/ \E p \in Pages : Draw(p)
  \/ \E q \in Palettes : WritePalette(q)
  \/ \E g \in Ramps : WriteGamma(g)
CursorStep ==
  \/ CursorDefine \/ CursorClear \/ FlipIdle
  \/ \E on \in BOOLEAN : CursorEnable(on) \/ CursorFlags(on)
ModeStep ==
  \/ \E b \in Depths : WriteBpp(b)
  \/ \E on \in BOOLEAN : WriteEnable(on)
  \/ \E p \in Pages : WriteOffset(p)
  \/ ScanReset

ScanNext == PictureStep \/ CursorStep \/ ModeStep
ScanSpec == ScanInit /\ [][ScanNext]_scanVars

-----------------------------------------------------------------------------
(* Properties                                                                *)

(* The values every variable takes; a surface of ours or another's is on the *)
(* console only while it was put there.                                      *)
ScanTypeOK ==
  /\ flip_push \in BOOLEAN /\ r_enable \in BOOLEAN /\ r_bpp \in Depths /\ r_offset \in Pages
  /\ lin_on \in BOOLEAN /\ lin \in Modes /\ shadow \in BOOLEAN
  /\ full_update \in BOOLEAN /\ resurface \in BOOLEAN /\ vga_grace \in BOOLEAN
  /\ pal \in Palettes /\ pal_dirty \in BOOLEAN /\ gamma \in Ramps /\ gamma_dirty \in BOOLEAN
  /\ vram \in [Pages -> Colours] /\ dirty \in [Pages -> BOOLEAN]
  /\ owner \in {"ours", "other"} /\ surface \in {"vga", "own", "other"}
  /\ shown \in {Foreign("vga"), Foreign("other")} \cup Pictures
  /\ cur_on \in BOOLEAN /\ cur_defined \in BOOLEAN /\ cur_flip_hidden \in BOOLEAN
  /\ cur_flip_desktop \in Pages /\ cur_owned \in BOOLEAN /\ flip_timer \in BOOLEAN
  /\ mouse \in BOOLEAN
  /\ owner = "other" => surface = "other"

(* A tick of the linear mode that finds nothing to repaint does find on the   *)
(* display the page the guest scans out, through its palette and its ramp,   *)
(* whatever flips, pushes, mode changes, recolourings or other devices came  *)
(* between: updating dirty spans only loses nothing (gfx_update).            *)
TickShowsPage ==
  owner = "ours" /\ ModeValid /\ ~Whole /\ ~dirty[r_offset]
    => shown = Picture(r_offset, r_bpp)

(* The sprite is up exactly while the guest has it on, a linear mode is on   *)
(* and no flip chain has the screen: never over a VGA screen or a game.      *)
SpriteFollows == mouse <=> cur_on /\ r_enable /\ ~cur_flip_hidden

(* Flips that stop on the desktop's page give the pointer back: the timer    *)
(* that does so runs (fb_cursor_flip_idle).                                  *)
HiddenHasTimer ==
  cur_flip_hidden /\ r_offset = cur_flip_desktop => flip_timer
=============================================================================
