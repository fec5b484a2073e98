--------------------------- MODULE MCFrameHandoff ---------------------------
(* Two widths, so that a frame grows and shrinks, and two colours, so that  *)
(* a stale pixel shows.                                                     *)
EXTENDS FrameHandoff

CONSTANTS s1

MCPixels == {0, 1}
MCSlots == {s1}
=============================================================================
