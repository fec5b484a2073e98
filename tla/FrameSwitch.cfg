\* Two mode switches with no publish between.
CONSTANTS
  MaxWidth = 2
  Pixels <- MCPixels
  Black = 0
  SpritePixel = 2
  s1 = s1
  Slots <- MCSlots
  NoSlot = NoSlot
  ZeroCopy = {FALSE}
  CursorColumns = {1}
SPECIFICATION Spec
INVARIANT NoPanic
\* The process may have panicked (aborted).
CHECK_DEADLOCK FALSE
