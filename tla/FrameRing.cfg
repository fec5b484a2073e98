\* A slot frame taken over a pending region.
CONSTANTS
  MaxWidth = 1
  Pixels <- MCPixels
  Black = 0
  SpritePixel = 2
  s1 = s1
  Slots <- MCSlots
  NoSlot = NoSlot
  ZeroCopy = {TRUE}
  CursorColumns = {}
SPECIFICATION Spec
INVARIANT TakenFrameIsShown
\* The process may have panicked (aborted).
CHECK_DEADLOCK FALSE
