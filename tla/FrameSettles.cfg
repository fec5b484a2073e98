\* Under fairness, the guest goes quiet: without ring slots two modes and a hardware
\* cursor, with them one mode and a software pointer (GuestBound).
CONSTANTS
  MaxWidth = 2
  SlotWidth = 1
  Pixels <- MCPixels
  Black = 0
  SpritePixel = 2
  s1 = s1
  Slots <- MCSlots
  NoSlot = NoSlot
  ZeroCopy = {TRUE, FALSE}
  CursorColumns = {1}
SPECIFICATION SettlingSpec
PROPERTIES
  SurfaceShown
  SlotLeavesScreen
\* The process may have panicked (aborted).
CHECK_DEADLOCK FALSE
