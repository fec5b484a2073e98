\* A queue of two events, shorter than the chord or a lift can be.
CONSTANTS
  QueueLen = 2
  MaxInputs <- MCMaxInputs
  ctrl = ctrl
  shift = shift
  del = del
  left = left
  right = right
  Keys <- MCKeys
  CadPairs <- MCCadPairs
  CadLeft <- MCCadLeft
  CadLifts <- MCCadLifts
  Del = del
  PadModes = {"keys", "device", "off"}
  Controls <- MCControls
  PadStates <- MCPadStates
  Bindings <- MCBindings
SPECIFICATION Spec
INVARIANTS
  TypeOK
  QueuedIsDrained
  NoKeySticks
  NeverBothWays
PROPERTIES
  PadCatchesUp
  FocusLossLifts
