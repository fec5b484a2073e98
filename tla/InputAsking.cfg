\* A pad held while the close question is up.
CONSTANTS
  QueueLen = 2
  MaxInputs <- MCMaxInputs
  ctrl = ctrl
  shift = shift
  del = del
  left = left
  right = right
  Keys <- MCKeys
  CadPairs <- MCCadPairs
  CadLeft <- MCCadLeft
  CadLifts <- MCCadLifts
  Del = del
  PadModes = {"keys", "device", "off"}
  Controls <- MCControls
  PadStates <- MCPadStates
  Bindings <- MCBindings
SPECIFICATION Spec
INVARIANT NothingWhileAsking
