SPECIFICATION DevicesSpec
CONSTANTS
  Pages = {0, 1}
  Colours = {c1, c2}
  Palettes = {p1, p2}
  Ramps = {0, 1}
  Desktop = 0
  Identity = 0
  Handles = {h1, h2, h3}
  Addrs = {0, 1}
  Refused = {}
  Unmirrored = {h3}
  Splits = FALSE
  MaxCmds = 2
  MaxBatch = 2
  MaxRel = 1
  MaxDirty = 1
SYMMETRY Symmetry
INVARIANTS
  ScanTypeOK
  SpriteFollows
  HiddenHasTimer
  WindowTypeOK
  HostAgrees
  NothingUnseen
  TickShowsPage
