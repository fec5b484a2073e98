SPECIFICATION WindowSpec
CONSTANTS
  Handles = {h1}
  Addrs = {0}
  Refused = {h1}
  Unmirrored = {}
  Splits = FALSE
  MaxCmds = 1
  MaxBatch = 3
  MaxRel = 1
  MaxDirty = 1
PROPERTY AnswerIsOwn
