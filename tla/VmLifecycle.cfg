\* Every start and every end of one machine.
SPECIFICATION Spec
INVARIANTS
  FreedUnderVblankOnly
  OrderlyExit
PROPERTIES
  DeadlineOnlyAtStart
  EndEnds
  CloseEnds
