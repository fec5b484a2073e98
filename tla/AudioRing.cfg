\* A ring of six frames, gone round at least once; a stream starts at three or five.
CONSTANTS
  RingFrames = 6
  Burst = 2
  Cap = 3
  Cushion = 2
  Slack = 0
  Periods = {1, 3}
  MaxTick = 2
  MaxClock = 9
SPECIFICATION Spec
INVARIANTS
  TypeOK
  HandedOutIsFree
  NeverAhead
  SkipLeavesCushion
PROPERTIES
  ImplementsAudioStream
  MixerNeverBlocks
  FullRingPlays
