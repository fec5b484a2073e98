SPECIFICATION FairSpec
CONSTANT MaxFence = 2
INVARIANT TypeOK
INVARIANT HeldIsReleased
INVARIANT FenceWaitsForFlip
PROPERTY FencesInOrder
PROPERTY PreemptAnswersAll
PROPERTY ScanoutInOrder
PROPERTY EveryFenceReported
