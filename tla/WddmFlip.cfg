SPECIFICATION Spec
CONSTANT MaxFence = 2
INVARIANT FlipBeforeFence
