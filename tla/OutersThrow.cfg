SPECIFICATION ThrowSpec
CONSTANTS
  FrameSize = 2
  MIN_STACK_OVERHEAD = 1
  InitialSize = 4
  MaxFrames = 3
  MaxScopes = 2
  MaxVars = 3
  MaxOuters = 2
  MaxAllocs = 2
  MaxReserve = 1
INVARIANT EveryOuterKeepsVariable
