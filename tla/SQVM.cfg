SPECIFICATION Spec
CONSTANTS
  Gen = {g1}
  NoGen = NoGen
  MAX_NATIVE_CALLS = 3
  MaxFrames = 4
  MaxTry = 1
  MaxTop = 6
INVARIANTS
  TrapsMatchFrames
  TrapsCounted
  GeneratorOwnership
  FramesNest
  StackRestored
  HandlerHearsUncaught
