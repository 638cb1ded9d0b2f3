SPECIFICATION ForeachSpec
CONSTANTS
  Gen = {g1}
  NoGen = NoGen
  MAX_NATIVE_CALLS = 3
  MaxFrames = 4
  MaxTry = 1
  MaxTop = 6
INVARIANT TrapsZeroAtReturn
