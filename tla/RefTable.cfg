CONSTANTS
  o1 = o1
  o2 = o2
  o3 = o3
  o4 = o4
  o5 = o5
  Object = {o1, o2, o3, o4, o5}
  NULL = NULL
  Hash <- MCHash
  MaxHeld <- MCMaxHeld
  MaxReleases = 2
SPECIFICATION Spec
INVARIANTS NodesAccounted HeldIsCounted
