SPECIFICATION Spec
CONSTANTS
  o1 = o1
  o2 = o2
  o3 = o3
  f = f
  h = h
  Obj = {o1, o2, o3}
  Weak = {w1}
  Field = {f, h}
  Root = {r1, r2}
  Unmarked <- MCUnmarked
  Kept <- MCKept
  Level <- MCLevel
  NULL = NULL
CONSTRAINT FewWeak
SYMMETRY Symmetry
INVARIANTS CountExact NoDangling ChainExact CollectsGarbage ClosedEmpty
