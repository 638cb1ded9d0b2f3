CONSTANTS
  k1 = k1
  k2 = k2
  k3 = k3
  k4 = k4
  v1 = v1
  Key = {k1, k2, k3, k4}
  Value = {v1}
  NULL = NULL
  Hash <- MCHash
  InitialSizes = {0, 5}
SPECIFICATION FairSpec
INVARIANTS TypeOK LookupSound PreviousExists ChainInv
CONSTRAINT OneValue
PROPERTIES ImplementsMap CallsReturn
