SPECIFICATION Spec
CONSTANTS
  Value = {1, 2}
  Null = 0
  MinSize = 1
  Params = {1, 2, 3, 4, 5, 6, 7}
  MaxLen = 5
  MaxEdits = 1
INVARIANTS
  CallsFunction
  SortInside
PROPERTIES
  SortSorts
  FunctionsEnd
