CONSTANTS
  k1 = k1
  k2 = k2
  k3 = k3
  k4 = k4
  k5 = k5
  Keys <- MCKeys
  Vals = {v1, v2}
  NoVal = NoVal
  NLists = 2
  HashSum <- MCHashSum
  LowestCount <- MCLowestCount
SPECIFICATION Spec
SYMMETRY MCSymmetry
INVARIANT GetFindsStored
CHECK_DEADLOCK FALSE
