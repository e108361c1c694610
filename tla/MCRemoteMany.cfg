CONSTANTS
  w1 = w1
  w2 = w2
  garbage = garbage
  NoTail = NoTail
  Words <- MCOneWord
  Tails <- MCOneTail
  Vals = {v1}
  NoVal = NoVal
  NULL = NULL
  Clients = {c1, c2, c3, c4}
  NLists = 2
  HashSum <- MCOneHashSum
  LowestCount <- MCLowestCount
  Backlog = 1
  MaxCalls = 3
SPECIFICATION Spec
SYMMETRY ClientSymmetry
INVARIANT OwnThread
CHECK_DEADLOCK FALSE
