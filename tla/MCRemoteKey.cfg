CONSTANTS
  w1 = w1
  w2 = w2
  garbage = garbage
  NoTail = NoTail
  Words <- MCWords
  Tails <- MCTails
  Vals = {v1, v2}
  NoVal = NoVal
  NULL = NULL
  Clients = {c1}
  NLists = 2
  HashSum <- MCHashSum
  LowestCount <- MCLowestCount
  Backlog = 1
  MaxCalls = 1
SPECIFICATION Spec
INVARIANT KeyIntact
CHECK_DEADLOCK FALSE
