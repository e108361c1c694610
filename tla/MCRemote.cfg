CONSTANTS
  w1 = w1
  w2 = w2
  garbage = garbage
  NoTail = NoTail
  Words <- MCWords
  Tails <- MCTails
  Vals = {v1}
  NoVal = NoVal
  NULL = NULL
  Clients = {c1, c2}
  NLists = 2
  HashSum <- MCHashSum
  LowestCount <- MCLowestCount
  Backlog = 1
  MaxCalls = 3
SPECIFICATION FairSpec
INVARIANTS
  TypeOK
  CallInOnePlace
PROPERTIES
  ImplementsRemoteMap
  AcceptedAnswered
CHECK_DEADLOCK FALSE
