CONSTANTS
  NoTail = NoTail
  Words <- MCWords
  Tails <- MCTails
  Vals = {pid}
  NoVal = NoVal
  NULL = NULL
  Clients <- MCClients
  NLists = 2
  HashSum <- MCHashSum
  LowestCount <- MCLowestCount
  Backlog = 1
  MaxCalls = 2
  Workers = 2
SPECIFICATION FairBench
INVARIANTS
  BenchTypeOK
  NumbersOnce
  PrintedCovers
  
PROPERTIES
  WedgedForGood
  CallEndsUnlessWedged
CHECK_DEADLOCK FALSE
