CONSTANTS
  Words <- MCWords
  Tails = {notail}
  Vals <- MCVals
  NoVal = NoVal
  NULL = NULL
  Results <- MCResults
  KeyLists <- MCKeyLists
  Capacity = 6
SPECIFICATION FairSpec
INVARIANTS
  TypeOK
  StreamIsMessage
  TakesTurns
  OneCanMove
PROPERTIES
  ImplementsConnection
  MessageArrives
CHECK_DEADLOCK FALSE
