CONSTANTS
  Words <- MCWords
  Tails = {notail}
  Vals <- MCVals
  NoVal = NoVal
  NULL = NULL
  Results <- MCResults
  KeyLists <- MCKeyLists
  Capacity = 6
SPECIFICATION Spec
INVARIANT SizeIntact
CHECK_DEADLOCK FALSE
