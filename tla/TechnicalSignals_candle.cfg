SPECIFICATION Spec
CONSTANTS
  Day = 7
  Open = 1
  Close = 3
  Settle = 1
  Recent = 1
  MaxAge = 1
  MaxTime = 20
INVARIANT
  UnfinishedStaysOut
CHECK_DEADLOCK FALSE
