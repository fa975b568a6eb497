SPECIFICATION FairTurnSpec
CONSTANTS
  Messages = {m1}
  MaxSubmissions = 2
  MaxPending = 2
  StoreFaults = {}
INVARIANTS TextStoredOnce
CHECK_DEADLOCK FALSE
