\* Two calls of a provider with a free tier, a crash and a turn of the month;
\* two segments of at most three chunks; eight changes to the microphone.
SPECIFICATION Spec
CONSTANTS
  PricedCalls = {}
  GoogleCalls = {"g1", "g2"}
  Wants = {1}
  PricedLimit = 2
  GoogleLimit = 2
  FreeUnits = 1
  UnitPrice = 2
  Thresholds = {50, 95}
  LastMonth = 2
  MaxRestarts = 1
  MaxSlots = 2
  MaxChunks = 3
  MaxSegments = 2
  MaxClears = 3
  Attempts = 3
  MaxEpoch = 8
  MaxQueue = 4
INVARIANT SettledAgrees
PROPERTIES AlertsSettle  
\* segments and changes run out
CHECK_DEADLOCK FALSE
