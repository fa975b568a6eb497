SPECIFICATION TalkSpec
CONSTANTS
  Messages = {m1}
  MaxSubmissions = 3
  MaxPending = 2
  StoreFaults = {"user", "start", "commit"}
  Sessions = {s1}
  MaxMessages = 4
  MaxRestarts = 1
  Fits = {1, 2}
  Threshold = 2
  KeepRecent = 1
  MaxBatch = 2
  CloseMin = 2
  RevisitAfter = 2
  MaxAttempts = 2
  MaxDeferrals = 2
  LastGeneration = 1
INVARIANTS  ForgottenStaysOut OneRunning AttemptsBounded RangesAgree
PROPERTIES SettledStays  JobsSettle
CHECK_DEADLOCK FALSE
