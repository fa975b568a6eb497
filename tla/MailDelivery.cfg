SPECIFICATION Spec
CONSTANTS
  MaxJobs = 2
  PendingLimit = 2
  DailyLimit = 4
  Callers = {"c1"}
  Outcomes = {"unknown"}
INVARIANTS ApprovedBeforeSent DraftRecoverable
