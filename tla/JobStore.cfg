SPECIFICATION FairStoreSpec
CONSTANTS
  MaxJobs = 2
  PendingLimit = 2
  DailyLimit = 3
  Callers = {"c1", "c2"}
  Outcomes = {"unknown"}
INVARIANT LedgerHeld
PROPERTIES EndedJobsStay WorkEnds
