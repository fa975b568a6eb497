SPECIFICATION FilesSpec
CONSTANTS
  PricedCalls = {p1}
  GoogleCalls = {x1, x2}
  Wants = {2}
  PricedLimit = 2
  GoogleLimit = 2
  FreeUnits = 3
  UnitPrice = 2
  Thresholds = {95}
  LastMonth = 2
  MaxRestarts = 1
  Replies = {x1, x2}
  Checks = {k1}
  MaxCalls = 2
  SessionCap = 2
  DailyLimit = 3
  MonthlyLimit = 4
  LastDay = 2
  DaysInMonth = 2
  LastSession = 2
  old = old
  new = new
  tool = tool
  here = here
  there = there
  Servers = {old, new}
  Tools = {tool}
  Host <- TwoHosts
  Release <- Releases
  Pids = {1, 2}
  Answers = {a1}
  Nobody = Nobody
  MaxStarts = 2
  f1 = f1
  f2 = f2
  t1 = t1
  t2 = t2
  t3 = t3
  Names = {f1, f2}
  Histories <- Both
  MaxTopics = 2
  NoTurn = NoTurn
  MaxEdits = 2
  MaxGen = 4
  Window = 2
  Ttl = 4
  MaxWrites = 2
SYMMETRY Alike
INVARIANTS BilledIsOnFile  OwnsAlone ImportsWhole OneActive OverlapBounded
PROPERTIES HeldSurvives
CHECK_DEADLOCK FALSE
