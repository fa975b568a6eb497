\* Owner conversations of two devices over three sockets; a guest's two
\* sessions and three sockets; a client's two sockets, two sessions and three
\* ids. The same ids serve in the three models.
SPECIFICATION AccessSpec
CONSTANTS
  Session = {s1, s2}
  Conn = {c1, c2, c3}
  Client = {k1, k2}
  None = None
  Window = 1
  GuestRuntimes = FALSE
  TestControls = FALSE
  GuestConn = {c1, c2, c3}
  GuestSession = {s1, s2}
  NoOne = None
  MaxDrafts = 1
  MaxPending = 1
  LinkConn = {s1, s2}
  LinkSession = {k1, k2}
  Id = {c1, c2, c3}
  Nil = None
  MaxWrites = 2
SYMMETRY Symmetric
INVARIANTS LeaseHeld RegistryAgrees LockedOutOnlyByLoss 
PROPERTIES DraftsUnderLock OpenedByFreshChallenge
