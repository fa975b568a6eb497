\* Liveness and refinement, two sockets, no symmetry.
CONSTANTS
  Session = {s1, s2}
  Conn = {c1, c2}
  Client = {k1}
  None = None
  Window = 1
  GuestRuntimes = FALSE
  TestControls = TRUE
SPECIFICATION FairSpec
PROPERTIES DetachedSettles LeaseSpec
