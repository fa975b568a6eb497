\* Two devices that enter and leave guest mode over two sockets.
CONSTANTS
  Session = {s1, s2, s3}
  Conn = {c1, c2}
  Client = {k1, k2}
  None = None
  Window = 1
  GuestRuntimes = TRUE
  TestControls = FALSE
SPECIFICATION AnySpec
SYMMETRY Symmetric
 
PROPERTY OverForGood
\* the sessions of a guest run out
CHECK_DEADLOCK FALSE
