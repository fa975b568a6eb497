\* Two requests, two callbacks, two turns: the same pair of ids.
SPECIFICATION Spec
CONSTANTS
  None = None
  Nil = None
  Place = {here}
  Req = {x1, x2}
  Sub = {x1, x2}
  Turn = {x1, x2}
  Tries = 2
  MaxStops = 1
  Kind = {"route", "zone"}
  MaxLink = 2
  StartTwice = FALSE
  Dest = {shop}
  Nearby = {"none", "exclude", "replace", "clear"}
  Limits = {2}
SYMMETRY Alike
 
PROPERTIES AskersGetGoodFixes 
CHECK_DEADLOCK FALSE
