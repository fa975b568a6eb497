\* Three operations, two panels or two calls, batches of two events.
SPECIFICATION Spec
CONSTANTS
  Ops = {o1, o2, o3}
  Mon = mon
  Tue = tue
  Wed = wed
  Events = {mon, tue, wed}
  Parent <- Occurrence
  Listed <- MonTue
  Another = wed
  NoOp = none
  N = 2
  Panels = {c1, c2}
  Calls = {c1, c2}
  Wishes = {"itinerary", "cancelMany", "cancelRest", "new"}
  MaxInterrupts = 1
  MaxEdits = 1
SYMMETRY Alike
INVARIANTS WrittenAsConfirmed 
 
CHECK_DEADLOCK FALSE
