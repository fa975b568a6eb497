\* Two operations, two calls, new events only.
SPECIFICATION Spec
CONSTANTS
  Ops = {o1, o2}
  Mon = mon
  Tue = tue
  Wed = wed
  Events = {mon, tue, wed}
  Parent <- Occurrence
  Listed <- MonTue
  Another = wed
  NoOp = none
  N = 2
  Panels = {c1, c2}
  Calls = {c1, c2}
  Wishes = {"new"}
  MaxInterrupts = 1
  MaxEdits = 0
PROPERTY LockKept
CHECK_DEADLOCK FALSE
