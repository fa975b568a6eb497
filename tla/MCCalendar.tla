----------------------------- MODULE MCCalendar -----------------------------
(***************************************************************************)
(* CalendarPanels and CalendarDialogue for TLC, both on the calendar       *)
(* service.  A panel and a spoken turn do not meet here: one run takes     *)
(* them one at a time, part names the one at work.  The turns come in two  *)
(* parts, long batches said one turn at a time, and short talks in which   *)
(* the user speaks over a turn.                                            *)
(***************************************************************************)
EXTENDS CalendarPanels, CalendarDialogue, TLC

CONSTANTS Mon, Tue, Wed   \* the events that are on the calendar from the start

\* Tuesday's event is an occurrence of the series, which Wed stands for.
Occurrence == [e \in {Mon, Tue, Wed} |-> IF e = Tue THEN Wed ELSE NoOp]
MonTue == <<Mon, Tue>>

VARIABLE part

talk == <<memory, last, file, cold, ghosts>>

Init == part \in {"panels", "batches", "turns"} /\ PanelInit /\ DialogueInit

\* Two operations are previewed at most.
Two == Cardinality({o \in Ops : op'[o].state # "free"}) <= 2

\* Panels write an occurrence, its series or a new event; somebody edits one.
Paneled ==
  /\ part = "panels" /\ PanelNext /\ Two
  /\ google'[Mon] = google[Mon] /\ \A o \in Ops : op'[o].target # Mon

\* A batch of new events, one of cancellations, or a little of both.
Batched ==
  /\ part = "batches" /\ edits' = 0 /\ interrupts' = 0
  /\ DialogueNext
  /\ Cardinality(asked') <= 1 \/ Two
  /\ \A c \in Calls : call'[c].text # "new"

\* A new event, and the user speaks over a turn.
Talked ==
  /\ part = "turns" /\ edits' = 0
  /\ DialogueNext /\ Two
  /\ \A c \in Calls : call'[c].text \notin Wishes \ {"new"}

Next ==
  \/ Paneled /\ UNCHANGED <<part, talk>>
  \/ (Batched \/ Talked) /\ UNCHANGED <<part, panels>>

Spec == Init /\ [][Next]_<<part, service, panels, talk>>

\* Panels are calls here: two of each, and nothing tells them apart.
Alike == Permutations(Ops) \cup Permutations(Calls)
=============================================================================
