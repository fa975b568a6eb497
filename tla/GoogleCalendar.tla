--------------------------- MODULE GoogleCalendar ---------------------------
(***************************************************************************)
(* The calendar service of src/src/google-calendar.ts: previews that are   *)
(* kept in a ledger, the one confirmed write at a time, the reconciliation *)
(* of a write whose result is uncertain, and the Google calendar the       *)
(* service writes to and other people edit.  Panels (CalendarPanels) and   *)
(* the conversation (CalendarDialogue) call the actions of this module.    *)
(*                                                                         *)
(* An operation id is an element of Ops.  The id of an event that an       *)
(* operation creates is fixed when it is previewed and used by nobody      *)
(* else: the operation stands for it.                                      *)
(***************************************************************************)
EXTENDS Naturals, FiniteSets

CONSTANTS
    Ops,       \* the operation ids a run may use
    Events,    \* the events that are on the calendar from the start
    NoOp,      \* no operation
    Parent,    \* the recurring series an event is an occurrence of
    MaxEdits   \* how many edits other people make (bounds the run)

ASSUME ServiceAssumption ==
    /\ NoOp \notin Ops /\ Ops \cap Events = {}
    /\ Parent \in [Events -> Events \cup {NoOp}]
    /\ MaxEdits \in Nat

Kinds == {"create", "update", "cancel"}

Targets == Events \cup Ops

\* The series of an event; NoOp when it stands alone.
SeriesOf(e) == IF e \in Events THEN Parent[e] ELSE NoOp

VARIABLES
    op,       \* the rows of table operations, and the previews under way
    work,     \* the confirmed write under way (this.work)
    google,   \* the calendar at Google: each event's presence, etag, content
    wire,     \* what became of the write request of each operation
    edits,    \* edits made by other people so far
    posts,    \* history: write requests sent for each operation
    effect    \* history: the calendar has shown what the operation asks for

service == <<op, work, google, wire, edits, posts, effect>>

States == {"free", "reading", "overlapping", "lost",           \* in memory only
           "pending", "sending", "succeeded", "conflict", "failed",
           "unknown", "expired", "dismissed"}

Wires == {"no", "sent", "applied", "stale", "denied"}

Rows == [state : States, kind : Kinds, target : Targets, etag : Nat, parentEtag : Nat,
         others : SUBSET Targets, late : BOOLEAN]

Unused(o) == [state |-> "free", kind |-> "create", target |-> o, etag |-> 0,
              parentEtag |-> 0, others |-> {}, late |-> FALSE]

ServiceInit ==
    /\ op = [o \in Ops |-> Unused(o)]
    /\ work = NoOp
    /\ google = [e \in Targets |-> [there |-> e \in Events, etag |-> 0, by |-> NoOp]]
    /\ wire = [o \in Ops |-> "no"]
    /\ edits = 0
    /\ posts = [o \in Ops |-> 0]
    /\ effect = [o \in Ops |-> FALSE]

\* The other events on the calendar: what overlaps() may report.
Others(e) == {f \in Targets \ {e} : google[f].there}

EtagOf(e) == IF e = NoOp THEN 0 ELSE google[e].etag

\* An operation whose write may be under way concerns the event, its series
\* or an occurrence of it.
Uncertain(e) ==
    \E q \in Ops :
        /\ op[q].state \in {"sending", "unknown"}
        /\ LET f == op[q].target IN
           \/ f = e
           \/ SeriesOf(f) = e
           \/ f = SeriesOf(e)
           \/ SeriesOf(f) # NoOp /\ SeriesOf(f) = SeriesOf(e)

\* preview(): refused while a write is under way.  A create needs no reading
\* of its target.
CanPreview(o, k, e) == work = NoOp /\ op[o].state = "free" /\ ((k = "create") <=> (e = o))

Previewing(rows, o, k, e) ==
    [rows EXCEPT ![o].state = IF k = "create" THEN "overlapping" ELSE "reading",
                 ![o].kind = k, ![o].target = e]

\* Google answers with the target: it must be there, and no operation that
\* concerns it may be uncertain.  A cancellation looks for no overlaps.
PreviewRead(o) ==
    /\ op[o].state = "reading"
    /\ LET e == op[o].target IN
       /\ google[e].there
       /\ ~Uncertain(e)
       /\ op' = [op EXCEPT ![o].state = IF op[o].kind = "cancel" THEN "pending" ELSE "overlapping",
                           ![o].etag = google[e].etag,
                           ![o].parentEtag = EtagOf(SeriesOf(e))]
    /\ UNCHANGED <<work, google, wire, edits, posts, effect>>

\* Google lists what overlaps; the preview is saved and shown.
PreviewSaved(o) ==
    /\ op[o].state = "overlapping"
    /\ op' = [op EXCEPT ![o].state = "pending", ![o].others = Others(op[o].target)]
    /\ UNCHANGED <<work, google, wire, edits, posts, effect>>

\* A read fails, the event is gone or unsupported, or a write is uncertain.
PreviewFails(o) ==
    /\ op[o].state \in {"reading", "overlapping"}
    /\ op' = [op EXCEPT ![o].state = "lost"]
    /\ UNCHANGED <<work, google, wire, edits, posts, effect>>

\* dismiss(): only what nobody confirmed.
Dismissed(o) ==
    IF o # NoOp /\ op[o].state = "pending" THEN [op EXCEPT ![o].state = "dismissed"] ELSE op

\* Five minutes pass.
GrowsLate(o) ==
    /\ op[o].state = "pending" /\ ~op[o].late
    /\ op' = [op EXCEPT ![o].late = TRUE]
    /\ UNCHANGED <<work, google, wire, edits, posts, effect>>

CanConfirm(o) == work = NoOp /\ op[o].state = "pending" /\ ~op[o].late

\* confirm(): "sending" is on file before anything goes to Google.
Confirm(o) ==
    /\ CanConfirm(o)
    /\ op' = [op EXCEPT ![o].state = "sending"]
    /\ work' = o
    /\ UNCHANGED <<google, wire, edits, posts, effect>>

Settled(o, s) ==
    /\ op' = [op EXCEPT ![o].state = s]
    /\ work' = NoOp

\* The series and the overlaps are read again; then the request goes out.
Write(o) ==
    /\ work = o /\ wire[o] = "no"
    /\ EtagOf(SeriesOf(op[o].target)) = op[o].parentEtag
    /\ op[o].kind # "cancel" => Others(op[o].target) = op[o].others
    /\ wire' = [wire EXCEPT ![o] = "sent"]
    /\ posts' = [posts EXCEPT ![o] = @ + 1]
    /\ UNCHANGED <<op, work, google, edits, effect>>

\* Something changed since the preview.
WriteRefused(o) ==
    /\ work = o /\ wire[o] = "no"
    /\ \/ EtagOf(SeriesOf(op[o].target)) # op[o].parentEtag
       \/ op[o].kind # "cancel" /\ Others(op[o].target) # op[o].others
    /\ Settled(o, "conflict")
    /\ UNCHANGED <<google, wire, edits, posts, effect>>

\* A re-reading fails: a 4xx says that nothing was done, anything else counts
\* as uncertain although nothing was sent.
RecheckFails(o) ==
    /\ work = o /\ wire[o] = "no"
    /\ \E s \in {"failed", "unknown"} : Settled(o, s)
    /\ UNCHANGED <<google, wire, edits, posts, effect>>

\* What Google checks: a create needs a fresh id, the others their etag.
Accepts(o) ==
    LET e == op[o].target IN
    IF op[o].kind = "create" THEN ~google[e].there
                             ELSE google[e].there /\ google[e].etag = op[o].etag

Applied(o) == [there |-> op[o].kind # "cancel", etag |-> google[op[o].target].etag + 1, by |-> o]

\* The calendar g shows what the operation asked for.
ShownBy(g, o) ==
    LET e == op[o].target IN
    IF op[o].kind = "cancel" THEN ~g[e].there ELSE g[e].there /\ g[e].by = o

Shows(o) == ShownBy(google, o)

Changed(g) ==
    /\ google' = g
    /\ effect' = [o \in Ops |-> effect[o] \/ (op[o].state # "free" /\ ShownBy(g, o))]

\* Google carries out the request, perhaps long after the service gave up.
GoogleApplies(o) ==
    /\ wire[o] = "sent"
    /\ Accepts(o)
    /\ Changed([google EXCEPT ![op[o].target] = Applied(o)])
    /\ wire' = [wire EXCEPT ![o] = "applied"]
    /\ UNCHANGED <<op, work, edits, posts>>

\* Google refuses it: another etag (412), no such event or no right (4xx).
GoogleRefuses(o) ==
    /\ wire[o] = "sent"
    /\ wire' = [wire EXCEPT ![o] =
                  IF google[op[o].target].there /\ ~Accepts(o) /\ op[o].kind # "create"
                  THEN "stale" ELSE "denied"]
    /\ UNCHANGED <<op, work, google, edits, posts, effect>>

\* The state that the answer to the request puts on file.
Outcome(w) == CASE w = "applied" -> "succeeded"
                [] w = "stale" -> "conflict"
                [] w = "denied" -> "failed"

Answer(o) ==
    /\ work = o
    /\ wire[o] \in {"applied", "stale", "denied"}
    /\ Settled(o, Outcome(wire[o]))
    /\ UNCHANGED <<google, wire, edits, posts, effect>>

\* No answer within 20 s, a 5xx, or one that cannot be read.
NoAnswer(o) ==
    /\ work = o
    /\ wire[o] # "no"
    /\ Settled(o, "unknown")
    /\ UNCHANGED <<google, wire, edits, posts, effect>>

\* What reconcile() may report.  It reads the event and never writes to
\* Google: a deleted event answers 404, or as one that cannot be read.
Findings(o) ==
    IF op[o].state \notin {"succeeded", "unknown", "sending"} THEN {op[o].state}
    ELSE {"unknown"} \cup (IF Shows(o) THEN {"succeeded"}
                           ELSE IF google[op[o].target].there THEN {"conflict"} ELSE {})

\* The rows after reconcile() reported r.
Reconciled(o, r) ==
    IF op[o].state \notin {"unknown", "sending"} THEN op
    ELSE [op EXCEPT ![o].state = IF r = "succeeded" THEN "succeeded" ELSE "unknown"]

\* Somebody edits or deletes an event in Google's own client.
OutsideEdit ==
    /\ edits < MaxEdits
    /\ edits' = edits + 1
    /\ \E e \in Targets :
         /\ google[e].there
         /\ \E there \in BOOLEAN :
              Changed([google EXCEPT ![e] = [there |-> there, etag |-> @.etag + 1, by |-> NoOp]])
    /\ UNCHANGED <<op, work, wire, posts>>

\* create(): a new process never sends again what the old one had begun.
Recovered ==
    [o \in Ops |->
        CASE op[o].state = "sending" -> [op[o] EXCEPT !.state = "unknown"]
          [] op[o].state = "pending" -> [op[o] EXCEPT !.state = "expired"]
          [] op[o].state \in {"reading", "overlapping"} -> [op[o] EXCEPT !.state = "lost"]
          [] OTHER -> op[o]]

ServiceRestart ==
    /\ op' = Recovered
    /\ work' = NoOp
    /\ UNCHANGED <<google, wire, edits, posts, effect>>

\* What the service and Google do without being asked.
ServiceStep ==
    \/ \E o \in Ops : \/ PreviewRead(o) \/ PreviewSaved(o) \/ PreviewFails(o) \/ GrowsLate(o)
                      \/ Write(o) \/ WriteRefused(o) \/ RecheckFails(o)
                      \/ GoogleApplies(o) \/ GoogleRefuses(o)
                      \/ Answer(o) \/ NoAnswer(o)
    \/ OutsideEdit

ServiceTypeOK ==
    /\ op \in [Ops -> Rows]
    /\ work \in Ops \cup {NoOp}
    /\ google \in [Targets -> [there : BOOLEAN, etag : Nat, by : Ops \cup {NoOp}]]
    /\ wire \in [Ops -> Wires]
    /\ edits \in Nat
    /\ posts \in [Ops -> Nat]
    /\ effect \in [Ops -> BOOLEAN]

=============================================================================
