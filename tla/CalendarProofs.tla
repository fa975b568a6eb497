---------------------------- MODULE CalendarProofs --------------------------
(***************************************************************************)
(* The calendar for every number of operations, panels, calls and batch    *)
(* items, and any foreign edits, lost answers and restarts.                *)
(*                                                                         *)
(* The service keeps its side whoever calls it: one request at most for an *)
(* operation, only for one that was confirmed, and what it calls succeeded *)
(* was seen on the calendar.  That is proved once, for each thing a caller *)
(* may do to the rows, and used for the panels and for the dialogue.       *)
(*                                                                         *)
(* A panel adds that nothing is confirmed that a panel gave up.  What makes*)
(* it inductive is that no two panels hold one preview, and that a preview *)
(* still being prepared is either stale or not yet given up.               *)
(*                                                                         *)
(* A conversation adds its draft, its place in a batch and the file.  Two  *)
(* things are shown of it for any turns and interruptions: a confirmation  *)
(* writes what was shown last, and the service keeps its side.  Two more   *)
(* need that nobody speaks over a turn: a batch passes over no item, and,  *)
(* when nobody else edits the calendar, puts none on it twice.  With an    *)
(* interruption or an edit the code does not promise them.                 *)
(***************************************************************************)
EXTENDS CalendarPanels, CalendarDialogue, FiniteSetTheorems, TLAPS

-----------------------------------------------------------------------------
(* The service.                                                            *)

\* The states of an operation that was confirmed.
SentStates == {"sending", "succeeded", "conflict", "failed", "unknown"}

\* One request at most for an operation, and only for one that was confirmed.
Requests ==
  \A o \in Ops : /\ posts[o] = (IF wire[o] = "no" THEN 0 ELSE 1)
                 /\ wire[o] # "no" => op[o].state \in SentStates
Working == work # NoOp => op[work].state \in SentStates

\* An event says which operation wrote it; a write has shown what was asked,
\* and so has a calendar that agrees with a preview that was read.
Effects ==
  /\ \A e \in Targets : google[e].by # NoOp => wire[google[e].by] = "applied"
  /\ \A o \in Ops : /\ wire[o] = "applied" => effect[o]
                    /\ op[o].state \notin {"free", "reading", "lost"} /\ Shows(o) => effect[o]

ServiceIInv == ServiceTypeOK /\ Requests /\ Working /\ Effects /\ SucceededIsTrue

USE ServiceAssumption

\* The ledger is empty and nothing was sent when the first process starts.
LEMMA ServiceBegins == ServiceInit => ServiceIInv
<1> SUFFICES ASSUME ServiceInit PROVE ServiceIInv OBVIOUS
<1>1. ServiceTypeOK
  <2>1. \A o \in Ops : Unused(o) \in Rows BY DEF Unused, Rows, States, Kinds, Targets
  <2>2. op \in [Ops -> Rows] BY <2>1 DEF ServiceInit
  <2>3. google \in [Targets -> [there : BOOLEAN, etag : Nat, by : Ops \cup {NoOp}]]
    BY DEF ServiceInit
  <2> QED BY <2>2, <2>3 DEF ServiceInit, ServiceTypeOK, Wires
<1>2. Requests /\ Working BY DEF ServiceInit, Requests, Working
<1>3. Effects /\ SucceededIsTrue BY DEF ServiceInit, Effects, SucceededIsTrue, Unused
<1> QED BY <1>1, <1>2, <1>3 DEF ServiceIInv

\* How the row of an operation moves when nobody confirms or dismisses it.
Moves(o) ==
  /\ op'[o].kind = op[o].kind /\ op'[o].target = op[o].target
  /\ op[o].state = "pending" => op'[o].state = "pending"
  /\ op[o].state \in {"reading", "overlapping"} => op'[o].state \in {"reading", "overlapping", "pending", "lost"}
  /\ op[o].state = "lost" => op'[o].state = "lost"
  /\ op[o].state = "free" <=> op'[o].state = "free"
  /\ op[o].state \in SentStates <=> op'[o].state \in SentStates

\* A row that takes another state (and what it read) keeps its type.
LEMMA RowChange ==
  ASSUME op \in [Ops -> Rows], NEW o \in Ops, NEW s \in States, op' = [op EXCEPT ![o].state = s]
  PROVE  /\ op' \in [Ops -> Rows]
         /\ op'[o].state = s /\ op'[o].kind = op[o].kind /\ op'[o].target = op[o].target
         /\ \A q \in Ops : q # o => op'[q] = op[q]
BY DEF Rows

\* Nothing at Google, and of the write nothing but its answer, changes.
LEMMA QuietSafe ==
  ASSUME ServiceIInv, op' \in [Ops -> Rows], UNCHANGED <<google, wire, edits, posts, effect>>,
         work' \in {work, NoOp},
         \A o \in Ops : /\ op'[o].kind = op[o].kind /\ op'[o].target = op[o].target
                        /\ op[o].state \in SentStates => op'[o].state \in SentStates
                        /\ op[o].state \in {"free", "reading", "lost"} =>
                             op'[o].state \in {"free", "reading", "lost"} \/ ~Shows(o)
                        /\ op'[o].state = "succeeded" => effect[o]
  PROVE  ServiceIInv'
<1>1. ServiceTypeOK' BY DEF ServiceIInv, ServiceTypeOK
<1>2. Requests' BY DEF ServiceIInv, Requests
<1>3. Working' BY DEF ServiceIInv, Working, ServiceTypeOK
<1>4. Effects'
  <2>1. \A o \in Ops : Shows(o)' <=> Shows(o) BY DEF Shows, ShownBy
  <2> QED BY <2>1 DEF ServiceIInv, Effects
<1>5. SucceededIsTrue' BY DEF SucceededIsTrue
<1> QED BY <1>1, <1>2, <1>3, <1>4, <1>5 DEF ServiceIInv

LEMMA IdleSafe ==
  ASSUME ServiceIInv, UNCHANGED <<op, work, google, wire, edits, posts, effect>>
  PROVE  ServiceIInv'
<1>1. \A q \in Ops : op[q].state = "succeeded" => effect[q] BY DEF ServiceIInv, SucceededIsTrue
<1>2. op \in [Ops -> Rows] BY DEF ServiceIInv, ServiceTypeOK
<1> QED BY <1>1, <1>2, QuietSafe

\* A preview is read, saved, grows late or fails.
LEMMA PreviewsSafe ==
  ASSUME ServiceIInv, NEW o \in Ops,
         PreviewRead(o) \/ PreviewSaved(o) \/ PreviewFails(o) \/ GrowsLate(o)
  PROVE  ServiceIInv' /\ \A q \in Ops : Moves(q)
<1>0. /\ op \in [Ops -> Rows] /\ op[o] \in Rows /\ op[o].target \in Targets
      /\ google \in [Targets -> [there : BOOLEAN, etag : Nat, by : Ops \cup {NoOp}]]
      /\ UNCHANGED <<work, google, wire, edits, posts, effect>>
  BY DEF ServiceIInv, ServiceTypeOK, Rows, PreviewRead, PreviewSaved, PreviewFails, GrowsLate
<1>1. PICK s \in {"pending", "overlapping", "lost"}, etag \in Nat, parentEtag \in Nat, others \in SUBSET Targets,
           late \in BOOLEAN :
        /\ op' = [op EXCEPT ![o] = [op[o] EXCEPT !.state = s, !.etag = etag, !.parentEtag = parentEtag,
                                                 !.others = others, !.late = late]]
        /\ \/ op[o].state = "reading" /\ (s # "lost" => google[op[o].target].there)
           \/ op[o].state = "overlapping" /\ s \in {"pending", "lost"}
           \/ op[o].state = "pending" /\ s = "pending"
  <2>1. /\ op[o].etag \in Nat /\ op[o].parentEtag \in Nat /\ op[o].others \in SUBSET Targets /\ op[o].late \in BOOLEAN
        /\ op[o] = [state |-> op[o].state, kind |-> op[o].kind, target |-> op[o].target, etag |-> op[o].etag,
                    parentEtag |-> op[o].parentEtag, others |-> op[o].others, late |-> op[o].late]
    BY <1>0 DEF Rows
  <2>2. \A e \in Targets \cup {NoOp} : EtagOf(e) \in Nat BY <1>0 DEF EtagOf
  <2>3. SeriesOf(op[o].target) \in Targets \cup {NoOp} BY <1>0 DEF SeriesOf, Targets
  <2>4. CASE PreviewRead(o)
    <3> DEFINE s == IF op[o].kind = "cancel" THEN "pending" ELSE "overlapping"
    <3> DEFINE e == google[op[o].target].etag
    <3> DEFINE pe == EtagOf(SeriesOf(op[o].target))
    <3>1. e \in Nat /\ pe \in Nat BY <1>0, <2>2, <2>3
    <3>2. op' = [op EXCEPT ![o] = [op[o] EXCEPT !.state = s, !.etag = e, !.parentEtag = pe,
                                                !.others = op[o].others, !.late = op[o].late]]
      BY <1>0, <2>1, <2>4 DEF PreviewRead
    <3>3. op[o].state = "reading" /\ google[op[o].target].there BY <2>4 DEF PreviewRead
    <3>4. s \in {"pending", "overlapping", "lost"} OBVIOUS
    <3> HIDE DEF s, e, pe
    <3> QED BY <2>1, <3>1, <3>2, <3>3, <3>4
  <2>5. CASE PreviewSaved(o)
    <3>1. op' = [op EXCEPT ![o] = [op[o] EXCEPT !.state = "pending", !.etag = op[o].etag,
                                     !.parentEtag = op[o].parentEtag, !.others = Others(op[o].target), !.late = op[o].late]]
      BY <1>0, <2>1, <2>5 DEF PreviewSaved
    <3>2. Others(op[o].target) \in SUBSET Targets BY DEF Others
    <3>3. op[o].state = "overlapping" BY <2>5 DEF PreviewSaved
    <3> QED BY <2>1, <3>1, <3>2, <3>3
  <2>6. CASE PreviewFails(o)
    <3>1. op' = [op EXCEPT ![o] = [op[o] EXCEPT !.state = "lost", !.etag = op[o].etag,
                                     !.parentEtag = op[o].parentEtag, !.others = op[o].others, !.late = op[o].late]]
      BY <1>0, <2>1, <2>6 DEF PreviewFails
    <3>3. op[o].state \in {"reading", "overlapping"} BY <2>6 DEF PreviewFails
    <3> QED BY <2>1, <3>1, <3>3
  <2>7. CASE GrowsLate(o)
    <3>1. op' = [op EXCEPT ![o] = [op[o] EXCEPT !.state = "pending", !.etag = op[o].etag,
                                     !.parentEtag = op[o].parentEtag, !.others = op[o].others, !.late = TRUE]]
      BY <1>0, <2>1, <2>7 DEF GrowsLate
    <3>3. op[o].state = "pending" BY <2>7 DEF GrowsLate
    <3> QED BY <2>1, <3>1, <3>3
  <2> QED BY <2>4, <2>5, <2>6, <2>7
<1>2. /\ op'[o].state = s /\ op'[o].kind = op[o].kind /\ op'[o].target = op[o].target
      /\ \A q \in Ops : q # o => op'[q] = op[q]
  BY <1>0, <1>1 DEF Rows
<1>3. op' \in [Ops -> Rows]
  <2>1. [op[o] EXCEPT !.state = s, !.etag = etag, !.parentEtag = parentEtag, !.others = others, !.late = late] \in Rows
    <3>1. s \in States BY <1>1 DEF States
    <3> QED BY <1>0, <1>1, <3>1 DEF Rows
  <2> QED BY <1>0, <1>1, <2>1
<1>4. \A q \in Ops : Moves(q) BY <1>1, <1>2 DEF Moves, SentStates
\* what is read is there, and was not written by this operation
<1>5. op[o].state = "reading" /\ s # "lost" => ~Shows(o)
  <2> SUFFICES ASSUME op[o].state = "reading", s # "lost", Shows(o) PROVE FALSE OBVIOUS
  <2>1. google[op[o].target].there BY <1>1
  <2>2. google[op[o].target].by = o BY <2>1 DEF Shows, ShownBy
  <2>3. wire[o] = "applied" BY <1>0, <2>2 DEF ServiceIInv, Effects
  <2> QED BY <2>3 DEF ServiceIInv, Requests, SentStates
<1>6. \A q \in Ops : /\ op'[q].kind = op[q].kind /\ op'[q].target = op[q].target
                     /\ op[q].state \in SentStates => op'[q].state \in SentStates
                     /\ op[q].state \in {"free", "reading", "lost"} =>
                          op'[q].state \in {"free", "reading", "lost"} \/ ~Shows(q)
                     /\ op'[q].state = "succeeded" => effect[q]
  BY <1>1, <1>2, <1>4, <1>5 DEF Moves, ServiceIInv, SucceededIsTrue
<1>7. ServiceIInv' BY <1>0, <1>3, <1>6, QuietSafe
<1> QED BY <1>4, <1>7

\* The confirmed write gets its result, or none.
LEMMA SettlesSafe ==
  ASSUME ServiceIInv, NEW o \in Ops,
         WriteRefused(o) \/ RecheckFails(o) \/ Answer(o) \/ NoAnswer(o)
  PROVE  ServiceIInv' /\ \A q \in Ops : Moves(q)
<1>0. /\ op \in [Ops -> Rows] /\ o # NoOp /\ op[o].state \in SentStates
      /\ UNCHANGED <<google, wire, edits, posts, effect>> /\ work' = NoOp
  BY DEF ServiceIInv, ServiceTypeOK, Working, WriteRefused, RecheckFails, Answer, NoAnswer, Settled
<1>1. PICK s \in {"conflict", "failed", "unknown", "succeeded"} :
        op' = [op EXCEPT ![o].state = s] /\ (s = "succeeded" => wire[o] = "applied")
  <2>1. CASE Answer(o)
    <3>1. Outcome(wire[o]) \in {"succeeded", "conflict", "failed"} /\ (Outcome(wire[o]) = "succeeded" => wire[o] = "applied")
      BY <2>1 DEF Answer, Outcome
    <3> QED BY <2>1, <3>1 DEF Answer, Settled
  <2>2. CASE WriteRefused(o) \/ RecheckFails(o) \/ NoAnswer(o) BY <2>2 DEF WriteRefused, RecheckFails, NoAnswer, Settled
  <2> QED BY <2>1, <2>2
<1>2. s \in States /\ s \in SentStates BY <1>1 DEF States, SentStates
<1>3. /\ op' \in [Ops -> Rows] /\ op'[o].state = s /\ op'[o].kind = op[o].kind /\ op'[o].target = op[o].target
      /\ \A q \in Ops : q # o => op'[q] = op[q]
  BY <1>0, <1>1, <1>2, RowChange
<1>4. \A q \in Ops : Moves(q) BY <1>0, <1>2, <1>3 DEF Moves, SentStates
<1>5. \A q \in Ops : /\ op'[q].kind = op[q].kind /\ op'[q].target = op[q].target
                     /\ op[q].state \in SentStates => op'[q].state \in SentStates
                     /\ op[q].state \in {"free", "reading", "lost"} =>
                          op'[q].state \in {"free", "reading", "lost"} \/ ~Shows(q)
                     /\ op'[q].state = "succeeded" => effect[q]
  BY <1>0, <1>1, <1>2, <1>3 DEF ServiceIInv, SucceededIsTrue, Effects, SentStates
<1>6. ServiceIInv' BY <1>0, <1>3, <1>5, QuietSafe
<1> QED BY <1>4, <1>6

\* The request goes out: it is the first, of an operation that was confirmed.
LEMMA WriteSafe ==
  ASSUME ServiceIInv, NEW o \in Ops, Write(o)
  PROVE  ServiceIInv'
<1>1. /\ UNCHANGED <<op, work, google, edits, effect>> /\ wire[o] = "no" /\ op[o].state \in SentStates
      /\ wire' = [wire EXCEPT ![o] = "sent"] /\ posts' = [posts EXCEPT ![o] = @ + 1]
  BY DEF Write, ServiceIInv, Working
<1>2. wire \in [Ops -> Wires] /\ posts \in [Ops -> Nat] /\ op \in [Ops -> Rows]
  BY DEF ServiceIInv, ServiceTypeOK
<1>3. ServiceTypeOK' BY <1>1, <1>2 DEF ServiceIInv, ServiceTypeOK, Wires
<1>4. Requests' BY <1>1, <1>2 DEF ServiceIInv, Requests
<1>5. Effects'
  <2>1. \A q \in Ops : Shows(q)' <=> Shows(q) BY <1>1 DEF Shows, ShownBy
  <2>2. \A e \in Targets : google[e].by # NoOp => wire'[google[e].by] = "applied"
    <3>1. \A q : wire[q] = "applied" => q # o BY <1>1
    <3>2. \A e \in Targets : google[e].by \in Ops \cup {NoOp} BY DEF ServiceIInv, ServiceTypeOK
    <3> QED BY <1>1, <1>2, <3>1, <3>2 DEF ServiceIInv, Effects
  <2> QED BY <1>1, <1>2, <2>1, <2>2 DEF ServiceIInv, Effects
<1>6. SucceededIsTrue' BY <1>1 DEF ServiceIInv, SucceededIsTrue
<1>7. Working' BY <1>1 DEF ServiceIInv, Working
<1> QED BY <1>3, <1>4, <1>5, <1>6, <1>7 DEF ServiceIInv

\* Google answers: what it carries out is seen on the calendar.
LEMMA GoogleSafe ==
  ASSUME ServiceIInv,
         OutsideEdit \/ \E o \in Ops : GoogleApplies(o) \/ GoogleRefuses(o)
  PROVE  ServiceIInv'
<1>0. /\ op \in [Ops -> Rows] /\ wire \in [Ops -> Wires] /\ effect \in [Ops -> BOOLEAN] /\ edits \in Nat
      /\ google \in [Targets -> [there : BOOLEAN, etag : Nat, by : Ops \cup {NoOp}]]
      /\ \A o \in Ops : op[o].target \in Targets
      /\ UNCHANGED <<op, work, posts>>
  BY DEF ServiceIInv, ServiceTypeOK, Rows, OutsideEdit, GoogleApplies, GoogleRefuses
<1>1. Working' BY <1>0 DEF ServiceIInv, Working
<1>2. ASSUME NEW g \in [Targets -> [there : BOOLEAN, etag : Nat, by : Ops \cup {NoOp}]], Changed(g)
      PROVE  /\ effect' \in [Ops -> BOOLEAN] /\ google' = g
             /\ \A o \in Ops : /\ effect[o] => effect'[o]
                               /\ op[o].state # "free" /\ ShownBy(g, o) => effect'[o]
                               /\ Shows(o)' <=> ShownBy(g, o)
  <2>1. google' = g /\ effect' = [o \in Ops |-> effect[o] \/ (op[o].state # "free" /\ ShownBy(g, o))]
    BY <1>2 DEF Changed
  <2>2. effect' \in [Ops -> BOOLEAN]
    <3>1. \A o \in Ops : (effect[o] \/ (op[o].state # "free" /\ ShownBy(g, o))) \in BOOLEAN OBVIOUS
    <3> QED BY <2>1, <3>1
  <2>3. \A o \in Ops : Shows(o)' <=> ShownBy(g, o) BY <1>0, <2>1 DEF Shows, ShownBy
  <2> QED BY <2>1, <2>2, <2>3
<1>3. ASSUME NEW o \in Ops, GoogleApplies(o) PROVE ServiceIInv'
  <2> DEFINE e == op[o].target
  <2> DEFINE g == [google EXCEPT ![e] = Applied(o)]
  <2>1. wire[o] = "sent" /\ wire' = [wire EXCEPT ![o] = "applied"] /\ edits' = edits /\ Changed(g)
    BY <1>3 DEF GoogleApplies
  <2>2. Applied(o) \in [there : BOOLEAN, etag : Nat, by : Ops \cup {NoOp}]
    <3>1. google[e].etag + 1 \in Nat BY <1>0
    <3> QED BY <3>1 DEF Applied
  <2>3. g \in [Targets -> [there : BOOLEAN, etag : Nat, by : Ops \cup {NoOp}]] BY <1>0, <2>2
  <2>4. g[e] = Applied(o) /\ \A f \in Targets : f # e => g[f] = google[f] BY <1>0
  <2>6. Applied(o).by = o /\ (Applied(o).there <=> op[o].kind # "cancel") BY DEF Applied
  <2> HIDE DEF g
  <2>5. ShownBy(g, o)
    <3>1. g[op[o].target].by = o /\ (g[op[o].target].there <=> op[o].kind # "cancel") BY <2>4, <2>6
    <3> QED BY <3>1 DEF ShownBy
  <2>7. /\ effect' \in [Ops -> BOOLEAN] /\ google' = g
        /\ \A q \in Ops : /\ effect[q] => effect'[q]
                          /\ op[q].state # "free" /\ ShownBy(g, q) => effect'[q]
                          /\ Shows(q)' <=> ShownBy(g, q)
    BY <1>2, <2>1, <2>3
  <2>8. ServiceTypeOK' BY <1>0, <2>1, <2>3, <2>7 DEF ServiceIInv, ServiceTypeOK, Wires
  <2>9. Requests' BY <1>0, <2>1 DEF ServiceIInv, Requests
  <2>10. Effects'
    <3>1. ASSUME NEW f \in Targets, google'[f].by # NoOp PROVE wire'[google'[f].by] = "applied"
      <4>1. CASE f = e BY <1>0, <2>1, <2>4, <2>6, <2>7, <4>1
      <4>2. CASE f # e
        <5>1. google'[f] = google[f] BY <2>4, <2>7, <4>2
        <5>2. wire[google[f].by] = "applied" /\ google[f].by \in Ops BY <1>0, <3>1, <5>1 DEF ServiceIInv, Effects
        <5> QED BY <1>0, <2>1, <5>1, <5>2
      <4> QED BY <4>1, <4>2
    <3>2. op[o].state # "free" BY <2>1 DEF ServiceIInv, Requests, SentStates
    <3>3. effect'[o] BY <2>5, <2>7, <3>2
    <3>4. \A q \in Ops : wire'[q] = "applied" => effect'[q] BY <1>0, <2>1, <2>7, <3>3 DEF ServiceIInv, Effects
    <3>5. \A q \in Ops : op'[q].state \notin {"free", "reading", "lost"} /\ Shows(q)' => effect'[q] BY <1>0, <2>7
    <3> QED BY <3>1, <3>4, <3>5 DEF Effects
  <2>11. SucceededIsTrue' BY <1>0, <2>7 DEF ServiceIInv, SucceededIsTrue
  <2> QED BY <1>1, <2>8, <2>9, <2>10, <2>11 DEF ServiceIInv
<1>4. ASSUME NEW o \in Ops, GoogleRefuses(o) PROVE ServiceIInv'
  <2>1. PICK w \in {"stale", "denied"} : wire' = [wire EXCEPT ![o] = w] BY <1>4 DEF GoogleRefuses
  <2>2. wire[o] = "sent" /\ UNCHANGED <<google, edits, effect>> BY <1>4 DEF GoogleRefuses
  <2>3. ServiceTypeOK' BY <1>0, <2>1, <2>2 DEF ServiceIInv, ServiceTypeOK, Wires
  <2>4. Requests' BY <1>0, <2>1, <2>2 DEF ServiceIInv, Requests
  <2>5. Effects'
    <3>1. \A q \in Ops : Shows(q)' <=> Shows(q) BY <1>0, <2>2 DEF Shows, ShownBy
    <3>2. \A e \in Targets : google[e].by # NoOp => wire'[google[e].by] = "applied"
      BY <1>0, <2>1, <2>2 DEF ServiceIInv, Effects
    <3> QED BY <1>0, <2>1, <2>2, <3>1, <3>2 DEF ServiceIInv, Effects
  <2>6. SucceededIsTrue' BY <1>0, <2>2 DEF ServiceIInv, SucceededIsTrue
  <2> QED BY <1>1, <2>3, <2>4, <2>5, <2>6 DEF ServiceIInv
<1>5. ASSUME OutsideEdit PROVE ServiceIInv'
  <2>1. PICK e \in Targets, there \in BOOLEAN :
          Changed([google EXCEPT ![e] = [there |-> there, etag |-> google[e].etag + 1, by |-> NoOp]])
    BY <1>5 DEF OutsideEdit
  <2> DEFINE n == [there |-> there, etag |-> google[e].etag + 1, by |-> NoOp]
  <2> DEFINE g == [google EXCEPT ![e] = n]
  <2>2. n \in [there : BOOLEAN, etag : Nat, by : Ops \cup {NoOp}] /\ n.by = NoOp
    <3>1. google[e].etag + 1 \in Nat BY <1>0
    <3> QED BY <3>1
  <2>3. Changed(g) BY <2>1
  <2> HIDE DEF n
  <2>4. g \in [Targets -> [there : BOOLEAN, etag : Nat, by : Ops \cup {NoOp}]] BY <1>0, <2>2
  <2>5. \A f \in Targets : g[f].by # NoOp => g[f] = google[f] BY <1>0, <2>2
  <2> HIDE DEF g
  <2>7. /\ effect' \in [Ops -> BOOLEAN] /\ google' = g
        /\ \A q \in Ops : /\ effect[q] => effect'[q]
                          /\ op[q].state # "free" /\ ShownBy(g, q) => effect'[q]
                          /\ Shows(q)' <=> ShownBy(g, q)
    BY <1>2, <2>3, <2>4
  <2>8. wire' = wire /\ edits' = edits + 1 BY <1>5 DEF OutsideEdit
  <2>9. ServiceTypeOK' BY <1>0, <2>4, <2>7, <2>8 DEF ServiceIInv, ServiceTypeOK
  <2>10. Requests' BY <1>0, <2>8 DEF ServiceIInv, Requests
  <2>11. Effects'
    <3>1. \A f \in Targets : google'[f].by # NoOp => wire'[google'[f].by] = "applied"
      BY <2>5, <2>7, <2>8 DEF ServiceIInv, Effects
    <3>2. \A q \in Ops : wire'[q] = "applied" => effect'[q] BY <2>7, <2>8 DEF ServiceIInv, Effects
    <3>3. \A q \in Ops : op'[q].state \notin {"free", "reading", "lost"} /\ Shows(q)' => effect'[q] BY <1>0, <2>7
    <3> QED BY <3>1, <3>2, <3>3 DEF Effects
  <2>12. SucceededIsTrue' BY <1>0, <2>7 DEF ServiceIInv, SucceededIsTrue
  <2> QED BY <1>1, <2>9, <2>10, <2>11, <2>12 DEF ServiceIInv
<1> QED BY <1>3, <1>4, <1>5

\* What the service and Google do without being asked.
LEMMA ServiceStepSafe ==
  ASSUME ServiceIInv, ServiceStep
  PROVE  ServiceIInv' /\ \A q \in Ops : Moves(q)
<1>1. ASSUME NEW o \in Ops, PreviewRead(o) \/ PreviewSaved(o) \/ PreviewFails(o) \/ GrowsLate(o)
      PROVE  ServiceIInv' /\ \A q \in Ops : Moves(q)
  BY <1>1, PreviewsSafe
<1>2. ASSUME NEW o \in Ops, WriteRefused(o) \/ RecheckFails(o) \/ Answer(o) \/ NoAnswer(o)
      PROVE  ServiceIInv' /\ \A q \in Ops : Moves(q)
  BY <1>2, SettlesSafe
<1>3. CASE OutsideEdit \/ \E o \in Ops : Write(o) \/ GoogleApplies(o) \/ GoogleRefuses(o)
  <2>1. op' = op BY <1>3 DEF OutsideEdit, Write, GoogleApplies, GoogleRefuses
  <2>2. \A q \in Ops : Moves(q) BY <2>1 DEF Moves
  <2> QED BY <1>3, <2>2, WriteSafe, GoogleSafe
<1> QED BY <1>1, <1>2, <1>3 DEF ServiceStep

\* Only what nobody confirmed is dismissed.
LEMMA DismissedIs ==
  ASSUME op \in [Ops -> Rows], NEW o \in Ops \cup {NoOp}
  PROVE  /\ Dismissed(o) \in [Ops -> Rows]
         /\ \A q \in Ops : /\ Dismissed(o)[q].kind = op[q].kind /\ Dismissed(o)[q].target = op[q].target
                           /\ q # o => Dismissed(o)[q] = op[q]
                           /\ q = o /\ op[o].state = "pending" => Dismissed(o)[q].state = "dismissed"
                           /\ Dismissed(o)[q].state = op[q].state
                                \/ (op[q].state = "pending" /\ Dismissed(o)[q].state = "dismissed")
<1>1. CASE o # NoOp /\ op[o].state = "pending"
  <2>1. Dismissed(o) = [op EXCEPT ![o].state = "dismissed"] BY <1>1 DEF Dismissed
  <2>2. "dismissed" \in States BY DEF States
  <2> QED BY <1>1, <2>1, <2>2 DEF Rows
<1>2. CASE ~(o # NoOp /\ op[o].state = "pending")
  <2>1. Dismissed(o) = op BY <1>2 DEF Dismissed
  <2> QED BY <1>2, <2>1
<1> QED BY <1>1, <1>2

\* A caller dismisses an operation.
LEMMA DismissalSafe ==
  ASSUME ServiceIInv, NEW o \in Ops \cup {NoOp}, op' = Dismissed(o), UNCHANGED <<work, google, wire, edits, posts, effect>>
  PROVE  ServiceIInv'
<1>1. op \in [Ops -> Rows] BY DEF ServiceIInv, ServiceTypeOK
<1>2. /\ op' \in [Ops -> Rows]
      /\ \A q \in Ops : /\ op'[q].kind = op[q].kind /\ op'[q].target = op[q].target
                        /\ op'[q].state = op[q].state \/ (op[q].state = "pending" /\ op'[q].state = "dismissed")
  BY <1>1, DismissedIs
<1>3. \A q \in Ops : /\ op'[q].kind = op[q].kind /\ op'[q].target = op[q].target
                     /\ op[q].state \in SentStates => op'[q].state \in SentStates
                     /\ op[q].state \in {"free", "reading", "lost"} =>
                          op'[q].state \in {"free", "reading", "lost"} \/ ~Shows(q)
                     /\ op'[q].state = "succeeded" => effect[q]
  BY <1>2 DEF SentStates, ServiceIInv, SucceededIsTrue
<1> QED BY <1>2, <1>3, QuietSafe

\* A caller asks for a preview, and dismisses what it had before.
LEMMA AskedSafe ==
  ASSUME ServiceIInv, NEW held \in Ops \cup {NoOp}, NEW o \in Ops, NEW k \in Kinds, NEW e \in Targets,
         CanPreview(o, k, e), op' = Previewing(Dismissed(held), o, k, e),
         UNCHANGED <<work, google, wire, edits, posts, effect>>
  PROVE  /\ ServiceIInv'
         /\ o # held \/ op[held].state # "pending"
         /\ op'[o].state \in {"overlapping", "reading"} /\ op'[o].kind = k /\ op'[o].target = e
         /\ \A q \in Ops : /\ q # o /\ q # held => op'[q] = op[q]
                           /\ q # o => /\ op'[q].kind = op[q].kind /\ op'[q].target = op[q].target
                                       /\ op'[q].state = op[q].state
                                            \/ (op[q].state = "pending" /\ op'[q].state = "dismissed")
<1>0. op \in [Ops -> Rows] BY DEF ServiceIInv, ServiceTypeOK
<1>3. PICK rows \in [Ops -> Rows] : rows = Dismissed(held) BY <1>0, DismissedIs
<1>4. /\ \A q \in Ops : /\ rows[q].kind = op[q].kind /\ rows[q].target = op[q].target
                        /\ q # held => rows[q] = op[q]
                        /\ rows[q].state = op[q].state \/ (op[q].state = "pending" /\ rows[q].state = "dismissed")
  BY <1>0, <1>3, DismissedIs
<1>5. op[o].state = "free" /\ (k = "create" <=> e = o) BY DEF CanPreview
<1>7. PICK s \in {"overlapping", "reading"} :
        /\ op' = [rows EXCEPT ![o].state = s, ![o].kind = k, ![o].target = e]
        /\ (s = "overlapping" => k = "create")
  BY <1>3 DEF Previewing
<1>8. /\ op'[o].state = s /\ op'[o].kind = k /\ op'[o].target = e /\ \A q \in Ops : q # o => op'[q] = rows[q]
  BY <1>7 DEF Rows
<1>9. op' \in [Ops -> Rows]
  <2>1. op' = [rows EXCEPT ![o] = [rows[o] EXCEPT !.state = s, !.kind = k, !.target = e]] BY <1>7
  <2>2. rows[o] \in Rows /\ s \in States BY DEF States
  <2>3. [rows[o] EXCEPT !.state = s, !.kind = k, !.target = e] \in Rows BY <2>2 DEF Rows
  <2> QED BY <2>1, <2>3
<1>10. \A q \in Ops : q # o => /\ op'[q].kind = op[q].kind /\ op'[q].target = op[q].target
                               /\ op'[q].state = op[q].state \/ (op[q].state = "pending" /\ op'[q].state = "dismissed")
  BY <1>4, <1>8
<1>11. ServiceTypeOK' BY <1>0, <1>9 DEF ServiceIInv, ServiceTypeOK
<1>12. Requests'
  <2>1. wire[o] = "no" BY <1>5 DEF ServiceIInv, Requests, SentStates
  <2> QED BY <1>0, <1>10, <2>1 DEF ServiceIInv, Requests, SentStates
<1>13. Working'
  <2>1. work # NoOp => work \in Ops /\ work # o
    BY <1>5 DEF ServiceIInv, Working, ServiceTypeOK, SentStates
  <2> QED BY <1>0, <1>10, <2>1 DEF ServiceIInv, Working, SentStates
<1>14. Effects'
  <2>1. \A q \in Ops : q # o => (Shows(q)' <=> Shows(q)) BY <1>0, <1>10 DEF Shows, ShownBy
  <2>2. s = "overlapping" => ~Shows(o)'
    <3> SUFFICES ASSUME s = "overlapping", Shows(o)' PROVE FALSE OBVIOUS
    <3>1. google[o].by = o /\ o \in Targets BY <1>0, <1>5, <1>7, <1>8 DEF Shows, ShownBy, Targets
    <3>2. wire[o] = "applied" BY <3>1 DEF ServiceIInv, Effects
    <3> QED BY <1>5, <3>2 DEF ServiceIInv, Requests, SentStates
  <2>3. ASSUME NEW q \in Ops, op'[q].state \notin {"free", "reading", "lost"}, Shows(q)' PROVE effect[q]
    <3>1. q # o BY <1>8, <2>2, <2>3
    <3>2. op[q].state \notin {"free", "reading", "lost"} BY <1>10, <2>3, <3>1
    <3> QED BY <2>1, <2>3, <3>1, <3>2 DEF ServiceIInv, Effects
  <2> QED BY <1>0, <2>3 DEF ServiceIInv, Effects
<1>15. SucceededIsTrue' BY <1>0, <1>8, <1>10 DEF ServiceIInv, SucceededIsTrue
<1>16. o # held \/ op[held].state # "pending" BY <1>5
<1>17. /\ op'[o].state \in {"overlapping", "reading"} /\ op'[o].kind = k /\ op'[o].target = e
       /\ \A q \in Ops : q # o /\ q # held => op'[q] = op[q]
  BY <1>4, <1>8
<1> QED BY <1>10, <1>11, <1>12, <1>13, <1>14, <1>15, <1>16, <1>17 DEF ServiceIInv

\* A caller confirms what is pending.
LEMMA ConfirmedSafe ==
  ASSUME ServiceIInv, NEW o \in Ops, Confirm(o)
  PROVE  /\ ServiceIInv' /\ op'[o].state = "sending" /\ op'[o].kind = op[o].kind /\ op'[o].target = op[o].target
         /\ \A q \in Ops : q # o => op'[q] = op[q]
<1>2. /\ op[o].state = "pending" /\ op' = [op EXCEPT ![o].state = "sending"] /\ work' = o
      /\ UNCHANGED <<google, wire, edits, posts, effect>>
  BY DEF Confirm, CanConfirm
<1>3. op \in [Ops -> Rows] /\ "sending" \in States BY DEF ServiceIInv, ServiceTypeOK, States
<1>4. /\ op' \in [Ops -> Rows]
      /\ op'[o].state = "sending" /\ op'[o].kind = op[o].kind /\ op'[o].target = op[o].target
      /\ \A q \in Ops : q # o => op'[q] = op[q]
  BY <1>2, <1>3, RowChange
<1>5. ServiceTypeOK' BY <1>2, <1>4 DEF ServiceIInv, ServiceTypeOK
<1>6. Requests' /\ Working' BY <1>2, <1>4 DEF ServiceIInv, Requests, Working, SentStates
<1>7. Effects'
  <2>1. \A q \in Ops : Shows(q)' <=> Shows(q) BY <1>2, <1>4 DEF Shows, ShownBy
  <2> QED BY <1>2, <1>4, <2>1 DEF ServiceIInv, Effects
<1>8. SucceededIsTrue' BY <1>2, <1>4 DEF ServiceIInv, SucceededIsTrue
<1> QED BY <1>4, <1>5, <1>6, <1>7, <1>8 DEF ServiceIInv

\* A reconciliation puts on file what the calendar shows, and no more.
LEMMA ReconciledSafe ==
  ASSUME ServiceIInv, NEW o \in Ops, NEW r \in Findings(o), op' = Reconciled(o, r),
         UNCHANGED <<work, google, wire, edits, posts, effect>>
  PROVE  ServiceIInv' /\ \A q \in Ops : Moves(q)
<1>3. op \in [Ops -> Rows] BY DEF ServiceIInv, ServiceTypeOK
<1>4. CASE op' = op
  <2>1. \A q \in Ops : Moves(q) BY <1>4 DEF Moves
  <2>2. ServiceIInv'
    <3>1. \A q \in Ops : op[q].state = "succeeded" => effect[q] BY DEF ServiceIInv, SucceededIsTrue
    <3> QED BY <1>3, <1>4, <3>1, QuietSafe
  <2> QED BY <2>1, <2>2
<1>5. CASE op[o].state \in {"unknown", "sending"}
  <2>1. PICK s \in {"succeeded", "unknown"} : op' = [op EXCEPT ![o].state = s] /\ (s = "succeeded" => r = "succeeded")
    BY <1>5 DEF Reconciled
  <2>2. s \in States /\ s \in SentStates /\ op[o].state \in SentStates BY <1>5 DEF States, SentStates
  <2>3. /\ op' \in [Ops -> Rows] /\ op'[o].state = s /\ op'[o].kind = op[o].kind /\ op'[o].target = op[o].target
        /\ \A q \in Ops : q # o => op'[q] = op[q]
    BY <1>3, <2>1, <2>2, RowChange
  <2>4. r = "succeeded" => Shows(o) BY <1>5 DEF Findings
  <2>5. s = "succeeded" => effect[o] BY <1>5, <2>1, <2>4 DEF ServiceIInv, Effects
  <2>6. \A q \in Ops : Moves(q) BY <1>5, <2>2, <2>3 DEF Moves
  <2>7. \A q \in Ops : /\ op'[q].kind = op[q].kind /\ op'[q].target = op[q].target
                       /\ op[q].state \in SentStates => op'[q].state \in SentStates
                       /\ op[q].state \in {"free", "reading", "lost"} =>
                            op'[q].state \in {"free", "reading", "lost"} \/ ~Shows(q)
                       /\ op'[q].state = "succeeded" => effect[q]
    BY <1>5, <2>2, <2>3, <2>5 DEF ServiceIInv, SucceededIsTrue
  <2>8. ServiceIInv' BY <2>3, <2>7, QuietSafe
  <2> QED BY <2>6, <2>8
<1> QED BY <1>4, <1>5 DEF Reconciled

\* A new process takes up nothing that the old one had begun.
LEMMA RestartSafe ==
  ASSUME ServiceIInv, ServiceRestart
  PROVE  /\ ServiceIInv'
         /\ \A q \in Ops : /\ op'[q].kind = op[q].kind /\ op'[q].target = op[q].target
                           /\ op[q].state \in SentStates <=> op'[q].state \in SentStates
                           /\ op[q].state = "free" <=> op'[q].state = "free"
<1>0. op \in [Ops -> Rows] /\ op' = Recovered /\ work' = NoOp /\ UNCHANGED <<google, wire, edits, posts, effect>>
  BY DEF ServiceIInv, ServiceTypeOK, ServiceRestart
<1>1. ASSUME NEW o \in Ops
      PROVE  /\ op'[o] \in Rows /\ op'[o].kind = op[o].kind /\ op'[o].target = op[o].target
             /\ op'[o].state = CASE op[o].state = "sending" -> "unknown"
                                [] op[o].state = "pending" -> "expired"
                                [] op[o].state \in {"reading", "overlapping"} -> "lost"
                                [] OTHER -> op[o].state
  <2>1. op'[o] = CASE op[o].state = "sending" -> [op[o] EXCEPT !.state = "unknown"]
                   [] op[o].state = "pending" -> [op[o] EXCEPT !.state = "expired"]
                   [] op[o].state \in {"reading", "overlapping"} -> [op[o] EXCEPT !.state = "lost"]
                   [] OTHER -> op[o]
    BY <1>0 DEF Recovered
  <2>2. op[o] \in Rows /\ {"unknown", "expired", "lost"} \subseteq States BY <1>0 DEF States
  <2>3. CASE op[o].state = "sending" BY <2>1, <2>2, <2>3 DEF Rows
  <2>4. CASE op[o].state = "pending" BY <2>1, <2>2, <2>4 DEF Rows
  <2>5. CASE op[o].state \in {"reading", "overlapping"} BY <2>1, <2>2, <2>5 DEF Rows
  <2>6. CASE op[o].state \notin {"sending", "pending", "reading", "overlapping"} BY <2>1, <2>2, <2>6
  <2> QED BY <2>3, <2>4, <2>5, <2>6
<1>2. op' \in [Ops -> Rows]
  <2>1. op' = [o \in Ops |-> op'[o]] BY <1>0 DEF Recovered
  <2> QED BY <1>1, <2>1
<1>3. \A q \in Ops : /\ op'[q].kind = op[q].kind /\ op'[q].target = op[q].target
                     /\ op[q].state \in SentStates <=> op'[q].state \in SentStates
                     /\ op[q].state = "free" <=> op'[q].state = "free"
                     /\ op[q].state \in {"free", "reading", "lost"} =>
                          op'[q].state \in {"free", "reading", "lost"}
                     /\ op'[q].state = "succeeded" => op[q].state = "succeeded"
  BY <1>1 DEF SentStates
<1>4. ServiceIInv'
  <2>1. \A q \in Ops : op'[q].state = "succeeded" => effect[q] BY <1>3 DEF ServiceIInv, SucceededIsTrue
  <2> QED BY <1>0, <1>2, <1>3, <2>1, QuietSafe
<1> QED BY <1>3, <1>4

-----------------------------------------------------------------------------
(* The panels.                                                             *)

\* What a panel holds: a preview that may be confirmed, or one being prepared.
HeldBy(p) == GivenUp(p) \ {NoOp}

Holds(p) ==
  /\ panel[p].pending # NoOp => op[panel[p].pending].state = "pending" /\ panel[p].pending \notin void
  /\ panel[p].call = "preview" =>
       /\ panel[p].pending = NoOp /\ panel[p].of \in Ops
       /\ op[panel[p].of].state \in {"reading", "overlapping", "pending", "lost"}
       /\ ~panel[p].stale => panel[p].of \notin void
PanelsHold == \A p \in Panels : Holds(p)

\* No two panels hold the same preview.
Apart == \A p, q \in Panels : p # q => HeldBy(p) \cap HeldBy(q) = {}

\* A preview that was given up is never confirmed.
GivenUpForGood == \A o \in void : op[o].state \notin SentStates \cup {"free"}

PanelIInv == ServiceIInv /\ PanelTypeOK /\ PanelsHold /\ Apart /\ GivenUpForGood

\* Nothing is shown at first.
LEMMA PanelsBegin == PanelInit => PanelIInv
<1> SUFFICES ASSUME PanelInit PROVE PanelIInv OBVIOUS
<1>1. ServiceIInv BY ServiceBegins DEF PanelInit
<1>2. PanelTypeOK BY <1>1 DEF PanelInit, NewPanel, PanelCalls, PanelTypeOK, ServiceIInv
<1>3. PanelsHold /\ Apart /\ GivenUpForGood
  BY DEF PanelInit, PanelsHold, Holds, NewPanel, Apart, HeldBy, GivenUp, GivenUpForGood
<1> QED BY <1>1, <1>2, <1>3 DEF PanelIInv

\* Such a step leaves the panels right.
LEMMA MovesSafe ==
  ASSUME PanelIInv, UNCHANGED panels, \A o \in Ops : Moves(o)
  PROVE  PanelsHold' /\ Apart' /\ GivenUpForGood'
<1>1. panel' = panel /\ void' = void /\ void \subseteq Ops BY DEF panels, PanelIInv, PanelTypeOK
<1>2. \A p \in Panels : panel[p].pending \in Ops \cup {NoOp} BY DEF PanelIInv, PanelTypeOK
<1>3. PanelsHold'
  <2> SUFFICES ASSUME NEW p \in Panels PROVE Holds(p)' BY DEF PanelsHold
  <2>1. Holds(p) BY DEF PanelIInv, PanelsHold
  <2>2. panel[p].pending # NoOp => op'[panel[p].pending].state = "pending" /\ panel[p].pending \notin void
    BY <1>2, <2>1 DEF Holds, Moves
  <2>3. panel[p].call = "preview" =>
          /\ panel[p].pending = NoOp /\ panel[p].of \in Ops
          /\ op'[panel[p].of].state \in {"reading", "overlapping", "pending", "lost"}
          /\ ~panel[p].stale => panel[p].of \notin void
    BY <2>1 DEF Holds, Moves
  <2> QED BY <1>1, <2>2, <2>3 DEF Holds
<1>4. Apart' BY <1>1 DEF PanelIInv, Apart, HeldBy, GivenUp
<1>5. GivenUpForGood' BY <1>1 DEF PanelIInv, GivenUpForGood, Moves, SentStates
<1> QED BY <1>3, <1>4, <1>5

\* A new process has panels that hold nothing.
LEMMA PanelRestartSafe ==
  ASSUME PanelIInv, PanelRestart
  PROVE  PanelIInv'
<1>0. panel' = [p \in Panels |-> NewPanel] /\ void' = void /\ void \subseteq Ops /\ ServiceRestart
  BY DEF PanelIInv, PanelTypeOK, PanelRestart
<1>1. /\ ServiceIInv'
      /\ \A q \in Ops : /\ op[q].state \in SentStates <=> op'[q].state \in SentStates
                        /\ op[q].state = "free" <=> op'[q].state = "free"
  BY <1>0, RestartSafe DEF PanelIInv
<1>5. panel' \in [Panels -> [pending : Ops \cup {NoOp}, call : PanelCalls, of : Ops \cup {NoOp}, stale : BOOLEAN]]
  BY <1>0 DEF NewPanel, PanelCalls
<1>6. PanelsHold' /\ Apart' BY <1>0 DEF PanelsHold, Holds, NewPanel, Apart, HeldBy, GivenUp
<1>7. GivenUpForGood' BY <1>0, <1>1 DEF PanelIInv, GivenUpForGood
<1> QED BY <1>0, <1>1, <1>5, <1>6, <1>7 DEF PanelIInv, PanelTypeOK, ServiceIInv

\* What a panel does to its own pending preview: nobody else holds it, and
\* the rows of the others stay as they are.
LEMMA OwnSafe ==
  ASSUME PanelIInv, NEW p \in Panels, NEW own \in [pending : Ops \cup {NoOp}, call : PanelCalls,
                                                   of : Ops \cup {NoOp}, stale : BOOLEAN],
         panel' = [panel EXCEPT ![p] = own],
         op' \in [Ops -> Rows], void \subseteq void', void' \subseteq Ops,
         \A o \in void' \ void : o \in HeldBy(p) /\ o # own.pending /\ (own.call = "preview" /\ o = own.of => own.stale),
         \A o \in Ops : o \notin HeldBy(p) /\ op[o].state # "free" => op'[o] = op[o],
         \A o \in void' : op'[o].state \notin SentStates \cup {"free"},
         own.pending # NoOp => op'[own.pending].state = "pending" /\ own.pending \notin void,
         own.call = "preview" =>
           /\ own.pending = NoOp /\ own.of \in Ops
           /\ op'[own.of].state \in {"reading", "overlapping", "pending", "lost"}
           /\ ~own.stale => own.of \notin void,
         \A o \in Ops : o = own.pending \/ (own.call = "preview" /\ o = own.of) =>
                          o \in HeldBy(p) \/ op[o].state = "free"
  PROVE  /\ panel' \in [Panels -> [pending : Ops \cup {NoOp}, call : PanelCalls, of : Ops \cup {NoOp}, stale : BOOLEAN]]
         /\ PanelsHold' /\ Apart' /\ GivenUpForGood'
<1>0. panel \in [Panels -> [pending : Ops \cup {NoOp}, call : PanelCalls, of : Ops \cup {NoOp}, stale : BOOLEAN]]
  BY DEF PanelIInv, PanelTypeOK
<1>1. panel'[p] = own /\ \A q \in Panels : q # p => panel'[q] = panel[q] BY <1>0
<1>2. \A q \in Panels : q # p => HeldBy(q)' = HeldBy(q) BY <1>1 DEF HeldBy, GivenUp
<1>3. \A q \in Panels : \A o \in HeldBy(q) : o \in Ops /\ op[o].state # "free"
  <2> SUFFICES ASSUME NEW q \in Panels, NEW o \in HeldBy(q) PROVE o \in Ops /\ op[o].state # "free" OBVIOUS
  <2>1. o # NoOp /\ (o = panel[q].pending \/ (panel[q].call = "preview" /\ o = panel[q].of)) BY DEF HeldBy, GivenUp
  <2>2. Holds(q) /\ panel[q].pending \in Ops \cup {NoOp} BY <1>0 DEF PanelIInv, PanelsHold
  <2> QED BY <2>1, <2>2 DEF Holds
<1>4. \A o \in HeldBy(p)' : o \in Ops /\ (o \in HeldBy(p) \/ op[o].state = "free")
  BY <1>1 DEF HeldBy, GivenUp
<1>5. Apart'
  <2> SUFFICES ASSUME NEW q \in Panels, NEW r \in Panels, q # r PROVE HeldBy(q)' \cap HeldBy(r)' = {}
    BY DEF Apart
  <2>1. CASE q # p /\ r # p BY <1>2, <2>1 DEF PanelIInv, Apart
  <2>2. CASE q = p BY <1>2, <1>3, <1>4, <2>2 DEF PanelIInv, Apart
  <2>3. CASE r = p BY <1>2, <1>3, <1>4, <2>3 DEF PanelIInv, Apart
  <2> QED BY <2>1, <2>2, <2>3
<1>6. PanelsHold'
  <2> SUFFICES ASSUME NEW q \in Panels PROVE Holds(q)' BY DEF PanelsHold
  <2>1. CASE q = p
    <3>1. own.pending # NoOp => own.pending \notin void' OBVIOUS
    <3>2. own.call = "preview" /\ ~own.stale => own.of \notin void' OBVIOUS
    <3> QED BY <1>1, <2>1, <3>1, <3>2 DEF Holds
  <2>2. CASE q # p
    <3>1. \A o \in HeldBy(q) : o \notin HeldBy(p) BY <2>2 DEF PanelIInv, Apart
    <3>2. \A o \in HeldBy(q) : op'[o] = op[o] /\ (o \in void' <=> o \in void) BY <1>3, <3>1
    <3>3. Holds(q) BY DEF PanelIInv, PanelsHold
    <3>4. panel[q].pending # NoOp => panel[q].pending \in HeldBy(q) BY DEF HeldBy, GivenUp
    <3>5. panel[q].call = "preview" => panel[q].of \in HeldBy(q) BY <3>3 DEF HeldBy, GivenUp, Holds
    <3>6. panel'[q] = panel[q] BY <1>1, <2>2
    <3> QED BY <3>2, <3>3, <3>4, <3>5, <3>6 DEF Holds
  <2> QED BY <2>1, <2>2
<1>7. GivenUpForGood' BY DEF GivenUpForGood
<1>8. panel' \in [Panels -> [pending : Ops \cup {NoOp}, call : PanelCalls, of : Ops \cup {NoOp}, stale : BOOLEAN]]
  BY <1>0
<1> QED BY <1>5, <1>6, <1>7, <1>8

\* What a panel holds is pending or being prepared.
LEMMA HeldIs ==
  ASSUME PanelIInv, NEW p \in Panels
  PROVE  /\ panel[p] \in [pending : Ops \cup {NoOp}, call : PanelCalls, of : Ops \cup {NoOp}, stale : BOOLEAN]
         /\ \A o \in HeldBy(p) : /\ o \in Ops /\ op[o].state \in {"reading", "overlapping", "pending", "lost"}
                               /\ o = panel[p].pending => op[o].state = "pending"
         /\ panel[p].pending # NoOp => panel[p].pending \in HeldBy(p) /\ panel[p].pending \in Ops
         /\ panel[p].call = "preview" => panel[p].of \in HeldBy(p)
         /\ panel[p].call # "preview" => HeldBy(p) = {panel[p].pending} \ {NoOp}
<1>1. panel[p] \in [pending : Ops \cup {NoOp}, call : PanelCalls, of : Ops \cup {NoOp}, stale : BOOLEAN]
  BY DEF PanelIInv, PanelTypeOK
<1>2. Holds(p) BY DEF PanelIInv, PanelsHold
<1> QED BY <1>1, <1>2 DEF HeldBy, GivenUp, Holds

LEMMA HeldOnes ==
  ASSUME PanelIInv, NEW p \in Panels, NEW o \in HeldBy(p)
  PROVE  /\ o \in Ops
         /\ op[o].state \in {"reading", "overlapping", "pending", "lost"}
         /\ o = panel[p].pending => op[o].state = "pending"
<1>1. panel[p] \in [pending : Ops \cup {NoOp}, call : PanelCalls, of : Ops \cup {NoOp}, stale : BOOLEAN]
  BY DEF PanelIInv, PanelTypeOK
<1>2. Holds(p) BY DEF PanelIInv, PanelsHold
<1> QED BY <1>1, <1>2 DEF HeldBy, GivenUp, Holds

LEMMA PendingHeld ==
  ASSUME PanelIInv, NEW p \in Panels, panel[p].pending # NoOp
  PROVE  panel[p].pending \in HeldBy(p)
BY DEF HeldBy, GivenUp

LEMMA InvalidateSafe ==
  ASSUME PanelIInv, NEW p \in Panels, InvalidatePanel(p) \/ ConfirmRefused(p)
  PROVE  PanelIInv'
<1> DEFINE held == panel[p].pending
<1>0. /\ op \in [Ops -> Rows] /\ void \subseteq Ops /\ op' = Dismissed(held)
      /\ UNCHANGED <<work, google, wire, edits, posts, effect>>
  BY DEF PanelIInv, PanelTypeOK, ServiceTypeOK, InvalidatePanel, ConfirmRefused
<1>1. ServiceIInv' BY <1>0, HeldIs, DismissalSafe DEF PanelIInv
<1>2. PICK own \in [pending : Ops \cup {NoOp}, call : PanelCalls, of : Ops \cup {NoOp}, stale : BOOLEAN] :
        /\ panel' = [panel EXCEPT ![p] = own]
        /\ own.pending = NoOp /\ own.call = panel[p].call /\ own.of = panel[p].of /\ (own.call = "preview" => own.stale)
  <2>1. CASE InvalidatePanel(p)
    <3> DEFINE own == [panel[p] EXCEPT !.pending = NoOp, !.stale = (panel[p].call = "preview")]
    <3>1. own \in [pending : Ops \cup {NoOp}, call : PanelCalls, of : Ops \cup {NoOp}, stale : BOOLEAN]
          /\ own.pending = NoOp /\ own.call = panel[p].call /\ own.of = panel[p].of /\ (own.call = "preview" => own.stale)
      BY HeldIs
    <3>2. panel' = [panel EXCEPT ![p] = own] BY <2>1 DEF InvalidatePanel
    <3> HIDE DEF own
    <3> QED BY <3>1, <3>2
  <2>2. CASE ConfirmRefused(p)
    <3> DEFINE own == [panel[p] EXCEPT !.pending = NoOp]
    <3>1. own \in [pending : Ops \cup {NoOp}, call : PanelCalls, of : Ops \cup {NoOp}, stale : BOOLEAN]
          /\ own.pending = NoOp /\ own.call = panel[p].call /\ own.of = panel[p].of
      BY HeldIs
    <3>2. panel' = [panel EXCEPT ![p] = own] /\ own.call = "none" BY <2>2, <3>1 DEF ConfirmRefused, Idle
    <3> HIDE DEF own
    <3> QED BY <3>1, <3>2
  <2> QED BY <2>1, <2>2
<1>3. void' = void \cup HeldBy(p) \/ void' = void
  <2>1. CASE InvalidatePanel(p) BY <2>1 DEF InvalidatePanel, HeldBy
  <2>2. CASE ConfirmRefused(p) BY <2>2 DEF ConfirmRefused
  <2> QED BY <2>1, <2>2
<1>3a. \A o \in HeldBy(p) : o \in Ops /\ op[o].state \in {"reading", "overlapping", "pending", "lost"}
  BY HeldOnes
<1>4. held \in Ops \cup {NoOp} BY HeldIs
<1>5. /\ op' \in [Ops -> Rows] /\ \A q \in Ops : q # held => op'[q] = op[q]
      /\ \A q \in Ops : op'[q].state = op[q].state \/ (op[q].state = "pending" /\ op'[q].state = "dismissed")
  BY <1>0, <1>4, DismissedIs
<1>6. \A o \in void' \ void : o \in HeldBy(p) /\ o # own.pending /\ (own.call = "preview" /\ o = own.of => own.stale)
  BY <1>2, <1>3 DEF HeldBy
<1>7. \A o \in Ops : o \notin HeldBy(p) /\ op[o].state # "free" => op'[o] = op[o] BY <1>5, HeldIs
<1>8. \A o \in void' : op'[o].state \notin SentStates \cup {"free"}
  <2>1. \A o \in void' : o \in Ops /\ op[o].state \notin SentStates \cup {"free"}
    <3>1. \A o \in void : o \in Ops /\ op[o].state \notin SentStates \cup {"free"}
      BY <1>0 DEF PanelIInv, GivenUpForGood
    <3>2. \A o \in HeldBy(p) : o \in Ops /\ op[o].state \notin SentStates \cup {"free"} BY <1>3a DEF SentStates
    <3> QED BY <1>3, <3>1, <3>2
  <2> QED BY <1>5, <2>1 DEF SentStates
<1>9. own.call = "preview" =>
           /\ own.pending = NoOp /\ own.of \in Ops
           /\ op'[own.of].state \in {"reading", "overlapping", "pending", "lost"}
           /\ ~own.stale => own.of \notin void
  <2> SUFFICES ASSUME own.call = "preview"
      PROVE own.of \in Ops /\ op'[own.of].state \in {"reading", "overlapping", "pending", "lost"} BY <1>2
  <2>1. Holds(p) BY DEF PanelIInv, PanelsHold
  <2>2. held = NoOp /\ own.of \in Ops /\ op[own.of].state \in {"reading", "overlapping", "pending", "lost"}
    BY <1>2, <2>1 DEF Holds
  <2> QED BY <1>5, <2>2
<1>10. \A o \in Ops : o = own.pending \/ (own.call = "preview" /\ o = own.of) => o \in HeldBy(p) \/ op[o].state = "free"
  BY <1>2, HeldIs
<1>11. void \subseteq void' /\ void' \subseteq Ops BY <1>0, <1>3, <1>3a
<1> HIDE DEF held
<1>12. /\ panel' \in [Panels -> [pending : Ops \cup {NoOp}, call : PanelCalls, of : Ops \cup {NoOp}, stale : BOOLEAN]]
       /\ PanelsHold' /\ Apart' /\ GivenUpForGood'
  BY <1>2, <1>5, <1>6, <1>7, <1>8, <1>9, <1>10, <1>11, OwnSafe
<1> QED BY <1>1, <1>11, <1>12 DEF PanelIInv, PanelTypeOK, ServiceIInv

\* Another preview is asked for: what was pending is given up.
LEMMA AskSafe ==
  ASSUME PanelIInv, NEW p \in Panels, AskPreview(p)
  PROVE  PanelIInv'
<1>0. /\ op \in [Ops -> Rows] /\ void \subseteq Ops /\ UNCHANGED <<work, google, wire, edits, posts, effect>>
      /\ panel[p].call = "none" /\ void' = void \cup HeldBy(p)
  BY DEF PanelIInv, PanelTypeOK, ServiceTypeOK, AskPreview, Idle, HeldBy
<1>1. PICK o \in Ops, k \in Kinds, e \in Targets :
        /\ CanPreview(o, k, e)
        /\ op' = Previewing(Dismissed(panel[p].pending), o, k, e)
        /\ panel' = [panel EXCEPT ![p] = [NewPanel EXCEPT !.call = "preview", !.of = o]]
  BY DEF AskPreview
<1>2. PICK held \in Ops \cup {NoOp} : held = panel[p].pending BY HeldIs
<1>3. ServiceIInv /\ op[o].state = "free" BY <1>1 DEF PanelIInv, CanPreview
<1>4. /\ ServiceIInv'
      /\ op'[o].state \in {"overlapping", "reading"}
      /\ \A q \in Ops : /\ q # o /\ q # held => op'[q] = op[q]
                        /\ q # o => op'[q].state = op[q].state \/ (op[q].state = "pending" /\ op'[q].state = "dismissed")
  BY <1>0, <1>1, <1>2, <1>3, AskedSafe
<1>5. o # held
  <2>1. held # NoOp => op[held].state = "pending"
    <3> SUFFICES ASSUME held # NoOp PROVE op[held].state = "pending" OBVIOUS
    <3>1. held \in HeldBy(p) BY <1>2, PendingHeld
    <3> QED BY <1>2, <3>1, HeldOnes
  <2>2. o # NoOp BY ServiceAssumption
  <2> QED BY <1>3, <2>1, <2>2
<1>6. op' \in [Ops -> Rows] BY <1>4 DEF ServiceIInv, ServiceTypeOK
<1>16. PICK own \in [pending : Ops \cup {NoOp}, call : PanelCalls, of : Ops \cup {NoOp}, stale : BOOLEAN] :
         /\ panel' = [panel EXCEPT ![p] = own]
         /\ own.pending = NoOp /\ own.call = "preview" /\ own.of = o
  <2> DEFINE own == [NewPanel EXCEPT !.call = "preview", !.of = o]
  <2>1. own \in [pending : Ops \cup {NoOp}, call : PanelCalls, of : Ops \cup {NoOp}, stale : BOOLEAN]
        /\ own.pending = NoOp /\ own.call = "preview" /\ own.of = o
    BY DEF NewPanel, PanelCalls
  <2>2. panel' = [panel EXCEPT ![p] = own] BY <1>1
  <2> HIDE DEF own
  <2> QED BY <2>1, <2>2
<1>17. /\ \A x \in HeldBy(p) : x \in Ops /\ op[x].state = "pending" /\ x = held
  <2>1. HeldBy(p) = {held} \ {NoOp} BY <1>0, <1>2, HeldIs
  <2> QED BY <1>2, <2>1, HeldOnes
<1>18. /\ panel' \in [Panels -> [pending : Ops \cup {NoOp}, call : PanelCalls, of : Ops \cup {NoOp}, stale : BOOLEAN]]
       /\ PanelsHold' /\ Apart' /\ GivenUpForGood'
  <2>1. void \subseteq void' /\ void' \subseteq Ops BY <1>0, <1>17
  <2>2. \A x \in void' \ void : x \in HeldBy(p) /\ x # own.pending /\ (own.call = "preview" /\ x = own.of => own.stale)
    BY <1>0, <1>5, <1>16, <1>17 DEF HeldBy
  <2>3. \A x \in Ops : x \notin HeldBy(p) /\ op[x].state # "free" => op'[x] = op[x]
    <3>1. held # NoOp => held \in HeldBy(p) BY <1>2, HeldIs
    <3> QED BY <1>3, <1>4, <3>1
  <2>4. \A x \in void' : op'[x].state \notin SentStates \cup {"free"}
    <3>1. \A x \in void : x \in Ops /\ op[x].state \notin SentStates \cup {"free"} BY <1>0 DEF PanelIInv, GivenUpForGood
    <3>2. \A x \in void' : x \in Ops /\ op[x].state \notin SentStates \cup {"free"} BY <1>0, <1>17, <3>1 DEF SentStates
    <3> QED BY <1>3, <1>4, <3>2 DEF SentStates
  <2>5. o \notin void BY <1>3 DEF PanelIInv, GivenUpForGood
  <2>6. own.call = "preview" =>
           /\ own.pending = NoOp /\ own.of \in Ops
           /\ op'[own.of].state \in {"reading", "overlapping", "pending", "lost"}
           /\ ~own.stale => own.of \notin void
    BY <1>4, <1>16, <2>5
  <2>7. \A x \in Ops : x = own.pending \/ (own.call = "preview" /\ x = own.of) => x \in HeldBy(p) \/ op[x].state = "free"
    BY <1>3, <1>16
  <2> QED BY <1>6, <1>16, <2>1, <2>2, <2>3, <2>4, <2>6, <2>7, OwnSafe
<1>19. void' \subseteq Ops BY <1>0, <1>17
<1> QED BY <1>4, <1>18, <1>19 DEF PanelIInv, PanelTypeOK, ServiceIInv

\* The answer of the service to a preview or a confirmation.
LEMMA AnswersSafe ==
  ASSUME PanelIInv, NEW p \in Panels, PreviewDone(p) \/ PreviewFailed(p) \/ ConfirmDone(p)
  PROVE  PanelIInv'
<1>0. /\ op \in [Ops -> Rows] /\ void \subseteq Ops /\ UNCHANGED <<work, google, wire, edits, posts, effect, void>>
  BY DEF PanelIInv, PanelTypeOK, ServiceTypeOK, PreviewDone, PreviewFailed, ConfirmDone, service
<1>1. Holds(p) BY DEF PanelIInv, PanelsHold
<1>2. panel[p] \in [pending : Ops \cup {NoOp}, call : PanelCalls, of : Ops \cup {NoOp}, stale : BOOLEAN] BY HeldIs
<1>3. PICK own \in [pending : Ops \cup {NoOp}, call : PanelCalls, of : Ops \cup {NoOp}, stale : BOOLEAN],
           gone \in Ops \cup {NoOp} :
        /\ panel' = [panel EXCEPT ![p] = own] /\ op' = Dismissed(gone)
        /\ own.call = "none" /\ own.pending \in {NoOp} \cup HeldBy(p) /\ gone \in {NoOp} \cup HeldBy(p)
        /\ own.pending # NoOp =>
             own.pending # gone /\ op[own.pending].state = "pending" /\ own.pending \notin void
  <2>0. \A x \in Ops \cup {NoOp} :
          /\ [NewPanel EXCEPT !.pending = x]
                \in [pending : Ops \cup {NoOp}, call : PanelCalls, of : Ops \cup {NoOp}, stale : BOOLEAN]
          /\ [NewPanel EXCEPT !.pending = x].pending = x /\ [NewPanel EXCEPT !.pending = x].call = "none"
    BY DEF NewPanel, PanelCalls
  <2>1. Dismissed(NoOp) = op BY DEF Dismissed
  <2>2. CASE PreviewDone(p)
    <3>1. /\ panel[p].of \in Ops /\ panel[p].of \in HeldBy(p) /\ op[panel[p].of].state = "pending"
          /\ ~panel[p].stale => panel[p].of \notin void
      BY <1>1, <2>2, HeldIs DEF PreviewDone, Holds
    <3>2. CASE panel[p].stale
      <4>1. panel' = [panel EXCEPT ![p] = [NewPanel EXCEPT !.pending = NoOp]] /\ op' = Dismissed(panel[p].of)
        BY <2>2, <3>2 DEF PreviewDone
      <4> QED BY <2>0, <3>1, <4>1
    <3>3. CASE ~panel[p].stale
      <4>1. panel' = [panel EXCEPT ![p] = [NewPanel EXCEPT !.pending = panel[p].of]] /\ op' = op
        BY <2>2, <3>3 DEF PreviewDone
      <4> QED
        <5> DEFINE own == [NewPanel EXCEPT !.pending = panel[p].of]
        <5>1. own \in [pending : Ops \cup {NoOp}, call : PanelCalls, of : Ops \cup {NoOp}, stale : BOOLEAN]
              /\ own.call = "none" /\ own.pending = panel[p].of
          BY <2>0, <3>1
        <5>2. panel' = [panel EXCEPT ![p] = own] /\ op' = Dismissed(NoOp) BY <2>1, <4>1
        <5>3. own.pending # NoOp BY <3>1, <5>1, ServiceAssumption
        <5> HIDE DEF own
        <5> QED BY <3>1, <3>3, <5>1, <5>2, <5>3
    <3> QED BY <3>2, <3>3
  <2>3. CASE PreviewFailed(p)
    <3>1. panel' = [panel EXCEPT ![p] = [NewPanel EXCEPT !.pending = NoOp]] /\ op' = op
      BY <2>3 DEF PreviewFailed, NewPanel, service
    <3> QED BY <2>0, <2>1, <3>1
  <2>4. CASE ConfirmDone(p)
    <3>1. panel' = [panel EXCEPT ![p] = [NewPanel EXCEPT !.pending = panel[p].pending]] /\ op' = op
      BY <2>4 DEF ConfirmDone, service
    <3>2. panel[p].pending \in {NoOp} \cup HeldBy(p)
          /\ (panel[p].pending # NoOp => op[panel[p].pending].state = "pending" /\ panel[p].pending \notin void)
      BY <1>1, HeldIs DEF Holds
    <3>3. panel[p].pending \in Ops \cup {NoOp} BY <1>2
    <3> DEFINE own == [NewPanel EXCEPT !.pending = panel[p].pending]
    <3>4. own \in [pending : Ops \cup {NoOp}, call : PanelCalls, of : Ops \cup {NoOp}, stale : BOOLEAN]
          /\ own.call = "none" /\ own.pending = panel[p].pending
      BY <2>0, <3>3
    <3>5. panel' = [panel EXCEPT ![p] = own] /\ op' = Dismissed(NoOp) BY <2>1, <3>1
    <3> HIDE DEF own
    <3> QED BY <3>2, <3>4, <3>5
  <2> QED BY <2>2, <2>3, <2>4
<1>4. ServiceIInv' BY <1>0, <1>3, DismissalSafe DEF PanelIInv
<1>5. /\ op' \in [Ops -> Rows] /\ \A q \in Ops : q # gone => op'[q] = op[q]
      /\ \A q \in Ops : op'[q].state = op[q].state \/ (op[q].state = "pending" /\ op'[q].state = "dismissed")
  BY <1>0, <1>3, DismissedIs
<1>6. /\ panel' \in [Panels -> [pending : Ops \cup {NoOp}, call : PanelCalls, of : Ops \cup {NoOp}, stale : BOOLEAN]]
      /\ PanelsHold' /\ Apart' /\ GivenUpForGood'
  <2>1. void \subseteq void' /\ void' \subseteq Ops /\ void' \ void = {} BY <1>0
  <2>2. \A x \in Ops : x \notin HeldBy(p) /\ op[x].state # "free" => op'[x] = op[x] BY <1>3, <1>5
  <2>3. \A x \in void' : op'[x].state \notin SentStates \cup {"free"}
    BY <1>0, <1>5 DEF PanelIInv, GivenUpForGood, SentStates
  <2>4. own.pending # NoOp => op'[own.pending].state = "pending" /\ own.pending \notin void BY <1>3, <1>5
  <2>5. \A x \in Ops : x = own.pending \/ (own.call = "preview" /\ x = own.of) => x \in HeldBy(p) \/ op[x].state = "free"
    BY <1>3
  <2> QED BY <1>3, <1>5, <2>1, <2>2, <2>3, <2>4, <2>5, OwnSafe
<1> QED BY <1>0, <1>4, <1>6 DEF PanelIInv, PanelTypeOK, ServiceIInv

\* A confirmation takes the preview away from the panel as it goes on file.
LEMMA ConfirmSafe ==
  ASSUME PanelIInv, NEW p \in Panels, ConfirmPending(p)
  PROVE  PanelIInv'
<1>1. PICK o \in Ops : o = panel[p].pending BY HeldIs DEF ConfirmPending
<1>2. /\ op' = [op EXCEPT ![o].state = "sending"] /\ work' = o /\ UNCHANGED <<google, wire, edits, posts, effect, void>>
      /\ op[o].state = "pending" /\ o \notin void /\ o \in HeldBy(p)
      /\ panel' = [panel EXCEPT ![p] = [NewPanel EXCEPT !.call = "confirm", !.of = o]]
  BY <1>1, HeldIs DEF ConfirmPending, Confirm, CanConfirm, PanelIInv, PanelsHold, Holds
<1>3. void \subseteq Ops BY DEF PanelIInv, PanelTypeOK
<1>4. /\ ServiceIInv' /\ op'[o].state = "sending" /\ \A q \in Ops : q # o => op'[q] = op[q]
  BY <1>1, ConfirmedSafe DEF ConfirmPending, PanelIInv
<1>5. op' \in [Ops -> Rows] BY <1>4 DEF ServiceIInv, ServiceTypeOK
<1>9. PICK own \in [pending : Ops \cup {NoOp}, call : PanelCalls, of : Ops \cup {NoOp}, stale : BOOLEAN] :
        panel' = [panel EXCEPT ![p] = own] /\ own.pending = NoOp /\ own.call = "confirm"
  <2> DEFINE own == [NewPanel EXCEPT !.call = "confirm", !.of = o]
  <2>1. own \in [pending : Ops \cup {NoOp}, call : PanelCalls, of : Ops \cup {NoOp}, stale : BOOLEAN]
        /\ own.pending = NoOp /\ own.call = "confirm"
    BY DEF NewPanel, PanelCalls
  <2>2. panel' = [panel EXCEPT ![p] = own] BY <1>2
  <2> HIDE DEF own
  <2> QED BY <2>1, <2>2
<1>10. /\ panel' \in [Panels -> [pending : Ops \cup {NoOp}, call : PanelCalls, of : Ops \cup {NoOp}, stale : BOOLEAN]]
       /\ PanelsHold' /\ Apart' /\ GivenUpForGood'
  <2>1. void \subseteq void' /\ void' \subseteq Ops /\ void' \ void = {} BY <1>2, <1>3
  <2>2. \A x \in Ops : x \notin HeldBy(p) /\ op[x].state # "free" => op'[x] = op[x] BY <1>2, <1>4
  <2>3. \A x \in void' : op'[x].state \notin SentStates \cup {"free"}
    BY <1>2, <1>3, <1>4 DEF PanelIInv, GivenUpForGood
  <2>4. \A x \in Ops : x = own.pending \/ (own.call = "preview" /\ x = own.of) => x \in HeldBy(p) \/ op[x].state = "free"
    BY <1>9
  <2> QED BY <1>5, <1>9, <2>1, <2>2, <2>3, <2>4, OwnSafe
<1> QED BY <1>2, <1>3, <1>4, <1>10 DEF PanelIInv, PanelTypeOK, ServiceIInv

\* A step of the service, a reconciliation among them, leaves the panels right.
LEMMA ReconcileSafe ==
  ASSUME PanelIInv, NEW p \in Panels, ConfirmOther(p)
  PROVE  PanelIInv'
<1>1. PICK o \in Ops : \E r \in Findings(o) : op' = Reconciled(o, r) BY DEF ConfirmOther
<1>2. UNCHANGED <<work, google, wire, edits, posts, effect>> /\ UNCHANGED panels BY DEF ConfirmOther
<1>3. ServiceIInv' /\ \A q \in Ops : Moves(q) BY <1>1, <1>2, ReconciledSafe DEF PanelIInv
<1>4. PanelsHold' /\ Apart' /\ GivenUpForGood' BY <1>2, <1>3, MovesSafe
<1> QED BY <1>2, <1>3, <1>4 DEF PanelIInv, PanelTypeOK, ServiceIInv, panels

\* Every step of the panels, the service and the clock keeps the invariant.
LEMMA PanelsStep == PanelIInv /\ [PanelNext]_panelVars => PanelIInv'
<1> SUFFICES ASSUME PanelIInv, [PanelNext]_panelVars PROVE PanelIInv' OBVIOUS
<1>1. CASE UNCHANGED panelVars
  <2>1. UNCHANGED <<op, work, google, wire, edits, posts, effect>> /\ UNCHANGED panels BY <1>1 DEF panelVars, service, panels
  <2>2. \A q \in Ops : Moves(q) BY <2>1 DEF Moves
  <2>3. PanelsHold' /\ Apart' /\ GivenUpForGood' BY <2>1, <2>2, MovesSafe
  <2>4. ServiceIInv' BY <2>1, IdleSafe DEF PanelIInv
  <2> QED BY <2>1, <2>3, <2>4 DEF PanelIInv, PanelTypeOK, ServiceIInv, panels
<1>2. CASE ServiceStep /\ UNCHANGED panels
  <2>1. ServiceIInv' /\ \A q \in Ops : Moves(q) BY <1>2, ServiceStepSafe DEF PanelIInv
  <2>2. PanelsHold' /\ Apart' /\ GivenUpForGood' BY <1>2, <2>1, MovesSafe
  <2> QED BY <1>2, <2>1, <2>2 DEF PanelIInv, PanelTypeOK, ServiceIInv, panels
<1>3. CASE \E p \in Panels :
         \/ InvalidatePanel(p) \/ AskPreview(p) \/ PreviewDone(p) \/ PreviewFailed(p)
         \/ ConfirmPending(p) \/ ConfirmRefused(p) \/ ConfirmDone(p) \/ ConfirmOther(p)
  BY <1>3, InvalidateSafe, AskSafe, AnswersSafe, ConfirmSafe, ReconcileSafe
<1>4. CASE PanelRestart BY <1>4, PanelRestartSafe
<1> QED BY <1>1, <1>2, <1>3, <1>4 DEF PanelNext

\* What the panels hold and what the service has on file fit, always.
THEOREM PanelsInductive == PanelSpec => []PanelIInv
BY PanelsBegin, PanelsStep, PTL DEF PanelSpec

\* The calendar is written once, what was confirmed and nobody gave up before, and
\* what the ledger calls succeeded did happen: for any number of panels and
\* operations, over lost answers, foreign edits, reconciliations and restarts.
THEOREM WrittenAsConfirmedAlways == PanelSpec => []WrittenAsConfirmed
<1>1. PanelIInv => WrittenAsConfirmed
  <2> SUFFICES ASSUME PanelIInv PROVE WrittenAsConfirmed OBVIOUS
  <2>1. \A o \in Ops : posts[o] <= 1 BY DEF PanelIInv, ServiceIInv, Requests
  <2>2. \A o \in Ops : o \in void => posts[o] = 0 BY DEF PanelIInv, ServiceIInv, Requests, GivenUpForGood
  <2> QED BY <2>1, <2>2 DEF PanelIInv, ServiceIInv, WrittenAsConfirmed, WritesOnceWhatIsHeld
<1> QED BY <1>1, PanelsInductive, PTL

-----------------------------------------------------------------------------
(* The dialogue.                                                           *)

\* A draft of a kind is one of the kinds; "none" says that there is no draft.
Proper(d) == d \in Drafts /\ (d = NoDraft \/ d.kind \in Kinds)

\* Types, and what the service keeps whoever calls it.
DialogueIInv == ServiceIInv /\ DialogueTypeOK /\ Proper(draft) /\ Proper(file.draft)

\* A slot for a turn.
Call == [stage : Stages, text : Texts \cup {"chat"}, had : Ops \cup {NoOp},
         op : Ops \cup {NoOp}, aborted : BOOLEAN]

\* An empty slot is one.
LEMMA NoCallIs == NoCall \in Call
BY DEF NoCall, Call, Stages, Texts

\* No draft is one too.
LEMMA NoDraftIs == Proper(NoDraft)
BY DialogueAssumption DEF NoDraft, Proper, Drafts

\* What a new draft says.
LEMMA DraftIs ==
  ASSUME NEW k \in Kinds, NEW i \in 0..N
  PROVE  /\ Proper(Draft(k, i)) /\ Draft(k, i).kind = k /\ Draft(k, i).item = i
         /\ ~Draft(k, i).blocked /\ Draft(k, i).op = NoOp /\ Draft(k, i) # NoDraft
BY DEF Draft, NoDraft, Proper, Drafts, Kinds

\* A draft that is locked, or that names another operation, is still one.
LEMMA DraftKept ==
  ASSUME NEW d, Proper(d), d # NoDraft, NEW b \in BOOLEAN, NEW o \in Ops \cup {NoOp}
  PROVE  Proper([d EXCEPT !.blocked = b, !.op = o])
BY DEF NoDraft, Proper, Drafts, Kinds

\* What is put on file is a recovery state.
LEMMA KeptIs ==
  ASSUME NEW d, Proper(d), NEW b \in 0..N, NEW n \in 0..N
  PROVE  /\ Kept(d, b, n) \in [draft : Drafts, batch : 0..N, cancels : 0..N]
         /\ Proper(Kept(d, b, n).draft)
<1>1. CASE d = NoDraft
  <2>1. 0 \in 0..N BY DialogueAssumption
  <2>2. Kept(d, b, n) = NoFile BY <1>1 DEF Kept
  <2>3. NoFile \in [draft : Drafts, batch : 0..N, cancels : 0..N] BY <2>1, NoDraftIs DEF NoFile, Proper
  <2>4. Proper(NoFile.draft) BY NoDraftIs DEF NoFile
  <2> QED BY <2>2, <2>3, <2>4
<1>2. CASE d # NoDraft
  <2>1. Kept(d, b, n) = [draft |-> d, batch |-> b, cancels |-> n] BY <1>2 DEF Kept
  <2>2. d \in Drafts BY DEF Proper
  <2> QED BY <2>1, <2>2
<1> QED BY <1>1, <1>2

\* The event a draft is about exists, or is the one to be made.
LEMMA TargetIs ==
  ASSUME NEW d, Proper(d), NEW o \in Ops
  PROVE  TargetOf(d, o) \in Targets
<1>1. d.item \in 0..N BY DEF Proper, Drafts
<1>2. d.item > 0 => Listed[d.item] \in Events BY <1>1, DialogueAssumption
<1> QED BY <1>2, DialogueAssumption DEF TargetOf, Targets

\* How a turn may change the rows of the ledger.
Touches ==
  \/ op' = op
  \/ \E x \in Ops \cup {NoOp} : op' = Dismissed(x)
  \/ \E x \in Ops \cup {NoOp}, o \in Ops, k \in Kinds, e \in Targets :
       CanPreview(o, k, e) /\ op' = Previewing(Dismissed(x), o, k, e)
  \/ \E o \in Ops : \E r \in Findings(o) : op' = Reconciled(o, r)

\* Whatever a turn does to the rows, the service keeps its side.
LEMMA TouchesSafe ==
  ASSUME ServiceIInv, Touches, ServiceSame
  PROVE  ServiceIInv'
<1>1. UNCHANGED <<work, google, wire, edits, posts, effect>> BY DEF ServiceSame
<1> QED BY <1>1, IdleSafe, DismissalSafe, AskedSafe, ReconciledSafe DEF Touches

\* What a step must leave right of the conversation.
Talking ==
  /\ Proper(draft') /\ batch' \in 0..N /\ cancels' \in 0..N
  /\ approval' \in Ops \cup {NoOp} /\ last' \in Ops \cup {NoOp}
  /\ call' \in [Calls -> Call]
  /\ file' \in [draft : Drafts, batch : 0..N, cancels : 0..N] /\ Proper(file'.draft)
  /\ cold' \in BOOLEAN

\* The two halves of the invariant, put together.
LEMMA TalkingSafe ==
  ASSUME Talking, ServiceIInv' PROVE DialogueIInv'
BY DEF Talking, DialogueIInv, DialogueTypeOK, ServiceIInv, Proper, Call

\* The types of the conversation, for use where only they are needed.
LEMMA TalkIs ==
  ASSUME DialogueIInv
  PROVE  /\ Proper(draft) /\ batch \in 0..N /\ cancels \in 0..N
         /\ approval \in Ops \cup {NoOp} /\ last \in Ops \cup {NoOp}
         /\ call \in [Calls -> Call]
         /\ file \in [draft : Drafts, batch : 0..N, cancels : 0..N] /\ Proper(file.draft)
         /\ cold \in BOOLEAN /\ 0 \in 0..N /\ NoOp \in Ops \cup {NoOp}
BY DialogueAssumption DEF DialogueIInv, DialogueTypeOK, Call

\* A call that reaches another stage, or ends, is a call.
LEMMA CallMoves ==
  ASSUME call \in [Calls -> Call], NEW c \in Calls, NEW s \in Stages
  PROVE  [call EXCEPT ![c].stage = s] \in [Calls -> Call]
<1>1. call[c] \in Call OBVIOUS
<1>2. [call[c] EXCEPT !.stage = s] \in Call BY <1>1 DEF Call
<1>3. [call EXCEPT ![c].stage = s] = [call EXCEPT ![c] = [call[c] EXCEPT !.stage = s]] OBVIOUS
<1> QED BY <1>2, <1>3

\* Likewise when it takes up an operation.
LEMMA CallAsks ==
  ASSUME call \in [Calls -> Call], NEW c \in Calls, NEW s \in Stages, NEW o \in Ops \cup {NoOp}
  PROVE  [call EXCEPT ![c].stage = s, ![c].op = o] \in [Calls -> Call]
<1>1. call[c] \in Call OBVIOUS
<1>2. [call[c] EXCEPT !.stage = s, !.op = o] \in Call BY <1>1 DEF Call
<1>3. [call EXCEPT ![c].stage = s, ![c].op = o] = [call EXCEPT ![c] = [call[c] EXCEPT !.stage = s, !.op = o]]
  OBVIOUS
<1> QED BY <1>2, <1>3

\* A preview for a draft, dismissing what was to be confirmed before.
LEMMA AsksIs ==
  ASSUME DialogueIInv, NEW c \in Calls, NEW held \in Ops \cup {NoOp}, NEW d, Proper(d), d # NoDraft,
         NEW s \in Stages, Asks(c, Dismissed(held), d, s)
  PROVE  /\ Touches
         /\ call' \in [Calls -> Call]
         /\ \E o \in Ops : /\ call' = [call EXCEPT ![c].stage = s, ![c].op = o]
                           /\ item' = [item EXCEPT ![o] = <<d.kind, d.item>>]
<1>1. PICK o \in Ops : /\ CanPreview(o, d.kind, TargetOf(d, o))
                       /\ op' = Previewing(Dismissed(held), o, d.kind, TargetOf(d, o))
                       /\ item' = [item EXCEPT ![o] = <<d.kind, d.item>>]
                       /\ call' = [call EXCEPT ![c].stage = s, ![c].op = o]
  BY DEF Asks
<1>2. d.kind \in Kinds /\ TargetOf(d, o) \in Targets BY TargetIs DEF Proper
<1>3. Touches BY <1>1, <1>2 DEF Touches
<1>4. call' \in [Calls -> Call] BY <1>1, TalkIs, CallAsks
<1> QED BY <1>1, <1>3, <1>4

\* The file after persistDraft().
LEMMA PersistIs ==
  ASSUME Proper(draft'), batch' \in 0..N, cancels' \in 0..N, Persist
  PROVE  file' \in [draft : Drafts, batch : 0..N, cancels : 0..N] /\ Proper(file'.draft)
BY KeptIs DEF Persist

\* The slots after a call has ended.
LEMMA EndsIs ==
  ASSUME call \in [Calls -> Call], NEW c \in Calls, Ends(c)
  PROVE  call' \in [Calls -> Call]
BY NoCallIs DEF Ends

\* The answer of a failed turn: the draft forgets its operation.
LEMMA CaughtIs ==
  ASSUME DialogueIInv, NEW c \in Calls, Caught(c), UNCHANGED <<approval, cold>>
  PROVE  Talking
<1>1. Proper(draft')
  <2>1. CASE draft = NoDraft BY <2>1, NoDraftIs DEF Caught, NoDraft
  <2>2. CASE draft # NoDraft
    <3>1. draft.blocked \in BOOLEAN /\ draft = [draft EXCEPT !.blocked = draft.blocked] BY TalkIs DEF Proper, Drafts
    <3>2. draft' = [draft EXCEPT !.op = NoOp] BY DEF Caught
    <3>3. draft' = [draft EXCEPT !.blocked = draft.blocked, !.op = NoOp] BY <3>1, <3>2
    <3> QED BY <2>2, <3>1, <3>3, TalkIs, DraftKept
  <2> QED BY <2>1, <2>2
<1>2. file' \in [draft : Drafts, batch : 0..N, cancels : 0..N] /\ Proper(file'.draft)
  BY <1>1, TalkIs, KeptIs DEF Caught
<1>3. call' \in [Calls -> Call] BY TalkIs, EndsIs DEF Caught
<1>4. last' \in Ops \cup {NoOp} BY TalkIs DEF Caught, Shown
<1> QED BY <1>1, <1>2, <1>3, <1>4, TalkIs DEF Talking, Caught

\* The draft is locked, when there is one.
LEMMA LockIs ==
  ASSUME NEW d, Proper(d), d # NoDraft
  PROVE  Proper([d EXCEPT !.blocked = TRUE])
<1>1. d.op \in Ops \cup {NoOp} /\ d = [d EXCEPT !.op = d.op] BY DEF Proper, Drafts
<1>2. [d EXCEPT !.blocked = TRUE] = [d EXCEPT !.blocked = TRUE, !.op = d.op] BY DEF Proper, Drafts
<1> QED BY <1>1, <1>2, DraftKept

\* The turns that change nothing but what the conversation is about.
LEMMA PlanSafe ==
  ASSUME DialogueIInv, NEW c \in Calls, (\E t \in Texts : Say(c, t)) \/ Planned(c)
  PROVE  DialogueIInv'
<1>1. CASE \E t \in Texts : Say(c, t)
  <2>1. PICK t \in Texts : Say(c, t) BY <1>1
  <2>2. call' \in [Calls -> Call]
    <3>1. \A d \in Calls : [call[d] EXCEPT !.aborted = ~At(d, "idle")] \in Call BY TalkIs DEF Call
    <3>2. \A s \in {"reply", "planning"} : [NoCall EXCEPT !.text = t, !.had = approval, !.stage = s] \in Call
      BY TalkIs DEF NoCall, Call, Stages
    <3> QED BY <2>1, <3>1, <3>2, Zenon DEF Say
  <2>3. UNCHANGED <<service, draft, batch, cancels, last, file, cold>> /\ approval' = NoOp BY <2>1 DEF Say
  <2>4. Talking BY <2>2, <2>3, TalkIs DEF Talking
  <2>5. ServiceIInv' BY <2>3, IdleSafe DEF service, DialogueIInv
  <2> QED BY <2>4, <2>5, TalkingSafe
<1>2. CASE Planned(c)
  <2>1. call[c].had \in Ops \cup {NoOp} BY TalkIs DEF Call
  <2>2. op' = Dismissed(call[c].had) /\ UNCHANGED <<work, google, wire, edits, posts, effect>>
        /\ UNCHANGED <<draft, batch, cancels, approval, file, cold>>
    BY <1>2 DEF Planned, ServiceSame
  <2>3. call' \in [Calls -> Call]
    <3>1. "reply" \in Stages BY DEF Stages
    <3>2. CASE call' = [call EXCEPT ![c].stage = "reply"] BY <3>1, <3>2, TalkIs, CallMoves
    <3>3. CASE Ends(c) BY <3>3, TalkIs, EndsIs
    <3> QED BY <1>2, <3>2, <3>3 DEF Planned
  <2>4. last' \in Ops \cup {NoOp} BY <1>2, TalkIs DEF Planned, Shown
  <2>5. Talking BY <2>2, <2>3, <2>4, TalkIs DEF Talking
  <2>6. ServiceIInv' BY <2>1, <2>2, DismissalSafe DEF DialogueIInv
  <2> QED BY <2>5, <2>6, TalkingSafe
<1> QED BY <1>1, <1>2

\* The turns that only answer, or pass on to the next stage.
LEMMA AnswerSafe ==
  ASSUME DialogueIInv,
         NEW c \in Calls, ReplyAborted(c) \/ JustAnswer(c) \/ AskAgain(c) \/ AskPlanner(c) \/ PlannerAnswers(c)
                          \/ PlannerFails(c) \/ SelectMany(c) \/ CancelledNext(c)
  PROVE  DialogueIInv'
<1>1. UNCHANGED service
  BY DEF ReplyAborted, JustAnswer, AskAgain, AskPlanner, PlannerAnswers, PlannerFails, SelectMany, CancelledNext
<1>2. ServiceIInv' BY <1>1, IdleSafe DEF service, DialogueIInv
<1>3. call[c].had \in Ops \cup {NoOp} BY TalkIs DEF Call
<1>4. {"planner", "binding"} \subseteq Stages BY DEF Stages
<1>5. CASE ReplyAborted(c)
  <2>1. call' \in [Calls -> Call] BY <1>5, TalkIs, EndsIs DEF ReplyAborted
  <2> QED BY <1>2, <1>5, <2>1, TalkIs, TalkingSafe DEF Talking, ReplyAborted
<1>6. CASE JustAnswer(c)
  <2>1. call' \in [Calls -> Call] BY <1>6, TalkIs, EndsIs DEF JustAnswer
  <2> QED BY <1>2, <1>6, <2>1, TalkIs, TalkingSafe DEF Talking, JustAnswer
<1>7. CASE AskAgain(c)
  <2>1. call' \in [Calls -> Call] BY <1>7, TalkIs, EndsIs DEF AskAgain
  <2> QED BY <1>2, <1>3, <1>7, <2>1, TalkIs, TalkingSafe DEF Talking, AskAgain
<1>8. CASE AskPlanner(c)
  <2>1. call' \in [Calls -> Call] BY <1>4, <1>8, TalkIs, CallMoves DEF AskPlanner
  <2> QED BY <1>2, <1>8, <2>1, TalkIs, TalkingSafe DEF Talking, AskPlanner
<1>9. CASE PlannerAnswers(c)
  <2>1. call' \in [Calls -> Call] BY <1>9, TalkIs, EndsIs DEF PlannerAnswers
  <2> QED BY <1>2, <1>9, <2>1, TalkIs, TalkingSafe DEF Talking, PlannerAnswers
<1>10. CASE PlannerFails(c) BY <1>2, <1>10, CaughtIs, TalkingSafe DEF PlannerFails
<1>11. CASE SelectMany(c)
  <2>1. call' \in [Calls -> Call] BY <1>4, <1>11, TalkIs, CallMoves DEF SelectMany
  <2>2. cancels' \in 0..N BY <1>11, TalkIs, DialogueAssumption DEF SelectMany
  <2> QED BY <1>2, <1>11, <2>1, <2>2, TalkIs, TalkingSafe DEF Talking, SelectMany
<1>12. CASE CancelledNext(c)
  <2>1. call' \in [Calls -> Call] BY <1>4, <1>12, TalkIs, CallMoves DEF CancelledNext
  <2>2. cancels' \in 0..N BY <1>12, TalkIs, DialogueAssumption DEF CancelledNext
  <2> QED BY <1>2, <1>12, <2>1, <2>2, NoDraftIs, TalkIs, TalkingSafe DEF Talking, CancelledNext
<1> QED BY <1>5, <1>6, <1>7, <1>8, <1>9, <1>10, <1>11, <1>12

\* The turns, and the events beside them, that dismiss what was to be confirmed.
LEMMA DiscardSafe ==
  ASSUME DialogueIInv,
         (\E c \in Calls : Discard(c) \/ RefreshRefused(c)) \/ Invalidate \/ AnsweredElsewhere
  PROVE  DialogueIInv'
<1>1. ASSUME NEW c \in Calls, Discard(c) PROVE DialogueIInv'
  <2>1. ServiceIInv' BY <1>1, TalkIs, DismissalSafe DEF Discard, ServiceSame, DialogueIInv
  <2>2. Proper(draft') /\ batch' \in 0..N /\ cancels' \in 0..N BY <1>1, TalkIs, NoDraftIs DEF Discard
  <2>3. call' \in [Calls -> Call] BY <1>1, TalkIs, EndsIs DEF Discard
  <2>4. file' \in [draft : Drafts, batch : 0..N, cancels : 0..N] /\ Proper(file'.draft)
    BY <1>1, <2>2, PersistIs DEF Discard
  <2> QED BY <1>1, <2>1, <2>2, <2>3, <2>4, TalkIs, TalkingSafe DEF Talking, Discard
<1>2. ASSUME NEW c \in Calls, RefreshRefused(c) PROVE DialogueIInv'
  <2>1. call[c].had \in Ops \cup {NoOp} BY TalkIs DEF Call
  <2>2. ServiceIInv' BY <1>2, <2>1, DismissalSafe DEF RefreshRefused, ServiceSame, DialogueIInv
  <2>3. call' \in [Calls -> Call] BY <1>2, TalkIs, EndsIs DEF RefreshRefused
  <2> QED BY <1>2, <2>2, <2>3, TalkIs, TalkingSafe DEF Talking, RefreshRefused
<1>3. CASE Invalidate
  <2>1. ServiceIInv' BY <1>3, TalkIs, DismissalSafe DEF Invalidate, ServiceSame, DialogueIInv
  <2>2. Proper(draft') /\ batch' \in 0..N /\ cancels' \in 0..N BY <1>3, TalkIs DEF Invalidate
  <2>3. file' \in [draft : Drafts, batch : 0..N, cancels : 0..N] /\ Proper(file'.draft)
    BY <1>3, <2>2, PersistIs DEF Invalidate
  <2> QED BY <1>3, <2>1, <2>2, <2>3, TalkIs, TalkingSafe DEF Talking, Invalidate
<1>4. CASE AnsweredElsewhere
  <2>1. ServiceIInv' BY <1>4, IdleSafe DEF AnsweredElsewhere, service, DialogueIInv
  <2> QED BY <1>4, <2>1, TalkIs, TalkingSafe DEF Talking, AnsweredElsewhere, memory
<1> QED BY <1>1, <1>2, <1>3, <1>4

\* A confirmed write begins.
LEMMA SaveSafe ==
  ASSUME DialogueIInv, NEW c \in Calls, Save(c)
  PROVE  DialogueIInv'
<1>1. call[c].had \in Ops BY TalkIs DEF Call, Save, Valid
<1>2. ServiceIInv' BY <1>1, ConfirmedSafe DEF Save, DialogueIInv
<1>3. call' \in [Calls -> Call]
  <2>1. "saving" \in Stages BY DEF Stages
  <2> QED BY <1>1, <2>1, TalkIs, CallAsks DEF Save
<1> QED BY <1>2, <1>3, TalkIs, TalkingSafe DEF Talking, Save

\* A preview is asked for: for the draft there is, for a new one, or for the
\* next item of a batch.
LEMMA AskingSafe ==
  ASSUME DialogueIInv, NEW c \in Calls, Refresh(c) \/ NewDraft(c) \/ Bound(c) \/ SavedNext(c)
  PROVE  DialogueIInv'
<1>0. call[c].had \in Ops \cup {NoOp} /\ Dismissed(NoOp) = op /\ {"refresh", "next", "preview"} \subseteq Stages
  BY TalkIs DEF Call, Dismissed, Stages
<1>1. CASE Refresh(c)
  <2>1. draft # NoDraft /\ Asks(c, Dismissed(call[c].had), draft, "refresh") BY <1>1 DEF Refresh
  <2>2. Touches BY <1>0, <2>1, TalkIs, AsksIs
  <2>3. call' \in [Calls -> Call] BY <1>0, <2>1, TalkIs, AsksIs
  <2>4. ServiceIInv' BY <1>1, <2>2, TouchesSafe DEF Refresh, DialogueIInv
  <2> QED BY <1>1, <2>3, <2>4, TalkIs, TalkingSafe DEF Talking, Refresh
<1>2. CASE NewDraft(c)
  <2> DEFINE t == call[c].text
  <2>1. /\ t \in Wishes \ {"cancelMany", "cancelRest"} /\ draft' = DraftFor(t) /\ batch' = BatchFor(t)
        /\ UNCHANGED <<cancels, approval, cold>> /\ Persist /\ ServiceSame
        /\ \/ Asks(c, op, DraftFor(t), "preview") /\ UNCHANGED last
           \/ Ends(c) /\ last' = NoOp /\ UNCHANGED op
    BY <1>2 DEF NewDraft
  <2>2. t \in {"itinerary", "new", "edit", "cancelOne"} BY <2>1, DialogueAssumption
  <2>3. Proper(DraftFor(t)) /\ DraftFor(t) # NoDraft
    <3>1. 1 \in 0..N /\ 0 \in 0..N BY DialogueAssumption
    <3> QED BY <2>2, <3>1, DraftIs DEF DraftFor, Kinds
  <2>4. batch' \in 0..N BY <2>1, TalkIs, DialogueAssumption DEF BatchFor
  <2>5. Touches /\ call' \in [Calls -> Call] /\ last' \in Ops \cup {NoOp}
    <3>1. CASE Asks(c, op, DraftFor(t), "preview") /\ UNCHANGED last
      <4>1. Asks(c, Dismissed(NoOp), DraftFor(t), "preview") BY <1>0, <3>1
      <4>2. Touches /\ call' \in [Calls -> Call] BY <1>0, <2>3, <4>1, TalkIs, AsksIs
      <4> QED BY <3>1, <4>2, TalkIs
    <3>2. CASE Ends(c) /\ last' = NoOp /\ UNCHANGED op BY <3>2, TalkIs, EndsIs DEF Touches
    <3> QED BY <2>1, <3>1, <3>2
  <2>6. file' \in [draft : Drafts, batch : 0..N, cancels : 0..N] /\ Proper(file'.draft)
    BY <2>1, <2>3, <2>4, TalkIs, PersistIs
  <2>7. ServiceIInv' BY <2>1, <2>5, TouchesSafe DEF DialogueIInv
  <2> QED BY <2>1, <2>3, <2>4, <2>5, <2>6, <2>7, TalkIs, TalkingSafe DEF Talking
<1>3. CASE Bound(c)
  <2>1. PICK s \in Stages : Asks(c, op, Draft("cancel", cancels), s) BY <1>0, <1>3 DEF Bound
  <2>2. /\ draft' = Draft("cancel", cancels) /\ UNCHANGED <<batch, cancels, approval, last, cold>>
        /\ Persist /\ ServiceSame
    BY <1>3 DEF Bound
  <2>3. Proper(draft') /\ Draft("cancel", cancels) # NoDraft BY <2>2, TalkIs, DraftIs DEF Kinds
  <2>4. Touches /\ call' \in [Calls -> Call]
    <3>1. Asks(c, Dismissed(NoOp), Draft("cancel", cancels), s) BY <1>0, <2>1
    <3> QED BY <2>2, <2>3, <3>1, TalkIs, AsksIs
  <2>6. file' \in [draft : Drafts, batch : 0..N, cancels : 0..N] /\ Proper(file'.draft)
    BY <2>2, <2>3, TalkIs, PersistIs
  <2>7. ServiceIInv' BY <2>2, <2>4, TouchesSafe DEF DialogueIInv
  <2> QED BY <2>2, <2>3, <2>4, <2>6, <2>7, TalkIs, TalkingSafe DEF Talking
<1>4. CASE SavedNext(c)
  <2>1. /\ batch' = batch + 1 /\ batch < N /\ draft' = Draft("create", batch + 1)
        /\ UNCHANGED <<cancels, approval, last, cold>> /\ Persist /\ ServiceSame
        /\ Asks(c, op, Draft("create", batch + 1), "next")
    BY <1>4 DEF SavedNext
  <2>2. batch + 1 \in 0..N BY <2>1, TalkIs, DialogueAssumption
  <2>3. Proper(draft') /\ Draft("create", batch + 1) # NoDraft BY <2>1, <2>2, DraftIs DEF Kinds
  <2>4. Touches /\ call' \in [Calls -> Call]
    <3>1. Asks(c, Dismissed(NoOp), Draft("create", batch + 1), "next") BY <1>0, <2>1
    <3> QED BY <1>0, <2>1, <2>3, <3>1, TalkIs, AsksIs
  <2>6. file' \in [draft : Drafts, batch : 0..N, cancels : 0..N] /\ Proper(file'.draft)
    BY <2>1, <2>2, <2>3, TalkIs, PersistIs
  <2>7. ServiceIInv' BY <2>1, <2>4, TouchesSafe DEF DialogueIInv
  <2> QED BY <2>1, <2>2, <2>3, <2>4, <2>6, <2>7, TalkIs, TalkingSafe DEF Talking
<1> QED BY <1>1, <1>2, <1>3, <1>4

\* The answer that a step of an item's preview gives: the draft, its batch and
\* the file, as the step leaves them.
LEMMA FiledIs ==
  ASSUME DialogueIInv, NEW c \in Calls, Proper(draft'), batch' \in 0..N, cancels' \in 0..N,
         Persist \/ UNCHANGED file, Ends(c), last' \in Ops \cup {NoOp}, approval' \in Ops \cup {NoOp}, UNCHANGED cold
  PROVE  Talking
<1>1. file' \in [draft : Drafts, batch : 0..N, cancels : 0..N] /\ Proper(file'.draft) BY TalkIs, PersistIs
<1>2. call' \in [Calls -> Call] BY TalkIs, EndsIs
<1> QED BY <1>1, <1>2, TalkIs DEF Talking

\* A turn that failed after a saved item leaves its draft locked.
LEMMA LockedIs ==
  ASSUME Proper(draft), draft' = (IF draft = NoDraft THEN draft ELSE [draft EXCEPT !.blocked = TRUE])
  PROVE  Proper(draft')
BY LockIs

\* The preview of the draft comes back, or does not.
LEMMA PreviewSafe ==
  ASSUME DialogueIInv,
         NEW c \in Calls, BindFails(c) \/ PreviewShown(c) \/ PreviewAborted(c) \/ PreviewLost(c)
  PROVE  DialogueIInv'
<1>0. call[c].op \in Ops \cup {NoOp} BY TalkIs DEF Call
<1>1. CASE BindFails(c)
  <2>1. Talking
    <3>1. CASE call[c].text = "confirm"
      <4>1. draft' = (IF call[c].aborted /\ draft # NoDraft THEN [draft EXCEPT !.blocked = TRUE] ELSE draft)
        BY <1>1, <3>1 DEF BindFails
      <4>2. Proper(draft') BY <4>1, TalkIs, LockIs
      <4>3. last' \in Ops \cup {NoOp} BY <1>1, <3>1, TalkIs DEF BindFails, Shown
      <4> QED BY <1>1, <3>1, <4>2, <4>3, TalkIs, FiledIs DEF BindFails
    <3>2. CASE call[c].text # "confirm" BY <1>1, <3>2, CaughtIs DEF BindFails
    <3> QED BY <3>1, <3>2
  <2>2. ServiceIInv' BY <1>1, IdleSafe DEF BindFails, service, DialogueIInv
  <2> QED BY <2>1, <2>2, TalkingSafe
<1>2. CASE PreviewShown(c)
  <2>1. /\ draft # NoDraft /\ Persist /\ Ends(c) /\ UNCHANGED <<batch, cancels, cold, service>>
        /\ draft' = [draft EXCEPT !.op = call[c].op, !.blocked = draft.blocked /\ ~At(c, "refresh")]
        /\ approval' = call[c].op /\ last' = call[c].op
    BY <1>2 DEF PreviewShown
  <2>2. PICK b \in BOOLEAN : b = (draft.blocked /\ ~At(c, "refresh")) OBVIOUS
  <2>3. draft' = [draft EXCEPT !.blocked = b, !.op = call[c].op] BY <2>1, <2>2
  <2>4. Proper(draft')
    <3>1. Proper([draft EXCEPT !.blocked = b, !.op = call[c].op]) BY <1>0, <2>1, TalkIs, DraftKept
    <3> QED BY <2>3, <3>1
  <2>5. Talking BY <1>0, <2>1, <2>4, TalkIs, FiledIs
  <2>6. ServiceIInv' BY <2>1, IdleSafe DEF service, DialogueIInv
  <2> QED BY <2>5, <2>6, TalkingSafe
<1>3. CASE PreviewAborted(c)
  <2>1. UNCHANGED <<approval, cold>> /\ ServiceSame BY <1>3 DEF PreviewAborted
  <2>2. op' = op \/ op' = Dismissed(call[c].op) BY <1>3 DEF PreviewAborted
  <2>3. ServiceIInv' BY <1>0, <2>1, <2>2, TouchesSafe DEF Touches, DialogueIInv
  <2>4. Talking
    <3>1. CASE At(c, "next")
      <4>1. /\ draft' = (IF draft = NoDraft THEN draft ELSE [draft EXCEPT !.blocked = TRUE])
            /\ UNCHANGED <<batch, cancels>> /\ Persist /\ Ends(c) /\ Shown(c, NoOp)
        BY <1>3, <3>1 DEF PreviewAborted
      <4>2. Proper(draft') /\ last' \in Ops \cup {NoOp} BY <4>1, TalkIs, LockedIs DEF Shown
      <4> QED BY <2>1, <4>1, <4>2, TalkIs, FiledIs
    <3>2. CASE ~At(c, "next") /\ At(c, "refresh")
      <4>1. Ends(c) /\ Shown(c, NoOp) /\ UNCHANGED <<draft, batch, cancels, file>> BY <1>3, <3>2 DEF PreviewAborted
      <4>2. Proper(draft') /\ last' \in Ops \cup {NoOp} BY <4>1, TalkIs DEF Shown
      <4> QED BY <2>1, <4>1, <4>2, TalkIs, FiledIs
    <3>3. CASE ~At(c, "next") /\ ~At(c, "refresh") BY <1>3, <2>1, <3>3, CaughtIs DEF PreviewAborted
    <3> QED BY <3>1, <3>2, <3>3
  <2> QED BY <2>3, <2>4, TalkingSafe
<1>4. CASE PreviewLost(c)
  <2>1. UNCHANGED <<approval, cold, service>> BY <1>4 DEF PreviewLost
  <2>2. ServiceIInv' BY <2>1, IdleSafe DEF service, DialogueIInv
  <2>3. Talking
    <3>1. CASE At(c, "next") /\ call[c].aborted
      <4>1. /\ draft' = (IF draft = NoDraft THEN draft ELSE [draft EXCEPT !.blocked = TRUE])
            /\ UNCHANGED <<batch, cancels>> /\ Persist /\ Ends(c) /\ Shown(c, NoOp)
        BY <1>4, <3>1 DEF PreviewLost
      <4>2. Proper(draft') /\ last' \in Ops \cup {NoOp} BY <4>1, TalkIs, LockedIs DEF Shown
      <4> QED BY <2>1, <4>1, <4>2, TalkIs, FiledIs
    <3>2. CASE ~(At(c, "next") /\ call[c].aborted) /\ At(c, "preview") BY <1>4, <2>1, <3>2, CaughtIs DEF PreviewLost
    <3>3. CASE ~(At(c, "next") /\ call[c].aborted) /\ ~At(c, "preview")
      <4>1. Ends(c) /\ Shown(c, NoOp) /\ UNCHANGED <<draft, batch, cancels, file>> BY <1>4, <3>3 DEF PreviewLost
      <4>2. Proper(draft') /\ last' \in Ops \cup {NoOp} BY <4>1, TalkIs DEF Shown
      <4> QED BY <2>1, <4>1, <4>2, TalkIs, FiledIs
    <3> QED BY <3>1, <3>2, <3>3
  <2> QED BY <2>2, <2>3, TalkingSafe
<1> QED BY <1>1, <1>2, <1>3, <1>4

\* The write is over: the draft is done with, or stays, locked when nobody knows.
LEMMA ResultSafe ==
  ASSUME DialogueIInv, NEW c \in Calls, SavedLast(c) \/ NotSaved(c)
  PROVE  DialogueIInv'
<1>1. UNCHANGED <<approval, cold, service>> /\ Persist /\ Ends(c) /\ Shown(c, NoOp) BY DEF SavedLast, NotSaved
<1>2. ServiceIInv' BY <1>1, IdleSafe DEF service, DialogueIInv
<1>3. last' \in Ops \cup {NoOp} BY <1>1, TalkIs DEF Shown
<1>4. Proper(draft') /\ batch' \in 0..N /\ cancels' \in 0..N
  <2>1. CASE SavedLast(c) BY <2>1, TalkIs, NoDraftIs DEF SavedLast
  <2>2. CASE NotSaved(c) BY <2>2, TalkIs, LockIs DEF NotSaved
  <2> QED BY <2>1, <2>2
<1>5. Talking BY <1>1, <1>3, <1>4, TalkIs, FiledIs
<1> QED BY <1>2, <1>5, TalkingSafe

\* A new process, and the conversation as it takes it up.
LEMMA NewProcessSafe ==
  ASSUME DialogueIInv, DialogueRestart
  PROVE  DialogueIInv'
<1>1. ServiceIInv' BY RestartSafe DEF DialogueRestart, DialogueIInv
<1>2. call' \in [Calls -> Call] BY NoCallIs DEF DialogueRestart
<1>3. Talking BY <1>2, TalkIs, NoDraftIs DEF DialogueRestart, Talking
<1> QED BY <1>1, <1>3, TalkingSafe

\* What a new process takes from a file that can be read is a draft and a place in a batch.
LEMMA ResumedIs ==
  ASSUME DialogueIInv, Readable(file), NEW r, NEW found \in BOOLEAN
  PROVE  Proper(Resumed(r, found).d) /\ Resumed(r, found).b \in 0..N /\ Resumed(r, found).n \in 0..N
<1> DEFINE d == file.draft
<1> DEFINE same == [d |-> d, b |-> file.batch, n |-> file.cancels]
<1>1. Proper(d) /\ d # NoDraft /\ file.batch \in 0..N /\ file.cancels \in 0..N /\ 0 \in 0..N
  BY TalkIs DEF Readable
<1>2. Proper([d EXCEPT !.blocked = TRUE]) BY <1>1, LockIs
<1>3. Proper([d EXCEPT !.blocked = FALSE, !.op = NoOp]) BY <1>1, DraftKept
<1>4. file.batch < N => file.batch + 1 \in 0..N /\ Proper(Draft("create", file.batch + 1))
  <2>1. file.batch < N => file.batch + 1 \in 0..N BY <1>1, DialogueAssumption
  <2> QED BY <2>1, DraftIs DEF Kinds
<1>5. file.cancels < N => file.cancels + 1 \in 0..N /\ Proper(Draft("cancel", file.cancels + 1))
  <2>1. file.cancels < N => file.cancels + 1 \in 0..N BY <1>1, DialogueAssumption
  <2> QED BY <2>1, DraftIs DEF Kinds
<1>6. \/ Resumed(r, found) = same
      \/ file.batch < N /\ Resumed(r, found) = [same EXCEPT !.b = file.batch + 1, !.d = Draft("create", file.batch + 1)]
      \/ file.cancels < N /\ Resumed(r, found) = [same EXCEPT !.n = file.cancels + 1, !.d = Draft("cancel", file.cancels + 1)]
      \/ Resumed(r, found) = [d |-> NoDraft, b |-> 0, n |-> 0]
      \/ Resumed(r, found) = [same EXCEPT !.d.blocked = TRUE]
      \/ Resumed(r, found) = [same EXCEPT !.d.blocked = FALSE, !.d.op = NoOp]
  BY DEF Resumed
<1>7. \A x : LET y == [same EXCEPT !.d = x] IN y.d = x /\ y.b = file.batch /\ y.n = file.cancels OBVIOUS
<1>8. /\ [same EXCEPT !.d.blocked = TRUE] = [same EXCEPT !.d = [d EXCEPT !.blocked = TRUE]]
      /\ [same EXCEPT !.d.blocked = FALSE, !.d.op = NoOp]
           = [same EXCEPT !.d = [d EXCEPT !.blocked = FALSE, !.op = NoOp]]
  OBVIOUS
<1>9. CASE Resumed(r, found) = same BY <1>1, <1>9
<1>10. CASE file.batch < N /\ Resumed(r, found) = [same EXCEPT !.b = file.batch + 1, !.d = Draft("create", file.batch + 1)]
  BY <1>1, <1>4, <1>10
<1>11. CASE file.cancels < N /\ Resumed(r, found) = [same EXCEPT !.n = file.cancels + 1, !.d = Draft("cancel", file.cancels + 1)]
  BY <1>1, <1>5, <1>11
<1>12. CASE Resumed(r, found) = [d |-> NoDraft, b |-> 0, n |-> 0] BY <1>1, <1>12, NoDraftIs
<1>13. CASE Resumed(r, found) = [same EXCEPT !.d.blocked = TRUE] BY <1>1, <1>2, <1>7, <1>8, <1>13
<1>14. CASE Resumed(r, found) = [same EXCEPT !.d.blocked = FALSE, !.d.op = NoOp] BY <1>1, <1>3, <1>7, <1>8, <1>14
<1> QED BY <1>6, <1>9, <1>10, <1>11, <1>12, <1>13, <1>14

\* restoreRecovery() leaves the rows and the conversation right.
LEMMA RestoreSafe ==
  ASSUME DialogueIInv, Restore
  PROVE  DialogueIInv'
<1>1. cold' = FALSE /\ Persist /\ ServiceSame /\ UNCHANGED <<approval, call, last>> BY DEF Restore
<1>2. Touches /\ Proper(draft') /\ batch' \in 0..N /\ cancels' \in 0..N
  <2>1. CASE ~Readable(file)
    <3>1. draft' = NoDraft /\ batch' = 0 /\ cancels' = 0 /\ op' = op BY <2>1 DEF Restore
    <3> QED BY <3>1, TalkIs, NoDraftIs DEF Touches
  <2>2. CASE Readable(file)
    <3> DEFINE o == file.draft.op
    <3>1. PICK r \in IF o = NoOp THEN {"none"} ELSE Findings(o), found \in BOOLEAN :
            /\ op' = IF o = NoOp THEN op ELSE Reconciled(o, r)
            /\ draft' = Resumed(r, found).d
            /\ batch' = Resumed(r, found).b /\ cancels' = Resumed(r, found).n
      BY <2>2 DEF Restore
    <3>2. o \in Ops \cup {NoOp} BY TalkIs DEF Proper, Drafts
    <3>3. Touches BY <3>1, <3>2 DEF Touches
    <3> QED BY <2>2, <3>1, <3>3, ResumedIs
  <2> QED BY <2>1, <2>2
<1>3. file' \in [draft : Drafts, batch : 0..N, cancels : 0..N] /\ Proper(file'.draft) BY <1>1, <1>2, PersistIs
<1>4. Talking BY <1>1, <1>2, <1>3, TalkIs DEF Talking
<1>5. ServiceIInv' BY <1>1, <1>2, TouchesSafe DEF DialogueIInv
<1> QED BY <1>4, <1>5, TalkingSafe

\* The conversation is new, its file empty.
LEMMA DialogueBegins == DialogueInit => DialogueIInv
<1> SUFFICES ASSUME DialogueInit PROVE DialogueIInv OBVIOUS
<1>1. ServiceIInv BY ServiceBegins DEF DialogueInit
<1>2. 0 \in 0..N BY DialogueAssumption
<1>3. call \in [Calls -> Call] BY NoCallIs DEF DialogueInit
<1>4. NoFile \in [draft : Drafts, batch : 0..N, cancels : 0..N] /\ Proper(NoFile.draft)
  BY <1>2, NoDraftIs DEF NoFile, Proper
<1>5. Proper(draft) /\ draft \in Drafts BY NoDraftIs DEF DialogueInit, Proper
<1> QED BY <1>1, <1>2, <1>3, <1>4, <1>5 DEF DialogueInit, DialogueIInv, DialogueTypeOK, ServiceIInv, Call

\* Every step of a turn, the service and the process keeps the invariant.
LEMMA DialogueStep == DialogueIInv /\ [DialogueNext]_dialogueVars => DialogueIInv'
<1> SUFFICES ASSUME DialogueIInv, [DialogueNext]_dialogueVars PROVE DialogueIInv' OBVIOUS
<1>1. CASE (ServiceStep /\ UNCHANGED <<memory, last, file, cold, ghosts>>) \/ UNCHANGED dialogueVars
  <2>1. ServiceIInv'
    <3>1. CASE ServiceStep BY <3>1, ServiceStepSafe DEF DialogueIInv
    <3>2. CASE UNCHANGED dialogueVars BY <3>2, IdleSafe DEF dialogueVars, service, DialogueIInv
    <3> QED BY <1>1, <3>1, <3>2
  <2>2. Talking BY <1>1, TalkIs DEF Talking, memory, dialogueVars
  <2> QED BY <2>1, <2>2, TalkingSafe
<1>2. ASSUME NEW c \in Calls, Turn(c) PROVE DialogueIInv'
  BY <1>2, PlanSafe, AnswerSafe, DiscardSafe, SaveSafe, AskingSafe, PreviewSafe, ResultSafe DEF Turn
<1>3. CASE AnsweredElsewhere \/ Invalidate BY <1>3, DiscardSafe
<1>4. CASE DialogueRestart BY <1>4, NewProcessSafe
<1>5. CASE Restore BY <1>5, RestoreSafe
<1> QED BY <1>1, <1>2, <1>3, <1>4, <1>5 DEF DialogueNext

\* The service keeps its side and the conversation its types, over every turn,
\* interruption and restart.
THEOREM DialogueInductive == DialogueSpec => []DialogueIInv
BY DialogueBegins, DialogueStep, PTL DEF DialogueSpec

\* Whatever is said, corrected, interrupted and restored, no operation is sent
\* twice, and what the ledger calls succeeded did happen.
THEOREM SpokenWritesOnce ==
  DialogueSpec => []((\A o \in Ops : posts[o] <= 1) /\ SucceededIsTrue)
<1>1. DialogueIInv => (\A o \in Ops : posts[o] <= 1) /\ SucceededIsTrue
  <2> SUFFICES ASSUME DialogueIInv PROVE (\A o \in Ops : posts[o] <= 1) /\ SucceededIsTrue OBVIOUS
  <2>1. \A o \in Ops : posts[o] <= 1 BY DEF DialogueIInv, ServiceIInv, Requests
  <2> QED BY <2>1 DEF DialogueIInv, ServiceIInv
<1> QED BY <1>1, DialogueInductive, PTL

\* A write starts only in Save, and what it writes is what the message right
\* before it showed.
THEOREM ConfirmsWhatIsShownAlways == DialogueSpec => ConfirmsWhatIsShown
<1>1. [DialogueNext]_dialogueVars
        => (work' # work /\ work' # NoOp /\ (\E c \in Calls : call'[c].op = work') => last = work')
  <2> SUFFICES ASSUME [DialogueNext]_dialogueVars, work' # work, work' # NoOp
               PROVE  last = work'
    OBVIOUS
  <2>1. CASE (ServiceStep /\ UNCHANGED <<memory, last, file, cold, ghosts>>) \/ UNCHANGED dialogueVars
    BY <2>1 DEF dialogueVars, service, ServiceStep, PreviewRead, PreviewSaved, PreviewFails, GrowsLate, Write,
                WriteRefused, RecheckFails, GoogleApplies, GoogleRefuses, Answer, NoAnswer, OutsideEdit, Settled
  <2>2. ASSUME NEW c \in Calls, Turn(c) PROVE last = work'
    <3>1. CASE Save(c) BY <3>1 DEF Save, Valid, Confirm
    <3>2. CASE \/ \E t \in Texts : Say(c, t)
               \/ Planned(c) \/ ReplyAborted(c) \/ JustAnswer(c) \/ Discard(c) \/ AskAgain(c)
      BY <3>2 DEF Say, Planned, ReplyAborted, JustAnswer, Discard, AskAgain, service, ServiceSame
    <3>3. CASE Refresh(c) \/ RefreshRefused(c) \/ AskPlanner(c) \/ PlannerFails(c) \/ PlannerAnswers(c)
      BY <3>3 DEF Refresh, RefreshRefused, AskPlanner, PlannerFails, PlannerAnswers, service, ServiceSame
    <3>4. CASE NewDraft(c) \/ SelectMany(c) \/ Bound(c) \/ BindFails(c)
      BY <3>4 DEF NewDraft, SelectMany, Bound, BindFails, service, ServiceSame
    <3>5. CASE PreviewShown(c) \/ PreviewAborted(c) \/ PreviewLost(c)
      BY <3>5 DEF PreviewShown, PreviewAborted, PreviewLost, service, ServiceSame
    <3>6. CASE SavedNext(c) \/ CancelledNext(c) \/ SavedLast(c) \/ NotSaved(c)
      BY <3>6 DEF SavedNext, CancelledNext, SavedLast, NotSaved, service, ServiceSame
    <3> QED BY <2>2, <3>1, <3>2, <3>3, <3>4, <3>5, <3>6 DEF Turn
  <2>3. CASE AnsweredElsewhere \/ Invalidate \/ DialogueRestart \/ Restore
    BY <2>3 DEF AnsweredElsewhere, Invalidate, DialogueRestart, Restore, service, ServiceSame, ServiceRestart
  <2> QED BY <2>1, <2>2, <2>3 DEF DialogueNext
<1> QED BY <1>1, PTL DEF DialogueSpec, ConfirmsWhatIsShown
-----------------------------------------------------------------------------
(* The batches, when nobody speaks over a turn.                            *)

\* One turn at a time, and a new process begins with none.
OneTurn ==
  /\ interrupts = 0 /\ \A c \in Calls : ~call[c].aborted
  /\ \A c, d \in Calls : c # d => At(c, "idle") \/ At(d, "idle")
  /\ approval # NoOp => \A c \in Calls : At(c, "idle")
  /\ cold => /\ draft = NoDraft /\ approval = NoOp /\ work = NoOp
             /\ \A c \in Calls : At(c, "idle")

\* An operation that was asked for is for the batch item it says, of the same kind.
Ledger ==
  /\ item \in [Ops -> (Kinds \cup {"none"}) \X (0..N)]
  /\ \A o \in Ops : IF op[o].state = "free" THEN ~effect[o] /\ item[o] = <<"none", 0>>
                                            ELSE item[o][1] = op[o].kind

\* The operation was asked for this draft.
Of(o, d) == o \in Ops /\ item[o] = <<d.kind, d.item>>

\* The operation that waits for a confirmation, or is under way, is the draft's.
Unlocked(o) == draft # NoDraft /\ ~draft.blocked /\ draft.op = o

\* What a call has in hand is still the draft's, unlocked.
Follows(c) ==
  /\ (At(c, "planning") \/ At(c, "reply")) /\ call[c].had # NoOp => Unlocked(call[c].had)
  /\ At(c, "preview") \/ At(c, "refresh") \/ At(c, "next") =>
       draft # NoDraft /\ ~draft.blocked /\ Of(call[c].op, draft)
  /\ At(c, "saving") => call[c].op # NoOp /\ Unlocked(call[c].op)
\* So has every call, and the approval.
Following ==
  /\ \A c \in Calls : Follows(c)
  /\ approval # NoOp => Unlocked(approval)

\* A draft says which operation it was previewed as, and its place in its batch.
Placed(d, b, n) ==
  /\ d.op # NoOp => Of(d.op, d)
  /\ d.kind = "create" => d.item = b
  /\ d.kind = "cancel" => d.item = n
\* Draft and file know their place in the batch that was asked for.
Places ==
  /\ Placed(draft, batch, cancels) /\ Placed(file.draft, file.batch, file.cancels)
  /\ cancels > 0 \/ draft.kind = "cancel" \/ file.cancels > 0 \/ file.draft.kind = "cancel"
       => "cancelMany" \in asked

\* The file has the draft, but for the item of a batch just cancelled.
Filed == cold \/ file.draft = draft \/ (draft = NoDraft /\ file.draft.kind = "cancel")

\* The items before the one at hand are done.
Done(k, m) == \A i \in 1..N : i < m => Saved(k, i) # {}
\* In memory and on file.
Advancing ==
  /\ Done("create", batch) /\ Done("create", file.batch)
  /\ Done("cancel", cancels) /\ Done("cancel", file.cancels)

\* The inductive invariant for batches.
BatchIInv == DialogueIInv /\ OneTurn /\ Ledger /\ Following /\ Places /\ Filed /\ Advancing

\* Rows keep what they are for.
Stays ==
  \A o \in Ops : /\ op'[o].state = "free" <=> op[o].state = "free"
                 /\ op'[o].kind = op[o].kind /\ op'[o].target = op[o].target

\* Nothing but a new preview changes what a row is for.
LEMMA StaysIs ==
  ASSUME DialogueIInv,
         \/ op' = op \/ (\A o \in Ops : Moves(o))
         \/ (\E x \in Ops \cup {NoOp} : op' = Dismissed(x)) \/ ServiceRestart
         \/ (\E o \in Ops : Confirm(o))
         \/ ServiceSame /\ \E o \in Ops : \E r \in Findings(o) : op' = Reconciled(o, r)
  PROVE  Stays
<1>0. op \in [Ops -> Rows] /\ ServiceIInv BY DEF DialogueIInv, ServiceIInv, ServiceTypeOK
<1>1. CASE op' = op \/ \A o \in Ops : Moves(o) BY <1>1 DEF Stays, Moves
<1>2. ASSUME NEW x \in Ops \cup {NoOp}, op' = Dismissed(x) PROVE Stays BY <1>0, <1>2, DismissedIs DEF Stays
<1>3. CASE ServiceRestart BY <1>0, <1>3, RestartSafe DEF Stays
<1>4. ASSUME NEW o \in Ops, Confirm(o) PROVE Stays
  <2>1. op[o].state = "pending" BY <1>4 DEF Confirm, CanConfirm
  <2> QED BY <1>0, <1>4, <2>1, ConfirmedSafe DEF Stays
<1>5. ASSUME NEW o \in Ops, NEW r \in Findings(o), op' = Reconciled(o, r), ServiceSame PROVE Stays
  <2>1. \A q \in Ops : Moves(q) BY <1>0, <1>5, ReconciledSafe DEF ServiceSame
  <2> QED BY <2>1 DEF Stays, Moves
<1> QED BY <1>1, <1>2, <1>3, <1>4, <1>5

\* What was done stays done, whatever operation is asked for next.
LEMMA LedgerKept ==
  ASSUME BatchIInv, Stays, UNCHANGED item,
         \A o \in Ops : (effect[o] => effect'[o]) /\ (op[o].state = "free" => ~effect'[o])
  PROVE  /\ Ledger'
         /\ \A k \in Kinds, m \in 0..N : Done(k, m) => Done(k, m)'
<1>1. Ledger' BY DEF BatchIInv, Ledger, Stays
<1>2. \A k, i : Saved(k, i) # {} => Saved(k, i)' # {} BY DEF Saved
<1>3. \A k \in Kinds, m \in 0..N : Done(k, m) => Done(k, m)' BY <1>2 DEF Done
<1> QED BY <1>1, <1>3

\* A preview is asked for: a free operation takes its place in the batch.
LEMMA AskedIs ==
  ASSUME BatchIInv, NEW c \in Calls, NEW held \in Ops \cup {NoOp}, NEW d, Proper(d), d # NoDraft,
         NEW s \in Stages, Asks(c, Dismissed(held), d, s), ServiceSame
  PROVE  \E o \in Ops :
           /\ work = NoOp /\ op[o].state = "free" /\ op'[o].state # "free"
           /\ op'[o].kind = d.kind /\ op'[o].target = TargetOf(d, o)
           /\ call' = [call EXCEPT ![c].stage = s, ![c].op = o]
           /\ item'[o] = <<d.kind, d.item>> /\ \A q \in Ops : q # o => item'[q] = item[q]
           /\ item' \in [Ops -> (Kinds \cup {"none"}) \X (0..N)]
           /\ \A q \in Ops : q # o => /\ op'[q].kind = op[q].kind /\ op'[q].target = op[q].target
                                      /\ op'[q].state = op[q].state
                                           \/ (op[q].state = "pending" /\ op'[q].state = "dismissed")
<1>1. PICK o \in Ops : /\ CanPreview(o, d.kind, TargetOf(d, o))
                       /\ op' = Previewing(Dismissed(held), o, d.kind, TargetOf(d, o))
                       /\ item' = [item EXCEPT ![o] = <<d.kind, d.item>>]
                       /\ call' = [call EXCEPT ![c].stage = s, ![c].op = o]
  BY DEF Asks
<1>2. d.kind \in Kinds /\ d.item \in 0..N /\ TargetOf(d, o) \in Targets BY TargetIs DEF Proper, Drafts
<1>3. ServiceIInv /\ UNCHANGED <<work, google, wire, edits, posts, effect>> BY DEF BatchIInv, DialogueIInv, ServiceSame
<1>4. /\ op'[o].state \in {"overlapping", "reading"} /\ op'[o].kind = d.kind /\ op'[o].target = TargetOf(d, o)
      /\ \A q \in Ops : q # o => /\ op'[q].kind = op[q].kind /\ op'[q].target = op[q].target
                                 /\ op'[q].state = op[q].state
                                      \/ (op[q].state = "pending" /\ op'[q].state = "dismissed")
  BY <1>1, <1>2, <1>3, AskedSafe
<1>5. item \in [Ops -> (Kinds \cup {"none"}) \X (0..N)] BY DEF BatchIInv, Ledger
<1>6. <<d.kind, d.item>> \in (Kinds \cup {"none"}) \X (0..N) BY <1>2
<1>7. /\ item'[o] = <<d.kind, d.item>> /\ \A q \in Ops : q # o => item'[q] = item[q]
      /\ item' \in [Ops -> (Kinds \cup {"none"}) \X (0..N)]
  BY <1>1, <1>5, <1>6
<1>8. work = NoOp /\ op[o].state = "free" BY <1>1 DEF CanPreview
<1> QED BY <1>1, <1>4, <1>7, <1>8

\* A turn that comes to its end leaves everything in step.
LEMMA TurnEnds ==
  ASSUME BatchIInv, DialogueIInv', NEW c \in Calls, ~At(c, "idle"), Ends(c), Stays,
         UNCHANGED <<item, effect, interrupts, cold>>, asked \subseteq asked',
         approval' # NoOp => draft' # NoDraft /\ ~draft'.blocked /\ draft'.op = approval',
         draft'.op # NoOp => draft'.op \in Ops /\ item[draft'.op] = <<draft'.kind, draft'.item>>,
         draft'.kind = "create" => draft'.item = batch',
         draft'.kind = "cancel" => draft'.item = cancels',
         cancels' > 0 \/ draft'.kind = "cancel" => "cancelMany" \in asked,
         Done("create", batch'), Done("cancel", cancels'),
         Persist \/ UNCHANGED <<file, draft>>
  PROVE  BatchIInv'
<1>1. ~cold /\ approval = NoOp /\ interrupts = 0 BY DEF BatchIInv, OneTurn
<1>2. \A d \in Calls : d # c => At(d, "idle") BY DEF BatchIInv, OneTurn
<1>3. call \in [Calls -> Call] BY TalkIs DEF BatchIInv
<1>4. \A d \in Calls : At(d, "idle")' /\ ~call'[d].aborted
  <2>1. \A d \in Calls : d # c => call'[d] = call[d] BY <1>3 DEF Ends
  <2>2. call'[c] = NoCall BY <1>3 DEF Ends
  <2> QED BY <1>2, <2>1, <2>2 DEF At, NoCall, BatchIInv, OneTurn
<1>5. OneTurn' BY <1>1, <1>4 DEF OneTurn
<1>6. /\ Ledger' /\ \A k \in Kinds, m \in 0..N : Done(k, m) => Done(k, m)'
  <2>1. \A o \in Ops : op[o].state = "free" => ~effect[o] BY DEF BatchIInv, Ledger
  <2> QED BY <2>1, LedgerKept
<1>7. Following'
  <2>1. \A d \in Calls : Follows(d)' BY <1>4 DEF Follows, At
  <2> QED BY <2>1 DEF Following, Unlocked
<1>8. Filed' BY <1>1 DEF BatchIInv, Filed, Persist, Kept, NoFile
<1>9. Places'
  <2>1. Placed(draft, batch, cancels)' BY DEF Placed, Of
  <2>2. /\ Placed(file.draft, file.batch, file.cancels)'
        /\ file'.cancels > 0 \/ file'.draft.kind = "cancel" => "cancelMany" \in asked
    <3>1. CASE UNCHANGED file BY <3>1 DEF BatchIInv, Places, Placed, Of
    <3>2. CASE Persist /\ draft' = NoDraft
      <4>1. file' = NoFile BY <3>2 DEF Persist, Kept
      <4>2. file'.draft = NoDraft /\ file'.cancels = 0 BY <4>1 DEF NoFile
      <4> QED BY <4>2 DEF NoDraft, Placed
    <3>3. CASE Persist /\ draft' # NoDraft
      <4>1. file' = [draft |-> draft', batch |-> batch', cancels |-> cancels'] BY <3>3 DEF Persist, Kept
      <4>2. file'.draft = draft' /\ file'.batch = batch' /\ file'.cancels = cancels' BY <4>1
      <4> QED BY <4>2 DEF Placed, Of
    <3> QED BY <3>1, <3>2, <3>3
  <2> QED BY <2>1, <2>2 DEF Places
<1>10. Advancing'
  <2>1. batch' \in 0..N /\ cancels' \in 0..N /\ file.batch \in 0..N /\ file.cancels \in 0..N
    BY DEF DialogueIInv, DialogueTypeOK, BatchIInv
  <2>2. PICK b \in 0..N, n \in 0..N : b = batch' /\ n = cancels' BY <2>1
  <2>3. Done("create", b)' /\ Done("cancel", n)' BY <1>6, <2>2 DEF Kinds
  <2>4. Done("create", file.batch)' /\ Done("cancel", file.cancels)'
    <3>1. CASE UNCHANGED file
      <4>1. PICK fb \in 0..N, fn \in 0..N : fb = file.batch /\ fn = file.cancels BY <2>1
      <4>2. Done("create", fb)' /\ Done("cancel", fn)' BY <1>6, <4>1 DEF Kinds, BatchIInv, Advancing
      <4> QED BY <3>1, <4>1, <4>2 DEF Done
    <3>2. CASE Persist
      <4>1. file'.batch \in {0, b} /\ file'.cancels \in {0, n} BY <2>2, <3>2 DEF Persist, Kept, NoFile
      <4> QED BY <2>1, <2>2, <2>3, <4>1 DEF Done
    <3> QED BY <3>1, <3>2
  <2> QED BY <2>2, <2>3, <2>4 DEF Advancing, Done
<1> QED BY <1>5, <1>6, <1>7, <1>8, <1>9, <1>10 DEF BatchIInv

\* A turn that asks for a preview goes on in step.
LEMMA TurnAsks ==
  ASSUME BatchIInv, DialogueIInv', NEW c \in Calls, ~At(c, "idle"), NEW held \in Ops \cup {NoOp},
         NEW d, d = draft', NEW s \in {"preview", "refresh", "next"}, Asks(c, Dismissed(held), d, s),
         ServiceSame, UNCHANGED <<approval, interrupts, cold>>, asked \subseteq asked',
         d # NoDraft, ~d.blocked, d.op # NoOp => Of(d.op, d),
         d.kind = "create" => d.item = batch', d.kind = "cancel" => d.item = cancels',
         cancels' > 0 \/ d.kind = "cancel" => "cancelMany" \in asked,
         Done("create", batch'), Done("cancel", cancels'),
         Persist \/ UNCHANGED <<file, draft>>
  PROVE  BatchIInv'
<1>1. ~cold /\ approval = NoOp /\ interrupts = 0 BY DEF BatchIInv, OneTurn
<1>2. \A x \in Calls : x # c => At(x, "idle") BY DEF BatchIInv, OneTurn
<1>3. call \in [Calls -> Call] /\ s \in Stages BY TalkIs DEF BatchIInv, Stages
<1>4. Proper(d) BY DEF DialogueIInv
<1>5. PICK o \in Ops :
        /\ work = NoOp /\ op[o].state = "free" /\ op'[o].state # "free"
        /\ op'[o].kind = d.kind
        /\ call' = [call EXCEPT ![c].stage = s, ![c].op = o]
        /\ item'[o] = <<d.kind, d.item>> /\ \A q \in Ops : q # o => item'[q] = item[q]
        /\ item' \in [Ops -> (Kinds \cup {"none"}) \X (0..N)]
        /\ \A q \in Ops : q # o => /\ op'[q].kind = op[q].kind
                                   /\ op'[q].state = op[q].state
                                        \/ (op[q].state = "pending" /\ op'[q].state = "dismissed")
  BY <1>3, <1>4, AskedIs
<1>6. /\ \A x \in Calls : x # c => call'[x] = call[x]
      /\ call'[c].stage = s /\ call'[c].op = o /\ ~call'[c].aborted
  <2>1. \A x \in Calls : x # c => call'[x] = call[x] BY <1>3, <1>5
  <2>2. call'[c] = [call[c] EXCEPT !.stage = s, !.op = o] /\ call[c] \in Call BY <1>3, <1>5
  <2>3. call'[c].stage = s /\ call'[c].op = o /\ call'[c].aborted = call[c].aborted BY <2>2 DEF Call
  <2> QED BY <2>1, <2>3 DEF BatchIInv, OneTurn
<1>7. \A x \in Calls : x # c => At(x, "idle")' BY <1>2, <1>6 DEF At
<1>8. OneTurn' BY <1>1, <1>6, <1>7 DEF OneTurn, BatchIInv
<1>9. UNCHANGED effect BY DEF ServiceSame
<1>10. Ledger'
  <2>1. item'[o][1] = op'[o].kind BY <1>5
  <2> QED BY <1>5, <1>9, <2>1 DEF BatchIInv, Ledger
<1>11. \A k \in Kinds, m \in 0..N : Done(k, m) => Done(k, m)'
  <2>1. ~effect[o] BY <1>5 DEF BatchIInv, Ledger
  <2>2. \A k, i : Saved(k, i) # {} => Saved(k, i)' # {} BY <1>5, <1>9, <2>1 DEF Saved
  <2> QED BY <2>2 DEF Done
<1>12. \A x, e : Of(x, e) /\ e.kind # "none" => x \in Ops /\ item'[x] = <<e.kind, e.item>>
  <2>1. item[o] = <<"none", 0>> BY <1>5 DEF BatchIInv, Ledger
  <2>2. \A e : e.kind # "none" => <<e.kind, e.item>> # <<"none", 0>> OBVIOUS
  <2> QED BY <1>5, <2>1, <2>2 DEF Of
<1>13. Following'
  <2>1. \A x \in Calls : x # c => Follows(x)' BY <1>7 DEF Follows, At
  <2>2. Follows(c)' BY <1>5, <1>6 DEF Follows, At, Of
  <2> QED BY <1>1, <2>1, <2>2 DEF Following
<1>14. d.kind # "none" BY <1>4 DEF Proper, Kinds
<1>15. Placed(d, batch, cancels)' BY <1>12, <1>14 DEF Placed, Of
<1>16. Filed' BY <1>1 DEF BatchIInv, Filed, Persist, Kept, NoFile
<1>17. Places'
  <2>1. /\ Placed(file.draft, file.batch, file.cancels)'
        /\ file'.cancels > 0 \/ file'.draft.kind = "cancel" => "cancelMany" \in asked'
    <3>1. CASE UNCHANGED file
      <4>1. Placed(file.draft, file.batch, file.cancels) /\ file.draft.op \in Ops \cup {NoOp}
            /\ (file.cancels > 0 \/ file.draft.kind = "cancel" => "cancelMany" \in asked)
            /\ (file.draft.op # NoOp => file.draft.kind # "none")
        BY NoDraftIs, TalkIs DEF BatchIInv, Places, Proper, Drafts, NoDraft, Kinds
      <4> QED BY <1>12, <3>1, <4>1 DEF Placed, Of
    <3>2. CASE Persist
      <4>1. file' = [draft |-> d, batch |-> batch', cancels |-> cancels'] BY <3>2 DEF Persist, Kept
      <4>2. file'.draft = d /\ file'.batch = batch' /\ file'.cancels = cancels' BY <4>1
      <4> QED BY <1>15, <4>2 DEF Placed, Of
    <3> QED BY <3>1, <3>2
  <2> QED BY <1>15, <2>1 DEF Places, Placed, Of
<1>18. Advancing'
  <2>1. batch' \in 0..N /\ cancels' \in 0..N /\ file.batch \in 0..N /\ file.cancels \in 0..N
    BY DEF DialogueIInv, DialogueTypeOK, BatchIInv
  <2>2. PICK b \in 0..N, n \in 0..N : b = batch' /\ n = cancels' BY <2>1
  <2>3. Done("create", b)' /\ Done("cancel", n)' BY <1>11, <2>2 DEF Kinds
  <2>4. Done("create", file.batch)' /\ Done("cancel", file.cancels)'
    <3>1. CASE UNCHANGED file
      <4>1. PICK fb \in 0..N, fn \in 0..N : fb = file.batch /\ fn = file.cancels BY <2>1
      <4>2. Done("create", fb)' /\ Done("cancel", fn)' BY <1>11, <4>1 DEF Kinds, BatchIInv, Advancing
      <4> QED BY <3>1, <4>1, <4>2 DEF Done
    <3>2. CASE Persist
      <4>1. file'.batch \in {0, b} /\ file'.cancels \in {0, n} BY <2>2, <3>2 DEF Persist, Kept, NoFile
      <4> QED BY <2>1, <2>2, <2>3, <4>1 DEF Done
    <3> QED BY <3>1, <3>2
  <2> QED BY <2>2, <2>3, <2>4 DEF Advancing, Done
<1> QED BY <1>8, <1>10, <1>13, <1>16, <1>17, <1>18 DEF BatchIInv

\* The steps of a turn that leave what is on file, and only move the call on.
LEMMA TurnMoves ==
  ASSUME BatchIInv, DialogueIInv', NEW c \in Calls, Stays, UNCHANGED <<item, effect, interrupts, cold, file, batch>>,
         ~cold, \A d \in Calls : d # c => At(d, "idle") /\ At(d, "idle")' /\ ~call'[d].aborted,
         ~call'[c].aborted, approval' = NoOp, Follows(c)', asked \subseteq asked',
         \/ UNCHANGED <<draft, cancels>>
         \/ UNCHANGED draft /\ "cancelMany" \notin asked /\ "cancelMany" \in asked' /\ cancels' = 1
         \/ /\ draft' = NoDraft /\ file.draft.kind = "cancel" /\ cancels > 0 /\ cancels' = cancels + 1
            /\ Saved("cancel", cancels) # {}
  PROVE  BatchIInv'
<1>1. OneTurn' BY DEF BatchIInv, OneTurn
<1>2. /\ Ledger' /\ \A k \in Kinds, m \in 0..N : Done(k, m) => Done(k, m)'
  <2>1. \A o \in Ops : op[o].state = "free" => ~effect[o] BY DEF BatchIInv, Ledger
  <2> QED BY <2>1, LedgerKept
<1>3. Following' BY DEF Following, Follows, At
<1>4. Filed' BY DEF Filed, BatchIInv
<1>5. Places' BY DEF Places, Placed, Of, BatchIInv, NoDraft
<1>6. Advancing'
  <2>1. batch \in 0..N /\ cancels \in 0..N /\ cancels' \in 0..N /\ file.batch \in 0..N /\ file.cancels \in 0..N
    BY DEF DialogueIInv, DialogueTypeOK, BatchIInv
  <2>2. PICK b \in 0..N, fb \in 0..N, fn \in 0..N, n \in 0..N, m \in 0..N :
          b = batch /\ fb = file.batch /\ fn = file.cancels /\ n = cancels /\ m = cancels'
    BY <2>1
  <2>3. Done("create", b) /\ Done("create", fb) /\ Done("cancel", fn) /\ Done("cancel", n)
    BY <2>2 DEF BatchIInv, Advancing
  <2>4. Done("cancel", m) BY <2>2, <2>3 DEF Done
  <2>5. Done("create", b)' /\ Done("create", fb)' /\ Done("cancel", fn)' /\ Done("cancel", m)'
    BY <1>2, <2>3, <2>4 DEF Kinds
  <2> QED BY <2>2, <2>5 DEF Advancing, Done
<1> QED BY <1>1, <1>2, <1>3, <1>4, <1>5, <1>6 DEF BatchIInv

\* The user speaks only when nothing is under way, and cancels events as a batch.
Orderly == MaxInterrupts = 0 /\ "cancelOne" \notin Wishes

\* What the turn at hand knows: nothing waits for an answer, the other slots are
\* idle, and the draft is on file.
LEMMA TurnIs ==
  ASSUME BatchIInv, NEW c \in Calls, ~At(c, "idle")
  PROVE  /\ ~cold /\ approval = NoOp /\ interrupts = 0 /\ ~call[c].aborted
         /\ \A d \in Calls : d # c => At(d, "idle") /\ ~call[d].aborted
         /\ Follows(c) /\ (draft # NoDraft => file.draft = draft)
         /\ call \in [Calls -> Call]
         /\ draft.op \in Ops \cup {NoOp}
         /\ draft.op # NoOp => draft.op \in Ops /\ item[draft.op] = <<draft.kind, draft.item>>
         /\ draft.kind = "create" => draft.item = batch
         /\ draft.kind = "cancel" => draft.item = cancels
         /\ cancels > 0 \/ draft.kind = "cancel" => "cancelMany" \in asked
         /\ Done("create", batch) /\ Done("cancel", cancels)
<1>1. call \in [Calls -> Call] /\ draft.op \in Ops \cup {NoOp} BY TalkIs DEF BatchIInv, Proper, Drafts
<1> QED BY <1>1 DEF BatchIInv, OneTurn, Following, Filed, Places, Placed, Of, Advancing

\* A turn that is over without having changed the draft.
LEMMA PlainEnds ==
  ASSUME BatchIInv, DialogueIInv', NEW c \in Calls, ~At(c, "idle"), Ends(c), Stays,
         UNCHANGED <<item, effect, interrupts, cold, asked, draft, batch, cancels, file>>,
         approval' = NoOp \/ (approval' = call[c].had /\ At(c, "reply"))
  PROVE  BatchIInv'
<1>1. approval' # NoOp => draft # NoDraft /\ ~draft.blocked /\ draft.op = approval'
  BY TurnIs DEF Follows, Unlocked
<1>2. /\ (draft'.op # NoOp => draft'.op \in Ops /\ item[draft'.op] = <<draft'.kind, draft'.item>>)
      /\ (draft'.kind = "create" => draft'.item = batch')
      /\ (draft'.kind = "cancel" => draft'.item = cancels')
      /\ (cancels' > 0 \/ draft'.kind = "cancel" => "cancelMany" \in asked)
      /\ Done("create", batch') /\ Done("cancel", cancels')
  BY TurnIs
<1>3. approval' # NoOp => draft' # NoDraft /\ ~draft'.blocked /\ draft'.op = approval' BY <1>1
<1> QED BY <1>2, <1>3, TurnEnds

\* The user speaks, and the turn is planned.
LEMMA PlanInStep ==
  ASSUME BatchIInv, DialogueIInv', Orderly, NEW c \in Calls, (\E t \in Texts : Say(c, t)) \/ Planned(c)
  PROVE  BatchIInv'
<1>0. call \in [Calls -> Call] /\ DialogueIInv BY TalkIs DEF BatchIInv
<1>1. CASE \E t \in Texts : Say(c, t)
  <2>1. PICK t \in Texts : Say(c, t) BY <1>1
  <2>0. interrupts = 0 /\ MaxInterrupts = 0 /\ \A d \in Calls : ~call[d].aborted BY DEF Orderly, BatchIInv, OneTurn
  <2>2. \A d \in Calls : At(d, "idle") /\ ~call[d].aborted
    <3>1. \A d \in Calls : ~At(d, "idle") => interrupts < MaxInterrupts BY <2>1 DEF Say
    <3> QED BY <2>0, <3>1
  <2>3. /\ ~cold /\ UNCHANGED <<service, draft, batch, cancels, last, file, cold, item, asked>> /\ approval' = NoOp
        /\ call'[c].had = approval /\ ~call'[c].aborted
        /\ call'[c].stage \in {"planning", "reply"}
        /\ \A d \in Calls : d # c => call'[d] = [call[d] EXCEPT !.aborted = FALSE]
    BY <2>1, <2>2 DEF Say, NoCall
  <2>4. interrupts' = interrupts
    <3>1. {d \in Calls : ~At(d, "idle")} = {} BY <2>2
    <3>2. Cardinality({d \in Calls : ~At(d, "idle")}) = 0 BY <3>1, FS_EmptySet
    <3>3. interrupts' = interrupts + Cardinality({d \in Calls : ~At(d, "idle")}) BY <2>1 DEF Say
    <3> QED BY <2>0, <3>2, <3>3
  <2>5. \A d \in Calls : d # c => At(d, "idle") /\ At(d, "idle")' /\ ~call'[d].aborted
    BY <1>0, <2>2, <2>3 DEF At, Call
  <2>6. Follows(c)' BY <2>3 DEF Follows, At, BatchIInv, Following, Unlocked
  <2>7. Stays BY <2>3, StaysIs DEF service, BatchIInv
  <2> QED BY <2>3, <2>4, <2>5, <2>6, <2>7, TurnMoves DEF service
<1>2. CASE Planned(c)
  <2>1. ~At(c, "idle") BY <1>2 DEF Planned, At
  <2>2. Stays
    <3>1. call[c].had \in Ops \cup {NoOp} BY <1>0 DEF Call
    <3> QED BY <1>0, <1>2, <3>1, StaysIs DEF Planned
  <2>3. UNCHANGED <<item, effect, interrupts, cold, asked, draft, batch, cancels, file, approval>>
    BY <1>2 DEF Planned, ServiceSame, ghosts
  <2>4. CASE Ends(c) BY <2>1, <2>2, <2>3, <2>4, TurnIs, PlainEnds
  <2>5. CASE call' = [call EXCEPT ![c].stage = "reply"]
    <3>1. /\ \A d \in Calls : d # c => call'[d] = call[d]
          /\ call'[c].stage = "reply" /\ call'[c].had = call[c].had /\ call'[c].aborted = call[c].aborted
      BY <1>0, <2>5 DEF Call
    <3>2. Follows(c)' BY <1>2, <2>1, <2>3, <3>1, TurnIs DEF Planned, Follows, At, Unlocked
    <3>3. \A d \in Calls : d # c => At(d, "idle") /\ At(d, "idle")' /\ ~call'[d].aborted
      BY <2>1, <3>1, TurnIs DEF At
    <3>4. ~cold /\ approval' = NoOp /\ ~call'[c].aborted BY <2>1, <2>3, <3>1, TurnIs
    <3> QED BY <2>2, <2>3, <3>2, <3>3, <3>4, TurnMoves
  <2> QED BY <1>2, <2>4, <2>5 DEF Planned
<1> QED BY <1>1, <1>2

\* The turns that answer and leave the draft alone.
LEMMA AnswerInStep ==
  ASSUME BatchIInv, DialogueIInv', NEW c \in Calls,
         ReplyAborted(c) \/ JustAnswer(c) \/ AskAgain(c) \/ PlannerAnswers(c) \/ RefreshRefused(c)
  PROVE  BatchIInv'
<1>1. ~At(c, "idle") BY DEF ReplyAborted, JustAnswer, AskAgain, PlannerAnswers, RefreshRefused, Replies, At
<1>2. Ends(c) /\ UNCHANGED <<item, effect, interrupts, cold, asked, draft, batch, cancels, file>>
  BY DEF ReplyAborted, JustAnswer, AskAgain, PlannerAnswers, RefreshRefused, service, ServiceSame, ghosts
<1>3. approval' = NoOp \/ (approval' = call[c].had /\ At(c, "reply"))
  BY <1>1, TurnIs DEF ReplyAborted, JustAnswer, AskAgain, PlannerAnswers, RefreshRefused, Replies
<1>4. Stays
  <2>1. call[c].had \in Ops \cup {NoOp} BY TalkIs DEF BatchIInv, Call
  <2>2. op' = op \/ op' = Dismissed(call[c].had)
    BY DEF ReplyAborted, JustAnswer, AskAgain, PlannerAnswers, RefreshRefused, service
  <2> QED BY <2>1, <2>2, StaysIs DEF BatchIInv
<1> QED BY <1>1, <1>2, <1>3, <1>4, PlainEnds

\* endSession() leaves no batch.
LEMMA DiscardInStep ==
  ASSUME BatchIInv, DialogueIInv', NEW c \in Calls, Discard(c)
  PROVE  BatchIInv'
<1>1. ~At(c, "idle") BY DEF Discard, Replies, At
<1>2. /\ Ends(c) /\ Persist /\ draft' = NoDraft /\ batch' = 0 /\ cancels' = 0 /\ approval' = NoOp
      /\ op' = Dismissed(approval) /\ UNCHANGED <<item, effect, interrupts, cold, asked>>
  BY DEF Discard, ServiceSame, ghosts
<1>3. Stays BY <1>2, TalkIs, StaysIs DEF BatchIInv
<1>4. draft'.op = NoOp /\ draft'.kind = "none" BY <1>2 DEF NoDraft
<1>5. Done("create", batch') /\ Done("cancel", cancels') BY <1>2 DEF Done
<1>6. /\ (draft'.kind = "create" => draft'.item = batch') /\ (draft'.kind = "cancel" => draft'.item = cancels')
      /\ (cancels' > 0 \/ draft'.kind = "cancel" => "cancelMany" \in asked)
      /\ (approval' # NoOp => draft' # NoDraft /\ ~draft'.blocked /\ draft'.op = approval')
      /\ (draft'.op # NoOp => draft'.op \in Ops /\ item[draft'.op] = <<draft'.kind, draft'.item>>)
  BY <1>2, <1>4
<1> QED BY <1>1, <1>2, <1>3, <1>5, <1>6, TurnEnds

\* The call moves on to the planner, to the look-up of an event, to the write.
LEMMA MovesInStep ==
  ASSUME BatchIInv, DialogueIInv', NEW c \in Calls, AskPlanner(c) \/ SelectMany(c) \/ CancelledNext(c) \/ Save(c)
  PROVE  BatchIInv'
<1>1. ~At(c, "idle") BY DEF AskPlanner, SelectMany, CancelledNext, Save, Replies, Back, At
<1>2. UNCHANGED <<item, effect, interrupts, cold, file, batch, approval>> /\ asked \subseteq asked'
  BY DEF AskPlanner, SelectMany, CancelledNext, Save, service, ghosts, Confirm
<1>3. Stays
  <2>1. Save(c) => call[c].had \in Ops /\ Confirm(call[c].had) BY TalkIs DEF BatchIInv, Call, Save, Valid
  <2>2. op' = op \/ Save(c) BY DEF AskPlanner, SelectMany, CancelledNext, service
  <2> QED BY <2>1, <2>2, StaysIs DEF BatchIInv
<1>4. PICK s \in {"planner", "binding", "saving"}, o \in Ops \cup {NoOp} :
        /\ call' = [call EXCEPT ![c].stage = s, ![c].op = o]
        /\ s = "saving" => o # NoOp /\ Unlocked(o) /\ UNCHANGED draft
  <2>1. call[c] \in Call /\ Follows(c) BY <1>1, TurnIs
  <2>4. call[c].had \in Ops \cup {NoOp} /\ call[c].op \in Ops \cup {NoOp} BY <2>1 DEF Call
  <2>2. CASE Save(c)
    <3>1. call' = [call EXCEPT ![c].stage = "saving", ![c].op = call[c].had] /\ UNCHANGED draft BY <2>2 DEF Save
    <3>2. call[c].had # NoOp /\ Unlocked(call[c].had) BY <2>1, <2>2 DEF Save, Valid, Replies, Follows
    <3> QED BY <2>4, <3>1, <3>2
  <2>3. CASE ~Save(c)
    <3>1. PICK s \in {"planner", "binding"} : call' = [call EXCEPT ![c].stage = s]
      BY <2>3 DEF AskPlanner, SelectMany, CancelledNext
    <3>2. [call[c] EXCEPT !.stage = s] = [call[c] EXCEPT !.stage = s, !.op = call[c].op] BY <2>1 DEF Call
    <3>3. call' = [call EXCEPT ![c].stage = s, ![c].op = call[c].op] BY <3>1, <3>2
    <3> QED BY <2>4, <3>1, <3>3
  <2> QED BY <2>2, <2>3
<1>5. /\ \A d \in Calls : d # c => call'[d] = call[d]
      /\ call'[c].stage = s /\ call'[c].op = o /\ call'[c].aborted = call[c].aborted
  <2>1. call \in [Calls -> Call] /\ call[c] \in Call BY <1>1, TurnIs
  <2>2. call'[c] = [call[c] EXCEPT !.stage = s, !.op = o] BY <1>4, <2>1
  <2>3. \A d \in Calls : d # c => call'[d] = call[d] BY <1>4, <2>1
  <2> QED BY <2>1, <2>2, <2>3 DEF Call
<1>6. Follows(c)' BY <1>4, <1>5 DEF Follows, At, Unlocked
<1>7. /\ \A d \in Calls : d # c => At(d, "idle") /\ At(d, "idle")' /\ ~call'[d].aborted
      /\ ~cold /\ approval' = NoOp /\ ~call'[c].aborted
  BY <1>1, <1>2, <1>5, TurnIs DEF At
<1>8. \/ UNCHANGED <<draft, cancels>>
      \/ UNCHANGED draft /\ "cancelMany" \notin asked /\ "cancelMany" \in asked' /\ cancels' = 1
      \/ /\ draft' = NoDraft /\ file.draft.kind = "cancel" /\ cancels > 0 /\ cancels' = cancels + 1
         /\ Saved("cancel", cancels) # {}
  <2>1. CASE AskPlanner(c) \/ Save(c) BY <2>1 DEF AskPlanner, Save
  <2>2. CASE SelectMany(c) BY <2>2 DEF SelectMany
  <2>3. CASE CancelledNext(c)
    <3>1. /\ draft' = NoDraft /\ cancels > 0 /\ cancels' = cancels + 1 /\ At(c, "saving")
          /\ op[call[c].op].state = "succeeded" /\ op[call[c].op].kind = "cancel"
      BY <2>3 DEF CancelledNext, Back
    <3>2. call[c].op \in Ops /\ draft.op = call[c].op /\ draft # NoDraft
      BY <1>1, <3>1, TurnIs DEF Follows, Unlocked
    <3>3. item[call[c].op] = <<draft.kind, draft.item>> /\ file.draft = draft BY <1>1, <3>2, TurnIs, ServiceAssumption
    <3>4. item[call[c].op][1] = "cancel" BY <3>1, <3>2 DEF BatchIInv, Ledger
    <3>5. draft.kind = "cancel" /\ draft.item = cancels BY <1>1, <3>3, <3>4, TurnIs
    <3>6. effect[call[c].op] BY <3>1, <3>2 DEF BatchIInv, DialogueIInv, ServiceIInv, SucceededIsTrue
    <3>7. call[c].op \in Saved("cancel", cancels) BY <3>2, <3>3, <3>5, <3>6 DEF Saved
    <3> QED BY <3>1, <3>3, <3>5, <3>7
  <2> QED BY <2>1, <2>2, <2>3
<1> QED BY <1>2, <1>3, <1>6, <1>7, <1>8, TurnMoves

\* A turn that is over, with the draft as it was but for its operation and lock.
LEMMA DraftEnds ==
  ASSUME BatchIInv, DialogueIInv', NEW c \in Calls, ~At(c, "idle"), Ends(c), Stays,
         UNCHANGED <<item, effect, interrupts, cold, asked, batch, cancels>>,
         draft'.kind = draft.kind, draft'.item = draft.item,
         draft'.op \in {draft.op, NoOp} \/ Of(draft'.op, draft),
         approval' # NoOp => draft' # NoDraft /\ ~draft'.blocked /\ draft'.op = approval',
         Persist \/ UNCHANGED <<file, draft>>
  PROVE  BatchIInv'
<1>1. /\ (draft'.op # NoOp => draft'.op \in Ops /\ item[draft'.op] = <<draft'.kind, draft'.item>>)
      /\ (draft'.kind = "create" => draft'.item = batch')
      /\ (draft'.kind = "cancel" => draft'.item = cancels')
      /\ (cancels' > 0 \/ draft'.kind = "cancel" => "cancelMany" \in asked)
      /\ Done("create", batch') /\ Done("cancel", cancels')
  BY TurnIs DEF Of
<1> QED BY <1>1, TurnEnds

\* A turn that failed keeps the draft's place.
LEMMA CaughtInStep ==
  ASSUME BatchIInv, DialogueIInv', NEW c \in Calls, ~At(c, "idle"), Caught(c), Stays,
         UNCHANGED <<item, effect, interrupts, cold, asked, approval>>
  PROVE  BatchIInv'
<1>1. draft \in Drafts BY TalkIs DEF BatchIInv, Proper
<1>2. draft' = [draft EXCEPT !.op = NoOp] BY DEF Caught
<1>3. draft'.kind = draft.kind /\ draft'.item = draft.item /\ draft'.op = NoOp BY <1>1, <1>2 DEF Drafts
<1>4. Persist \/ UNCHANGED <<file, draft>>
  <2>1. CASE draft = NoDraft
    <3>1. draft' = NoDraft BY <1>2, <2>1 DEF NoDraft
    <3> QED BY <2>1, <3>1 DEF Caught
  <2>2. CASE draft # NoDraft BY <2>2 DEF Caught, Persist
  <2> QED BY <2>1, <2>2
<1>5. approval' = NoOp BY TurnIs
<1> QED BY <1>3, <1>4, <1>5, DraftEnds DEF Caught

\* A preview, a failure or a refusal comes back to its turn.
LEMMA ComesBackInStep ==
  ASSUME BatchIInv, DialogueIInv', NEW c \in Calls,
         PlannerFails(c) \/ BindFails(c) \/ PreviewShown(c) \/ PreviewAborted(c) \/ PreviewLost(c) \/ NotSaved(c)
  PROVE  BatchIInv'
<1>1. ~At(c, "idle") BY DEF PlannerFails, BindFails, PreviewShown, PreviewAborted, PreviewLost, NotSaved, Back, At
<1>2. ~call[c].aborted /\ approval = NoOp /\ Follows(c) BY <1>1, TurnIs
<1>3. draft \in Drafts BY TalkIs DEF BatchIInv, Proper
<1>4. UNCHANGED <<item, effect, interrupts, cold, asked>>
  BY DEF PlannerFails, BindFails, PreviewShown, PreviewAborted, PreviewLost, NotSaved, service, ServiceSame, ghosts
<1>5. ~PreviewAborted(c) BY <1>2 DEF PreviewAborted, Follows
<1>6. op' = op BY <1>5 DEF PlannerFails, BindFails, PreviewShown, PreviewLost, NotSaved, service
<1>7. Stays BY <1>6, StaysIs DEF BatchIInv
<1>8. CASE Caught(c) /\ UNCHANGED approval BY <1>1, <1>4, <1>7, <1>8, CaughtInStep
<1>9. CASE PreviewShown(c)
  <2>1. /\ Persist /\ Ends(c) /\ UNCHANGED <<batch, cancels>> /\ approval' = call[c].op
        /\ draft' = [draft EXCEPT !.op = call[c].op, !.blocked = draft.blocked /\ ~At(c, "refresh")]
    BY <1>9 DEF PreviewShown
  <2>2. draft # NoDraft /\ ~draft.blocked /\ Of(call[c].op, draft) BY <1>2, <1>9 DEF PreviewShown, Follows
  <2>3. /\ draft'.kind = draft.kind /\ draft'.item = draft.item /\ draft'.op = call[c].op
        /\ draft'.blocked = (draft.blocked /\ ~At(c, "refresh"))
    BY <1>3, <2>1 DEF Drafts
  <2>4. draft' # NoDraft
    <3>1. draft.kind \in Kinds BY <2>2, TalkIs DEF BatchIInv, Proper
    <3> QED BY <2>3, <3>1 DEF NoDraft, Kinds
  <2> QED BY <1>1, <1>4, <1>7, <2>1, <2>2, <2>3, <2>4, DraftEnds
<1>10. CASE Ends(c) /\ UNCHANGED <<draft, batch, cancels, approval>> /\ (Persist \/ UNCHANGED file)
  BY <1>1, <1>2, <1>4, <1>7, <1>10, DraftEnds
<1>11. CASE NotSaved(c)
  <2>1. /\ Persist /\ Ends(c) /\ UNCHANGED <<batch, cancels, approval>>
        /\ draft' = draft \/ draft' = [draft EXCEPT !.blocked = TRUE]
    BY <1>11 DEF NotSaved
  <2>2. draft'.kind = draft.kind /\ draft'.item = draft.item /\ draft'.op = draft.op BY <1>3, <2>1 DEF Drafts
  <2> QED BY <1>1, <1>2, <1>4, <1>7, <2>1, <2>2, DraftEnds
<1>12. CASE PlannerFails(c) BY <1>8, <1>12 DEF PlannerFails
<1>13. CASE BindFails(c) BY <1>2, <1>8, <1>10, <1>13 DEF BindFails
<1>14. CASE PreviewLost(c) BY <1>2, <1>8, <1>10, <1>14 DEF PreviewLost
<1> QED BY <1>5, <1>9, <1>11, <1>12, <1>13, <1>14

\* The operation of the call that was saved was the draft's.
LEMMA SavedIs ==
  ASSUME BatchIInv, NEW c \in Calls, Back(c, {"succeeded"})
  PROVE  /\ call[c].op \in Ops /\ effect[call[c].op] /\ draft # NoDraft
         /\ item[call[c].op] = <<draft.kind, draft.item>> /\ draft.kind = op[call[c].op].kind
         /\ call[c].op \in Saved(draft.kind, draft.item)
<1>1. ~At(c, "idle") /\ At(c, "saving") BY DEF Back, At
<1>2. draft # NoDraft /\ call[c].op # NoOp /\ draft.op = call[c].op BY <1>1, TurnIs DEF Follows, Unlocked
<1>3. call[c].op \in Ops /\ item[call[c].op] = <<draft.kind, draft.item>> BY <1>1, <1>2, TurnIs
<1>4. op[call[c].op].state = "succeeded" BY DEF Back
<1>5. effect[call[c].op] BY <1>3, <1>4 DEF BatchIInv, DialogueIInv, ServiceIInv, SucceededIsTrue
<1>6. item[call[c].op][1] = op[call[c].op].kind BY <1>3, <1>4 DEF BatchIInv, Ledger
<1> QED BY <1>2, <1>3, <1>5, <1>6 DEF Saved

\* The last item is saved: the batch is over.
LEMMA SavedInStep ==
  ASSUME BatchIInv, DialogueIInv', NEW c \in Calls, SavedLast(c)
  PROVE  BatchIInv'
<1>1. ~At(c, "idle") BY DEF SavedLast, Back, At
<1>2. /\ draft' = NoDraft /\ batch' \in {batch, 0} /\ cancels' \in {cancels, 0} /\ Persist /\ Ends(c)
      /\ UNCHANGED <<approval, cold, item, asked, interrupts, effect, op>>
  BY DEF SavedLast, service, ghosts
<1>3. Stays BY <1>2, StaysIs DEF BatchIInv
<1>4. Done("create", batch') /\ Done("cancel", cancels') BY <1>1, <1>2, TurnIs DEF Done
<1>5. cancels' > 0 => "cancelMany" \in asked BY <1>1, <1>2, TurnIs
<1>6. draft'.kind = "none" /\ draft'.op = NoOp /\ approval' = NoOp BY <1>1, <1>2, TurnIs DEF NoDraft
<1>7. /\ (draft'.op # NoOp => draft'.op \in Ops /\ item[draft'.op] = <<draft'.kind, draft'.item>>)
      /\ (draft'.kind = "create" => draft'.item = batch')
      /\ (draft'.kind = "cancel" => draft'.item = cancels')
      /\ (cancels' > 0 \/ draft'.kind = "cancel" => "cancelMany" \in asked)
      /\ (approval' # NoOp => draft' # NoDraft /\ ~draft'.blocked /\ draft'.op = approval')
  BY <1>5, <1>6
<1> QED BY <1>1, <1>2, <1>3, <1>4, <1>7, TurnEnds

\* A preview is asked for: for the draft there is, a new one or the next item.
LEMMA AskingInStep ==
  ASSUME BatchIInv, DialogueIInv', Orderly, NEW c \in Calls,
         Refresh(c) \/ NewDraft(c) \/ Bound(c) \/ SavedNext(c)
  PROVE  BatchIInv'
<1>1. ~At(c, "idle") BY DEF Refresh, NewDraft, Bound, SavedNext, Replies, Back, At
<1>2. call[c].had \in Ops \cup {NoOp} /\ Dismissed(NoOp) = op BY TalkIs DEF BatchIInv, Call, Dismissed
<1>3. CASE Refresh(c)
  <2>1. /\ draft # NoDraft /\ ~draft.blocked /\ Asks(c, Dismissed(call[c].had), draft, "refresh") /\ ServiceSame
        /\ UNCHANGED <<draft, batch, cancels, approval, file, cold, asked, interrupts>>
    BY <1>3 DEF Refresh
  <2>2. PICK d : d = draft OBVIOUS
  <2>3. d = draft' /\ Asks(c, Dismissed(call[c].had), d, "refresh") /\ d # NoDraft /\ ~d.blocked BY <2>1, <2>2
  <2>4. /\ d.op # NoOp => Of(d.op, d)
        /\ d.kind = "create" => d.item = batch'
        /\ d.kind = "cancel" => d.item = cancels'
        /\ cancels' > 0 \/ d.kind = "cancel" => "cancelMany" \in asked
        /\ Done("create", batch') /\ Done("cancel", cancels')
    BY <1>1, <2>1, <2>2, TurnIs DEF Of
  <2> QED BY <1>1, <1>2, <2>1, <2>3, <2>4, TurnAsks
<1>4. CASE NewDraft(c)
  <2> DEFINE t == call[c].text
  <2>1. /\ t \in Wishes \ {"cancelMany", "cancelRest"}
        /\ draft' = DraftFor(t) /\ batch' = BatchFor(t) /\ cancels' = cancels
        /\ UNCHANGED <<approval, cold, interrupts, effect>> /\ Persist /\ ServiceSame /\ asked \subseteq asked'
        /\ \/ Asks(c, op, DraftFor(t), "preview")
           \/ Ends(c) /\ UNCHANGED <<op, item>>
    BY <1>4 DEF NewDraft, ServiceSame
  <2>2. t \in {"itinerary", "new", "edit"} BY <2>1, DialogueAssumption DEF Orderly
  <2>3. PICK d : d = DraftFor(t) OBVIOUS
  <2>4. /\ d # NoDraft /\ ~d.blocked /\ d.op = NoOp /\ d.kind \in {"create", "update"}
        /\ d.kind = "create" => d.item = BatchFor(t)
    <3>1. 1 \in 0..N /\ 0 \in 0..N BY DialogueAssumption
    <3> QED BY <2>2, <2>3, <3>1, DraftIs DEF DraftFor, BatchFor, Kinds
  <2>5. Done("create", BatchFor(t)) /\ Done("cancel", cancels) /\ (cancels > 0 => "cancelMany" \in asked)
    <3>1. Done("create", 0) /\ Done("create", 1) BY DEF Done
    <3> QED BY <1>1, <3>1, TurnIs DEF BatchFor
  <2>6. CASE Asks(c, op, DraftFor(t), "preview")
    <3>1. Asks(c, Dismissed(NoOp), d, "preview") BY <1>2, <2>3, <2>6
    <3>2. /\ d = draft' /\ (d.op # NoOp => Of(d.op, d))
          /\ (d.kind = "create" => d.item = batch') /\ (d.kind = "cancel" => d.item = cancels')
          /\ (cancels' > 0 \/ d.kind = "cancel" => "cancelMany" \in asked)
          /\ Done("create", batch') /\ Done("cancel", cancels')
      BY <2>1, <2>3, <2>4, <2>5
    <3>3. UNCHANGED <<approval, interrupts, cold>> /\ asked \subseteq asked' /\ Persist /\ ServiceSame BY <2>1
    <3> HIDE DEF t
    <3> QED BY <1>1, <2>4, <3>1, <3>2, <3>3, TurnAsks
  <2>7. CASE Ends(c) /\ UNCHANGED <<op, item>>
    <3>1. Stays BY <2>7, StaysIs DEF BatchIInv
    <3>2. draft' = d /\ approval' = NoOp /\ batch' = BatchFor(t) /\ cancels' = cancels BY <1>1, <2>1, <2>3, TurnIs
    <3>3. /\ (draft'.op # NoOp => draft'.op \in Ops /\ item[draft'.op] = <<draft'.kind, draft'.item>>)
          /\ (draft'.kind = "create" => draft'.item = batch') /\ (draft'.kind = "cancel" => draft'.item = cancels')
          /\ (cancels' > 0 \/ draft'.kind = "cancel" => "cancelMany" \in asked)
          /\ Done("create", batch') /\ Done("cancel", cancels')
          /\ (approval' # NoOp => draft' # NoDraft /\ ~draft'.blocked /\ draft'.op = approval')
      BY <2>4, <2>5, <3>2
    <3>4. UNCHANGED <<interrupts, cold, effect, item>> /\ asked \subseteq asked' /\ Persist BY <2>1, <2>7
    <3> HIDE DEF t
    <3> QED BY <1>1, <2>7, <3>1, <3>3, <3>4, TurnEnds
  <2> QED BY <2>1, <2>6, <2>7
<1>5. CASE Bound(c)
  <2>1. PICK s \in {"next", "preview"} : Asks(c, op, Draft("cancel", cancels), s) BY <1>5 DEF Bound
  <2>2. /\ draft' = Draft("cancel", cancels) /\ UNCHANGED <<batch, cancels>> /\ Persist /\ ServiceSame /\ cancels > 0
        /\ UNCHANGED <<approval, cold, asked, interrupts>>
    BY <1>5 DEF Bound
  <2>3. PICK d : d = Draft("cancel", cancels) OBVIOUS
  <2>4. d # NoDraft /\ ~d.blocked /\ d.op = NoOp /\ d.kind = "cancel" /\ d.item = cancels
    BY <2>3, TalkIs, DraftIs DEF BatchIInv, Kinds
  <2>5. Asks(c, Dismissed(NoOp), d, s) BY <1>2, <2>1, <2>3
  <2>6. /\ d = draft' /\ (d.op # NoOp => Of(d.op, d))
        /\ (d.kind = "create" => d.item = batch') /\ (d.kind = "cancel" => d.item = cancels')
        /\ (cancels' > 0 \/ d.kind = "cancel" => "cancelMany" \in asked)
        /\ Done("create", batch') /\ Done("cancel", cancels')
    BY <1>1, <2>2, <2>3, <2>4, TurnIs
  <2> QED BY <1>1, <2>2, <2>4, <2>5, <2>6, TurnAsks
<1>6. CASE SavedNext(c)
  <2>1. /\ Back(c, {"succeeded"}) /\ op[call[c].op].kind = "create" /\ batch > 0 /\ batch < N
        /\ batch' = batch + 1 /\ cancels' = cancels /\ draft' = Draft("create", batch + 1)
        /\ Persist /\ Asks(c, op, Draft("create", batch + 1), "next") /\ ServiceSame
        /\ UNCHANGED <<approval, cold, asked, interrupts>>
    BY <1>6 DEF SavedNext
  <2>2. PICK d : d = Draft("create", batch + 1) OBVIOUS
  <2>3. batch + 1 \in 0..N BY <2>1, TalkIs, DialogueAssumption DEF BatchIInv
  <2>4. d # NoDraft /\ ~d.blocked /\ d.op = NoOp /\ d.kind = "create" /\ d.item = batch + 1
    BY <2>2, <2>3, DraftIs DEF Kinds
  <2>5. Asks(c, Dismissed(NoOp), d, "next") BY <1>2, <2>1, <2>2
  <2>6. Saved("create", batch) # {}
    <3>1. draft.kind = "create" /\ draft.item = batch BY <1>1, <2>1, SavedIs, TurnIs
    <3> QED BY <2>1, <3>1, SavedIs
  <2>7. Done("create", batch + 1)
    <3>1. batch \in 0..N /\ Done("create", batch) BY <1>1, TalkIs, TurnIs DEF BatchIInv
    <3>2. \A i \in 1..N : i < batch + 1 => i < batch \/ i = batch BY <3>1
    <3> QED BY <2>6, <3>1, <3>2 DEF Done
  <2>8. /\ d = draft' /\ (d.op # NoOp => Of(d.op, d))
        /\ (d.kind = "create" => d.item = batch') /\ (d.kind = "cancel" => d.item = cancels')
        /\ (cancels' > 0 \/ d.kind = "cancel" => "cancelMany" \in asked)
        /\ Done("create", batch') /\ Done("cancel", cancels')
    BY <1>1, <2>1, <2>2, <2>4, <2>7, TurnIs
  <2> QED BY <1>1, <2>1, <2>4, <2>5, <2>8, TurnAsks
<1> QED BY <1>3, <1>4, <1>5, <1>6

\* What a step leaves that touches neither the draft nor a call.
LEMMA AsideInStep ==
  ASSUME BatchIInv, DialogueIInv', Stays,
         UNCHANGED <<item, interrupts, asked, cold, call, draft, batch, cancels>>, approval' \in {approval, NoOp},
         cold => work' = NoOp,
         \A o \in Ops : (effect[o] => effect'[o]) /\ (op[o].state = "free" => ~effect'[o]),
         UNCHANGED file \/ (Persist /\ ~cold)
  PROVE  BatchIInv'
<1>1. OneTurn' BY DEF BatchIInv, OneTurn, At
<1>2. Ledger' /\ \A k \in Kinds, m \in 0..N : Done(k, m) => Done(k, m)' BY LedgerKept
<1>3. Following' BY DEF BatchIInv, Following, Follows, Unlocked, At, Of
<1>4. /\ file' = file \/ file' = NoFile \/ file' = [draft |-> draft, batch |-> batch, cancels |-> cancels]
      /\ Filed'
  BY DEF BatchIInv, Filed, Persist, Kept, NoFile
<1>5. /\ NoFile.draft = NoDraft /\ NoFile.batch = 0 /\ NoFile.cancels = 0
      /\ \A d, b, n : LET f == [draft |-> d, batch |-> b, cancels |-> n] IN f.draft = d /\ f.batch = b /\ f.cancels = n
  BY DEF NoFile
<1>6. \/ file'.draft = file.draft /\ file'.batch = file.batch /\ file'.cancels = file.cancels
      \/ file'.draft = NoDraft /\ file'.batch = 0 /\ file'.cancels = 0
      \/ file'.draft = draft /\ file'.batch = batch /\ file'.cancels = cancels
  BY <1>4, <1>5
<1>7. Places' BY <1>6 DEF BatchIInv, Places, Placed, Of, NoDraft
<1>8. Advancing'
  <2>1. PICK b \in 0..N, n \in 0..N, fb \in 0..N, fn \in 0..N :
          b = batch /\ n = cancels /\ fb = file.batch /\ fn = file.cancels
    BY DEF DialogueIInv, DialogueTypeOK, BatchIInv
  <2>2. Done("create", b)' /\ Done("create", fb)' /\ Done("cancel", n)' /\ Done("cancel", fn)'
    BY <1>2, <2>1 DEF BatchIInv, Advancing, Kinds
  <2>3. Done("create", 0)' /\ Done("cancel", 0)' BY DEF Done
  <2> QED BY <1>6, <2>1, <2>2, <2>3 DEF Advancing, Done
<1> QED BY <1>1, <1>2, <1>3, <1>4, <1>7, <1>8 DEF BatchIInv

\* Only what was asked for is ever seen on the calendar.
LEMMA EffectGrows ==
  ASSUME BatchIInv, ServiceStep \/ UNCHANGED effect
  PROVE  \A o \in Ops : (effect[o] => effect'[o]) /\ (op[o].state = "free" => ~effect'[o])
<1>0. \A o \in Ops : op[o].state = "free" => ~effect[o] BY DEF BatchIInv, Ledger
<1>1. CASE UNCHANGED effect BY <1>0, <1>1
<1>2. ASSUME NEW g, Changed(g) PROVE \A o \in Ops : (effect[o] => effect'[o]) /\ (op[o].state = "free" => ~effect'[o])
  <2>1. effect' = [o \in Ops |-> effect[o] \/ (op[o].state # "free" /\ ShownBy(g, o))] BY <1>2 DEF Changed
  <2>2. \A o \in Ops : effect'[o] = (effect[o] \/ (op[o].state # "free" /\ ShownBy(g, o))) BY <2>1
  <2> QED BY <1>0, <2>2
<1>3. CASE OutsideEdit BY <1>2, <1>3 DEF OutsideEdit
<1>4. CASE \E o \in Ops : GoogleApplies(o) BY <1>2, <1>4 DEF GoogleApplies
<1>5. CASE ServiceStep /\ ~OutsideEdit /\ ~(\E o \in Ops : GoogleApplies(o))
  <2>1. UNCHANGED effect
    BY <1>5 DEF ServiceStep, PreviewRead, PreviewSaved, PreviewFails, GrowsLate, Write, WriteRefused, RecheckFails,
                GoogleRefuses, Answer, NoAnswer
  <2> QED BY <1>1, <2>1
<1> QED BY <1>1, <1>3, <1>4, <1>5

\* The service begins no write of its own.
LEMMA WorkStays == ASSUME ServiceStep PROVE work' \in {work, NoOp}
BY DEF ServiceStep, PreviewRead, PreviewSaved, PreviewFails, GrowsLate, Write, WriteRefused, RecheckFails,
       GoogleApplies, GoogleRefuses, Answer, NoAnswer, OutsideEdit, Settled

\* The service, Google, other people and a lost connection leave a batch where it is.
LEMMA ServiceInStep ==
  ASSUME BatchIInv, DialogueIInv',
         \/ (ServiceStep /\ UNCHANGED <<memory, last, file, cold, ghosts>>) \/ UNCHANGED dialogueVars
         \/ AnsweredElsewhere \/ Invalidate
  PROVE  BatchIInv'
<1>1. Stays
  <2>1. CASE ServiceStep BY <2>1, ServiceStepSafe, StaysIs DEF BatchIInv, DialogueIInv
  <2>2. CASE UNCHANGED dialogueVars \/ AnsweredElsewhere
    <3>1. op' = op BY <2>2 DEF AnsweredElsewhere, dialogueVars, service
    <3> QED BY <3>1, StaysIs DEF BatchIInv
  <2>3. CASE Invalidate BY <2>3, TalkIs, StaysIs DEF Invalidate, BatchIInv
  <2> QED BY <2>1, <2>2, <2>3
<1>2. /\ UNCHANGED <<item, interrupts, asked, cold, call, draft, batch, cancels>> /\ approval' \in {approval, NoOp}
      /\ UNCHANGED file \/ (Persist /\ ~cold)
  BY DEF memory, ghosts, dialogueVars, AnsweredElsewhere, Invalidate
<1>3. \A o \in Ops : (effect[o] => effect'[o]) /\ (op[o].state = "free" => ~effect'[o])
  BY EffectGrows DEF dialogueVars, service, AnsweredElsewhere, Invalidate, ServiceSame
<1>4. cold => work' = NoOp
  <2>1. work' \in {work, NoOp} BY WorkStays DEF dialogueVars, service, AnsweredElsewhere, Invalidate, ServiceSame
  <2> QED BY <2>1 DEF BatchIInv, OneTurn
<1> QED BY <1>1, <1>2, <1>3, <1>4, AsideInStep

\* A new process knows the file only.
LEMMA NewProcessInStep ==
  ASSUME BatchIInv, DialogueIInv', DialogueRestart
  PROVE  BatchIInv'
<1>1. /\ Stays /\ UNCHANGED <<item, interrupts, asked, file, effect>> /\ work' = NoOp
      /\ draft' = NoDraft /\ batch' = 0 /\ cancels' = 0 /\ approval' = NoOp /\ cold'
      /\ \A c \in Calls : call'[c] = NoCall
  BY StaysIs DEF DialogueRestart, ServiceRestart, ghosts, BatchIInv
<1>2. OneTurn' BY <1>1 DEF BatchIInv, OneTurn, At, NoCall
<1>3. \A o \in Ops : op[o].state = "free" => ~effect[o] BY DEF BatchIInv, Ledger
<1>4. Ledger' /\ \A k \in Kinds, m \in 0..N : Done(k, m) => Done(k, m)' BY <1>1, <1>3, LedgerKept
<1>5. Following' BY <1>1 DEF Following, Follows, At, NoCall
<1>6. Places' BY <1>1 DEF BatchIInv, Places, Placed, Of, NoDraft
<1>7. Filed' BY <1>1 DEF Filed
<1>8. Advancing'
  <2>1. PICK fb \in 0..N, fn \in 0..N : fb = file.batch /\ fn = file.cancels
    BY DEF DialogueIInv, DialogueTypeOK, BatchIInv
  <2>2. Done("create", fb)' /\ Done("cancel", fn)' BY <1>4, <2>1 DEF BatchIInv, Advancing, Kinds
  <2> QED BY <1>1, <2>1, <2>2 DEF Advancing, Done
<1> QED BY <1>2, <1>4, <1>5, <1>6, <1>7, <1>8 DEF BatchIInv

\* What the file says of the batch is what the new process goes on with, or the
\* next item, when the one on file turns out to be done.
LEMMA ResumedInStep ==
  ASSUME BatchIInv, Readable(file), NEW found \in BOOLEAN,
         NEW r \in IF file.draft.op = NoOp THEN {"none"} ELSE Findings(file.draft.op)
  PROVE  LET m == Resumed(r, found) IN
           /\ m.d.op # NoOp => m.d.op \in Ops /\ item[m.d.op] = <<m.d.kind, m.d.item>>
           /\ m.d.kind = "create" => m.d.item = m.b
           /\ m.d.kind = "cancel" => m.d.item = m.n
           /\ m.n > 0 \/ m.d.kind = "cancel" => "cancelMany" \in asked
           /\ Done("create", m.b) /\ Done("cancel", m.n)
<1> DEFINE d == file.draft
<1> DEFINE same == [d |-> d, b |-> file.batch, n |-> file.cancels]
<1>1. /\ Proper(d) /\ d # NoDraft /\ d.op \in Ops \cup {NoOp} /\ file.batch \in 0..N /\ file.cancels \in 0..N
      /\ DialogueIInv
  BY TalkIs DEF BatchIInv, Readable, Proper, Drafts
<1>2. /\ d.op # NoOp => d.op \in Ops /\ item[d.op] = <<d.kind, d.item>>
      /\ d.kind = "create" => d.item = file.batch
      /\ d.kind = "cancel" => d.item = file.cancels
      /\ file.cancels > 0 \/ d.kind = "cancel" => "cancelMany" \in asked
      /\ Done("create", file.batch) /\ Done("cancel", file.cancels)
  BY DEF BatchIInv, Places, Placed, Of, Advancing
<1>3. /\ file.batch > 0 => d.kind = "create"
      /\ file.cancels > 0 => d.kind = "cancel"
  BY DEF Readable
<1>4. d.op # NoOp /\ r = "succeeded" => Saved(d.kind, d.item) # {}
  <2> SUFFICES ASSUME d.op # NoOp, r = "succeeded" PROVE Saved(d.kind, d.item) # {} OBVIOUS
  <2>1. PICK o \in Ops : o = d.op BY <1>2
  <2>2. r \in Findings(o) BY <2>1
  <2>3. op[o].state \in {"succeeded", "unknown", "sending"} /\ Shows(o) BY <2>2 DEF Findings
  <2>4. effect[o] BY <1>1, <2>3 DEF DialogueIInv, ServiceIInv, Effects
  <2>5. o \in Saved(d.kind, d.item) BY <1>2, <2>1, <2>4 DEF Saved
  <2> QED BY <2>5
<1>5. \/ Resumed(r, found) = same
      \/ /\ d.op # NoOp /\ r = "succeeded" /\ file.batch > 0 /\ file.batch < N
         /\ Resumed(r, found) = [same EXCEPT !.b = file.batch + 1, !.d = Draft("create", file.batch + 1)]
      \/ /\ d.op # NoOp /\ r = "succeeded" /\ file.cancels > 0 /\ file.cancels < N
         /\ Resumed(r, found) = [same EXCEPT !.n = file.cancels + 1, !.d = Draft("cancel", file.cancels + 1)]
      \/ Resumed(r, found) = [d |-> NoDraft, b |-> 0, n |-> 0]
      \/ Resumed(r, found) = [same EXCEPT !.d.blocked = TRUE]
      \/ Resumed(r, found) = [same EXCEPT !.d.blocked = FALSE, !.d.op = NoOp]
  BY DEF Resumed
<1>6. CASE Resumed(r, found) = same BY <1>2, <1>6
<1>7. CASE /\ d.op # NoOp /\ r = "succeeded" /\ file.batch > 0 /\ file.batch < N
           /\ Resumed(r, found) = [same EXCEPT !.b = file.batch + 1, !.d = Draft("create", file.batch + 1)]
  <2>1. file.batch + 1 \in 0..N BY <1>1, <1>7, DialogueAssumption
  <2>2. Draft("create", file.batch + 1).kind = "create" /\ Draft("create", file.batch + 1).item = file.batch + 1
        /\ Draft("create", file.batch + 1).op = NoOp
    BY <2>1, DraftIs DEF Kinds
  <2>3. Saved("create", file.batch) # {} BY <1>2, <1>3, <1>4, <1>7
  <2>4. \A i \in 1..N : i < file.batch + 1 => i < file.batch \/ i = file.batch BY <1>1
  <2>5. Done("create", file.batch + 1) BY <1>2, <2>3, <2>4 DEF Done
  <2>6. ~(file.cancels > 0) BY <1>3, <1>7
  <2> QED BY <1>2, <1>7, <2>2, <2>5, <2>6
<1>8. CASE /\ d.op # NoOp /\ r = "succeeded" /\ file.cancels > 0 /\ file.cancels < N
           /\ Resumed(r, found) = [same EXCEPT !.n = file.cancels + 1, !.d = Draft("cancel", file.cancels + 1)]
  <2>1. file.cancels + 1 \in 0..N BY <1>1, <1>8, DialogueAssumption
  <2>2. Draft("cancel", file.cancels + 1).kind = "cancel" /\ Draft("cancel", file.cancels + 1).item = file.cancels + 1
        /\ Draft("cancel", file.cancels + 1).op = NoOp
    BY <2>1, DraftIs DEF Kinds
  <2>3. Saved("cancel", file.cancels) # {} BY <1>2, <1>3, <1>4, <1>8
  <2>4. \A i \in 1..N : i < file.cancels + 1 => i < file.cancels \/ i = file.cancels BY <1>1
  <2>5. Done("cancel", file.cancels + 1) BY <1>2, <2>3, <2>4 DEF Done
  <2> QED BY <1>2, <1>8, <2>2, <2>5
<1>9. CASE Resumed(r, found) = [d |-> NoDraft, b |-> 0, n |-> 0]
  <2>1. NoDraft.kind = "none" /\ NoDraft.op = NoOp BY DEF NoDraft
  <2>2. Done("create", 0) /\ Done("cancel", 0) BY DEF Done
  <2> QED BY <1>9, <2>1, <2>2
<1>10. CASE \E x : Resumed(r, found) = [same EXCEPT !.d = x] /\ x.kind = d.kind /\ x.item = d.item /\ x.op \in {d.op, NoOp}
  <2>1. PICK x : Resumed(r, found) = [same EXCEPT !.d = x] /\ x.kind = d.kind /\ x.item = d.item /\ x.op \in {d.op, NoOp}
    BY <1>10
  <2>2. Resumed(r, found).d = x /\ Resumed(r, found).b = file.batch /\ Resumed(r, found).n = file.cancels BY <2>1
  <2> QED BY <1>2, <2>1, <2>2
<1>11. /\ [same EXCEPT !.d.blocked = TRUE] = [same EXCEPT !.d = [d EXCEPT !.blocked = TRUE]]
       /\ [same EXCEPT !.d.blocked = FALSE, !.d.op = NoOp]
            = [same EXCEPT !.d = [d EXCEPT !.blocked = FALSE, !.op = NoOp]]
  OBVIOUS
<1>12. /\ [d EXCEPT !.blocked = TRUE].kind = d.kind /\ [d EXCEPT !.blocked = TRUE].item = d.item
       /\ [d EXCEPT !.blocked = TRUE].op = d.op
       /\ [d EXCEPT !.blocked = FALSE, !.op = NoOp].kind = d.kind
       /\ [d EXCEPT !.blocked = FALSE, !.op = NoOp].item = d.item /\ [d EXCEPT !.blocked = FALSE, !.op = NoOp].op = NoOp
  <2>1. d \in Drafts BY <1>1 DEF Proper
  <2> QED BY <2>1 DEF Drafts
<1>13. CASE Resumed(r, found) = [same EXCEPT !.d.blocked = TRUE]
  <2>1. Resumed(r, found) = [same EXCEPT !.d = [d EXCEPT !.blocked = TRUE]] BY <1>11, <1>13
  <2> QED BY <1>10, <1>12, <2>1
<1>14. CASE Resumed(r, found) = [same EXCEPT !.d.blocked = FALSE, !.d.op = NoOp]
  <2>1. Resumed(r, found) = [same EXCEPT !.d = [d EXCEPT !.blocked = FALSE, !.op = NoOp]] BY <1>11, <1>14
  <2> QED BY <1>10, <1>12, <2>1
<1> QED BY <1>5, <1>6, <1>7, <1>8, <1>9, <1>13, <1>14

\* It goes on with the batch on file, or with its next item.
LEMMA RestoreInStep ==
  ASSUME BatchIInv, DialogueIInv', Restore
  PROVE  BatchIInv'
<1>1. /\ cold /\ ~cold' /\ Persist /\ ServiceSame /\ UNCHANGED <<approval, call, last, ghosts>>
  BY DEF Restore
<1>2. UNCHANGED <<item, asked, interrupts, effect, work>> BY <1>1 DEF ghosts, ServiceSame
<1>3. /\ Stays
      /\ draft'.op # NoOp => draft'.op \in Ops /\ item[draft'.op] = <<draft'.kind, draft'.item>>
      /\ draft'.kind = "create" => draft'.item = batch'
      /\ draft'.kind = "cancel" => draft'.item = cancels'
      /\ cancels' > 0 \/ draft'.kind = "cancel" => "cancelMany" \in asked
      /\ Done("create", batch') /\ Done("cancel", cancels')
  <2>1. CASE ~Readable(file)
    <3>1. draft' = NoDraft /\ batch' = 0 /\ cancels' = 0 /\ op' = op BY <2>1 DEF Restore
    <3>2. Stays BY <3>1, StaysIs DEF BatchIInv
    <3>3. draft'.kind = "none" /\ draft'.op = NoOp BY <3>1 DEF NoDraft
    <3>4. Done("create", 0) /\ Done("cancel", 0) BY DEF Done
    <3> QED BY <3>1, <3>2, <3>3, <3>4
  <2>2. CASE Readable(file)
    <3>1. PICK r \in IF file.draft.op = NoOp THEN {"none"} ELSE Findings(file.draft.op), found \in BOOLEAN :
            /\ op' = IF file.draft.op = NoOp THEN op ELSE Reconciled(file.draft.op, r)
            /\ draft' = Resumed(r, found).d
            /\ batch' = Resumed(r, found).b /\ cancels' = Resumed(r, found).n
      BY <2>2 DEF Restore
    <3>2. PICK m : m = Resumed(r, found) OBVIOUS
    <3>3. draft' = m.d /\ batch' = m.b /\ cancels' = m.n BY <3>1, <3>2
    <3>4. /\ m.d.op # NoOp => m.d.op \in Ops /\ item[m.d.op] = <<m.d.kind, m.d.item>>
          /\ m.d.kind = "create" => m.d.item = m.b
          /\ m.d.kind = "cancel" => m.d.item = m.n
          /\ m.n > 0 \/ m.d.kind = "cancel" => "cancelMany" \in asked
          /\ Done("create", m.b) /\ Done("cancel", m.n)
      BY <2>2, <3>2, ResumedInStep
    <3>5. Stays
      <4>1. file.draft.op \in Ops \cup {NoOp} BY TalkIs DEF BatchIInv, Proper, Drafts
      <4> QED BY <1>1, <3>1, <4>1, StaysIs DEF BatchIInv
    <3> QED BY <3>3, <3>4, <3>5
  <2> QED BY <2>1, <2>2
<1>4. OneTurn'
  BY <1>1, <1>2 DEF BatchIInv, OneTurn, At
<1>5. \A o \in Ops : op[o].state = "free" => ~effect[o] BY DEF BatchIInv, Ledger
<1>6. Ledger' /\ \A k \in Kinds, m \in 0..N : Done(k, m) => Done(k, m)' BY <1>2, <1>3, <1>5, LedgerKept
<1>7. Following' BY <1>1 DEF BatchIInv, OneTurn, Following, Follows, At
<1>8. \/ file' = NoFile /\ draft' = NoDraft
      \/ file' = [draft |-> draft', batch |-> batch', cancels |-> cancels']
  BY <1>1 DEF Persist, Kept
<1>9. file'.draft = draft' /\ (file'.batch = 0 \/ file'.batch = batch') /\ (file'.cancels = 0 \/ file'.cancels = cancels')
      /\ (draft' # NoDraft => file'.batch = batch' /\ file'.cancels = cancels')
  <2>1. CASE file' = NoFile /\ draft' = NoDraft BY <2>1 DEF NoFile
  <2>2. CASE file' = [draft |-> draft', batch |-> batch', cancels |-> cancels'] BY <2>2
  <2> QED BY <1>8, <2>1, <2>2
<1>10. Filed' BY <1>9 DEF Filed
<1>11. Places' BY <1>2, <1>3, <1>9 DEF Places, Placed, Of, NoDraft
<1>12. Advancing'
  <2>1. PICK b \in 0..N, n \in 0..N : b = batch' /\ n = cancels' BY DEF DialogueIInv, DialogueTypeOK
  <2>2. Done("create", b)' /\ Done("cancel", n)' BY <1>3, <1>6, <2>1 DEF Kinds
  <2>3. Done("create", 0)' /\ Done("cancel", 0)' BY DEF Done
  <2> QED BY <1>9, <2>1, <2>2, <2>3 DEF Advancing, Done
<1> QED BY <1>4, <1>6, <1>7, <1>10, <1>11, <1>12 DEF BatchIInv

\* A new conversation has no batch.
LEMMA BatchBegins == DialogueInit => BatchIInv
<1> SUFFICES ASSUME DialogueInit PROVE BatchIInv OBVIOUS
<1>1. DialogueIInv BY DialogueBegins
<1>2. /\ draft = NoDraft /\ batch = 0 /\ cancels = 0 /\ approval = NoOp /\ ~cold /\ interrupts = 0
      /\ file.draft = NoDraft /\ file.batch = 0 /\ file.cancels = 0
      /\ \A c \in Calls : call[c] = NoCall
  BY DEF DialogueInit, NoFile
<1>3. OneTurn BY <1>2 DEF OneTurn, At, NoCall
<1>4. Ledger
  <2>1. <<"none", 0>> \in (Kinds \cup {"none"}) \X (0..N) BY DialogueAssumption
  <2>2. item \in [Ops -> (Kinds \cup {"none"}) \X (0..N)] BY <2>1 DEF DialogueInit
  <2>3. \A o \in Ops : op[o].state = "free" /\ ~effect[o] /\ item[o] = <<"none", 0>>
    BY DEF DialogueInit, ServiceInit, Unused
  <2> QED BY <2>2, <2>3 DEF Ledger
<1>5. Following BY <1>2 DEF Following, Follows, At, NoCall
<1>6. Places /\ Filed BY <1>2 DEF Places, Placed, NoDraft, Filed
<1>7. Advancing BY <1>2 DEF Advancing, Done
<1> QED BY <1>1, <1>3, <1>4, <1>5, <1>6, <1>7 DEF BatchIInv

\* Every step keeps a batch in step while the user speaks one turn at a time.
LEMMA BatchStep == Orderly /\ BatchIInv /\ [DialogueNext]_dialogueVars => BatchIInv'
<1> SUFFICES ASSUME Orderly, BatchIInv, [DialogueNext]_dialogueVars PROVE BatchIInv' OBVIOUS
<1>1. DialogueIInv' BY DialogueStep DEF BatchIInv
<1>2. ASSUME NEW c \in Calls, Turn(c) PROVE BatchIInv'
  BY <1>1, <1>2, PlanInStep, AnswerInStep, DiscardInStep, MovesInStep, ComesBackInStep, SavedInStep, AskingInStep DEF Turn
<1> QED BY <1>1, <1>2, ServiceInStep, NewProcessInStep, RestoreInStep DEF DialogueNext

\* A batch goes forward one saved event at a time, in memory and on file: over
\* refusals, corrections, lost answers, restarts and any edits of other people,
\* while the user speaks one turn at a time.
THEOREM BatchNeverSkips == ASSUME Orderly PROVE DialogueSpec => []Advancing
<1>1. BatchIInv => Advancing BY DEF BatchIInv
<1>2. BatchIInv /\ [DialogueNext]_dialogueVars => BatchIInv' BY BatchStep
<1> QED BY <1>1, <1>2, BatchBegins, PTL DEF DialogueSpec

-----------------------------------------------------------------------------
(* No item of a batch is put on the calendar twice, when nobody else edits. *)

\* The requests that Google may have carried out, or still may.
Hot(o) == wire[o] \in {"sent", "applied"} \/ (work = o /\ wire[o] = "no")

\* A new event is there only as it was written.
Untouched ==
  /\ edits = 0
  /\ \A o \in Ops : /\ op[o].kind = "create" <=> op[o].target = o
                    /\ op[o].target \in Events \cup {o}
                    /\ google[o].there => google[o].by = o
                    /\ op[o].kind = "create" /\ effect[o] => wire[o] = "applied"

\* A refusal is a refusal, and what is under way is on file as such.
Refusals ==
  /\ \A o \in Ops : op[o].state \in {"conflict", "failed"} => wire[o] \in {"no", "stale", "denied"}
  /\ work # NoOp => op[work].state = "sending"

\* The operation was asked for the i-th of the new events.
Item(o, i) == item[o] = <<"create", i>>

\* Of the item at hand a request is out only while it is being saved, or the draft
\* is locked or waits for the new process to look; no later item was asked for.
AtHand ==
  file.draft.kind = "create" /\ file.draft.item > 0 =>
    /\ "itinerary" \in asked
    /\ \A o \in Ops :
      /\ \A i \in 1..N : Item(o, i) => i <= file.draft.item
      /\ Item(o, file.draft.item) /\ Hot(o) =>
           \/ file.draft.blocked /\ file.draft.op \in {o, NoOp}
           \/ file.draft.op = o /\ (cold \/ \E c \in Calls : At(c, "saving"))

\* An item has one request at most that may count.
Single ==
  \A i \in 1..N, o, q \in Ops :
    /\ Item(o, i) => "itinerary" \in asked
    /\ Item(o, i) /\ Item(q, i) /\ Hot(o) /\ Hot(q) => o = q

\* The inductive invariant for items that are written once.
OnceIInv == BatchIInv /\ Untouched /\ Refusals /\ AtHand /\ Single

\* Steps that send nothing and settle nothing.
LEMMA NothingSent ==
  ASSUME OnceIInv, Stays, UNCHANGED <<google, wire, edits, effect>>, work' \in {work, NoOp},
         \A o \in Ops : op'[o].state \in {"conflict", "failed"} => op[o].state = op'[o].state,
         work' # NoOp => op'[work].state = "sending"
  PROVE  Untouched' /\ Refusals' /\ \A o \in Ops : Hot(o)' => Hot(o)
<1>1. \A o \in Ops : Hot(o)' => Hot(o) BY ServiceAssumption DEF Hot
<1>2. Untouched' BY DEF OnceIInv, Untouched, Stays
<1>3. Refusals' BY DEF OnceIInv, Refusals
<1> QED BY <1>1, <1>2, <1>3

\* How the rows of a turn settle nothing.
LEMMA TurnSettlesNothing ==
  ASSUME OnceIInv, ServiceSame, op' = op \/ \E x \in Ops \cup {NoOp} : op' = Dismissed(x)
  PROVE  Stays /\ Untouched' /\ Refusals' /\ \A o \in Ops : Hot(o)' => Hot(o)
<1>0. op \in [Ops -> Rows] /\ work \in Ops \cup {NoOp} /\ BatchIInv /\ DialogueIInv
  BY DEF OnceIInv, BatchIInv, DialogueIInv, ServiceIInv, ServiceTypeOK
<1>1. Stays BY <1>0, StaysIs
<1>2. \A q \in Ops : op'[q].state = op[q].state \/ (op[q].state = "pending" /\ op'[q].state = "dismissed")
  <2>1. ASSUME NEW x \in Ops \cup {NoOp}, op' = Dismissed(x)
        PROVE  \A q \in Ops : op'[q].state = op[q].state \/ (op[q].state = "pending" /\ op'[q].state = "dismissed")
    BY <1>0, <2>1, DismissedIs
  <2> QED BY <2>1
<1>3. \A o \in Ops : op'[o].state \in {"conflict", "failed"} => op[o].state = op'[o].state BY <1>2
<1>4. work' # NoOp => op'[work].state = "sending" BY <1>0, <1>2 DEF ServiceSame, OnceIInv, Refusals
<1>5. UNCHANGED <<google, wire, edits, effect>> /\ work' \in {work, NoOp} BY DEF ServiceSame
<1> QED BY <1>1, <1>3, <1>4, <1>5, NothingSent

\* Nothing new is out, and the draft on file is the same or about no batch of new
\* events: each item still has one request at most.
LEMMA OnceKept ==
  ASSUME OnceIInv, BatchIInv', Untouched', Refusals', \A o \in Ops : Hot(o)' => Hot(o),
         UNCHANGED item, asked \subseteq asked',
         \/ file'.draft = file.draft /\ ((cold \/ \E c \in Calls : At(c, "saving")) => (cold' \/ \E c \in Calls : At(c, "saving")'))
         \/ file'.draft.kind # "create"
         \/ /\ ~cold /\ (\A c \in Calls : ~At(c, "saving"))
            /\ file'.draft.kind = file.draft.kind /\ file'.draft.item = file.draft.item
            /\ file.draft.blocked => file'.draft.blocked /\ file'.draft.op \in {file.draft.op, NoOp}
  PROVE  OnceIInv'
<1>1. Single' BY DEF OnceIInv, Single, Item
<1>2. AtHand' BY DEF OnceIInv, AtHand, Item
<1> QED BY <1>1, <1>2 DEF OnceIInv

\* What the service and Google do sends nothing that was not under way.
LEMMA ServiceOnce ==
  ASSUME OnceIInv, MaxEdits = 0, ServiceStep
  PROVE  Untouched' /\ Refusals' /\ \A o \in Ops : Hot(o)' => Hot(o)
<1>0. /\ op \in [Ops -> Rows] /\ wire \in [Ops -> Wires] /\ work \in Ops \cup {NoOp} /\ effect \in [Ops -> BOOLEAN]
      /\ google \in [Targets -> [there : BOOLEAN, etag : Nat, by : Ops \cup {NoOp}]]
      /\ ServiceIInv /\ DialogueIInv /\ BatchIInv
  BY DEF OnceIInv, BatchIInv, DialogueIInv, ServiceIInv, ServiceTypeOK
<1>1. Stays BY <1>0, ServiceStepSafe, StaysIs
<1>2. ASSUME NEW o \in Ops, PreviewRead(o) \/ PreviewSaved(o) \/ PreviewFails(o) \/ GrowsLate(o)
      PROVE  Untouched' /\ Refusals' /\ \A q \in Ops : Hot(q)' => Hot(q)
  <2>1. UNCHANGED <<work, google, wire, edits, effect>> BY <1>2 DEF PreviewRead, PreviewSaved, PreviewFails, GrowsLate
  <2>2. op[o].state \in {"reading", "overlapping", "pending"} /\ \A q \in Ops : q # o => op'[q] = op[q]
    BY <1>0, <1>2 DEF PreviewRead, PreviewSaved, PreviewFails, GrowsLate
  <2>3. op'[o].state \in {"overlapping", "pending", "lost"}
    <3>1. op[o] \in Rows BY <1>0
    <3>2. CASE PreviewRead(o) BY <1>0, <3>1, <3>2 DEF PreviewRead, Rows
    <3>3. CASE PreviewSaved(o) BY <1>0, <3>1, <3>3 DEF PreviewSaved, Rows
    <3>4. CASE PreviewFails(o) BY <1>0, <3>1, <3>4 DEF PreviewFails, Rows
    <3>5. CASE GrowsLate(o) BY <1>0, <3>1, <3>5 DEF GrowsLate, Rows
    <3> QED BY <1>2, <3>2, <3>3, <3>4, <3>5
  <2>4. \A q \in Ops : op'[q].state \in {"conflict", "failed"} => op[q].state = op'[q].state BY <2>2, <2>3
  <2>5. work' # NoOp => op'[work].state = "sending" BY <1>0, <2>1, <2>2 DEF OnceIInv, Refusals
  <2> QED BY <1>1, <2>1, <2>4, <2>5, NothingSent
<1>3. ASSUME NEW o \in Ops, WriteRefused(o) \/ RecheckFails(o) \/ Answer(o) \/ NoAnswer(o)
      PROVE  Untouched' /\ Refusals' /\ \A q \in Ops : Hot(q)' => Hot(q)
  <2>1. UNCHANGED <<google, wire, edits, effect>> /\ work' = NoOp
    BY <1>3 DEF WriteRefused, RecheckFails, Answer, NoAnswer, Settled
  <2>2. \A q \in Ops : Hot(q)' => Hot(q) BY <2>1, ServiceAssumption DEF Hot
  <2>3. Untouched' BY <1>1, <2>1 DEF OnceIInv, Untouched, Stays
  <2>4. PICK s \in States : op' = [op EXCEPT ![o].state = s] /\ (s \in {"conflict", "failed"} => wire[o] \in {"no", "stale", "denied"})
    <3>1. CASE Answer(o)
      <4>1. /\ wire[o] \in {"applied", "stale", "denied"} /\ op' = [op EXCEPT ![o].state = Outcome(wire[o])]
            /\ Outcome(wire[o]) \in {"succeeded", "conflict", "failed"}
            /\ wire[o] = "applied" => Outcome(wire[o]) = "succeeded"
        BY <3>1 DEF Answer, Settled, Outcome
      <4>2. Outcome(wire[o]) \in States BY <4>1 DEF States
      <4> QED BY <4>1, <4>2
    <3>2. CASE WriteRefused(o) BY <3>2 DEF WriteRefused, Settled, States
    <3>3. CASE RecheckFails(o) BY <3>3 DEF RecheckFails, Settled, States
    <3>4. CASE NoAnswer(o) BY <3>4 DEF NoAnswer, Settled, States
    <3> QED BY <1>3, <3>1, <3>2, <3>3, <3>4
  <2>5. op'[o].state = s /\ \A q \in Ops : q # o => op'[q] = op[q] BY <1>0, <2>4, RowChange
  <2>6. Refusals' BY <2>1, <2>4, <2>5 DEF OnceIInv, Refusals
  <2> QED BY <2>2, <2>3, <2>6
<1>4. ASSUME NEW o \in Ops, Write(o)
      PROVE  Untouched' /\ Refusals' /\ \A q \in Ops : Hot(q)' => Hot(q)
  <2>1. UNCHANGED <<op, work, google, edits, effect>> /\ work = o /\ wire[o] = "no" /\ wire' = [wire EXCEPT ![o] = "sent"]
    BY <1>4 DEF Write
  <2>2. wire'[o] = "sent" /\ \A q \in Ops : q # o => wire'[q] = wire[q] BY <1>0, <2>1
  <2>3. \A q \in Ops : Hot(q)' => Hot(q) BY <2>1, <2>2 DEF Hot
  <2>4. Untouched' BY <2>1, <2>2 DEF OnceIInv, Untouched
  <2>5. op[o].state = "sending" BY <2>1, ServiceAssumption DEF OnceIInv, Refusals
  <2>6. Refusals' BY <2>1, <2>2, <2>5 DEF OnceIInv, Refusals
  <2> QED BY <2>3, <2>4, <2>6
<1>5. ASSUME NEW o \in Ops, GoogleRefuses(o)
      PROVE  Untouched' /\ Refusals' /\ \A q \in Ops : Hot(q)' => Hot(q)
  <2>1. UNCHANGED <<op, work, google, edits, effect>> /\ wire[o] = "sent" BY <1>5 DEF GoogleRefuses
  <2>2. PICK w \in {"stale", "denied"} : wire' = [wire EXCEPT ![o] = w] BY <1>5 DEF GoogleRefuses
  <2>3. wire'[o] = w /\ \A q \in Ops : q # o => wire'[q] = wire[q] BY <1>0, <2>2
  <2>4. \A q \in Ops : Hot(q)' => Hot(q) BY <2>1, <2>3 DEF Hot
  <2>5. Untouched' BY <2>1, <2>3 DEF OnceIInv, Untouched
  <2>6. Refusals' BY <2>1, <2>3 DEF OnceIInv, Refusals
  <2> QED BY <2>4, <2>5, <2>6
<1>6. ASSUME NEW o \in Ops, GoogleApplies(o)
      PROVE  Untouched' /\ Refusals' /\ \A q \in Ops : Hot(q)' => Hot(q)
  <2> DEFINE e == op[o].target
  <2> DEFINE g == [google EXCEPT ![e] = Applied(o)]
  <2>1. /\ UNCHANGED <<op, work, edits>> /\ wire[o] = "sent" /\ wire' = [wire EXCEPT ![o] = "applied"]
        /\ google' = g /\ effect' = [q \in Ops |-> effect[q] \/ (op[q].state # "free" /\ ShownBy(g, q))]
    BY <1>6 DEF GoogleApplies, Changed
  <2>2. wire'[o] = "applied" /\ \A q \in Ops : q # o => wire'[q] = wire[q] BY <1>0, <2>1
  <2>3. \A q \in Ops : Hot(q)' => Hot(q) BY <2>1, <2>2 DEF Hot
  <2>4. e \in Targets /\ \A q \in Ops : q = e => q = o
    BY <1>0, ServiceAssumption DEF Rows, OnceIInv, Untouched
  <2>5. g[e].by = o /\ \A f \in Targets : f # e => g[f] = google[f]
    <3>1. g[e] = Applied(o) BY <1>0, <2>4
    <3> QED BY <1>0, <3>1 DEF Applied
  <2>6. \A q \in Ops : q \in Targets BY DEF Targets
  <2> HIDE DEF g, e
  <2>7. \A q \in Ops : g[q].there => g[q].by = q
    <3>1. ASSUME NEW q \in Ops, g[q].there PROVE g[q].by = q
      <4>1. CASE q = e BY <2>4, <2>5, <4>1
      <4>2. CASE q # e
        <5>1. g[q] = google[q] BY <2>5, <2>6, <4>2
        <5> QED BY <3>1, <5>1 DEF OnceIInv, Untouched
      <4> QED BY <4>1, <4>2
    <3> QED BY <3>1
  <2>8. ASSUME NEW q \in Ops, op[q].kind = "create", effect'[q] PROVE wire'[q] = "applied"
    <3>1. CASE effect[q] BY <2>2, <2>8, <3>1 DEF OnceIInv, Untouched
    <3>2. CASE ~effect[q]
      <4>1. ShownBy(g, q) BY <2>1, <2>8, <3>2
      <4>2. g[q].there BY <2>8, <4>1 DEF ShownBy, OnceIInv, Untouched
      <4>3. CASE q = o BY <2>2, <4>3
      <4>4. CASE q # o
        <5>1. g[q] = google[q] BY <2>4, <2>5, <2>6, <4>4
        <5>2. google[q].by = q /\ q # NoOp BY <4>2, <5>1, ServiceAssumption DEF OnceIInv, Untouched
        <5>3. wire[q] = "applied" BY <1>0, <2>6, <5>2 DEF ServiceIInv, Effects
        <5> QED BY <2>2, <4>4, <5>3
      <4> QED BY <4>3, <4>4
    <3> QED BY <3>1, <3>2
  <2>9. Untouched' BY <2>1, <2>7, <2>8 DEF OnceIInv, Untouched
  <2>10. op[o].state \notin {"conflict", "failed"} BY <2>1 DEF OnceIInv, Refusals
  <2>11. Refusals' BY <2>1, <2>2, <2>10 DEF OnceIInv, Refusals
  <2> QED BY <2>3, <2>9, <2>11
<1>7. ~OutsideEdit
  <2>1. edits = 0 BY DEF OnceIInv, Untouched
  <2> QED BY <2>1 DEF OutsideEdit
<1> QED BY <1>2, <1>3, <1>4, <1>5, <1>6, <1>7 DEF ServiceStep

\* What a turn knows of the file while it is not the one that saves.
LEMMA NotSaving ==
  ASSUME OnceIInv, NEW c \in Calls, ~At(c, "idle"), ~At(c, "saving")
  PROVE  ~cold /\ \A x \in Calls : ~At(x, "saving")
<1>1. BatchIInv BY DEF OnceIInv
<1>2. \A x \in Calls : x # c => At(x, "idle") BY <1>1, TurnIs
<1> QED BY <1>1, <1>2, TurnIs DEF At

\* What is put on file is the draft.
LEMMA PersistedIs ==
  ASSUME Persist PROVE file'.draft = draft'
<1>1. CASE draft' = NoDraft
  <2>1. file' = NoFile BY <1>1 DEF Persist, Kept
  <2> QED BY <1>1, <2>1 DEF NoFile
<1>2. CASE draft' # NoDraft
  <2>1. file' = [draft |-> draft', batch |-> batch', cancels |-> cancels'] BY <1>2 DEF Persist, Kept
  <2> QED BY <2>1
<1> QED BY <1>1, <1>2

\* The turns that send nothing: nothing is asked for, confirmed or unlocked.
LEMMA QuietTurnOnce ==
  ASSUME OnceIInv, BatchIInv', NEW c \in Calls, Orderly,
         \/ \E t \in Texts : Say(c, t)
         \/ Planned(c) \/ ReplyAborted(c) \/ JustAnswer(c) \/ Discard(c) \/ AskAgain(c) \/ RefreshRefused(c)
         \/ AskPlanner(c) \/ PlannerFails(c) \/ PlannerAnswers(c) \/ SelectMany(c) \/ BindFails(c)
         \/ PreviewShown(c) \/ PreviewAborted(c) \/ PreviewLost(c) \/ CancelledNext(c) \/ SavedLast(c)
  PROVE  OnceIInv'
<1>0. BatchIInv /\ call \in [Calls -> Call] /\ draft \in Drafts /\ approval \in Ops \cup {NoOp}
  BY TalkIs DEF OnceIInv, BatchIInv, Proper
<1>1. ServiceSame /\ UNCHANGED item /\ asked \subseteq asked'
  BY DEF Say, Planned, ReplyAborted, JustAnswer, Discard, AskAgain, RefreshRefused, AskPlanner, PlannerFails,
         PlannerAnswers, SelectMany, BindFails, PreviewShown, PreviewAborted, PreviewLost, CancelledNext, SavedLast,
         service, ServiceSame, ghosts
<1>2. op' = op \/ \E x \in Ops \cup {NoOp} : op' = Dismissed(x)
  <2>1. call[c].had \in Ops \cup {NoOp} /\ call[c].op \in Ops \cup {NoOp} BY <1>0 DEF Call
  <2>2. op' \in {op, Dismissed(call[c].had), Dismissed(call[c].op), Dismissed(approval)}
    BY DEF Say, Planned, ReplyAborted, JustAnswer, Discard, AskAgain, RefreshRefused, AskPlanner, PlannerFails,
           PlannerAnswers, SelectMany, BindFails, PreviewShown, PreviewAborted, PreviewLost, CancelledNext, SavedLast,
           service
  <2> QED BY <1>0, <2>1, <2>2
<1>3. Untouched' /\ Refusals' /\ \A o \in Ops : Hot(o)' => Hot(o) BY <1>1, <1>2, TurnSettlesNothing
<1>4. \/ file'.draft = file.draft /\ ~cold /\ (\A x \in Calls : ~At(x, "saving"))
      \/ file'.draft.kind # "create"
      \/ /\ ~cold /\ (\A x \in Calls : ~At(x, "saving"))
         /\ file'.draft.kind = file.draft.kind /\ file'.draft.item = file.draft.item
         /\ file.draft.blocked => file'.draft.blocked /\ file'.draft.op \in {file.draft.op, NoOp}
  <2>1. CASE \E t \in Texts : Say(c, t)
    <3>1. PICK t \in Texts : Say(c, t) BY <2>1
    <3>2. interrupts = 0 /\ MaxInterrupts = 0 BY DEF Orderly, OnceIInv, BatchIInv, OneTurn
    <3>3. \A x \in Calls : ~At(x, "idle") => interrupts < MaxInterrupts BY <3>1 DEF Say
    <3>4. \A x \in Calls : At(x, "idle") BY <3>2, <3>3
    <3> QED BY <3>1, <3>4 DEF Say, At
  <2>2. CASE Planned(c) \/ ReplyAborted(c) \/ JustAnswer(c) \/ AskAgain(c) \/ RefreshRefused(c)
             \/ AskPlanner(c) \/ PlannerAnswers(c) \/ SelectMany(c)
    <3>1. ~At(c, "idle") /\ ~At(c, "saving") /\ file' = file
      BY <2>2 DEF Planned, ReplyAborted, JustAnswer, AskAgain, RefreshRefused, AskPlanner, PlannerAnswers, SelectMany,
                  Replies, At
    <3> QED BY <3>1, NotSaving
  <2>3. CASE Discard(c) \/ SavedLast(c)
    <3>1. Persist /\ draft' = NoDraft BY <2>3 DEF Discard, SavedLast
    <3>2. file'.draft = NoDraft BY <3>1, PersistedIs
    <3> QED BY <3>2 DEF NoDraft
  <2>4. CASE CancelledNext(c)
    <3>1. /\ Back(c, {"succeeded"}) /\ op[call[c].op].kind = "cancel" /\ file' = file /\ ~At(c, "idle")
      BY <2>4 DEF CancelledNext, Back, At
    <3>2. draft # NoDraft /\ draft.kind = "cancel" BY <1>0, <3>1, SavedIs
    <3>3. file.draft = draft BY <1>0, <3>1, <3>2, TurnIs
    <3> QED BY <3>1, <3>2, <3>3
  <2>5. CASE PlannerFails(c) \/ BindFails(c) \/ PreviewShown(c) \/ PreviewAborted(c) \/ PreviewLost(c)
    <3>1. ~At(c, "idle") /\ ~At(c, "saving")
      BY <2>5 DEF PlannerFails, BindFails, PreviewShown, PreviewAborted, PreviewLost, At
    <3>2. ~call[c].aborted /\ Follows(c) /\ (draft # NoDraft => file.draft = draft) BY <1>0, <3>1, TurnIs
    <3>3. ~cold /\ \A x \in Calls : ~At(x, "saving") BY <3>1, NotSaving
    <3>4. CASE Caught(c)
      <4>1. draft' = [draft EXCEPT !.op = NoOp] BY <3>4 DEF Caught
      <4>2. CASE draft = NoDraft BY <3>3, <3>4, <4>2 DEF Caught
      <4>3. CASE draft # NoDraft
        <5>1. file'.draft = draft' BY <3>4, <4>3, PersistedIs DEF Caught, Persist
        <5>2. draft'.kind = draft.kind /\ draft'.item = draft.item /\ draft'.blocked = draft.blocked /\ draft'.op = NoOp
          BY <1>0, <4>1 DEF Drafts
        <5> QED BY <3>2, <3>3, <4>3, <5>1, <5>2
      <4> QED BY <4>2, <4>3
    <3>5. CASE PreviewShown(c)
      <4>1. draft # NoDraft /\ ~draft.blocked BY <3>2, <3>5 DEF PreviewShown, Follows
      <4>2. /\ Persist
            /\ draft' = [draft EXCEPT !.op = call[c].op, !.blocked = draft.blocked /\ ~At(c, "refresh")]
        BY <3>5 DEF PreviewShown
      <4>3. draft'.kind = draft.kind /\ draft'.item = draft.item BY <1>0, <4>2 DEF Drafts
      <4> QED BY <3>2, <3>3, <4>1, <4>2, <4>3, PersistedIs
    <3>6. CASE draft' = draft /\ Persist
      <4>1. file'.draft = draft BY <3>6, PersistedIs
      <4> QED BY <3>2, <3>3, <4>1 DEF NoDraft
    <3>7. CASE file' = file BY <3>3, <3>7
    <3>8. PlannerFails(c) => Caught(c) BY DEF PlannerFails
    <3>9. BindFails(c) => Caught(c) \/ (draft' = draft /\ Persist) BY <3>2 DEF BindFails
    <3>10. ~PreviewAborted(c) BY <3>2 DEF PreviewAborted, Follows
    <3>11. PreviewLost(c) => Caught(c) \/ file' = file BY <3>2 DEF PreviewLost
    <3> QED BY <2>5, <3>4, <3>5, <3>6, <3>7, <3>8, <3>9, <3>10, <3>11
  <2> QED BY <2>1, <2>2, <2>3, <2>4, <2>5
<1> QED BY <1>1, <1>3, <1>4, OnceKept

\* A new process finds what the old one had sent: it is still out.
LEMMA ElsewhereOnce ==
  ASSUME OnceIInv, BatchIInv', MaxEdits = 0,
         \/ (ServiceStep /\ UNCHANGED <<memory, last, file, cold, ghosts>>) \/ UNCHANGED dialogueVars
         \/ AnsweredElsewhere \/ Invalidate \/ DialogueRestart
  PROVE  OnceIInv'
<1>0. BatchIInv /\ op \in [Ops -> Rows] /\ ServiceIInv /\ approval \in Ops \cup {NoOp}
  BY TalkIs DEF OnceIInv, BatchIInv, DialogueIInv, ServiceIInv, ServiceTypeOK
<1>1. CASE ServiceStep /\ UNCHANGED <<memory, last, file, cold, ghosts>>
  <2>1. UNCHANGED <<file, cold, call, item, asked>> BY <1>1 DEF memory, ghosts
  <2>2. Untouched' /\ Refusals' /\ \A o \in Ops : Hot(o)' => Hot(o) BY <1>1, ServiceOnce
  <2> QED BY <2>1, <2>2, OnceKept DEF At
<1>2. CASE UNCHANGED dialogueVars \/ AnsweredElsewhere
  <2>1. UNCHANGED <<file, cold, call, item, asked>> /\ ServiceSame /\ op' = op
    BY <1>2 DEF AnsweredElsewhere, dialogueVars, memory, ghosts, service, ServiceSame
  <2>2. Untouched' /\ Refusals' /\ \A o \in Ops : Hot(o)' => Hot(o) BY <2>1, TurnSettlesNothing
  <2> QED BY <2>1, <2>2, OnceKept DEF At
<1>3. CASE Invalidate
  <2>1. UNCHANGED <<cold, call, draft, item, asked>> /\ Persist /\ ServiceSame /\ op' = Dismissed(approval) /\ approval # NoOp
        /\ ~cold
    BY <1>3 DEF Invalidate, ghosts
  <2>2. Untouched' /\ Refusals' /\ \A o \in Ops : Hot(o)' => Hot(o) BY <1>0, <2>1, TurnSettlesNothing
  <2>3. draft # NoDraft /\ file.draft = draft
    BY <2>1 DEF OnceIInv, BatchIInv, Following, Unlocked, Filed
  <2>4. file'.draft = file.draft BY <2>1, <2>3, PersistedIs
  <2> QED BY <2>1, <2>2, <2>4, OnceKept DEF At
<1>4. CASE DialogueRestart
  <2>1. UNCHANGED <<file, item, asked, google, wire, edits, effect>> /\ cold' /\ work' = NoOp /\ op' = Recovered /\ ServiceRestart
    BY <1>4 DEF DialogueRestart, ServiceRestart, ghosts
  <2>2. Stays BY <1>0, <2>1, StaysIs DEF BatchIInv
  <2>3. \A o \in Ops : op'[o].state \in {"conflict", "failed"} => op[o].state = op'[o].state
    <3>1. ASSUME NEW o \in Ops, op'[o].state \in {"conflict", "failed"} PROVE op[o].state = op'[o].state
      <4>1. op'[o] = CASE op[o].state = "sending" -> [op[o] EXCEPT !.state = "unknown"]
                       [] op[o].state = "pending" -> [op[o] EXCEPT !.state = "expired"]
                       [] op[o].state \in {"reading", "overlapping"} -> [op[o] EXCEPT !.state = "lost"]
                       [] OTHER -> op[o]
        BY <2>1 DEF Recovered
      <4>2. op[o] \in Rows BY <1>0
      <4> QED BY <3>1, <4>1, <4>2 DEF Rows
    <3> QED BY <3>1
  <2>4. Untouched' /\ Refusals' /\ \A o \in Ops : Hot(o)' => Hot(o) BY <2>1, <2>2, <2>3, NothingSent
  <2> QED BY <2>1, <2>4, OnceKept
<1> QED BY <1>1, <1>2, <1>3, <1>4

\* The result is there: the draft is locked when nobody knows, and a refusal
\* means that nothing is out.
LEMMA ResultOnce ==
  ASSUME OnceIInv, BatchIInv', NEW c \in Calls, NotSaved(c)
  PROVE  OnceIInv'
<1>1. /\ ~At(c, "idle") /\ At(c, "saving") /\ Persist /\ UNCHANGED <<item, asked, cold, service>>
      /\ op[call[c].op].state \in {"unknown", "conflict", "failed"} /\ work # call[c].op
      /\ draft' = IF op[call[c].op].state = "unknown" /\ draft # NoDraft THEN [draft EXCEPT !.blocked = TRUE] ELSE draft
  BY DEF NotSaved, Back, At, ghosts
<1>2. BatchIInv /\ draft \in Drafts BY TalkIs DEF OnceIInv, BatchIInv, Proper
<1>3. draft # NoDraft /\ call[c].op # NoOp /\ draft.op = call[c].op /\ file.draft = draft /\ ~cold /\ call[c].op \in Ops
  BY <1>1, <1>2, TurnIs DEF Follows, Unlocked
<1>4. file'.draft = draft' BY <1>1, PersistedIs
<1>5. /\ draft'.kind = draft.kind /\ draft'.item = draft.item /\ draft'.op = draft.op
      /\ op[call[c].op].state = "unknown" => draft'.blocked
      /\ draft.blocked => draft'.blocked
  BY <1>1, <1>2, <1>3 DEF Drafts
<1>6. ServiceSame /\ op' = op BY <1>1 DEF service, ServiceSame
<1>7. Untouched' /\ Refusals' /\ \A o \in Ops : Hot(o)' => Hot(o) BY <1>6, TurnSettlesNothing
<1>8. op[call[c].op].state # "unknown" => ~Hot(call[c].op)
  BY <1>1, <1>3 DEF Hot, OnceIInv, Refusals
<1>9. AtHand'
  <2>1. ASSUME draft.kind = "create", draft.item > 0, NEW o \in Ops, Item(o, draft.item), Hot(o)
        PROVE  draft'.blocked /\ draft'.op \in {o, NoOp}
    <3>1. draft.op = o \/ (draft.blocked /\ draft.op \in {o, NoOp}) BY <1>3, <2>1 DEF OnceIInv, AtHand
    <3>2. draft.op = o BY <1>3, <3>1
    <3> QED BY <1>3, <1>5, <1>8, <2>1, <3>2
  <2>2. draft.kind = "create" /\ draft.item > 0 => "itinerary" \in asked /\ \A o \in Ops : \A i \in 1..N : Item(o, i) => i <= draft.item
    BY <1>3 DEF OnceIInv, AtHand
  <2> QED BY <1>1, <1>4, <1>5, <1>7, <2>1, <2>2 DEF AtHand, Item
<1>10. Single' BY <1>1, <1>7 DEF OnceIInv, Single, Item
<1> QED BY <1>7, <1>9, <1>10 DEF OnceIInv

\* A write begins: no other request for its item is out.
LEMMA SaveOnce ==
  ASSUME OnceIInv, BatchIInv', NEW c \in Calls, Save(c)
  PROVE  OnceIInv'
<1>0. BatchIInv /\ DialogueIInv /\ ServiceIInv /\ op \in [Ops -> Rows] /\ call \in [Calls -> Call]
  BY TalkIs DEF OnceIInv, BatchIInv, DialogueIInv, ServiceIInv, ServiceTypeOK
<1>1. /\ At(c, "reply") /\ ~At(c, "idle") /\ ~At(c, "saving") /\ call[c].had # NoOp /\ Confirm(call[c].had)
      /\ call' = [call EXCEPT ![c].stage = "saving", ![c].op = call[c].had]
      /\ UNCHANGED <<file, cold, item, asked, draft>>
  BY DEF Save, Replies, Valid, At, ghosts
<1>2. PICK o \in Ops : o = call[c].had BY <1>0, <1>1 DEF Call
<1>3. /\ draft # NoDraft /\ ~draft.blocked /\ draft.op = o /\ file.draft = draft
      /\ item[o] = <<draft.kind, draft.item>>
  BY <1>0, <1>1, <1>2, TurnIs DEF Follows, Unlocked
<1>4. ~cold /\ \A x \in Calls : ~At(x, "saving") BY <1>1, NotSaving
<1>5. At(c, "saving")' BY <1>0, <1>1 DEF At, Call
<1>6. /\ op'[o].state = "sending" /\ op'[o].kind = op[o].kind /\ op'[o].target = op[o].target
      /\ \A q \in Ops : q # o => op'[q] = op[q]
  BY <1>0, <1>1, <1>2, ConfirmedSafe
<1>7. work' = o /\ UNCHANGED <<google, wire, edits, effect>> BY <1>1, <1>2 DEF Confirm
<1>8. Untouched' BY <1>6, <1>7 DEF OnceIInv, Untouched
<1>9. Refusals' BY <1>6, <1>7 DEF OnceIInv, Refusals
<1>10. \A q \in Ops : q # o /\ Hot(q)' => Hot(q) BY <1>7 DEF Hot
<1>11. draft.kind = "create" /\ draft.item > 0 => \A q \in Ops : ~(Item(q, draft.item) /\ Hot(q))
  BY <1>3, <1>4 DEF OnceIInv, AtHand
<1>12. AtHand'
  <2>1. \A q \in Ops : Item(q, draft.item)' /\ Hot(q)' /\ draft.kind = "create" /\ draft.item > 0 => q = o
    BY <1>1, <1>10, <1>11 DEF Item
  <2>2. draft.kind = "create" /\ draft.item > 0 => "itinerary" \in asked /\ \A q \in Ops : \A i \in 1..N : Item(q, i) => i <= draft.item
    BY <1>3 DEF OnceIInv, AtHand
  <2> QED BY <1>1, <1>3, <1>5, <2>1, <2>2 DEF AtHand, Item
<1>13. Single'
  <2>1. ASSUME NEW i \in 1..N, NEW q \in Ops, q # o, Item(o, i), Item(q, i), Hot(q)' PROVE FALSE
    <3>1. draft.kind = "create" /\ draft.item = i BY <1>3, <2>1 DEF Item
    <3>2. draft.item > 0 BY <3>1
    <3> QED BY <1>10, <1>11, <2>1, <3>1, <3>2
  <2> QED BY <1>1, <1>10, <2>1 DEF OnceIInv, Single, Item
<1> QED BY <1>8, <1>9, <1>12, <1>13 DEF OnceIInv

\* A preview is asked for, when no other request for its item is out.
LEMMA AskOnce ==
  ASSUME OnceIInv, BatchIInv', NEW c \in Calls, NEW held \in Ops \cup {NoOp}, NEW d, Proper(d), d # NoDraft,
         NEW s \in Stages, Asks(c, Dismissed(held), d, s), ServiceSame, asked \subseteq asked', file'.draft = d,
         d.kind = "create" /\ d.item > 0 =>
           /\ "itinerary" \in asked'
           /\ \A q \in Ops : /\ \A i \in 1..N : Item(q, i) => i <= d.item
                             /\ ~(Item(q, d.item) /\ Hot(q))
  PROVE  OnceIInv'
<1>0. BatchIInv /\ DialogueIInv /\ ServiceIInv BY DEF OnceIInv, BatchIInv, DialogueIInv
<1>1. PICK o \in Ops :
        /\ work = NoOp /\ op[o].state = "free" /\ op'[o].state # "free"
        /\ op'[o].kind = d.kind /\ op'[o].target = TargetOf(d, o)
        /\ call' = [call EXCEPT ![c].stage = s, ![c].op = o]
        /\ item'[o] = <<d.kind, d.item>> /\ \A q \in Ops : q # o => item'[q] = item[q]
        /\ item' \in [Ops -> (Kinds \cup {"none"}) \X (0..N)]
        /\ \A q \in Ops : q # o => /\ op'[q].kind = op[q].kind /\ op'[q].target = op[q].target
                                   /\ op'[q].state = op[q].state
                                        \/ (op[q].state = "pending" /\ op'[q].state = "dismissed")
  BY <1>0, AskedIs
<1>2. wire[o] = "no" /\ ~effect[o] BY <1>0, <1>1 DEF ServiceIInv, Requests, SentStates, BatchIInv, Ledger
<1>3. UNCHANGED <<work, google, wire, edits, effect>> BY DEF ServiceSame
<1>4. \A q \in Ops : Hot(q)' => Hot(q) /\ q # o BY <1>1, <1>2, <1>3, ServiceAssumption DEF Hot
<1>5. d.kind = "create" <=> TargetOf(d, o) = o
  <2>1. d.item \in 0..N BY DEF Proper, Drafts
  <2>2. d.item > 0 => Listed[d.item] \in Events BY <2>1, DialogueAssumption
  <2> QED BY <2>2, DialogueAssumption, ServiceAssumption DEF TargetOf
<1>6. TargetOf(d, o) \in Events \cup {o}
  <2>1. d.item \in 0..N BY DEF Proper, Drafts
  <2>2. d.item > 0 => Listed[d.item] \in Events BY <2>1, DialogueAssumption
  <2> QED BY <2>2, DialogueAssumption DEF TargetOf
<1>7. Untouched' BY <1>1, <1>2, <1>3, <1>5, <1>6 DEF OnceIInv, Untouched
<1>8. Refusals' BY <1>1, <1>2, <1>3, ServiceAssumption DEF OnceIInv, Refusals
<1>9. \A q \in Ops, i \in 1..N : Item(q, i)' => Item(q, i) \/ (q = o /\ d.kind = "create" /\ d.item = i)
  BY <1>1 DEF Item
<1>10. AtHand'
  <2> SUFFICES ASSUME d.kind = "create", d.item > 0
               PROVE  \A q \in Ops : /\ \A i \in 1..N : Item(q, i)' => i <= d.item
                                     /\ ~(Item(q, d.item)' /\ Hot(q)')
    BY DEF AtHand, Item
  <2>1. d.item \in 1..N BY DEF Proper, Drafts
  <2>2. \A q \in Ops : \A i \in 1..N : Item(q, i)' => i <= d.item BY <1>9, <2>1
  <2>3. \A q \in Ops : ~(Item(q, d.item)' /\ Hot(q)') BY <1>4, <1>9, <2>1
  <2> QED BY <2>2, <2>3
<1>11. Single'
  <2>1. \A q \in Ops, i \in 1..N : Item(q, i)' => "itinerary" \in asked'
    <3>1. \A q \in Ops, i \in 1..N : Item(q, i) => "itinerary" \in asked' BY DEF OnceIInv, Single
    <3>2. \A i \in 1..N : i > 0 OBVIOUS
    <3> QED BY <1>9, <3>1, <3>2
  <2>2. ASSUME NEW i \in 1..N, NEW p \in Ops, NEW q \in Ops, Item(p, i)', Item(q, i)', Hot(p)', Hot(q)' PROVE p = q
    <3>1. Item(p, i) /\ Item(q, i) /\ Hot(p) /\ Hot(q) BY <1>4, <1>9, <2>2
    <3> QED BY <3>1 DEF OnceIInv, Single
  <2> QED BY <2>1, <2>2 DEF Single, Item
<1> QED BY <1>7, <1>8, <1>10, <1>11 DEF OnceIInv

\* The four turns that ask for one.
LEMMA AskingTurnOnce ==
  ASSUME OnceIInv, BatchIInv', Orderly, NEW c \in Calls, Refresh(c) \/ NewDraft(c) \/ Bound(c) \/ SavedNext(c)
  PROVE  OnceIInv'
<1>0. BatchIInv /\ DialogueIInv /\ Proper(draft) /\ call[c].had \in Ops \cup {NoOp} /\ Dismissed(NoOp) = op
      /\ {"refresh", "preview", "next"} \subseteq Stages /\ Proper(draft')
  BY TalkIs DEF OnceIInv, BatchIInv, DialogueIInv, Call, Dismissed, Stages
<1>1. ~At(c, "idle") BY DEF Refresh, NewDraft, Bound, SavedNext, Replies, Back, At
<1>2. CASE Refresh(c)
  <2>1. /\ draft # NoDraft /\ ~draft.blocked /\ Asks(c, Dismissed(call[c].had), draft, "refresh") /\ ServiceSame
        /\ UNCHANGED <<file, asked>> /\ ~At(c, "saving")
    BY <1>2 DEF Refresh, Replies, At
  <2>2. file.draft = draft /\ ~cold /\ \A x \in Calls : ~At(x, "saving") BY <1>0, <1>1, <2>1, TurnIs, NotSaving
  <2>3. PICK d : d = draft OBVIOUS
  <2>4. d.kind = "create" /\ d.item > 0 =>
          /\ "itinerary" \in asked'
          /\ \A q \in Ops : /\ \A i \in 1..N : Item(q, i) => i <= d.item
                            /\ ~(Item(q, d.item) /\ Hot(q))
    BY <2>1, <2>2, <2>3 DEF OnceIInv, AtHand
  <2>5. Asks(c, Dismissed(call[c].had), d, "refresh") /\ file'.draft = d /\ Proper(d) /\ d # NoDraft /\ asked \subseteq asked'
    BY <1>0, <2>1, <2>2, <2>3
  <2> QED BY <1>0, <2>1, <2>4, <2>5, AskOnce
<1>3. CASE NewDraft(c)
  <2> DEFINE t == call[c].text
  <2>1. /\ t \in Wishes \ {"cancelMany", "cancelRest"} /\ t \notin asked
        /\ asked' = asked \cup ({t} \cap {"itinerary"})
        /\ draft' = DraftFor(t) /\ Persist /\ ServiceSame /\ UNCHANGED cold
        /\ \/ Asks(c, op, DraftFor(t), "preview")
           \/ Ends(c) /\ UNCHANGED <<op, item>>
    BY <1>3 DEF NewDraft
  <2>2. t \in {"itinerary", "new", "edit"} BY <2>1, DialogueAssumption DEF Orderly
  <2>3. PICK d : d = DraftFor(t) OBVIOUS
  <2>4. /\ d # NoDraft /\ Proper(d)
        /\ d.kind = "create" /\ d.item > 0 => t = "itinerary" /\ d.item = 1
    <3>1. 1 \in 0..N /\ 0 \in 0..N BY DialogueAssumption
    <3> QED BY <2>2, <2>3, <3>1, DraftIs DEF DraftFor, Kinds
  <2>5. file'.draft = d BY <2>1, <2>3, PersistedIs
  <2>6. t = "itinerary" => \A q \in Ops, i \in 1..N : ~Item(q, i) BY <2>1 DEF OnceIInv, Single
  <2>7. d.kind = "create" /\ d.item > 0 =>
          /\ "itinerary" \in asked'
          /\ \A q \in Ops : /\ \A i \in 1..N : Item(q, i) => i <= d.item
                            /\ ~(Item(q, d.item) /\ Hot(q))
    <3>1. 1 \in 1..N BY DialogueAssumption
    <3> QED BY <2>1, <2>4, <2>6, <3>1
  <2>8. CASE Asks(c, op, DraftFor(t), "preview")
    <3>1. Asks(c, Dismissed(NoOp), d, "preview") BY <1>0, <2>3, <2>8
    <3>2. asked \subseteq asked' /\ ServiceSame BY <2>1
    <3> HIDE DEF t
    <3> QED BY <1>0, <2>4, <2>5, <2>7, <3>1, <3>2, AskOnce
  <2>9. CASE Ends(c) /\ UNCHANGED <<op, item>>
    <3>1. Untouched' /\ Refusals' /\ \A o \in Ops : Hot(o)' => Hot(o) BY <2>1, <2>9, TurnSettlesNothing
    <3>2. AtHand' BY <2>5, <2>7, <2>9, <3>1 DEF AtHand, Item
    <3>3. asked \subseteq asked' BY <2>1
    <3>4. Single' BY <2>9, <3>1, <3>3 DEF OnceIInv, Single, Item
    <3> QED BY <3>1, <3>2, <3>4 DEF OnceIInv
  <2> QED BY <2>1, <2>8, <2>9
<1>4. CASE Bound(c)
  <2>1. PICK s \in {"next", "preview"} : Asks(c, op, Draft("cancel", cancels), s) BY <1>4 DEF Bound
  <2>2. draft' = Draft("cancel", cancels) /\ Persist /\ ServiceSame /\ UNCHANGED asked BY <1>4 DEF Bound
  <2>3. PICK d : d = Draft("cancel", cancels) OBVIOUS
  <2>4. d # NoDraft /\ Proper(d) /\ d.kind = "cancel" BY <1>0, <2>3, TalkIs, DraftIs DEF Kinds
  <2>5. file'.draft = d BY <2>2, <2>3, PersistedIs
  <2>6. Asks(c, Dismissed(NoOp), d, s) /\ s \in Stages /\ asked \subseteq asked' BY <1>0, <2>1, <2>2, <2>3
  <2> QED BY <1>0, <2>2, <2>4, <2>5, <2>6, AskOnce
<1>5. CASE SavedNext(c)
  <2>1. /\ Back(c, {"succeeded"}) /\ op[call[c].op].kind = "create" /\ batch > 0 /\ batch < N
        /\ draft' = Draft("create", batch + 1) /\ Persist /\ ServiceSame /\ UNCHANGED asked
        /\ Asks(c, op, Draft("create", batch + 1), "next")
    BY <1>5 DEF SavedNext
  <2>2. PICK d : d = Draft("create", batch + 1) OBVIOUS
  <2>3. batch + 1 \in 0..N /\ batch \in 0..N BY <1>0, <2>1, TalkIs, DialogueAssumption
  <2>4. d # NoDraft /\ Proper(d) /\ d.kind = "create" /\ d.item = batch + 1 BY <2>2, <2>3, DraftIs DEF Kinds
  <2>5. file'.draft = d BY <2>1, <2>2, PersistedIs
  <2>6. Asks(c, Dismissed(NoOp), d, "next") /\ asked \subseteq asked' BY <1>0, <2>1, <2>2
  <2>7. draft # NoDraft /\ draft.kind = "create" /\ draft.item = batch /\ file.draft = draft
    BY <1>0, <1>1, <2>1, SavedIs, TurnIs
  <2>8. "itinerary" \in asked /\ \A q \in Ops : \A i \in 1..N : Item(q, i) => i <= batch
    BY <2>1, <2>7 DEF OnceIInv, AtHand
  <2>9. d.item \in 1..N /\ \A i \in 1..N : i <= batch => i <= d.item /\ i # d.item BY <2>1, <2>3, <2>4
  <2>10. \A q \in Ops : /\ \A i \in 1..N : Item(q, i) => i <= d.item
                        /\ ~Item(q, d.item)
    BY <2>8, <2>9
  <2> QED BY <1>0, <2>1, <2>4, <2>5, <2>6, <2>8, <2>10, AskOnce
<1> QED BY <1>2, <1>3, <1>4, <1>5

\* What the new process makes of the file: the item at hand is the one on file, or
\* the next one, and then nothing was asked for it.
LEMMA RestoreOnce ==
  ASSUME OnceIInv, BatchIInv', Restore
  PROVE  OnceIInv'
<1>0. /\ BatchIInv /\ DialogueIInv /\ ServiceIInv /\ op \in [Ops -> Rows]
      /\ Proper(file.draft) /\ file.draft \in Drafts /\ file.batch \in 0..N
  BY TalkIs DEF OnceIInv, BatchIInv, DialogueIInv, ServiceIInv, ServiceTypeOK, Proper
<1>1. /\ cold /\ ~cold' /\ Persist /\ ServiceSame /\ UNCHANGED <<item, asked, call>>
  BY DEF Restore, ghosts
<1>2. work = NoOp /\ (\A c \in Calls : ~At(c, "saving")) /\ UNCHANGED <<work, google, wire, edits, effect>>
  BY <1>0, <1>1 DEF BatchIInv, OneTurn, At, ServiceSame
<1>3. file'.draft = draft' BY <1>1, PersistedIs
<1>4. CASE ~Readable(file)
  <2>1. draft' = NoDraft /\ op' = op BY <1>4 DEF Restore
  <2>2. Untouched' /\ Refusals' /\ \A o \in Ops : Hot(o)' => Hot(o) BY <1>1, <2>1, TurnSettlesNothing
  <2>3. file'.draft.kind # "create" BY <1>3, <2>1 DEF NoDraft
  <2>4. AtHand' BY <2>3 DEF AtHand
  <2>5. Single' BY <1>1, <2>2 DEF OnceIInv, Single, Item
  <2> QED BY <2>2, <2>4, <2>5 DEF OnceIInv
<1>5. CASE Readable(file)
  <2> DEFINE d == file.draft
  <2> DEFINE same == [d |-> d, b |-> file.batch, n |-> file.cancels]
  <2>1. PICK r \in IF d.op = NoOp THEN {"none"} ELSE Findings(d.op), found \in BOOLEAN :
          /\ op' = IF d.op = NoOp THEN op ELSE Reconciled(d.op, r)
          /\ draft' = Resumed(r, found).d
    BY <1>5 DEF Restore
  <2>2. d.op \in Ops \cup {NoOp} BY <1>0 DEF Drafts
  <2>3. /\ Stays
        /\ \A q \in Ops : op'[q].state = op[q].state \/ op'[q].state \in {"succeeded", "unknown"}
    <3>1. CASE d.op = NoOp BY <1>0, <2>1, <3>1, StaysIs
    <3>2. CASE d.op # NoOp
      <4>1. PICK o \in Ops : o = d.op BY <2>2, <3>2
      <4>2. op' = Reconciled(o, r) /\ r \in Findings(o) BY <2>1, <3>2, <4>1
      <4>3. Stays BY <1>0, <1>1, <4>2, StaysIs
      <4>4. \A q \in Ops : op'[q].state = op[q].state \/ op'[q].state \in {"succeeded", "unknown"}
        <5>1. CASE op' = op BY <5>1
        <5>2. CASE op' = [op EXCEPT ![o].state = IF r = "succeeded" THEN "succeeded" ELSE "unknown"]
          <6>1. PICK s \in States : s = (IF r = "succeeded" THEN "succeeded" ELSE "unknown") /\ s \in {"succeeded", "unknown"}
            BY DEF States
          <6>2. op' = [op EXCEPT ![o].state = s] BY <5>2, <6>1
          <6>3. op'[o].state = s /\ \A q \in Ops : q # o => op'[q] = op[q] BY <1>0, <6>2, RowChange
          <6> QED BY <6>1, <6>3
        <5> QED BY <4>2, <5>1, <5>2 DEF Reconciled
      <4> QED BY <4>3, <4>4
    <3> QED BY <3>1, <3>2
  <2>4. Untouched' /\ Refusals' /\ \A o \in Ops : Hot(o)' => Hot(o)
    <3>1. \A o \in Ops : op'[o].state \in {"conflict", "failed"} => op[o].state = op'[o].state BY <2>3
    <3>2. work' \in {work, NoOp} /\ (work' # NoOp => op'[work].state = "sending") BY <1>2
    <3> QED BY <1>2, <2>3, <3>1, <3>2, NothingSent
  <2>5. Single' BY <1>1, <2>4 DEF OnceIInv, Single, Item
  <2>6. d.kind = "create" /\ d.item > 0 =>
          /\ "itinerary" \in asked
          /\ \A o \in Ops : /\ \A i \in 1..N : Item(o, i) => i <= d.item
                            /\ Item(o, d.item) /\ Hot(o) => (d.blocked /\ d.op \in {o, NoOp}) \/ d.op = o
    BY <1>2 DEF OnceIInv, AtHand
  <2>7. d.kind = "create" => d.item = file.batch BY <1>0 DEF BatchIInv, Places, Placed
  <2>8. \/ Resumed(r, found) = same /\ d.op = NoOp
        \/ /\ d.op # NoOp /\ r = "succeeded" /\ file.batch > 0 /\ file.batch < N
           /\ Resumed(r, found) = [same EXCEPT !.b = file.batch + 1, !.d = Draft("create", file.batch + 1)]
        \/ Resumed(r, found) = [same EXCEPT !.n = file.cancels + 1, !.d = Draft("cancel", file.cancels + 1)]
        \/ Resumed(r, found) = [d |-> NoDraft, b |-> 0, n |-> 0]
        \/ Resumed(r, found) = [same EXCEPT !.d.blocked = TRUE]
        \/ /\ d.op # NoOp /\ r \notin {"succeeded", "unknown", "sending"}
           /\ Resumed(r, found) = [same EXCEPT !.d.blocked = FALSE, !.d.op = NoOp]
    BY DEF Resumed
  <2>9. AtHand'
    <3>1. CASE Resumed(r, found) = same /\ d.op = NoOp
      <4>1. file'.draft = d BY <1>3, <2>1, <3>1
      <4> QED BY <1>1, <2>4, <2>6, <3>1, <4>1, ServiceAssumption DEF AtHand, Item
    <3>2. CASE /\ d.op # NoOp /\ r = "succeeded" /\ file.batch > 0 /\ file.batch < N
               /\ Resumed(r, found) = [same EXCEPT !.b = file.batch + 1, !.d = Draft("create", file.batch + 1)]
      <4>1. file'.draft = Draft("create", file.batch + 1) BY <1>3, <2>1, <3>2
      <4>2. file.batch + 1 \in 0..N BY <1>0, <3>2, DialogueAssumption
      <4>3. file'.draft.kind = "create" /\ file'.draft.item = file.batch + 1 BY <4>1, <4>2, DraftIs DEF Kinds
      <4>4. d.kind = "create" /\ d.item = file.batch BY <1>5, <2>7, <3>2 DEF Readable
      <4>5. "itinerary" \in asked /\ \A o \in Ops : \A i \in 1..N : Item(o, i) => i <= file.batch BY <2>6, <3>2, <4>4
      <4>6. file.batch + 1 \in 1..N /\ \A i \in 1..N : i <= file.batch => i <= file.batch + 1 /\ i # file.batch + 1
        BY <1>0, <4>2
      <4>7. \A o \in Ops : ~Item(o, file.batch + 1) /\ \A i \in 1..N : Item(o, i) => i <= file.batch + 1
        BY <4>5, <4>6
      <4> QED BY <1>1, <4>3, <4>5, <4>7 DEF AtHand, Item
    <3>3. CASE Resumed(r, found) = [same EXCEPT !.n = file.cancels + 1, !.d = Draft("cancel", file.cancels + 1)]
      <4>1. file'.draft = Draft("cancel", file.cancels + 1) BY <1>3, <2>1, <3>3
      <4>2. file'.draft.kind = "cancel" BY <4>1 DEF Draft, NoDraft
      <4> QED BY <4>2 DEF AtHand
    <3>4. CASE Resumed(r, found) = [d |-> NoDraft, b |-> 0, n |-> 0]
      <4>1. file'.draft = NoDraft BY <1>3, <2>1, <3>4
      <4>2. file'.draft.kind = "none" BY <4>1 DEF NoDraft
      <4> QED BY <4>2 DEF AtHand
    <3>5. CASE Resumed(r, found) = [same EXCEPT !.d.blocked = TRUE]
      <4>1. [same EXCEPT !.d.blocked = TRUE] = [same EXCEPT !.d = [d EXCEPT !.blocked = TRUE]] OBVIOUS
      <4>2. file'.draft = [d EXCEPT !.blocked = TRUE] BY <1>3, <2>1, <3>5, <4>1
      <4>3. /\ file'.draft.kind = d.kind /\ file'.draft.item = d.item /\ file'.draft.op = d.op /\ file'.draft.blocked
        BY <1>0, <4>2 DEF Drafts
      <4> QED BY <1>1, <2>4, <2>6, <4>3 DEF AtHand, Item
    <3>6. CASE /\ d.op # NoOp /\ r \notin {"succeeded", "unknown", "sending"}
               /\ Resumed(r, found) = [same EXCEPT !.d.blocked = FALSE, !.d.op = NoOp]
      <4>1. [same EXCEPT !.d.blocked = FALSE, !.d.op = NoOp] = [same EXCEPT !.d = [d EXCEPT !.blocked = FALSE, !.op = NoOp]]
        OBVIOUS
      <4>2. file'.draft = [d EXCEPT !.blocked = FALSE, !.op = NoOp] BY <1>3, <2>1, <3>6, <4>1
      <4>3. /\ file'.draft.kind = d.kind /\ file'.draft.item = d.item
        BY <1>0, <4>2 DEF Drafts
      <4>4. PICK o \in Ops : o = d.op BY <2>2, <3>6
      <4>5. r \in Findings(o) BY <2>1, <3>6, <4>4
      <4>6. op[o].kind = "create" => ~Hot(o)
        <5> SUFFICES ASSUME op[o].kind = "create", Hot(o) PROVE FALSE OBVIOUS
        <5>0. wire[o] \in {"sent", "applied"} BY <1>2, ServiceAssumption DEF Hot
        <5>1. op[o].state \in SentStates BY <1>0, <5>0 DEF ServiceIInv, Requests
        <5>2. op[o].state \notin {"conflict", "failed"} BY <5>0 DEF OnceIInv, Refusals
        <5>3. op[o].state \in {"succeeded", "unknown", "sending"} BY <5>1, <5>2 DEF SentStates
        <5>4. r = "conflict" /\ google[op[o].target].there /\ ~Shows(o) BY <3>6, <4>5, <5>3 DEF Findings
        <5>5. op[o].target = o BY DEF OnceIInv, Untouched
        <5> QED BY <5>4, <5>5 DEF OnceIInv, Untouched, Shows, ShownBy
      <4>7. d.kind = "create" => op[o].kind = "create"
        <5>1. item[o] = <<d.kind, d.item>> BY <1>0, <3>6, <4>4 DEF BatchIInv, Places, Placed, Of
        <5>2. item[o][1] = d.kind BY <5>1
        <5>3. op[o].state = "free" => item[o] = <<"none", 0>> BY <1>0 DEF BatchIInv, Ledger
        <5>4. op[o].state # "free" => item[o][1] = op[o].kind BY <1>0 DEF BatchIInv, Ledger
        <5>5. <<"none", 0>>[1] = "none" OBVIOUS
        <5> QED BY <5>2, <5>3, <5>4, <5>5
      <4>8. d.kind = "create" /\ d.item > 0 => \A q \in Ops : Item(q, d.item) => ~Hot(q)
        BY <2>6, <3>6, <4>4, <4>6, <4>7
      <4> QED BY <1>1, <2>4, <2>6, <4>3, <4>8 DEF AtHand, Item
    <3> QED BY <2>8, <3>1, <3>2, <3>3, <3>4, <3>5, <3>6
  <2> QED BY <2>4, <2>5, <2>9 DEF OnceIInv
<1> QED BY <1>4, <1>5

\* Nothing is asked for at first.
LEMMA OnceBegins == DialogueInit => OnceIInv
<1> SUFFICES ASSUME DialogueInit PROVE OnceIInv OBVIOUS
<1>1. BatchIInv BY BatchBegins
<1>2. /\ edits = 0 /\ work = NoOp /\ file.draft = NoDraft
      /\ \A o \in Ops : /\ op[o] = Unused(o) /\ wire[o] = "no" /\ ~effect[o] /\ item[o] = <<"none", 0>>
  BY DEF DialogueInit, ServiceInit, NoFile
<1>3. \A o \in Ops : op[o].kind = "create" /\ op[o].target = o /\ op[o].state = "free"
  <2>1. \A o \in Ops : Unused(o).kind = "create" /\ Unused(o).target = o /\ Unused(o).state = "free" BY DEF Unused
  <2> QED BY <1>2, <2>1
<1>4. \A o \in Ops : ~google[o].there
  <2>1. \A o \in Ops : o \in Targets /\ o \notin Events BY ServiceAssumption DEF Targets
  <2> QED BY <2>1 DEF DialogueInit, ServiceInit
<1>5. Untouched BY <1>2, <1>3, <1>4 DEF Untouched
<1>6. Refusals BY <1>2, <1>3 DEF Refusals
<1>7. AtHand BY <1>2 DEF AtHand, NoDraft
<1>8. Single BY <1>2 DEF Single, Item
<1> QED BY <1>1, <1>5, <1>6, <1>7, <1>8 DEF OnceIInv

\* Every step keeps it, while nobody speaks over a turn or edits the calendar.
LEMMA OnceStep == Orderly /\ MaxEdits = 0 /\ OnceIInv /\ [DialogueNext]_dialogueVars => OnceIInv'
<1> SUFFICES ASSUME Orderly, MaxEdits = 0, OnceIInv, [DialogueNext]_dialogueVars PROVE OnceIInv' OBVIOUS
<1>1. BatchIInv' BY BatchStep DEF OnceIInv
<1>2. ASSUME NEW c \in Calls, Turn(c) PROVE OnceIInv'
  BY <1>1, <1>2, QuietTurnOnce, AskingTurnOnce, SaveOnce, ResultOnce DEF Turn
<1> QED BY <1>1, <1>2, ElsewhereOnce, RestoreOnce DEF DialogueNext

\* A batch stays in step with the calendar and no item of it is put on it twice,
\* over refusals, corrections, lost answers and restarts, while the user speaks one
\* turn at a time and nobody else edits the calendar.
THEOREM BatchInStepAlways == ASSUME Orderly, MaxEdits = 0 PROVE DialogueSpec => []BatchInStep
<1>1. OnceIInv => BatchInStep
  <2> SUFFICES ASSUME OnceIInv PROVE BatchInStep OBVIOUS
  <2>1. BatchIInv /\ DialogueTypeOK BY DEF OnceIInv, BatchIInv, DialogueIInv
  <2>2. ASSUME NEW i \in 1..N PROVE Cardinality(Saved("create", i)) <= 1
    <3>1. ASSUME NEW o \in Saved("create", i) PROVE o \in Ops /\ Item(o, i) /\ Hot(o)
      <4>1. o \in Ops /\ item[o] = <<"create", i>> /\ effect[o] BY <3>1 DEF Saved
      <4>2. item[o][1] = "create" BY <4>1
      <4>3. op[o].kind = "create" BY <2>1, <4>1, <4>2 DEF BatchIInv, Ledger
      <4>4. wire[o] = "applied" BY <4>1, <4>3 DEF OnceIInv, Untouched
      <4> QED BY <4>1, <4>4 DEF Item, Hot
    <3>2. \A o, q \in Saved("create", i) : o = q BY <3>1 DEF OnceIInv, Single
    <3>3. CASE Saved("create", i) = {} BY <3>3, FS_EmptySet
    <3>4. CASE Saved("create", i) # {}
      <4>1. PICK o : o \in Saved("create", i) BY <3>4
      <4>2. Saved("create", i) = {o} BY <3>2, <4>1
      <4>3. Cardinality({o}) = 1 BY FS_Singleton
      <4> QED BY <4>2, <4>3
    <3> QED BY <3>3, <3>4
  <2>3. \A i \in 1..N : /\ i < batch \/ i < file.batch => Saved("create", i) # {}
                        /\ i < cancels \/ i < file.cancels => Saved("cancel", i) # {}
    BY <2>1 DEF BatchIInv, Advancing, Done
  <2> QED BY <2>1, <2>2, <2>3 DEF BatchInStep
<1>2. Orderly /\ MaxEdits = 0 /\ OnceIInv /\ [DialogueNext]_dialogueVars => OnceIInv' BY OnceStep
<1> QED BY <1>1, <1>2, OnceBegins, PTL DEF DialogueSpec

=============================================================================
