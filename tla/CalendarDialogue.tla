-------------------------- MODULE CalendarDialogue --------------------------
(***************************************************************************)
(* The calendar turns of one conversation (src/src/calendar-dialogue.ts)   *)
(* on top of the calendar service: the draft the user works on, the batch  *)
(* of events to create or to cancel one by one, the approval that waits    *)
(* for a spoken confirmation, the recovery file and the restoration of all *)
(* that in a new process.                                                  *)
(*                                                                         *)
(* A turn is a call: plan(), then reply().  Speaking while one is under    *)
(* way aborts it; it goes on until its next check of the signal, beside    *)
(* the call of the new turn.  What the user says is reduced to what the    *)
(* planners make of it (Texts).                                            *)
(***************************************************************************)
EXTENDS GoogleCalendar

CONSTANTS
    Calls,          \* slots for the calls under way
    Wishes,         \* what the user may ask for, besides the other Texts
    N,              \* events in a batch
    Listed,         \* the events of a cancel batch, in order
    Another,        \* an event that is in no batch
    MaxInterrupts   \* how often the user speaks over a call (bounds the run)

ASSUME DialogueAssumption ==
    /\ Wishes \subseteq {"itinerary", "cancelMany", "cancelRest", "new", "edit", "cancelOne"}
    /\ N \in Nat \ {0} /\ Listed \in [1..N -> Events] /\ Another \in Events
    /\ MaxInterrupts \in Nat

Texts == Wishes \cup {"confirm", "misheard", "resume", "discard", "query", "chat"}

VARIABLES
    draft,       \* this.draft
    batch,       \* this.batch: the item at hand, 0 when there is none
    cancels,     \* this.cancelBatch: likewise
    approval,    \* this.approval: the operation a confirmation would write
    last,        \* the operation whose prompt is the last assistant message
    call,        \* the calls under way
    file,        \* the recovery draft of the session store
    cold,        \* the process is new and has not restored the conversation
    item,        \* history: the batch item each operation is for
    asked,       \* history: the batches asked for (each once in a run)
    interrupts   \* interruptions so far

memory == <<draft, batch, cancels, approval, call>>
ghosts == <<item, asked, interrupts>>
dialogueVars == <<service, memory, last, file, cold, ghosts>>

NoDraft == [kind |-> "none", item |-> 0, blocked |-> FALSE, op |-> NoOp]
Drafts == [kind : Kinds \cup {"none"}, item : 0..N, blocked : BOOLEAN, op : Ops \cup {NoOp}]
Draft(k, i) == [NoDraft EXCEPT !.kind = k, !.item = i]

NoCall == [stage |-> "idle", text |-> "chat", had |-> NoOp, op |-> NoOp, aborted |-> FALSE]

Stages == {"idle", "planning", "reply", "planner", "binding", "preview",
           "next", "saving", "refresh"}

NoFile == [draft |-> NoDraft, batch |-> 0, cancels |-> 0]

DialogueInit ==
    /\ ServiceInit
    /\ draft = NoDraft /\ batch = 0 /\ cancels = 0
    /\ approval = NoOp /\ last = NoOp
    /\ call = [c \in Calls |-> NoCall]
    /\ file = NoFile /\ cold = FALSE
    /\ item = [o \in Ops |-> <<"none", 0>>] /\ asked = {} /\ interrupts = 0

At(c, s) == call[c].stage = s

\* A file that does not say which operation the draft was previewed as.
KeptWithoutOp(d, b, n) ==
    IF d = NoDraft THEN NoFile ELSE [draft |-> [d EXCEPT !.op = NoOp], batch |-> b, cancels |-> n]

\* persistDraft(): the batches go with a draft, nothing is kept without one.
Kept(d, b, n) == IF d = NoDraft THEN NoFile ELSE [draft |-> d, batch |-> b, cancels |-> n]

Persist == file' = Kept(draft', batch', cancels')

\* What parseCalendarRecoveryState accepts.
Readable(f) ==
    /\ f.draft # NoDraft
    /\ f.batch > 0 => f.draft.kind = "create"
    /\ f.cancels > 0 => f.draft.kind = "cancel"

\* The call ends; text that an aborted one would show is not shown.
Ends(c) == call' = [call EXCEPT ![c] = NoCall]
Shown(c, o) == last' = IF call[c].aborted THEN last ELSE o

ServiceSame == UNCHANGED <<work, google, wire, edits, posts, effect>>

-----------------------------------------------------------------------------
(* plan()                                                                  *)

\* The user speaks: the approval is taken, and whatever is under way aborted.
Say(c, t) ==
    /\ ~cold /\ At(c, "idle")
    /\ \A d \in Calls : ~At(d, "idle") => interrupts < MaxInterrupts
    /\ interrupts' = interrupts + Cardinality({d \in Calls : ~At(d, "idle")})
    /\ call' = [d \in Calls |->
                  IF d # c THEN [call[d] EXCEPT !.aborted = ~At(d, "idle")]
                  ELSE [NoCall EXCEPT
                         !.text = t, !.had = approval,
                         !.stage = IF \/ t \in {"confirm", "misheard"} /\ approval # NoOp
                                      \/ t \in {"confirm", "resume"} /\ draft # NoDraft
                                   THEN "reply" ELSE "planning"]]
    /\ approval' = NoOp
    /\ UNCHANGED <<service, draft, batch, cancels, last, file, cold, item, asked>>

\* The model has routed the turn; it is no confirmation, so what was to be
\* confirmed is dismissed.
Planned(c) ==
    /\ At(c, "planning")
    /\ op' = Dismissed(call[c].had)
    /\ \/ ~call[c].aborted /\ call' = [call EXCEPT ![c].stage = "reply"] /\ UNCHANGED last
       \/ Ends(c) /\ Shown(c, NoOp)
    /\ ServiceSame
    /\ UNCHANGED <<draft, batch, cancels, approval, file, cold, ghosts>>

\* Another dialogue of the chain answers a turn.
AnsweredElsewhere ==
    /\ ~cold /\ \A c \in Calls : At(c, "idle")
    /\ last # NoOp /\ last' = NoOp
    /\ UNCHANGED <<service, memory, file, cold, ghosts>>

-----------------------------------------------------------------------------
(* reply()                                                                 *)

ReplyAborted(c) ==
    /\ At(c, "reply") /\ call[c].aborted
    /\ Ends(c)
    /\ UNCHANGED <<service, draft, batch, cancels, approval, last, file, cold, ghosts>>

Replies(c, texts) == At(c, "reply") /\ ~call[c].aborted /\ call[c].text \in texts

\* An answer that touches nothing here, and a refusal of a locked draft.
JustAnswer(c) ==
    /\ \/ Replies(c, {"chat"})
       \/ Replies(c, Wishes) /\ draft.blocked
       \/ /\ Replies(c, {"confirm", "misheard", "resume"}) /\ call[c].had = NoOp
          /\ draft = NoDraft \/ draft.blocked
    /\ Ends(c) /\ last' = NoOp
    /\ UNCHANGED <<service, draft, batch, cancels, approval, file, cold, ghosts>>

\* endSession()
Discard(c) ==
    /\ Replies(c, {"discard"})
    /\ op' = Dismissed(approval)
    /\ approval' = NoOp /\ draft' = NoDraft /\ batch' = 0 /\ cancels' = 0
    /\ Persist /\ Ends(c) /\ last' = NoOp
    /\ ServiceSame /\ UNCHANGED <<cold, ghosts>>

\* A confirmation that any other answer may have come before.
ValidAnyhow(c) == LET o == call[c].had IN o # NoOp /\ ~op[o].late

\* The confirmation answers the prompt of the approval, which is still good.
Valid(c) == LET o == call[c].had IN o # NoOp /\ ~op[o].late /\ last = o

\* Not quite the phrase: the same approval, bound to the new prompt.
AskAgain(c) ==
    /\ Replies(c, {"misheard"}) /\ Valid(c)
    /\ approval' = call[c].had /\ last' = call[c].had
    /\ Ends(c)
    /\ UNCHANGED <<service, draft, batch, cancels, file, cold, ghosts>>

\* The write begins.  (Only a panel could make the service busy here.)
Save(c) ==
    /\ Replies(c, {"confirm"}) /\ Valid(c)
    /\ Confirm(call[c].had)
    /\ call' = [call EXCEPT ![c].stage = "saving", ![c].op = call[c].had]
    /\ UNCHANGED <<draft, batch, cancels, approval, last, file, cold, ghosts>>

\* The target of a draft: a create has its own, a batch lists them.
TargetOf(d, o) ==
    CASE d.kind = "create" -> o
      [] d.kind = "cancel" /\ d.item > 0 -> Listed[d.item]
      [] OTHER -> Another

\* service.preview for the draft d, on rows, in the given stage of the call.
Asks(c, rows, d, stage) ==
    \E o \in Ops :
        /\ CanPreview(o, d.kind, TargetOf(d, o))
        /\ op' = Previewing(rows, o, d.kind, TargetOf(d, o))
        /\ item' = [item EXCEPT ![o] = <<d.kind, d.item>>]
        /\ call' = [call EXCEPT ![c].stage = stage, ![c].op = o]

\* refreshDraft(): without a good approval the draft is previewed anew.
Refresh(c) ==
    /\ Replies(c, {"confirm", "misheard", "resume"}) /\ ~Valid(c)
    /\ draft # NoDraft /\ ~draft.blocked
    /\ Asks(c, Dismissed(call[c].had), draft, "refresh")
    /\ ServiceSame
    /\ UNCHANGED <<draft, batch, cancels, approval, last, file, cold, asked, interrupts>>

RefreshRefused(c) ==
    /\ Replies(c, {"confirm", "misheard", "resume"}) /\ ~Valid(c)
    /\ op' = Dismissed(call[c].had)
    /\ Ends(c) /\ last' = NoOp
    /\ ServiceSame
    /\ UNCHANGED <<draft, batch, cancels, approval, file, cold, ghosts>>

\* A request goes to the planner, unless the draft is locked.
AskPlanner(c) ==
    /\ Replies(c, {"query"}) \/ (Replies(c, Wishes) /\ ~draft.blocked)
    /\ call' = [call EXCEPT ![c].stage = "planner"]
    /\ UNCHANGED <<service, draft, batch, cancels, approval, last, file, cold, ghosts>>

\* The catch at the end of reply(): the draft stays but forgets its operation.
Caught(c) ==
    /\ draft' = [draft EXCEPT !.op = NoOp]
    /\ UNCHANGED <<batch, cancels>>
    /\ file' = IF draft = NoDraft THEN file ELSE Kept(draft', batch', cancels')
    /\ Ends(c) /\ Shown(c, NoOp)

\* The planner fails, or the call was aborted meanwhile.
PlannerFails(c) ==
    /\ At(c, "planner")
    /\ Caught(c)
    /\ UNCHANGED <<service, approval, cold, ghosts>>

\* A question is answered, or the planner asks one back.
PlannerAnswers(c) ==
    /\ At(c, "planner") /\ ~call[c].aborted
    /\ Ends(c) /\ last' = NoOp
    /\ UNCHANGED <<service, draft, batch, cancels, approval, file, cold, ghosts>>

\* The batches as the request leaves them: a new event ends a batch of new
\* events, an itinerary begins one, a selection to cancel begins the other.
BatchFor(t) == IF t = "itinerary" THEN 1 ELSE IF t = "new" THEN 0 ELSE batch

DraftFor(t) ==
    CASE t = "itinerary" -> Draft("create", 1)
      [] t = "new" -> Draft("create", 0)
      [] t = "edit" -> Draft("update", 0)
      [] t = "cancelOne" -> Draft("cancel", 0)

\* The request becomes a draft, which is put on file and previewed.
NewDraft(c) ==
    /\ At(c, "planner") /\ ~call[c].aborted
    /\ LET t == call[c].text IN
       /\ t \in Wishes \ {"cancelMany", "cancelRest"} /\ t \notin asked
       /\ asked' = asked \cup ({t} \cap {"itinerary"})
       /\ draft' = DraftFor(t) /\ batch' = BatchFor(t) /\ cancels' = cancels
       /\ Persist
       /\ \/ /\ Asks(c, op, DraftFor(t), "preview")
             /\ UNCHANGED last
          \/ /\ work # NoOp   \* CALENDAR_BUSY
             /\ Ends(c) /\ last' = NoOp
             /\ UNCHANGED <<op, item>>
    /\ ServiceSame /\ UNCHANGED <<approval, cold, interrupts>>

\* Several events are selected to be cancelled, or the rest of those selected
\* before: the one at hand is looked up.
SelectMany(c) ==
    /\ At(c, "planner") /\ ~call[c].aborted
    /\ \/ /\ call[c].text = "cancelMany" /\ "cancelMany" \notin asked
          /\ asked' = asked \cup {"cancelMany"}
          /\ cancels' = 1
       \/ /\ call[c].text = "cancelRest" /\ cancels > 0
          /\ UNCHANGED <<cancels, asked>>
    /\ call' = [call EXCEPT ![c].stage = "binding"]
    /\ UNCHANGED <<service, draft, batch, approval, last, file, cold, item, interrupts>>

\* previewCancelBatch(): the event is there; only now is the draft on file.
Bound(c) ==
    /\ At(c, "binding") /\ ~call[c].aborted
    /\ cancels > 0 /\ google[Listed[cancels]].there
    /\ draft' = Draft("cancel", cancels) /\ UNCHANGED <<batch, cancels>>
    /\ Persist
    /\ Asks(c, op, Draft("cancel", cancels), IF call[c].text = "confirm" THEN "next" ELSE "preview")
    /\ ServiceSame /\ UNCHANGED <<approval, last, cold, asked, interrupts>>

\* It cannot be looked up, or the call was aborted.  After a saved item the
\* draft (there is none) is put on file; an abort then counts as a failure
\* of the write.
BindFails(c) ==
    /\ At(c, "binding")
    /\ IF call[c].text = "confirm"
       THEN /\ draft' = IF call[c].aborted /\ draft # NoDraft
                        THEN [draft EXCEPT !.blocked = TRUE] ELSE draft
            /\ UNCHANGED <<batch, cancels>> /\ Persist
            /\ Ends(c) /\ Shown(c, NoOp)
       ELSE Caught(c)
    /\ UNCHANGED <<service, approval, cold, ghosts>>

\* The preview is there: the draft names it, its prompt is shown.
PreviewShown(c) ==
    /\ \/ At(c, "preview") \/ At(c, "refresh") \/ At(c, "next")
    /\ op[call[c].op].state = "pending" /\ ~call[c].aborted
    /\ draft # NoDraft
    /\ draft' = [draft EXCEPT !.op = call[c].op, !.blocked = @ /\ ~At(c, "refresh")]
    /\ UNCHANGED <<batch, cancels>> /\ Persist
    /\ approval' = call[c].op /\ last' = call[c].op
    /\ Ends(c)
    /\ UNCHANGED <<service, cold, ghosts>>

\* It is there, but the call was aborted: a preview for a batch is not even
\* dismissed.  After a saved item this counts as a failure of the write.
PreviewAborted(c) ==
    /\ \/ At(c, "preview") \/ At(c, "refresh") \/ At(c, "next")
    /\ op[call[c].op].state = "pending" /\ (call[c].aborted \/ draft = NoDraft)
    /\ op' = IF At(c, "next") \/ (At(c, "preview") /\ item[call[c].op][2] > 0)
             THEN op ELSE Dismissed(call[c].op)
    /\ IF At(c, "next")
       THEN /\ draft' = IF draft = NoDraft THEN draft ELSE [draft EXCEPT !.blocked = TRUE]
            /\ UNCHANGED <<batch, cancels>> /\ Persist /\ Ends(c) /\ Shown(c, NoOp)
       ELSE IF At(c, "refresh")
       THEN Ends(c) /\ Shown(c, NoOp) /\ UNCHANGED <<draft, batch, cancels, file>>
       ELSE Caught(c)
    /\ ServiceSame /\ UNCHANGED <<approval, cold, ghosts>>

\* There is no preview.
PreviewLost(c) ==
    /\ \/ At(c, "preview") \/ At(c, "refresh") \/ At(c, "next")
    /\ op[call[c].op].state = "lost"
    /\ IF At(c, "next") /\ call[c].aborted
       THEN /\ draft' = IF draft = NoDraft THEN draft ELSE [draft EXCEPT !.blocked = TRUE]
            /\ UNCHANGED <<batch, cancels>> /\ Persist /\ Ends(c) /\ Shown(c, NoOp)
       ELSE IF At(c, "preview") THEN Caught(c)
       ELSE Ends(c) /\ Shown(c, NoOp) /\ UNCHANGED <<draft, batch, cancels, file>>
    /\ UNCHANGED <<service, approval, cold, ghosts>>

-----------------------------------------------------------------------------
(* The result of a confirmed write                                         *)

Back(c, s) == At(c, "saving") /\ work # call[c].op /\ op[call[c].op].state \in s

\* An item of a batch of new events is saved: the next one is previewed in the
\* same breath.
SavedNext(c) ==
    /\ Back(c, {"succeeded"}) /\ op[call[c].op].kind = "create"
    /\ batch > 0 /\ batch < N
    /\ batch' = batch + 1 /\ cancels' = cancels
    /\ draft' = Draft("create", batch + 1)
    /\ Persist
    /\ Asks(c, op, Draft("create", batch + 1), "next")
    /\ ServiceSame /\ UNCHANGED <<approval, last, cold, asked, interrupts>>

\* One of a batch to cancel is gone: the next one is looked up.
CancelledNext(c) ==
    /\ Back(c, {"succeeded"}) /\ op[call[c].op].kind = "cancel"
    /\ cancels > 0 /\ cancels < N
    /\ cancels' = cancels + 1 /\ draft' = NoDraft
    /\ call' = [call EXCEPT ![c].stage = "binding"]
    /\ UNCHANGED <<service, batch, approval, last, file, cold, ghosts>>

\* The last of a batch, or a single event, is saved.
SavedLast(c) ==
    /\ Back(c, {"succeeded"})
    /\ LET k == op[call[c].op].kind IN
       /\ k = "create" => batch \in {0, N}
       /\ k = "cancel" => cancels \in {0, N}
       /\ batch' = IF k = "create" THEN 0 ELSE batch
       /\ cancels' = IF k = "cancel" THEN 0 ELSE cancels
    /\ draft' = NoDraft
    /\ Persist /\ Ends(c) /\ Shown(c, NoOp)
    /\ UNCHANGED <<service, approval, cold, ghosts>>

\* It was not saved, or nobody knows: then the draft is locked.
NotSaved(c) ==
    /\ Back(c, {"unknown", "conflict", "failed"})
    /\ draft' = IF op[call[c].op].state = "unknown" /\ draft # NoDraft
                THEN [draft EXCEPT !.blocked = TRUE] ELSE draft
    /\ UNCHANGED <<batch, cancels>>
    /\ Persist /\ Ends(c) /\ Shown(c, NoOp)
    /\ UNCHANGED <<service, approval, cold, ghosts>>

-----------------------------------------------------------------------------
(* Connection, process                                                     *)

\* invalidate(): the connection is lost or the conversation pauses.
Invalidate ==
    /\ ~cold /\ approval # NoOp
    /\ op' = Dismissed(approval) /\ approval' = NoOp
    /\ UNCHANGED <<draft, batch, cancels, call>> /\ Persist
    /\ ServiceSame /\ UNCHANGED <<last, cold, ghosts>>

DialogueRestart ==
    /\ ServiceRestart
    /\ draft' = NoDraft /\ batch' = 0 /\ cancels' = 0 /\ approval' = NoOp
    /\ call' = [c \in Calls |-> NoCall]
    /\ cold' = TRUE
    /\ UNCHANGED <<last, file, ghosts>>

\* What a reconciliation that reported r makes of the file: the draft and the
\* batches; found says whether the next event to cancel can be looked up.
Resumed(r, found) ==
    LET d == file.draft
        same == [d |-> d, b |-> file.batch, n |-> file.cancels]
        nothing == [d |-> NoDraft, b |-> 0, n |-> 0]
    IN CASE d.op = NoOp -> same
         [] r = "succeeded" /\ file.batch > 0 /\ file.batch < N ->
              [same EXCEPT !.b = @ + 1, !.d = Draft("create", file.batch + 1)]
         [] r = "succeeded" /\ file.cancels > 0 /\ file.cancels < N
              /\ found /\ google[Listed[file.cancels + 1]].there ->
              [same EXCEPT !.n = @ + 1, !.d = Draft("cancel", file.cancels + 1)]
         [] r = "succeeded" -> nothing
         [] r \in {"unknown", "sending"} -> [same EXCEPT !.d.blocked = TRUE]
         [] OTHER -> [same EXCEPT !.d.blocked = FALSE, !.d.op = NoOp]

\* restoreRecovery()
Restore ==
    /\ cold /\ cold' = FALSE
    /\ IF ~Readable(file)
       THEN draft' = NoDraft /\ batch' = 0 /\ cancels' = 0 /\ UNCHANGED op
       ELSE LET o == file.draft.op IN
            \E r \in IF o = NoOp THEN {"none"} ELSE Findings(o), found \in BOOLEAN :
              /\ op' = IF o = NoOp THEN op ELSE Reconciled(o, r)
              /\ draft' = Resumed(r, found).d
              /\ batch' = Resumed(r, found).b /\ cancels' = Resumed(r, found).n
    /\ Persist
    /\ ServiceSame /\ UNCHANGED <<approval, call, last, ghosts>>

Turn(c) ==
    \/ \E t \in Texts : Say(c, t)
    \/ Planned(c) \/ ReplyAborted(c) \/ JustAnswer(c) \/ Discard(c)
    \/ AskAgain(c) \/ Save(c) \/ Refresh(c) \/ RefreshRefused(c)
    \/ AskPlanner(c) \/ PlannerFails(c) \/ PlannerAnswers(c)
    \/ NewDraft(c) \/ SelectMany(c) \/ Bound(c) \/ BindFails(c)
    \/ PreviewShown(c) \/ PreviewAborted(c) \/ PreviewLost(c)
    \/ SavedNext(c) \/ CancelledNext(c) \/ SavedLast(c) \/ NotSaved(c)

DialogueNext ==
    \/ ServiceStep /\ UNCHANGED <<memory, last, file, cold, ghosts>>
    \/ \E c \in Calls : Turn(c)
    \/ AnsweredElsewhere \/ Invalidate \/ DialogueRestart \/ Restore

DialogueSpec == DialogueInit /\ [][DialogueNext]_dialogueVars

-----------------------------------------------------------------------------
(***************************************************************************)
(* Properties                                                              *)
(***************************************************************************)

DialogueTypeOK ==
    /\ ServiceTypeOK
    /\ draft \in Drafts /\ batch \in 0..N /\ cancels \in 0..N
    /\ approval \in Ops \cup {NoOp} /\ last \in Ops \cup {NoOp}
    /\ call \in [Calls -> [stage : Stages, text : Texts \cup {"chat"}, had : Ops \cup {NoOp},
                           op : Ops \cup {NoOp}, aborted : BOOLEAN]]
    /\ file \in [draft : Drafts, batch : 0..N, cancels : 0..N] /\ cold \in BOOLEAN

Saved(k, i) == {o \in Ops : item[o] = <<k, i>> /\ effect[o]}

(***************************************************************************)
(* A batch goes forward one saved event at a time: the item at hand comes  *)
(* after items that are all on (or off) the calendar, in memory and on     *)
(* file, and no item is put on it twice, over lost answers, refusals,      *)
(* corrections and restarts (calendar-dialogue.ts:237-288, :512-530).      *)
(***************************************************************************)
BatchInStep ==
    /\ DialogueTypeOK
    /\ \A i \in 1..N :
         /\ i < batch \/ i < file.batch => Saved("create", i) # {}
         /\ i < cancels \/ i < file.cancels => Saved("cancel", i) # {}
         /\ Cardinality(Saved("create", i)) <= 1

(***************************************************************************)
(* A spoken confirmation writes what the message right before it showed,   *)
(* whatever other turns, pauses and restarts came between                  *)
(* (calendar-dialogue.ts:477-493).                                         *)
(***************************************************************************)
ConfirmsWhatIsShown ==
    [][work' # work /\ work' # NoOp /\ (\E c \in Calls : call'[c].op = work')
         => last = work']_dialogueVars

(***************************************************************************)
(* tests/calendar-dialogue.test.ts:263: the events of a batch are          *)
(* cancelled "with one immutable confirmation at a time".  So the batch    *)
(* passes over an event only when that event is gone.  A single event      *)
(* cancelled while a batch is unfinished passes for the batch's item.      *)
(***************************************************************************)
CancelsOneByOne == \A i \in 1..N : i < cancels => Saved("cancel", i) # {}

(***************************************************************************)
(* docs/google-calendar.md:213: a draft whose write is uncertain stays     *)
(* locked, so that no second event is made for it.  While an operation of  *)
(* the draft is uncertain no other draft takes its place unlocked.         *)
(***************************************************************************)
LockKept ==
    [][~cold /\ draft.blocked /\ (draft.op # NoOp /\ op[draft.op].state = "unknown")
         => draft' = NoDraft \/ draft'.blocked]_dialogueVars

=============================================================================
