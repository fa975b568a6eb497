-------------------------- MODULE ConversationTurns --------------------------
(***************************************************************************)
(* One logical conversation (class Conversation) and the rows it keeps in  *)
(* the SQLite store (StoreConversationPersistence, ConversationStore).     *)
(*                                                                         *)
(* submit() is an asynchronous function: it waits for the planner, then    *)
(* for the answer, and a newer submission, an interruption, a pause, an    *)
(* exit, a forgotten memory or the end of the session may come first.      *)
(* Each execution of submit() is a record of "runs"; the ones that lost    *)
(* their revision stay there until their provider answers, however late.   *)
(*                                                                         *)
(* The store is synchronous: between two awaits the conversation and the   *)
(* database change together.  The save awaited after the commit is, for a  *)
(* conversation that has a store, the constructor's empty default: it      *)
(* returns before the socket's next message is handled, so the commit and  *)
(* the completion are one step here ("committing" is never seen set).      *)
(***************************************************************************)
EXTENDS Integers, Sequences, FiniteSets

CONSTANTS
  Messages,        \* message ids chosen by clients; each names one fixed text
  MaxSubmissions,  \* bound on the revisions spent by client requests
  MaxPending,      \* texts that fit in one turn: stands for the 12000 characters
  StoreFaults      \* the store writes that may fail: of "user", "start", "commit"

NoId == "no-id"        \* speech, retries: the server makes a fresh message id
NeverForgotten == -1   \* the session was never named by a forgotten memory
Writes == {"user", "start", "commit"}

ASSUME ParametersAreSane ==
  /\ MaxSubmissions \in Nat \ {0}
  /\ MaxPending \in Nat \ {0}
  /\ StoreFaults \subseteq Writes
  /\ Messages \intersect {NoId, "speech", "retry", "recover"} = {}

VARIABLES
  mode,        \* Conversation.state
  pending,     \* texts accumulated for the next turn
  revision,    \* Conversation.revision; its value names the current submission
  runs,        \* executions of submit() that have not returned
  responseId,  \* the revision whose answer is open, 0 for none
  durable,     \* durableAnswer: the turn whose row is being answered, 0 for none
  partial,     \* part of the answer has been produced
  history,     \* model context: entries [turn, role, status]
  turns,       \* the store's rows, a turn with its two messages, in insertion order
  latest,      \* sessions.latest_sequence
  forgotten,   \* through_sequence of the newest forget marker
  session      \* "live" (active or idle) or "ended" (ended or expired)

conversationVars == <<mode, pending, revision, runs, responseId, durable,
                      partial, history>>
rowVars == <<turns, latest, forgotten, session>>
turnVars == <<conversationVars, rowVars>>

Texts == Messages \union {"speech", "retry", "recover"}
Phases == {"plan", "reply"}
Run == [rev : Nat, phase : Phases, text : Seq(Texts),
        id : Messages \union {NoId}, forced : BOOLEAN]
Entry == [turn : Nat, role : {"user", "assistant"}, status : {"committed", "interrupted"}]
Turn == [id : Messages \union {NoId}, text : Seq(Texts), userSeq : Nat, answerSeq : Nat,
         status : {"accepted", "answering", "committed", "interrupted"},
         answer : {"none", "streaming", "committed", "interrupted"}]

TurnInit ==
  /\ mode = "listening" /\ pending = <<>> /\ revision = 0 /\ runs = {}
  /\ responseId = 0 /\ durable = 0 /\ partial = FALSE
  /\ history = <<>> /\ turns = <<>> /\ latest = 0
  /\ forgotten = NeverForgotten /\ session = "live"

-----------------------------------------------------------------------------
(* The store.  Each operator gives the rows after one SQLite transaction.   *)

\* The row commitUserTurn inserts for a run, numbered next in the session.
Accepted(r) == [id |-> r.id, text |-> r.text, userSeq |-> latest + 1, answerSeq |-> 0,
                status |-> "accepted", answer |-> "none"]

\* startAssistantAnswer: the streaming placeholder takes the next number.
Started(row) == [row EXCEPT !.status = "answering", !.answer = "streaming",
                            !.answerSeq = row.userSeq + 1]

\* commitAssistantAnswer: only a streaming answer of an answering turn.
Committed(row) ==
  IF row.answer = "streaming" /\ row.status = "answering"
  THEN [row EXCEPT !.status = "committed", !.answer = "committed"] ELSE row

\* interruptAssistantAnswer throws, and changes nothing, for any other row.
Interrupted(row) ==
  IF row.answer = "streaming" /\ row.status = "answering"
  THEN [row EXCEPT !.status = "interrupted", !.answer = "interrupted"] ELSE row

\* recoverInterrupted, run when a process opens the database.
Recovered(row) ==
  [row EXCEPT !.answer = IF @ = "streaming" THEN "interrupted" ELSE @,
              !.status = IF @ \in {"accepted", "answering"} THEN "interrupted" ELSE @]

SameId(r) == {t \in DOMAIN turns : r.id # NoId /\ turns[t].id = r.id}
Repeats(r) == \E t \in SameId(r) : turns[t].text = r.text

\* summaryFloorSql: the first question asked after the newest marker, 0 for none.
TurnFloor ==
  LET after == {turns[t].userSeq : t \in {u \in DOMAIN turns : turns[u].userSeq > forgotten}}
  IN  CASE forgotten = NeverForgotten -> 1
        [] after = {}         -> 0
        [] OTHER              -> CHOOSE s \in after : \A o \in after : s <= o

SequenceOf(e) == IF e.role = "user" THEN turns[e.turn].userSeq ELSE turns[e.turn].answerSeq

HistoryUnbounded(entries) == entries

\* boundMemoryHistory keeps, in their order, the entries that a forgotten memory
\* cannot have fed.
Rank(places, i) == Cardinality({p \in places : p <= i})
Bounded(entries) ==
  LET kept == {i \in DOMAIN entries : TurnFloor # 0 /\ SequenceOf(entries[i]) >= TurnFloor}
  IN  IF forgotten = NeverForgotten THEN entries
      ELSE [n \in 1..Cardinality(kept) |-> entries[CHOOSE i \in kept : Rank(kept, i) = n]]

-----------------------------------------------------------------------------
(* The conversation.                                                         *)

Accepts == mode \notin {"paused", "exit_pending", "closed"}
AlwaysCurrent(r) == TRUE
Current(r) == r.rev = revision

\* The planner or the model has answered the run.
Delivered(r, phase) == r \in runs /\ r.phase = phase

Asked(turn) == [turn |-> turn, role |-> "user", status |-> "committed"]
Answered(turn, status) == [turn |-> turn, role |-> "assistant", status |-> status]

\* cancel(): the open answer is interrupted in the store, and what was produced of
\* it stays in the model's context, marked as interrupted.
OpenAnswer == responseId # 0 /\ durable # 0
RowsLeftOpen == turns
CancelledRows == IF OpenAnswer THEN [turns EXCEPT ![durable] = Interrupted(@)] ELSE turns
CancelledHistory(entries) ==
  IF OpenAnswer /\ partial THEN Append(entries, Answered(durable, "interrupted")) ELSE entries
Cancel ==
  /\ revision' = revision + 1
  /\ turns' = CancelledRows
  /\ responseId' = 0 /\ durable' = 0 /\ partial' = FALSE

\* A client request while the budget of revisions lasts.
Request == session = "live" /\ revision < MaxSubmissions

Submit(text, id, forced) ==
  /\ Request /\ Accepts
  /\ Len(pending) < MaxPending
  /\ pending' = Append(pending, text)
  /\ Cancel
  /\ history' = Bounded(CancelledHistory(history))
  /\ runs' = runs \union {[rev |-> revision + 1, phase |-> "plan", text |-> pending',
                           id |-> id, forced |-> forced]}
  /\ mode' = "thinking"
  /\ UNCHANGED <<latest, forgotten, session>>

\* INPUT_LIMIT: the text is dropped and the conversation pauses.
TooLong ==
  /\ Request /\ Accepts
  /\ Len(pending) = MaxPending
  /\ Cancel
  /\ history' = CancelledHistory(history)
  /\ mode' = "paused"
  /\ UNCHANGED <<pending, runs, latest, forgotten, session>>

\* text.submit: always forced, with the id the client chose (a repeat has the same).
SubmitText(m) == Submit(m, m, TRUE)

\* A final transcript: the planner may decide to wait for more speech.
SubmitSpeech == Submit("speech", NoId, FALSE)

LastTurn == turns[Len(turns)]

\* answer.retry re-asks only an interrupted turn; a committed answer is replayed
\* to the client from its row, without a state change.
AnswerRetry ==
  /\ turns # <<>>
  /\ LastTurn.answer = "interrupted" \/ (LastTurn.answer # "committed" /\ LastTurn.status = "interrupted")
  /\ Submit("retry", NoId, TRUE)

\* recoverAnswer, asked after cancel() has interrupted what was open.
Recovery ==
  IF \/ turns = <<>>
     \/ forgotten # NeverForgotten /\ (TurnFloor = 0 \/ LastTurn.answerSeq < TurnFloor)
  THEN "missing"
  ELSE IF CancelledRows[Len(turns)].answer = "committed" THEN "committed" ELSE "interrupted"

\* "Go on with the last answer": an interrupted answer is asked again; a committed
\* or missing one needs neither planner nor model, so the whole turn runs at once.
RecoverText ==
  /\ pending = <<>>
  /\ IF Recovery = "interrupted" THEN Submit("recover", NoId, TRUE)
     ELSE LET r == [id |-> NoId, text |-> <<"recover">>]
              t == Len(turns) + 1
          IN  /\ Request /\ Accepts
              /\ revision' = revision + 1
              /\ turns' = Append(CancelledRows, Committed(Started(Accepted(r))))
              /\ latest' = latest + 2
              /\ history' = Bounded(CancelledHistory(history)) \o <<Asked(t), Answered(t, "committed")>>
              /\ responseId' = 0 /\ durable' = 0 /\ partial' = FALSE
              /\ mode' = "listening"
              /\ UNCHANGED <<pending, runs, forgotten, session>>

-----------------------------------------------------------------------------
(* submit() after the planner's await.                                       *)

FailsSilently(r) == Cancel /\ runs' = runs \ {r} /\ UNCHANGED mode

\* The catch block of submit(): nothing for a superseded run.
Fails(r) == Cancel /\ runs' = runs \ {r} /\ mode' = "paused"

Late(r) ==
  /\ \E phase \in {"plan", "reply"} : Delivered(r, phase)
  /\ ~Current(r)
  /\ runs' = runs \ {r}
  /\ UNCHANGED <<mode, pending, revision, responseId, durable, partial, history, rowVars>>

Wait(r) ==
  /\ Delivered(r, "plan") /\ Current(r)
  /\ ~r.forced
  /\ mode' = "listening"
  /\ runs' = runs \ {r}
  /\ UNCHANGED <<pending, revision, responseId, durable, partial, history, rowVars>>

PlanFails(r) ==
  /\ Delivered(r, "plan") /\ Current(r)
  /\ Fails(r)
  /\ history' = CancelledHistory(history)
  /\ UNCHANGED <<pending, latest, forgotten, session>>

\* commitUserTurn knows the message id with this content: the first ACK again.
Duplicate(r) ==
  /\ Delivered(r, "plan") /\ Current(r)
  /\ Repeats(r)
  /\ mode' = "listening" /\ pending' = <<>>
  /\ runs' = runs \ {r}
  /\ UNCHANGED <<revision, responseId, durable, partial, history, rowVars>>

\* The id is known with another content or, when the planner switched topics,
\* another topic; or the transaction fails.  The text is no longer pending.
UserTurnFails(r) ==
  /\ Delivered(r, "plan") /\ Current(r)
  /\ SameId(r) # {} \/ "user" \in StoreFaults
  /\ Fails(r)
  /\ pending' = <<>>
  /\ history' = CancelledHistory(history)
  /\ UNCHANGED <<latest, forgotten, session>>

\* The decision to exit: the question is kept, its turn gets no answer.
ExitDecision(r) ==
  /\ Delivered(r, "plan") /\ Current(r)
  /\ SameId(r) = {}
  /\ turns' = Append(turns, Accepted(r)) /\ latest' = latest + 1
  /\ history' = Append(history, Asked(Len(turns) + 1))
  /\ pending' = <<>>
  /\ revision' = revision + 1
  /\ mode' = "exit_pending"
  /\ runs' = runs \ {r}
  /\ UNCHANGED <<responseId, durable, partial, forgotten, session>>

StartAnswer(r) ==
  /\ Delivered(r, "plan") /\ Current(r)
  /\ SameId(r) = {}
  /\ turns' = Append(turns, Started(Accepted(r))) /\ latest' = latest + 2
  /\ history' = Append(history, Asked(Len(turns) + 1))
  /\ pending' = <<>>
  /\ responseId' = r.rev /\ durable' = Len(turns) + 1 /\ partial' = FALSE
  /\ mode' = "answering"
  /\ runs' = (runs \ {r}) \union {[r EXCEPT !.phase = "reply"]}
  /\ UNCHANGED <<revision, forgotten, session>>

\* The question is committed, the placeholder of its answer is not.
StartFails(r) ==
  /\ Delivered(r, "plan") /\ Current(r)
  /\ SameId(r) = {} /\ "start" \in StoreFaults
  /\ turns' = Append(turns, Accepted(r)) /\ latest' = latest + 1
  /\ history' = Append(history, Asked(Len(turns) + 1))
  /\ pending' = <<>>
  /\ revision' = revision + 1
  /\ mode' = "paused"
  /\ runs' = runs \ {r}
  /\ UNCHANGED <<responseId, durable, partial, forgotten, session>>

-----------------------------------------------------------------------------
(* submit() while the answer streams, and after it.                          *)

Delta(r) ==
  /\ Delivered(r, "reply") /\ Current(r)
  /\ ~partial
  /\ partial' = TRUE
  /\ UNCHANGED <<mode, pending, revision, runs, responseId, durable, history, rowVars>>

\* The answer enters the context, then the store, and the turn is over.
Commit(r) ==
  /\ Delivered(r, "reply") /\ Current(r)
  /\ partial
  /\ history' = Append(history, Answered(durable, "committed"))
  /\ turns' = [turns EXCEPT ![durable] = Committed(@)]
  /\ responseId' = 0 /\ durable' = 0 /\ partial' = FALSE
  /\ mode' = "listening"
  /\ runs' = runs \ {r}
  /\ UNCHANGED <<pending, revision, latest, forgotten, session>>

\* The store refuses: the entry already pushed stays, and cancel() pushes another.
CommitFails(r) ==
  /\ Delivered(r, "reply") /\ Current(r)
  /\ partial /\ "commit" \in StoreFaults
  /\ Fails(r)
  /\ history' = CancelledHistory(Append(history, Answered(durable, "committed")))
  /\ UNCHANGED <<pending, latest, forgotten, session>>

ReplyFails(r) ==
  /\ Delivered(r, "reply") /\ Current(r)
  /\ Fails(r)
  /\ history' = CancelledHistory(history)
  /\ UNCHANGED <<pending, latest, forgotten, session>>

-----------------------------------------------------------------------------
(* Control messages, the end of the session, forgetting and restarts.       *)

\* interrupt (also the first sound of new speech), pause, exit.request.
Stop(next) ==
  /\ Request
  /\ IF next = "exit_pending" THEN mode \notin {"closed", "exit_pending"} ELSE Accepts
  /\ Cancel
  /\ history' = CancelledHistory(history)
  /\ mode' = next
  /\ UNCHANGED <<pending, runs, latest, forgotten, session>>

Interrupt == Stop("listening")
Pause == Stop("paused")
RequestExit == Stop("exit_pending")

Resume ==
  /\ session = "live" /\ mode = "paused"
  /\ mode' = "listening"
  /\ UNCHANGED <<pending, revision, runs, responseId, durable, partial, history, rowVars>>

ConfirmExit(confirm) ==
  /\ session = "live" /\ mode = "exit_pending"
  /\ mode' = IF confirm THEN "closed" ELSE "paused"
  /\ UNCHANGED <<pending, revision, runs, responseId, durable, partial, history, rowVars>>

\* dispose("ended") and dispose("expired"): close() unless it is closed already,
\* then the session row becomes terminal.
End ==
  /\ session = "live"
  /\ session' = "ended"
  /\ mode' = "closed"
  /\ IF mode = "closed" THEN UNCHANGED <<revision, turns, responseId, durable, partial, history>>
     ELSE Cancel /\ history' = CancelledHistory(history)
  /\ UNCHANGED <<pending, runs, latest, forgotten>>

\* A memory that names this session is forgotten: the listener clears the model's
\* side at once, and an open answer is interrupted without a checkpoint.
ForgetTurns ==
  /\ session = "live" /\ mode # "closed"
  /\ forgotten # latest
  /\ forgotten' = latest
  /\ Cancel
  /\ pending' = <<>> /\ history' = <<>>
  /\ mode' = IF mode \in {"thinking", "answering"} THEN "listening" ELSE mode
  /\ UNCHANGED <<runs, latest, session>>

\* The message with this sequence number, as hydration reads it.
Stored(i) ==
  LET t == CHOOSE u \in DOMAIN turns : i \in {turns[u].userSeq, turns[u].answerSeq}
  IN  IF i = turns[t].userSeq THEN Asked(t) ELSE Answered(t, Recovered(turns[t]).answer)

\* The process dies; the next one recovers the rows and hydrates the conversation.
\* Revisions go on counting, so that a run of the old process has no equal.
RestartTurns ==
  /\ session = "live"
  /\ turns' = [t \in DOMAIN turns |-> Recovered(turns[t])]
  /\ history' = Bounded([i \in 1..latest |-> Stored(i)])
  /\ mode' = "listening" /\ pending' = <<>> /\ runs' = {}
  /\ responseId' = 0 /\ durable' = 0 /\ partial' = FALSE
  /\ UNCHANGED <<revision, latest, forgotten, session>>

Inputs ==
  \/ \E m \in Messages : SubmitText(m)
  \/ SubmitSpeech \/ AnswerRetry \/ RecoverText \/ TooLong
  \/ Interrupt \/ Pause \/ RequestExit \/ Resume
  \/ \E confirm \in BOOLEAN : ConfirmExit(confirm)
  \/ End \/ ForgetTurns \/ RestartTurns

Results(r) ==
  \/ Late(r) \/ Wait(r) \/ PlanFails(r)
  \/ Duplicate(r) \/ UserTurnFails(r) \/ ExitDecision(r) \/ StartAnswer(r) \/ StartFails(r)
  \/ Delta(r) \/ Commit(r) \/ CommitFails(r) \/ ReplyFails(r)

TurnNext == Inputs \/ \E r \in runs : Results(r)

TurnSpec == TurnInit /\ [][TurnNext]_turnVars

\* Every provider call has a deadline, so a run's next result does come; nothing
\* makes the user type, nor a session end.
RunOf(rev) == \E r \in runs : r.rev = rev /\ Results(r)
TurnFairness == \A rev \in 1..(2 * MaxSubmissions) : WF_turnVars(RunOf(rev))
FairTurnSpec == TurnSpec /\ TurnFairness

-----------------------------------------------------------------------------
(* Properties.                                                               *)

\* The type invariant.
TurnTypeOK ==
  /\ mode \in {"listening", "thinking", "answering", "paused", "exit_pending", "closed"}
  /\ pending \in Seq(Texts)
  /\ revision \in Nat /\ responseId \in Nat
  /\ runs \subseteq Run
  /\ partial \in BOOLEAN
  /\ history \in Seq(Entry)
  /\ turns \in Seq(Turn)
  /\ durable \in 0..Len(turns)
  /\ latest \in Nat /\ forgotten \in Nat \union {NeverForgotten}
  /\ session \in {"live", "ended"}

\* Message numbers have neither a gap nor a duplicate, whatever was interrupted,
\* repeated or refused in between (commitUserTurn and startAssistantAnswer number
\* messages in two transactions; clients resume from a number).
SequenceDense ==
  LET questions == {turns[t].userSeq : t \in DOMAIN turns}
      answered == {t \in DOMAIN turns : turns[t].answer # "none"}
      answers == {turns[t].answerSeq : t \in answered}
  IN  /\ questions \union answers = 1..latest
      /\ Cardinality(answered) + Len(turns) = latest

\* A row is left streaming only while a run of the current revision is going to
\* finish it: no interruption, failure, exit, forgotten memory or restart strands one.
StreamingHasWriter ==
  \A t \in DOMAIN turns : turns[t].answer = "streaming" =>
    /\ turns[t].status = "answering" /\ durable = t /\ responseId = revision
    /\ \E r \in runs : r.rev = revision /\ r.phase = "reply"

\* The user never sees "thinking" or "answering" with nobody left to end it.
BusyHasRun ==
  /\ mode = "thinking" => \E r \in runs : Current(r) /\ r.phase = "plan"
  /\ mode = "answering" => \E r \in runs : Current(r) /\ r.phase = "reply"

\* A finished answer is in the model's context at most once, and never as an
\* interrupted one; no answer is entered twice as interrupted.
FinishedOnce ==
  /\ \A i, j \in DOMAIN history : history[i] = history[j] => i = j
  /\ \A i \in DOMAIN history : history[i].status = "interrupted" =>
       turns[history[i].turn].answer = "interrupted"

\* The rows, the runs and what the user is shown agree in every state.
RowsAgree == TurnTypeOK /\ SequenceDense /\ StreamingHasWriter /\ BusyHasRun /\ FinishedOnce

\* An interrupted answer never poses as a finished one: what the context calls
\* committed is committed in the store.
PartialNeverPoses ==
  \A i \in DOMAIN history : history[i] = Answered(history[i].turn, "committed") =>
    turns[history[i].turn].answer = "committed"

\* Nothing numbered before a forgotten memory's marker is in the model's context,
\* however late its run comes back and whether or not the process restarted.
ForgottenStaysOut ==
  \A i \in DOMAIN history : SequenceOf(history[i]) > forgotten

\* A repeated submission never stores its text twice: a message id deduplicates.
TextStoredOnce ==
  \A t \in DOMAIN turns : \A i, j \in DOMAIN turns[t].text :
    turns[t].text[i] = turns[t].text[j] /\ turns[t].text[i] \in Messages => i = j

\* A settled answer keeps its outcome and its number, turns are never removed,
\* and after the session ended no late planner, model or save writes a row of it.
SettledStays ==
  [][ /\ \A t \in DOMAIN turns :
           /\ t \in DOMAIN turns'
           /\ turns[t].answer \in {"committed", "interrupted"} => turns'[t] = turns[t]
      /\ session = "ended" => turns' = turns ]_turnVars

\* No answer stays open for ever: each is committed or interrupted in the end.
AnswersSettle == []<>(\A t \in DOMAIN turns : turns[t].answer # "streaming")
=============================================================================
