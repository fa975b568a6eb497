------------------------------- MODULE JobStore -------------------------------
(***************************************************************************)
(* The export jobs and the mail ledger of JobStore (job-store.ts).         *)
(*                                                                         *)
(* The worker is one drain() at a time; it waits for the renderer and the  *)
(* disk between ScheduledRuns or JobDone and the next JobDone.  A call of  *)
(* sendEmail waits twice: for the file ("reading") and for the mail server *)
(* ("sending"); everything in between is one step.  The database survives  *)
(* StoreRestarts, which is a crash or a finished close() followed by       *)
(* create(); whatever waits is lost.  Jobs are numbered in the order in    *)
(* which they were created.  Files, their sizes and bytes are left out.    *)
(***************************************************************************)
EXTENDS Naturals, Sequences, FiniteSets, FiniteSetsExt

CONSTANTS
  MaxJobs,      \* rows the table takes: 1000
  PendingLimit, \* rows queued or running: 20
  DailyLimit,   \* attempts created since midnight UTC: 20
  Callers,      \* bound: executions of sendEmail that wait at the same time
  Outcomes      \* what the mail server may answer, of accepted, failed, unknown

ASSUME JobParameters ==
  /\ {MaxJobs, PendingLimit, DailyLimit} \subseteq Nat
  /\ "unknown" \in Outcomes /\ Outcomes \subseteq {"accepted", "failed", "unknown"}

VARIABLES
  state,      \* jobs.state, "none" without a row
  superseded, \* superseded_artifacts
  receipts,   \* mail_receipts
  attempts,   \* mail_attempts: the states of a job's attempts in order
  delivery,   \* mail_deliveries.state, "none" without a row
  today,      \* attempts created since midnight
  closing,
  worker,     \* scheduled and busy, the active job and its controller
  mailing,    \* the job in the hands of the mail server, or NoJob
  calls       \* sendEmail executions, by caller

ledger == <<receipts, attempts, delivery, today>>
exports == <<state, superseded, worker>>
storeVars == <<ledger, exports, closing, mailing, calls>>

Job == 1..MaxJobs
NoJob == 0
States == {"none", "queued", "running", "completed", "failed", "interrupted", "cancelled"}
Ended == {"completed", "failed", "interrupted", "cancelled"}
NoCall == [phase |-> "none", job |-> NoJob, retry |-> FALSE, aborted |-> FALSE]
Idle == [phase |-> "idle", active |-> NoJob, aborted |-> FALSE]

StoreTypeOK ==
  /\ state \in [Job -> States]
  /\ superseded \subseteq Job /\ receipts \subseteq Job
  /\ attempts \in [Job -> Seq(Outcomes \union {"sending"})]
  /\ delivery \in [Job -> Outcomes \union {"none", "sending"}]
  /\ today \in 0..DailyLimit
  /\ closing \in BOOLEAN
  /\ worker \in [phase : {"idle", "scheduled", "draining", "returned"},
                 active : Job \union {NoJob}, aborted : BOOLEAN]
  /\ mailing \in Job \union {NoJob}
  /\ calls \in [Callers -> [phase : {"none", "reading", "sending"},
                            job : Job \union {NoJob}, retry : BOOLEAN, aborted : BOOLEAN]]

StoreInit ==
  /\ state = [j \in Job |-> "none"]
  /\ superseded = {} /\ receipts = {}
  /\ attempts = [j \in Job |-> <<>>]
  /\ delivery = [j \in Job |-> "none"]
  /\ today = 0
  /\ closing = FALSE
  /\ worker = Idle
  /\ mailing = NoJob
  /\ calls = [c \in Callers |-> NoCall]

-----------------------------------------------------------------------------
(* Jobs and the worker *)

Queued(st) == {j \in Job : st[j] = "queued"}
Pending == {j \in Job : state[j] \in {"queued", "running"}}
Free == {j \in Job : state[j] = "none"}

Kicked == IF closing \/ worker.phase # "idle" THEN worker ELSE [Idle EXCEPT !.phase = "scheduled"]

CanEnqueue == ~closing /\ Free # {} /\ Cardinality(Pending) < PendingLimit
NewJob == Min(Free)

\* enqueueInput: a row for the next job, and the worker is woken.
Enqueue ==
  /\ CanEnqueue
  /\ state' = [state EXCEPT ![NewJob] = "queued"]
  /\ worker' = Kicked
  /\ UNCHANGED <<superseded, ledger, closing, mailing, calls>>

Cancellable(j) == j \in Job /\ state[j] \in {"queued", "running"}

Cancel(j) ==
  /\ Cancellable(j)
  /\ state' = [state EXCEPT ![j] = "cancelled"]
  /\ worker' = [worker EXCEPT !.aborted = @ \/ worker.active = j]
  /\ UNCHANGED <<superseded, ledger, closing, mailing, calls>>

Supersede(j) ==
  /\ j \in Job /\ state[j] # "none"
  /\ superseded' = superseded \union {j}
  /\ UNCHANGED <<state, worker, ledger, closing, mailing, calls>>

\* A caller that gives up on its new job cancels and supersedes it at once.
Discard(j) ==
  /\ j \in Job /\ state[j] # "none"
  /\ state' = IF Cancellable(j) THEN [state EXCEPT ![j] = "cancelled"] ELSE state
  /\ worker' = [worker EXCEPT !.aborted = @ \/ worker.active = j]
  /\ superseded' = superseded \union {j}
  /\ UNCHANGED <<ledger, closing, mailing, calls>>

\* The head of the loop of drain(): the oldest queued job, or the end.
Pull(st) ==
  IF closing \/ Queued(st) = {}
  THEN /\ state' = st
       /\ worker' = [Idle EXCEPT !.phase = "returned"]
  ELSE /\ state' = [st EXCEPT ![Min(Queued(st))] = "running"]
       /\ worker' = [phase |-> "draining", active |-> Min(Queued(st)), aborted |-> FALSE]

ScheduledRuns ==
  /\ worker.phase = "scheduled"
  /\ Pull(state)
  /\ UNCHANGED <<superseded, ledger, closing, mailing, calls>>

\* Mutant: the last throwIfAborted before the row is completed is missing.
EndOfUnchecked(rendered) == IF rendered THEN "completed" ELSE "failed"

\* What the worker writes to the row of the active job: a job that was aborted
\* is never completed, and only a running one is failed.
EndOf(rendered) ==
  IF rendered /\ ~worker.aborted THEN "completed"
  ELSE IF state[worker.active] # "running" THEN state[worker.active]
  ELSE IF closing THEN "interrupted" ELSE "failed"

JobDone ==
  /\ worker.active # NoJob
  /\ \E rendered \in BOOLEAN : Pull([state EXCEPT ![worker.active] = EndOf(rendered)])
  /\ UNCHANGED <<superseded, ledger, closing, mailing, calls>>

\* Mutant: the worker does not look for jobs queued since drain() returned.
ReturnedForGood ==
  /\ worker.phase = "returned"
  /\ worker' = Idle
  /\ UNCHANGED <<state, superseded, ledger, closing, mailing, calls>>

\* The promise of drain() settles: a job queued since it returned wakes a new one.
Returned ==
  /\ worker.phase = "returned"
  /\ worker' = IF closing \/ Queued(state) = {} THEN Idle ELSE [Idle EXCEPT !.phase = "scheduled"]
  /\ UNCHANGED <<state, superseded, ledger, closing, mailing, calls>>

-----------------------------------------------------------------------------
(* Mail *)

MailEnded(j) == delivery[j] \notin {"none", "sending"}
Sendable(j) == j \in Job /\ state[j] = "completed" /\ j \notin superseded

CanRetryEmail(j) ==
  Sendable(j) /\ j \notin receipts /\ MailEnded(j) /\ Len(attempts[j]) = 1

\* What is checked before the file is read and again afterwards.
Due(j, retry) ==
  /\ Sendable(j)
  /\ IF retry THEN CanRetryEmail(j) ELSE delivery[j] = "none"

\* sendEmail up to its first await.
SendAccepted(j, retry) ==
  ~closing /\ mailing = NoJob /\ Due(j, retry)

SendEmail(c, j, retry) ==
  /\ calls[c] = NoCall
  /\ SendAccepted(j, retry)
  /\ calls' = [calls EXCEPT ![c] = [phase |-> "reading", job |-> j, retry |-> retry, aborted |-> FALSE]]
  /\ UNCHANGED <<ledger, exports, closing, mailing>>

\* The signal of the turn that sends is aborted.
Abort(c) ==
  /\ calls[c].phase = "reading"
  /\ calls' = [calls EXCEPT ![c].aborted = TRUE]
  /\ UNCHANGED <<ledger, exports, closing, mailing>>

\* Mutant: after the file was read, it is not asked again whether a mail is under way.
ProceedsBusy(c) ==
  ~calls[c].aborted /\ ~closing /\ Due(calls[c].job, calls[c].retry) /\ today < DailyLimit

Proceeds(c) ==
  /\ ~calls[c].aborted
  /\ ~closing /\ mailing = NoJob
  /\ Due(calls[c].job, calls[c].retry)
  /\ today < DailyLimit

\* The file was read: the attempt is recorded and handed to the mail server.
SendStarts(c) ==
  /\ calls[c].phase = "reading"
  /\ Proceeds(c)
  /\ LET j == calls[c].job
     IN  /\ attempts' = [attempts EXCEPT ![j] = Append(@, "sending")]
         /\ delivery' = [delivery EXCEPT ![j] = "sending"]
         /\ mailing' = j
  /\ today' = today + 1
  /\ calls' = [calls EXCEPT ![c].phase = "sending"]
  /\ UNCHANGED <<receipts, exports, closing>>

\* A check fails after the file was read, or the file cannot be read.
SendGivesUp(c) ==
  /\ calls[c].phase = "reading"
  /\ calls' = [calls EXCEPT ![c] = NoCall]
  /\ UNCHANGED <<ledger, exports, closing, mailing>>

\* settle: the row of the attempt in flight.
SettledLast(j, outcome) == [attempts EXCEPT ![j][Len(attempts[j])] = outcome]

\* The mail server answers, or its deadline passes.
MailSettles ==
  /\ mailing # NoJob
  /\ \E outcome \in Outcomes :
       /\ attempts' = SettledLast(mailing, outcome)
       /\ delivery' = [delivery EXCEPT ![mailing] = outcome]
  /\ mailing' = NoJob
  /\ calls' = [c \in Callers |-> IF calls[c].phase = "sending" THEN NoCall ELSE calls[c]]
  /\ UNCHANGED <<receipts, today, exports, closing>>

AcknowledgeReceipt(j) ==
  /\ j \in Job /\ MailEnded(j)
  /\ receipts' = receipts \union {j}
  /\ UNCHANGED <<attempts, delivery, today, exports, closing, mailing, calls>>

Midnight ==
  /\ today # 0
  /\ today' = 0
  /\ UNCHANGED <<receipts, attempts, delivery, exports, closing, mailing, calls>>

-----------------------------------------------------------------------------
(* Stop and start *)

Close ==
  /\ ~closing
  /\ closing' = TRUE
  /\ worker' = IF worker.phase = "scheduled" THEN Idle
               ELSE [worker EXCEPT !.aborted = worker.active # NoJob]
  /\ UNCHANGED <<state, superseded, ledger, mailing, calls>>

Recovered(s) == IF s = "sending" THEN "unknown" ELSE s

\* create(): what was running or being sent has an unknown end.
StoreRestarts ==
  /\ state' = [j \in Job |-> IF state[j] = "running" THEN "interrupted" ELSE state[j]]
  /\ attempts' = [j \in Job |-> [i \in DOMAIN attempts[j] |-> Recovered(attempts[j][i])]]
  /\ delivery' = [j \in Job |-> Recovered(delivery[j])]
  /\ closing' = FALSE
  /\ worker' = [Idle EXCEPT !.phase = "scheduled"]
  /\ mailing' = NoJob
  /\ calls' = [c \in Callers |-> NoCall]
  /\ UNCHANGED <<superseded, receipts, today>>

\* What goes on by itself, and what the callers do.
StoreWorks ==
  \/ ScheduledRuns \/ JobDone \/ Returned
  \/ MailSettles
  \/ \E c \in Callers : SendStarts(c) \/ SendGivesUp(c)
StoreUsed ==
  \/ Enqueue
  \/ \E j \in Job : Cancel(j) \/ Supersede(j) \/ Discard(j) \/ AcknowledgeReceipt(j)
  \/ \E c \in Callers : Abort(c) \/ \E j \in Job, retry \in BOOLEAN : SendEmail(c, j, retry)
StoreNext == StoreWorks \/ StoreUsed \/ Midnight \/ Close \/ StoreRestarts

StoreSpec == StoreInit /\ [][StoreNext]_storeVars

\* The event loop runs what is ready, reading a file ends, and the mail server
\* has a deadline of 20 seconds.
StoreFairness ==
  /\ WF_storeVars(ScheduledRuns) /\ WF_storeVars(JobDone) /\ WF_storeVars(Returned)
  /\ WF_storeVars(MailSettles)
  /\ \A c \in Callers : WF_storeVars(SendStarts(c) \/ SendGivesUp(c))

FairStoreSpec == StoreSpec /\ StoreFairness

-----------------------------------------------------------------------------
(* Properties *)

\* One mail is in the hands of the mail server at a time, and a row says
\* "sending" only while that is so: confirmations that wait for the file side
\* by side, and restarts, never start a second one (job-store.ts:116-139).
OneInFlight ==
  \A j \in Job : delivery[j] = "sending" <=> mailing = j

\* The latest-state row and the history of attempts tell the same story; an
\* artifact is sent twice at most, and the second time only after the first
\* attempt has ended (job-store.ts:127-149).
LedgerAgrees ==
  \A j \in Job :
    /\ Len(attempts[j]) <= 2
    /\ delivery[j] = IF Len(attempts[j]) = 0 THEN "none" ELSE attempts[j][Len(attempts[j])]
    /\ \A i \in 1..Len(attempts[j]) - 1 : attempts[j][i] # "sending"

\* Two mails never overlap and two records of them never disagree.
LedgerHeld == OneInFlight /\ LedgerAgrees

\* An attempt begins only for a finished artifact that is current and not
\* reported as received, and never for a turn that was aborted while the file
\* was being read (job-store.ts:110-118).
SendsCurrentOnly ==
  [][\A j \in Job : Len(attempts'[j]) > Len(attempts[j]) =>
       /\ Sendable(j) /\ j \notin receipts
       /\ \E c \in Callers : calls'[c].phase = "sending" /\ calls'[c].job = j /\ ~calls'[c].aborted]_storeVars

\* A job that ended stays as it ended: a job cancelled or interrupted while it
\* was written is never published afterwards (job-store.ts:197-222).
EndedJobsStay ==
  [][\A j \in Job : state[j] \in Ended => state'[j] = state[j]]_storeVars

\* Nothing is left behind: every job ends unless the service stops, also one
\* that is queued while drain() returns (job-store.ts:184-193), and no mail
\* stays "sending" (job-store.ts:139-149).
WorkEnds ==
  \A j \in Job :
    /\ state[j] \in {"queued", "running"} ~> state[j] \in Ended \/ closing
    /\ delivery[j] = "sending" ~> delivery[j] # "sending"
===============================================================================
