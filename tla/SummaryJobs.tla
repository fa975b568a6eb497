----------------------------- MODULE SummaryJobs -----------------------------
(***************************************************************************)
(* The background summaries of conversations: the summary_jobs and         *)
(* session_summaries tables of ConversationStore and the worker that works *)
(* them off, SessionSummaryService.                                        *)
(*                                                                         *)
(* The store's operations are synchronous transactions.  The worker waits  *)
(* only for the provider (phases "asking" to "repairing") and before its   *)
(* drain starts ("scheduled"); in the phase "claiming" it runs to its next *)
(* await before anybody else does, hence Awaits in the other actions.      *)
(*                                                                         *)
(* Messages are numbers, a session's log says which were committed and     *)
(* which are the user's.  A summary is the set of messages its text draws  *)
(* on: those of its range and those of the previous summary that the       *)
(* request contained.  Delays before a retry, the hour before a recovery   *)
(* and the state of the budget are choices of the environment.             *)
(***************************************************************************)
EXTENDS Integers, Sequences, FiniteSets, FiniteSetsExt

CONSTANTS
  Sessions,
  MaxMessages,    \* bound on the messages of a session
  MaxRestarts,    \* bound on the restarts of the service
  Fits,           \* how many messages may fit in a request, by model and length
  Threshold,      \* messageThreshold: uncovered messages that start a live summary
  KeepRecent,     \* keepRecentMessages: messages a live summary leaves alone
  MaxBatch,       \* maxBatchMessages
  CloseMin,       \* uncovered messages worth a summary of a closed session: 6
  RevisitAfter,   \* new messages before a live session tries again: 60
  MaxAttempts,    \* SUMMARY_RETRY_POLICY.maxAttempts: 3
  MaxDeferrals,   \* SUMMARY_RETRY_POLICY.maxBudgetDeferrals: 24
  LastGeneration  \* a start is given up for good in this generation: 2

ASSUME SummaryParameters ==
  /\ {MaxMessages, MaxRestarts, LastGeneration} \subseteq Nat
  /\ Fits # {} /\ Fits \subseteq Nat \ {0}
  /\ {KeepRecent, MaxBatch, CloseMin, RevisitAfter, MaxAttempts, MaxDeferrals} \subseteq Nat \ {0}
  /\ Threshold \in Nat /\ KeepRecent < Threshold

VARIABLES
  state,      \* sessions.status: "open" (active, idle), "closed" (ended, expired), "gone"
  log,        \* the session's messages: [user, kept], kept when committed
  through,    \* sessions.summary_through_sequence
  marker,     \* through_sequence of the newest forget marker
  jobs,       \* summary_jobs: the rows, by their unique key
  summaries,  \* session_summaries: [to, draws]
  worker,     \* SessionSummaryService and its drain()
  fit,        \* messages that fit in a request to the configured model
  restarts

vars == <<state, log, through, marker, jobs, summaries, worker, fit, restarts>>

NoMarker == -1
NoFloor == 0
NoJob == [session |-> "none", from |-> 0, to |-> 0, gen |-> 0]
RetryCodes == {"MODEL_FAILED", "SCHEMA_INVALID", "BUDGET_DEFERRED"}
TerminalCodes == {"GAVE_UP", "BUDGET_GAVE_UP", "INPUT_LIMIT"}
Codes == {"NONE", "RANGE_INVALID", "REBATCHED", "FORGOTTEN"} \union RetryCodes \union TerminalCodes
Busy == {"asking", "calling", "askingRepair", "repairing"}
Sequence == 1..MaxMessages
Key == [session : Sessions, from : Sequence, to : Sequence, gen : 0..LastGeneration]
\* anchor is terminal_sequence; paid counts the rounds whose first request was
\* accepted by the provider: it is a history variable, no column holds it
Job == [status : {"queued", "running", "completed", "failed", "unknown"}, code : Codes,
        attempts : 0..MaxAttempts, deferrals : 0..MaxDeferrals,
        anchor : 0..MaxMessages, paid : Nat]

Kept(l) == {i \in DOMAIN l : l[i].kept}
First(S, n) == {x \in S : Cardinality({y \in S : y <= x}) <= n}
Least(a, b) == IF a <= b THEN a ELSE b
Floor(l, m) ==
  LET after == {i \in Kept(l) : l[i].user /\ i > m}
  IN IF m = NoMarker THEN 1 ELSE IF after = {} THEN NoFloor ELSE Min(after)
Start(s) ==
  LET floor == Floor(log[s], marker[s])
  IN IF floor = NoFloor \/ floor > through[s] THEN floor ELSE through[s] + 1
RangeAllowed(s, from) ==
  marker[s] # NoMarker => /\ state[s] = "open"
                          /\ Floor(log[s], marker[s]) \in 1..from

Retryable(row) == row.status = "failed" /\ row.code \in RetryCodes
Unsettled(row) == \/ row.status \in {"queued", "running", "unknown"}
                  \/ Retryable(row) /\ row.attempts < MaxAttempts
Blocking(js, s) == \E k \in DOMAIN js : k.session = s /\ Unsettled(js[k])
Running(js) == {k \in DOMAIN js : js[k].status = "running"}

NewJob == [status |-> "queued", code |-> "NONE", attempts |-> 0, deferrals |-> 0,
           anchor |-> 0, paid |-> 0]
\* nothing reads the counters of a settled row again: they are dropped here
Settled(k, status, code) ==
  [NewJob EXCEPT !.status = status, !.code = code,
                 !.anchor = IF code \in TerminalCodes THEN Len(log[k.session]) ELSE 0]
Fail(js, k, code) ==
  [js EXCEPT ![k] = IF code \in RetryCodes THEN [@ EXCEPT !.status = "failed", !.code = code]
                    ELSE Settled(k, "failed", code)]
Forgotten(js, s) ==
  [k \in DOMAIN js |->
    IF k.session = s /\ js[k].status # "completed"
    THEN Settled(k, "failed", "FORGOTTEN") ELSE js[k]]

-----------------------------------------------------------------------------
(* Planning a range *)

Terminals(js, s, from) ==
  {k \in DOMAIN js : /\ k.session = s /\ k.from = from
                     /\ js[k].status = "failed" /\ js[k].code \in TerminalCodes}
NewestTerminal(js, s, from) ==
  CHOOSE k \in Terminals(js, s, from) : \A o \in Terminals(js, s, from) :
    k.gen > o.gen \/ (k.gen = o.gen /\ js[k].anchor >= js[o].anchor)

\* hasTerminalSummaryStart: this start was given up and may not be tried again
\* yet; "ready" says that the budget is available, or the hour has passed
GivenUp(js, s, st, from, ready) ==
  /\ Terminals(js, s, from) # {}
  /\ LET k == NewestTerminal(js, s, from)
         news == Cardinality({i \in Kept(log[s]) : i > js[k].anchor})
     IN \/ k.gen >= LastGeneration
        \/ st = "closed" /\ (js[k].code = "INPUT_LIMIT" \/ ~ready)
        \/ st = "open" /\ (news < RevisitAfter \/ (js[k].code = "BUDGET_GAVE_UP" /\ ~ready))

Insert(js, s, st, from, to, ready) ==
  LET terminal == Terminals(js, s, from)
      gen == IF terminal = {} \/ GivenUp(js, s, st, from, ready)
             THEN 0 ELSE Max({k.gen : k \in terminal}) + 1
      key == [session |-> s, from |-> from, to |-> to, gen |-> gen]
  IN [k \in DOMAIN js \union {key} |-> IF k \in DOMAIN js THEN js[k] ELSE NewJob]

EnqueueClosed(js, s, covered, ready) ==
  LET pend == {i \in Kept(log[s]) : i > covered}
  IN IF \/ marker[s] # NoMarker \/ Blocking(js, s)
        \/ GivenUp(js, s, "closed", covered + 1, ready)
        \/ Cardinality(pend) < CloseMin
     THEN js
     ELSE Insert(js, s, "closed", covered + 1, Max(First(pend, fit)), ready)

ScheduleActive(js, s, l, start, ready) ==
  LET rows == {i \in Kept(l) : i >= start}
      n == Least(Cardinality(rows) - KeepRecent, MaxBatch)
  IN IF \/ start = NoFloor \/ GivenUp(js, s, "open", start, ready)
        \/ Cardinality(rows) < Threshold
     THEN js
     ELSE Insert(js, s, "open", start, Max(First(rows, Least(n, fit))), ready)

Consider(js, s, st, l, start, ready) ==
  IF st # "open" \/ Blocking(js, s) THEN js ELSE ScheduleActive(js, s, l, start, ready)
Kicked == IF worker.phase = "asleep" THEN [worker EXCEPT !.phase = "scheduled"] ELSE worker
Awaits == worker.phase # "claiming"

-----------------------------------------------------------------------------
(* The conversations *)

Init ==
  /\ state = [s \in Sessions |-> "open"]
  /\ log = [s \in Sessions |-> <<>>]
  /\ through = [s \in Sessions |-> 0]
  /\ marker = [s \in Sessions |-> NoMarker]
  /\ jobs = [k \in {} |-> NewJob]
  /\ summaries = [s \in Sessions |-> {}]
  /\ worker = [phase |-> "scheduled", job |-> NoJob, draws |-> {}]
  /\ fit \in Fits
  /\ restarts = 0

Room(s) == Awaits /\ state[s] = "open" /\ Len(log[s]) < MaxMessages

Question(s) ==
  /\ Room(s)
  /\ log' = [log EXCEPT ![s] = Append(@, [user |-> TRUE, kept |-> TRUE])]
  /\ UNCHANGED <<state, through, marker, jobs, summaries, worker, fit, restarts>>

\* the answer to the last question, interrupted or committed; the commit
\* calls onTurnCommitted
Answer(s, kept) ==
  /\ Room(s) /\ log[s] # <<>> /\ log[s][Len(log[s])].user
  /\ log' = [log EXCEPT ![s] = Append(@, [user |-> FALSE, kept |-> kept])]
  /\ \E ready \in BOOLEAN :
       jobs' = IF kept THEN Consider(jobs, s, "open", log'[s], Start(s), ready) ELSE jobs
  /\ worker' = IF kept THEN Kicked ELSE worker
  /\ UNCHANGED <<state, through, marker, summaries, fit, restarts>>

\* dispose(): finishSession, then consider(), which only kicks
Close(s) ==
  /\ Awaits /\ state[s] = "open"
  /\ state' = [state EXCEPT ![s] = "closed"]
  /\ \E ready \in BOOLEAN :
       jobs' = EnqueueClosed(IF marker[s] = NoMarker THEN jobs ELSE Forgotten(jobs, s),
                             s, through[s], ready)
  /\ worker' = Kicked
  /\ UNCHANGED <<log, through, marker, summaries, fit, restarts>>

\* a memory that draws on the session is forgotten, here or in another session;
\* a second marker at the same message finds nothing left to undo
Forget(s) ==
  /\ Awaits /\ state[s] # "gone" /\ marker[s] < Len(log[s])
  /\ marker' = [marker EXCEPT ![s] = Len(log[s])]
  /\ summaries' = [summaries EXCEPT ![s] = {}]
  /\ jobs' = Forgotten(jobs, s)
  /\ UNCHANGED <<state, log, through, worker, fit, restarts>>

\* cleanupExpiredSessions deletes the session, its messages, jobs and summaries
Purge(s) ==
  /\ Awaits /\ state[s] = "closed"
  /\ \A k \in Running(jobs) : k.session # s
  /\ state' = [state EXCEPT ![s] = "gone"]
  /\ log' = [log EXCEPT ![s] = <<>>]
  /\ through' = [through EXCEPT ![s] = 0]
  /\ jobs' = [k \in {key \in DOMAIN jobs : key.session # s} |-> jobs[k]]
  /\ summaries' = [summaries EXCEPT ![s] = {}]
  /\ UNCHANGED <<marker, worker, fit, restarts>>

-----------------------------------------------------------------------------
(* The worker *)

To(phase) == [phase |-> phase, job |-> NoJob, draws |-> {}]

TimerKick ==
  /\ worker.phase = "asleep"
  /\ worker' = Kicked
  /\ UNCHANGED <<state, log, through, marker, jobs, summaries, fit, restarts>>

\* recoverClosedSummaries looks at a page of the closed sessions whose next
\* start was given up, and queues a new generation for at most one of them
Recoverable(s) ==
  /\ state[s] = "closed" /\ ~Blocking(jobs, s)
  /\ \E k \in Terminals(jobs, s, through[s] + 1) :
       jobs[k].code # "INPUT_LIMIT" /\ k.gen < LastGeneration
Drain ==
  /\ worker.phase = "scheduled"
  /\ worker' = To("claiming")
  /\ \/ \E s \in {x \in Sessions : Recoverable(x)} :
          jobs' = EnqueueClosed(jobs, s, through[s], TRUE)
     \/ UNCHANGED jobs
  /\ UNCHANGED <<state, log, through, marker, summaries, fit, restarts>>

\* the first two UPDATEs of claimNextSummaryJob
Stale(k) == Start(k.session) # NoFloor
            /\ (k.from # Start(k.session) \/ k.to > Len(log[k.session]))
Quarantined ==
  [k \in DOMAIN jobs |->
    CASE Unsettled(jobs[k]) /\ jobs[k].status # "running" /\ Stale(k) ->
           Settled(k, "failed", "RANGE_INVALID")
      [] jobs[k].status = "unknown" /\ jobs[k].attempts >= MaxAttempts ->
           Settled(k, "failed", "GAVE_UP")
      [] OTHER -> jobs[k]]
Claimable(k) ==
  /\ marker[k.session] = NoMarker \/ state[k.session] = "open"
  /\ k.from = Start(k.session)
  /\ Unsettled(Quarantined[k])

Uncovered(k) == {i \in Kept(log[k.session]) : k.from <= i /\ i <= k.to}
Previous(s) ==
  LET rows == {r \in summaries[s] : r.to >= Floor(log[s], marker[s])}
  IN IF rows = {} THEN {} ELSE (CHOOSE r \in rows : \A o \in rows : r.to >= o.to).draws

\* an hour that has passed stays passed, only the budget may be gone again
Cooled(k) == k.gen > 0 /\ jobs[NewestTerminal(jobs, k.session, k.from)].code # "BUDGET_GAVE_UP"

\* a retry is claimed when its delay is over, a queued job at once
Claim(k) ==
  LET batch == First(Uncovered(k), fit)
      claimed == [Quarantined EXCEPT ![k].status = "running", ![k].code = "NONE",
                                     ![k].attempts = @ + 1]
  IN /\ worker.phase = "claiming" /\ Running(jobs) = {}
     /\ k \in DOMAIN jobs /\ Claimable(k)
     /\ IF Max(batch) < k.to
        THEN \E ready \in {b \in BOOLEAN : Cooled(k) => b} :
               /\ jobs' = Insert(Fail(claimed, k, "REBATCHED"), k.session,
                                 state[k.session], k.from, Max(batch), ready)
               /\ UNCHANGED worker
        ELSE /\ jobs' = claimed
             /\ worker' = [phase |-> "asking", job |-> k,
                           draws |-> batch \union Previous(k.session)]
     /\ UNCHANGED <<state, log, through, marker, summaries, fit, restarts>>

NothingDue ==
  /\ worker.phase = "claiming"
  /\ \A k \in DOMAIN jobs : ~(Claimable(k) /\ jobs[k].status = "queued")
  /\ jobs' = Quarantined
  /\ worker' = To("asleep")
  /\ UNCHANGED <<state, log, through, marker, summaries, fit, restarts>>

\* failSummaryJob and deferSummaryJob only touch a running row; their refusal
\* is swallowed by the worker, which goes on to claim
Settles(k, outcome) ==
  /\ jobs' = IF k \in Running(jobs) THEN outcome ELSE jobs
  /\ worker' = To("claiming")
  /\ UNCHANGED <<state, log, through, marker, summaries, fit, restarts>>
Failed(k, code) ==
  Fail(jobs, k, IF jobs[k].attempts >= MaxAttempts /\ code \in RetryCodes THEN "GAVE_UP" ELSE code)
\* faulty variants: a repair's refusal gives the attempt back too; refusals are
\* not counted; they are counted without a limit
DeferredFree(k, consumed) ==
  LET code == IF jobs[k].deferrals + 1 >= MaxDeferrals THEN "BUDGET_GAVE_UP" ELSE "BUDGET_DEFERRED"
  IN Fail([jobs EXCEPT ![k].deferrals = @ + 1, ![k].attempts = Max({0, @ - 1})], k, code)
DeferredUncounted(k, consumed) ==
  LET code == IF consumed /\ jobs[k].attempts >= MaxAttempts THEN "GAVE_UP" ELSE "BUDGET_DEFERRED"
  IN Fail([jobs EXCEPT ![k].attempts = IF consumed THEN @ ELSE Max({0, @ - 1})], k, code)
Deferred(k, consumed) ==
  LET code == IF consumed /\ jobs[k].attempts >= MaxAttempts THEN "GAVE_UP"
              ELSE IF jobs[k].deferrals + 1 >= MaxDeferrals THEN "BUDGET_GAVE_UP"
              ELSE "BUDGET_DEFERRED"
      counted == [jobs EXCEPT ![k].deferrals = @ + 1,
                              ![k].attempts = IF consumed THEN @ ELSE Max({0, @ - 1})]
  IN Fail(counted, k, code)

\* the request is too long, or the ledger refuses it, before it is sent
Refused ==
  /\ worker.phase \in {"asking", "askingRepair"}
  /\ LET k == worker.job
     IN \/ Settles(k, Failed(k, "INPUT_LIMIT"))
        \/ Settles(k, Deferred(k, worker.phase = "askingRepair"))

Ask ==
  /\ worker.phase \in {"asking", "askingRepair"}
  /\ worker' = [worker EXCEPT !.phase = IF @ = "asking" THEN "calling" ELSE "repairing"]
  /\ jobs' = IF worker.phase = "asking" /\ worker.job \in Running(jobs)
             THEN [jobs EXCEPT ![worker.job].paid = @ + 1] ELSE jobs
  /\ UNCHANGED <<state, log, through, marker, summaries, fit, restarts>>

CallFails ==
  /\ worker.phase \in {"calling", "repairing"}
  /\ LET k == worker.job IN Settles(k, Failed(k, "MODEL_FAILED"))

\* only after the first answer does the worker look at the range again
BadAnswer ==
  /\ worker.phase \in {"calling", "repairing"}
  /\ LET k == worker.job
     IN IF worker.phase = "calling" /\ RangeAllowed(k.session, k.from)
        THEN /\ worker' = [worker EXCEPT !.phase = "askingRepair"]
             /\ UNCHANGED <<state, log, through, marker, jobs, summaries, fit, restarts>>
        ELSE Settles(k, Failed(k, IF worker.phase = "calling" THEN "FORGOTTEN" ELSE "SCHEMA_INVALID"))

\* faulty variant: the row and its range are not read again after the answer
CompletableUnchecked(k) == k \in DOMAIN jobs /\ k.to <= Len(log[k.session])
Completable(k) ==
  /\ RangeAllowed(k.session, k.from)
  /\ k \in Running(jobs)
  /\ k.from = Start(k.session) /\ k.to <= Len(log[k.session])

GoodAnswer ==
  /\ worker.phase \in {"calling", "repairing"}
  /\ LET k == worker.job
         s == k.session
         done == [jobs EXCEPT ![k] = Settled(k, "completed", "NONE")]
     IN IF Completable(k)
        THEN /\ summaries' = [summaries EXCEPT ![s] = @ \union {[to |-> k.to, draws |-> worker.draws]}]
             /\ through' = [through EXCEPT ![s] = k.to]
             /\ \E ready \in BOOLEAN :
                  jobs' = IF state[s] = "closed" THEN EnqueueClosed(done, s, k.to, ready)
                          ELSE Consider(done, s, state[s], log[s], k.to + 1, ready)
             /\ worker' = To("claiming")
             /\ UNCHANGED <<state, log, marker, fit, restarts>>
        ELSE Settles(k, Failed(k, IF RangeAllowed(s, k.from) THEN "RANGE_INVALID" ELSE "FORGOTTEN"))

\* faulty variant: the running job is not recovered
RestartForgetsJobs ==
  /\ Awaits /\ restarts < MaxRestarts
  /\ restarts' = restarts + 1
  /\ fit' \in Fits
  /\ worker' = To("scheduled")
  /\ UNCHANGED <<state, log, through, marker, jobs, summaries>>

\* the process dies, or is closed, and starts again, perhaps with another model:
\* close() defers the running job as "unknown", recoverInterrupted does the same
Restart ==
  /\ Awaits /\ restarts < MaxRestarts
  /\ restarts' = restarts + 1
  /\ fit' \in Fits
  /\ worker' = To("scheduled")
  /\ jobs' = [k \in DOMAIN jobs |-> IF jobs[k].status = "running"
                                    THEN [jobs[k] EXCEPT !.status = "unknown"] ELSE jobs[k]]
  /\ UNCHANGED <<state, log, through, marker, summaries>>

Conversation(s) == \/ Question(s) \/ \E kept \in BOOLEAN : Answer(s, kept)
                   \/ Close(s) \/ Forget(s) \/ Purge(s)
Next ==
  \/ \E s \in Sessions : Conversation(s)
  \/ TimerKick \/ Drain \/ NothingDue
  \/ \E k \in Key : Claim(k)
  \/ Ask \/ Refused \/ CallFails \/ BadAnswer \/ GoodAnswer
  \/ Restart

Spec == Init /\ [][Next]_vars

\* The timer fires, the worker's synchronous code runs, every provider call has
\* a deadline, and a retry's delay ends at some sweep: strong fairness, because
\* the job is claimable at every claim but passed over while it is not due.
Returns == Ask \/ Refused \/ CallFails \/ BadAnswer \/ GoodAnswer
Fairness ==
  /\ WF_vars(TimerKick) /\ WF_vars(Drain) /\ WF_vars(NothingDue) /\ WF_vars(Returns)
  /\ SF_vars(\E k \in Key : Claim(k))
FairSpec == Spec /\ Fairness

-----------------------------------------------------------------------------
(* Properties *)

\* The variables have their types.
TypeOK ==
  /\ state \in [Sessions -> {"open", "closed", "gone"}]
  /\ log \in [Sessions -> Seq([user : BOOLEAN, kept : BOOLEAN])]
  /\ through \in [Sessions -> 0..MaxMessages]
  /\ marker \in [Sessions -> NoMarker..MaxMessages]
  /\ DOMAIN jobs \subseteq Key /\ \A k \in DOMAIN jobs : jobs[k] \in Job
  /\ \A s \in Sessions : \A r \in summaries[s] : r.to \in Sequence /\ r.draws \subseteq Sequence
  /\ worker.phase \in Busy \union {"asleep", "scheduled", "claiming"}
  /\ worker.job \in Key \union {NoJob} /\ worker.draws \subseteq Sequence
  /\ fit \in Fits /\ restarts \in 0..MaxRestarts

\* A row says "running" only while the worker waits for that very job, through
\* session ends, forgotten memories, clean-ups and restarts: a row left behind
\* would stop every later claim, and two would be paid for together.
OneRunning == \A k \in Running(jobs) : worker.phase \in Busy /\ worker.job = k

\* However failures, budget deferrals (which give their attempt back), repairs
\* and restarts follow each other, a job is sent to the provider in at most
\* MaxAttempts rounds.
AttemptsBounded == \A k \in DOMAIN jobs : jobs[k].paid <= MaxAttempts

\* A stored summary draws on every committed message from the session's floor
\* to its end, and on nothing else: no message is lost between two ranges, and
\* nothing that was forgotten, or came before it, returns with an answer the
\* provider was already writing, or through the previous summary.
CoveredOnce ==
  \A s \in Sessions : \A r \in summaries[s] :
    /\ r.draws = {i \in Kept(log[s]) : Floor(log[s], marker[s]) <= i /\ i <= r.to}
    /\ r.to <= through[s]
    /\ \A k \in DOMAIN jobs : k.session = s /\ Unsettled(jobs[k]) => k.from > r.to

\* The summary of a live conversation leaves its last KeepRecent committed
\* messages to the context, whatever was said while it was being written.
RecentKept ==
  \A s \in Sessions : state[s] = "open" /\ through[s] > 0 =>
    Cardinality({i \in Kept(log[s]) : i > through[s]}) >= KeepRecent

\* Summaries and context share the messages of a conversation out between them.
RangesAgree == TypeOK /\ CoveredOnce /\ RecentKept

\* Once conversations and restarts end, retries end too: every session is left
\* without work, so nothing is retried or recovered for ever.
JobsSettle == \A s \in Sessions : <>[]~Blocking(jobs, s)

\* docs/CONVERSATION_LAB.md:79 says that a job whose outcome a restart left
\* unknown is not tried, and charged, again by itself.
UnknownNotRetried ==
  [][\A k \in DOMAIN jobs \intersect DOMAIN jobs' :
       jobs[k].status = "unknown" => jobs'[k].status # "running"]_vars
=============================================================================
