-------------------------- MODULE MailDeliveryProofs --------------------------
(***************************************************************************)
(* The first part is about the mail ledger and the export queue of         *)
(* JobStore, for any number of jobs, callers and limits.  The two halves   *)
(* share no variable but closing, so each has its own part of the          *)
(* invariant, and a step is proved for the half it changes.                *)
(*                                                                         *)
(* The second is about who uses it: each step of the conversation and of   *)
(* the web panel is a step of the store or leaves it alone, so whatever    *)
(* holds of the store holds behind them.                                   *)
(***************************************************************************)
EXTENDS MailDelivery, SequenceTheorems, WellFoundedInduction, TLAPS

USE JobParameters

MailStates == Outcomes \union {"sending"}
Worker == [phase : {"idle", "scheduled", "draining", "returned"},
           active : Job \union {NoJob}, aborted : BOOLEAN]
Call == [phase : {"none", "reading", "sending"},
         job : Job \union {NoJob}, retry : BOOLEAN, aborted : BOOLEAN]

\* The export queue: the active job runs unless it was aborted.
ExportsOK ==
  /\ state \in [Job -> States]
  /\ superseded \subseteq Job
  /\ closing \in BOOLEAN
  /\ worker \in Worker
  /\ worker.active # NoJob /\ ~worker.aborted => state[worker.active] = "running"

\* The ledger.
LedgerTypes ==
  /\ receipts \subseteq Job
  /\ attempts \in [Job -> Seq(MailStates)]
  /\ delivery \in [Job -> MailStates \union {"none"}]
  /\ today \in 0..DailyLimit
  /\ mailing \in Job \union {NoJob}
  /\ calls \in [Callers -> Call]

LedgerOK == LedgerTypes /\ OneInFlight /\ LedgerAgrees

IInv == ExportsOK /\ LedgerOK

LEMMA TypeParts == IInv => StoreTypeOK
BY DEF IInv, ExportsOK, LedgerOK, LedgerTypes, StoreTypeOK, MailStates, Worker, Call

-----------------------------------------------------------------------------
(* The export queue *)

\* A set of jobs that is not empty has an oldest one (ORDER BY created LIMIT 1
\* finds a row).
LEMMA OldestExists ==
  ASSUME NEW S, S \subseteq Job, S # {}
  PROVE  Min(S) \in S
<1>1. S \subseteq Nat BY DEF Job
<1>2. PICK x \in S : \A y \in S : ~(<<y, x>> \in OpToRel(<, Nat))
  BY <1>1, NatLessThanWellFounded, WFMin
<1>3. \A y \in S : x <= y
  <2> SUFFICES ASSUME NEW y \in S, ~(x <= y) PROVE FALSE OBVIOUS
  <2>1. x \in Nat /\ y \in Nat /\ y < x BY <1>1
  <2>2. <<y, x>> \in OpToRel(<, Nat) BY <2>1 DEF OpToRel
  <2> QED BY <1>2, <2>2
<1> QED BY <1>3 DEF Min

\* The head of the loop starts the oldest queued job and ends nothing.
LEMMA PullStarts ==
  ASSUME NEW st \in [Job -> States], Pull(st)
  PROVE  /\ state' \in [Job -> States]
         /\ worker' \in Worker
         /\ worker'.active # NoJob /\ ~worker'.aborted => state'[worker'.active] = "running"
         /\ \A j \in Job : st[j] # "queued" => state'[j] = st[j]
<1>1. CASE closing \/ Queued(st) = {}
  BY <1>1 DEF Pull, Idle, Worker, NoJob
<1>2. CASE ~(closing \/ Queued(st) = {})
  <2>1. Min(Queued(st)) \in Queued(st) BY <1>2, OldestExists DEF Queued
  <2> DEFINE m == Min(Queued(st))
  <2>2. m \in Job /\ m # NoJob BY <2>1 DEF Queued, Job, NoJob
  <2>3. st[m] = "queued" BY <2>1 DEF Queued
  <2>4. /\ state' = [st EXCEPT ![m] = "running"]
        /\ worker' = [phase |-> "draining", active |-> m, aborted |-> FALSE]
    BY <1>2 DEF Pull
  <2> HIDE DEF m
  <2>5. worker' \in Worker BY <2>2, <2>4 DEF Worker
  <2> QED BY <2>2, <2>3, <2>4, <2>5 DEF States
<1> QED BY <1>1, <1>2

\* Waking the worker changes it only while it rests.
LEMMA KickedOK ==
  ASSUME ExportsOK, NEW st,
         worker.active # NoJob /\ ~worker.aborted => st[worker.active] = "running"
  PROVE  Kicked \in Worker
         /\ (Kicked.active # NoJob /\ ~Kicked.aborted => st[Kicked.active] = "running")
BY DEF ExportsOK, Kicked, Idle, Worker, NoJob

EndedStay == \A j \in Job : state[j] \in Ended => state'[j] = state[j]

LEMMA EnqueueExports == ExportsOK /\ Enqueue => ExportsOK' /\ EndedStay
<1> SUFFICES ASSUME ExportsOK, Enqueue PROVE ExportsOK' /\ EndedStay OBVIOUS
<1>1. NewJob \in Free BY OldestExists DEF Enqueue, CanEnqueue, NewJob, Free
<1>2. state' \in [Job -> States] /\ EndedStay
  BY <1>1 DEF ExportsOK, Enqueue, States, Free, EndedStay, Ended
<1>3. worker.active # NoJob /\ ~worker.aborted => state'[worker.active] = "running"
  BY <1>1 DEF ExportsOK, Enqueue, Free, Worker
<1>4. worker' \in Worker
      /\ (worker'.active # NoJob /\ ~worker'.aborted => state'[worker'.active] = "running")
  BY <1>3, KickedOK DEF Enqueue
<1> QED BY <1>2, <1>4 DEF ExportsOK, Enqueue

LEMMA CancelExports ==
  ASSUME NEW j, ExportsOK, Cancel(j) \/ Discard(j)
  PROVE  ExportsOK' /\ EndedStay
<1>1. /\ worker' \in Worker
      /\ worker'.active = worker.active
      /\ ~worker'.aborted => ~worker.aborted /\ worker.active # j
  BY DEF ExportsOK, Cancel, Discard, Worker
<1>2. state' = state \/ (Cancellable(j) /\ state' = [state EXCEPT ![j] = "cancelled"])
  BY DEF Cancel, Discard
<1>3. state' \in [Job -> States] /\ EndedStay
  BY <1>2 DEF ExportsOK, Cancellable, EndedStay, Ended, States
<1>4. superseded' \subseteq Job /\ closing' \in BOOLEAN
  BY DEF ExportsOK, Cancel, Discard
<1>5. worker'.active # NoJob /\ ~worker'.aborted => state'[worker'.active] = "running"
  <2> SUFFICES ASSUME worker'.active # NoJob, ~worker'.aborted
               PROVE  state'[worker'.active] = "running"
    OBVIOUS
  <2>1. state[worker.active] = "running" /\ worker.active # j BY <1>1 DEF ExportsOK
  <2>2. worker.active \in Job BY <1>1 DEF ExportsOK, Worker
  <2> QED BY <1>1, <1>2, <2>1, <2>2 DEF ExportsOK
<1> QED BY <1>1, <1>3, <1>4, <1>5 DEF ExportsOK, Worker

LEMMA WorkerExports ==
  ExportsOK /\ (ScheduledRuns \/ JobDone \/ Returned) => ExportsOK' /\ EndedStay
<1> SUFFICES ASSUME ExportsOK, ScheduledRuns \/ JobDone \/ Returned
             PROVE  ExportsOK' /\ EndedStay
  OBVIOUS
<1>1. CASE ScheduledRuns
  <2>1. state \in [Job -> States] /\ Pull(state) BY <1>1 DEF ScheduledRuns, ExportsOK
  <2> QED BY <1>1, <2>1, PullStarts DEF ScheduledRuns, ExportsOK, EndedStay, Ended
<1>2. CASE JobDone
  <2>1. PICK rendered \in BOOLEAN : Pull([state EXCEPT ![worker.active] = EndOf(rendered)])
    BY <1>2 DEF JobDone
  <2> DEFINE st == [state EXCEPT ![worker.active] = EndOf(rendered)]
  <2>2. worker.active \in Job BY <1>2 DEF JobDone, ExportsOK, Worker
  <2>3. EndOf(rendered) \in States BY <2>2 DEF ExportsOK, EndOf, States
  <2>4. st \in [Job -> States] BY <2>3 DEF ExportsOK
  <2>5. \A j \in Job : state[j] \in Ended => st[j] = state[j]
    <3>1. CASE worker.aborted
      <4>1. state[worker.active] \in Ended => EndOf(rendered) = state[worker.active]
        BY <3>1 DEF EndOf, Ended
      <4> QED BY <4>1 DEF ExportsOK
    <3>2. CASE ~worker.aborted
      <4>1. state[worker.active] \notin Ended BY <1>2, <3>2 DEF JobDone, ExportsOK, Ended
      <4> QED BY <4>1 DEF ExportsOK
    <3> QED BY <3>1, <3>2
  <2>6. Pull(st) BY <2>1
  <2> HIDE DEF st
  <2>7. EndedStay BY <2>4, <2>5, <2>6, PullStarts DEF EndedStay, Ended
  <2> QED BY <1>2, <2>4, <2>6, <2>7, PullStarts DEF JobDone, ExportsOK
<1>3. CASE Returned
  BY <1>3 DEF Returned, ExportsOK, EndedStay, Idle, Worker, NoJob
<1> QED BY <1>1, <1>2, <1>3

LEMMA CloseExports == ExportsOK /\ Close => ExportsOK' /\ EndedStay
<1> SUFFICES ASSUME ExportsOK, Close PROVE ExportsOK' /\ EndedStay OBVIOUS
<1>1. worker' \in Worker /\ (worker'.active = NoJob \/ worker'.aborted)
  BY DEF ExportsOK, Close, Idle, Worker, NoJob
<1> QED BY <1>1 DEF ExportsOK, Close, EndedStay

LEMMA RestartExports == ExportsOK /\ StoreRestarts => ExportsOK' /\ EndedStay
<1> SUFFICES ASSUME ExportsOK, StoreRestarts PROVE ExportsOK' /\ EndedStay OBVIOUS
<1>1. state' \in [Job -> States] /\ EndedStay
  BY DEF ExportsOK, StoreRestarts, States, EndedStay, Ended
<1>2. worker' \in Worker /\ worker'.active = NoJob
  BY DEF StoreRestarts, Idle, Worker, NoJob
<1> QED BY <1>1, <1>2 DEF ExportsOK, StoreRestarts

\* Every step of the store, by what it does to the export queue.
LEMMA ExportsStep == ExportsOK /\ [StoreNext]_storeVars => ExportsOK' /\ EndedStay
<1> SUFFICES ASSUME ExportsOK, [StoreNext]_storeVars PROVE ExportsOK' /\ EndedStay OBVIOUS
<1>1. CASE UNCHANGED <<exports, closing>>
  BY <1>1 DEF exports, ExportsOK, EndedStay
<1>2. ASSUME NEW j, Supersede(j) PROVE ExportsOK' /\ EndedStay
  BY <1>2 DEF Supersede, ExportsOK, EndedStay
<1>3. StoreUsed \/ Midnight \/ MailSettles \/ (\E c \in Callers : SendStarts(c) \/ SendGivesUp(c))
      => \/ UNCHANGED <<exports, closing>>
         \/ Enqueue
         \/ \E j \in Job : Cancel(j) \/ Supersede(j) \/ Discard(j)
  BY DEF StoreUsed, AcknowledgeReceipt, Abort, SendEmail, Midnight, MailSettles,
         SendStarts, SendGivesUp
<1>4. UNCHANGED storeVars => UNCHANGED <<exports, closing>> BY DEF storeVars
<1> QED BY <1>1, <1>2, <1>3, <1>4, EnqueueExports, CancelExports, WorkerExports,
           CloseExports, RestartExports
           DEF StoreNext, StoreWorks

-----------------------------------------------------------------------------
(* The ledger *)

\* What a row says when the ledger is in order.
LEMMA RowsSay ==
  ASSUME LedgerOK, NEW j \in Job
  PROVE  /\ Len(attempts[j]) \in Nat /\ attempts[j] \in Seq(MailStates)
         /\ Len(attempts[j]) = 0 <=> delivery[j] = "none"
         /\ Len(attempts[j]) # 0 => delivery[j] = attempts[j][Len(attempts[j])]
<1>1. attempts[j] \in Seq(MailStates) /\ Len(attempts[j]) \in Nat
  BY LenProperties DEF LedgerOK, LedgerTypes
<1>2. Len(attempts[j]) # 0 => attempts[j][Len(attempts[j])] \in MailStates
  BY <1>1, ElementOfSeq
<1>3. "none" \notin MailStates BY DEF MailStates
<1> QED BY <1>1, <1>2, <1>3 DEF LedgerOK, LedgerAgrees

\* Steps that only change who waits.
LEMMA CallsOnly ==
  ASSUME LedgerOK, UNCHANGED <<ledger, mailing>>, calls' \in [Callers -> Call]
  PROVE  LedgerOK'
BY DEF LedgerOK, LedgerTypes, OneInFlight, LedgerAgrees, ledger

LEMMA WaitersLedger ==
  ASSUME LedgerOK, NEW c \in Callers,
         (\E j \in Job, retry \in BOOLEAN : SendEmail(c, j, retry)) \/ Abort(c) \/ SendGivesUp(c)
  PROVE  LedgerOK'
<1>1. calls \in [Callers -> Call] /\ calls[c] \in Call BY DEF LedgerOK, LedgerTypes
<1>2. CASE \E j \in Job, retry \in BOOLEAN : SendEmail(c, j, retry)
  <2>1. PICK j \in Job, retry \in BOOLEAN : SendEmail(c, j, retry) BY <1>2
  <2>2. [phase |-> "reading", job |-> j, retry |-> retry, aborted |-> FALSE] \in Call BY DEF Call
  <2>3. calls' \in [Callers -> Call] BY <1>1, <2>1, <2>2 DEF SendEmail
  <2> QED BY <2>1, <2>3, CallsOnly DEF SendEmail, ledger
<1>3. CASE Abort(c)
  <2>1. [calls[c] EXCEPT !.aborted = TRUE] \in Call BY <1>1 DEF Call
  <2>2. calls' \in [Callers -> Call] BY <1>1, <1>3, <2>1 DEF Abort
  <2> QED BY <1>3, <2>2, CallsOnly DEF Abort, ledger
<1>4. CASE SendGivesUp(c)
  <2>1. NoCall \in Call BY DEF Call, NoCall
  <2>2. calls' \in [Callers -> Call] BY <1>1, <1>4, <2>1 DEF SendGivesUp
  <2> QED BY <1>4, <2>2, CallsOnly DEF SendGivesUp, ledger
<1> QED BY <1>2, <1>3, <1>4

\* A new attempt: the ledger has room for one, and none is under way.
LEMMA SendStartsLedger ==
  ASSUME LedgerOK, NEW c \in Callers, SendStarts(c)
  PROVE  LedgerOK'
<1> DEFINE j == calls[c].job
           s == attempts[j]
<1>1. /\ j \in Job /\ mailing = NoJob /\ today < DailyLimit
      /\ attempts' = [attempts EXCEPT ![j] = Append(s, "sending")]
      /\ delivery' = [delivery EXCEPT ![j] = "sending"]
      /\ mailing' = j /\ today' = today + 1 /\ receipts' = receipts
      /\ calls' = [calls EXCEPT ![c].phase = "sending"]
  BY DEF SendStarts, Proceeds, Due, Sendable
<1>2. Len(s) \in {0, 1} /\ delivery[j] # "sending"
  BY <1>1, RowsSay DEF SendStarts, Proceeds, Due, CanRetryEmail, MailEnded
<1>3. s \in Seq(MailStates) /\ (Len(s) = 1 => s[1] # "sending")
  BY <1>1, <1>2, RowsSay
<1>4. "sending" \in MailStates BY DEF MailStates
<1> DEFINE t == Append(s, "sending")
<1>5. /\ t \in Seq(MailStates)
      /\ Len(t) = Len(s) + 1 /\ t[Len(t)] = "sending"
      /\ \A i \in 1..Len(s) : t[i] = s[i]
  BY <1>3, <1>4, AppendProperties
<1>6. attempts' = [attempts EXCEPT ![j] = t] BY <1>1
<1>7. calls' \in [Callers -> Call]
  <2>1. calls \in [Callers -> Call] /\ calls[c] \in Call BY DEF LedgerOK, LedgerTypes
  <2>2. [calls[c] EXCEPT !.phase = "sending"] \in Call BY <2>1 DEF Call
  <2> QED BY <1>1, <2>1, <2>2
<1> HIDE DEF t, s, j
<1>8. LedgerTypes'
  <2>1. attempts' \in [Job -> Seq(MailStates)]
    BY <1>1, <1>5, <1>6 DEF LedgerOK, LedgerTypes
  <2>2. delivery' \in [Job -> MailStates \union {"none"}]
    BY <1>1, <1>4 DEF LedgerOK, LedgerTypes
  <2>3. today' \in 0..DailyLimit BY <1>1 DEF LedgerOK, LedgerTypes
  <2> QED BY <1>1, <1>7, <2>1, <2>2, <2>3 DEF LedgerOK, LedgerTypes
<1>9. OneInFlight'
  BY <1>1 DEF LedgerOK, LedgerTypes, OneInFlight, Job, NoJob
<1>10. LedgerAgrees'
  <2>1. ASSUME NEW k \in Job, k # j
        PROVE  attempts'[k] = attempts[k] /\ delivery'[k] = delivery[k]
    BY <1>1, <1>6, <2>1 DEF LedgerOK, LedgerTypes
  <2>2. attempts'[j] = t /\ delivery'[j] = "sending"
    BY <1>1, <1>6 DEF LedgerOK, LedgerTypes
  <2>3. /\ Len(t) <= 2 /\ Len(t) # 0
        /\ \A i \in 1..Len(t) - 1 : t[i] # "sending"
    BY <1>2, <1>3, <1>5
  <2> QED BY <2>1, <2>2, <2>3, <1>5 DEF LedgerOK, LedgerAgrees
<1> QED BY <1>8, <1>9, <1>10 DEF LedgerOK

\* The row of the attempt under way, closed by the answer.
LEMMA SettledRow ==
  ASSUME LedgerOK, MailSettles
  PROVE  /\ mailing \in Job /\ delivery[mailing] = "sending"
         /\ Len(attempts[mailing]) \in {1, 2}
         /\ \E outcome \in Outcomes, t \in Seq(MailStates) :
              /\ attempts' = [attempts EXCEPT ![mailing] = t]
              /\ delivery' = [delivery EXCEPT ![mailing] = outcome]
              /\ Len(t) = Len(attempts[mailing])
              /\ \A i \in 1..Len(t) : t[i] = IF i = Len(t) THEN outcome ELSE attempts[mailing][i]
<1> DEFINE j == mailing
           s == attempts[j]
<1>1. PICK outcome \in Outcomes :
        /\ attempts' = [attempts EXCEPT ![j][Len(s)] = outcome]
        /\ delivery' = [delivery EXCEPT ![j] = outcome]
  BY DEF MailSettles, SettledLast
<1>2. j \in Job /\ delivery[j] = "sending"
  BY DEF MailSettles, LedgerOK, LedgerTypes, OneInFlight
<1>3. s \in Seq(MailStates) /\ Len(s) \in {1, 2}
  <2>1. /\ s \in Seq(MailStates) /\ Len(s) \in Nat
        /\ Len(s) = 0 <=> delivery[j] = "none"
    <3>1. \A k \in Job : /\ attempts[k] \in Seq(MailStates) /\ Len(attempts[k]) \in Nat
                         /\ Len(attempts[k]) = 0 <=> delivery[k] = "none"
      BY RowsSay
    <3> QED BY <1>2, <3>1
  <2>2. Len(s) <= 2 BY <1>2 DEF LedgerOK, LedgerAgrees
  <2>3. Len(s) # 0 BY <1>2, <2>1
  <2>4. \A n \in Nat : n # 0 /\ n <= 2 => n \in {1, 2} OBVIOUS
  <2> HIDE DEF s
  <2> QED BY <2>1, <2>2, <2>3, <2>4
<1> DEFINE t == [s EXCEPT ![Len(s)] = outcome]
<1>4. /\ t \in Seq(MailStates) /\ Len(t) = Len(s)
      /\ \A i \in 1..Len(s) : t[i] = IF i = Len(s) THEN outcome ELSE s[i]
  <2> HIDE DEF s
  <2>1. Len(s) \in 1..Len(s)
    <3>1. CASE Len(s) = 1 BY <3>1
    <3>2. CASE Len(s) = 2 BY <3>2
    <3> QED BY <1>3, <3>1, <3>2
  <2>2. outcome \in MailStates BY DEF MailStates
  <2> QED BY <1>3, <2>1, <2>2, ExceptSeq
<1>5. attempts' = [attempts EXCEPT ![j] = t] BY <1>1
<1>6. \A i \in 1..Len(t) : t[i] = IF i = Len(t) THEN outcome ELSE s[i]
  <2> HIDE DEF t, s
  <2> QED BY <1>4
<1>7. t \in Seq(MailStates) /\ Len(t) = Len(s) BY <1>4
<1> HIDE DEF t
<1>8. \E u \in Seq(MailStates) :
        /\ attempts' = [attempts EXCEPT ![mailing] = u]
        /\ delivery' = [delivery EXCEPT ![mailing] = outcome]
        /\ Len(u) = Len(attempts[mailing])
        /\ \A i \in 1..Len(u) : u[i] = IF i = Len(u) THEN outcome ELSE attempts[mailing][i]
  <2> t \in Seq(MailStates) BY <1>7
  <2> WITNESS t \in Seq(MailStates)
  <2> QED BY <1>1, <1>5, <1>6, <1>7
<1> QED BY <1>2, <1>3, <1>8

\* The answer closes the attempt that was under way, and no other.
LEMMA MailSettlesLedger == LedgerOK /\ MailSettles => LedgerOK'
<1> SUFFICES ASSUME LedgerOK, MailSettles PROVE LedgerOK' OBVIOUS
<1> DEFINE j == mailing
           s == attempts[j]
<1>1. j \in Job /\ delivery[j] = "sending" /\ Len(s) \in {1, 2} BY SettledRow
<1>2. PICK outcome \in Outcomes, t \in Seq(MailStates) :
        /\ attempts' = [attempts EXCEPT ![j] = t]
        /\ delivery' = [delivery EXCEPT ![j] = outcome]
        /\ Len(t) = Len(s)
        /\ \A i \in 1..Len(t) : t[i] = IF i = Len(t) THEN outcome ELSE s[i]
  BY SettledRow
<1>3. /\ mailing' = NoJob /\ receipts' = receipts /\ today' = today
      /\ calls' = [c \in Callers |-> IF calls[c].phase = "sending" THEN NoCall ELSE calls[c]]
  BY DEF MailSettles
<1>4. outcome \in MailStates /\ outcome # "sending" BY DEF MailStates
<1>5. calls' \in [Callers -> Call]
  <2>1. NoCall \in Call BY DEF Call, NoCall
  <2> QED BY <1>3, <2>1 DEF LedgerOK, LedgerTypes
<1>6. \A i \in 1..Len(s) - 1 : s[i] # "sending"
  BY <1>1 DEF LedgerOK, LedgerAgrees
<1> HIDE DEF s
<1>7. LedgerTypes'
  <2>1. attempts' \in [Job -> Seq(MailStates)]
    BY <1>1, <1>2 DEF LedgerOK, LedgerTypes
  <2>2. delivery' \in [Job -> MailStates \union {"none"}]
    BY <1>1, <1>2, <1>4 DEF LedgerOK, LedgerTypes
  <2> QED BY <1>3, <1>5, <2>1, <2>2 DEF LedgerOK, LedgerTypes
<1>8. OneInFlight'
  BY <1>1, <1>2, <1>3, <1>4 DEF LedgerOK, LedgerTypes, OneInFlight, Job, NoJob
<1>9. LedgerAgrees'
  <2>1. ASSUME NEW k \in Job, k # j
        PROVE  attempts'[k] = attempts[k] /\ delivery'[k] = delivery[k]
    BY <1>2, <2>1 DEF LedgerOK, LedgerTypes
  <2>2. attempts'[j] = t /\ delivery'[j] = outcome
    BY <1>1, <1>2 DEF LedgerOK, LedgerTypes
  <2>3. Len(t) <= 2 /\ Len(t) # 0 /\ t[Len(t)] = outcome
    BY <1>1, <1>2
  <2>4. \A i \in 1..Len(t) - 1 : t[i] # "sending" BY <1>1, <1>2, <1>6
  <2> QED BY <2>1, <2>2, <2>3, <2>4 DEF LedgerOK, LedgerAgrees
<1> QED BY <1>7, <1>8, <1>9 DEF LedgerOK

\* A restart rewrites the attempts one by one.
LEMMA RestartRow ==
  ASSUME LedgerOK, StoreRestarts, NEW j \in Job
  PROVE  /\ attempts'[j] \in Seq(MailStates) /\ Len(attempts'[j]) = Len(attempts[j])
         /\ \A i \in 1..Len(attempts[j]) : attempts'[j][i] = Recovered(attempts[j][i])
<1>0. \A x \in MailStates : Recovered(x) \in MailStates
  BY DEF MailStates, Recovered
<1>1. attempts[j] \in Seq(MailStates) /\ DOMAIN attempts[j] = 1..Len(attempts[j])
      /\ Len(attempts[j]) \in Nat
  BY LenProperties DEF LedgerOK, LedgerTypes
<1> DEFINE n == Len(attempts[j])
           t == [i \in 1..n |-> Recovered(attempts[j][i])]
<1>2. attempts'[j] = t BY <1>1 DEF StoreRestarts
<1>3. t \in [1..n -> MailStates] BY <1>0, <1>1, ElementOfSeq
<1>4. t \in Seq(MailStates) BY <1>1, <1>3, SeqDef
<1>5. DOMAIN t = 1..n /\ DOMAIN t = 1..Len(t) /\ Len(t) \in Nat BY <1>4, LenProperties
<1>6. Len(t) = n
  <2> HIDE DEF t, n
  <2>1. n \in Nat BY <1>1 DEF n
  <2> QED BY <1>5, <2>1
<1>7. \A i \in 1..n : t[i] = Recovered(attempts[j][i]) OBVIOUS
<1> QED BY <1>2, <1>4, <1>6, <1>7

\* A restart rewrites what was being sent, in the row and in the history alike.
LEMMA RestartLedger == LedgerOK /\ StoreRestarts => LedgerOK'
<1> SUFFICES ASSUME LedgerOK, StoreRestarts PROVE LedgerOK' OBVIOUS
<1>1. "unknown" \in MailStates /\ \A x \in MailStates : Recovered(x) \in MailStates \ {"sending"}
  BY DEF MailStates, Recovered
<1>2. \A j \in Job :
        /\ attempts'[j] \in Seq(MailStates) /\ Len(attempts'[j]) = Len(attempts[j])
        /\ \A i \in 1..Len(attempts[j]) : attempts'[j][i] = Recovered(attempts[j][i])
  BY RestartRow
<1>3. \A j \in Job : delivery'[j] = Recovered(delivery[j])
  BY DEF StoreRestarts
<1>4. LedgerTypes'
  <2>1. attempts' \in [Job -> Seq(MailStates)] BY <1>2 DEF StoreRestarts
  <2>2. delivery' \in [Job -> MailStates \union {"none"}]
    BY <1>1 DEF StoreRestarts, LedgerOK, LedgerTypes, Recovered
  <2>3. calls' \in [Callers -> Call] BY DEF StoreRestarts, NoCall, Call
  <2> QED BY <2>1, <2>2, <2>3 DEF StoreRestarts, LedgerOK, LedgerTypes
<1>5. OneInFlight'
  BY <1>3 DEF OneInFlight, Recovered, StoreRestarts, Job, NoJob
<1>6. LedgerAgrees'
  <2> SUFFICES ASSUME NEW j \in Job
      PROVE  /\ Len(attempts'[j]) <= 2
             /\ delivery'[j] = IF Len(attempts'[j]) = 0 THEN "none" ELSE attempts'[j][Len(attempts'[j])]
             /\ \A i \in 1..Len(attempts'[j]) - 1 : attempts'[j][i] # "sending"
    BY DEF LedgerAgrees
  <2>1. Len(attempts[j]) \in Nat /\ Len(attempts[j]) <= 2
    BY RowsSay DEF LedgerOK, LedgerAgrees
  <2>2. \A i \in 1..Len(attempts[j]) - 1 : Recovered(attempts[j][i]) # "sending"
    BY DEF Recovered
  <2>3. delivery'[j] = IF Len(attempts[j]) = 0 THEN "none" ELSE attempts'[j][Len(attempts[j])]
    BY <1>2, <1>3, <2>1 DEF LedgerOK, LedgerAgrees, Recovered
  <2> QED BY <1>2, <2>1, <2>2, <2>3
<1> QED BY <1>4, <1>5, <1>6 DEF LedgerOK

LEMMA ReceiptsLedger ==
  ASSUME LedgerOK, Midnight \/ \E j \in Job : AcknowledgeReceipt(j)
  PROVE  LedgerOK'
<1>1. /\ receipts' \subseteq Job /\ today' \in 0..DailyLimit
      /\ UNCHANGED <<attempts, delivery, mailing, calls>>
  BY DEF LedgerOK, LedgerTypes, Midnight, AcknowledgeReceipt
<1> QED BY <1>1 DEF LedgerOK, LedgerTypes, OneInFlight, LedgerAgrees

\* Every step of the store, by what it does to the ledger.
LEMMA LedgerStep == LedgerOK /\ [StoreNext]_storeVars => LedgerOK'
<1> SUFFICES ASSUME LedgerOK, [StoreNext]_storeVars PROVE LedgerOK' OBVIOUS
<1>1. CASE UNCHANGED <<ledger, mailing, calls>>
  BY <1>1 DEF LedgerOK, LedgerTypes, OneInFlight, LedgerAgrees, ledger
<1>2. ASSUME ScheduledRuns \/ JobDone \/ Returned \/ Enqueue \/ Close
             \/ \E j \in Job : Cancel(j) \/ Supersede(j) \/ Discard(j)
      PROVE  UNCHANGED <<ledger, mailing, calls>>
  BY <1>2 DEF ScheduledRuns, JobDone, Returned, Enqueue, Close, Cancel, Supersede, Discard
<1>3. UNCHANGED storeVars => UNCHANGED <<ledger, mailing, calls>> BY DEF storeVars
<1> QED BY <1>1, <1>2, <1>3, WaitersLedger, SendStartsLedger, MailSettlesLedger, RestartLedger,
           ReceiptsLedger DEF StoreNext, StoreWorks, StoreUsed

-----------------------------------------------------------------------------
(* For those who use the store *)

\* A job has a new attempt only when a call for it read its file, and the call
\* says which attempt that is.
LEMMA AttemptsGrow ==
  ASSUME LedgerOK, [StoreNext]_storeVars, NEW j \in Job
  PROVE  \/ Len(attempts'[j]) = Len(attempts[j])
         \/ \E c \in Callers :
              /\ SendStarts(c) /\ calls[c].job = j
              /\ Len(attempts[j]) = IF calls[c].retry THEN 1 ELSE 0
              /\ Len(attempts'[j]) = Len(attempts[j]) + 1
<1>1. CASE UNCHANGED attempts BY <1>1
<1>2. ASSUME NEW c \in Callers, SendStarts(c), calls[c].job = j
      PROVE  /\ Len(attempts[j]) = IF calls[c].retry THEN 1 ELSE 0
             /\ Len(attempts'[j]) = Len(attempts[j]) + 1
  <2>1. Len(attempts[j]) = IF calls[c].retry THEN 1 ELSE 0
    BY <1>2, RowsSay DEF SendStarts, Proceeds, Due, CanRetryEmail
  <2>2. "sending" \in MailStates BY DEF MailStates
  <2>3. attempts[j] \in Seq(MailStates) BY RowsSay
  <2>4. attempts'[j] = Append(attempts[j], "sending")
    BY <1>2 DEF SendStarts, LedgerOK, LedgerTypes
  <2>5. Len(Append(attempts[j], "sending")) = Len(attempts[j]) + 1
    BY <2>2, <2>3, AppendProperties
  <2> QED BY <2>1, <2>4, <2>5
<1>3. ASSUME NEW c \in Callers, SendStarts(c), calls[c].job # j
      PROVE  attempts'[j] = attempts[j]
  BY <1>3 DEF SendStarts, LedgerOK, LedgerTypes
<1>4. CASE MailSettles
  <2>1. PICK t : attempts' = [attempts EXCEPT ![mailing] = t] /\ Len(t) = Len(attempts[mailing])
    BY <1>4, SettledRow
  <2> QED BY <2>1 DEF LedgerOK, LedgerTypes
<1>5. CASE StoreRestarts BY <1>5, RestartRow
<1>6. \/ UNCHANGED attempts \/ MailSettles \/ StoreRestarts
      \/ \E c \in Callers : SendStarts(c)
  BY DEF StoreNext, StoreWorks, StoreUsed, ScheduledRuns, JobDone, Returned, Enqueue, Cancel,
         Supersede, Discard, AcknowledgeReceipt, Abort, SendEmail, SendGivesUp, Midnight, Close,
         ledger, storeVars
<1> QED BY <1>1, <1>2, <1>3, <1>4, <1>5, <1>6

\* No call begins to read a file.
NoneReads ==
  \A c \in Callers : calls'[c].phase = "reading" =>
    calls[c].phase = "reading" /\ calls'[c].job = calls[c].job /\ calls'[c].retry = calls[c].retry

LEMMA OnlySendEmailReads ==
  ASSUME LedgerOK,
         \/ StoreWorks \/ Enqueue \/ StoreRestarts \/ UNCHANGED calls
         \/ \E c \in Callers : Abort(c)
  PROVE  NoneReads
<1>1. calls \in [Callers -> Call] BY DEF LedgerOK, LedgerTypes
<1>2. CASE UNCHANGED calls BY <1>2 DEF NoneReads
<1>3. ASSUME NEW c \in Callers, SendStarts(c) \/ SendGivesUp(c) PROVE NoneReads
  BY <1>1, <1>3 DEF SendStarts, SendGivesUp, NoneReads, NoCall, Call
<1>4. CASE MailSettles BY <1>1, <1>4 DEF MailSettles, NoneReads, NoCall
<1>5. CASE StoreRestarts BY <1>5 DEF StoreRestarts, NoneReads, NoCall
<1>6. ASSUME NEW c \in Callers, Abort(c) PROVE NoneReads
  BY <1>1, <1>6 DEF Abort, NoneReads, Call
<1>7. ScheduledRuns \/ JobDone \/ Returned \/ Enqueue => UNCHANGED calls
  BY DEF ScheduledRuns, JobDone, Returned, Enqueue
<1> QED BY <1>2, <1>3, <1>4, <1>5, <1>6, <1>7 DEF StoreWorks

\* No row goes, and no receipt is taken back.
RowsKept == \A j \in Job : state[j] # "none" => state'[j] # "none"

LEMMA RowsStay == ExportsOK /\ [StoreNext]_storeVars => RowsKept /\ receipts \subseteq receipts'
<1> SUFFICES ASSUME ExportsOK, [StoreNext]_storeVars PROVE RowsKept /\ receipts \subseteq receipts'
  OBVIOUS
<1>1. state \in [Job -> States] BY DEF ExportsOK
<1>2. UNCHANGED state => RowsKept BY DEF RowsKept
<1>3. ASSUME NEW st \in [Job -> States], Pull(st), \A j \in Job : state[j] # "none" => st[j] # "none"
      PROVE  RowsKept
  <2>1. Queued(st) # {} => Min(Queued(st)) \in Job BY OldestExists DEF Queued
  <2> QED BY <1>3, <2>1 DEF Pull, RowsKept
<1>4. ScheduledRuns => RowsKept BY <1>1, <1>3 DEF ScheduledRuns
<1>5. ASSUME JobDone PROVE RowsKept
  <2>1. PICK rendered \in BOOLEAN : Pull([state EXCEPT ![worker.active] = EndOf(rendered)])
    BY <1>5 DEF JobDone
  <2>2. worker.active \in Job BY <1>5 DEF JobDone, ExportsOK, Worker
  <2>3. EndOf(rendered) \in States /\ (state[worker.active] # "none" => EndOf(rendered) # "none")
    BY <1>1, <2>2 DEF EndOf, States
  <2> QED BY <1>1, <1>3, <2>1, <2>2, <2>3
<1>6. Enqueue => RowsKept BY <1>1 DEF Enqueue, RowsKept
<1>7. ASSUME NEW j, Cancel(j) \/ Discard(j) PROVE RowsKept
  BY <1>1, <1>7 DEF Cancel, Discard, RowsKept
<1>8. StoreRestarts => RowsKept BY <1>1 DEF StoreRestarts, RowsKept
<1>9. \/ UNCHANGED state \/ ScheduledRuns \/ JobDone \/ Enqueue \/ StoreRestarts
      \/ \E j : Cancel(j) \/ Discard(j)
  BY DEF StoreNext, StoreWorks, StoreUsed, Returned, Supersede, AcknowledgeReceipt, Abort, SendEmail,
         MailSettles, SendStarts, SendGivesUp, Midnight, Close, exports, storeVars
<1>10. receipts \subseteq receipts'
  BY DEF StoreNext, StoreWorks, StoreUsed, ScheduledRuns, JobDone, Returned, Enqueue, Cancel,
         Supersede, Discard, AcknowledgeReceipt, Abort, SendEmail, MailSettles, SendStarts,
         SendGivesUp, Midnight, Close, StoreRestarts, ledger, storeVars
<1> QED BY <1>2, <1>4, <1>5, <1>6, <1>7, <1>8, <1>9, <1>10

-----------------------------------------------------------------------------
(* The theorems *)

LEMMA InitSafe == StoreInit => IInv
<1> SUFFICES ASSUME StoreInit PROVE IInv OBVIOUS
<1>1. ExportsOK BY DEF StoreInit, ExportsOK, States, Idle, Worker, NoJob
<1>2. LedgerTypes
  <2>1. <<>> \in Seq(MailStates) BY EmptySeq
  <2> QED BY <2>1 DEF StoreInit, LedgerTypes, NoCall, Call
<1>3. OneInFlight /\ LedgerAgrees
  <2>1. \A j \in Job : Len(attempts[j]) = 0 BY EmptySeq DEF StoreInit
  <2> QED BY <2>1 DEF StoreInit, OneInFlight, LedgerAgrees, Job, NoJob
<1> QED BY <1>1, <1>2, <1>3 DEF IInv, LedgerOK

\* The invariant both halves make up.
THEOREM Inductive == StoreSpec => []IInv
<1>1. IInv /\ [StoreNext]_storeVars => IInv' BY ExportsStep, LedgerStep DEF IInv
<1> QED BY <1>1, InitSafe, PTL DEF StoreSpec

\* The tables and fields of JobStore keep their types.
THEOREM StoreTypes == StoreSpec => []StoreTypeOK
BY Inductive, TypeParts, PTL

\* sendEmail's checks after the file was read, and create()'s repair: one mail
\* at a time is with the mail server, and only its row says "sending".
THEOREM OneInFlightAlways == StoreSpec => []OneInFlight
<1>1. IInv => OneInFlight BY DEF IInv, LedgerOK
<1> QED BY <1>1, Inductive, PTL

\* An artifact is handed to the mail server twice at most, whatever races,
\* crashes and lost answers there are, and the two tables that record it agree.
THEOREM LedgerAgreesAlways == StoreSpec => []LedgerAgrees
<1>1. IInv => LedgerAgrees BY DEF IInv, LedgerOK
<1> QED BY <1>1, Inductive, PTL

\* Both together: for any number of jobs and of confirmations that race through
\* the reading of the file, one mail at a time and two per artifact at most.
THEOREM LedgerHeldAlways == StoreSpec => []LedgerHeld
BY OneInFlightAlways, LedgerAgreesAlways, PTL DEF LedgerHeld

\* drain()'s checks of the signal: a job that was cancelled, or interrupted by a
\* close, while it was written is never published.
THEOREM EndedJobsStayAlways == StoreSpec => EndedJobsStay
<1>1. IInv /\ [StoreNext]_storeVars => [EndedStay]_storeVars
  BY ExportsStep DEF IInv
<1>2. [EndedStay]_storeVars => [\A j \in Job : state[j] \in Ended => state'[j] = state[j]]_storeVars
  BY DEF EndedStay
<1> QED BY <1>1, <1>2, Inductive, PTL DEF StoreSpec, EndedJobsStay

\* A receipt is for a mail that was tried.
ReceiptsOK == \A j \in receipts : delivery[j] # "none"

LEMMA ReceiptsStep == LedgerOK /\ ReceiptsOK /\ [StoreNext]_storeVars => ReceiptsOK'
<1> SUFFICES ASSUME LedgerOK, ReceiptsOK, [StoreNext]_storeVars PROVE ReceiptsOK' OBVIOUS
<1>1. receipts \subseteq Job /\ delivery \in [Job -> MailStates \union {"none"}]
  BY DEF LedgerOK, LedgerTypes
<1>2. CASE UNCHANGED <<receipts, delivery>> BY <1>2 DEF ReceiptsOK
<1>3. ASSUME NEW c \in Callers, SendStarts(c) PROVE ReceiptsOK'
  BY <1>1, <1>3 DEF SendStarts, ReceiptsOK
<1>4. CASE MailSettles
  <2>1. "none" \notin Outcomes OBVIOUS
  <2> QED BY <1>1, <1>4, <2>1 DEF MailSettles, ReceiptsOK
<1>5. CASE StoreRestarts BY <1>1, <1>5 DEF StoreRestarts, Recovered, ReceiptsOK
<1>6. ASSUME NEW j \in Job, AcknowledgeReceipt(j) PROVE ReceiptsOK'
  BY <1>6 DEF AcknowledgeReceipt, MailEnded, ReceiptsOK
<1>7. \/ UNCHANGED <<receipts, delivery>> \/ MailSettles \/ StoreRestarts
      \/ \E c \in Callers : SendStarts(c)
      \/ \E j \in Job : AcknowledgeReceipt(j)
  BY DEF StoreNext, StoreWorks, StoreUsed, ScheduledRuns, JobDone, Returned, Enqueue, Cancel,
         Supersede, Discard, Abort, SendEmail, SendGivesUp, Midnight, Close, ledger, storeVars
<1> QED BY <1>2, <1>3, <1>4, <1>5, <1>6, <1>7

\* sendEmail checks again what may have changed while the file was read: the
\* artifact is finished, current and not received, and the turn is not aborted.
THEOREM SendsCurrentOnlyAlways == StoreSpec => SendsCurrentOnly
<1> DEFINE Current ==
      \A j \in Job : Len(attempts'[j]) > Len(attempts[j]) =>
        /\ Sendable(j) /\ j \notin receipts
        /\ \E c \in Callers : calls'[c].phase = "sending" /\ calls'[c].job = j /\ ~calls'[c].aborted
<1>1. LedgerOK /\ ReceiptsOK /\ [StoreNext]_storeVars => Current
  <2> SUFFICES ASSUME LedgerOK, ReceiptsOK, [StoreNext]_storeVars,
                      NEW j \in Job, Len(attempts'[j]) > Len(attempts[j])
      PROVE  /\ Sendable(j) /\ j \notin receipts
             /\ \E c \in Callers : calls'[c].phase = "sending" /\ calls'[c].job = j /\ ~calls'[c].aborted
    OBVIOUS
  <2>1. Len(attempts[j]) \in Nat BY RowsSay
  <2>2. PICK c \in Callers : SendStarts(c) /\ calls[c].job = j BY <2>1, AttemptsGrow
  <2>3. Sendable(j) /\ j \notin receipts
    BY <2>2 DEF SendStarts, Proceeds, Due, CanRetryEmail, ReceiptsOK
  <2>4. calls'[c].phase = "sending" /\ calls'[c].job = j /\ ~calls'[c].aborted
    <3>1. calls \in [Callers -> Call] /\ calls[c] \in Call BY DEF LedgerOK, LedgerTypes
    <3> QED BY <2>2, <3>1 DEF SendStarts, Proceeds, Call
  <2> QED BY <2>3, <2>4
<1>2. StoreInit => ReceiptsOK BY DEF StoreInit, ReceiptsOK
<1>3. IInv => LedgerOK BY DEF IInv
<1>4. StoreSpec => [](LedgerOK /\ ReceiptsOK)
  BY <1>2, <1>3, Inductive, ReceiptsStep, PTL DEF StoreSpec
<1>5. LedgerOK /\ ReceiptsOK /\ [StoreNext]_storeVars => [Current]_storeVars BY <1>1
<1> QED BY <1>4, <1>5, PTL DEF StoreSpec, SendsCurrentOnly

HIDE JobParameters

-----------------------------------------------------------------------------
(* The dialogue and the panel, which use the store as it allows.            *)

Runs == [phase : {"none", "planning", "generating", "saving", "sending"}, yes : BOOLEAN,
         approval : Approval, job : Job \union {NoJob}, caller : Callers \union {NoCaller}]

\* The state of the conversation is typed, and a turn that sends waits for a
\* call of its own.
DialogueOK ==
  /\ run \in Runs
  /\ run.phase = "sending" => run.caller \in Callers
  /\ stale \subseteq Job \union {NoJob}
  /\ approval \in Approval /\ web \in Approval
  /\ shown \in Prompt
  /\ draft \in Job \union {NoJob} /\ saved \in Job \union {NoJob}
  /\ asked \in BOOLEAN
  /\ granted \subseteq Prompt

\* What a step of the dialogue does to the store and to itself.
Safe == [StoreNext]_storeVars /\ DialogueOK'

-----------------------------------------------------------------------------
(* Values *)

LEMMA Values ==
  /\ Nothing \in Prompt
  /\ NoApproval \in Approval
  /\ NoRun \in Runs
  /\ NoRun.phase = "none"
<1>1. Nothing \in Prompt BY DEF Prompt
<1>2. NoApproval \in Approval BY <1>1 DEF NoApproval, Approval
<1> QED BY <1>1, <1>2 DEF Runs, NoRun

\* A prompt asks about the first or the second attempt.
LEMMA Prompts ==
  /\ \A j \in Job : [job |-> j, attempt |-> 0] \in Prompt
  /\ \A j : CanRetryEmail(j) => j \in Job /\ [job |-> j, attempt |-> Len(attempts[j])] \in Prompt
BY DEF Prompt, CanRetryEmail, Sendable

LEMMA Previews ==
  ASSUME DialogueOK,
         \/ \E j : Preview(j)
         \/ RetryPreview
         \/ Answered /\ UNCHANGED approval
  PROVE  /\ run' = NoRun /\ shown' \in Prompt /\ asked' \in BOOLEAN /\ approval' \in Approval
<1>1. CASE \E prompt \in Prompt : Asks(prompt)
  BY <1>1 DEF Asks, Approval
<1>2. CASE Answered /\ UNCHANGED approval
  BY <1>2, Values DEF Answered, DialogueOK
<1> QED BY <1>1, <1>2, Prompts DEF Preview, RetryPreview, Sendable

\* Superseding a turn aborts its call or leaves the store alone.
LEMMA AbortRunSafe ==
  ASSUME DialogueOK, AbortRun
  PROVE  [StoreNext]_storeVars /\ stale' \subseteq Job \union {NoJob}
<1>1. [StoreNext]_storeVars
  BY DEF AbortRun, DialogueOK, StoreNext, StoreUsed
<1>2. run.job \in Job \union {NoJob} /\ stale \subseteq Job \union {NoJob} BY DEF Runs, DialogueOK
<1> QED BY <1>1, <1>2 DEF AbortRun

-----------------------------------------------------------------------------
(* Turns *)

LEMMA SubmitSafe ==
  ASSUME DialogueOK, NEW yes \in BOOLEAN, NEW retyped, Submit(yes, retyped)
  PROVE  Safe
<1>1. [StoreNext]_storeVars /\ stale' \subseteq Job \union {NoJob}
  BY AbortRunSafe DEF Submit
<1>2. /\ run' \in Runs
      /\ run'.phase = "planning"
  BY DEF Runs, Submit, DialogueOK, NoRun
<1>3. granted' \subseteq Prompt BY DEF Submit, Grant, DialogueOK
<1> QED BY <1>1, <1>2, <1>3, Values DEF Submit, DialogueOK, Safe

\* The ways a turn ends without an answer of its own.
LEMMA EndsSafe ==
  ASSUME DialogueOK,
         \/ \E b \in BOOLEAN : AnsweredElsewhere(b) \/ Interrupt(b)
         \/ Paused \/ EndSession
  PROVE  Safe
<1>1. AbortRun /\ run' = NoRun
  BY DEF AnsweredElsewhere, Interrupt, Paused, EndSession
<1>2. [StoreNext]_storeVars /\ stale' \subseteq Job \union {NoJob} BY <1>1, AbortRunSafe
<1>3. /\ approval' \in Approval /\ web' \in Approval /\ shown' \in Prompt
      /\ draft' \in Job \union {NoJob} /\ saved' \in Job \union {NoJob}
      /\ asked' \in BOOLEAN /\ granted' \subseteq Prompt
  BY Values DEF AnsweredElsewhere, Interrupt, Paused, EndSession, DialogueOK
<1> QED BY <1>1, <1>2, <1>3, Values DEF DialogueOK, Safe

LEMMA DetachSafe == DialogueOK /\ Detach => Safe
BY Values DEF Detach, DialogueOK, Safe

LEMMA ExpireSafe == DialogueOK /\ Expire => Safe
<1> SUFFICES ASSUME DialogueOK, Expire PROVE Safe OBVIOUS
<1>1. \A a \in Approval : [a EXCEPT !.fresh = FALSE] \in Approval BY DEF Approval
<1>2. run.approval \in Approval BY DEF Runs, DialogueOK
<1>3. [run EXCEPT !.approval = [run.approval EXCEPT !.fresh = FALSE]] \in Runs
      /\ [run EXCEPT !.approval = [run.approval EXCEPT !.fresh = FALSE]].phase = run.phase
      /\ [run EXCEPT !.approval = [run.approval EXCEPT !.fresh = FALSE]].caller = run.caller
  BY <1>1, <1>2 DEF Runs, DialogueOK
<1> QED BY <1>1, <1>3 DEF Expire, DialogueOK, Safe

-----------------------------------------------------------------------------
(* The reply *)

LEMMA AnswersSafe ==
  ASSUME DialogueOK,
         Waits \/ PlainReply \/ NotReceived \/ CancelSending \/ Review \/ Reported \/ NotGenerated \/ Saved
  PROVE  Safe
<1>1. UNCHANGED <<storeVars, stale, web, granted>>
  BY DEF Waits, PlainReply, NotReceived, CancelSending, Review, Reported, NotGenerated, Saved
<1>2. /\ run' = NoRun /\ approval' \in Approval
      /\ shown' \in Prompt /\ asked' \in BOOLEAN
  <2>1. Waits \/ CancelSending => run' = NoRun /\ approval' \in Approval
                                 /\ shown' \in Prompt /\ asked' \in BOOLEAN
    BY Values DEF Waits, CancelSending, Answered, DialogueOK
  <2>2. PlainReply \/ Reported \/ NotGenerated => Answered /\ UNCHANGED approval
    BY DEF PlainReply, Reported, NotGenerated
  <2>3. NotReceived => RetryPreview BY DEF NotReceived
  <2>4. Review \/ Saved => \E j : Preview(j) BY DEF Review, Saved
  <2> QED BY <2>1, <2>2, <2>3, <2>4, Previews
<1>3. draft' \in Job \union {NoJob} /\ saved' \in Job \union {NoJob}
  BY DEF Runs, Waits, PlainReply, NotReceived, CancelSending, Review, Reported, NotGenerated, Saved,
         DialogueOK
<1> QED BY <1>1, <1>2, <1>3, Values DEF DialogueOK, Safe

LEMMA ReceivedSafe == DialogueOK /\ Received => Safe
<1> SUFFICES ASSUME DialogueOK, Received PROVE Safe OBVIOUS
<1>1. StoreNext BY DEF Received, AcknowledgeReceipt, StoreNext, StoreUsed
<1> QED BY <1>1, Values DEF Received, Answered, DialogueOK, Safe

LEMMA ConfirmSafe == DialogueOK /\ Confirm => Safe
<1> SUFFICES ASSUME DialogueOK, Confirm PROVE Safe OBVIOUS
<1> DEFINE retry == run.approval.prompt.attempt # 0
<1>1. UNCHANGED <<stale, draft, saved, web, granted>> BY DEF Confirm
<1>2. CASE \E c \in Callers : /\ SendEmail(c, draft, retry)
                              /\ run' = [NoRun EXCEPT !.phase = "sending", !.caller = c]
                              /\ shown' = Nothing /\ asked' = FALSE /\ approval' = NoApproval
  <2>1. PICK c \in Callers : /\ SendEmail(c, draft, retry)
                            /\ run' = [NoRun EXCEPT !.phase = "sending", !.caller = c]
                            /\ shown' = Nothing /\ asked' = FALSE /\ approval' = NoApproval
    BY <1>2
  <2>2. draft \in Job /\ retry \in BOOLEAN BY <2>1 DEF SendEmail, SendAccepted, Due, Sendable
  <2> HIDE DEF retry
  <2>3. StoreNext BY <2>1, <2>2 DEF StoreNext, StoreUsed
  <2>4. run' \in Runs
        /\ run'.caller \in Callers
    BY <2>1, Values DEF Runs, NoRun
  <2> QED BY <1>1, <2>1, <2>3, <2>4, Values DEF DialogueOK, Safe
<1>3. CASE /\ UNCHANGED storeVars
           /\ \/ Answered /\ approval' = NoApproval
              \/ Preview(draft)
              \/ RetryPreview
  <2>1. run' = NoRun /\ shown' \in Prompt /\ asked' \in BOOLEAN /\ approval' \in Approval
    BY <1>3, Previews, Values DEF Answered
  <2> QED BY <1>1, <1>3, <2>1, Values DEF DialogueOK, Safe
<1> QED BY <1>2, <1>3 DEF Confirm

\* A new artifact.
LEMMA GenerateSafe == DialogueOK /\ Generate => Safe
<1> SUFFICES ASSUME DialogueOK, Generate PROVE Safe OBVIOUS
<1>1. [StoreNext]_storeVars BY DEF Generate, Supersede, StoreNext, StoreUsed
<1>2. run' \in Runs
      /\ run'.phase = "generating"
  BY Values DEF Runs, Generate, NoRun
<1> QED BY <1>1, <1>2, Values DEF Generate, DialogueOK, Safe

LEMMA GeneratedSafe == DialogueOK /\ Generated => Safe
<1> SUFFICES ASSUME DialogueOK, Generated PROVE Safe OBVIOUS
<1>1. StoreNext BY DEF Generated, StoreNext, StoreUsed
<1>2. NewJob \in Job BY OldestExists DEF Generated, Enqueue, CanEnqueue, NewJob, Free
<1>3. run' \in Runs
      /\ run'.phase = "saving"
  BY <1>2 DEF Runs, Generated, DialogueOK
<1> QED BY <1>1, <1>3 DEF Generated, DialogueOK, Safe

LEMMA WithdrawnJobSafe ==
  ASSUME DialogueOK, NotSaved \/ \E j \in stale : StaleReturns(j)
  PROVE  Safe
<1>1. \A j : Discard(j) => StoreNext BY DEF Discard, StoreNext, StoreUsed
<1>2. CASE NotSaved
  BY <1>1, <1>2, Values DEF NotSaved, Answered, DialogueOK, Safe
<1>3. CASE \E j \in stale : StaleReturns(j)
  BY <1>1, <1>3 DEF StaleReturns, DialogueOK, Safe
<1> QED BY <1>2, <1>3

-----------------------------------------------------------------------------
(* The web panel, and the rest *)

LEMMA PanelSafe == DialogueOK /\ Panel => Safe
<1> SUFFICES ASSUME DialogueOK, Panel PROVE Safe OBVIOUS
<1>1. ASSUME NEW j \in Job, NEW retry \in BOOLEAN, Prepared(j, retry) PROVE web' \in Approval
  BY <1>1, Values, Prompts DEF Prepared, Approval, Due
<1>2. CASE \E j \in Job, retry \in BOOLEAN : Prepare(j, retry)
  BY <1>1, <1>2, Values DEF Prepare, Withdrawn, DialogueOK, Safe
<1>3. CASE \E j \in Job, current \in BOOLEAN : Unapproved(j, current)
  BY <1>1, <1>3, Values DEF Unapproved, Withdrawn, DialogueOK, Safe
<1>4. ASSUME NEW j \in Job, NEW current \in BOOLEAN, Approved(j, current) PROVE Safe
  <2>1. [StoreNext]_storeVars
    <3>1. (web.prompt.attempt # 0) \in BOOLEAN OBVIOUS
    <3> QED BY <1>4, <3>1 DEF Approved, StoreNext, StoreUsed
  <2>2. granted' \subseteq Prompt BY <1>4 DEF Approved, Grant, DialogueOK, Approval
  <2> QED BY <1>4, <2>1, <2>2, Values DEF Approved, Withdrawn, DialogueOK, Safe
<1>5. ASSUME NEW j \in Job, MarkReceived(j) PROVE Safe
  BY <1>5, Values DEF MarkReceived, Withdrawn, DialogueOK, Safe, StoreNext, StoreUsed
<1>6. ASSUME NEW j \in Job, CancelJob(j) PROVE Safe
  BY <1>6 DEF CancelJob, dialogue, DialogueOK, Safe, StoreNext, StoreUsed
<1>7. CASE CancelPrepared \/ Export
  BY <1>7, Values DEF CancelPrepared, Export, Withdrawn, DialogueOK, Safe, StoreNext, StoreUsed
<1> QED BY <1>2, <1>3, <1>4, <1>5, <1>6, <1>7 DEF Panel

LEMMA RestartSafe == DialogueOK /\ Restart => Safe
BY Values DEF Restart, DialogueOK, Safe, StoreNext

LEMMA StepSafe == DialogueOK /\ [Next]_vars => Safe
<1> SUFFICES ASSUME DialogueOK, [Next]_vars PROVE Safe OBVIOUS
<1>1. CASE Background(StoreWorks)
  BY <1>1 DEF Background, dialogue, DialogueOK, Safe, StoreNext
<1>2. CASE Talk
  BY <1>2, SubmitSafe, EndsSafe, DetachSafe, ExpireSafe, AnswersSafe, ReceivedSafe, ConfirmSafe,
     GenerateSafe, GeneratedSafe, WithdrawnJobSafe DEF Talk, TurnGoesOn
<1>3. CASE UNCHANGED vars
  BY <1>3 DEF vars, dialogue, DialogueOK, Safe
<1> QED BY <1>1, <1>2, <1>3, PanelSafe, RestartSafe DEF Next

LEMMA DialogueInit == Init => DialogueOK
BY Values DEF Init, DialogueOK

-----------------------------------------------------------------------------
(* The theorems *)

\* Nothing the conversation or the panel does with the store is anything but
\* the store's own operations (the calls of this.jobs and options.jobs).
THEOREM UsesStore == Spec => StoreSpec
<1>1. DialogueOK /\ [Next]_vars => DialogueOK' /\ [StoreNext]_storeVars BY StepSafe DEF Safe
<1>2. Init => DialogueOK /\ StoreInit BY DialogueInit DEF Init
<1> QED BY <1>1, <1>2, PTL DEF Spec, StoreSpec

\* Every variable of the conversation and of the store keeps its type.
THEOREM TypeCorrect == Spec => []TypeOK
<1>1. DialogueOK /\ [Next]_vars => DialogueOK' BY StepSafe DEF Safe
<1>2. DialogueOK /\ StoreTypeOK => TypeOK BY DEF DialogueOK, TypeOK, Runs
<1> QED BY <1>1, <1>2, DialogueInit, UsesStore, StoreTypes, PTL DEF Spec

-----------------------------------------------------------------------------
(* Every attempt has its approval.  The text of a turn that would confirm was *)
(* granted when it was submitted, and a call that reads the file carries its  *)
(* grant with it, because what it waits for cannot ask again.                 *)

ApprovalPart ==
  approval.fresh => approval.prompt # Nothing /\ (shown = approval.prompt => asked)
RunPart ==
  run.phase = "planning" /\ run.yes /\ run.approval.fresh /\ shown = run.approval.prompt
    => shown \in granted
PromptsOK == ApprovalPart /\ RunPart

AttemptOf(j, retry) == [job |-> j, attempt |-> IF retry THEN 1 ELSE 0]

CallsGranted ==
  \A c \in Callers : calls[c].phase = "reading" =>
    calls[c].job \in Job /\ AttemptOf(calls[c].job, calls[c].retry) \in granted

ApprovalInv == DialogueOK /\ LedgerOK /\ PromptsOK /\ CallsGranted /\ ApprovedBeforeSent

\* The dialogue's approval: kept while its preview is still the last message or
\* nothing is, made stale, or asked for.
LEMMA ApprovalKept ==
  ASSUME ApprovalPart,
         \/ ~approval'.fresh
         \/ approval' = approval /\ (shown' = Nothing \/ (shown' = shown /\ asked' = asked))
         \/ \E p \in Prompt : Asks(p) /\ p # Nothing
  PROVE  ApprovalPart'
BY DEF ApprovalPart, Asks

\* A turn that goes on, has its approval go stale, or no longer plans.
LEMMA RunKept ==
  ASSUME RunPart, granted \subseteq granted',
         \/ run' = run /\ shown' = shown
         \/ ~run'.approval.fresh
         \/ run'.phase # "planning"
  PROVE  RunPart'
BY DEF RunPart

LEMMA PreviewAsks ==
  ASSUME (\E j : Preview(j)) \/ RetryPreview
  PROVE  \/ Answered /\ UNCHANGED approval
         \/ \E p \in Prompt : Asks(p) /\ p # Nothing
<1>1. \A j \in Job : \A n : [job |-> j, attempt |-> n] # Nothing BY DEF Nothing, Job, NoJob
<1> QED BY <1>1, Prompts DEF Preview, RetryPreview, Sendable, CanRetryEmail

\* Approvals are given by the turn that answers and by the panel's token, and
\* never taken back.
LEMMA StepKept == [Next]_vars => granted \subseteq granted'
<1> SUFFICES ASSUME [Next]_vars PROVE granted \subseteq granted' OBVIOUS
<1>1. CASE Talk
  BY <1>1 DEF Talk, TurnGoesOn, Submit, AnsweredElsewhere, Interrupt, Paused, Detach, EndSession,
     Expire, Waits, PlainReply, NotReceived, Received, CancelSending, Review, Confirm, Reported,
     Generate, NotGenerated, Generated, Saved, NotSaved, StaleReturns, Grant
<1>2. CASE Panel
  BY <1>2 DEF Panel, Prepare, Unapproved, Approved, MarkReceived, CancelJob, CancelPrepared, Export,
     dialogue, Grant
<1>3. CASE Background(StoreWorks) \/ Restart \/ UNCHANGED vars
  BY <1>3 DEF Background, Restart, dialogue, vars
<1> QED BY <1>1, <1>2, <1>3 DEF Next

\* Submitting a text grants what the last message asks, if it still does.
LEMMA SubmitPrompts ==
  ASSUME PromptsOK, NEW yes \in BOOLEAN, NEW retyped \in BOOLEAN, Submit(yes, retyped)
  PROVE  PromptsOK'
<1>1. ~approval'.fresh BY DEF Submit, NoApproval
<1>2. run' = [NoRun EXCEPT !.phase = "planning", !.yes = yes, !.approval = approval] /\ shown' = shown
  BY DEF Submit
<1>3. run'.approval = approval /\ run'.yes = yes BY <1>2 DEF NoRun
<1>4. ASSUME yes, approval.fresh, shown = approval.prompt PROVE shown' \in granted'
  BY <1>4 DEF PromptsOK, ApprovalPart, Submit, Grant
<1>5. RunPart' BY <1>2, <1>3, <1>4 DEF RunPart
<1> QED BY <1>1, <1>5, ApprovalKept DEF PromptsOK

LEMMA TalkPrompts ==
  ASSUME DialogueOK, PromptsOK, granted \subseteq granted', Talk
  PROVE  PromptsOK'
<1>1. CASE \/ \E b \in BOOLEAN : AnsweredElsewhere(b) \/ Interrupt(b)
           \/ Paused \/ EndSession
  <2>1. run'.phase # "planning"
    BY <1>1 DEF AnsweredElsewhere, Interrupt, Paused, EndSession, NoRun
  <2>2. \/ approval' = NoApproval
        \/ approval' = approval /\ (shown' = Nothing \/ (shown' = shown /\ asked' = asked))
    BY <1>1 DEF AnsweredElsewhere, Interrupt, Paused, EndSession
  <2> QED BY <2>1, <2>2, ApprovalKept, RunKept DEF PromptsOK, NoApproval
<1>2. CASE Detach
  BY <1>2, ApprovalKept, RunKept DEF Detach, PromptsOK, NoApproval
<1>3. CASE Expire
  <2>1. \A a \in Approval : [a EXCEPT !.fresh = FALSE].fresh = FALSE BY DEF Approval
  <2>2. run.approval \in Approval /\ approval \in Approval BY DEF DialogueOK, Runs
  <2>3. [run EXCEPT !.approval.fresh = FALSE].approval = [run.approval EXCEPT !.fresh = FALSE]
    BY DEF DialogueOK, Runs
  <2> QED BY <1>3, <2>1, <2>2, <2>3, ApprovalKept, RunKept DEF Expire, PromptsOK
<1>4. CASE Waits \/ \E j \in stale : StaleReturns(j)
  BY <1>4, ApprovalKept, RunKept DEF Waits, StaleReturns, PromptsOK, NoRun
<1>5. CASE \/ PlainReply \/ NotReceived \/ Received \/ CancelSending \/ Review
           \/ Reported \/ NotGenerated \/ Saved \/ NotSaved
  <2>1. run' = NoRun
    BY <1>5, Previews DEF PlainReply, NotReceived, Received, CancelSending, Review, Reported,
       NotGenerated, Saved, NotSaved, Answered
  <2>2. \/ Answered /\ approval' = NoApproval
        \/ Answered /\ UNCHANGED approval
        \/ \E p \in Prompt : Asks(p) /\ p # Nothing
    BY <1>5, PreviewAsks DEF PlainReply, NotReceived, Received, CancelSending, Review, Reported,
       NotGenerated, Saved, NotSaved
  <2>3. ApprovalPart' BY <2>2, ApprovalKept DEF Answered, NoApproval, PromptsOK
  <2> QED BY <2>1, <2>3, RunKept DEF PromptsOK, NoRun
<1>6. CASE Confirm
  <2>1. run'.phase # "planning"
    <3>1. \/ \E c : run' = [NoRun EXCEPT !.phase = "sending", !.caller = c]
          \/ Answered \/ Preview(draft) \/ RetryPreview
      BY <1>6 DEF Confirm
    <3>2. Preview(draft) \/ RetryPreview => run' = NoRun BY Previews
    <3>3. /\ NoRun.phase = "none"
          /\ \A c : [NoRun EXCEPT !.phase = "sending", !.caller = c].phase = "sending"
      BY DEF NoRun
    <3> QED BY <3>1, <3>2, <3>3 DEF Answered
  <2>2. \/ approval' = NoApproval
        \/ Answered /\ UNCHANGED approval
        \/ \E p \in Prompt : Asks(p) /\ p # Nothing
    BY <1>6, PreviewAsks DEF Confirm
  <2>3. ApprovalPart' BY <2>2, ApprovalKept DEF Answered, NoApproval, PromptsOK
  <2> QED BY <2>1, <2>3, RunKept DEF PromptsOK
<1>7. CASE Generate \/ Generated
  <2>1. run'.phase # "planning"
    BY <1>7 DEF Generate, Generated, NoRun, DialogueOK, Runs
  <2>2. approval' = NoApproval \/ (approval' = approval /\ shown' = shown /\ asked' = asked)
    BY <1>7 DEF Generate, Generated
  <2> QED BY <2>1, <2>2, ApprovalKept, RunKept DEF PromptsOK, NoApproval
<1> QED BY <1>1, <1>2, <1>3, <1>4, <1>5, <1>6, <1>7, SubmitPrompts DEF Talk, TurnGoesOn

LEMMA StepPrompts ==
  ASSUME DialogueOK, PromptsOK, [Next]_vars
  PROVE  PromptsOK'
<1>1. granted \subseteq granted' BY StepKept
<1>2. CASE Restart
  <2>1. approval' = NoApproval /\ run' = NoRun BY <1>2 DEF Restart
  <2> QED BY <1>1, <2>1, ApprovalKept, RunKept DEF PromptsOK, NoApproval, NoRun
<1>3. CASE Background(StoreWorks) \/ UNCHANGED vars
  <2>1. UNCHANGED <<run, approval, shown, asked>>
    BY <1>3 DEF Background, dialogue, vars
  <2> QED BY <1>1, <2>1, ApprovalKept, RunKept DEF PromptsOK
<1>4. CASE Panel
  <2>1. run' = run /\ shown' = shown
    BY <1>4 DEF Panel, Prepare, Unapproved, Approved, MarkReceived, CancelJob, CancelPrepared, Export,
       dialogue
  <2>2. approval' = NoApproval \/ (approval' = approval /\ asked' = asked)
    BY <1>4 DEF Panel, Prepare, Unapproved, Approved, MarkReceived, CancelJob, CancelPrepared, Export,
       dialogue, Withdrawn
  <2> QED BY <1>1, <2>1, <2>2, ApprovalKept, RunKept DEF PromptsOK, NoApproval
<1> QED BY <1>1, <1>2, <1>3, <1>4, TalkPrompts DEF Next

\* The two places that call sendEmail.
ConfirmSends(c) == Confirm /\ Confirmed /\ SendEmail(c, draft, run.approval.prompt.attempt # 0)
PanelSends(c, j) ==
  WebApproved(j, TRUE) /\ Grant(web.prompt) /\ SendEmail(c, j, web.prompt.attempt # 0)

LEMMA TalkSends ==
  ASSUME DialogueOK, LedgerOK, Talk
  PROVE  NoneReads \/ \E c \in Callers : ConfirmSends(c)
<1>1. CASE AbortRun
  <2>1. UNCHANGED calls \/ \E c \in Callers : Abort(c)
    BY <1>1 DEF AbortRun, DialogueOK, storeVars
  <2> QED BY <2>1, OnlySendEmailReads
<1>2. CASE Generated BY <1>2, OnlySendEmailReads DEF Generated
<1>3. CASE Confirm
  BY <1>3, OnlySendEmailReads DEF Confirm, ConfirmSends, storeVars
<1>4. \/ AbortRun \/ Generated \/ Confirm \/ UNCHANGED calls
  BY DEF Talk, TurnGoesOn, Submit, AnsweredElsewhere, Interrupt, Paused, Detach, EndSession, Expire,
         Waits, PlainReply, NotReceived, Received, CancelSending, Review, Reported,
         Generate, NotGenerated, Saved, NotSaved, StaleReturns,
         Supersede, Discard, AcknowledgeReceipt, storeVars
<1> QED BY <1>1, <1>2, <1>3, <1>4, OnlySendEmailReads

LEMMA PanelSendsOnly ==
  ASSUME LedgerOK, Panel
  PROVE  NoneReads \/ \E c \in Callers, j \in Job : PanelSends(c, j)
<1>1. ASSUME NEW j \in Job, NEW current \in BOOLEAN, Approved(j, current)
      PROVE  UNCHANGED calls \/ \E c \in Callers : PanelSends(c, j)
  BY <1>1 DEF Approved, WebApproved, PanelSends, storeVars
<1>2. CASE \A j \in Job, current \in BOOLEAN : ~Approved(j, current)
  <2>1. UNCHANGED calls \/ Enqueue
    BY <1>2 DEF Panel, Prepare, Unapproved, MarkReceived, CancelJob, CancelPrepared, Export,
       Cancel, AcknowledgeReceipt, storeVars
  <2> QED BY <2>1, OnlySendEmailReads
<1> QED BY <1>1, <1>2, OnlySendEmailReads

LEMMA StepSends ==
  ASSUME DialogueOK, LedgerOK, [Next]_vars
  PROVE  \/ NoneReads
         \/ \E c \in Callers : ConfirmSends(c) \/ \E j \in Job : PanelSends(c, j)
<1>1. Restart => StoreRestarts BY DEF Restart
<1>2. Background(StoreWorks) => StoreWorks BY DEF Background
<1>3. UNCHANGED vars => UNCHANGED calls BY DEF vars, storeVars
<1> QED BY <1>1, <1>2, <1>3, TalkSends, PanelSendsOnly, OnlySendEmailReads DEF Next

\* A call that begins was granted its attempt by the turn or by the token.
LEMMA SendsGranted ==
  ASSUME DialogueOK, PromptsOK,
         NEW c \in Callers, ConfirmSends(c) \/ \E j \in Job : PanelSends(c, j)
  PROVE  \E j \in Job, retry \in BOOLEAN : SendEmail(c, j, retry) /\ AttemptOf(j, retry) \in granted'
<1>1. ASSUME NEW p \in Prompt, p.job \in Job PROVE AttemptOf(p.job, p.attempt # 0) = p
  BY <1>1 DEF Prompt, Nothing, Job, NoJob, AttemptOf
<1>2. CASE ConfirmSends(c)
  <2> DEFINE p == run.approval.prompt
  <2>1. SendEmail(c, p.job, p.attempt # 0) /\ p.job = draft BY <1>2 DEF ConfirmSends, Confirmed
  <2>2. draft \in Job BY <2>1 DEF SendEmail, SendAccepted, Due, Sendable
  <2>3. p \in granted BY <1>2 DEF ConfirmSends, Confirm, Confirmed, PromptsOK, RunPart
  <2>4. UNCHANGED granted BY <1>2 DEF ConfirmSends, Confirm
  <2>5. p \in Prompt BY DEF DialogueOK, Runs, Approval
  <2>6. (p.attempt # 0) \in BOOLEAN OBVIOUS
  <2> HIDE DEF p
  <2> QED BY <1>1, <2>1, <2>2, <2>3, <2>4, <2>5, <2>6
<1>3. ASSUME NEW j \in Job, PanelSends(c, j)
      PROVE  \E retry \in BOOLEAN : SendEmail(c, j, retry) /\ AttemptOf(j, retry) \in granted'
  <2> DEFINE p == web.prompt
  <2>1. SendEmail(c, j, p.attempt # 0) /\ p.job = j /\ p \in granted'
    BY <1>3 DEF PanelSends, WebApproved, Grant
  <2>2. p \in Prompt BY DEF DialogueOK, Approval
  <2>3. (p.attempt # 0) \in BOOLEAN OBVIOUS
  <2> HIDE DEF p
  <2> QED BY <1>1, <2>1, <2>2, <2>3
<1> QED BY <1>2, <1>3

LEMMA StepCalls ==
  ASSUME ApprovalInv, [Next]_vars
  PROVE  CallsGranted'
<1>1. granted \subseteq granted' BY StepKept
<1>2. CASE NoneReads
  BY <1>1, <1>2 DEF NoneReads, ApprovalInv, CallsGranted
<1>3. ASSUME NEW c \in Callers, NEW j \in Job, NEW retry \in BOOLEAN,
             SendEmail(c, j, retry), AttemptOf(j, retry) \in granted'
      PROVE  CallsGranted'
  <2> SUFFICES ASSUME NEW d \in Callers, calls'[d].phase = "reading"
      PROVE  calls'[d].job \in Job /\ AttemptOf(calls'[d].job, calls'[d].retry) \in granted'
    BY DEF CallsGranted
  <2>1. calls \in [Callers -> Call] BY DEF ApprovalInv, LedgerOK, LedgerTypes
  <2>2. CASE d = c BY <1>3, <2>1, <2>2 DEF SendEmail
  <2>3. CASE d # c
    <3>1. calls'[d] = calls[d] BY <1>3, <2>1, <2>3 DEF SendEmail
    <3> QED BY <1>1, <3>1 DEF ApprovalInv, CallsGranted
  <2> QED BY <2>2, <2>3
<1> QED BY <1>2, <1>3, StepSends, SendsGranted DEF ApprovalInv

LEMMA StepApproved ==
  ASSUME ApprovalInv, [Next]_vars
  PROVE  ApprovedBeforeSent'
<1> SUFFICES ASSUME NEW j \in Job, NEW i \in 1..Len(attempts'[j])
             PROVE  [job |-> j, attempt |-> i - 1] \in granted'
  BY DEF ApprovedBeforeSent
<1>1. granted \subseteq granted' BY StepKept
<1>2. Len(attempts[j]) \in Nat BY RowsSay DEF ApprovalInv
<1>3. LedgerOK /\ [StoreNext]_storeVars BY StepSafe DEF ApprovalInv, Safe
<1>4. CASE i \in 1..Len(attempts[j])
  BY <1>1, <1>4 DEF ApprovalInv, ApprovedBeforeSent
<1>5. ASSUME NEW c \in Callers, SendStarts(c), calls[c].job = j,
             Len(attempts[j]) = (IF calls[c].retry THEN 1 ELSE 0),
             Len(attempts'[j]) = Len(attempts[j]) + 1, i \notin 1..Len(attempts[j])
      PROVE  [job |-> j, attempt |-> i - 1] \in granted'
  <2>1. i - 1 = IF calls[c].retry THEN 1 ELSE 0 BY <1>2, <1>5
  <2> QED BY <1>1, <1>5, <2>1 DEF ApprovalInv, CallsGranted, SendStarts, AttemptOf
<1> QED BY <1>3, <1>4, <1>5, AttemptsGrow

\* No mail without an approval of its own: not by a late answer, a preview that
\* was withdrawn, a turn that was superseded, two confirmations that wait for
\* their files side by side, a restart or a repeated token.
THEOREM EveryMailApproved == Spec => []ApprovedBeforeSent
<1>1. Init => ApprovalInv
  <2> SUFFICES ASSUME Init PROVE ApprovalInv OBVIOUS
  <2>1. DialogueOK /\ LedgerOK BY DialogueInit, InitSafe DEF Init, IInv
  <2>2. PromptsOK BY DEF Init, NoRun, NoApproval, PromptsOK, ApprovalPart, RunPart
  <2>3. CallsGranted BY DEF Init, StoreInit, NoCall, CallsGranted
  <2>4. ApprovedBeforeSent
    <3>1. \A j \in Job : Len(attempts[j]) = 0 BY EmptySeq DEF Init, StoreInit
    <3> QED BY <3>1 DEF ApprovedBeforeSent
  <2> QED BY <2>1, <2>2, <2>3, <2>4 DEF ApprovalInv
<1>2. ApprovalInv /\ [Next]_vars => ApprovalInv'
  <2> SUFFICES ASSUME ApprovalInv, [Next]_vars PROVE ApprovalInv' OBVIOUS
  <2>1. DialogueOK' /\ [StoreNext]_storeVars BY StepSafe DEF ApprovalInv, Safe
  <2>2. LedgerOK' BY <2>1, LedgerStep DEF ApprovalInv
  <2>3. PromptsOK' BY StepPrompts DEF ApprovalInv
  <2>4. CallsGranted' /\ ApprovedBeforeSent' BY StepCalls, StepApproved
  <2> QED BY <2>1, <2>2, <2>3, <2>4 DEF ApprovalInv
<1>3. ApprovalInv => ApprovedBeforeSent BY DEF ApprovalInv
<1> QED BY <1>1, <1>2, <1>3, PTL DEF Spec

-----------------------------------------------------------------------------
(* The draft of the conversation.  What could spoil it is a job that was      *)
(* withdrawn and comes back: the job a turn waits for is neither superseded   *)
(* nor one that a superseded turn will withdraw.                              *)

JobsBehind ==
  /\ \A j \in superseded : state[j] # "none"
  /\ \A j \in stale : j # NoJob => state[j] # "none"
  /\ run.phase = "generating" => run.job = NoJob
  /\ run.phase = "saving" =>
       run.job \in Job /\ state[run.job] # "none" /\ run.job \notin superseded \union stale
DraftPart ==
  /\ draft # NoJob => Sendable(draft)
  /\ saved \in {draft, NoJob}
  /\ draft # NoJob /\ draft \notin receipts => saved = draft
DraftInv == DialogueOK /\ ExportsOK /\ JobsBehind /\ DraftPart

Waiting == {"generating", "saving"}
Left == IF run.phase \in Waiting THEN {run.job} ELSE {}

\* What the store did since, seen from a draft that is kept.
LEMMA DraftKept ==
  ASSUME DraftInv, [StoreNext]_storeVars, superseded' = superseded,
         \/ draft' = draft /\ saved' = saved
         \/ draft' = NoJob /\ saved' = NoJob
  PROVE  DraftPart'
<1>1. EndedStay BY ExportsStep DEF DraftInv
<1>2. receipts \subseteq receipts' BY RowsStay DEF DraftInv
<1>3. Sendable(draft) => Sendable(draft)' \/ draft' # draft
  BY <1>1 DEF Sendable, EndedStay, Ended
<1> QED BY <1>2, <1>3 DEF DraftInv, DraftPart

\* A turn that is superseded leaves the job it waits for behind, one that goes
\* on keeps it, and one that ends waits for none.
LEMMA JobsKept ==
  ASSUME DraftInv, [StoreNext]_storeVars, superseded' = superseded,
         \/ stale' \subseteq stale \union Left /\ run'.phase \notin Waiting
         \/ stale' = stale /\ run'.phase = run.phase /\ run'.job = run.job
  PROVE  JobsBehind'
<1>1. RowsKept BY RowsStay DEF DraftInv
<1>2. superseded \subseteq Job /\ stale \subseteq Job \union {NoJob} BY DEF DraftInv, ExportsOK, DialogueOK
<1>3. run.job \in Job \union {NoJob} BY DEF DraftInv, DialogueOK, Runs
<1>4. \A j \in superseded : state'[j] # "none" BY <1>1, <1>2 DEF RowsKept, DraftInv, JobsBehind
<1>5. \A j \in stale : j # NoJob => state'[j] # "none"
  BY <1>1, <1>2 DEF RowsKept, DraftInv, JobsBehind
<1>6. \A j \in Left : j # NoJob => state'[j] # "none"
  BY <1>1, <1>3 DEF RowsKept, DraftInv, JobsBehind, Left, Waiting
<1>7. CASE stale' \subseteq stale \union Left /\ run'.phase \notin Waiting
  BY <1>4, <1>5, <1>6, <1>7 DEF JobsBehind, Waiting
<1>8. CASE stale' = stale /\ run'.phase = run.phase /\ run'.job = run.job
  BY <1>1, <1>4, <1>5, <1>8 DEF RowsKept, DraftInv, JobsBehind
<1> QED BY <1>7, <1>8

\* The turns that end or are superseded, and what the panel does.
LEMMA EndsTurn ==
  ASSUME DraftInv, [StoreNext]_storeVars,
         \/ \E yes, retyped \in BOOLEAN : Submit(yes, retyped)
         \/ \E b \in BOOLEAN : AnsweredElsewhere(b) \/ Interrupt(b)
         \/ Paused \/ EndSession
         \/ Waits \/ PlainReply \/ NotReceived \/ CancelSending \/ Review \/ Confirm \/ Reported
         \/ NotGenerated
  PROVE  JobsBehind' /\ DraftPart'
<1>1. superseded' = superseded
  <2>1. AbortRun => superseded' = superseded BY DEF AbortRun, Abort, exports, storeVars
  <2>2. Confirm => superseded' = superseded BY DEF Confirm, SendEmail, exports, storeVars
  <2> QED BY <2>1, <2>2 DEF Submit, AnsweredElsewhere, Interrupt, Paused, EndSession, Waits, PlainReply,
          NotReceived, CancelSending, Review, Reported, NotGenerated, exports, storeVars
<1>2. \/ draft' = draft /\ saved' = saved
      \/ draft' = NoJob /\ saved' = NoJob
  BY DEF Submit, AnsweredElsewhere, Interrupt, Paused, EndSession, Waits, PlainReply,
         NotReceived, CancelSending, Review, Confirm, Reported, NotGenerated
<1>3. stale' \subseteq stale \union Left
  BY DEF Submit, AnsweredElsewhere, Interrupt, Paused, EndSession, Waits, PlainReply,
         NotReceived, CancelSending, Review, Confirm, Reported, NotGenerated, AbortRun, Left, Waiting
<1>4. run'.phase \notin Waiting
  <2>1. /\ NoRun.phase = "none"
        /\ \A yes, a : [NoRun EXCEPT !.phase = "planning", !.yes = yes, !.approval = a].phase = "planning"
        /\ \A c : [NoRun EXCEPT !.phase = "sending", !.caller = c].phase = "sending"
    BY DEF NoRun
  <2>2. (\E j : Preview(j)) \/ RetryPreview => run' = NoRun
    BY Previews DEF DraftInv
  <2>3. CASE \E yes, retyped \in BOOLEAN : Submit(yes, retyped)
    <3>1. PICK yes \in BOOLEAN : run' = [NoRun EXCEPT !.phase = "planning", !.yes = yes, !.approval = approval]
      BY <2>3 DEF Submit
    <3>2. run'.phase = "planning" BY <3>1 DEF NoRun
    <3> QED BY <3>2 DEF Waiting
  <2>4. CASE Confirm BY <2>1, <2>2, <2>4 DEF Confirm, Answered, Waiting
  <2>5. CASE NotReceived \/ Review BY <2>1, <2>2, <2>5 DEF NotReceived, Review, Waiting
  <2> QED BY <2>1, <2>3, <2>4, <2>5 DEF AnsweredElsewhere, Interrupt, Paused, EndSession, Waits, PlainReply,
          CancelSending, Reported, NotGenerated, Answered, Waiting
<1> QED BY <1>1, <1>2, <1>3, <1>4, DraftKept, JobsKept

LEMMA GoesOn ==
  ASSUME DraftInv, [StoreNext]_storeVars,
         Detach \/ Expire \/ Panel \/ Background(StoreWorks) \/ UNCHANGED vars
  PROVE  JobsBehind' /\ DraftPart'
<1>1. superseded' = superseded
  BY DEF Detach, Expire, Panel, Background, Prepare, Unapproved, Approved, MarkReceived, CancelJob,
     CancelPrepared, Export, SendEmail, AcknowledgeReceipt, Cancel, Enqueue, StoreWorks, ScheduledRuns,
     JobDone, Returned, MailSettles, SendStarts, SendGivesUp, exports, storeVars, vars
<1>2. UNCHANGED <<stale, draft, saved>>
  BY DEF Detach, Expire, Panel, Background, Prepare, Unapproved, Approved, MarkReceived, CancelJob,
     CancelPrepared, Export, dialogue, vars
<1>3. run' = run \/ run' = [run EXCEPT !.approval.fresh = FALSE]
  BY DEF Detach, Expire, Panel, Background, Prepare, Unapproved, Approved, MarkReceived, CancelJob,
     CancelPrepared, Export, dialogue, vars
<1>4. run'.phase = run.phase /\ run'.job = run.job BY <1>3 DEF DraftInv, DialogueOK, Runs
<1> QED BY <1>1, <1>2, <1>4, DraftKept, JobsKept

\* The artifact was received: its recovery row goes, the draft stays.
LEMMA ReceivedDraft ==
  ASSUME DraftInv, [StoreNext]_storeVars, Received
  PROVE  JobsBehind' /\ DraftPart'
<1>1. /\ superseded' = superseded /\ state' = state /\ stale' = stale
      /\ draft' = draft /\ saved' = NoJob /\ draft \in receipts' /\ run' = NoRun
  BY DEF Received, AcknowledgeReceipt, Answered, exports
<1>2. NoRun.phase = "none" BY DEF NoRun
<1>3. DraftPart' BY <1>1 DEF DraftInv, DraftPart, Sendable
<1> QED BY <1>1, <1>2, <1>3, JobsKept DEF Waiting

\* A job is withdrawn: the dialogue has no draft any more.
LEMMA WithdrawnDraft ==
  ASSUME DraftInv, [StoreNext]_storeVars, Generate \/ NotSaved \/ \E j \in stale : StaleReturns(j)
  PROVE  JobsBehind' /\ DraftPart'
<1>1. RowsKept BY RowsStay DEF DraftInv
<1>2. superseded \subseteq Job /\ stale \subseteq Job \union {NoJob} BY DEF DraftInv, ExportsOK, DialogueOK
<1>3. draft' = NoJob /\ saved' = NoJob BY DEF Generate, NotSaved, StaleReturns
<1>4. DraftPart' BY <1>3 DEF DraftPart
<1>5. \A j : Supersede(j) \/ Discard(j) =>
        j \in Job /\ state[j] # "none" /\ superseded' = superseded \union {j}
  BY DEF Supersede, Discard
<1>6. \A j \in superseded' : state'[j] # "none"
  <2>1. superseded' = superseded
        \/ \E j \in Job : state[j] # "none" /\ superseded' = superseded \union {j}
    BY <1>5 DEF Generate, NotSaved, StaleReturns, exports, storeVars
  <2> QED BY <1>1, <1>2, <2>1 DEF RowsKept, DraftInv, JobsBehind
<1>7. stale' \subseteq stale BY DEF Generate, NotSaved, StaleReturns
<1>8. \A j \in stale' : j # NoJob => state'[j] # "none"
  BY <1>1, <1>2, <1>7 DEF RowsKept, DraftInv, JobsBehind
<1>9. CASE Generate
  <2>1. run'.phase = "generating" /\ run'.job = NoJob BY <1>9 DEF Generate, NoRun
  <2> QED BY <1>4, <1>6, <1>8, <2>1 DEF JobsBehind
<1>10. CASE NotSaved
  <2>1. run'.phase = "none" BY <1>10 DEF NotSaved, Answered, NoRun
  <2> QED BY <1>4, <1>6, <1>8, <2>1 DEF JobsBehind
<1>11. ASSUME NEW j \in stale, StaleReturns(j) PROVE JobsBehind'
  <2>1. run' = run /\ superseded' \subseteq superseded \union {j}
    BY <1>5, <1>11 DEF StaleReturns, exports, storeVars
  <2>2. run.phase = "saving" => run.job \in Job /\ state'[run.job] # "none"
                              /\ run.job \notin superseded' \union stale'
    BY <1>1, <1>7, <2>1 DEF RowsKept, DraftInv, JobsBehind
  <2>3. run.phase = "generating" => run.job = NoJob BY DEF DraftInv, JobsBehind
  <2> QED BY <1>6, <1>8, <2>1, <2>2, <2>3 DEF JobsBehind
<1> QED BY <1>4, <1>9, <1>10, <1>11

\* The job of a draft is new: nothing was withdrawn under its name.
LEMMA GeneratedDraft ==
  ASSUME DraftInv, [StoreNext]_storeVars, Generated
  PROVE  JobsBehind' /\ DraftPart'
<1>1. /\ superseded' = superseded /\ stale' = stale /\ draft' = draft /\ saved' = saved
      /\ run' = [run EXCEPT !.phase = "saving", !.job = NewJob]
      /\ state' = [state EXCEPT ![NewJob] = "queued"]
  BY DEF Generated, Enqueue
<1>2. NewJob \in Job /\ state[NewJob] = "none"
  <2>1. NewJob \in Free BY OldestExists DEF Generated, Enqueue, CanEnqueue, NewJob, Free
  <2> QED BY <2>1 DEF Free
<1>3. NewJob # NoJob BY <1>2 DEF Job, NoJob
<1>4. run'.phase = "saving" /\ run'.job = NewJob BY <1>1 DEF DraftInv, DialogueOK, Runs
<1>5. NewJob \notin superseded \union stale BY <1>2, <1>3 DEF DraftInv, JobsBehind
<1>6. state \in [Job -> States] BY DEF DraftInv, ExportsOK
<1>7. state'[NewJob] # "none" BY <1>1, <1>2, <1>6
<1>8. RowsKept BY RowsStay DEF DraftInv
<1>9. superseded \subseteq Job /\ stale \subseteq Job \union {NoJob} BY DEF DraftInv, ExportsOK, DialogueOK
<1>10. JobsBehind'
  BY <1>1, <1>2, <1>4, <1>5, <1>7, <1>8, <1>9 DEF RowsKept, DraftInv, JobsBehind
<1> QED BY <1>1, <1>10, DraftKept

\* The draft is set with its recovery row, and its job still stands.
LEMMA SavedDraft ==
  ASSUME DraftInv, [StoreNext]_storeVars, Saved
  PROVE  JobsBehind' /\ DraftPart'
<1>1. /\ UNCHANGED <<state, superseded, stale>> /\ state[run.job] = "completed"
      /\ draft' = run.job /\ saved' = run.job /\ Preview(run.job) /\ run.phase = "saving"
  BY DEF Saved, exports, storeVars
<1>2. run.job \in Job /\ run.job \notin superseded BY <1>1 DEF DraftInv, JobsBehind
<1>3. DraftPart' BY <1>1, <1>2 DEF DraftPart, Sendable
<1>4. run' = NoRun BY <1>1, Previews DEF DraftInv
<1>5. NoRun.phase = "none" BY DEF NoRun
<1> QED BY <1>1, <1>3, <1>4, <1>5, JobsKept DEF Waiting

\* The draft is loaded again if it still stands.
LEMMA RestartDraft ==
  ASSUME DraftInv, [StoreNext]_storeVars, Restart
  PROVE  JobsBehind' /\ DraftPart'
<1>1. /\ superseded' = superseded /\ receipts' = receipts /\ stale' = {} /\ run' = NoRun
      /\ draft' = saved' /\ (saved' = NoJob \/ (saved' = saved /\ Sendable(saved)))
  BY DEF Restart, StoreRestarts
<1>2. NoRun.phase = "none" BY DEF NoRun
<1>3. EndedStay BY ExportsStep DEF DraftInv
<1>4. DraftPart' BY <1>1, <1>3 DEF DraftPart, Sendable, EndedStay, Ended
<1> QED BY <1>1, <1>2, <1>4, JobsKept DEF Waiting

LEMMA StepDraft == DraftInv /\ [Next]_vars => DraftInv'
<1> SUFFICES ASSUME DraftInv, [Next]_vars PROVE DraftInv' OBVIOUS
<1>1. DialogueOK' /\ [StoreNext]_storeVars BY StepSafe DEF DraftInv, Safe
<1>2. ExportsOK' BY <1>1, ExportsStep DEF DraftInv
<1>3. JobsBehind' /\ DraftPart'
  BY <1>1, EndsTurn, GoesOn, ReceivedDraft, WithdrawnDraft, GeneratedDraft, SavedDraft, RestartDraft
     DEF Next, Talk, TurnGoesOn
<1> QED BY <1>1, <1>2, <1>3 DEF DraftInv

\* The artifact the conversation would send is finished and current, and its
\* recovery row names it until its mail was received, whatever superseded
\* turns withdraw when they come back late, and over any number of restarts.
THEOREM DraftRecoverableAlways == Spec => []DraftRecoverable
<1>1. Init => DraftInv
  <2> SUFFICES ASSUME Init PROVE DraftInv OBVIOUS
  <2>1. DialogueOK /\ ExportsOK BY DialogueInit, InitSafe DEF Init, IInv
  <2>2. JobsBehind /\ DraftPart BY DEF Init, StoreInit, NoRun, JobsBehind, DraftPart
  <2> QED BY <2>1, <2>2 DEF DraftInv
<1>2. TypeOK /\ DraftInv => DraftRecoverable BY DEF DraftInv, DraftPart, DraftRecoverable
<1> QED BY <1>1, <1>2, StepDraft, TypeCorrect, PTL DEF Spec
===============================================================================
