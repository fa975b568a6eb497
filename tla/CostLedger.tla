------------------------------ MODULE CostLedger ------------------------------
(***************************************************************************)
(* The ledger that keeps paid provider calls within a monthly budget:      *)
(* CostLedger, and the callers that reserve before a request and settle    *)
(* after its answer.                                                       *)
(*                                                                         *)
(* Every change is an operation of one promise chain (mutate): its head    *)
(* changes the memory, then writes the file and replaces the old one; a    *)
(* write that fails leaves the ledger unusable until the next start.  The  *)
(* requests, the alert mails and the turn of the month go on meanwhile,    *)
(* and the process may die between any two steps.                          *)
(*                                                                         *)
(* Amounts are small numbers.  Two providers stand for three: "openai",    *)
(* whose calls are priced by the caller (as soniox), and "google", whose   *)
(* one SKU has a free tier of units and a price beyond it.                 *)
(***************************************************************************)
EXTENDS Integers, Sequences, FiniteSets, FiniteSetsExt

CONSTANTS
  PricedCalls,   \* calls booked with reserve()
  GoogleCalls,   \* calls booked with reserveGoogle()
  Wants,         \* what a call may ask for: an amount, or units
  PricedLimit, GoogleLimit,
  FreeUnits, UnitPrice,
  Thresholds,    \* percentages of the free tier that raise an alert
  LastMonth,     \* bound on the months
  MaxRestarts    \* bound on the starts of the service

ASSUME LedgerParameters ==
  /\ PricedCalls \cap GoogleCalls = {}
  /\ IsFiniteSet(PricedCalls) /\ IsFiniteSet(GoogleCalls)
  /\ Wants \subseteq Nat \ {0} /\ Thresholds \subseteq Nat
  /\ {PricedLimit, GoogleLimit, FreeUnits, UnitPrice, MaxRestarts} \subseteq Nat
  /\ LastMonth \in Nat \ {0}

VARIABLES
  memory,    \* data: what the running process believes, by month
  file,      \* the ledger file, the same records
  queue,     \* the promise chain; its head is the operation under way
  writing,   \* the head has changed the memory and waits for its write
  broken,    \* persistenceFailed
  calls,     \* the callers' requests and reservations
  flush,     \* flushAlerts(): where its loop waits, and the alert it handles
  timer,     \* alertRetry is set
  month,     \* the current period
  restarts

ledgerVars == <<memory, file, queue, writing, broken, calls, flush, timer, month, restarts>>

Calls == PricedCalls \union GoogleCalls
Providers == {"openai", "google"}
Months == 1..LastMonth
Provider(c) == IF c \in GoogleCalls THEN "google" ELSE "openai"
Limit(p) == IF p = "google" THEN GoogleLimit ELSE PricedLimit
AlertStates == {"none", "pending", "sending", "sent"}
Alerts == Months \X Thresholds
NoAlert == <<0, 0>>

Most(a, b) == IF a >= b THEN a ELSE b
Fewest(a, b) == IF a <= b THEN a ELSE b
Price(units) == UnitPrice * Most(0, units - FreeUnits)
Total(m) == m.spent["openai"] + m.spent["google"]

Blank == [spent |-> [p \in Providers |-> 0], units |-> 0,
          alerts |-> [t \in Thresholds |-> "none"]]
\* want: what was asked for; held: the amount reserved; cost: what the provider
\* really bills, in the caller's unit (a history variable until it answers)
NewCall == [phase |-> "new", month |-> 0, want |-> 0, held |-> 0, cost |-> 0]

LedgerInit ==
  /\ memory = [m \in Months |-> Blank] /\ file = memory
  /\ queue = <<>> /\ writing = FALSE /\ broken = FALSE
  /\ calls = [c \in Calls |-> NewCall]
  /\ flush = [phase |-> "idle", alert |-> NoAlert, accepted |-> FALSE]
  /\ timer = FALSE /\ month = 1 /\ restarts = 0

-----------------------------------------------------------------------------
(* The operations, as they change the memory *)

Added(c) ==
  IF Provider(c) = "google"
  THEN Price(memory[month].units + calls[c].want) - Price(memory[month].units)
  ELSE calls[c].want

WithinBudget(c) ==
  LET m == memory[month]
  IN /\ m.spent[Provider(c)] + Added(c) <= Limit(Provider(c))
     /\ Total(m) + Added(c) <= PricedLimit + GoogleLimit

Booked(c) ==
  [memory EXCEPT ![month].spent[Provider(c)] = @ + Added(c),
                 ![month].units = IF c \in GoogleCalls THEN @ + calls[c].want ELSE @]

SettlingMonth(c) == calls[c].month

Raised(m, units) ==
  {t \in Thresholds : units * 100 >= FreeUnits * t /\ m.alerts[t] = "none"}

\* the record of the call's month once it used "actual" of what it asked for
SettledPriced(c, actual) ==
  [memory[SettlingMonth(c)] EXCEPT
     !.spent["openai"] = Most(0, @ - calls[c].held + actual)]
\* faulty variant: units released by a call that took free ones give money back
ReleaseAll(c, before, after) == Price(before) - Price(after) + calls[c].held
Returnable(c, before, after) == Fewest(calls[c].held, Price(before) - Price(after))
SettledGoogle(c, actual) ==
  LET m == memory[SettlingMonth(c)]
      after == Most(0, m.units - (calls[c].want - actual))
  IN [m EXCEPT !.units = after,
               !.spent["google"] = Most(0, @ - Returnable(c, m.units, after)),
               !.alerts = [t \in Thresholds |-> IF t \in Raised(m, after) THEN "pending" ELSE @[t]]]
SettledRecord(c, actual) ==
  IF c \in GoogleCalls THEN SettledGoogle(c, actual) ELSE SettledPriced(c, actual)

\* raised by the settlement whose write is under way
NewAlerts == {a \in Alerts : /\ memory[a[1]].alerts[a[2]] = "pending"
                             /\ file[a[1]].alerts[a[2]] = "none"}
Pending == {a \in Alerts : memory[a[1]].alerts[a[2]] = "pending"}
\* the oldest month first; within it the first that was raised
NextAlert == CHOOSE a \in Pending : \A o \in Pending : a[1] < o[1] \/ (a[1] = o[1] /\ a[2] <= o[2])

-----------------------------------------------------------------------------
(* The promise chain *)

SelectOp == [op |-> "select", call |-> "none", actual |-> 0]
\* flushAlerts(): returns at once when a loop is under way
Flushed(q, wanted) ==
  IF wanted /\ flush.phase = "idle"
  THEN /\ queue' = Append(q, SelectOp)
       /\ flush' = [phase |-> "selecting", alert |-> NoAlert, accepted |-> FALSE]
       /\ timer' = FALSE
  ELSE queue' = q /\ UNCHANGED <<flush, timer>>

Serving == Head(queue)

\* the promise of the head is rejected: the callers go on without it; an alert
\* loop ends, and without an answer it sets no timer
Rejects ==
  /\ queue' = Tail(queue) /\ writing' = FALSE
  /\ calls' = IF Serving.op = "reserve" THEN [calls EXCEPT ![Serving.call].phase = "refused"]
              ELSE IF Serving.op = "settle" THEN [calls EXCEPT ![Serving.call].phase = "over"]
              ELSE calls
  /\ flush' = IF Serving.op \in {"select", "record"}
              THEN [flush EXCEPT !.phase = "idle", !.alert = NoAlert] ELSE flush
  /\ UNCHANGED timer

Unavailable ==
  /\ queue # <<>> /\ ~writing /\ broken
  /\ Rejects
  /\ UNCHANGED <<memory, file, broken, month, restarts>>

ReserveRefused ==
  /\ queue # <<>> /\ ~writing /\ ~broken /\ Serving.op = "reserve"
  /\ ~WithinBudget(Serving.call)
  /\ Rejects
  /\ UNCHANGED <<memory, file, broken, month, restarts>>

ReserveCost ==
  /\ queue # <<>> /\ ~writing /\ ~broken /\ Serving.op = "reserve"
  /\ WithinBudget(Serving.call)
  /\ memory' = Booked(Serving.call)
  /\ calls' = [calls EXCEPT ![Serving.call].month = month, ![Serving.call].held = Added(Serving.call)]
  /\ writing' = TRUE
  /\ UNCHANGED <<file, queue, broken, flush, timer, month, restarts>>

Settle ==
  /\ queue # <<>> /\ ~writing /\ ~broken /\ Serving.op = "settle"
  /\ memory' = [memory EXCEPT ![SettlingMonth(Serving.call)] = SettledRecord(Serving.call, Serving.actual)]
  /\ writing' = TRUE
  /\ UNCHANGED <<file, queue, broken, calls, flush, timer, month, restarts>>

Select ==
  /\ queue # <<>> /\ ~writing /\ ~broken /\ Serving.op = "select"
  /\ IF Pending = {} THEN UNCHANGED <<memory, flush>>
     ELSE /\ memory' = [memory EXCEPT ![NextAlert[1]].alerts[NextAlert[2]] = "sending"]
          /\ flush' = [flush EXCEPT !.alert = NextAlert]
  /\ writing' = TRUE
  /\ UNCHANGED <<file, queue, broken, calls, timer, month, restarts>>

Record ==
  /\ queue # <<>> /\ ~writing /\ ~broken /\ Serving.op = "record"
  /\ memory' = [memory EXCEPT ![flush.alert[1]].alerts[flush.alert[2]] =
                 IF flush.accepted THEN "sent" ELSE "pending"]
  /\ writing' = TRUE
  /\ UNCHANGED <<file, queue, broken, calls, flush, timer, month, restarts>>

\* faulty variant: the loop ends without a timer when the mail was not accepted
NoRetry == FALSE
RetryLater == ~flush.accepted

\* the head's promise is fulfilled and its caller goes on
AfterWrite ==
  \/ /\ Serving.op = "reserve"     \* the request goes out at once
     /\ \E n \in 0..calls[Serving.call].want :
          calls' = [calls EXCEPT ![Serving.call].phase = "calling", ![Serving.call].cost = n]
     /\ queue' = Tail(queue) /\ UNCHANGED <<flush, timer>>
  \/ /\ Serving.op = "settle"
     /\ calls' = [calls EXCEPT ![Serving.call].phase = "over"]
     /\ Flushed(Tail(queue), NewAlerts # {})
  \/ /\ Serving.op = "select"
     /\ queue' = Tail(queue)
     /\ flush' = [flush EXCEPT !.phase = IF flush.alert = NoAlert THEN "idle" ELSE "sending"]
     /\ UNCHANGED <<calls, timer>>
  \/ /\ Serving.op = "record" /\ flush.accepted
     /\ queue' = Append(Tail(queue), SelectOp)
     /\ flush' = [phase |-> "selecting", alert |-> NoAlert, accepted |-> FALSE]
     /\ UNCHANGED <<calls, timer>>
  \/ /\ Serving.op = "record" /\ ~flush.accepted
     /\ queue' = Tail(queue) /\ timer' = RetryLater
     /\ flush' = [phase |-> "idle", alert |-> NoAlert, accepted |-> FALSE]
     /\ UNCHANGED calls

Written ==
  /\ writing /\ file' = memory /\ writing' = FALSE
  /\ AfterWrite
  /\ UNCHANGED <<memory, broken, month, restarts>>

\* the temporary file was not written or did not replace the old one
WriteFails ==
  /\ writing /\ broken' = TRUE
  /\ Rejects
  /\ UNCHANGED <<memory, file, month, restarts>>

-----------------------------------------------------------------------------
(* The callers *)

Ask(c) ==
  /\ calls[c].phase = "new"
  /\ \E n \in Wants : calls' = [calls EXCEPT ![c].phase = "asking", ![c].want = n]
  /\ queue' = Append(queue, [op |-> "reserve", call |-> c, actual |-> 0])
  /\ UNCHANGED <<memory, file, writing, broken, flush, timer, month, restarts>>

SettleWith(c, n) ==
  /\ calls' = [calls EXCEPT ![c].phase = "settling"]
  /\ queue' = Append(queue, [op |-> "settle", call |-> c, actual |-> n])

\* the answer says what was used, or the provider refused the request unbilled
CallAnswered(c) ==
  /\ calls[c].phase = "calling"
  /\ SettleWith(c, calls[c].cost)
  /\ UNCHANGED <<memory, file, writing, broken, flush, timer, month, restarts>>

\* a timeout, an abort, a server error or an unreadable answer: kept as it is
NotKnown(c) ==
  /\ calls[c].phase = "calling"
  /\ calls' = [calls EXCEPT ![c].phase = "over"]
  /\ UNCHANGED <<memory, file, queue, writing, broken, flush, timer, month, restarts>>

-----------------------------------------------------------------------------
(* Alert mails, the calendar and the process *)

AlertAnswered(accepted) ==
  /\ flush.phase = "sending"
  /\ flush' = [flush EXCEPT !.phase = "recording", !.accepted = accepted]
  /\ queue' = Append(queue, [op |-> "record", call |-> "none", actual |-> 0])
  /\ UNCHANGED <<memory, file, writing, broken, calls, timer, month, restarts>>

AlertTimer ==
  /\ timer
  /\ IF flush.phase = "idle" THEN Flushed(queue, TRUE)
     ELSE timer' = FALSE /\ UNCHANGED <<queue, flush>>
  /\ UNCHANGED <<memory, file, writing, broken, calls, month, restarts>>

MonthTurns ==
  /\ month < LastMonth /\ month' = month + 1
  /\ UNCHANGED <<memory, file, queue, writing, broken, calls, flush, timer, restarts>>

Loaded ==
  [m \in Months |-> [file[m] EXCEPT !.alerts =
    [t \in Thresholds |-> IF @[t] = "sending" THEN "pending" ELSE @[t]]]]

\* the process ends at any moment; the next one starts when it can read the file
\* and write it back
Restart ==
  /\ restarts < MaxRestarts /\ restarts' = restarts + 1
  /\ memory' = Loaded /\ file' = Loaded
  /\ queue' = <<SelectOp>> /\ writing' = FALSE /\ broken' = FALSE /\ timer' = FALSE
  /\ flush' = [phase |-> "selecting", alert |-> NoAlert, accepted |-> FALSE]
  /\ calls' = [c \in Calls |->
       IF calls[c].phase \in {"calling", "settling"} THEN [calls[c] EXCEPT !.phase = "over"]
       ELSE IF calls[c].phase = "asking" THEN [calls[c] EXCEPT !.phase = "refused"]
       ELSE calls[c]]
  /\ UNCHANGED month

Chain == Unavailable \/ ReserveRefused \/ ReserveCost \/ Settle \/ Select \/ Record
LedgerNext ==
  \/ Chain \/ Written \/ WriteFails
  \/ \E c \in Calls : Ask(c) \/ CallAnswered(c) \/ NotKnown(c)
  \/ \E accepted \in BOOLEAN : AlertAnswered(accepted)
  \/ AlertTimer \/ MonthTurns \/ Restart

\* The event loop runs what is queued, file operations end, timers fire, and the
\* mail provider does not refuse alerts for ever.
LedgerFairness ==
  /\ WF_ledgerVars(Chain) /\ WF_ledgerVars(Written \/ WriteFails) /\ WF_ledgerVars(AlertTimer)
  /\ WF_ledgerVars(\E accepted \in BOOLEAN : AlertAnswered(accepted))
  /\ SF_ledgerVars(AlertAnswered(TRUE))
LedgerSpec == LedgerInit /\ [][LedgerNext]_ledgerVars

-----------------------------------------------------------------------------
LedgerTypeOK ==
  /\ \A m \in Months : \A r \in {memory[m], file[m]} :
       r.units \in Nat /\ (\A p \in Providers : r.spent[p] \in Nat)
       /\ \A t \in Thresholds : r.alerts[t] \in AlertStates
  /\ \A c \in Calls : calls[c].phase \in
       {"new", "asking", "calling", "settling", "over", "refused"}
  /\ flush.phase \in {"idle", "selecting", "sending", "recording"}
  /\ flush.alert \in Alerts \union {NoAlert}
  /\ {writing, broken, timer} \subseteq BOOLEAN /\ month \in Months

BilledCalls(m, cs) ==
  {c \in cs : calls[c].month = m /\ calls[c].phase \in {"calling", "settling", "over"}}
Billed(m, cs) == MapThenSumSet(LAMBDA c : calls[c].cost, BilledCalls(m, cs))

\* What the providers really billed in a month is on file, at any moment: through
\* lost answers, failed writes, crashes and the turn of the month.  Units are
\* never booked below their price, and no provider passes its limit
\* (cost-ledger.ts:137-217, metered-openai.ts:74-109).
BilledIsOnFile ==
  /\ LedgerTypeOK
  /\ \A m \in Months :
       /\ Billed(m, PricedCalls) <= file[m].spent["openai"]
       /\ Billed(m, GoogleCalls) <= file[m].units
       /\ \A r \in {memory[m], file[m]} :
            /\ Price(r.units) <= r.spent["google"]
            /\ \A p \in Providers : r.spent[p] <= Limit(p)

\* An alert on file is mailed, unless the ledger became unusable: the loop, its
\* timer, the settlements and the next start hand the work on without losing it
\* (cost-ledger.ts:111-119, 217, 232-266).
AlertsSettle ==
  \A a \in Alerts :
    file[a[1]].alerts[a[2]] = "pending" ~> (file[a[1]].alerts[a[2]] = "sent" \/ broken)

=============================================================================
