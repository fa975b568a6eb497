------------------------------ MODULE SearchQuota ------------------------------
(***************************************************************************)
(* The quota of web searches: the ledger file of SearchQuota, and the      *)
(* calls of OpenAIDialogue that take from it.                              *)
(*                                                                         *)
(* A call looks at the counter of its session, waits for the ledger,       *)
(* raises the counter and sends one request, which may search as often as  *)
(* it was granted.  It may be aborted while it waits, and the next call of *)
(* the session begins without waiting for it.  Nothing is kept in memory   *)
(* between two operations on the ledger: each reads the file and writes it *)
(* back, one after the other (serial).                                     *)
(***************************************************************************)
EXTENDS Integers, FiniteSets, FiniteSetsExt

CONSTANTS
  Replies,       \* calls of the streaming reply
  Checks,        \* calls that check one place, one branch or one venue
  MaxCalls,      \* maxSearchCalls, for one request
  SessionCap,    \* sessionSearchCalls
  DailyLimit, MonthlyLimit,
  LastDay, DaysInMonth,
  LastSession    \* bound on the sessions

ASSUME QuotaParameters ==
  /\ {MaxCalls, SessionCap, DailyLimit, MonthlyLimit, LastDay, DaysInMonth, LastSession}
       \subseteq Nat \ {0}
  /\ IsFiniteSet(Replies) /\ IsFiniteSet(Checks) /\ "none" \notin Replies \union Checks
  /\ MaxCalls <= SessionCap /\ DailyLimit <= MonthlyLimit

VARIABLES
  quotaFile,      \* the ledger: [days, months]
  read,           \* what the operation under way read, and for which call
  search,         \* the calls
  reserved,       \* sessionSearchReserved of each session's model
  currentSession,
  day

quotaVars == <<quotaFile, read, search, reserved, currentSession, day>>

Searches == Replies \union Checks
Days == 1..LastDay
MonthOf(d) == 1 + (d - 1) \div DaysInMonth
QuotaMonths == {MonthOf(d) : d \in Days}
Sessions == 1..LastSession
Ledger(days, months) == [days |-> days, months |-> months]
Nothing == Ledger([d \in Days |-> 0], [m \in QuotaMonths |-> 0])
NoRead == [call |-> "none", ledger |-> Nothing, day |-> 1]

\* used: the searches the provider really made (a history variable)
NewSearch == [phase |-> "new", session |-> 1, day |-> 1, want |-> 0, limit |-> 0,
            used |-> 0, actual |-> 0, aborted |-> FALSE]

QuotaInit ==
  /\ quotaFile = Nothing /\ read = NoRead
  /\ search = [c \in Searches |-> NewSearch]
  /\ reserved = [s \in Sessions |-> 0] /\ currentSession = 1 /\ day = 1

Least(S) == Min(S)
Waiting == {"asking", "calling"}

-----------------------------------------------------------------------------
(* The calls of the model *)

\* what is left of the session's share
Allowed(c) == IF c \in Checks THEN 1 ELSE Least({MaxCalls, SessionCap - reserved[currentSession]})

\* the conversation runs one call at a time; aborted ones may still be about
Begin(c) ==
  /\ search[c].phase = "new"
  /\ \A o \in Searches : search[o].phase \in Waiting => search[o].aborted
  /\ reserved[currentSession] < SessionCap
  /\ search' = [search EXCEPT ![c].phase = "asking", ![c].session = currentSession, ![c].want = Allowed(c)]
  /\ UNCHANGED <<quotaFile, read, reserved, currentSession, day>>

Abort(c) ==
  /\ search[c].phase \in Waiting /\ ~search[c].aborted
  /\ search' = [search EXCEPT ![c].aborted = TRUE]
  /\ UNCHANGED <<quotaFile, read, reserved, currentSession, day>>

Counted(c, n) == [reserved EXCEPT ![search[c].session] = @ + n]

\* the answer says how often it searched; whatever else happens, the
\* reservation stays charged
SearchAnswered(c) ==
  /\ search[c].phase = "calling"
  /\ search' = [search EXCEPT ![c].phase = "settling", ![c].actual = search[c].used]
  /\ reserved' = Counted(c, search[c].used - search[c].limit)
  /\ UNCHANGED <<quotaFile, read, currentSession, day>>

\* faulty variant: a request that failed gives its reservation back
SearchRefunded(c) ==
  /\ search[c].phase = "calling"
  /\ search' = [search EXCEPT ![c].phase = "settling", ![c].actual = 0]
  /\ reserved' = Counted(c, 0 - search[c].limit)
  /\ UNCHANGED <<quotaFile, read, currentSession, day>>

SearchUnknown(c) ==
  /\ search[c].phase = "calling"
  /\ search' = [search EXCEPT ![c].phase = "over"]
  /\ UNCHANGED <<quotaFile, read, reserved, currentSession, day>>

-----------------------------------------------------------------------------
(* The ledger *)

Turn == read = NoRead

Read(c) ==
  /\ Turn
  /\ search[c].phase \in {"asking", "settling"}
  /\ read' = [call |-> c, ledger |-> quotaFile, day |-> day]
  /\ UNCHANGED <<quotaFile, search, reserved, currentSession, day>>

Left(l, d) == Least({DailyLimit - l.days[d], MonthlyLimit - l.months[MonthOf(d)]})
Charged(l, d, n) ==
  Ledger([l.days EXCEPT ![d] = @ + n], [l.months EXCEPT ![MonthOf(d)] = @ + n])

\* the reservation comes back: the answer's own check gives it back untouched,
\* the others leave it charged; otherwise the request goes out
Granted(c, n) ==
  \/ /\ search[c].aborted /\ c \in Replies
     /\ search' = [search EXCEPT ![c].phase = "settling", ![c].limit = n, ![c].day = read.day]
     /\ UNCHANGED reserved
  \/ /\ search[c].aborted /\ c \in Checks
     /\ search' = [search EXCEPT ![c].phase = "over", ![c].limit = n, ![c].day = read.day]
     /\ reserved' = Counted(c, n)
  \/ /\ ~search[c].aborted
     /\ \E used \in 0..n :
          search' = [search EXCEPT ![c].phase = "calling", ![c].limit = n, ![c].day = read.day,
                                 ![c].used = used]
     /\ reserved' = Counted(c, n)

ReserveSearches(c) ==
  LET n == Least({search[c].want, Left(read.ledger, read.day)})
  IN /\ read.call = c /\ search[c].phase = "asking"
     /\ n > 0
     /\ quotaFile' = Charged(read.ledger, read.day, n)
     /\ read' = NoRead
     /\ Granted(c, n)
     /\ UNCHANGED <<currentSession, day>>

SettleSearches(c) ==
  /\ read.call = c /\ search[c].phase = "settling"
  /\ search[c].actual <= search[c].limit
  /\ read.ledger.days[search[c].day] >= search[c].limit
  /\ read.ledger.months[MonthOf(search[c].day)] >= search[c].limit
  /\ quotaFile' = Charged(read.ledger, search[c].day, search[c].actual - search[c].limit)
  /\ read' = NoRead
  /\ search' = [search EXCEPT ![c].phase = "over"]
  /\ UNCHANGED <<reserved, currentSession, day>>

\* nothing is left, the file is not readable, or it cannot be replaced: a call
\* without its reservation does not search
Fails(c) ==
  /\ read.call = c
  /\ read' = NoRead
  /\ search' = [search EXCEPT ![c].phase = "over"]
  /\ UNCHANGED <<quotaFile, reserved, currentSession, day>>

-----------------------------------------------------------------------------
(* Time, sessions, the process *)

DayTurns ==
  /\ day < LastDay /\ day' = day + 1
  /\ UNCHANGED <<quotaFile, read, search, reserved, currentSession>>

\* a new conversation has a model of its own; the old one's calls are aborted
NewSession ==
  /\ currentSession < LastSession /\ currentSession' = currentSession + 1
  /\ search' = [c \in Searches |-> IF search[c].phase \in Waiting
                               THEN [search[c] EXCEPT !.aborted = TRUE] ELSE search[c]]
  /\ UNCHANGED <<quotaFile, read, reserved, day>>

\* the process ends: what was not written is lost, requests are under way
QuotaRestart ==
  /\ currentSession < LastSession /\ currentSession' = currentSession + 1
  /\ read' = NoRead
  /\ search' = [c \in Searches |-> IF search[c].phase = "new" THEN search[c]
                               ELSE [search[c] EXCEPT !.phase = "over"]]
  /\ UNCHANGED <<quotaFile, reserved, day>>

QuotaNext ==
  \/ \E c \in Searches : \/ Begin(c) \/ Abort(c) \/ SearchAnswered(c) \/ SearchUnknown(c)
                      \/ Read(c) \/ ReserveSearches(c) \/ SettleSearches(c) \/ Fails(c)
  \/ DayTurns \/ NewSession \/ QuotaRestart
QuotaSpec == QuotaInit /\ [][QuotaNext]_quotaVars

-----------------------------------------------------------------------------
QuotaTypeOK ==
  /\ \A d \in Days : quotaFile.days[d] \in Nat
  /\ \A c \in Searches : search[c].phase \in {"new", "asking", "calling", "settling", "over"}
  /\ read.call \in Searches \union {"none"}

Used(cs) == MapThenSumSet(LAMBDA c : search[c].used, cs)

\* Every search the provider made is charged in the ledger on the day that
\* granted it, and no day, month or session searches more than it may: through
\* aborted calls that come back beside their successor, lost answers, refused
\* writes and restarts (search-quota.ts:119-175, dialogue-model.ts:435-467, 706-826).
SearchesAreCharged ==
  /\ QuotaTypeOK
  /\ \A d \in Days : Used({c \in Searches : search[c].day = d}) <= quotaFile.days[d]
                     /\ quotaFile.days[d] <= DailyLimit
  /\ \A m \in QuotaMonths : Used({c \in Searches : MonthOf(search[c].day) = m}) <= quotaFile.months[m]
                       /\ quotaFile.months[m] <= MonthlyLimit
  /\ \A s \in Sessions : Used({c \in Searches : search[c].session = s}) <= SessionCap

=============================================================================
