----------------------------- MODULE AccessProofs -----------------------------
(***************************************************************************)
(* Guest mode and the client's link, for every number of connections,      *)
(* sessions and credentials.                                               *)
(*                                                                         *)
(* Guest mode: a draft and an unlock are guarded where they happen, but    *)
(* the guard on the turn reads a flag of the turn.  What makes it enough   *)
(* is that a turn nobody told to stop belongs to a runtime that is open,   *)
(* and that a challenge goes with the entry of its connection.             *)
(*                                                                         *)
(* The link: memory is good, or the answer of the rotation that made it    *)
(* worthless is on its way or counted as lost.  The same has to be said of *)
(* every credential that is on its way, as each may be in memory next.     *)
(***************************************************************************)
EXTENDS GuestMode, ClientLink, TLAPS

(* Guest mode.                                                             *)

Entries == [mode : {"none", "owner", "guest"}, session : GuestSession \union {NoOne}, epoch : Nat]
Runtimes == [made : BOOLEAN, open : BOOLEAN, epoch : Nat]
Replies == [stage : {"none", "generating", "speaking"}, aborted : BOOLEAN]
Challenges == [lock : GuestSession \union {NoOne}, old : BOOLEAN]

GuestShape ==
  /\ deviceLock \in GuestSession \union {NoOne} /\ epoch \in Nat
  /\ guestStatus \in [GuestSession -> {"none", "live", "over"}]
  /\ drafts \in [GuestSession -> Nat]
  /\ entry \in [GuestConn -> Entries]
  /\ runtime \in [GuestSession -> Runtimes]
  /\ reply \in [GuestSession -> Replies]
  /\ challenge \in [GuestConn -> Challenges]

\* The session of a lock has begun, and may be over.
LockedSession == deviceLock # NoOne => guestStatus[deviceLock] # "none"

\* A turn runs on without being told to stop only in a runtime that is open.
TurnsOfOpenRuntimes == \A s \in GuestSession : reply[s] # NoReply /\ ~reply[s].aborted => runtime[s].open

\* A challenge is its connection's, and goes when the connection is forgotten.
ChallengesOfEntries == \A c \in GuestConn : challenge[c] # NoItem => entry[c] # NoEntry

GuestIInv == GuestShape /\ LockedSession /\ TurnsOfOpenRuntimes /\ ChallengesOfEntries

USE GuestAssumption DEF Entries, Runtimes, Replies, Challenges

\* When the server starts nobody is entered and nothing runs.
LEMMA GuestBegins == GuestInit => GuestIInv
BY DEF GuestInit, GuestIInv, GuestShape, LockedSession, TurnsOfOpenRuntimes, ChallengesOfEntries,
       NoEntry, NoRuntime, NoReply, NoItem

\* What a connection is cut off with: nobody is entered, no challenge is left,
\* and every runtime is closed with its turn told to stop.
LEMMA RevokeSafe ==
  ASSUME GuestIInv, Revoke
  PROVE  /\ entry' = [c \in GuestConn |-> NoEntry] /\ challenge' = [c \in GuestConn |-> NoItem]
         /\ runtime' \in [GuestSession -> Runtimes]
         /\ reply' \in [GuestSession -> Replies]
         /\ \A s \in GuestSession : ~runtime'[s].open /\ (reply'[s] # NoReply => reply'[s].aborted)
<1>1. entry' = [c \in GuestConn |-> NoEntry] BY DEF Revoke
<1>2. challenge' = [c \in GuestConn |-> NoItem]
  BY DEF Revoke, Registered, GuestIInv, ChallengesOfEntries
<1>3. runtime' = [s \in GuestSession |-> [runtime[s] EXCEPT !.open = FALSE]]
  BY DEF Revoke, ReleaseClient
<1>4. runtime' \in [GuestSession -> Runtimes]
      /\ \A s \in GuestSession : ~runtime'[s].open
  BY <1>3 DEF GuestIInv, GuestShape
<1>5. reply' = [s \in GuestSession |-> IF runtime[s].open /\ reply[s] # NoReply
                                       THEN [reply[s] EXCEPT !.aborted = TRUE] ELSE reply[s]]
  BY DEF Revoke, ReleaseClient, CloseRuntimes
<1>6. reply' \in [GuestSession -> Replies]
  BY <1>5 DEF GuestIInv, GuestShape
<1>7. ASSUME NEW s \in GuestSession, reply'[s] # NoReply PROVE reply'[s].aborted
  BY <1>5, <1>7 DEF GuestIInv, GuestShape, TurnsOfOpenRuntimes
<1> QED BY <1>1, <1>2, <1>4, <1>6, <1>7

\* Turns that are told to stop.
LEMMA ClosedSafe ==
  ASSUME GuestIInv, NEW S \in SUBSET GuestSession, CloseRuntimes(S)
  PROVE  /\ reply' \in [GuestSession -> Replies]
         /\ \A s \in GuestSession : reply'[s] # NoReply /\ ~reply'[s].aborted =>
              s \notin S /\ runtime[s].open
<1>1. reply' = [s \in GuestSession |-> IF s \in S /\ reply[s] # NoReply
                                       THEN [reply[s] EXCEPT !.aborted = TRUE] ELSE reply[s]]
  BY DEF CloseRuntimes
<1>2. reply' \in [GuestSession -> Replies]
  BY <1>1 DEF GuestIInv, GuestShape
<1>3. ASSUME NEW s \in GuestSession, reply'[s] # NoReply, ~reply'[s].aborted
      PROVE  s \notin S /\ runtime[s].open
  BY <1>1, <1>3 DEF GuestIInv, GuestShape, TurnsOfOpenRuntimes
<1> QED BY <1>2, <1>3

\* A runtime the registry drops takes its turn with it.
LEMMA DisposeSafe ==
  ASSUME GuestIInv, NEW d \in GuestSession, Dispose({d}, "over"), UNCHANGED <<deviceLock, epoch, drafts, entry, challenge>>
  PROVE  GuestIInv'
<1>1. /\ guestStatus' = [s \in GuestSession |-> IF s \in {d} /\ Live(s) THEN "over" ELSE guestStatus[s]]
      /\ runtime' = [s \in GuestSession |-> IF s \in {d} THEN NoRuntime ELSE runtime[s]]
      /\ CloseRuntimes({d})
  BY DEF Dispose
<1>2. guestStatus' \in [GuestSession -> {"none", "live", "over"}] /\ LockedSession'
  BY <1>1 DEF GuestIInv, GuestShape, LockedSession
<1>3. runtime' \in [GuestSession -> Runtimes]
  BY <1>1 DEF GuestIInv, GuestShape, NoRuntime
<1>4. reply' \in [GuestSession -> Replies]
      /\ TurnsOfOpenRuntimes'
  BY <1>1, ClosedSafe DEF TurnsOfOpenRuntimes
<1> QED BY <1>2, <1>3, <1>4 DEF GuestIInv, GuestShape, ChallengesOfEntries

\* A connection that enters, with the mode and the session it was given.
LEMMA RegisterSafe ==
  ASSUME GuestIInv, NEW c \in GuestConn, NEW mode \in {"owner", "guest"},
         NEW s \in GuestSession \union {NoOne}, NEW e \in Nat, RegisterAuthenticated(c, mode, s, e)
  PROVE  /\ entry' \in [GuestConn -> Entries]
         /\ \A d \in GuestConn : challenge[d] # NoItem => entry'[d] # NoEntry
BY DEF GuestIInv, GuestShape, ChallengesOfEntries, RegisterAuthenticated, NoEntry

LEMMA AcquireSafe ==
  ASSUME GuestIInv, NEW s \in GuestSession, NEW e \in Nat, Acquire(s, e)
  PROVE  /\ runtime' \in [GuestSession -> Runtimes]
         /\ \A t \in GuestSession : runtime[t].open => runtime'[t].open
<1>1. runtime' = [runtime EXCEPT ![s] = IF runtime[s].open THEN runtime[s]
                                        ELSE [made |-> TRUE, open |-> TRUE, epoch |-> e]]
  BY DEF Acquire, NewRuntime
<1> QED BY <1>1 DEF GuestIInv, GuestShape

\* Connections that come and go.
LEMMA ConnectionsSafe ==
  ASSUME GuestIInv, NEW c \in GuestConn,
         OwnerHello(c) \/ GuestHello(c) \/ SocketClosed(c) \/ ServerRestart \/ SweepRuntimes
           \/ \E s \in GuestSession : HelloRebinds(c, s) \/ Exit(c, s) \/ GuestExpires(s)
  PROVE  GuestIInv'
<1>1. CASE OwnerHello(c)
  <2>1. /\ entry' \in [GuestConn -> Entries]
        /\ \A d \in GuestConn : challenge[d] # NoItem => entry'[d] # NoEntry
    BY <1>1, RegisterSafe DEF OwnerHello, GuestIInv, GuestShape
  <2> QED BY <1>1, <2>1 DEF OwnerHello, GuestIInv, GuestShape, LockedSession, TurnsOfOpenRuntimes,
                            ChallengesOfEntries, guestStore, turnVars
<1>2. CASE GuestHello(c)
  <2>0. deviceLock \in GuestSession /\ epoch \in Nat BY <1>2 DEF GuestHello, Live, GuestIInv, GuestShape
  <2>1. /\ runtime' \in [GuestSession -> Runtimes]
        /\ \A t \in GuestSession : runtime[t].open => runtime'[t].open
    BY <1>2, <2>0, AcquireSafe DEF GuestHello, GuestIInv, GuestShape
  <2>2. /\ entry' \in [GuestConn -> Entries]
        /\ \A d \in GuestConn : challenge[d] # NoItem => entry'[d] # NoEntry
    BY <1>2, <2>0, RegisterSafe DEF GuestHello, GuestIInv, GuestShape, ChallengesOfEntries
  <2>3. UNCHANGED <<guestStore, turnVars, challenge>> BY <1>2 DEF GuestHello
  <2> QED BY <2>1, <2>2, <2>3 DEF GuestIInv, GuestShape, LockedSession, TurnsOfOpenRuntimes,
                                  ChallengesOfEntries, guestStore, turnVars
<1>3. CASE SocketClosed(c)
  <2>1. /\ entry' = [entry EXCEPT ![c] = NoEntry] /\ challenge' = [challenge EXCEPT ![c] = NoItem]
        /\ UNCHANGED <<deviceLock, epoch, guestStatus, drafts, runtime, reply>>
    BY <1>3 DEF SocketClosed, guestStore, turnVars
  <2>2. entry' \in [GuestConn -> Entries]
    BY <2>1 DEF GuestIInv, GuestShape, NoEntry
  <2>3. challenge' \in [GuestConn -> Challenges]
    BY <2>1 DEF GuestIInv, GuestShape, NoItem
  <2>4. ChallengesOfEntries' BY <2>1 DEF GuestIInv, GuestShape, ChallengesOfEntries
  <2> QED BY <2>1, <2>2, <2>3, <2>4 DEF GuestIInv, GuestShape, LockedSession, TurnsOfOpenRuntimes
<1>4. CASE ServerRestart
  BY <1>4 DEF ServerRestart, guestStore, GuestIInv, GuestShape, LockedSession, TurnsOfOpenRuntimes,
              ChallengesOfEntries, NoEntry, NoRuntime, NoReply, NoItem
<1>5. CASE SweepRuntimes
  <2>1. Revoke /\ UNCHANGED <<deviceLock, epoch, guestStatus, drafts>> BY <1>5 DEF SweepRuntimes, guestStore
  <2>2. NoEntry \in Entries
        /\ NoItem \in Challenges
    BY DEF NoEntry, NoItem
  <2> QED BY <2>1, <2>2, RevokeSafe DEF GuestIInv, GuestShape, LockedSession, TurnsOfOpenRuntimes, ChallengesOfEntries
<1>6. ASSUME NEW s \in GuestSession, HelloRebinds(c, s) PROVE GuestIInv'
  <2>0. /\ deviceLock \in GuestSession /\ epoch + 1 \in Nat /\ guestStatus[s] = "none"
        /\ deviceLock' = s /\ epoch' = epoch + 1 /\ UNCHANGED <<drafts, reply, challenge>>
    BY <1>6 DEF HelloRebinds, FreshGuests, GuestIInv, GuestShape, turnVars
  <2>1. guestStatus' = [guestStatus EXCEPT ![s] = "live", ![deviceLock] = "over"] BY <1>6 DEF HelloRebinds
  <2>2. guestStatus' \in [GuestSession -> {"none", "live", "over"}] /\ guestStatus'[s] # "none"
    BY <2>0, <2>1 DEF GuestIInv, GuestShape
  <2>3. /\ runtime' \in [GuestSession -> Runtimes]
        /\ \A t \in GuestSession : runtime[t].open => runtime'[t].open
    BY <1>6, <2>0, AcquireSafe DEF HelloRebinds
  <2>4. /\ entry' \in [GuestConn -> Entries]
        /\ \A d \in GuestConn : challenge[d] # NoItem => entry'[d] # NoEntry
    BY <1>6, <2>0, RegisterSafe DEF HelloRebinds
  <2> QED BY <2>0, <2>2, <2>3, <2>4 DEF GuestIInv, GuestShape, LockedSession, TurnsOfOpenRuntimes, ChallengesOfEntries
<1>7. ASSUME NEW s \in GuestSession, Exit(c, s) \/ GuestExpires(s) PROVE GuestIInv'
  BY <1>7, DisposeSafe DEF Exit, GuestExpires
<1> QED BY <1>1, <1>2, <1>3, <1>4, <1>5, <1>6, <1>7

\* The lock is set, and opened: both cut the whole device off.
LEMMA LockSafe ==
  ASSUME GuestIInv, NEW c \in GuestConn, Confirmed(c) \/ \E s \in GuestSession : Enter(c, s)
  PROVE  GuestIInv'
<1>0. NoEntry \in Entries
      /\ NoItem \in Challenges
  BY DEF NoEntry, NoItem
<1>1. Revoke /\ UNCHANGED drafts BY DEF Confirmed, Enter
<1>2. epoch' \in Nat /\ deviceLock' \in GuestSession \union {NoOne} BY DEF Confirmed, Enter, GuestIInv, GuestShape
<1>3. guestStatus' \in [GuestSession -> {"none", "live", "over"}] BY DEF Confirmed, Enter, GuestIInv, GuestShape
<1>4. LockedSession' BY DEF Confirmed, Enter, GuestIInv, GuestShape, LockedSession
<1> QED BY <1>0, <1>1, <1>2, <1>3, <1>4, RevokeSafe
     DEF GuestIInv, GuestShape, TurnsOfOpenRuntimes, ChallengesOfEntries

\* Challenges that are asked for, grow old and are consumed.
LEMMA ChallengesSafe ==
  ASSUME GuestIInv, NEW c \in GuestConn, Begin(c) \/ MinutePasses(c) \/ UnlockRefused(c)
  PROVE  GuestIInv'
<1>0. UNCHANGED <<deviceLock, epoch, guestStatus, drafts, entry, runtime, reply>>
  BY DEF Begin, MinutePasses, UnlockRefused, guestStore, turnVars
<1>1. CASE Begin(c)
  <2>1. PICK rest \in SUBSET {d \in GuestConn : challenge[d] # NoItem} :
          challenge' = [d \in GuestConn |-> IF d = c THEN [lock |-> deviceLock, old |-> FALSE]
                                            ELSE IF d \in rest THEN challenge[d] ELSE NoItem]
    BY <1>1 DEF Begin
  <2>2. entry[c] # NoEntry BY <1>1 DEF Begin, MayCommand, NoEntry
  <2>3. challenge' \in [GuestConn -> Challenges]
    BY <2>1 DEF NoItem, GuestIInv, GuestShape
  <2> QED BY <1>0, <2>1, <2>2, <2>3 DEF GuestIInv, GuestShape, LockedSession, TurnsOfOpenRuntimes, ChallengesOfEntries
<1>2. CASE MinutePasses(c) \/ UnlockRefused(c)
  <2>1. challenge' \in [GuestConn -> Challenges]
    <3>1. challenge \in [GuestConn -> Challenges] BY DEF GuestIInv, GuestShape
    <3>2. CASE challenge' = [challenge EXCEPT ![c].old = TRUE] BY <3>1, <3>2
    <3>3. CASE challenge' = [challenge EXCEPT ![c] = NoItem] BY <3>1, <3>3 DEF NoItem
    <3> QED BY <1>2, <3>2, <3>3 DEF MinutePasses, UnlockRefused
  <2>2. ChallengesOfEntries'
    BY <1>0, <1>2 DEF MinutePasses, UnlockRefused, GuestIInv, GuestShape, ChallengesOfEntries
  <2> QED BY <1>0, <2>1, <2>2 DEF GuestIInv, GuestShape, LockedSession, TurnsOfOpenRuntimes
<1> QED BY <1>1, <1>2

\* Turns: a reply starts only in a runtime that is open.
LEMMA TurnsSafe ==
  ASSUME GuestIInv, NEW s \in GuestSession,
         PlanArrives(s) \/ ReplyStarts(s) \/ SpeechEnds(s) \/ (\E result \in Results : Generated(s, result))
           \/ \E c \in GuestConn : PlanAsked(c, s) \/ Interrupt(c, s)
  PROVE  GuestIInv'
<1>0. UNCHANGED <<deviceLock, epoch, guestStatus, entry, runtime, challenge>>
  BY DEF PlanAsked, PlanArrives, ReplyStarts, SpeechEnds, Generated, Interrupt, guestStore
<1>1. drafts' \in [GuestSession -> Nat]
  <2>1. CASE UNCHANGED drafts BY <2>1 DEF GuestIInv, GuestShape
  <2>2. ASSUME NEW result, Generated(s, result) PROVE drafts' \in [GuestSession -> Nat]
    BY <2>2 DEF Generated, GuestIInv, GuestShape
  <2> QED BY <2>1, <2>2 DEF PlanAsked, PlanArrives, ReplyStarts, SpeechEnds, Interrupt, guestStore
<1>2. reply' \in [GuestSession -> Replies]
      /\ TurnsOfOpenRuntimes'
  <2>1. CASE UNCHANGED reply BY <1>0, <2>1 DEF GuestIInv, GuestShape, TurnsOfOpenRuntimes
  <2>2. CASE CloseRuntimes({s}) BY <1>0, <2>2, ClosedSafe DEF TurnsOfOpenRuntimes
  <2>3. CASE reply' = [reply EXCEPT ![s] = NoReply]
    BY <1>0, <2>3 DEF GuestIInv, GuestShape, TurnsOfOpenRuntimes, NoReply
  <2>4. CASE ReplyStarts(s)
    <3>1. PICK r \in {reply[s], NoReply, [stage |-> "generating", aborted |-> FALSE],
                      [stage |-> "speaking", aborted |-> FALSE]} :
            reply' = [reply EXCEPT ![s] = r] /\ (r = reply[s] \/ AssertAccess(s))
      BY <2>4 DEF ReplyStarts
    <3>2. reply' \in [GuestSession -> Replies]
      <4>1. r \in Replies
        <5>1. reply[s] \in Replies BY DEF GuestIInv, GuestShape
        <5>2. r = reply[s] \/ r = NoReply \/ r = [stage |-> "generating", aborted |-> FALSE]
              \/ r = [stage |-> "speaking", aborted |-> FALSE]
          BY <3>1
        <5>3. /\ NoReply \in Replies
              /\ [stage |-> "generating", aborted |-> FALSE] \in Replies
              /\ [stage |-> "speaking", aborted |-> FALSE] \in Replies
          BY DEF NoReply
        <5> QED BY <5>1, <5>2, <5>3, Zenon
      <4>2. reply \in [GuestSession -> Replies]
        BY DEF GuestIInv, GuestShape
      <4> QED BY <3>1, <4>1, <4>2
    <3>3. TurnsOfOpenRuntimes' BY <1>0, <3>1 DEF AssertAccess, GuestIInv, GuestShape, TurnsOfOpenRuntimes
    <3> QED BY <3>2, <3>3
  <2> QED BY <2>1, <2>2, <2>3, <2>4 DEF PlanAsked, PlanArrives, SpeechEnds, Generated, Interrupt, guestStore
<1> QED BY <1>0, <1>1, <1>2 DEF GuestIInv, GuestShape, LockedSession, ChallengesOfEntries

\* Every step of the connections, the turns and the clock keeps the invariant.
LEMMA GuestStep == GuestIInv /\ [GuestNext]_guestVars => GuestIInv'
<1> SUFFICES ASSUME GuestIInv, [GuestNext]_guestVars PROVE GuestIInv' OBVIOUS
<1>1. CASE UNCHANGED guestVars
  BY <1>1 DEF guestVars, guestStore, turnVars, GuestIInv, GuestShape, LockedSession, TurnsOfOpenRuntimes,
              ChallengesOfEntries
<1>2. ASSUME GuestNext, GuestConn # {} PROVE GuestIInv'
  BY <1>2, ConnectionsSafe, LockSafe, ChallengesSafe, TurnsSafe DEF GuestNext
<1>3. CASE GuestNext /\ GuestConn = {}
  <2>1. CASE \E s \in GuestSession : GuestExpires(s) BY <2>1, DisposeSafe DEF GuestExpires
  <2> QED BY <1>3, <2>1, TurnsSafe DEF GuestNext, SweepRuntimes, ServerRestart, Registered
<1> QED BY <1>1, <1>2, <1>3

\* In guest mode a turn that nobody told to stop belongs to a runtime that is
\* open, and a challenge to a connection that is entered, at every moment.
THEOREM GuestInductive == GuestSpec => []GuestIInv
BY GuestBegins, GuestStep, PTL DEF GuestSpec

\* A draft is saved one at a time, up to the limit, and only while the device is
\* locked to its session, which is live, in a runtime that is open and by a turn
\* that nobody told to stop: guest-drafts.ts, whatever happens to the connection,
\* the lock and the session while the model writes it.
THEOREM DraftsNeedTheLock == GuestSpec => DraftsUnderLock
<1>1. GuestIInv /\ [GuestNext]_guestVars =>
        [\A s \in GuestSession : drafts'[s] # drafts[s] =>
           /\ drafts'[s] = drafts[s] + 1 /\ drafts'[s] <= MaxDrafts
           /\ deviceLock = s /\ guestStatus[s] = "live" /\ runtime[s].open /\ ~reply[s].aborted]_guestVars
  <2> SUFFICES ASSUME GuestIInv, GuestNext, NEW s \in GuestSession, drafts'[s] # drafts[s]
      PROVE /\ drafts'[s] = drafts[s] + 1 /\ drafts'[s] <= MaxDrafts
            /\ deviceLock = s /\ guestStatus[s] = "live" /\ runtime[s].open /\ ~reply[s].aborted
    OBVIOUS
  <2>1. PICK t \in GuestSession, result \in Results : Generated(t, result)
    BY DEF GuestNext, OwnerHello, GuestHello, SocketClosed, Begin, MinutePasses, Confirmed, UnlockRefused,
           Enter, HelloRebinds, Exit, PlanAsked, Interrupt, GuestExpires, PlanArrives, ReplyStarts, SpeechEnds,
           SweepRuntimes, ServerRestart, guestStore
  <2>2. t = s /\ drafts'[s] = drafts[s] + 1 /\ LateResultStands(s) /\ reply[s].stage = "generating"
    BY <2>1 DEF Generated, GuestIInv, GuestShape
  <2>3. reply[s] # NoReply /\ ~reply[s].aborted BY <2>2 DEF LateResultStands, NoReply
  <2>4. runtime[s].open BY <2>3 DEF GuestIInv, TurnsOfOpenRuntimes
  <2>5. deviceLock = s /\ guestStatus[s] = "live"
    BY <2>2 DEF LateResultStands, DraftAccess, RequireGuestAccess, Principal, RequireLiveGuest, Live
  <2>6. drafts[s] + 1 <= MaxDrafts
    <3>1. drafts[s] \in Nat /\ MaxDrafts \in Nat /\ drafts[s] < MaxDrafts
      BY <2>2 DEF LateResultStands, AssertCapacity, GuestIInv, GuestShape
    <3> QED BY <3>1
  <2> QED BY <2>2, <2>3, <2>4, <2>5, <2>6
<1> QED BY GuestInductive, <1>1, PTL DEF GuestSpec, DraftsUnderLock

\* What opens the lock, and what is left of the device then.
OpensFresh ==
  deviceLock # NoOne /\ deviceLock' = NoOne =>
    /\ \E c \in GuestConn : /\ challenge[c] = [lock |-> deviceLock, old |-> FALSE]
                          /\ entry[c] = [mode |-> "guest", session |-> deviceLock, epoch |-> epoch]
    /\ guestStatus'[deviceLock] = "over"
    /\ \A c \in GuestConn : challenge'[c] = NoItem /\ entry'[c] = NoEntry
    /\ \A s \in GuestSession : ~runtime'[s].open /\ (reply'[s] # NoReply => reply'[s].aborted)

\* The lock opens in one way: the connection that asked confirms the challenge it
\* was given for this very lock, while it is fresh, and the opening cuts off every
\* connection and tells every turn to stop.
THEOREM LockOpensByChallenge == GuestSpec => OpenedByFreshChallenge
<1>1. GuestIInv /\ [GuestNext]_guestVars => [OpensFresh]_guestVars
  <2> SUFFICES ASSUME GuestIInv, GuestNext, deviceLock # NoOne, deviceLock' = NoOne PROVE OpensFresh
    BY DEF OpensFresh
  <2>1. PICK c \in GuestConn : Confirmed(c)
    BY DEF GuestNext, OwnerHello, GuestHello, SocketClosed, Begin, MinutePasses, UnlockRefused, Enter,
           HelloRebinds, Exit, PlanAsked, Interrupt, GuestExpires, PlanArrives, ReplyStarts, SpeechEnds,
           SweepRuntimes, ServerRestart, Generated, guestStore
  <2>2. challenge[c] = [lock |-> deviceLock, old |-> FALSE]
    <3>1. challenge[c] \in Challenges BY DEF GuestIInv, GuestShape
    <3>2. ~challenge[c].old /\ challenge[c].lock = deviceLock BY <2>1 DEF Confirmed, Accepts
    <3> QED BY <3>1, <3>2
  <2>3. entry[c] = [mode |-> "guest", session |-> deviceLock, epoch |-> epoch]
    <3>1. entry[c] \in Entries
      BY DEF GuestIInv, GuestShape
    <3>2. entry[c].mode = "guest" /\ entry[c].epoch = epoch /\ entry[c].session = deviceLock
      BY <2>1 DEF Confirmed, MayCommand, Check, Principal
    <3> QED BY <3>1, <3>2
  <2>4. guestStatus'[deviceLock] = "over"
    BY <2>1 DEF Confirmed, GuestIInv, GuestShape, LockedSession, MayCommand, Check, Live
  <2>5. Revoke BY <2>1 DEF Confirmed
  <2> QED BY <2>2, <2>3, <2>4, <2>5, RevokeSafe DEF OpensFresh
<1>2. [][OpensFresh]_guestVars => OpenedByFreshChallenge BY DEF OpensFresh, OpenedByFreshChallenge
<1> QED BY GuestInductive, <1>1, <1>2, PTL DEF GuestSpec

-----------------------------------------------------------------------------
(* The client's link.                                                      *)

HIDE GuestAssumption DEF Entries, Runtimes, Replies, Challenges

Kinds == {"none", "resume", "device", "token", "exit", "ready", "refresh", "busy", "session", "guest", "reauthorize"}
Credentials == [id : Id \union {Nil}, session : LinkSession \union {Nil}]
Messages == [kind : Kinds, credential : Credentials]

LinkShape ==
  /\ liveSessions \subseteq LinkSession /\ at \in LinkSession \union {Nil}
  /\ near \in [LinkConn -> {"none", "open", "ready"}]
  /\ hello \in [LinkConn -> Messages]
  /\ down \in [LinkConn -> Seq(Messages)]
  /\ mem \in Credentials /\ stored \in Credentials /\ writes \in Seq(Credentials)
  /\ socket \in LinkConn \union {Nil} /\ timer \in BOOLEAN

\* The one socket, and what a change of access leaves until it has reopened.
SocketOK ==
  /\ \A c \in LinkConn : near[c] # "none" => socket = c
  /\ timer => socket = Nil
  /\ changing = "guest" => socket = Nil /\ ~timer

\* Nothing is on its way to a client that has closed.
Delivered == \A c \in LinkConn : near[c] = "none" => down[c] = << >>

Rotates(m) == m.kind = "ready" \/ m.kind = "refresh"

\* A credential on its way is good, or the session has rotated since: the
\* answer to that rotation comes behind it, or is lost.
ComingIsGood ==
  \A c \in LinkConn : \A i \in DOMAIN down[c] :
    LET k == down[c][i].credential IN
    Rotates(down[c][i]) /\ k.session \in liveSessions =>
      \/ k \in valid \/ k.session \in lost
      \/ \E j \in DOMAIN down[c] : j > i /\ down[c][j].kind = "ready" /\ down[c][j].credential.session = k.session

LinkIInv == LinkShape /\ SocketOK /\ Delivered /\ ComingIsGood /\ LockedOutOnlyByLoss

USE LinkAssumption

\* What is not heard yet of a connection: the answers to rotations under way.
LEMMA UnheardIs ==
  ASSUME NEW c \in LinkConn, NEW s
  PROVE  s \in Unheard(c) <=> \E i \in DOMAIN down[c] : down[c][i].kind = "ready" /\ down[c][i].credential.session = s
BY DEF Unheard, ToSet

\* The same of the next state.
LEMMA UnheardNext ==
  ASSUME NEW c \in LinkConn, NEW s
  PROVE  s \in Unheard(c)' <=>
           \E i \in DOMAIN down'[c] : down'[c][i].kind = "ready" /\ down'[c][i].credential.session = s
BY DEF Unheard, ToSet

\* The messages, credentials and empty values are of their shapes.
LEMMA Values ==
  /\ NoCredential \in Credentials /\ NoCredential.session = Nil /\ Silent \in Messages /\ Silent.kind = "none"
  /\ \A id \in Id, s \in LinkSession \union {Nil} : [id |-> id, session |-> s] \in Credentials
  /\ \A kind \in Kinds, k \in Credentials : /\ Message(kind, k) \in Messages /\ Message(kind, k).kind = kind
                                            /\ Message(kind, k).credential = k
BY DEF NoCredential, Silent, Credentials, Messages, Kinds, Message

\* A client that has just started holds nothing.
LEMMA LinkBegins == LinkInit => LinkIInv
<1> SUFFICES ASSUME LinkInit PROVE LinkIInv OBVIOUS
<1>1. /\ LinkShape
  <2>1. << >> \in Seq(Messages) /\ << >> \in Seq(Credentials) OBVIOUS
  <2> QED BY <2>1, Values DEF LinkInit, LinkShape
<1>2. SocketOK /\ Delivered /\ ComingIsGood /\ LockedOutOnlyByLoss
  BY DEF LinkInit, SocketOK, Delivered, ComingIsGood, LockedOutOnlyByLoss
<1> QED BY <1>1, <1>2 DEF LinkIInv

\* A step of the server: at most one message goes to a client that is there,
\* and what it makes worthless it answers with.
LEMMA ServerSafe ==
  ASSUME LinkIInv, NEW c \in LinkConn, NEW m \in Messages,
         UNCHANGED <<near, mem, stored, writes, socket, timer, changing>>,
         down' = down \/ down' = [down EXCEPT ![c] = IF near[c] = "none" THEN @ ELSE Append(@, m)],
         liveSessions' \subseteq LinkSession, at' \in LinkSession \union {Nil}, hello' \in [LinkConn -> Messages],
         \A s \in liveSessions' : s \in lost => s \in lost',
         m.kind = "ready" =>
           down' = [down EXCEPT ![c] = IF near[c] = "none" THEN @ ELSE Append(@, m)]
             /\ (near[c] = "none" => m.credential.session \in lost'),
         Rotates(m) => m.credential \in valid',
         \A k \in valid : k.session \in liveSessions' =>
           k \in valid' \/ (m.kind = "ready" /\ m.credential.session = k.session),
         \A s \in liveSessions' \ liveSessions :
           /\ mem.session # s
           /\ \A d \in LinkConn : \A i \in DOMAIN down[d] : down[d][i].credential.session # s
  PROVE  LinkIInv'
<1>0. down \in [LinkConn -> Seq(Messages)] BY DEF LinkIInv, LinkShape
<1>1. ASSUME NEW d \in LinkConn
      PROVE  /\ down'[d] \in Seq(Messages)
             /\ near[d] = "none" => down'[d] = << >>
             /\ \A i \in DOMAIN down[d] : i \in DOMAIN down'[d] /\ down'[d][i] = down[d][i]
             /\ \A i \in DOMAIN down'[d] : i \in DOMAIN down[d] \/ (d = c /\ down'[d][i] = m /\ near[c] # "none")
  <2>0. down[d] \in Seq(Messages) BY <1>0
  <2>1. near[d] = "none" => down[d] = << >> BY DEF LinkIInv, Delivered
  <2>2. CASE down'[d] = down[d] BY <2>0, <2>1, <2>2
  <2>3. CASE down'[d] = Append(down[d], m) /\ d = c /\ near[c] # "none" BY <2>0, <2>1, <2>3
  <2> QED BY <1>0, <2>2, <2>3
<1>2. m.kind = "ready" /\ near[c] # "none" =>
        \E j \in DOMAIN down'[c] : \A i \in DOMAIN down[c] : j > i /\ down'[c][j] = m
  <2> SUFFICES ASSUME m.kind = "ready", near[c] # "none"
      PROVE \E j \in DOMAIN down'[c] : \A i \in DOMAIN down[c] : j > i /\ down'[c][j] = m OBVIOUS
  <2>1. down[c] \in Seq(Messages) /\ down'[c] = Append(down[c], m) BY <1>0
  <2>2. Len(down[c]) + 1 \in DOMAIN down'[c] /\ down'[c][Len(down[c]) + 1] = m BY <2>1
  <2>3. \A i \in DOMAIN down[c] : Len(down[c]) + 1 > i BY <2>1
  <2> QED BY <2>2, <2>3
<1>2a. m.kind = "ready" /\ near[c] # "none" =>
        \E j \in DOMAIN down'[c] : down'[c][j] = m
  <2> SUFFICES ASSUME m.kind = "ready", near[c] # "none" PROVE \E j \in DOMAIN down'[c] : down'[c][j] = m OBVIOUS
  <2>1. down[c] \in Seq(Messages) /\ down'[c] = Append(down[c], m) BY <1>0
  <2>2. Len(down[c]) + 1 \in DOMAIN down'[c] /\ down'[c][Len(down[c]) + 1] = m BY <2>1
  <2> QED BY <2>2
<1>3. LinkShape'
  <2>1. down' \in [LinkConn -> Seq(Messages)]
    <3>1. DOMAIN down' = LinkConn /\ down' = [d \in LinkConn |-> down'[d]] BY <1>0
    <3> QED BY <1>1, <3>1
  <2> QED BY <2>1 DEF LinkIInv, LinkShape
<1>4. SocketOK' BY DEF LinkIInv, SocketOK
<1>5. Delivered' BY <1>1 DEF Delivered
<1>6. ComingIsGood'
  <2> SUFFICES ASSUME NEW d \in LinkConn, NEW i \in DOMAIN down'[d], Rotates(down'[d][i]),
                      down'[d][i].credential.session \in liveSessions'
      PROVE  \/ down'[d][i].credential \in valid' \/ down'[d][i].credential.session \in lost'
             \/ \E j \in DOMAIN down'[d] : j > i /\ down'[d][j].kind = "ready"
                     /\ down'[d][j].credential.session = down'[d][i].credential.session
    BY DEF ComingIsGood, Rotates
  <2>1. CASE i \notin DOMAIN down[d] BY <1>1, <2>1
  <2>2. CASE i \in DOMAIN down[d]
    <3> DEFINE k == down[d][i].credential
    <3>1. down'[d][i] = down[d][i] /\ near[d] # "none" BY <1>1, <2>2 DEF LinkIInv, Delivered
    <3>2. k.session \in liveSessions /\ k.session \in liveSessions' BY <2>2, <3>1
    <3>3. \/ k \in valid \/ k.session \in lost
          \/ \E j \in DOMAIN down[d] : j > i /\ down[d][j].kind = "ready" /\ down[d][j].credential.session = k.session
      BY <2>2, <3>1, <3>2 DEF LinkIInv, ComingIsGood
    <3>4. CASE k \in valid
      <4>1. k \in valid' \/ (m.kind = "ready" /\ m.credential.session = k.session) BY <3>2, <3>4
      <4>2. CASE k \in valid' BY <3>1, <4>2
      <4>3. CASE m.kind = "ready" /\ m.credential.session = k.session
        <5>1. CASE near[c] = "none" BY <3>1, <4>3, <5>1
        <5>2. CASE near[c] # "none"
          <6>1. d = c BY <3>1, <5>2 DEF LinkIInv, SocketOK
          <6> QED BY <1>2, <2>2, <3>1, <4>3, <5>2, <6>1
        <5> QED BY <5>1, <5>2
      <4> QED BY <4>1, <4>2, <4>3
    <3>5. CASE k.session \in lost BY <3>1, <3>2, <3>5
    <3>6. CASE \E j \in DOMAIN down[d] : j > i /\ down[d][j].kind = "ready" /\ down[d][j].credential.session = k.session
      BY <1>1, <3>1, <3>6
    <3> QED BY <3>3, <3>4, <3>5, <3>6
  <2> QED BY <2>1, <2>2
<1>7. LockedOutOnlyByLoss'
  <2> SUFFICES ASSUME mem.session \in liveSessions'
      PROVE  \/ mem \in valid' \/ mem.session \in lost'
             \/ \E d \in LinkConn : near[d] # "none" /\ mem.session \in Unheard(d)'
    BY DEF LockedOutOnlyByLoss
  <2>1. mem.session \in liveSessions OBVIOUS
  <2>2. \/ mem \in valid \/ mem.session \in lost
        \/ \E d \in LinkConn : near[d] # "none" /\ mem.session \in Unheard(d)
    BY <2>1 DEF LinkIInv, LockedOutOnlyByLoss
  <2>3. CASE mem \in valid
    <3>1. mem \in valid' \/ (m.kind = "ready" /\ m.credential.session = mem.session) BY <2>3
    <3>2. CASE m.kind = "ready" /\ m.credential.session = mem.session
      BY <1>2a, <3>2, UnheardNext
    <3> QED BY <3>1, <3>2
  <2>4. CASE mem.session \in lost BY <2>4
  <2>5. CASE \E d \in LinkConn : near[d] # "none" /\ mem.session \in Unheard(d)
    <3>1. PICK d \in LinkConn : near[d] # "none" /\ mem.session \in Unheard(d) BY <2>5
    <3>2. mem.session \in Unheard(d)' BY <1>1, <3>1, UnheardIs, UnheardNext
    <3> QED BY <3>1, <3>2
  <2> QED BY <2>2, <2>3, <2>4, <2>5
<1> QED BY <1>3, <1>4, <1>5, <1>6, <1>7 DEF LinkIInv

\* What is chosen as new is in no memory and no message.
LEMMA FreshIsNew ==
  ASSUME NEW s \in FreshSessions
  PROVE  /\ s \in LinkSession /\ mem.session # s
         /\ \A d \in LinkConn : \A i \in DOMAIN down[d] : down[d][i].credential.session # s
<1>1. s \in LinkSession /\ s \notin {k.session : k \in Mentioned} BY DEF FreshSessions
<1>2. mem \in Mentioned BY DEF Mentioned
<1>3. ASSUME NEW d \in LinkConn, NEW i \in DOMAIN down[d] PROVE down[d][i].credential \in Mentioned
  <2>1. down[d][i] \in ToSet(down[d]) BY DEF ToSet
  <2>2. down[d][i].credential \in {m.credential : m \in ToSet(down[d])} BY <2>1
  <2> QED BY <2>2 DEF Mentioned
<1> QED BY <1>1, <1>2, <1>3

\* Every step of the server keeps the invariant.
LEMMA ServerStep ==
  ASSUME LinkIInv, NEW c \in LinkConn,
         \/ HelloRefused(c) \/ HelloLost(c) \/ FarCloses(c) \/ Ended(c)
         \/ \E mode \in {"guest", "reauthorize"} : LinkRevoked(c, mode)
         \/ \E id \in Id : \/ ResumeAccepted(c, id) \/ Refresh(c, id)
                           \/ \E s \in LinkSession : SessionCreated(c, s, id)
         \/ \E s \in LinkSession : SessionExpires(s)
  PROVE  LinkIInv'
<1>0. /\ liveSessions \subseteq LinkSession /\ at \in LinkSession \union {Nil}
      /\ hello \in [LinkConn -> Messages] /\ hello[c].credential \in Credentials
      /\ \A x \in Messages : x.credential \in Credentials
  BY DEF LinkIInv, LinkShape, Messages
<1>1. UNCHANGED <<near, mem, stored, writes, socket, timer, changing>>
  BY DEF HelloRefused, HelloLost, FarCloses, Ended, LinkRevoked, ResumeAccepted, Refresh, SessionCreated,
         SessionExpires, heldVars, ctlVars, hostVars, linkVars, serverVars
<1>2. hello' \in [LinkConn -> Messages]
  <2>1. hello' = hello \/ hello' = [hello EXCEPT ![c] = Silent]
    BY DEF HelloRefused, HelloLost, FarCloses, Ended, LinkRevoked, ResumeAccepted, Refresh, SessionCreated,
           SessionExpires, linkVars, Consumed
  <2> QED BY <1>0, <2>1, Values
<1>3. CASE HelloLost(c) \/ FarCloses(c)
  <2>1. UNCHANGED <<down, liveSessions, lost, valid>> /\ at' \in {at, Nil}
    BY <1>3 DEF HelloLost, FarCloses, Released, serverVars
  <2>2. Silent.kind # "ready" /\ ~Rotates(Silent) /\ Silent \in Messages BY Values DEF Rotates
  <2> QED BY <1>0, <1>1, <1>2, <2>1, <2>2, ServerSafe
<1>4. ASSUME NEW kind \in {"busy", "session", "device"}, Send(c, Message(kind, hello[c].credential)),
             UNCHANGED serverVars
      PROVE  LinkIInv'
  <2> DEFINE m == Message(kind, hello[c].credential)
  <2>1. m \in Messages /\ m.kind # "ready" /\ ~Rotates(m) BY <1>0, Values DEF Rotates, Kinds
  <2>2. /\ down' = [down EXCEPT ![c] = IF near[c] = "none" THEN @ ELSE Append(@, m)] /\ lost' = lost
        /\ UNCHANGED <<liveSessions, valid, at>>
    BY <1>4, <2>1 DEF Send, serverVars
  <2> HIDE DEF m
  <2> QED BY <1>0, <1>1, <1>2, <2>1, <2>2, ServerSafe
<1>5. CASE HelloRefused(c)
  <2>1. Refusal(c) \in {"busy", "session", "device"} BY <1>5 DEF HelloRefused, Refusal
  <2> QED BY <1>4, <1>5, <2>1 DEF HelloRefused
<1>6. ASSUME NEW S, Over(S), down' = down, at' \in LinkSession \union {Nil} PROVE LinkIInv'
  <2>1. liveSessions' = liveSessions \ S /\ valid' = {k \in valid : k.session \notin S} /\ lost' = lost \ S
    BY <1>6 DEF Over
  <2>2. Silent.kind # "ready" /\ ~Rotates(Silent) /\ Silent \in Messages BY Values DEF Rotates
  <2> QED BY <1>0, <1>1, <1>2, <1>6, <2>1, <2>2, ServerSafe
<1>7. CASE Ended(c) BY <1>6, <1>7 DEF Ended, Released
<1>8. CASE \E s \in LinkSession : SessionExpires(s) BY <1>0, <1>6, <1>8 DEF SessionExpires, linkVars
<1>9. ASSUME NEW mode \in {"guest", "reauthorize"}, LinkRevoked(c, mode) PROVE LinkIInv'
  <2>1. PICK S : Over(S) BY <1>9 DEF LinkRevoked
  <2>2. liveSessions' = liveSessions \ S /\ valid' = {k \in valid : k.session \notin S} /\ lost' = lost \ S
    BY <2>1 DEF Over
  <2> DEFINE m == Message(mode, NoCredential)
  <2>3. m \in Messages /\ m.kind # "ready" /\ ~Rotates(m) BY Values DEF Rotates, Kinds
  <2>4. down' = [down EXCEPT ![c] = IF near[c] = "none" THEN @ ELSE Append(@, m)] /\ at' = Nil
    BY <1>9 DEF LinkRevoked, Released
  <2> HIDE DEF m
  <2> QED BY <1>0, <1>1, <1>2, <2>2, <2>3, <2>4, ServerSafe
<1>10. ASSUME NEW id \in Id, Refresh(c, id) PROVE LinkIInv'
  <2> DEFINE new == [id |-> id, session |-> at]
  <2> DEFINE m == Message("refresh", new)
  <2>1. m \in Messages /\ m.kind = "refresh" /\ m.credential = new BY <1>0, Values DEF Kinds
  <2>2. /\ down' = [down EXCEPT ![c] = IF near[c] = "none" THEN @ ELSE Append(@, m)] /\ lost' = lost
        /\ valid' = valid \union {new} /\ UNCHANGED <<liveSessions, at>>
    BY <1>10, <2>1 DEF Refresh, Send
  <2> HIDE DEF m, new
  <2> QED BY <1>0, <1>1, <1>2, <2>1, <2>2, ServerSafe
<1>11. ASSUME NEW id \in Id, ResumeAccepted(c, id) PROVE LinkIInv'
  <2> DEFINE k == hello[c].credential
  <2> DEFINE new == [id |-> id, session |-> k.session]
  <2> DEFINE m == Message("ready", new)
  <2>0. k.session \in LinkSession BY <1>0, <1>11 DEF ResumeAccepted
  <2>1. m \in Messages /\ m.kind = "ready" /\ m.credential = new /\ new.session = k.session
    BY <1>0, <2>0, Values DEF Kinds
  <2>2. /\ down' = [down EXCEPT ![c] = IF near[c] = "none" THEN @ ELSE Append(@, m)]
        /\ lost' = IF near[c] = "none" THEN lost \union {new.session} ELSE lost
        /\ valid' = (valid \ OfSession(k.session)) \union {new}
        /\ liveSessions' = liveSessions /\ at' = k.session
    BY <1>11, <2>1 DEF ResumeAccepted, Send, Attach
  <2>3. \A x \in valid : x \in valid' \/ x.session = new.session BY <2>1, <2>2 DEF OfSession
  <2> HIDE DEF m, new, k
  <2> QED BY <1>0, <1>1, <1>2, <2>0, <2>1, <2>2, <2>3, ServerSafe
<1>12. ASSUME NEW id \in Id, NEW s \in LinkSession, SessionCreated(c, s, id) PROVE LinkIInv'
  <2> DEFINE new == [id |-> id, session |-> s]
  <2> DEFINE m == Message("ready", new)
  <2>1. m \in Messages /\ m.kind = "ready" /\ m.credential = new /\ new.session = s BY Values DEF Kinds
  <2>2. /\ down' = [down EXCEPT ![c] = IF near[c] = "none" THEN @ ELSE Append(@, m)]
        /\ lost' = IF near[c] = "none" THEN lost \union {new.session} ELSE lost
        /\ valid' = valid \union {new} /\ liveSessions' = liveSessions \union {s} /\ at' = s
    BY <1>12, <2>1 DEF SessionCreated, Send, Attach
  <2>3. s \in FreshSessions BY <1>12 DEF SessionCreated
  <2> HIDE DEF m, new
  <2> QED BY <1>0, <1>1, <1>2, <2>1, <2>2, <2>3, FreshIsNew, ServerSafe
<1> QED BY <1>3, <1>5, <1>7, <1>8, <1>9, <1>10, <1>11, <1>12

\* A socket is opened: the client has no other.
LEMMA OpenSafe ==
  ASSUME LinkIInv, NEW c \in LinkConn, NEW fresh, NEW hasToken, Open(c, fresh, hasToken),
         socket = Nil, timer' = FALSE, changing' # "guest",
         UNCHANGED <<valid, liveSessions, at, mem, stored, writes, lost>>
  PROVE  LinkIInv'
<1>1. near' = [near EXCEPT ![c] = "open"] /\ socket' = c /\ UNCHANGED down
      /\ hello' = [hello EXCEPT ![c] = Login(fresh, hasToken)]
  BY DEF Open
<1>2. \A d \in LinkConn : near[d] = "none"
  BY DEF LinkIInv, SocketOK
<1>3. LinkShape'
  <2>1. Login(fresh, hasToken) \in Messages
    <3>1. "resume" \in Kinds /\ "device" \in Kinds /\ "token" \in Kinds /\ "none" \in Kinds BY DEF Kinds
    <3>2. mem \in Credentials BY DEF LinkIInv, LinkShape
    <3> QED BY <3>1, <3>2, Values DEF Login
  <2> QED BY <1>1, <2>1 DEF LinkIInv, LinkShape
<1>4. SocketOK' BY <1>1, <1>2 DEF SocketOK, LinkIInv, LinkShape
<1>5. Delivered' BY <1>1 DEF LinkIInv, LinkShape, Delivered
<1>6. ComingIsGood' BY <1>1 DEF LinkIInv, ComingIsGood, Rotates
<1>7. LockedOutOnlyByLoss'
  BY <1>1, <1>2 DEF LinkIInv, LockedOutOnlyByLoss
<1> QED BY <1>3, <1>4, <1>5, <1>6, <1>7 DEF LinkIInv

\* The client takes the message that is next, and perhaps its credential.
LEMMA HeardSafe ==
  ASSUME LinkIInv, NEW c \in LinkConn, Current(c), down[c] # << >>, Taken(c),
         near' = near \/ near' = [near EXCEPT ![c] = "ready"],
         UNCHANGED <<valid, liveSessions, at, hello, lost, socket, changing, stored>>,
         timer' = timer \/ timer' = FALSE, writes' \in Seq(Credentials),
         \/ mem' = mem /\ Head(down[c]).kind # "ready"
         \/ mem' = NoCredential
         \/ mem' = Head(down[c]).credential /\ Rotates(Head(down[c]))
  PROVE  LinkIInv'
<1>0. /\ down \in [LinkConn -> Seq(Messages)] /\ down[c] \in Seq(Messages) /\ Head(down[c]) \in Messages
      /\ Head(down[c]) = down[c][1] /\ 1 \in DOMAIN down[c] /\ DOMAIN down[c] = 1..Len(down[c])
      /\ Len(down[c]) \in Nat
  BY DEF LinkIInv, LinkShape
<1>1. /\ down' = [down EXCEPT ![c] = Tail(down[c])]
      /\ \A d \in LinkConn : (near'[d] = "none") <=> (near[d] = "none")
  BY DEF Taken, LinkIInv, LinkShape, Delivered
<1>2. /\ Tail(down[c]) \in Seq(Messages) /\ DOMAIN Tail(down[c]) = 1..(Len(down[c]) - 1)
      /\ \A i \in 1..(Len(down[c]) - 1) : Tail(down[c])[i] = down[c][i + 1]
  BY <1>0
<1>3. LinkShape'
  <2>1. down' \in [LinkConn -> Seq(Messages)] BY <1>0, <1>1, <1>2
  <2>2. mem' \in Credentials BY <1>0, Values DEF LinkIInv, LinkShape, Messages
  <2> QED BY <2>1, <2>2 DEF LinkIInv, LinkShape
<1>4. SocketOK' BY <1>1 DEF SocketOK, LinkIInv
<1>5. Delivered' BY <1>0, <1>1 DEF LinkIInv, Delivered
<1>6. ComingIsGood'
  <2> SUFFICES ASSUME NEW d \in LinkConn, NEW i \in DOMAIN down'[d], Rotates(down'[d][i]),
                      down'[d][i].credential.session \in liveSessions
      PROVE  \/ down'[d][i].credential \in valid \/ down'[d][i].credential.session \in lost
             \/ \E j \in DOMAIN down'[d] : j > i /\ down'[d][j].kind = "ready"
                     /\ down'[d][j].credential.session = down'[d][i].credential.session
    BY DEF ComingIsGood, Rotates
  <2>1. CASE d # c BY <1>0, <1>1, <2>1 DEF LinkIInv, ComingIsGood
  <2>2. CASE d = c
    <3>1. i \in 1..(Len(down[c]) - 1) /\ down'[d] = Tail(down[c]) BY <1>0, <1>1, <1>2, <2>2
    <3>2. i + 1 \in DOMAIN down[c] /\ down'[d][i] = down[c][i + 1] BY <1>0, <1>2, <3>1
    <3>3. \/ down[c][i + 1].credential \in valid \/ down[c][i + 1].credential.session \in lost
          \/ \E j \in DOMAIN down[c] : j > i + 1 /\ down[c][j].kind = "ready"
                /\ down[c][j].credential.session = down[c][i + 1].credential.session
      BY <3>2 DEF LinkIInv, ComingIsGood
    <3>4. ASSUME NEW j \in DOMAIN down[c], j > i + 1
          PROVE  j - 1 \in DOMAIN down'[d] /\ j - 1 > i /\ down'[d][j - 1] = down[c][j]
      BY <1>0, <1>2, <3>1, <3>4
    <3> QED BY <3>2, <3>3, <3>4
  <2> QED BY <2>1, <2>2
<1>7. ASSUME NEW d \in LinkConn, NEW j \in DOMAIN down[d], d = c => j > 1
      PROVE  \E i \in DOMAIN down'[d] : down'[d][i] = down[d][j]
  <2>1. CASE d # c BY <1>0, <1>1, <2>1
  <2>2. CASE d = c
    <3>1. j - 1 \in 1..(Len(down[c]) - 1) /\ Tail(down[c])[j - 1] = down[c][j] BY <1>0, <1>2, <1>7, <2>2
    <3> QED BY <1>0, <1>1, <1>2, <2>2, <3>1
  <2> QED BY <2>1, <2>2
<1>8. LockedOutOnlyByLoss'
  <2> SUFFICES ASSUME mem'.session \in liveSessions
      PROVE  \/ mem' \in valid \/ mem'.session \in lost
             \/ \E d \in LinkConn : near'[d] # "none" /\ mem'.session \in Unheard(d)'
    BY DEF LockedOutOnlyByLoss
  <2>1. CASE mem' = mem /\ Head(down[c]).kind # "ready"
    <3>1. ASSUME NEW d \in LinkConn, near[d] # "none", mem.session \in Unheard(d) PROVE mem.session \in Unheard(d)'
      <4>1. PICK j \in DOMAIN down[d] : down[d][j].kind = "ready" /\ down[d][j].credential.session = mem.session
        BY <3>1, UnheardIs
      <4>2. d = c => j > 1 BY <1>0, <2>1, <4>1
      <4> QED BY <1>7, <4>1, <4>2, UnheardNext
    <3> QED BY <1>1, <2>1, <3>1 DEF LinkIInv, LockedOutOnlyByLoss
  <2>2. CASE mem' = NoCredential BY <2>2, Values DEF LinkIInv, LinkShape
  <2>3. CASE mem' = down[c][1].credential /\ Rotates(down[c][1])
    <3>1. \/ mem' \in valid \/ mem'.session \in lost
          \/ \E j \in DOMAIN down[c] : j > 1 /\ down[c][j].kind = "ready" /\ down[c][j].credential.session = mem'.session
      BY <1>0, <2>3 DEF LinkIInv, ComingIsGood
    <3>2. CASE \E j \in DOMAIN down[c] : j > 1 /\ down[c][j].kind = "ready" /\ down[c][j].credential.session = mem'.session
      <4>1. mem'.session \in Unheard(c)' BY <1>7, <3>2, UnheardNext
      <4>2. near'[c] # "none" BY <1>1 DEF LinkIInv, Delivered
      <4> QED BY <4>1, <4>2
    <3> QED BY <3>1, <3>2
  <2> QED BY <1>0, <2>1, <2>2, <2>3
<1> QED BY <1>3, <1>4, <1>5, <1>6, <1>8 DEF LinkIInv

\* Hearing the oldest message keeps the invariant.
LEMMA HeardStep ==
  ASSUME LinkIInv, NEW c \in LinkConn, Ready(c) \/ ReplaceCredential(c) \/ LoginFails(c)
  PROVE  LinkIInv'
<1>0. /\ writes \in Seq(Credentials) /\ down[c] \in Seq(Messages) /\ down[c] # << >> /\ Current(c) /\ Taken(c)
      /\ \A k \in Credentials : Append(writes, k) \in Seq(Credentials)
  BY DEF Ready, ReplaceCredential, LoginFails, Arrives, LinkIInv, LinkShape
<1>1. Head(down[c]).credential \in Credentials
  <2>1. Head(down[c]) \in Messages BY <1>0
  <2> QED BY <2>1 DEF Messages
<1>2. /\ UNCHANGED <<valid, liveSessions, at, hello, lost, socket, changing, stored>>
      /\ near' = near \/ near' = [near EXCEPT ![c] = "ready"]
      /\ timer' = timer \/ timer' = FALSE
  BY DEF Ready, ReplaceCredential, LoginFails, serverVars, ctlVars
<1>3. CASE mem' = mem /\ writes' = writes /\ Head(down[c]).kind # "ready" BY <1>0, <1>2, <1>3, HeardSafe
<1>4. CASE ClearSession
  <2>1. mem' = NoCredential /\ writes' \in Seq(Credentials) BY <1>0, <1>4, Values DEF ClearSession, Save
  <2> QED BY <1>0, <1>2, <2>1, HeardSafe
<1>5. CASE Save(Head(down[c]).credential) /\ Rotates(Head(down[c]))
  <2>1. mem' = Head(down[c]).credential /\ writes' \in Seq(Credentials) BY <1>0, <1>1, <1>5 DEF Save
  <2> QED BY <1>0, <1>2, <1>5, <2>1, HeardSafe
<1> QED BY <1>3, <1>4, <1>5 DEF Ready, ReplaceCredential, LoginFails, Arrives, Rotates

\* The client closes, is cut off, or begins again from what its host has.
LEMMA ClosedStep ==
  ASSUME LinkIInv,
         \/ \E c \in LinkConn : NearCloses(c) \/ \E mode \in {"guest", "reauthorize"} : AccessChanged(c, mode)
         \/ \E hasDevice \in BOOLEAN : AppRestart(hasDevice)
  PROVE  LinkIInv'
<1>0. /\ down \in [LinkConn -> Seq(Messages)] /\ near \in [LinkConn -> {"none", "open", "ready"}]
      /\ writes \in Seq(Credentials) /\ << >> \in Seq(Messages) /\ << >> \in Seq(Credentials)
  BY DEF LinkIInv, LinkShape
<1>1. ASSUME NEW c \in LinkConn, NearCloses(c) PROVE LinkIInv'
  <2>1. /\ near' = [near EXCEPT ![c] = "none"] /\ down' = [down EXCEPT ![c] = << >>] /\ near[c] # "none"
        /\ lost' = lost \union Unheard(c) /\ UNCHANGED <<valid, liveSessions, at, hello, mem, stored, writes, changing>>
    BY <1>1 DEF NearCloses, serverVars, heldVars, hostVars
  <2>2. socket = c BY <2>1 DEF LinkIInv, SocketOK
  <2>3. socket' = Nil /\ timer' = ~ending BY <1>1, <2>2 DEF NearCloses, Current
  <2>4. LinkShape' BY <1>0, <2>1, <2>3 DEF LinkIInv, LinkShape
  <2>5. SocketOK' /\ Delivered' BY <1>0, <2>1, <2>2, <2>3 DEF LinkIInv, SocketOK, Delivered
  <2>6. ComingIsGood' BY <1>0, <2>1 DEF LinkIInv, ComingIsGood, Rotates
  <2>7. LockedOutOnlyByLoss'
    <3>1. \A d \in LinkConn : \A s : d # c /\ s \in Unheard(d) => s \in Unheard(d)' BY <1>0, <2>1, UnheardIs, UnheardNext
    <3> QED BY <1>0, <2>1, <3>1 DEF LinkIInv, LockedOutOnlyByLoss
  <2> QED BY <2>4, <2>5, <2>6, <2>7 DEF LinkIInv
<1>2. ASSUME NEW c \in LinkConn, NEW mode \in {"guest", "reauthorize"}, AccessChanged(c, mode) PROVE LinkIInv'
  <2>1. /\ near' = [near EXCEPT ![c] = "none"] /\ down' = [down EXCEPT ![c] = << >>]
        /\ UNCHANGED <<valid, liveSessions, at, hello, lost, stored>>
        /\ mem' = NoCredential /\ writes' = Append(writes, NoCredential) /\ socket' = Nil /\ timer' = FALSE
        /\ socket = c
    BY <1>2 DEF AccessChanged, serverVars, ClearSession, Save, Arrives, Current
  <2>2. LinkShape'
    <3>1. mem' \in Credentials /\ writes' \in Seq(Credentials) BY <1>0, <2>1, Values
    <3>2. near' \in [LinkConn -> {"none", "open", "ready"}] /\ down' \in [LinkConn -> Seq(Messages)] BY <1>0, <2>1
    <3> QED BY <2>1, <3>1, <3>2 DEF LinkIInv, LinkShape
  <2>3. SocketOK' /\ Delivered' BY <1>0, <2>1 DEF LinkIInv, SocketOK, Delivered
  <2>4. ComingIsGood' BY <1>0, <2>1 DEF LinkIInv, ComingIsGood, Rotates
  <2>5. LockedOutOnlyByLoss' BY <2>1, Values DEF LinkIInv, LinkShape, LockedOutOnlyByLoss
  <2> QED BY <2>2, <2>3, <2>4, <2>5 DEF LinkIInv
<1>3. ASSUME NEW hasDevice \in BOOLEAN, AppRestart(hasDevice) PROVE LinkIInv'
  <2>1. /\ near' = [c \in LinkConn |-> "none"] /\ down' = [c \in LinkConn |-> << >>]
        /\ mem' = stored /\ writes' = << >> /\ socket' = Nil /\ timer' = FALSE /\ changing' = "none"
        /\ UNCHANGED <<valid, liveSessions, at, hello, stored>>
    BY <1>3 DEF AppRestart, serverVars
  <2>1a. ASSUME stored.session \in liveSessions, stored \notin valid PROVE stored.session \in lost'
    <3>1. PICK U : lost' = lost \union U \union
                     (IF stored.session \in liveSessions /\ stored \notin valid THEN {stored.session} ELSE {})
      BY <1>3 DEF AppRestart
    <3> QED BY <2>1a, <3>1
  <2>2. LinkShape' BY <1>0, <2>1 DEF LinkIInv, LinkShape
  <2>3. SocketOK' /\ Delivered' /\ ComingIsGood' BY <2>1 DEF SocketOK, Delivered, ComingIsGood
  <2>4. LockedOutOnlyByLoss' BY <2>1, <2>1a DEF LockedOutOnlyByLoss
  <2> QED BY <2>2, <2>3, <2>4 DEF LinkIInv
<1> QED BY <1>1, <1>2, <1>3

\* What the client does by itself, without opening a socket.
LEMMA ClientSafe ==
  ASSUME LinkIInv, UNCHANGED <<valid, liveSessions, at, near, down, lost>>,
         mem' = mem \/ mem' = NoCredential, stored' \in Credentials, writes' \in Seq(Credentials),
         hello' \in [LinkConn -> Messages],
         socket' = socket, timer' = FALSE \/ timer' = timer, changing' = changing \/ changing' = "none"
  PROVE  LinkIInv'
<1>1. LinkShape'
  <2>1. mem' \in Credentials BY Values DEF LinkIInv, LinkShape
  <2>2. timer' \in BOOLEAN BY DEF LinkIInv, LinkShape
  <2> QED BY <2>1, <2>2 DEF LinkIInv, LinkShape
<1>2. SocketOK' /\ Delivered' BY DEF LinkIInv, SocketOK, Delivered
<1>3. ComingIsGood' BY DEF LinkIInv, ComingIsGood, Rotates
<1>4. LockedOutOnlyByLoss'
  <2>1. \A d \in LinkConn : \A s : s \in Unheard(d) <=> s \in Unheard(d)' BY UnheardIs, UnheardNext
  <2> QED BY <2>1, Values DEF LinkIInv, LinkShape, LockedOutOnlyByLoss
<1> QED BY <1>1, <1>2, <1>3, <1>4 DEF LinkIInv

\* Every step of the client on its own keeps the invariant.
LEMMA ClientStep ==
  ASSUME LinkIInv,
         \/ \E c \in LinkConn : Connect(c) \/ NetworkAvailable(c) \/ Retry(c) \/ ConfirmExit(c) \/ Forget(c)
         \/ \E c \in LinkConn, confirmed \in BOOLEAN : Cleared(c, confirmed)
         \/ \E done \in BOOLEAN : HostWrites(done)
  PROVE  LinkIInv'
<1>0. /\ writes \in Seq(Credentials) /\ stored \in Credentials /\ hello \in [LinkConn -> Messages]
      /\ Append(writes, NoCredential) \in Seq(Credentials)
  BY Values DEF LinkIInv, LinkShape
<1>1. ASSUME NEW c \in LinkConn, Connect(c) \/ NetworkAvailable(c) PROVE LinkIInv'
  <2>1. /\ socket = Nil /\ timer' = FALSE /\ changing' # "guest" /\ \E fresh, hasToken : Open(c, fresh, hasToken)
        /\ UNCHANGED <<valid, liveSessions, at, mem, stored, writes, lost>>
    BY <1>1 DEF Connect, NetworkAvailable, Superseded, serverVars, heldVars, hostVars
  <2> QED BY <2>1, OpenSafe
<1>2. ASSUME NEW c \in LinkConn, Retry(c) PROVE LinkIInv'
  <2>1. /\ socket = Nil /\ timer' = FALSE /\ changing # "guest" /\ changing' = changing
        /\ UNCHANGED <<valid, liveSessions, at, mem, stored, writes, lost>>
    BY <1>2 DEF Retry, serverVars, heldVars, hostVars, LinkIInv, SocketOK
  <2>2. CASE HasLogin BY <1>2, <2>1, <2>2, OpenSafe DEF Retry
  <2>3. CASE ~HasLogin
    <3>1. UNCHANGED <<near, down, hello, socket>> BY <1>2, <2>3 DEF Retry, linkVars
    <3> QED BY <1>0, <2>1, <3>1, ClientSafe
  <2> QED BY <2>2, <2>3
<1>3. ASSUME NEW c \in LinkConn, NEW confirmed \in BOOLEAN, Cleared(c, confirmed) PROVE LinkIInv'
  <2>1. changing' = "none" /\ UNCHANGED <<valid, liveSessions, at, mem, stored, writes, lost, timer>>
    BY <1>3 DEF Cleared, serverVars, heldVars, hostVars
  <2>2. CASE UNCHANGED <<linkVars, socket>>
    <3>1. UNCHANGED <<near, down, hello, socket>> BY <2>2 DEF linkVars
    <3> QED BY <1>0, <2>1, <3>1, ClientSafe
  <2>3. CASE ~UNCHANGED <<linkVars, socket>>
    <3>1. Open(c, TRUE, token) /\ changing = "guest" BY <1>3, <2>3 DEF Cleared, MayReopen
    <3>2. socket = Nil /\ timer' = FALSE BY <2>1, <3>1 DEF LinkIInv, SocketOK, LinkShape
    <3> QED BY <2>1, <3>1, <3>2, OpenSafe
  <2> QED BY <2>2, <2>3
<1>4. ASSUME NEW c \in LinkConn, ConfirmExit(c) \/ Forget(c) PROVE LinkIInv'
  <2>1. /\ UNCHANGED <<valid, liveSessions, at, near, down, lost, stored, socket, changing>>
        /\ timer' = FALSE \/ timer' = timer
    BY <1>4 DEF ConfirmExit, Forget, serverVars, linkVars
  <2>2. mem' = NoCredential /\ writes' = Append(writes, NoCredential)
    BY <1>4 DEF ConfirmExit, Forget, ClearSession, Save
  <2>3. hello' \in [LinkConn -> Messages]
    <3>1. Message("exit", NoCredential) \in Messages BY Values DEF Kinds
    <3> QED BY <1>0, <1>4, <3>1 DEF ConfirmExit, Forget, linkVars
  <2> QED BY <1>0, <2>1, <2>2, <2>3, ClientSafe
<1>5. ASSUME NEW done \in BOOLEAN, HostWrites(done) PROVE LinkIInv'
  <2>1. /\ UNCHANGED <<valid, liveSessions, at, near, down, lost, mem, hello, socket, timer, changing>>
        /\ writes # << >> /\ writes' = Tail(writes) /\ stored' = IF done THEN Head(writes) ELSE stored
    BY <1>5 DEF HostWrites, serverVars, linkVars, heldVars, ctlVars
  <2>2. writes' \in Seq(Credentials) /\ stored' \in Credentials BY <1>0, <2>1
  <2> QED BY <1>0, <2>1, <2>2, ClientSafe
<1> QED BY <1>1, <1>2, <1>3, <1>4, <1>5

\* Every step of the client, the server and the network keeps the invariant.
LEMMA LinkStep == LinkIInv /\ [LinkNext]_clientVars => LinkIInv'
<1> SUFFICES ASSUME LinkIInv, [LinkNext]_clientVars PROVE LinkIInv' OBVIOUS
<1>1. CASE UNCHANGED clientVars
  <2>1. UNCHANGED <<valid, liveSessions, at, near, hello, down, mem, socket, timer, changing, stored, writes, lost>>
    BY <1>1 DEF clientVars, serverVars, linkVars, heldVars, ctlVars, hostVars
  <2> QED BY <2>1, ClientSafe DEF LinkIInv, LinkShape
<1>2. CASE \E s \in LinkSession : SessionExpires(s)
  <2>1. CASE LinkConn # {} BY <1>2, <2>1, ServerStep
  <2>2. CASE LinkConn = {}
    <3>1. UNCHANGED <<near, hello, down, mem, socket, timer, changing, stored, writes, at>>
      BY <1>2 DEF SessionExpires, linkVars, heldVars, ctlVars, hostVars
    <3>2. PICK S : liveSessions' = liveSessions \ S /\ valid' = {k \in valid : k.session \notin S} /\ lost' = lost \ S
      BY <1>2 DEF SessionExpires, Over
    <3>3. LinkShape' BY <3>1, <3>2 DEF LinkIInv, LinkShape
    <3>4. SocketOK' /\ Delivered' /\ ComingIsGood' BY <2>2, <3>1 DEF LinkIInv, SocketOK, Delivered, ComingIsGood
    <3>5. LockedOutOnlyByLoss' BY <2>2, <3>1, <3>2 DEF LinkIInv, LockedOutOnlyByLoss
    <3> QED BY <3>3, <3>4, <3>5 DEF LinkIInv
  <2> QED BY <2>1, <2>2
<1>3. CASE LinkNext /\ ~\E s \in LinkSession : SessionExpires(s)
  BY <1>3, ServerStep, HeardStep, ClosedStep, ClientStep DEF LinkNext
<1> QED BY <1>1, <1>2, <1>3

\* Every credential that may come to be the one the client holds is good, or the
\* answer of the rotation that replaced it is behind it or lost, at every moment.
THEOREM LinkInductive == LinkSpec => []LinkIInv
BY LinkBegins, LinkStep, PTL DEF LinkSpec

\* The client is locked out of a live session only if the answer of a rotation was
\* lost, for any number of connections, reconnects, changes of session and writes of
\* the client's storage (connection-controller.ts with auth-session.ts).
THEOREM LockedOutOnlyByLossAlways == LinkSpec => []LockedOutOnlyByLoss
BY LinkInductive, PTL DEF LinkIInv

\* The controller holds one socket and lets go of it before it opens another, in
\* whatever order timers, closes and changes of the session come.
THEOREM OneSocketAlways == LinkSpec => []OneSocket
<1>1. LinkIInv => OneSocket BY DEF LinkIInv, SocketOK, OneSocket
<1> QED BY <1>1, LinkInductive, PTL
=============================================================================
