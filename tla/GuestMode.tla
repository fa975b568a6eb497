------------------------------- MODULE GuestMode -------------------------------
(***************************************************************************)
(* Guest mode on one device: guest-unlock.ts, guest-runtime.ts,            *)
(* guest-draft-runtime.ts, guest-dialogue.ts and the table they guard,     *)
(* device_guest_locks, with the access epoch its triggers raise.           *)
(*                                                                         *)
(* A locked device talks to one guest session at a time through one        *)
(* runtime, which the session registry keeps when the connection is gone.  *)
(* A draft is generated while the connection, the session, the lock and    *)
(* the process may all end; the lock is opened by a challenge that one     *)
(* connection asked for and another may have made worthless.               *)
(* How connections take the input lease, and how one without the lease is  *)
(* cut off, is SessionRegistry's subject: a login is one step here.        *)
(***************************************************************************)
EXTENDS Integers, FiniteSets

CONSTANTS
  GuestConn, GuestSession, NoOne,
  MaxDrafts,     \* drafts of one session
  MaxPending     \* challenges of one client beside the caller's own

ASSUME GuestAssumption ==
  /\ NoOne \notin GuestConn \union GuestSession
  /\ {MaxDrafts, MaxPending} \subseteq Nat \ {0}

VARIABLES
  deviceLock, epoch, guestStatus, drafts,           \* the store
  connPhase, entry,                          \* sockets and the controller's connections
  held, runtime, plan, reply,            \* the registry's runtimes and their turns
  challenge                              \* GuestUnlock.pending

guestStore == <<deviceLock, epoch, guestStatus, drafts>>
turnVars  == <<plan, reply>>
guestVars == <<guestStore, connPhase, entry, held, runtime, turnVars, challenge>>

NoRuntime == [made |-> FALSE, open |-> FALSE, epoch |-> 0]
NoReply   == [stage |-> "none", aborted |-> FALSE]
NoEntry   == [mode |-> "none", session |-> NoOne, epoch |-> 0]
NoItem    == [lock |-> NoOne, old |-> FALSE]

GuestInit ==
  /\ deviceLock = NoOne /\ epoch = 0
  /\ guestStatus = [s \in GuestSession |-> "none"] /\ drafts = [s \in GuestSession |-> 0]
  /\ connPhase = [c \in GuestConn |-> "new"] /\ entry = [c \in GuestConn |-> NoEntry]
  /\ held = [s \in GuestSession |-> NoOne] /\ runtime = [s \in GuestSession |-> NoRuntime]
  /\ plan = [s \in GuestSession |-> "none"] /\ reply = [s \in GuestSession |-> NoReply]
  /\ challenge = [c \in GuestConn |-> NoItem]

FreshGuests == {s \in GuestSession : guestStatus[s] = "none"}
Live(s) == s # NoOne /\ guestStatus[s] = "live"
Registered == {c \in GuestConn : entry[c] # NoEntry}
Driving(c, s) == connPhase[c] = "in" /\ held[s] = c

-----------------------------------------------------------------------------
(* Who may.                                                                *)

\* lockedDevicePrincipal: the durable lock wins over whatever a client says
Principal == IF deviceLock = NoOne THEN [mode |-> "owner", session |-> NoOne]
             ELSE [mode |-> "guest", session |-> deviceLock]

\* requireGuestAccess: a guest reaches its own session and no other
RequireGuestAccess(principal, s) == principal.mode = "guest" /\ principal.session = s

\* GuestDraftRuntime.check
DraftAccess(s) ==
  /\ RequireGuestAccess(Principal, s) /\ epoch = runtime[s].epoch /\ Live(s)

\* GuestRuntime.assertAccess, before and after whatever a runtime awaits
AssertAccess(s) == runtime[s].open /\ DraftAccess(s)

\* requireLiveGuest, of every draft operation of the store
RequireLiveGuest(s) == Live(s)
AssertCapacity(s) == drafts[s] < MaxDrafts
HasDraft(s) == drafts[s] > 0     \* readGuestDraft

\* GuestModeController.check
Check(c) ==
  /\ entry[c].epoch = epoch
  /\ Principal = [mode |-> entry[c].mode, session |-> entry[c].session]
  /\ deviceLock # NoOne => Live(deviceLock)

MayCommand(c, mode) == connPhase[c] = "in" /\ entry[c].mode = mode /\ Check(c)

-----------------------------------------------------------------------------
(* Runtimes and connections that end.                                      *)

\* GuestRuntime.close: the lifetime of every turn under way is aborted
CloseRuntimes(S) ==
  /\ plan' = [s \in GuestSession |-> IF s \in S THEN "none" ELSE plan[s]]
  /\ reply' = [s \in GuestSession |-> IF s \in S /\ reply[s] # NoReply
                                   THEN [reply[s] EXCEPT !.aborted = TRUE] ELSE reply[s]]

\* GuestRuntimePool.releaseClient: closed for good, the pool forgets them; the
\* registry does not
ReleaseClient ==
  LET S == {s \in GuestSession : runtime[s].open} IN
  /\ runtime' = [s \in GuestSession |-> [runtime[s] EXCEPT !.open = FALSE]]
  /\ CloseRuntimes(S)

\* GuestModeController.revoke: every connection and challenge of the device,
\* before anything is awaited
Revoke ==
  /\ connPhase' = [c \in GuestConn |-> IF c \in Registered /\ connPhase[c] = "in" THEN "closing" ELSE connPhase[c]]
  /\ entry' = [c \in GuestConn |-> NoEntry]
  /\ challenge' = [c \in GuestConn |-> IF c \in Registered THEN NoItem ELSE challenge[c]]
  /\ held' = [s \in GuestSession |-> IF held[s] \in Registered THEN NoOne ELSE held[s]]
  /\ ReleaseClient

\* dispose, of a runtime the registry drops
Dispose(S, state) ==
  /\ guestStatus' = [s \in GuestSession |-> IF s \in S /\ Live(s) THEN state ELSE guestStatus[s]]
  /\ runtime' = [s \in GuestSession |-> IF s \in S THEN NoRuntime ELSE runtime[s]]
  /\ held' = [s \in GuestSession |-> IF s \in S THEN NoOne ELSE held[s]]
  /\ CloseRuntimes(S)

-----------------------------------------------------------------------------
(* Connections.                                                            *)

LeaseFree(c) == \A d \in GuestConn \ {c} : connPhase[d] # "in"

\* registerAuthenticated, with the principal and the epoch of this moment
RegisterAuthenticated(c, mode, s, e) ==
  entry' = [entry EXCEPT ![c] = [mode |-> mode, session |-> s, epoch |-> e]]

OwnerHello(c) ==
  /\ connPhase[c] = "new" /\ deviceLock = NoOne /\ LeaseFree(c)
  /\ connPhase' = [connPhase EXCEPT ![c] = "in"]
  /\ RegisterAuthenticated(c, "owner", NoOne, epoch)
  /\ UNCHANGED <<guestStore, held, runtime, turnVars, challenge>>

\* guest.enter: the lock first, then everything of the device is cut off
Enter(c, s) ==
  /\ MayCommand(c, "owner") /\ s \in FreshGuests
  /\ deviceLock' = s /\ epoch' = epoch + 1
  /\ guestStatus' = [guestStatus EXCEPT ![s] = "live"]
  /\ Revoke
  /\ UNCHANGED drafts

\* a runtime remembers the epoch it was made in
NewRuntime(e) == [made |-> TRUE, open |-> TRUE, epoch |-> e]

\* acquireAuthenticated: the runtime of the session, made if there is none
Acquire(s, e) == runtime' = [runtime EXCEPT ![s] = IF @.open THEN @ ELSE NewRuntime(e)]

\* attachGuest, the session of the lock is live: a holder of the same device
\* is replaced
GuestHello(c) ==
  LET s == deviceLock IN
  /\ connPhase[c] = "new" /\ Live(s)
  /\ held[s] # NoOne \/ LeaseFree(c)
  /\ held' = [held EXCEPT ![s] = c]
  /\ IF runtime[s].made
     THEN /\ UNCHANGED runtime
          /\ IF AssertAccess(s)    \* setSink
             THEN /\ connPhase' = [d \in GuestConn |-> IF d = c THEN "in"
                                              ELSE IF d = held[s] THEN "closing" ELSE connPhase[d]]
                  /\ RegisterAuthenticated(c, "guest", s, epoch)
             ELSE /\ connPhase' = [connPhase EXCEPT ![c] = "closing"]
                  /\ UNCHANGED entry
     ELSE /\ Acquire(s, epoch)
          /\ connPhase' = [connPhase EXCEPT ![c] = "in"]
          /\ RegisterAuthenticated(c, "guest", s, epoch)
  /\ UNCHANGED <<guestStore, turnVars, challenge>>

\* ensureDeviceGuestSession: the session of the lock is over, or too old and
\* no longer in memory. The device is never without a lock in between
HelloRebinds(c, s) ==
  /\ connPhase[c] = "new" /\ deviceLock # NoOne /\ s \in FreshGuests /\ LeaseFree(c)
  /\ ~Live(deviceLock) \/ ~runtime[deviceLock].made
  /\ deviceLock' = s /\ epoch' = epoch + 1
  /\ guestStatus' = [guestStatus EXCEPT ![s] = "live", ![deviceLock] = "over"]
  /\ Acquire(s, epoch + 1)
  /\ held' = [held EXCEPT ![s] = c]
  /\ connPhase' = [connPhase EXCEPT ![c] = "in"]
  /\ RegisterAuthenticated(c, "guest", s, epoch + 1)
  /\ UNCHANGED <<drafts, turnVars, challenge>>

\* exit.confirm: the session ends, the socket closes when the peer answers
Exit(c, s) ==
  /\ Driving(c, s)
  /\ Dispose({s}, "over")
  /\ connPhase' = [connPhase EXCEPT ![c] = "closing"]
  /\ UNCHANGED <<deviceLock, epoch, drafts, entry, challenge>>

\* the socket is gone: unregister, and registry.detach. The next socket has an
\* id of its own
SocketClosed(c) ==
  /\ connPhase[c] \in {"in", "closing"}
  /\ connPhase' = [connPhase EXCEPT ![c] = "new"]
  /\ entry' = [entry EXCEPT ![c] = NoEntry]
  /\ challenge' = [challenge EXCEPT ![c] = NoItem]
  /\ held' = [s \in GuestSession |-> IF held[s] = c THEN NoOne ELSE held[s]]
  /\ UNCHANGED <<guestStore, runtime, turnVars>>

\* sweepExpired: a detached session past its window
GuestExpires(s) ==
  /\ runtime[s].made /\ held[s] = NoOne
  /\ Dispose({s}, "over")
  /\ UNCHANGED <<deviceLock, epoch, drafts, connPhase, entry, challenge>>

\* sweepInvalid: one connection that no longer may, and all of the device's go
SweepRuntimes ==
  /\ \E c \in Registered : ~Check(c)
  /\ Revoke
  /\ UNCHANGED guestStore

\* The process stops: the store is what is left
ServerRestart ==
  /\ \E c \in GuestConn : connPhase[c] # "new"
  /\ connPhase' = [c \in GuestConn |-> "new"] /\ entry' = [c \in GuestConn |-> NoEntry]
  /\ held' = [s \in GuestSession |-> NoOne] /\ runtime' = [s \in GuestSession |-> NoRuntime]
  /\ plan' = [s \in GuestSession |-> "none"] /\ reply' = [s \in GuestSession |-> NoReply]
  /\ challenge' = [c \in GuestConn |-> NoItem]
  /\ UNCHANGED guestStore

-----------------------------------------------------------------------------
(* A turn: GuestDialogue inside GuestRuntime.                              *)

Drafting == {"document", "revise"}
Kept     == Drafting \union {"review", "cancel"}
Deliveries == {"none", "send"} \union Kept
Asks == {"public", "email", "private"}   \* the widest workflow or action of the plan

\* What the plan of the model comes to: nothing private survives it. An e-mail
\* beside a draft is the draft alone
Action(delivery, asks) ==
  IF asks = "private" \/ (asks = "email" /\ delivery \notin Kept) THEN "denied"
  ELSE IF delivery \in {"none"} \union Kept THEN delivery ELSE "denied"
Actions == {Action(d, a) : d \in Deliveries, a \in Asks}

PlanAsked(c, s) ==
  /\ Driving(c, s) /\ AssertAccess(s) /\ plan[s] = "none"
  /\ plan' = [plan EXCEPT ![s] = "asked"]
  /\ UNCHANGED <<guestStore, connPhase, entry, held, runtime, reply, challenge>>

\* the model has answered; access is asserted once more
PlanArrives(s) ==
  /\ plan[s] = "asked"
  /\ \E d \in Deliveries, a \in Asks :
       plan' = [plan EXCEPT ![s] = IF AssertAccess(s) THEN Action(d, a) ELSE "none"]
  /\ UNCHANGED <<guestStore, connPhase, entry, held, runtime, reply, challenge>>

\* assertGuestDraftCapacity, and a draft to revise: else the guest is told
MayGenerate(s, action) == AssertCapacity(s) /\ (action = "revise" => HasDraft(s))

\* reply, unless an earlier one of this runtime is still settling
ReplyStarts(s) ==
  /\ plan[s] \in Actions
  /\ plan' = [plan EXCEPT ![s] = "none"]
  /\ reply' = [reply EXCEPT ![s] =
       IF @ # NoReply \/ ~AssertAccess(s) THEN @
       ELSE IF plan[s] \in Drafting /\ MayGenerate(s, plan[s])
            THEN [stage |-> "generating", aborted |-> FALSE]
       ELSE IF plan[s] = "none" THEN [stage |-> "speaking", aborted |-> FALSE]
       ELSE NoReply]               \* review, cancel, denied: one sentence
  /\ UNCHANGED <<guestStore, connPhase, entry, held, runtime, challenge>>

SpeechEnds(s) ==
  /\ reply[s].stage = "speaking"
  /\ reply' = [reply EXCEPT ![s] = NoReply]
  /\ UNCHANGED <<guestStore, connPhase, entry, held, runtime, plan, challenge>>

\* Mutant: the result is kept whatever became of the turn meanwhile.
LateResultKept(s) == AssertCapacity(s)

\* After the generation, and in saveGuestDraft
LateResultStands(s) ==
  ~reply[s].aborted /\ DraftAccess(s) /\ RequireLiveGuest(s) /\ AssertCapacity(s)

\* What the generator answers with. normalizeGuestDocument bounds a document
\* and names it itself; nothing else is kept
Results == {"document", "question", "calendar", "malformed", "failure"}
Normalized(result) == result = "document"

\* GuestDraftRuntime.create, once the generator has answered
Generated(s, result) ==
  /\ reply[s].stage = "generating"
  /\ reply' = [reply EXCEPT ![s] = NoReply]
  /\ drafts' = [drafts EXCEPT ![s] = IF Normalized(result) /\ LateResultStands(s) THEN @ + 1 ELSE @]
  /\ UNCHANGED <<deviceLock, epoch, guestStatus, connPhase, entry, held, runtime, plan, challenge>>

\* the guest speaks again or pauses: the signal of the turn is aborted
Interrupt(c, s) ==
  /\ Driving(c, s) /\ (plan[s] # "none" \/ reply[s] # NoReply)
  /\ CloseRuntimes({s})
  /\ UNCHANGED <<guestStore, connPhase, entry, held, runtime, challenge>>

-----------------------------------------------------------------------------
(* GuestUnlock.                                                            *)

\* begin: challenges past the minute are forgotten first
Begin(c) ==
  LET rest == {d \in GuestConn \ {c} : challenge[d] # NoItem /\ ~challenge[d].old} IN
  /\ MayCommand(c, "guest")
  /\ Cardinality(rest) < MaxPending
  /\ challenge' = [d \in GuestConn |-> IF d = c THEN [lock |-> deviceLock, old |-> FALSE]
                                  ELSE IF d \in rest THEN challenge[d] ELSE NoItem]
  /\ UNCHANGED <<guestStore, connPhase, entry, held, runtime, turnVars>>

MinutePasses(c) ==
  /\ challenge[c] # NoItem /\ ~challenge[c].old
  /\ challenge' = [challenge EXCEPT ![c].old = TRUE]
  /\ UNCHANGED <<guestStore, connPhase, entry, held, runtime, turnVars>>

\* Mutant: a challenge is as good after its minute as within it.
AcceptsOld(c) == challenge[c] # NoItem

Accepts(c) == challenge[c] # NoItem /\ ~challenge[c].old

\* releaseDeviceGuestLock: compare and swap on the lock of the challenge; the
\* session ends with it
Confirmed(c) ==
  /\ MayCommand(c, "guest") /\ Accepts(c) /\ challenge[c].lock = deviceLock
  /\ deviceLock' = NoOne /\ epoch' = epoch + 1
  /\ guestStatus' = [guestStatus EXCEPT ![deviceLock] = IF @ = "live" THEN "over" ELSE @]
  /\ Revoke
  /\ UNCHANGED drafts

\* A wrong token, or a challenge that is not good: it is consumed all the same,
\* and the connection closed
UnlockRefused(c) ==
  /\ MayCommand(c, "guest")
  /\ challenge' = [challenge EXCEPT ![c] = NoItem]
  /\ connPhase' = [connPhase EXCEPT ![c] = "closing"]
  /\ UNCHANGED <<guestStore, entry, held, runtime, turnVars>>

-----------------------------------------------------------------------------
GuestNext ==
  \/ \E c \in GuestConn :
       \/ OwnerHello(c) \/ GuestHello(c) \/ SocketClosed(c)
       \/ Begin(c) \/ MinutePasses(c) \/ Confirmed(c) \/ UnlockRefused(c)
  \/ \E c \in GuestConn, s \in GuestSession :
       Enter(c, s) \/ HelloRebinds(c, s) \/ Exit(c, s) \/ PlanAsked(c, s) \/ Interrupt(c, s)
  \/ \E s \in GuestSession :
       \/ GuestExpires(s) \/ PlanArrives(s) \/ ReplyStarts(s) \/ SpeechEnds(s)
  \/ \E s \in GuestSession, result \in Results : Generated(s, result)
  \/ SweepRuntimes \/ ServerRestart

GuestSpec == GuestInit /\ [][GuestNext]_guestVars

-----------------------------------------------------------------------------
(* A draft joins a session only while the device is locked to it, the      *)
(* session is live, its turn was not interrupted, and there is room: what  *)
(* was generated before an unlock, a rebind or an exit is never published  *)
(* after it (GuestDraftRuntime.create, saveGuestDraft).                    *)
DraftsUnderLock ==
  [][\A s \in GuestSession : drafts'[s] # drafts[s] =>
       /\ drafts'[s] = drafts[s] + 1 /\ drafts'[s] <= MaxDrafts
       /\ deviceLock = s /\ guestStatus[s] = "live" /\ runtime[s].open /\ ~reply[s].aborted]_guestVars

(* The lock is opened only by a challenge of the last minute, asked for    *)
(* under this very lock by a connection that still may, and no challenge,  *)
(* runtime or turn of the device outlives it (GuestUnlock.confirm,         *)
(* releaseDeviceGuestLock, revoke).                                        *)
OpenedByFreshChallenge ==
  [][deviceLock # NoOne /\ deviceLock' = NoOne =>
       /\ \E c \in GuestConn : /\ challenge[c] = [lock |-> deviceLock, old |-> FALSE]
                          /\ entry[c] = [mode |-> "guest", session |-> deviceLock, epoch |-> epoch]
       /\ guestStatus'[deviceLock] = "over"
       /\ \A c \in GuestConn : challenge'[c] = NoItem /\ entry'[c] = NoEntry
       /\ \A s \in GuestSession : ~runtime'[s].open /\ (reply'[s] # NoReply => reply'[s].aborted)]_guestVars

(* "reconnects reuse one runtime": the runtime the registry keeps for the  *)
(* session of the lock serves the next connection (GuestRuntimePool).      *)
ReconnectsReuse == Live(deviceLock) /\ runtime[deviceLock].made => AssertAccess(deviceLock)
=============================================================================
