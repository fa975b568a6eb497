--------------------------- MODULE SessionRegistry ---------------------------
(***************************************************************************)
(* The logical conversations of the server, the single input lease and the *)
(* sockets that compete for it: session-registry.ts, the socket handlers   *)
(* of conversation-server.ts that call it, guest-mode-controller.ts and    *)
(* the session rows of conversation-store.ts they read and write.          *)
(*                                                                         *)
(* Every registry operation waits in one FIFO queue and runs alone; the    *)
(* socket events that request them, the continuation of a login after its  *)
(* operation, timers and process restarts interleave freely with it.       *)
(*                                                                         *)
(* Time is relative: an age counts clock units since a timestamp and stops *)
(* at Window, where every comparison with the resume window has flipped.   *)
(***************************************************************************)
EXTENDS Naturals, Sequences, FiniteSets

CONSTANTS Session,       \* session ids
          Conn,          \* connection ids, one per socket ever accepted
          Client,        \* client (device) ids
          None,
          Window,        \* options.resumeWindowMs, in clock units
          GuestRuntimes, \* whether the server was given options.guestRuntimes
          TestControls   \* whether options.localTestControls.write is set

ASSUME WindowAssumption == Window \in Nat \ {0}
ASSUME NoneAssumption == None \notin Session \cup Conn \cup Client \cup Nat
ASSUME OptionAssumption == GuestRuntimes \in BOOLEAN /\ TestControls \in BOOLEAN

VARIABLES
  \* The registry: entries, by field, for the sessions in live; its maps.
  live, entryConn, entryClient, age, connections, activeInput, closed,
  queue,       \* pending operations, first one next
  hydration,   \* age of the row the head resume is hydrating from, or None
  sink,        \* whose send function the session's runtime emits to
  \* One handler per socket.
  phase,       \* new, waiting (for its login), ready, closing, closed
  clientOf,    \* client id of its hello
  binding,     \* session of a login that returned and was not consumed yet
  replaces,    \* replacedConnectionId of that binding
  sessOf,      \* the session variable of an authenticated handler
  registered,  \* authenticatedSockets and the controller's connections
  stale,       \* handlers whose access epoch is no longer the device's
  stopping,    \* the server is closing its sockets
  \* SQLite, which survives a restart.
  status, storeAge, guests, lock, creds

registryVars == <<live, entryConn, entryClient, age, connections, activeInput>>
socketVars   == <<phase, clientOf, binding, replaces, sessOf, registered>>
storeVars    == <<status, storeAge, guests, lock, creds>>
vars == <<registryVars, closed, queue, hydration, sink, socketVars, stale, stopping, storeVars>>

OwnerLogins == {"create", "resume"}
Logins      == OwnerLogins \cup {"guest"}
Op == [kind : Logins \cup {"detach"}, conn : Conn, sess : Session \cup {None}]
      \cup [kind : {"end"}, conn : Conn, sess : Session]
      \cup [kind : {"expire"}, conn : {None}, sess : Session]

LiveStatus == {"active", "idle"}
Phases     == {"new", "waiting", "ready", "closing", "closed"}

RegistryTypes ==
  /\ live \subseteq Session
  /\ entryConn \in [Session -> Conn \cup {None}]
  /\ entryClient \in [Session -> Client \cup {None}]
  /\ age \in [Session -> 0..Window]
  /\ connections \in [Conn -> Session \cup {None}]
  /\ activeInput \in Conn \cup {None}
  /\ closed \in BOOLEAN
  /\ queue \in Seq(Op)
  /\ hydration \in 0..Window \cup {None}
  /\ sink \in [Session -> Conn \cup {None}]

SocketTypes ==
  /\ phase \in [Conn -> Phases]
  /\ clientOf \in [Conn -> Client \cup {None}]
  /\ binding \in [Conn -> Session \cup {None}]
  /\ replaces \in [Conn -> Conn \cup {None}]
  /\ sessOf \in [Conn -> Session \cup {None}]
  /\ registered \subseteq Conn
  /\ stale \subseteq Conn
  /\ stopping \in BOOLEAN

StoreTypes ==
  /\ status \in [Session -> LiveStatus \cup {"none", "ended", "expired"}]
  /\ storeAge \in [Session -> 0..Window]
  /\ guests \subseteq Session
  /\ lock \in [Client -> Session \cup {None}]
  /\ creds \subseteq Client \X Session

TypeOK == RegistryTypes /\ SocketTypes /\ StoreTypes

Init ==
  /\ live = {}
  /\ entryConn = [s \in Session |-> None]
  /\ entryClient = [s \in Session |-> None]
  /\ age = [s \in Session |-> 0]
  /\ connections = [c \in Conn |-> None]
  /\ activeInput = None
  /\ closed = FALSE /\ stopping = FALSE
  /\ queue = <<>> /\ hydration = None
  /\ sink = [s \in Session |-> None]
  /\ phase = [c \in Conn |-> "new"]
  /\ clientOf = [c \in Conn |-> None]
  /\ binding = [c \in Conn |-> None]
  /\ replaces = [c \in Conn |-> None]
  /\ sessOf = [c \in Conn |-> None]
  /\ registered = {} /\ stale = {}
  /\ status = [s \in Session |-> "none"]
  /\ storeAge = [s \in Session |-> 0]
  /\ guests = {}
  /\ lock = [k \in Client |-> None]
  /\ creds = {}

-----------------------------------------------------------------------------
(* The store and small helpers.                                            *)

OpOf(kind, c, s) == [kind |-> kind, conn |-> c, sess |-> s]
Enqueue(op) == queue' = Append(queue, op)

Running(kind) == queue # <<>> /\ Head(queue).kind = kind
Dequeue == queue' = Tail(queue) /\ hydration' = None

Fresh == {s \in Session : status[s] = "none"}

\* markSessionAttached: only a live row moves.
Activated(s) == [status EXCEPT ![s] = IF @ \in LiveStatus THEN "active" ELSE @]
\* finishSession for every session of S that is still live.
Finished(S, st) == [s \in Session |-> IF s \in S /\ status[s] \in LiveStatus THEN st ELSE status[s]]
CredsWithout(S) == {p \in creds : p[2] \notin S}

isExpired(s) == age[s] >= Window

\* Mutant: a login does not wait for the lease.
LeaseNotChecked(c) == TRUE
ensureLeaseAvailable(c) == activeInput \in {None, c}

\* A login that fails: the handler answers with an error and closes.
Reject(c) == phase' = [phase EXCEPT ![c] = IF @ = "closed" THEN @ ELSE "closing"]

\* Mutant: the replaced connection keeps its entry of the connections map.
AttachKeepsReplaced(s, c, old) ==
  /\ live' = live \cup {s}
  /\ entryConn' = [entryConn EXCEPT ![s] = c]
  /\ entryClient' = [entryClient EXCEPT ![s] = clientOf[c]]
  /\ age' = [age EXCEPT ![s] = 0]
  /\ connections' = [connections EXCEPT ![c] = s]
  /\ activeInput' = c
  /\ sink' = [sink EXCEPT ![s] = c]
  /\ binding' = [binding EXCEPT ![c] = s]
  /\ replaces' = [replaces EXCEPT ![c] = old]
  /\ storeAge' = [storeAge EXCEPT ![s] = 0]

\* SessionRegistry.attach, and the runtime's replaceEventSink(sink).
attach(s, c, old) ==
  /\ live' = live \cup {s}
  /\ entryConn' = [entryConn EXCEPT ![s] = c]
  /\ entryClient' = [entryClient EXCEPT ![s] = clientOf[c]]
  /\ age' = [age EXCEPT ![s] = 0]
  /\ connections' = [d \in Conn |-> IF d = c THEN s ELSE IF d = old THEN None ELSE connections[d]]
  /\ activeInput' = c
  /\ sink' = [sink EXCEPT ![s] = c]
  /\ binding' = [binding EXCEPT ![c] = s]
  /\ replaces' = [replaces EXCEPT ![c] = old]
  /\ storeAge' = [storeAge EXCEPT ![s] = 0]

\* Entries of S leave the registry; their connections lose the lease.
Drop(S) ==
  /\ live' = live \ S
  /\ entryConn' = [s \in Session |-> IF s \in S THEN None ELSE entryConn[s]]
  /\ entryClient' = [s \in Session |-> IF s \in S THEN None ELSE entryClient[s]]
  /\ age' = [s \in Session |-> IF s \in S THEN 0 ELSE age[s]]
  /\ sink' = [s \in Session |-> IF s \in S THEN None ELSE sink[s]]

\* dispose(reason) of the runtimes of S: expireSession or endSession.
Terminate(S, st) ==
  /\ status' = Finished(S, st)
  /\ creds' = CredsWithout(S)

-----------------------------------------------------------------------------
(* Sockets.                                                                *)

\* A socket that never sends a hello the server admits changes nothing here.
\* The hello of an unlocked device: a master or device credential asks for a
\* new session, a resume credential names the session it continues.
HelloOwner(c, k, kind, s) ==
  /\ phase[c] = "new" /\ ~stopping /\ lock[k] = None
  /\ IF kind = "resume" THEN s \in Session \ guests /\ status[s] # "none" ELSE s = None
  /\ phase' = [phase EXCEPT ![c] = "waiting"]
  /\ clientOf' = [clientOf EXCEPT ![c] = k]
  /\ Enqueue(OpOf(kind, c, s))
  /\ UNCHANGED <<registryVars, closed, hydration, sink, binding, replaces, sessOf,
                 registered, stale, stopping, storeVars>>

\* The hello of a locked device may only ask for the session of its lock.
HelloGuest(c, k) ==
  /\ phase[c] = "new" /\ ~stopping /\ lock[k] # None /\ GuestRuntimes
  /\ phase' = [phase EXCEPT ![c] = "waiting"]
  /\ clientOf' = [clientOf EXCEPT ![c] = k]
  /\ Enqueue(OpOf("guest", c, None))
  /\ UNCHANGED <<registryVars, closed, hydration, sink, binding, replaces, sessOf,
                 registered, stale, stopping, storeVars>>

\* The rest of authenticate once the registry has answered: the resume credential
\* is issued, then the access epoch and a guest's row are checked again. Nothing
\* asks whether the socket closed meanwhile.
Authenticated(c) ==
  /\ binding[c] # None
  /\ creds' = IF status[binding[c]] \in LiveStatus THEN creds \cup {<<clientOf[c], binding[c]>>} ELSE creds
  /\ LET s == binding[c]  old == replaces[c] IN
     IF c \in stale \/ (s \in guests /\ status[s] \notin LiveStatus)
     THEN /\ Reject(c)
          /\ UNCHANGED <<sessOf, registered>>
     ELSE /\ sessOf' = [sessOf EXCEPT ![c] = s]
          /\ registered' = (registered \ {old}) \cup {c}
          /\ phase' = [d \in Conn |->
                IF d = c /\ phase[d] = "waiting" THEN "ready"
                ELSE IF d = old /\ d \in registered /\ phase[d] # "closed" THEN "closing" ELSE phase[d]]
  /\ binding' = [binding EXCEPT ![c] = None]
  /\ replaces' = [replaces EXCEPT ![c] = None]
  /\ UNCHANGED <<registryVars, closed, queue, hydration, sink, clientOf, stale, stopping,
                 status, storeAge, guests, lock>>

\* An authenticated peer misbehaves, is too slow, idles out or asks to close.
StartClose(c) ==
  /\ phase[c] \in {"waiting", "ready"}
  /\ phase' = [phase EXCEPT ![c] = "closing"]
  /\ UNCHANGED <<registryVars, closed, queue, hydration, sink, clientOf, binding, replaces,
                 sessOf, registered, stale, stopping, storeVars>>

\* Mutant: a socket that was not authenticated yet has nothing to detach.
CloseUndetached(c, forced) ==
  /\ phase[c] \in {"waiting", "ready", "closing"}
  /\ forced => TestControls
  /\ phase' = [phase EXCEPT ![c] = "closed"]
  /\ registered' = registered \ {c}
  /\ sessOf' = [sessOf EXCEPT ![c] = None]
  /\ queue' = IF sessOf[c] = None THEN queue
              ELSE Append(queue, OpOf("detach", c, IF forced THEN sessOf[c] ELSE None))
  /\ UNCHANGED <<registryVars, closed, hydration, sink, clientOf, binding, replaces,
                 stale, stopping, storeVars>>

\* The close event: the peer left, or a requested close or terminate is done.
\* With the development control on, the detach may ask for an early expiry.
Close(c, forced) ==
  /\ phase[c] \in {"waiting", "ready", "closing"}
  /\ forced => TestControls
  /\ phase' = [phase EXCEPT ![c] = "closed"]
  /\ registered' = registered \ {c}
  /\ sessOf' = [sessOf EXCEPT ![c] = None]
  /\ Enqueue(OpOf("detach", c, IF forced THEN sessOf[c] ELSE None))
  /\ UNCHANGED <<registryVars, closed, hydration, sink, clientOf, binding, replaces,
                 stale, stopping, storeVars>>

\* A message from a socket whose lease was taken over: close 4001.
MessageWithoutLease(c) ==
  /\ phase[c] = "ready" /\ c \notin stale /\ entryConn[sessOf[c]] # c
  /\ phase' = [phase EXCEPT ![c] = "closing"]
  /\ UNCHANGED <<registryVars, closed, queue, hydration, sink, clientOf, binding, replaces,
                 sessOf, registered, stale, stopping, storeVars>>

\* exit.confirm: the lease is checked now, the session ends when its turn comes.
ExitConfirm(c) ==
  /\ phase[c] = "ready" /\ c \notin stale /\ entryConn[sessOf[c]] = c
  /\ Enqueue(OpOf("end", c, sessOf[c]))
  /\ phase' = [phase EXCEPT ![c] = "closing"]
  /\ UNCHANGED <<registryVars, closed, hydration, sink, clientOf, binding, replaces, sessOf,
                 registered, stale, stopping, storeVars>>

-----------------------------------------------------------------------------
(* Guest mode.                                                             *)

\* Every handler of the client keeps the access epoch of its hello.
HandlersOf(k) == {d \in Conn : clientOf[d] = k}

\* GuestModeController.revoke: every registered connection of the client is
\* cut off before anything is awaited. Detaching one that holds no lease does
\* nothing, so only the holder's operation is queued.
RevokeClient(k) ==
  LET R == registered \cap HandlersOf(k)
      S == {sessOf[d] : d \in R} IN
  /\ registered' = registered \ R
  /\ sink' = [s \in Session |-> IF s \in S THEN None ELSE sink[s]]
  /\ phase' = [d \in Conn |-> IF d \in R /\ phase[d] # "closed" THEN "closing" ELSE phase[d]]
  /\ queue' = IF activeInput \in R THEN Append(queue, OpOf("detach", activeInput, None)) ELSE queue

\* Mutant: a detach also moves a row that is over.
IdledAlways(S) == [s \in Session |-> IF s \in S THEN "idle" ELSE status[s]]

\* markSessionDetached for the rows of S that are still live.
Idled(S)   == [s \in Session |-> IF s \in S /\ status[s] \in LiveStatus THEN "idle" ELSE status[s]]
Touched(S) == [s \in Session |-> IF s \in S /\ status[s] \in LiveStatus THEN 0 ELSE storeAge[s]]

\* The owner runtimes cut off with client k: their sink also marks the row.
OwnedBy(k) == {sessOf[d] : d \in registered \cap HandlersOf(k)} \ guests

\* Mutant: entering guest mode leaves the access epoch as it was.
EnterSameEpoch(c, s) ==
  LET k == clientOf[c]  own == sessOf[c] IN
  /\ GuestRuntimes
  /\ phase[c] = "ready" /\ c \in registered \ stale /\ entryConn[own] = c
  /\ lock[k] = None /\ s \in Fresh
  /\ lock' = [lock EXCEPT ![k] = s]
  /\ guests' = guests \cup {s}
  /\ status' = [Idled(OwnedBy(k)) EXCEPT ![s] = "active"]
  /\ storeAge' = [Touched(OwnedBy(k)) EXCEPT ![s] = 0]
  /\ RevokeClient(k)
  /\ UNCHANGED <<registryVars, closed, hydration, clientOf, binding, replaces, sessOf,
                 stale, stopping, creds>>

\* guest.enter, or the spoken command: the lock and its session are committed
\* first, then the client's connections are revoked.
EnterGuest(c, s) ==
  LET k == clientOf[c]  own == sessOf[c] IN
  /\ GuestRuntimes
  /\ phase[c] = "ready" /\ c \in registered \ stale /\ entryConn[own] = c
  /\ lock[k] = None /\ s \in Fresh
  /\ lock' = [lock EXCEPT ![k] = s]
  /\ guests' = guests \cup {s}
  /\ status' = [Idled(OwnedBy(k)) EXCEPT ![s] = "active"]
  /\ storeAge' = [Touched(OwnedBy(k)) EXCEPT ![s] = 0]
  /\ stale' = stale \cup HandlersOf(k)
  /\ RevokeClient(k)
  /\ UNCHANGED <<registryVars, closed, hydration, clientOf, binding, replaces, sessOf,
                 stopping, creds>>

\* guest.unlock.confirm with the owner's token: releaseDeviceGuestLock ends the
\* guest session and revokes the client's credentials.
Unlock(c) ==
  LET k == clientOf[c]  own == sessOf[c] IN
  /\ phase[c] = "ready" /\ c \in registered \ stale /\ entryConn[own] = c
  /\ lock[k] = own
  /\ lock' = [lock EXCEPT ![k] = None]
  /\ status' = [Idled(OwnedBy(k)) EXCEPT ![own] = Finished({own}, "ended")[own]]
  /\ storeAge' = Touched(OwnedBy(k))
  /\ creds' = {p \in creds : p[1] # k /\ p[2] # own}
  /\ stale' = stale \cup HandlersOf(k)
  /\ RevokeClient(k)
  /\ UNCHANGED <<registryVars, closed, hydration, clientOf, binding, replaces, sessOf,
                 stopping, guests>>

Invalid(c) == c \in stale \/ (sessOf[c] \in guests /\ status[sessOf[c]] \notin LiveStatus)

\* The access sweep of an authenticated handler whose access changed: it cuts
\* its runtime's sink off, whoever the sink belongs to, and asks to be detached.
AccessRevoked(c) ==
  LET s == sessOf[c] IN
  /\ phase[c] = "ready" /\ Invalid(c)
  /\ sink' = [sink EXCEPT ![s] = None]
  /\ status' = Idled({s})
  /\ storeAge' = Touched({s})
  /\ Enqueue(OpOf("detach", c, None))
  /\ phase' = [phase EXCEPT ![c] = "closing"]
  /\ UNCHANGED <<registryVars, closed, hydration, clientOf, binding, replaces, sessOf,
                 registered, stale, stopping, guests, lock, creds>>

\* GuestModeController.sweepInvalid: one registered connection that is no
\* longer valid revokes all of its client's.
SweepInvalid(k) ==
  /\ GuestRuntimes
  /\ \E d \in registered \cap HandlersOf(k) : Invalid(d)
  /\ RevokeClient(k)
  /\ status' = Idled(OwnedBy(k))
  /\ storeAge' = Touched(OwnedBy(k))
  /\ UNCHANGED <<registryVars, closed, hydration, clientOf, binding, replaces, sessOf,
                 stale, stopping, guests, lock, creds>>

-----------------------------------------------------------------------------
(* Registry operations, each run whole when it is first in the queue.      *)

\* A login the registry refuses without changing an entry.
LoginRefused(c) ==
  /\ Dequeue
  /\ Reject(c)
  /\ UNCHANGED <<registryVars, closed, sink, clientOf, binding, replaces, sessOf,
                 registered, stale, stopping, storeVars>>

\* authorize() may always refuse: a credential that is wrong, used or expired.
CreateRefused ==
  /\ Running("create")
  /\ LoginRefused(Head(queue).conn)

Create(s) ==
  LET c == Head(queue).conn IN
  /\ Running("create") /\ ~closed /\ ensureLeaseAvailable(c) /\ c \notin stale
  /\ s \in Fresh \ live
  /\ attach(s, c, None)
  /\ status' = [status EXCEPT ![s] = "active"]
  /\ Dequeue
  /\ UNCHANGED <<closed, phase, clientOf, sessOf, registered, stale, stopping,
                 guests, lock, creds>>

\* The head resume and its session, before hydration or with an entry to use.
Resuming(c, s) == Running("resume") /\ c = Head(queue).conn /\ s = Head(queue).sess
Admitted(c, s) == ~closed /\ (hydration # None \/ c \notin stale)

ResumeRefusedBeforeLookup(c, s) ==
  /\ Resuming(c, s) /\ hydration = None
  /\ closed \/ c \in stale \/ (s \notin live /\ status[s] \notin LiveStatus)
  /\ LoginRefused(c)

\* Mutant: a row that is over is hydrated as well.
HydrateAnyRow(c, s) ==
  /\ Resuming(c, s) /\ hydration = None /\ Admitted(c, s)
  /\ s \notin live /\ status[s] # "none"
  /\ hydration' = storeAge[s]
  /\ UNCHANGED <<registryVars, closed, queue, sink, socketVars, stale, stopping, storeVars>>

\* options.hydrate reads the row, then rebuilds the runtime; recovering a draft
\* may wait for the calendar provider while sockets and timers carry on.
BeginHydrate(c, s) ==
  /\ Resuming(c, s) /\ hydration = None /\ Admitted(c, s)
  /\ s \notin live /\ status[s] \in LiveStatus
  /\ hydration' = storeAge[s]
  /\ UNCHANGED <<registryVars, closed, queue, sink, socketVars, stale, stopping, storeVars>>

HydrateFailed(c, s) ==
  /\ Resuming(c, s) /\ hydration # None
  /\ LoginRefused(c)

HydratedTooLate(c, s) ==
  /\ Resuming(c, s) /\ hydration # None /\ hydration >= Window
  /\ Terminate({s}, "expired")
  /\ Dequeue /\ Reject(c)
  /\ UNCHANGED <<registryVars, closed, sink, clientOf, binding, replaces, sessOf,
                 registered, stale, stopping, storeAge, guests, lock>>

\* The entry of s is in the map, or hydration is about to put it there.
Found(s) == s \in live \/ (hydration # None /\ hydration < Window)
EntryAge(s) == IF s \in live THEN age[s] ELSE hydration
HeldByOther(c, s) == entryConn[s] \notin {None, c}
mayTakeOver(c, s) == entryClient[s] = clientOf[c] /\ activeInput = entryConn[s]
Authorized(c, s) == <<clientOf[c], s>> \in creds

\* Refused by the lease or by authorize(); a hydrated entry stays, detached.
ResumeRefused(c, s) ==
  /\ Resuming(c, s) /\ Admitted(c, s) /\ Found(s)
  /\ HeldByOther(c, s) \/ ~ensureLeaseAvailable(c) \/ EntryAge(s) < Window
  /\ live' = live \cup {s}
  /\ age' = [age EXCEPT ![s] = EntryAge(s)]
  /\ Dequeue /\ Reject(c)
  /\ UNCHANGED <<entryConn, entryClient, connections, activeInput, closed, sink, clientOf,
                 binding, replaces, sessOf, registered, stale, stopping, storeVars>>

\* Too late: the entry is expired on the spot.
ResumeExpired(c, s) ==
  /\ Resuming(c, s) /\ Admitted(c, s) /\ s \in live
  /\ ~HeldByOther(c, s) /\ ensureLeaseAvailable(c) /\ isExpired(s)
  /\ Drop({s})
  /\ Terminate({s}, "expired")
  /\ Dequeue /\ Reject(c)
  /\ UNCHANGED <<connections, activeInput, closed, clientOf, binding, replaces, sessOf,
                 registered, stale, stopping, storeAge, guests, lock>>

ResumeDetached(c, s) ==
  /\ Resuming(c, s) /\ Admitted(c, s) /\ Found(s)
  /\ entryConn[s] = None /\ ensureLeaseAvailable(c) /\ EntryAge(s) < Window
  /\ Authorized(c, s)
  /\ attach(s, c, None)
  /\ status' = Activated(s)
  /\ Dequeue
  /\ UNCHANGED <<closed, phase, clientOf, sessOf, registered, stale, stopping,
                 guests, lock, creds>>

\* A valid credential of the same client moves the lease to the new socket.
TakeOver(c, s) ==
  /\ Resuming(c, s) /\ Admitted(c, s) /\ s \in live
  /\ HeldByOther(c, s) /\ mayTakeOver(c, s) /\ Authorized(c, s)
  /\ attach(s, c, entryConn[s])
  /\ status' = Activated(s)
  /\ Dequeue
  /\ UNCHANGED <<closed, phase, clientOf, sessOf, registered, stale, stopping,
                 guests, lock, creds>>

\* attachGuest. Selection rebinds the lock first when its session is over, or
\* is past the window and no longer in memory.
Selecting(c, k) == Running("guest") /\ c = Head(queue).conn /\ k = clientOf[c]
                   /\ ~closed /\ c \notin stale
MustRebind(s) == status[s] \notin LiveStatus \/ (s \notin live /\ storeAge[s] >= Window)

GuestRefused ==
  LET c == Head(queue).conn IN
  /\ Running("guest")
  /\ closed \/ c \in stale \/ (lock[clientOf[c]] # None /\ MustRebind(lock[clientOf[c]]) /\ Fresh = {})
  /\ LoginRefused(c)

\* ensureDeviceGuestSession: a new session, hence a new epoch for the others.
GuestRebind(c, k, s) ==
  /\ Selecting(c, k) /\ MustRebind(lock[k]) /\ s \in Fresh
  /\ lock' = [lock EXCEPT ![k] = s]
  /\ guests' = guests \cup {s}
  /\ status' = [Finished({lock[k]}, "expired") EXCEPT ![s] = "active"]
  /\ creds' = CredsWithout({lock[k]})
  /\ storeAge' = [storeAge EXCEPT ![s] = 0]
  /\ stale' = stale \cup (HandlersOf(k) \ {c})
  /\ UNCHANGED <<registryVars, closed, queue, hydration, sink, socketVars, stopping>>

\* Past the window in memory: expired here, and selection runs again.
GuestExpired(c, k, s) ==
  /\ Selecting(c, k) /\ s = lock[k] /\ ~MustRebind(s) /\ s \in live
  /\ entryConn[s] = None /\ ensureLeaseAvailable(c) /\ isExpired(s)
  /\ Drop({s})
  /\ Terminate({s}, "expired")
  /\ UNCHANGED <<connections, activeInput, closed, queue, hydration, socketVars, stale,
                 stopping, storeAge, guests, lock>>

GuestBusy(c, k, s) ==
  /\ Selecting(c, k) /\ s = lock[k] /\ ~MustRebind(s)
  /\ IF HeldByOther(c, s) THEN ~mayTakeOver(c, s) ELSE ~ensureLeaseAvailable(c)
  /\ LoginRefused(c)

GuestAttached(c, k, s) ==
  /\ Selecting(c, k) /\ s = lock[k] /\ ~MustRebind(s)
  /\ IF HeldByOther(c, s) THEN mayTakeOver(c, s)
     ELSE ensureLeaseAvailable(c) /\ (s \in live => ~isExpired(s))
  /\ attach(s, c, entryConn[s])
  /\ status' = Activated(s)
  /\ Dequeue
  /\ UNCHANGED <<closed, phase, clientOf, sessOf, registered, stale, stopping,
                 guests, lock, creds>>

\* The socket of c is gone or revoked. With the development control the
\* session it served is then expired by an operation of its own.
Detach(c) ==
  LET s == connections[c]  forced == Head(queue).sess IN
  /\ Running("detach") /\ c = Head(queue).conn
  /\ connections' = [connections EXCEPT ![c] = None]
  /\ activeInput' = IF activeInput = c THEN None ELSE activeInput
  /\ IF s # None /\ entryConn[s] = c
     THEN /\ entryConn' = [entryConn EXCEPT ![s] = None]
          /\ age' = [age EXCEPT ![s] = 0]
          /\ sink' = [sink EXCEPT ![s] = None]
          /\ status' = Idled({s})
          /\ storeAge' = Touched({s})
     ELSE UNCHANGED <<entryConn, age, sink, status, storeAge>>
  /\ queue' = IF forced = None THEN Tail(queue)
              ELSE Append(Tail(queue), OpOf("expire", None, forced))
  /\ hydration' = None
  /\ UNCHANGED <<live, entryClient, closed, socketVars, stale, stopping, guests, lock, creds>>

\* expireDetached: refused while the session is attached.
ForcedExpiry(s) ==
  /\ Running("expire") /\ s = Head(queue).sess
  /\ IF s \in live /\ entryConn[s] = None
     THEN Drop({s}) /\ Terminate({s}, "expired")
     ELSE UNCHANGED <<live, entryConn, entryClient, age, sink, status, creds>>
  /\ Dequeue
  /\ UNCHANGED <<connections, activeInput, closed, socketVars, stale, stopping, storeAge,
                 guests, lock>>

\* end: whoever is attached to s when its turn comes loses the lease.
End(s) ==
  /\ Running("end") /\ s = Head(queue).sess
  /\ IF s \in live
     THEN /\ Drop({s})
          /\ connections' = [c \in Conn |-> IF c = entryConn[s] THEN None ELSE connections[c]]
          /\ activeInput' = IF activeInput = entryConn[s] THEN None ELSE activeInput
          /\ Terminate({s}, "ended")
     ELSE UNCHANGED <<registryVars, sink, status, creds>>
  /\ Dequeue
  /\ UNCHANGED <<closed, socketVars, stale, stopping, storeAge, guests, lock>>

\* Mutant: only entries that some client was attached to are swept.
SweepSkipsHydrated ==
  LET S == {s \in live : entryConn[s] = None /\ isExpired(s) /\ entryClient[s] # None} IN
  /\ hydration = None /\ S # {}
  /\ Drop(S)
  /\ Terminate(S, "expired")
  /\ UNCHANGED <<connections, activeInput, closed, queue, hydration, socketVars, stale, stopping,
                 storeAge, guests, lock>>

\* Every 30 seconds. It carries nothing from the moment it was queued, so it
\* may run between any two operations.
sweepExpired ==
  LET S == {s \in live : entryConn[s] = None /\ isExpired(s)} IN
  /\ hydration = None /\ S # {}
  /\ Drop(S)
  /\ Terminate(S, "expired")
  /\ UNCHANGED <<connections, activeInput, closed, queue, hydration, socketVars, stale, stopping,
                 storeAge, guests, lock>>

\* The server's close waits for every socket before it queues the shutdown, so
\* nothing is queued behind it. Every runtime is disposed; its row stays
\* resumable from this moment on.
Shutdown ==
  /\ stopping /\ ~closed /\ queue = <<>>
  /\ \A c \in Conn : phase[c] \in {"new", "closed"}
  /\ closed' = TRUE
  /\ Drop(live)
  /\ connections' = [c \in Conn |-> None]
  /\ activeInput' = None
  /\ status' = Idled(live)
  /\ storeAge' = Touched(live)
  /\ UNCHANGED <<queue, hydration, socketVars, stale, stopping, guests, lock, creds>>

-----------------------------------------------------------------------------
(* Timers, background writes, the end of the process.                      *)

Older(a) == IF a < Window THEN a + 1 ELSE a

Tick ==
  /\ age' = [s \in Session |-> IF s \in live /\ entryConn[s] = None THEN Older(age[s]) ELSE age[s]]
  /\ storeAge' = [s \in Session |-> IF status[s] \in LiveStatus THEN Older(storeAge[s]) ELSE storeAge[s]]
  /\ hydration' = IF hydration = None THEN None ELSE Older(hydration)
  /\ UNCHANGED <<live, entryConn, entryClient, connections, activeInput, closed, queue, sink,
                 socketVars, stale, stopping, status, guests, lock, creds>>

\* A detached turn commits its answer, or a summary of s completes: the row's
\* updated_at moves without any connection. A committed user turn of a runtime
\* also makes the row active.
BackgroundWrite(s, st) ==
  /\ status[s] \in LiveStatus
  /\ st = status[s] \/ (st = "active" /\ s \in live)
  /\ status' = [status EXCEPT ![s] = st]
  /\ storeAge' = [storeAge EXCEPT ![s] = 0]
  /\ UNCHANGED <<registryVars, closed, queue, hydration, sink, socketVars, stale, stopping,
                 guests, lock, creds>>

\* The server's close: sockets are terminated, then the registry shuts down.
Stop ==
  /\ ~stopping
  /\ stopping' = TRUE
  /\ phase' = [c \in Conn |-> IF phase[c] \in {"new", "closed"} THEN phase[c] ELSE "closing"]
  /\ UNCHANGED <<registryVars, closed, queue, hydration, sink, clientOf, binding, replaces,
                 sessOf, registered, stale, storeVars>>

\* The process dies, at any moment, and starts again: memory is gone, the
\* store's recovery leaves no row active and dates the ones it moves now.
Restart ==
  /\ live' = {} /\ connections' = [c \in Conn |-> None] /\ activeInput' = None
  /\ entryConn' = [s \in Session |-> None] /\ entryClient' = [s \in Session |-> None]
  /\ age' = [s \in Session |-> 0] /\ sink' = [s \in Session |-> None]
  /\ closed' = FALSE /\ stopping' = FALSE /\ queue' = <<>> /\ hydration' = None
  /\ phase' = [c \in Conn |-> IF phase[c] = "new" THEN "new" ELSE "closed"]
  /\ clientOf' = [c \in Conn |-> None] /\ sessOf' = [c \in Conn |-> None]
  /\ binding' = [c \in Conn |-> None] /\ replaces' = [c \in Conn |-> None]
  /\ registered' = {} /\ stale' = {}
  /\ status' = [s \in Session |-> IF status[s] = "active" THEN "idle" ELSE status[s]]
  /\ storeAge' = [s \in Session |-> IF status[s] = "active" THEN 0 ELSE storeAge[s]]
  /\ UNCHANGED <<guests, lock, creds>>

RunQueue ==
  \/ CreateRefused \/ \E s \in Session : Create(s)
  \/ \E c \in Conn, s \in Session :
       \/ ResumeRefusedBeforeLookup(c, s) \/ BeginHydrate(c, s)
       \/ HydrateFailed(c, s) \/ HydratedTooLate(c, s)
       \/ ResumeRefused(c, s) \/ ResumeExpired(c, s)
       \/ ResumeDetached(c, s) \/ TakeOver(c, s)
  \/ GuestRefused
  \/ \E c \in Conn, k \in Client, s \in Session :
       \/ GuestRebind(c, k, s) \/ GuestExpired(c, k, s)
       \/ GuestBusy(c, k, s) \/ GuestAttached(c, k, s)
  \/ \E c \in Conn : Detach(c)
  \/ \E s \in Session : ForcedExpiry(s) \/ End(s)

Sockets ==
  \/ \E c \in Conn : Authenticated(c) \/ StartClose(c) \/ MessageWithoutLease(c)
                     \/ ExitConfirm(c) \/ AccessRevoked(c) \/ Unlock(c)
  \/ \E c \in Conn, k \in Client :
       \/ HelloGuest(c, k)
       \/ \E kind \in OwnerLogins, s \in Session \cup {None} : HelloOwner(c, k, kind, s)
  \/ \E c \in Conn, forced \in BOOLEAN : Close(c, forced)
  \/ \E c \in Conn, s \in Session : EnterGuest(c, s)
  \/ \E k \in Client : SweepInvalid(k)

Background ==
  \/ sweepExpired \/ Stop \/ Shutdown \/ Restart
  \/ \E s \in Session, st \in LiveStatus : BackgroundWrite(s, st)

Next == RunQueue \/ Sockets \/ Background \/ Tick

Spec == Init /\ [][Next]_vars

\* The event loop drains the queue and the microtasks, the transport reports a
\* close it was asked for, the interval timer and the clock go on. Nothing
\* obliges a peer, a message, a stop or a crash to come.
Fairness ==
  /\ WF_vars(RunQueue) /\ WF_vars(sweepExpired) /\ WF_vars(Tick) /\ WF_vars(Shutdown)
  /\ \A c \in Conn : /\ WF_vars(Authenticated(c))
                     /\ WF_vars(phase[c] = "closing" /\ Close(c, FALSE))

FairSpec == Spec /\ Fairness

-----------------------------------------------------------------------------
(* Properties.                                                             *)

\* The three views of the input lease agree: activeInputConnection, the
\* connections map and the entries name the same connection and session, so no
\* interleaving of logins, closes and takeovers leaves two attached entries.
LeaseInv ==
  /\ \A s \in Session : entryConn[s] # None =>
        s \in live /\ activeInput = entryConn[s] /\ connections[entryConn[s]] = s
  /\ \A c \in Conn : connections[c] # None => entryConn[connections[c]] = c
  /\ activeInput # None => connections[activeInput] # None

\* A handler asks for one login in its life and drops the lease only by detach
\* or end, so a queued login is the only one of its connection and that
\* connection holds nothing yet. LeaseInv depends on it: ensureLeaseAvailable
\* lets the holder itself through.
QueueInv ==
  /\ \A i \in 1..Len(queue) : queue[i].kind \in Logins =>
        /\ connections[queue[i].conn] = None
        /\ phase[queue[i].conn] # "new" /\ clientOf[queue[i].conn] # None
  /\ \A i, j \in 1..Len(queue) :
        queue[i].kind \in Logins /\ queue[j].kind \in Logins /\ queue[i].conn = queue[j].conn => i = j

HandlerInv ==
  \A c \in Conn : /\ phase[c] = "ready" => sessOf[c] # None
                  /\ binding[c] # None => clientOf[c] # None
                  /\ connections[c] # None \/ binding[c] # None => phase[c] # "new"

\* Conversation events reach at most the connection that holds the lease.
SinkInv == \A s \in Session : sink[s] # None => s \in live /\ sink[s] = entryConn[s]

\* At most one connection drives a conversation, the registry's records of it
\* agree, and the conversation speaks to that connection or to nobody: over
\* takeovers, detaches that come late, expiries, stops and crashes.
LeaseHeld == LeaseInv /\ SinkInv

\* A lease held by a socket that is gone is on its way back: the detach of that
\* socket is queued behind whatever gave it the lease.
DeadHolderIsDetaching ==
  \A s \in Session : entryConn[s] # None /\ phase[entryConn[s]] = "closed" =>
    \E i \in DOMAIN queue : queue[i].kind = "detach" /\ queue[i].conn = entryConn[s]

\* An owner conversation in memory is never over in the store; whoever may
\* continue it is the client whose credential it carries.
EntryMatchesRow ==
  \A s \in live : /\ s \notin guests => status[s] \in LiveStatus
                  /\ sink[s] # None /\ s \notin guests => status[s] = "active"
                  /\ \A p \in creds : p[2] = s => entryClient[s] \in {p[1], None}

\* What the registry, the queue and the rows say of one conversation agrees,
\* between any two steps of logins, closes, expiries, stops and crashes.
RegistryAgrees == TypeOK /\ QueueInv /\ DeadHolderIsDetaching /\ EntryMatchesRow

\* A ready, valid handler that holds the lease does receive its events: no
\* sweep of another handler of the client silences it.
HolderHears ==
  \A c \in Conn : phase[c] = "ready" /\ ~Invalid(c) /\ entryConn[sessOf[c]] = c => sink[sessOf[c]] = c

\* A locked device drives its guest session or nothing.
GuestOnly ==
  \A c \in registered : c \notin stale /\ lock[clientOf[c]] # None => sessOf[c] = lock[clientOf[c]]

\* A change of the access mode leaves every handler in the mode its lock says,
\* and cuts nobody off from the conversation he holds.
AccessAgrees == HolderHears /\ GuestOnly

\* An ended or expired session is not reopened by any later step, a restart, a
\* late detach or a shutdown included.
OverForGood ==
  [][\A s \in Session : status[s] \in {"ended", "expired"} =>
       status'[s] = status[s] /\ (entryConn[s] = None => entryConn'[s] = None)]_vars

\* While the process lives, a detached conversation is resumed or expires.
DetachedSettles ==
  \A s \in Session : (s \in live /\ entryConn[s] = None) ~> (s \notin live \/ entryConn[s] # None)

\* The promise of the registry, over the sockets it serves.
Lease == INSTANCE InputLease WITH
  holder <- activeInput,
  session <- IF activeInput = None THEN None ELSE connections[activeInput],
  dead <- {c \in Conn : phase[c] = "closed"}
LeaseSpec == Lease!Spec

\* What the documentation says of the registrations: a disconnection revokes
\* them (docs/PERSONAL_INTELLIGENCE_SPEC.md).
DisconnectUnregisters == \A c \in registered : phase[c] # "closed"
=============================================================================
