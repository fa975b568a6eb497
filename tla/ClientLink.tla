------------------------------ MODULE ClientLink ------------------------------
(***************************************************************************)
(* One client and its link to the server: ConnectionController with its    *)
(* SessionCredentialStore, and the resume credentials of the store.        *)
(*                                                                         *)
(* The client holds one resume credential in memory and writes it to the   *)
(* storage of its host, one write after another.  A resume consumes every  *)
(* credential of the session and answers with a new one; a connection that *)
(* stays open is given another from time to time, which leaves the older   *)
(* ones good.  Messages are lost with their link, each end learns of that  *)
(* by itself, and the app may be killed at any time.                       *)
(* Here the device credential is good or not: how it is rotated is the     *)
(* subject of DeviceCredentials, and what the registry does that of        *)
(* SessionRegistry.                                                        *)
(***************************************************************************)
EXTENDS Integers, Sequences, FiniteSets, SequencesExt

CONSTANTS
  LinkConn,         \* sockets; one is used again when both ends have forgotten it
  LinkSession,      \* sessions, used again likewise
  Id,           \* ids of resume credentials, used again likewise
  Nil,
  MaxWrites     \* bound on the writes the host has before it

ASSUME LinkAssumption == Nil \notin LinkConn \union LinkSession \union Id /\ MaxWrites \in Nat \ {0}

VARIABLES
  valid, liveSessions, holder, at, deviceGood,     \* the server: credentials, sessions, who holds the lease
  near, far, hello, down,                  \* each socket: both ends, what is on its way
  mem, device, token,                      \* the client's memory
  socket, timer, ending, forceFresh, changing,
  stored, writes,                          \* the host's storage
  lost                                     \* sessions whose last credential never reached the host (history)

serverVars == <<valid, liveSessions, holder, at, deviceGood>>
linkVars   == <<near, far, hello, down>>
heldVars   == <<mem, device, token>>
ctlVars    == <<socket, timer, ending, forceFresh, changing>>
hostVars   == <<stored, writes>>
clientVars == <<serverVars, linkVars, heldVars, ctlVars, hostVars, lost>>

Credential == [id : Id, session : LinkSession]
NoCredential == [id |-> Nil, session |-> Nil]
Silent == [kind |-> "none", credential |-> NoCredential]
Message(kind, credential) == [kind |-> kind, credential |-> credential]

LinkInit ==
  /\ valid = {} /\ liveSessions = {} /\ holder = Nil /\ at = Nil /\ deviceGood = FALSE
  /\ near = [c \in LinkConn |-> "none"] /\ far = [c \in LinkConn |-> "none"]
  /\ hello = [c \in LinkConn |-> Silent] /\ down = [c \in LinkConn |-> << >>]
  /\ mem = NoCredential /\ device = FALSE /\ token = FALSE
  /\ socket = Nil /\ timer = FALSE /\ ending = FALSE /\ forceFresh = FALSE
  /\ changing = "none"
  /\ stored = NoCredential /\ writes = << >>
  /\ lost = {}

\* what some message, memory or file still speaks of
Mentioned ==
  valid \union {mem, stored} \union ToSet(writes) \union {hello[c].credential : c \in LinkConn}
    \union (UNION {{m.credential : m \in ToSet(down[c])} : c \in LinkConn})
FreshIds == Id \ {k.id : k \in Mentioned}
FreshSessions == LinkSession \ (liveSessions \union lost \union {k.session : k \in Mentioned})

-----------------------------------------------------------------------------
(* The credential store of the client.                                     *)

\* save, clearSession: memory at once, the host in its turn
Save(k) == /\ mem' = k
           /\ Len(writes) < MaxWrites
           /\ writes' = Append(writes, k)
ClearSession == Save(NoCredential)

HostWrites(done) ==
  /\ writes # << >>
  /\ writes' = Tail(writes)
  /\ stored' = IF done THEN Head(writes) ELSE stored
  /\ UNCHANGED <<serverVars, linkVars, heldVars, ctlVars, lost>>

-----------------------------------------------------------------------------
(* Sockets of the client.                                                  *)

Current(c) == socket = c
Unused(c) == near[c] = "none" /\ far[c] = "none" /\ hello[c] = Silent
HasLogin == (~forceFresh /\ mem # NoCredential) \/ device \/ token

\* The hello of a socket: the session's credential, else the device's, else the
\* token
Login(fresh, hasToken) ==
  IF ~fresh /\ mem # NoCredential THEN Message("resume", mem)
  ELSE Message(IF device THEN "device" ELSE IF hasToken THEN "token" ELSE "none", NoCredential)

\* open: a socket the client had before is no longer its own
Open(c, fresh, hasToken) ==
  /\ Unused(c)
  /\ near' = [near EXCEPT ![c] = "open"]
  /\ hello' = [hello EXCEPT ![c] = Login(fresh, hasToken)]
  /\ socket' = c
  /\ UNCHANGED <<far, down>>

\* What a change of access has still to do when another socket was opened
\* meanwhile: its generation is over
Superseded == IF changing = "none" THEN "none" ELSE "over"

\* connect, with the token typed in
Connect(c) ==
  /\ socket = Nil
  /\ token' = TRUE /\ timer' = FALSE /\ ending' = FALSE /\ forceFresh' = FALSE
  /\ changing' = Superseded
  /\ Open(c, FALSE, TRUE)
  /\ UNCHANGED <<serverVars, mem, device, hostVars, lost>>

\* resumeIfAvailable, networkAvailable
NetworkAvailable(c) ==
  /\ socket = Nil /\ ~ending /\ HasLogin
  /\ timer' = FALSE /\ changing' = Superseded
  /\ Open(c, forceFresh, token)
  /\ UNCHANGED <<serverVars, heldVars, ending, forceFresh, hostVars, lost>>

\* The retry timer; with no login left the client stays disconnected
Retry(c) ==
  /\ timer /\ timer' = FALSE
  /\ IF HasLogin THEN Open(c, forceFresh, token) ELSE UNCHANGED <<linkVars, socket>>
  /\ UNCHANGED <<serverVars, heldVars, ending, forceFresh, changing, hostVars, lost>>

\* The sessions whose rotation is answered on a socket and not heard
Unheard(c) == {m.credential.session : m \in {x \in ToSet(down[c]) : x.kind = "ready"}}

\* onclose: the current socket's starts the timer (scheduleReconnect), an older
\* one's is not heard
NearCloses(c) ==
  /\ near[c] # "none"
  /\ near' = [near EXCEPT ![c] = "none"] /\ down' = [down EXCEPT ![c] = << >>]
  /\ lost' = lost \union Unheard(c)
  /\ IF Current(c) THEN socket' = Nil /\ timer' = ~ending ELSE UNCHANGED <<socket, timer>>
  /\ UNCHANGED <<serverVars, far, hello, heldVars, ending, forceFresh, changing, hostVars>>

\* The app is killed and opened again: the host's storage is what is left, and
\* of the device credential perhaps nothing
AppRestart(hasDevice) ==
  /\ hasDevice => device
  /\ near' = [c \in LinkConn |-> "none"] /\ down' = [c \in LinkConn |-> << >>]
  /\ mem' = stored /\ writes' = << >> /\ device' = hasDevice /\ token' = FALSE
  /\ socket' = Nil /\ timer' = FALSE /\ ending' = FALSE /\ forceFresh' = FALSE
  /\ changing' = "none"
  /\ lost' = lost \union (UNION {Unheard(c) : c \in LinkConn})
                  \union (IF stored.session \in liveSessions /\ stored \notin valid THEN {stored.session} ELSE {})
  /\ UNCHANGED <<serverVars, far, hello, stored>>

-----------------------------------------------------------------------------
(* The server.                                                             *)

\* A message on its way to the client, or lost if the client has closed
Send(c, m) ==
  /\ down' = [down EXCEPT ![c] = IF near[c] = "none" THEN @ ELSE Append(@, m)]
  /\ lost' = IF near[c] = "none" /\ m.kind = "ready" THEN lost \union {m.credential.session} ELSE lost

Heard(c, kind) == hello[c].kind = kind /\ far[c] = "none"
Consumed(c) == hello' = [hello EXCEPT ![c] = Silent]
OfSession(s) == {k \in valid : k.session = s}

\* attach, and the connection it replaces is terminated
Attach(c, s) ==
  /\ holder' = c /\ at' = s
  /\ far' = [d \in LinkConn |-> IF d = c THEN "in" ELSE IF d = holder THEN "none" ELSE far[d]]

\* rotateResumeCredential: every credential of the session is consumed, and a
\* new one answers. A device credential comes with it
ResumeAccepted(c, id) ==
  LET k == hello[c].credential  new == [id |-> id, session |-> k.session] IN
  /\ Heard(c, "resume") /\ k \in valid /\ k.session \in liveSessions /\ id \in FreshIds
  /\ holder = Nil \/ at = k.session
  /\ valid' = (valid \ OfSession(k.session)) \union {new}
  /\ deviceGood' = TRUE
  /\ Attach(c, k.session) /\ Consumed(c) /\ Send(c, Message("ready", new))
  /\ UNCHANGED <<liveSessions, near, heldVars, ctlVars, hostVars>>

\* a new session, for the device or the token: registerClient,
\* issueResumeCredential, issueDeviceCredential
SessionCreated(c, s, id) ==
  LET new == [id |-> id, session |-> s] IN
  /\ Heard(c, "token") \/ (Heard(c, "device") /\ deviceGood)
  /\ holder = Nil /\ id \in FreshIds /\ s \in FreshSessions
  /\ valid' = valid \union {new} /\ liveSessions' = liveSessions \union {s} /\ deviceGood' = TRUE
  /\ Attach(c, s) /\ Consumed(c) /\ Send(c, Message("ready", new))
  /\ UNCHANGED <<near, heldVars, ctlVars, hostVars>>

\* BUSY: the lease is elsewhere
Busy(c) == /\ holder # Nil
           /\ Heard(c, "token") \/ Heard(c, "device")
              \/ (Heard(c, "resume") /\ hello[c].credential.session \in liveSessions \ {at})

\* SESSION_UNAVAILABLE, DEVICE_CREDENTIAL_INVALID
Refusal(c) ==
  IF Busy(c) THEN "busy"
  ELSE IF Heard(c, "resume") /\ hello[c].credential \notin valid THEN "session"
  ELSE IF Heard(c, "device") /\ ~deviceGood THEN "device" ELSE "none"

HelloRefused(c) ==
  /\ Refusal(c) # "none"
  /\ Send(c, Message(Refusal(c), hello[c].credential)) /\ Consumed(c)
  /\ UNCHANGED <<serverVars, near, far, heldVars, ctlVars, hostVars>>

HelloLost(c) ==
  /\ near[c] = "none" /\ far[c] = "none" /\ hello[c] # Silent
  /\ Consumed(c)
  /\ UNCHANGED <<serverVars, near, far, down, heldVars, ctlVars, hostVars, lost>>

\* Mutant: the refresh revokes what it replaces.
RefreshReplaces(c, id) ==
  LET new == [id |-> id, session |-> at] IN
  /\ holder = c /\ id \in FreshIds
  /\ valid' = (valid \ OfSession(at)) \union {new}
  /\ Send(c, Message("refresh", new))
  /\ UNCHANGED <<liveSessions, holder, at, deviceGood, near, far, hello, heldVars, ctlVars, hostVars>>

\* The refresh timer of a connection: the older credentials stay good
Refresh(c, id) ==
  LET new == [id |-> id, session |-> at] IN
  /\ holder = c /\ id \in FreshIds
  /\ valid' = valid \union {new}
  /\ Send(c, Message("refresh", new))
  /\ UNCHANGED <<liveSessions, holder, at, deviceGood, near, far, hello, heldVars, ctlVars, hostVars>>

\* Sessions that are over, or that this client may no longer have
Over(S) ==
  /\ liveSessions' = liveSessions \ S /\ valid' = {k \in valid : k.session \notin S}
  /\ lost' = lost \ S

Released(c) == /\ holder' = Nil /\ at' = Nil
               /\ far' = [far EXCEPT ![c] = "none"]

\* the server learns that a link is gone
FarCloses(c) ==
  /\ holder = c /\ Released(c)
  /\ hello' = [hello EXCEPT ![c] = Silent]
  /\ UNCHANGED <<valid, liveSessions, deviceGood, near, down, heldVars, ctlVars, hostVars, lost>>

\* a detached session past its window
SessionExpires(s) ==
  /\ s \in liveSessions \ {at} /\ Over({s})
  /\ UNCHANGED <<holder, at, deviceGood, linkVars, heldVars, ctlVars, hostVars>>

\* exit.confirm
Ended(c) ==
  /\ holder = c /\ hello[c].kind = "exit" /\ Over({at}) /\ Released(c) /\ Consumed(c)
  /\ UNCHANGED <<deviceGood, near, down, heldVars, ctlVars, hostVars>>

\* access.changed: the last event of a connection. Entering guest mode takes
\* the session away from this client, leaving it revokes all its credentials
LinkRevoked(c, mode) ==
  LET S == IF mode = "guest" THEN {at} ELSE liveSessions IN
  /\ holder = c /\ Over(S) /\ Released(c)
  /\ deviceGood' = (mode = "guest")
  /\ down' = [down EXCEPT ![c] = IF near[c] = "none" THEN @
                                 ELSE Append(@, Message(mode, NoCredential))]
  /\ hello' = [hello EXCEPT ![c] = Silent]
  /\ UNCHANGED <<near, heldVars, ctlVars, hostVars>>

-----------------------------------------------------------------------------
(* What the client hears.                                                  *)

Arrives(c, kind) == Current(c) /\ down[c] # << >> /\ Head(down[c]).kind = kind
Taken(c) == down' = [down EXCEPT ![c] = Tail(@)]

Ready(c) ==
  /\ Arrives(c, "ready") /\ Taken(c)
  /\ Save(Head(down[c]).credential)
  /\ device' = TRUE /\ forceFresh' = FALSE /\ timer' = FALSE
  /\ near' = [near EXCEPT ![c] = "ready"]
  /\ UNCHANGED <<serverVars, far, hello, token, socket, ending, changing, stored, lost>>

\* replaceCredential: of the session the client is in, or not at all
ReplaceCredential(c) ==
  LET k == Head(down[c]).credential IN
  /\ Arrives(c, "refresh") /\ Taken(c)
  /\ IF mem.session = k.session THEN Save(k) ELSE UNCHANGED <<mem, writes>>
  /\ UNCHANGED <<serverVars, near, far, hello, device, token, ctlVars, stored, lost>>

\* What was refused is forgotten; the close that follows starts the timer
LoginFails(c) ==
  /\ \/ Arrives(c, "session") /\ ClearSession /\ forceFresh' = TRUE /\ UNCHANGED device
     \/ Arrives(c, "device") /\ device' = FALSE /\ forceFresh' = TRUE /\ UNCHANGED <<mem, writes>>
     \/ Arrives(c, "busy") /\ UNCHANGED <<mem, writes, device, forceFresh>>
  /\ Taken(c)
  /\ UNCHANGED <<serverVars, near, far, hello, token, socket, timer, ending, changing, stored, lost>>

\* accessChanged: nothing of the old identity is kept
AccessChanged(c, mode) ==
  /\ Arrives(c, mode) /\ ClearSession
  /\ near' = [near EXCEPT ![c] = "none"] /\ down' = [down EXCEPT ![c] = << >>]
  /\ device' = (device /\ mode = "guest") /\ token' = FALSE
  /\ socket' = Nil /\ timer' = FALSE /\ ending' = TRUE /\ changing' = mode
  /\ UNCHANGED <<serverVars, far, hello, forceFresh, stored, lost>>

\* Mutant: the guest's socket is opened whatever happened meanwhile.
MayReopenAlways == changing \in {"guest", "over"}

MayReopen == changing = "guest"

\* ... and once display and storage are cleared, the guest's socket is opened
Cleared(c, confirmed) ==
  /\ changing # "none" /\ writes = << >> /\ changing' = "none"
  /\ IF confirmed /\ MayReopen
     THEN /\ ending' = FALSE /\ forceFresh' = TRUE
          /\ IF device \/ token THEN Open(c, TRUE, token) ELSE UNCHANGED <<linkVars, socket>>
     ELSE UNCHANGED <<linkVars, socket, ending, forceFresh>>
  /\ UNCHANGED <<serverVars, heldVars, timer, hostVars, lost>>

\* confirmExit, of a client that is connected
ConfirmExit(c) ==
  /\ Current(c) /\ near[c] = "ready" /\ hello[c] = Silent
  /\ ending' = TRUE /\ timer' = FALSE /\ ClearSession
  /\ hello' = [hello EXCEPT ![c] = Message("exit", NoCredential)]
  /\ UNCHANGED <<serverVars, near, far, down, device, token, socket, forceFresh, changing, stored, lost>>

\* forgetResumeCredential
Forget(c) ==
  /\ Current(c) /\ near[c] = "ready" /\ (token \/ device)
  /\ forceFresh' = TRUE /\ ClearSession
  /\ UNCHANGED <<serverVars, linkVars, device, token, socket, timer, ending, changing, stored, lost>>

-----------------------------------------------------------------------------
LinkNext ==
  \/ \E c \in LinkConn :
       \/ Connect(c) \/ NetworkAvailable(c) \/ Retry(c) \/ NearCloses(c)
       \/ HelloRefused(c) \/ HelloLost(c) \/ FarCloses(c) \/ Ended(c)
       \/ Ready(c) \/ ReplaceCredential(c) \/ LoginFails(c) \/ ConfirmExit(c) \/ Forget(c)
  \/ \E c \in LinkConn, mode \in {"guest", "reauthorize"} :
       LinkRevoked(c, mode) \/ AccessChanged(c, mode)
  \/ \E c \in LinkConn, confirmed \in BOOLEAN : Cleared(c, confirmed)
  \/ \E c \in LinkConn, id \in Id :
       ResumeAccepted(c, id) \/ Refresh(c, id) \/ \E s \in LinkSession : SessionCreated(c, s, id)
  \/ \E s \in LinkSession : SessionExpires(s)
  \/ \E done \in BOOLEAN : HostWrites(done) \/ AppRestart(done)

LinkSpec == LinkInit /\ [][LinkNext]_clientVars

-----------------------------------------------------------------------------
(* A client is locked out of a session that still lives only when the      *)
(* answer to its own resume was lost, or the app was killed before the     *)
(* host had it: a refresh that is lost with its link, or comes late, costs *)
(* nothing (issueResumeCredential, rotateResumeCredential).                *)
LockedOutOnlyByLoss ==
  mem.session \in liveSessions =>
    \/ mem \in valid
    \/ mem.session \in lost
    \/ \E c \in LinkConn : near[c] # "none" /\ mem.session \in Unheard(c)

(* The client never keeps two sockets open, and no retry is timed beside   *)
(* the one it has, whatever timers, network events, typed tokens and       *)
(* changes of access meet (generation, cancelRetry).                       *)
OneSocket ==
  /\ {c \in LinkConn : near[c] # "none"} \subseteq {socket}
  /\ ~(timer /\ socket # Nil)

(* "within 15 minutes of the last activity or the disconnect the session   *)
(* is resumed by default": a client that comes back is not refused a       *)
(* session that still lives.                                               *)
ResumedWithinWindow ==
  \A c \in LinkConn : \A m \in ToSet(down[c]) :
    m.kind = "session" => m.credential.session \notin liveSessions
=============================================================================
