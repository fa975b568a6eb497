----------------------- MODULE SessionRegistryProofs -----------------------
(***************************************************************************)
(* Proofs about SessionRegistry for every set of sessions, sockets and     *)
(* devices and every window. The lease is safe because of what the queue   *)
(* may contain (QueueInv): ensureLeaseAvailable lets the holder itself     *)
(* through, so LeaseInv alone is not inductive.  The registry implements   *)
(* the abstract lease of InputLease.                                       *)
(***************************************************************************)
EXTENDS SessionRegistry, TLAPS

USE WindowAssumption, NoneAssumption, OptionAssumption

IInv == TypeOK /\ LeaseInv /\ SinkInv /\ QueueInv /\ HandlerInv

-----------------------------------------------------------------------------
(* The queue.                                                              *)

\* What serial finds when its tail comes to run the next operation.
LEMMA QueueHead ==
  ASSUME queue \in Seq(Op), queue # <<>>
  PROVE  /\ Head(queue) \in Op /\ Tail(queue) \in Seq(Op) /\ Head(queue) = queue[1]
         /\ Len(queue) >= 1 /\ Len(Tail(queue)) = Len(queue) - 1
         /\ \A i \in 1..Len(Tail(queue)) : i+1 \in 1..Len(queue) /\ Tail(queue)[i] = queue[i+1]
  OBVIOUS

\* What serial leaves when an operation is queued.
LEMMA QueueAppend ==
  ASSUME queue \in Seq(Op), NEW op \in Op
  PROVE  /\ Append(queue, op) \in Seq(Op) /\ Len(Append(queue, op)) = Len(queue) + 1
         /\ \A i \in 1..Len(queue) : Append(queue, op)[i] = queue[i]
         /\ Append(queue, op)[Len(queue)+1] = op
  OBVIOUS

\* A running login names a connection and maybe a session.
LEMMA LoginHead ==
  ASSUME TypeOK, NEW kind \in Logins, Running(kind)
  PROVE  /\ Head(queue).conn \in Conn /\ Head(queue).sess \in Session \cup {None}
         /\ Tail(queue) \in Seq(Op)
<1>1. Head(queue) \in Op /\ Tail(queue) \in Seq(Op) /\ Head(queue).kind = kind
  BY QueueHead DEF TypeOK, RegistryTypes, Running
<1> QED BY <1>1 DEF Op, Logins, OwnerLogins

\* A login names its connection and the session it asks for.
LEMMA LoginOp ==
  ASSUME TypeOK
  PROVE  \A i \in 1..Len(queue) : queue[i].kind \in Logins => queue[i].conn \in Conn
<1> SUFFICES ASSUME NEW i \in 1..Len(queue), queue[i].kind \in Logins PROVE queue[i].conn \in Conn
  OBVIOUS
<1>1. queue[i] \in Op BY DEF TypeOK, RegistryTypes
<1> QED BY <1>1 DEF Op, Logins, OwnerLogins

\* Reading a head, or growing the queue by an operation that is no login.
LEMMA DetachOp == ASSUME NEW c \in Conn, NEW s \in Session \cup {None} PROVE OpOf("detach", c, s) \in Op
  BY DEF OpOf, Op

\* What a step may do to the sockets without disturbing QueueInv.
HandlersKept ==
  \A c \in Conn : /\ phase[c] # "new" => phase'[c] # "new"
                  /\ phase[c] # "new" /\ clientOf[c] # None => clientOf'[c] # None

\* QueueInv depends on the queue, the phases and the bindings only.
LEMMA QueueKept ==
  ASSUME TypeOK, QueueInv, HandlersKept, queue' = queue,
         \A c \in Conn : connections[c] = None => connections'[c] = None
  PROVE  QueueInv'
<1>1. \A i \in 1..Len(queue) : queue[i].kind \in Logins => queue[i].conn \in Conn
  BY LoginOp
<1> QED BY <1>1 DEF QueueInv, HandlersKept

\* An operation that is no login may be queued at any time.
LEMMA QueueGrown ==
  ASSUME TypeOK, QueueInv, HandlersKept, NEW op \in Op, op.kind \notin Logins,
         queue' = Append(queue, op),
         \A c \in Conn : connections[c] = None => connections'[c] = None
  PROVE  QueueInv'
<1>1. \A i \in 1..Len(queue) : queue[i].kind \in Logins => queue[i].conn \in Conn
  BY LoginOp
<1>2. /\ Len(queue') = Len(queue) + 1
      /\ \A i \in 1..Len(queue) : queue'[i] = queue[i]
      /\ queue'[Len(queue)+1] = op
  BY QueueAppend DEF TypeOK, RegistryTypes
<1>3. \A i \in 1..Len(queue') : queue'[i].kind \in Logins => i \in 1..Len(queue) /\ queue'[i] = queue[i]
  <2> SUFFICES ASSUME NEW i \in 1..Len(queue'), queue'[i].kind \in Logins
               PROVE  i \in 1..Len(queue)
    BY <1>2
  <2>1. i # Len(queue) + 1 BY <1>2
  <2>2. Len(queue) \in Nat BY DEF TypeOK, RegistryTypes
  <2> QED BY <1>2, <2>1, <2>2
<1> QED BY <1>1, <1>3 DEF QueueInv, HandlersKept

\* The operation that was served leaves the queue; no other changes place.
LEMMA QueueServed ==
  ASSUME TypeOK, QueueInv, HandlersKept, queue # <<>>, queue' = Tail(queue),
         \A c \in Conn : connections[c] = None =>
            connections'[c] = None \/ (Head(queue).kind \in Logins /\ c = Head(queue).conn)
  PROVE  QueueInv'
<1>1. \A i \in 1..Len(queue) : queue[i].kind \in Logins => queue[i].conn \in Conn
  BY LoginOp
<1>2. /\ Head(queue) = queue[1] /\ Len(queue) >= 1 /\ Len(queue) \in Nat
      /\ Len(queue') = Len(queue) - 1
      /\ \A i \in 1..Len(queue') : i+1 \in 1..Len(queue) /\ queue'[i] = queue[i+1]
  BY QueueHead DEF TypeOK, RegistryTypes
<1>3. ASSUME NEW i \in 1..Len(queue'), queue'[i].kind \in Logins
      PROVE  /\ connections'[queue'[i].conn] = None
             /\ phase'[queue'[i].conn] # "new" /\ clientOf'[queue'[i].conn] # None
  <2>1. i+1 \in 1..Len(queue) /\ queue'[i] = queue[i+1] /\ 1 \in 1..Len(queue) /\ i+1 # 1
    BY <1>2
  <2>2. queue[i+1].conn \in Conn /\ connections[queue[i+1].conn] = None
        /\ phase[queue[i+1].conn] # "new" /\ clientOf[queue[i+1].conn] # None
    BY <1>1, <1>3, <2>1 DEF QueueInv
  <2>3. ~(queue[1].kind \in Logins /\ queue[i+1].conn = queue[1].conn)
    BY <1>3, <2>1 DEF QueueInv
  <2> QED BY <1>2, <2>1, <2>2, <2>3 DEF HandlersKept
<1>4. ASSUME NEW i \in 1..Len(queue'), NEW j \in 1..Len(queue'),
             queue'[i].kind \in Logins, queue'[j].kind \in Logins, queue'[i].conn = queue'[j].conn
      PROVE  i = j
  <2>1. i+1 = j+1 BY <1>2, <1>4 DEF QueueInv
  <2> QED BY <2>1, <1>2
<1> QED BY <1>3, <1>4 DEF QueueInv

-----------------------------------------------------------------------------
(* Types.                                                                  *)

Statuses == LiveStatus \cup {"none", "ended", "expired"}

\* The row updates of the store keep their types.
LEMMA RowTypes ==
  ASSUME TypeOK
  PROVE  \A S : /\ Idled(S) \in [Session -> Statuses]
                /\ Touched(S) \in [Session -> 0..Window]
                /\ \A st \in {"ended", "expired"} : Finished(S, st) \in [Session -> Statuses]
                /\ CredsWithout(S) \subseteq Client \X Session
  BY DEF TypeOK, StoreTypes, Statuses, LiveStatus, Idled, Touched, Finished, CredsWithout

\* What attach and Drop leave is typed.
LEMMA AttachTypes ==
  ASSUME TypeOK, NEW s \in Session, NEW c \in Conn, NEW old \in Conn \cup {None}, attach(s, c, old)
  PROVE  /\ live' \subseteq Session /\ entryConn' \in [Session -> Conn \cup {None}]
         /\ entryClient' \in [Session -> Client \cup {None}] /\ age' \in [Session -> 0..Window]
         /\ connections' \in [Conn -> Session \cup {None}] /\ activeInput' \in Conn \cup {None}
         /\ sink' \in [Session -> Conn \cup {None}] /\ binding' \in [Conn -> Session \cup {None}]
         /\ replaces' \in [Conn -> Conn \cup {None}] /\ storeAge' \in [Session -> 0..Window]
<1>1. 0 \in 0..Window OBVIOUS
<1>2. clientOf[c] \in Client \cup {None} BY DEF TypeOK, SocketTypes
<1> QED BY <1>1, <1>2 DEF TypeOK, RegistryTypes, SocketTypes, StoreTypes, attach

\* expireEntry leaves typed records.
LEMMA DropTypes ==
  ASSUME TypeOK, NEW S, Drop(S)
  PROVE  /\ live' \subseteq Session /\ entryConn' \in [Session -> Conn \cup {None}]
         /\ entryClient' \in [Session -> Client \cup {None}] /\ age' \in [Session -> 0..Window]
         /\ sink' \in [Session -> Conn \cup {None}]
<1>1. 0 \in 0..Window OBVIOUS
<1> QED BY <1>1 DEF TypeOK, RegistryTypes, Drop

\* The handlers of a socket and of the device's access mode keep every type.
LEMMA SocketStepTypes ==
  ASSUME TypeOK, HandlerInv, Sockets
  PROVE  TypeOK'
<1> USE DEF TypeOK, RegistryTypes, SocketTypes, StoreTypes, registryVars, socketVars, storeVars
<1>1. ASSUME NEW c \in Conn, Authenticated(c) PROVE TypeOK'
  <2>1. binding[c] \in Session /\ <<clientOf[c], binding[c]>> \in Client \X Session
    BY <1>1 DEF Authenticated, HandlerInv
  <2>2. creds' \subseteq Client \X Session
    BY <1>1, <2>1 DEF Authenticated
  <2>3. phase' \in [Conn -> Phases] /\ sessOf' \in [Conn -> Session \cup {None}] /\ registered' \subseteq Conn
    <3> DEFINE refused == c \in stale \/ (binding[c] \in guests /\ status[binding[c]] \notin LiveStatus)
    <3>1. CASE refused BY <1>1, <3>1 DEF Authenticated, Reject, Phases
    <3>2. CASE ~refused
      <4>1. phase' \in [Conn -> Phases] BY <1>1, <3>2 DEF Authenticated, Phases
      <4>2. sessOf' \in [Conn -> Session \cup {None}] BY <1>1, <2>1, <3>2 DEF Authenticated
      <4>3. registered' \subseteq Conn BY <1>1, <3>2 DEF Authenticated
      <4> QED BY <4>1, <4>2, <4>3
    <3> QED BY <3>1, <3>2
  <2>4. binding' \in [Conn -> Session \cup {None}] /\ replaces' \in [Conn -> Conn \cup {None}]
    BY <1>1 DEF Authenticated
  <2> QED BY <1>1, <2>2, <2>3, <2>4 DEF Authenticated
<1>2. ASSUME NEW c \in Conn, StartClose(c) \/ MessageWithoutLease(c) PROVE TypeOK'
  BY <1>2 DEF StartClose, MessageWithoutLease, Phases
<1>3. ASSUME NEW c \in Conn, ExitConfirm(c) PROVE TypeOK'
  <2>1. OpOf("end", c, sessOf[c]) \in Op
    BY <1>3 DEF ExitConfirm, HandlerInv, OpOf, Op
  <2> QED BY <1>3, <2>1, QueueAppend DEF ExitConfirm, Enqueue, Phases
<1>4. ASSUME NEW c \in Conn, AccessRevoked(c) PROVE TypeOK'
  <2>1. OpOf("detach", c, None) \in Op BY DetachOp
  <2>2. status' \in [Session -> Statuses] /\ storeAge' \in [Session -> 0..Window]
    BY <1>4, RowTypes DEF AccessRevoked
  <2> QED BY <1>4, <2>1, <2>2, QueueAppend DEF AccessRevoked, Enqueue, Phases, Statuses
<1>5. ASSUME NEW k \in Client \cup {None}, RevokeClient(k)
      PROVE  /\ registered' \subseteq Conn /\ sink' \in [Session -> Conn \cup {None}]
             /\ phase' \in [Conn -> Phases] /\ queue' \in Seq(Op)
  <2>1. activeInput \in Conn => OpOf("detach", activeInput, None) \in Op BY DetachOp
  <2>2. queue' \in Seq(Op) BY <1>5, <2>1, QueueAppend DEF RevokeClient
  <2> QED BY <1>5, <2>2 DEF RevokeClient, Phases
<1>6. ASSUME NEW c \in Conn, Unlock(c) PROVE TypeOK'
  <2> DEFINE k == clientOf[c]
  <2>1. k \in Client \cup {None} OBVIOUS
  <2>2. /\ registered' \subseteq Conn /\ sink' \in [Session -> Conn \cup {None}]
        /\ phase' \in [Conn -> Phases] /\ queue' \in Seq(Op)
    BY <1>5, <1>6, <2>1 DEF Unlock
  <2>3. storeAge' \in [Session -> 0..Window] BY <1>6, RowTypes DEF Unlock
  <2>4. status' \in [Session -> Statuses]
    <3>1. Idled(OwnedBy(k)) \in [Session -> Statuses] /\ Finished({sessOf[c]}, "ended") \in [Session -> Statuses]
      BY RowTypes
    <3>2. status' = [Idled(OwnedBy(k)) EXCEPT ![sessOf[c]] = Finished({sessOf[c]}, "ended")[sessOf[c]]]
      BY <1>6 DEF Unlock
    <3>3. CASE sessOf[c] \in Session BY <3>1, <3>2, <3>3
    <3>4. CASE sessOf[c] \notin Session BY <3>1, <3>2, <3>4
    <3> QED BY <3>3, <3>4
  <2>5. lock' \in [Client -> Session \cup {None}] /\ creds' \subseteq Client \X Session /\ stale' \subseteq Conn
    BY <1>6 DEF Unlock, HandlersOf
  <2> QED BY <1>6, <2>2, <2>3, <2>4, <2>5 DEF Unlock, Statuses
<1>7. ASSUME NEW c \in Conn, NEW forced \in BOOLEAN, Close(c, forced) PROVE TypeOK'
  <2>1. OpOf("detach", c, IF forced THEN sessOf[c] ELSE None) \in Op BY DetachOp
  <2> QED BY <1>7, <2>1, QueueAppend DEF Close, Enqueue, Phases
<1>8. ASSUME NEW c \in Conn, NEW k \in Client, NEW kind \in OwnerLogins, NEW s \in Session \cup {None},
             HelloOwner(c, k, kind, s)
      PROVE  TypeOK'
  <2>1. OpOf(kind, c, s) \in Op BY DEF OpOf, Op, Logins
  <2> QED BY <1>8, <2>1, QueueAppend DEF HelloOwner, Enqueue, Phases
<1>9. ASSUME NEW c \in Conn, NEW k \in Client, HelloGuest(c, k) PROVE TypeOK'
  <2>1. OpOf("guest", c, None) \in Op BY DEF OpOf, Op, Logins
  <2> QED BY <1>9, <2>1, QueueAppend DEF HelloGuest, Enqueue, Phases
<1>10. ASSUME NEW c \in Conn, NEW s \in Session, EnterGuest(c, s) PROVE TypeOK'
  <2> DEFINE k == clientOf[c]
  <2>1. k \in Client \cup {None} OBVIOUS
  <2>2. /\ registered' \subseteq Conn /\ sink' \in [Session -> Conn \cup {None}]
        /\ phase' \in [Conn -> Phases] /\ queue' \in Seq(Op)
    BY <1>5, <1>10, <2>1 DEF EnterGuest
  <2>3. storeAge' \in [Session -> 0..Window]
    <3>1. Touched(OwnedBy(k)) \in [Session -> 0..Window] /\ 0 \in 0..Window BY RowTypes
    <3> QED BY <1>10, <3>1 DEF EnterGuest
  <2>4. status' \in [Session -> Statuses]
    <3>1. Idled(OwnedBy(k)) \in [Session -> Statuses] BY RowTypes
    <3> QED BY <1>10, <3>1 DEF EnterGuest, Statuses, LiveStatus
  <2>5. lock' \in [Client -> Session \cup {None}] /\ guests' \subseteq Session /\ stale' \subseteq Conn
    BY <1>10 DEF EnterGuest, HandlersOf
  <2> QED BY <1>10, <2>2, <2>3, <2>4, <2>5 DEF EnterGuest, Statuses
<1>11. ASSUME NEW k \in Client, SweepInvalid(k) PROVE TypeOK'
  <2>1. /\ registered' \subseteq Conn /\ sink' \in [Session -> Conn \cup {None}]
        /\ phase' \in [Conn -> Phases] /\ queue' \in Seq(Op)
    BY <1>5, <1>11 DEF SweepInvalid
  <2>2. status' \in [Session -> Statuses] /\ storeAge' \in [Session -> 0..Window]
    BY <1>11, RowTypes DEF SweepInvalid
  <2> QED BY <1>11, <2>1, <2>2 DEF SweepInvalid, Statuses
<1> HIDE DEF TypeOK
<1> QED BY <1>1, <1>2, <1>3, <1>4, <1>6, <1>7, <1>8, <1>9, <1>10, <1>11 DEF Sockets

\* A login that is refused keeps every type.
LEMMA RefusedTypes ==
  ASSUME TypeOK, NEW c \in Conn, queue # <<>>, LoginRefused(c)
  PROVE  TypeOK'
<1>1. Tail(queue) \in Seq(Op) BY QueueHead DEF TypeOK, RegistryTypes
<1> QED BY <1>1 DEF TypeOK, RegistryTypes, SocketTypes, StoreTypes, registryVars, socketVars, storeVars, LoginRefused, Dequeue, Reject, Phases

\* A login that attaches: attach, an activated or created row, a shorter queue.
LEMMA AttachedTypes ==
  ASSUME TypeOK, NEW s \in Session, NEW c \in Conn, NEW old \in Conn \cup {None}, queue # <<>>,
         attach(s, c, old), Dequeue, status' \in {Activated(s), [status EXCEPT ![s] = "active"]},
         UNCHANGED <<closed, phase, clientOf, sessOf, registered, stale, stopping, guests, lock, creds>>
  PROVE  TypeOK'
<1>1. Tail(queue) \in Seq(Op) BY QueueHead DEF TypeOK, RegistryTypes
<1>2. status' \in [Session -> Statuses]
  BY DEF TypeOK, StoreTypes, Statuses, LiveStatus, Activated
<1>3. RegistryTypes' BY <1>1, AttachTypes DEF TypeOK, RegistryTypes, Dequeue
<1>4. SocketTypes' BY AttachTypes DEF TypeOK, SocketTypes
<1>5. StoreTypes' BY <1>2, AttachTypes DEF TypeOK, StoreTypes, Statuses
<1> QED BY <1>3, <1>4, <1>5 DEF TypeOK

\* The queued operations of the registry keep every type.
LEMMA QueueStepTypes ==
  ASSUME TypeOK, RunQueue
  PROVE  TypeOK'
<1>1. ASSUME CreateRefused PROVE TypeOK'
  BY <1>1, LoginHead, RefusedTypes DEF CreateRefused, Running, Logins, OwnerLogins
<1>2. ASSUME NEW s \in Session, Create(s) PROVE TypeOK'
  <2>1. Head(queue).conn \in Conn /\ queue # <<>>
    BY <1>2, LoginHead DEF Create, Running, Logins, OwnerLogins
  <2> QED BY <1>2, <2>1, AttachedTypes DEF Create
<1>3. ASSUME NEW c \in Conn, NEW s \in Session, Resuming(c, s) PROVE queue # <<>> /\ Tail(queue) \in Seq(Op)
  BY <1>3, QueueHead DEF Resuming, Running, TypeOK, RegistryTypes
<1>4. ASSUME NEW c \in Conn, NEW s \in Session, ResumeRefusedBeforeLookup(c, s) \/ HydrateFailed(c, s)
      PROVE  TypeOK'
  BY <1>3, <1>4, RefusedTypes DEF ResumeRefusedBeforeLookup, HydrateFailed
<1>5. ASSUME NEW c \in Conn, NEW s \in Session, BeginHydrate(c, s) PROVE TypeOK'
  <2>1. storeAge[s] \in 0..Window BY DEF TypeOK, StoreTypes
  <2> QED BY <1>5, <2>1 DEF BeginHydrate, TypeOK, RegistryTypes, SocketTypes, StoreTypes, registryVars, socketVars, storeVars
<1>6. ASSUME NEW c \in Conn, NEW s \in Session, HydratedTooLate(c, s) PROVE TypeOK'
  <2>1. status' \in [Session -> Statuses] /\ creds' \subseteq Client \X Session
    BY <1>6, RowTypes DEF HydratedTooLate, Terminate
  <2> QED BY <1>3, <1>6, <2>1 DEF HydratedTooLate, TypeOK, RegistryTypes, SocketTypes, StoreTypes, registryVars, socketVars, storeVars, Dequeue, Reject, Phases, Statuses
<1>7. ASSUME NEW c \in Conn, NEW s \in Session, ResumeRefused(c, s) PROVE TypeOK'
  <2>1. EntryAge(s) \in 0..Window
    BY <1>7 DEF ResumeRefused, Found, EntryAge, TypeOK, RegistryTypes
  <2> QED BY <1>3, <1>7, <2>1 DEF ResumeRefused, TypeOK, RegistryTypes, SocketTypes, StoreTypes, registryVars, socketVars, storeVars, Dequeue, Reject, Phases
<1>8. ASSUME NEW c \in Conn, NEW s \in Session, ResumeExpired(c, s) PROVE TypeOK'
  <2>1. status' \in [Session -> Statuses] /\ creds' \subseteq Client \X Session
    BY <1>8, RowTypes DEF ResumeExpired, Terminate
  <2>2. RegistryTypes' BY <1>3, <1>8, DropTypes DEF ResumeExpired, TypeOK, RegistryTypes, Dequeue
  <2> QED BY <1>8, <2>1, <2>2 DEF ResumeExpired, TypeOK, SocketTypes, StoreTypes, Reject, Phases, Statuses
<1>9. ASSUME NEW c \in Conn, NEW s \in Session, ResumeDetached(c, s) PROVE TypeOK'
  BY <1>3, <1>9, AttachedTypes DEF ResumeDetached
<1>10. ASSUME NEW c \in Conn, NEW s \in Session, TakeOver(c, s) PROVE TypeOK'
  <2>1. entryConn[s] \in Conn \cup {None} BY DEF TypeOK, RegistryTypes
  <2> QED BY <1>3, <1>10, <2>1, AttachedTypes DEF TakeOver
<1>11. ASSUME GuestRefused PROVE TypeOK'
  <2>1. "guest" \in Logins BY DEF Logins
  <2> QED BY <1>11, <2>1, LoginHead, RefusedTypes DEF GuestRefused, Running
<1>12. ASSUME NEW c \in Conn, NEW k \in Client, NEW s \in Session, GuestRebind(c, k, s) PROVE TypeOK'
  <2>1. Finished({lock[k]}, "expired") \in [Session -> Statuses] /\ creds' \subseteq Client \X Session
    BY <1>12, RowTypes DEF GuestRebind
  <2>2. status' \in [Session -> Statuses] BY <1>12, <2>1 DEF GuestRebind, Statuses, LiveStatus
  <2>3. storeAge' \in [Session -> 0..Window] /\ guests' \subseteq Session /\ stale' \subseteq Conn
    BY <1>12 DEF GuestRebind, TypeOK, SocketTypes, StoreTypes, HandlersOf
  <2>4. lock' \in [Client -> Session \cup {None}] BY <1>12 DEF GuestRebind, TypeOK, StoreTypes
  <2> QED BY <1>12, <2>1, <2>2, <2>3, <2>4 DEF GuestRebind, TypeOK, RegistryTypes, SocketTypes, StoreTypes, registryVars, socketVars, storeVars, Statuses
<1>13. ASSUME NEW c \in Conn, NEW k \in Client, NEW s \in Session, GuestExpired(c, k, s) PROVE TypeOK'
  <2>1. status' \in [Session -> Statuses] /\ creds' \subseteq Client \X Session
    BY <1>13, RowTypes DEF GuestExpired, Terminate
  <2>2. RegistryTypes' BY <1>13, DropTypes DEF GuestExpired, TypeOK, RegistryTypes
  <2> QED BY <1>13, <2>1, <2>2 DEF GuestExpired, TypeOK, SocketTypes, StoreTypes, socketVars, Statuses
<1>14. ASSUME NEW c \in Conn, NEW k \in Client, NEW s \in Session, GuestBusy(c, k, s) PROVE TypeOK'
  BY <1>14, RefusedTypes DEF GuestBusy, Selecting, Running
<1>15. ASSUME NEW c \in Conn, NEW k \in Client, NEW s \in Session, GuestAttached(c, k, s) PROVE TypeOK'
  <2>1. entryConn[s] \in Conn \cup {None} BY DEF TypeOK, RegistryTypes
  <2>2. queue # <<>> BY <1>15 DEF GuestAttached, Selecting, Running
  <2> QED BY <1>15, <2>1, <2>2, AttachedTypes DEF GuestAttached
<1>16. ASSUME NEW c \in Conn, Detach(c) PROVE TypeOK'
  <2>1. Head(queue) \in Op /\ Tail(queue) \in Seq(Op) /\ Head(queue).kind = "detach"
    BY <1>16, QueueHead DEF Detach, Running, TypeOK, RegistryTypes
  <2>2. Head(queue).sess \in Session \cup {None} BY <2>1 DEF Op
  <2>3. Head(queue).sess # None => OpOf("expire", None, Head(queue).sess) \in Op BY <2>2 DEF Op, OpOf
  <2>4. queue' \in Seq(Op) BY <1>16, <2>1, <2>3 DEF Detach
  <2>5. status' \in [Session -> Statuses] /\ storeAge' \in [Session -> 0..Window]
    BY <1>16, RowTypes DEF Detach, TypeOK, StoreTypes, Statuses
  <2>6. RegistryTypes'
    <3>1. 0 \in 0..Window OBVIOUS
    <3>2. CASE connections[c] # None /\ entryConn[connections[c]] = c
      <4>0. /\ entryConn' = [entryConn EXCEPT ![connections[c]] = None]
            /\ age' = [age EXCEPT ![connections[c]] = 0]
            /\ sink' = [sink EXCEPT ![connections[c]] = None]
        BY <1>16, <3>2 DEF Detach
      <4>1. /\ entryConn' \in [Session -> Conn \cup {None}] /\ sink' \in [Session -> Conn \cup {None}]
            /\ age' \in [Session -> 0..Window]
        BY <3>1, <4>0 DEF TypeOK, RegistryTypes
      <4>2. connections' \in [Conn -> Session \cup {None}] /\ activeInput' \in Conn \cup {None}
        BY <1>16 DEF Detach, TypeOK, RegistryTypes
      <4> QED BY <1>16, <2>4, <4>1, <4>2 DEF Detach, TypeOK, RegistryTypes
    <3>3. CASE ~(connections[c] # None /\ entryConn[connections[c]] = c)
      BY <1>16, <2>4, <3>3 DEF Detach, TypeOK, RegistryTypes
    <3> QED BY <3>2, <3>3
  <2> QED BY <1>16, <2>5, <2>6 DEF Detach, TypeOK, SocketTypes, StoreTypes, socketVars, Statuses
<1>17. ASSUME NEW s \in Session, ForcedExpiry(s) PROVE TypeOK'
  <2>1. Tail(queue) \in Seq(Op) BY <1>17, QueueHead DEF ForcedExpiry, Running, TypeOK, RegistryTypes
  <2>2. status' \in [Session -> Statuses] /\ creds' \subseteq Client \X Session
    BY <1>17, RowTypes DEF ForcedExpiry, Terminate, TypeOK, StoreTypes, Statuses
  <2>3. RegistryTypes' BY <1>17, <2>1, DropTypes DEF ForcedExpiry, Dequeue, TypeOK, RegistryTypes
  <2> QED BY <1>17, <2>2, <2>3 DEF ForcedExpiry, TypeOK, SocketTypes, StoreTypes, socketVars, Statuses
<1>18. ASSUME NEW s \in Session, End(s) PROVE TypeOK'
  <2>1. Tail(queue) \in Seq(Op) BY <1>18, QueueHead DEF End, Running, TypeOK, RegistryTypes
  <2>2. status' \in [Session -> Statuses] /\ creds' \subseteq Client \X Session
    BY <1>18, RowTypes DEF End, Terminate, TypeOK, StoreTypes, Statuses
  <2>3. connections' \in [Conn -> Session \cup {None}] /\ activeInput' \in Conn \cup {None}
    BY <1>18 DEF End, TypeOK, RegistryTypes, registryVars
  <2>4. RegistryTypes'
    BY <1>18, <2>1, <2>3, DropTypes DEF End, Dequeue, TypeOK, RegistryTypes, registryVars
  <2> QED BY <1>18, <2>2, <2>4 DEF End, TypeOK, SocketTypes, StoreTypes, socketVars, Statuses
<1> QED BY <1>1, <1>2, <1>4, <1>5, <1>6, <1>7, <1>8, <1>9, <1>10, <1>11, <1>12, <1>13, <1>14,
           <1>15, <1>16, <1>17, <1>18 DEF RunQueue

\* The timer, the background writes, the stop and the crash keep every type.
LEMMA BackgroundStepTypes ==
  ASSUME TypeOK, Background \/ Tick
  PROVE  TypeOK'
<1>1. ASSUME sweepExpired PROVE TypeOK'
  <2> DEFINE S == {s \in live : entryConn[s] = None /\ isExpired(s)}
  <2>1. status' \in [Session -> Statuses] /\ creds' \subseteq Client \X Session
    BY <1>1, RowTypes DEF sweepExpired, Terminate
  <2>2. Drop(S) BY <1>1 DEF sweepExpired
  <2>3. RegistryTypes' BY <1>1, <2>2, DropTypes DEF sweepExpired, TypeOK, RegistryTypes
  <2> QED BY <1>1, <2>1, <2>3 DEF sweepExpired, TypeOK, SocketTypes, StoreTypes, socketVars, Statuses
<1>2. ASSUME Shutdown PROVE TypeOK'
  <2>1. status' \in [Session -> Statuses] /\ storeAge' \in [Session -> 0..Window]
    BY <1>2, RowTypes DEF Shutdown
  <2>2. RegistryTypes' BY <1>2, DropTypes DEF Shutdown, TypeOK, RegistryTypes
  <2> QED BY <1>2, <2>1, <2>2 DEF Shutdown, TypeOK, SocketTypes, StoreTypes, socketVars, Statuses
<1>3. ASSUME Stop PROVE TypeOK'
  BY <1>3 DEF Stop, TypeOK, RegistryTypes, SocketTypes, StoreTypes, registryVars, socketVars, storeVars, Phases
<1>4. ASSUME Restart PROVE TypeOK'
  <2>1. 0 \in 0..Window /\ <<>> \in Seq(Op) OBVIOUS
  <2>2. RegistryTypes' BY <1>4, <2>1 DEF Restart, RegistryTypes
  <2>3. SocketTypes' BY <1>4 DEF Restart, TypeOK, SocketTypes, Phases
  <2>4. StoreTypes' BY <1>4, <2>1 DEF Restart, TypeOK, StoreTypes, LiveStatus
  <2> QED BY <2>2, <2>3, <2>4 DEF TypeOK
<1>5. ASSUME NEW s \in Session, NEW st \in LiveStatus, BackgroundWrite(s, st) PROVE TypeOK'
  <2>1. 0 \in 0..Window OBVIOUS
  <2> QED BY <1>5, <2>1 DEF BackgroundWrite, TypeOK, RegistryTypes, SocketTypes, StoreTypes, registryVars, socketVars, storeVars, LiveStatus
<1>6. ASSUME Tick PROVE TypeOK'
  <2>1. \A a \in 0..Window : Older(a) \in 0..Window BY DEF Older
  <2> QED BY <1>6, <2>1 DEF Tick, TypeOK, RegistryTypes, SocketTypes, StoreTypes, registryVars, socketVars, storeVars
<1> QED BY <1>1, <1>2, <1>3, <1>4, <1>5, <1>6 DEF Background

-----------------------------------------------------------------------------
(* The lease.                                                              *)

\* A step that leaves the lease alone, and takes sinks away at most.
LEMMA LeaseUntouched ==
  ASSUME LeaseInv, SinkInv, UNCHANGED registryVars, \A s \in Session : sink'[s] \in {None, sink[s]}
  PROVE  LeaseInv' /\ SinkInv'
  BY DEF LeaseInv, SinkInv, registryVars

\* attach is safe when its connection holds nothing and the lease is either
\* free or the one of the entry it replaces.
LEMMA LeaseAttached ==
  ASSUME TypeOK, LeaseInv, SinkInv, NEW s \in Session, NEW c \in Conn, connections[c] = None,
         activeInput = entryConn[s], attach(s, c, entryConn[s])
  PROVE  LeaseInv' /\ SinkInv'
<1> USE DEF TypeOK, RegistryTypes
<1>1. /\ live' = live \cup {s} /\ activeInput' = c
      /\ entryConn' = [entryConn EXCEPT ![s] = c] /\ sink' = [sink EXCEPT ![s] = c]
      /\ connections' = [d \in Conn |-> IF d = c THEN s ELSE IF d = entryConn[s] THEN None ELSE connections[d]]
  BY DEF attach
<1>2. \A t \in Session \ {s} : entryConn[t] = None BY DEF LeaseInv
<1>3. \A d \in Conn \ {c} : connections'[d] = None BY <1>1 DEF LeaseInv
<1>4. \A t \in Session : entryConn'[t] = IF t = s THEN c ELSE None BY <1>1, <1>2
<1>5. connections'[c] = s BY <1>1
<1>6. LeaseInv' BY <1>1, <1>3, <1>4, <1>5 DEF LeaseInv
<1>7. \A t \in Session \ {s} : sink'[t] = None BY <1>1, <1>2 DEF SinkInv
<1>8. sink'[s] = c BY <1>1
<1> QED BY <1>1, <1>4, <1>6, <1>7, <1>8 DEF SinkInv

\* Entries without a connection may leave.
LEMMA LeaseDropped ==
  ASSUME TypeOK, LeaseInv, SinkInv, NEW S, \A s \in S \cap Session : entryConn[s] = None, Drop(S),
         UNCHANGED <<connections, activeInput>>
  PROVE  LeaseInv' /\ SinkInv'
<1>1. entryConn' = entryConn BY DEF Drop, TypeOK, RegistryTypes
<1>2. LeaseInv' BY <1>1 DEF Drop, LeaseInv
<1> QED BY <1>1, <1>2 DEF Drop, SinkInv, LeaseInv

-----------------------------------------------------------------------------
(* Sockets keep the invariant.                                             *)

\* The steps that admit a login: its connection is new, so nothing of it is
\* queued and it holds nothing.
LEMMA HelloSafe ==
  ASSUME IInv, NEW c \in Conn, NEW k \in Client, NEW op \in Op, op.conn = c,
         phase[c] = "new", phase' = [phase EXCEPT ![c] = "waiting"],
         clientOf' = [clientOf EXCEPT ![c] = k], Enqueue(op),
         UNCHANGED <<connections, binding, sessOf>>
  PROVE  QueueInv' /\ HandlerInv'
<1> USE DEF IInv, TypeOK, RegistryTypes, SocketTypes
<1>1. /\ Len(queue') = Len(queue) + 1 /\ Len(queue) \in Nat
      /\ \A i \in 1..Len(queue) : queue'[i] = queue[i]
      /\ queue'[Len(queue)+1] = op
  BY QueueAppend DEF Enqueue
<1>2. connections[c] = None /\ binding[c] = None BY DEF HandlerInv
<1>3. phase'[c] # "new" /\ clientOf'[c] # None BY NoneAssumption
<1>4. \A d \in Conn \ {c} : phase'[d] = phase[d] /\ clientOf'[d] = clientOf[d] OBVIOUS
<1>5. \A i \in 1..Len(queue) : queue[i].kind \in Logins => queue[i].conn \in Conn \ {c}
  BY LoginOp DEF QueueInv
<1>6. \A i \in 1..Len(queue') : i \in 1..Len(queue) \/ i = Len(queue)+1 BY <1>1
<1>7. \A i \in 1..Len(queue') : queue'[i].kind \in Logins =>
        connections'[queue'[i].conn] = None /\ phase'[queue'[i].conn] # "new" /\ clientOf'[queue'[i].conn] # None
  BY <1>1, <1>2, <1>3, <1>4, <1>5, <1>6 DEF QueueInv
<1>8. ASSUME NEW i \in 1..Len(queue'), NEW j \in 1..Len(queue'),
             queue'[i].kind \in Logins, queue'[j].kind \in Logins, queue'[i].conn = queue'[j].conn
      PROVE  i = j
  BY <1>1, <1>5, <1>6, <1>8 DEF QueueInv
<1>9. QueueInv' BY <1>7, <1>8 DEF QueueInv
<1>10. HandlerInv' BY <1>2, <1>3, <1>4 DEF HandlerInv
<1> QED BY <1>9, <1>10

\* The handlers of a socket and of the device's access mode keep the invariant.
LEMMA SocketSafe ==
  ASSUME IInv, Sockets
  PROVE  LeaseInv' /\ SinkInv' /\ QueueInv' /\ HandlerInv'
<1> USE DEF IInv
<1>1. ASSUME NEW c \in Conn, Authenticated(c)
      PROVE  LeaseInv' /\ SinkInv' /\ QueueInv' /\ HandlerInv'
  <2>1. LeaseInv' /\ SinkInv' BY <1>1, LeaseUntouched DEF Authenticated
  <2>2. \A d \in Conn : phase[d] # "new" => phase'[d] # "new"
    BY <1>1 DEF Authenticated, Reject, TypeOK, SocketTypes
  <2>3. QueueInv' BY <1>1, <2>2, QueueKept DEF Authenticated, HandlersKept, registryVars
  <2>4. \A d \in Conn : binding'[d] = IF d = c THEN None ELSE binding[d]
    BY <1>1 DEF Authenticated, TypeOK, SocketTypes
  <2>5. \A d \in Conn : phase'[d] = "ready" => sessOf'[d] # None
    <3> DEFINE refused == c \in stale \/ (binding[c] \in guests /\ status[binding[c]] \notin LiveStatus)
    <3>1. CASE refused BY <1>1, <3>1 DEF Authenticated, Reject, TypeOK, SocketTypes, HandlerInv
    <3>2. CASE ~refused BY <1>1, <3>2 DEF Authenticated, TypeOK, SocketTypes, HandlerInv
    <3> QED BY <3>1, <3>2
  <2>6. HandlerInv' BY <1>1, <2>2, <2>4, <2>5 DEF Authenticated, HandlerInv, registryVars
  <2> QED BY <2>1, <2>3, <2>6
<1>2. ASSUME NEW c \in Conn, StartClose(c) \/ MessageWithoutLease(c)
      PROVE  LeaseInv' /\ SinkInv' /\ QueueInv' /\ HandlerInv'
  <2>1. LeaseInv' /\ SinkInv' BY <1>2, LeaseUntouched DEF StartClose, MessageWithoutLease
  <2>2. \A d \in Conn : phase'[d] = IF d = c THEN "closing" ELSE phase[d]
    BY <1>2 DEF StartClose, MessageWithoutLease, TypeOK, SocketTypes
  <2>3. QueueInv'
    BY <1>2, <2>2, QueueKept DEF StartClose, MessageWithoutLease, HandlersKept, registryVars
  <2>4. HandlerInv' BY <1>2, <2>2 DEF StartClose, MessageWithoutLease, HandlerInv, registryVars
  <2> QED BY <2>1, <2>3, <2>4
<1>3. ASSUME NEW c \in Conn, ExitConfirm(c)
      PROVE  LeaseInv' /\ SinkInv' /\ QueueInv' /\ HandlerInv'
  <2> DEFINE op == OpOf("end", c, sessOf[c])
  <2>1. op \in Op /\ op.kind \notin Logins
    BY <1>3 DEF ExitConfirm, HandlerInv, OpOf, Op, TypeOK, SocketTypes, Logins, OwnerLogins
  <2>2. LeaseInv' /\ SinkInv' BY <1>3, LeaseUntouched DEF ExitConfirm
  <2>3. \A d \in Conn : phase'[d] = IF d = c THEN "closing" ELSE phase[d]
    BY <1>3 DEF ExitConfirm, TypeOK, SocketTypes
  <2>4. queue' = Append(queue, op) BY <1>3 DEF ExitConfirm, Enqueue
  <2>5. QueueInv' BY <1>3, <2>1, <2>3, <2>4, QueueGrown DEF ExitConfirm, HandlersKept, registryVars
  <2>6. HandlerInv' BY <1>3, <2>3 DEF ExitConfirm, HandlerInv, registryVars
  <2> QED BY <2>2, <2>5, <2>6
<1>4. ASSUME NEW c \in Conn, AccessRevoked(c)
      PROVE  LeaseInv' /\ SinkInv' /\ QueueInv' /\ HandlerInv'
  <2> DEFINE op == OpOf("detach", c, None)
  <2>1. op \in Op /\ op.kind \notin Logins BY DetachOp DEF OpOf, Logins, OwnerLogins
  <2>2. LeaseInv' /\ SinkInv'
    BY <1>4, LeaseUntouched DEF AccessRevoked, TypeOK, RegistryTypes
  <2>3. \A d \in Conn : phase'[d] = IF d = c THEN "closing" ELSE phase[d]
    BY <1>4 DEF AccessRevoked, TypeOK, SocketTypes
  <2>4. queue' = Append(queue, op) BY <1>4 DEF AccessRevoked, Enqueue
  <2>5. QueueInv' BY <1>4, <2>1, <2>3, <2>4, QueueGrown DEF AccessRevoked, HandlersKept, registryVars
  <2>6. HandlerInv' BY <1>4, <2>3 DEF AccessRevoked, HandlerInv, registryVars
  <2> QED BY <2>2, <2>5, <2>6
<1>5. ASSUME NEW k \in Client \cup {None}, RevokeClient(k),
             UNCHANGED <<registryVars, clientOf, binding, sessOf>>
      PROVE  LeaseInv' /\ SinkInv' /\ QueueInv' /\ HandlerInv'
  <2>1. LeaseInv' /\ SinkInv'
    BY <1>5, LeaseUntouched DEF RevokeClient, TypeOK, RegistryTypes
  <2>2. \A d \in Conn : phase'[d] \in {"closing", phase[d]}
    BY <1>5 DEF RevokeClient, TypeOK, SocketTypes
  <2>3. HandlersKept BY <1>5, <2>2 DEF HandlersKept
  <2>4. HandlerInv' BY <1>5, <2>2 DEF HandlerInv, registryVars
  <2>5. QueueInv'
    <3>1. CASE queue' = queue BY <1>5, <2>3, <3>1, QueueKept DEF registryVars
    <3>2. CASE queue' # queue
      <4>1. activeInput \in Conn /\ queue' = Append(queue, OpOf("detach", activeInput, None))
        BY <1>5, <3>2 DEF RevokeClient, TypeOK, SocketTypes
      <4>2. OpOf("detach", activeInput, None) \in Op /\ OpOf("detach", activeInput, None).kind \notin Logins
        BY <4>1, DetachOp DEF OpOf, Logins, OwnerLogins
      <4> QED BY <1>5, <2>3, <4>1, <4>2, QueueGrown DEF registryVars
    <3> QED BY <3>1, <3>2
  <2> QED BY <2>1, <2>4, <2>5
<1>6. ASSUME NEW c \in Conn, Unlock(c) \/ \E s \in Session : EnterGuest(c, s)
      PROVE  LeaseInv' /\ SinkInv' /\ QueueInv' /\ HandlerInv'
  <2>1. clientOf[c] \in Client \cup {None} BY DEF TypeOK, SocketTypes
  <2>2. RevokeClient(clientOf[c]) /\ UNCHANGED <<registryVars, clientOf, binding, sessOf>>
    BY <1>6 DEF Unlock, EnterGuest
  <2> QED BY <1>5, <2>1, <2>2
<1>7. ASSUME NEW k \in Client, SweepInvalid(k)
      PROVE  LeaseInv' /\ SinkInv' /\ QueueInv' /\ HandlerInv'
  BY <1>5, <1>7 DEF SweepInvalid
<1>8. ASSUME NEW c \in Conn, NEW forced \in BOOLEAN, Close(c, forced)
      PROVE  LeaseInv' /\ SinkInv' /\ QueueInv' /\ HandlerInv'
  <2> DEFINE op == OpOf("detach", c, IF forced THEN sessOf[c] ELSE None)
  <2>1. op \in Op /\ op.kind \notin Logins
    BY DetachOp DEF OpOf, Logins, OwnerLogins, TypeOK, SocketTypes
  <2>2. LeaseInv' /\ SinkInv' BY <1>8, LeaseUntouched DEF Close
  <2>3. \A d \in Conn : phase'[d] = IF d = c THEN "closed" ELSE phase[d]
    BY <1>8 DEF Close, TypeOK, SocketTypes
  <2>4. queue' = Append(queue, op) BY <1>8 DEF Close, Enqueue
  <2>5. QueueInv' BY <1>8, <2>1, <2>3, <2>4, QueueGrown DEF Close, HandlersKept, registryVars
  <2>6. HandlerInv' BY <1>8, <2>3 DEF Close, HandlerInv, registryVars, TypeOK, SocketTypes
  <2> QED BY <2>2, <2>5, <2>6
<1>9. ASSUME NEW c \in Conn, NEW k \in Client, NEW kind \in OwnerLogins, NEW s \in Session \cup {None},
             HelloOwner(c, k, kind, s)
      PROVE  LeaseInv' /\ SinkInv' /\ QueueInv' /\ HandlerInv'
  <2>1. OpOf(kind, c, s) \in Op /\ OpOf(kind, c, s).conn = c BY DEF OpOf, Op, Logins
  <2>2. LeaseInv' /\ SinkInv' BY <1>9, LeaseUntouched DEF HelloOwner
  <2> QED BY <1>9, <2>1, <2>2, HelloSafe DEF HelloOwner, registryVars
<1>10. ASSUME NEW c \in Conn, NEW k \in Client, HelloGuest(c, k)
      PROVE  LeaseInv' /\ SinkInv' /\ QueueInv' /\ HandlerInv'
  <2>1. OpOf("guest", c, None) \in Op /\ OpOf("guest", c, None).conn = c BY DEF OpOf, Op, Logins
  <2>2. LeaseInv' /\ SinkInv' BY <1>10, LeaseUntouched DEF HelloGuest
  <2> QED BY <1>10, <2>1, <2>2, HelloSafe DEF HelloGuest, registryVars
<1> HIDE DEF IInv
<1> QED BY <1>1, <1>2, <1>3, <1>4, <1>6, <1>7, <1>8, <1>9, <1>10 DEF Sockets

-----------------------------------------------------------------------------
(* Registry operations keep the invariant.                                 *)

\* When a login is first in the queue, its connection holds nothing.
LEMMA HeadLogin ==
  ASSUME IInv, NEW kind \in Logins, Running(kind)
  PROVE  LET c == Head(queue).conn IN
         /\ queue # <<>> /\ c \in Conn /\ Head(queue).kind \in Logins
         /\ connections[c] = None /\ activeInput # c
         /\ \A s \in Session : entryConn[s] # c
         /\ phase[c] # "new" /\ clientOf[c] # None
<1> USE DEF IInv
<1>1. queue # <<>> /\ Head(queue) = queue[1] /\ 1 \in 1..Len(queue) /\ Head(queue).kind = kind
  BY QueueHead DEF Running, TypeOK, RegistryTypes
<1>2. Head(queue).conn \in Conn BY LoginHead
<1>3. connections[Head(queue).conn] = None /\ phase[Head(queue).conn] # "new" /\ clientOf[Head(queue).conn] # None
  BY <1>1 DEF QueueInv
<1> QED BY <1>1, <1>2, <1>3 DEF LeaseInv

\* A login leaves the queue without an attachment.
LEMMA LoginDone ==
  ASSUME IInv, NEW c \in Conn, queue # <<>>, Dequeue, Reject(c),
         UNCHANGED <<connections, clientOf, binding, sessOf>>
  PROVE  QueueInv' /\ HandlerInv'
<1> USE DEF IInv
<1>1. \A d \in Conn : phase'[d] \in {phase[d], "closing"} BY DEF Reject, TypeOK, SocketTypes
<1>2. QueueInv' BY <1>1, QueueServed DEF Dequeue, HandlersKept
<1> QED BY <1>1, <1>2 DEF HandlerInv

\* A login that is refused keeps the invariant.
LEMMA RefusedSafe ==
  ASSUME IInv, NEW c \in Conn, queue # <<>>, LoginRefused(c)
  PROVE  LeaseInv' /\ SinkInv' /\ QueueInv' /\ HandlerInv'
<1>1. LeaseInv' /\ SinkInv' BY LeaseUntouched DEF IInv, LoginRefused
<1> QED BY <1>1, LoginDone DEF LoginRefused, registryVars

\* A login leaves the queue attached.
LEMMA AttachedSafe ==
  ASSUME IInv, NEW kind \in Logins, Running(kind), NEW s \in Session,
         activeInput = entryConn[s], attach(s, Head(queue).conn, entryConn[s]), Dequeue,
         UNCHANGED <<phase, clientOf, sessOf>>
  PROVE  LeaseInv' /\ SinkInv' /\ QueueInv' /\ HandlerInv'
<1> USE DEF IInv
<1> DEFINE c == Head(queue).conn
<1>1. /\ queue # <<>> /\ c \in Conn /\ Head(queue).kind \in Logins
      /\ connections[c] = None /\ phase[c] # "new" /\ clientOf[c] # None
  BY HeadLogin
<1>2. LeaseInv' /\ SinkInv' BY <1>1, LeaseAttached
<1>3. \A d \in Conn \ {c} : connections'[d] \in {None, connections[d]} /\ binding'[d] = binding[d]
  BY DEF attach, TypeOK, SocketTypes
<1>4. queue' = Tail(queue) /\ HandlersKept BY DEF HandlersKept, Dequeue
<1>5. \A d \in Conn : connections[d] = None => connections'[d] = None \/ (Head(queue).kind \in Logins /\ d = Head(queue).conn)
  BY <1>1, <1>3
<1> HIDE DEF c
<1>6. QueueInv' BY <1>1, <1>4, <1>5, QueueServed
<1>7. \A d \in Conn : d = c \/ d \in Conn \ {c} OBVIOUS
<1>8. HandlerInv' BY <1>1, <1>3, <1>7 DEF HandlerInv
<1> QED BY <1>2, <1>6, <1>8

\* The queued operations of the registry keep the invariant.
LEMMA QueueSafe ==
  ASSUME IInv, RunQueue
  PROVE  LeaseInv' /\ SinkInv' /\ QueueInv' /\ HandlerInv'
<1> USE DEF IInv
<1>1. ASSUME CreateRefused PROVE LeaseInv' /\ SinkInv' /\ QueueInv' /\ HandlerInv'
  <2>1. "create" \in Logins BY DEF Logins, OwnerLogins
  <2> QED BY <1>1, <2>1, HeadLogin, RefusedSafe DEF CreateRefused
<1>2. ASSUME NEW s \in Session, Create(s) PROVE LeaseInv' /\ SinkInv' /\ QueueInv' /\ HandlerInv'
  <2>1. "create" \in Logins /\ Running("create") BY <1>2 DEF Create, Logins, OwnerLogins
  <2>2. entryConn[s] = None BY <1>2 DEF Create, LeaseInv
  <2>3. activeInput = None BY <1>2, <2>1, HeadLogin DEF Create, ensureLeaseAvailable
  <2> QED BY <1>2, <2>1, <2>2, <2>3, AttachedSafe DEF Create
<1>3. "resume" \in Logins /\ "guest" \in Logins BY DEF Logins, OwnerLogins
<1>4. ASSUME NEW c \in Conn, NEW s \in Session, Resuming(c, s)
      PROVE  /\ Running("resume") /\ c = Head(queue).conn /\ queue # <<>> /\ Head(queue).kind \in Logins
             /\ entryConn[s] # c /\ (ensureLeaseAvailable(c) => activeInput = None)
  BY <1>3, <1>4, HeadLogin DEF Resuming, ensureLeaseAvailable
<1>5. ASSUME NEW c \in Conn, NEW s \in Session, ResumeRefusedBeforeLookup(c, s) \/ HydrateFailed(c, s)
      PROVE  LeaseInv' /\ SinkInv' /\ QueueInv' /\ HandlerInv'
  BY <1>4, <1>5, RefusedSafe DEF ResumeRefusedBeforeLookup, HydrateFailed
<1>6. ASSUME NEW c \in Conn, NEW s \in Session, BeginHydrate(c, s)
      PROVE  LeaseInv' /\ SinkInv' /\ QueueInv' /\ HandlerInv'
  <2>1. LeaseInv' /\ SinkInv' BY <1>6, LeaseUntouched DEF BeginHydrate
  <2>2. QueueInv' BY <1>6, QueueKept DEF BeginHydrate, HandlersKept, registryVars, socketVars
  <2> QED BY <1>6, <2>1, <2>2 DEF BeginHydrate, HandlerInv, registryVars, socketVars
<1>7. ASSUME NEW c \in Conn, NEW s \in Session, HydratedTooLate(c, s)
      PROVE  LeaseInv' /\ SinkInv' /\ QueueInv' /\ HandlerInv'
  <2>1. LeaseInv' /\ SinkInv' BY <1>7, LeaseUntouched DEF HydratedTooLate
  <2> QED BY <1>4, <1>7, <2>1, LoginDone DEF HydratedTooLate, registryVars
<1>8. ASSUME NEW c \in Conn, NEW s \in Session, ResumeRefused(c, s)
      PROVE  LeaseInv' /\ SinkInv' /\ QueueInv' /\ HandlerInv'
  <2>1. LeaseInv' /\ SinkInv' BY <1>8 DEF ResumeRefused, LeaseInv, SinkInv
  <2> QED BY <1>4, <1>8, <2>1, LoginDone DEF ResumeRefused
<1>9. ASSUME NEW c \in Conn, NEW s \in Session, ResumeExpired(c, s)
      PROVE  LeaseInv' /\ SinkInv' /\ QueueInv' /\ HandlerInv'
  <2>1. entryConn[s] = None BY <1>4, <1>9 DEF ResumeExpired, HeldByOther
  <2>2. LeaseInv' /\ SinkInv' BY <1>9, <2>1, LeaseDropped DEF ResumeExpired
  <2> QED BY <1>4, <1>9, <2>2, LoginDone DEF ResumeExpired
<1>10. ASSUME NEW c \in Conn, NEW s \in Session, ResumeDetached(c, s)
      PROVE  LeaseInv' /\ SinkInv' /\ QueueInv' /\ HandlerInv'
  BY <1>3, <1>4, <1>10, AttachedSafe DEF ResumeDetached
<1>11. ASSUME NEW c \in Conn, NEW s \in Session, TakeOver(c, s)
      PROVE  LeaseInv' /\ SinkInv' /\ QueueInv' /\ HandlerInv'
  BY <1>3, <1>4, <1>11, AttachedSafe DEF TakeOver, mayTakeOver
<1>12. ASSUME GuestRefused PROVE LeaseInv' /\ SinkInv' /\ QueueInv' /\ HandlerInv'
  BY <1>3, <1>12, HeadLogin, RefusedSafe DEF GuestRefused
<1>13. ASSUME NEW c \in Conn, NEW k \in Client, Selecting(c, k)
       PROVE  /\ Running("guest") /\ c = Head(queue).conn /\ queue # <<>>
              /\ \A s \in Session : entryConn[s] # c
              /\ ensureLeaseAvailable(c) => activeInput = None
  BY <1>3, <1>13, HeadLogin DEF Selecting, ensureLeaseAvailable
<1>14. ASSUME NEW c \in Conn, NEW k \in Client, NEW s \in Session, GuestRebind(c, k, s)
       PROVE  LeaseInv' /\ SinkInv' /\ QueueInv' /\ HandlerInv'
  <2>1. LeaseInv' /\ SinkInv' BY <1>14, LeaseUntouched DEF GuestRebind
  <2>2. QueueInv' BY <1>14, QueueKept DEF GuestRebind, HandlersKept, registryVars, socketVars
  <2> QED BY <1>14, <2>1, <2>2 DEF GuestRebind, HandlerInv, registryVars, socketVars
<1>15. ASSUME NEW c \in Conn, NEW k \in Client, NEW s \in Session, GuestExpired(c, k, s)
       PROVE  LeaseInv' /\ SinkInv' /\ QueueInv' /\ HandlerInv'
  <2>1. LeaseInv' /\ SinkInv' BY <1>15, LeaseDropped DEF GuestExpired
  <2>2. QueueInv' BY <1>15, QueueKept DEF GuestExpired, HandlersKept, socketVars
  <2> QED BY <1>15, <2>1, <2>2 DEF GuestExpired, HandlerInv, socketVars
<1>16. ASSUME NEW c \in Conn, NEW k \in Client, NEW s \in Session, GuestBusy(c, k, s)
       PROVE  LeaseInv' /\ SinkInv' /\ QueueInv' /\ HandlerInv'
  BY <1>13, <1>16, RefusedSafe DEF GuestBusy
<1>17. ASSUME NEW c \in Conn, NEW k \in Client, NEW s \in Session, GuestAttached(c, k, s)
       PROVE  LeaseInv' /\ SinkInv' /\ QueueInv' /\ HandlerInv'
  <2>1. Running("guest") /\ c = Head(queue).conn /\ entryConn[s] # c /\ (ensureLeaseAvailable(c) => activeInput = None)
    BY <1>13, <1>17 DEF GuestAttached
  <2>2. activeInput = entryConn[s]
    <3>1. CASE HeldByOther(c, s) BY <1>17, <3>1 DEF GuestAttached, mayTakeOver
    <3>2. CASE ~HeldByOther(c, s)
      BY <1>17, <2>1, <3>2 DEF GuestAttached, HeldByOther
    <3> QED BY <3>1, <3>2
  <2> QED BY <1>3, <1>17, <2>1, <2>2, AttachedSafe DEF GuestAttached
<1>18. ASSUME NEW c \in Conn, Detach(c) PROVE LeaseInv' /\ SinkInv' /\ QueueInv' /\ HandlerInv'
  <2>1. queue # <<>> /\ Head(queue) \in Op /\ Head(queue).kind = "detach" /\ Tail(queue) \in Seq(Op)
    BY <1>18, QueueHead DEF Detach, Running, TypeOK, RegistryTypes
  <2>2. \A d \in Conn : connections'[d] = IF d = c THEN None ELSE connections[d]
    BY <1>18 DEF Detach, TypeOK, RegistryTypes
  <2>3. activeInput' = IF activeInput = c THEN None ELSE activeInput BY <1>18 DEF Detach
  <2>4. \A t \in Session : entryConn'[t] = IF entryConn[t] = c THEN None ELSE entryConn[t]
    <3>1. CASE connections[c] # None /\ entryConn[connections[c]] = c
      <4>1. entryConn' = [entryConn EXCEPT ![connections[c]] = None] BY <1>18, <3>1 DEF Detach
      <4> QED BY <3>1, <4>1 DEF TypeOK, RegistryTypes, LeaseInv
    <3>2. CASE ~(connections[c] # None /\ entryConn[connections[c]] = c)
      BY <1>18, <3>2 DEF Detach, TypeOK, RegistryTypes, LeaseInv
    <3> QED BY <3>1, <3>2
  <2>5. LeaseInv' BY <1>18, <2>2, <2>3, <2>4 DEF Detach, LeaseInv, TypeOK, RegistryTypes
  <2>6. \A t \in Session : sink'[t] = IF entryConn[t] = c THEN None ELSE sink[t]
    <3>1. CASE connections[c] # None /\ entryConn[connections[c]] = c
      <4>1. sink' = [sink EXCEPT ![connections[c]] = None] BY <1>18, <3>1 DEF Detach
      <4> QED BY <3>1, <4>1 DEF TypeOK, RegistryTypes, LeaseInv
    <3>2. CASE ~(connections[c] # None /\ entryConn[connections[c]] = c)
      BY <1>18, <3>2 DEF Detach, TypeOK, RegistryTypes, LeaseInv
    <3> QED BY <3>1, <3>2
  <2>7. SinkInv' BY <1>18, <2>4, <2>6 DEF Detach, SinkInv
  <2>8. QueueInv'
    <3>1. HandlersKept /\ \A d \in Conn : connections[d] = None => connections'[d] = None
      BY <1>18, <2>2 DEF Detach, HandlersKept, socketVars
    <3>2. CASE queue' = Tail(queue) BY <2>1, <3>1, <3>2, QueueServed
    <3>3. CASE queue' # Tail(queue)
      <4> DEFINE op == OpOf("expire", None, Head(queue).sess)
      <4>1. op \in Op /\ op.kind \notin Logins /\ queue' = Append(Tail(queue), op)
        BY <1>18, <2>1, <3>3 DEF Detach, Op, OpOf, Logins, OwnerLogins
      <4> HIDE DEF op
      <4>2. /\ Len(queue') = Len(Tail(queue)) + 1 /\ Len(Tail(queue)) \in Nat
            /\ \A i \in 1..Len(Tail(queue)) : queue'[i] = Tail(queue)[i]
            /\ queue'[Len(Tail(queue)) + 1] = op
        BY <2>1, <4>1
      <4>3. \A i \in 1..Len(queue') : queue'[i].kind \in Logins =>
              i \in 1..Len(Tail(queue)) /\ i+1 \in 1..Len(queue) /\ queue'[i] = queue[i+1]
        <5> SUFFICES ASSUME NEW i \in 1..Len(queue'), queue'[i].kind \in Logins
                     PROVE  i \in 1..Len(Tail(queue)) /\ i+1 \in 1..Len(queue) /\ queue'[i] = queue[i+1]
          OBVIOUS
        <5>1. i # Len(Tail(queue)) + 1 BY <4>1, <4>2
        <5>2. i \in 1..Len(Tail(queue)) BY <4>2, <5>1
        <5> QED BY <2>1, <4>2, <5>2, QueueHead DEF TypeOK, RegistryTypes
      <4>4. \A i \in 1..Len(queue) : queue[i].kind \in Logins => queue[i].conn \in Conn BY LoginOp
      <4>5. \A i \in 1..Len(queue') : queue'[i].kind \in Logins =>
              connections'[queue'[i].conn] = None /\ phase'[queue'[i].conn] # "new" /\ clientOf'[queue'[i].conn] # None
        BY <3>1, <4>3, <4>4 DEF QueueInv, HandlersKept
      <4>6. ASSUME NEW i \in 1..Len(queue'), NEW j \in 1..Len(queue'),
                   queue'[i].kind \in Logins, queue'[j].kind \in Logins, queue'[i].conn = queue'[j].conn
            PROVE  i = j
        <5>1. i+1 = j+1 BY <4>3, <4>6 DEF QueueInv
        <5> QED BY <5>1, <4>2
      <4> QED BY <4>5, <4>6 DEF QueueInv
    <3> QED BY <3>2, <3>3
  <2>9. HandlerInv' BY <1>18, <2>2 DEF Detach, HandlerInv, socketVars
  <2> QED BY <2>5, <2>7, <2>8, <2>9
<1>19. ASSUME NEW s \in Session, ForcedExpiry(s) PROVE LeaseInv' /\ SinkInv' /\ QueueInv' /\ HandlerInv'
  <2>1. queue # <<>> /\ Head(queue).kind = "expire" BY <1>19 DEF ForcedExpiry, Running
  <2>2. LeaseInv' /\ SinkInv'
    <3>1. CASE s \in live /\ entryConn[s] = None
      BY <1>19, <3>1, LeaseDropped DEF ForcedExpiry
    <3>2. CASE ~(s \in live /\ entryConn[s] = None)
      BY <1>19, <3>2, LeaseUntouched DEF ForcedExpiry, registryVars
    <3> QED BY <3>1, <3>2
  <2>3. QueueInv' BY <1>19, <2>1, QueueServed DEF ForcedExpiry, Dequeue, HandlersKept, socketVars
  <2> QED BY <1>19, <2>2, <2>3 DEF ForcedExpiry, HandlerInv, socketVars
<1>20. ASSUME NEW s \in Session, End(s) PROVE LeaseInv' /\ SinkInv' /\ QueueInv' /\ HandlerInv'
  <2>1. queue # <<>> BY <1>20 DEF End, Running
  <2>2. \A d \in Conn : connections'[d] \in {None, connections[d]}
    BY <1>20 DEF End, registryVars, TypeOK, RegistryTypes
  <2>3. QueueInv' BY <1>20, <2>1, <2>2, QueueServed DEF End, Dequeue, HandlersKept, socketVars
  <2>4. HandlerInv' BY <1>20, <2>2 DEF End, HandlerInv, socketVars
  <2>5. LeaseInv' /\ SinkInv'
    <3>1. CASE s \notin live BY <1>20, <3>1, LeaseUntouched DEF End
    <3>2. CASE s \in live
      <4>1. /\ live' = live \ {s} /\ activeInput' = (IF activeInput = entryConn[s] THEN None ELSE activeInput)
            /\ connections' = [c \in Conn |-> IF c = entryConn[s] THEN None ELSE connections[c]]
        BY <1>20, <3>2 DEF End, Drop
      <4>2. \A t \in Session : /\ entryConn'[t] = IF t = s THEN None ELSE entryConn[t]
                               /\ sink'[t] = IF t = s THEN None ELSE sink[t]
        BY <1>20, <3>2 DEF End, Drop
      <4>3. LeaseInv' BY <4>1, <4>2 DEF LeaseInv, TypeOK, RegistryTypes
      <4> QED BY <4>1, <4>2, <4>3 DEF SinkInv
    <3> QED BY <3>1, <3>2
  <2> QED BY <2>3, <2>4, <2>5
<1> HIDE DEF IInv
<1> QED BY <1>1, <1>2, <1>5, <1>6, <1>7, <1>8, <1>9, <1>10, <1>11, <1>12, <1>14, <1>15, <1>16, <1>17,
           <1>18, <1>19, <1>20 DEF RunQueue

-----------------------------------------------------------------------------
(* Timers, background writes and the process.                              *)

\* The timer, the background writes, the stop and the crash keep the invariant.
LEMMA BackgroundSafe ==
  ASSUME IInv, Background \/ Tick
  PROVE  LeaseInv' /\ SinkInv' /\ QueueInv' /\ HandlerInv'
<1> USE DEF IInv
<1>1. ASSUME sweepExpired PROVE LeaseInv' /\ SinkInv' /\ QueueInv' /\ HandlerInv'
  <2>1. LeaseInv' /\ SinkInv' BY <1>1, LeaseDropped DEF sweepExpired
  <2>2. QueueInv' BY <1>1, QueueKept DEF sweepExpired, HandlersKept, socketVars
  <2> QED BY <1>1, <2>1, <2>2 DEF sweepExpired, HandlerInv, socketVars
<1>2. ASSUME Shutdown PROVE LeaseInv' /\ SinkInv' /\ QueueInv' /\ HandlerInv'
  <2>1. \A t \in Session : entryConn'[t] = None /\ sink'[t] = None
    BY <1>2 DEF Shutdown, Drop, LeaseInv, SinkInv
  <2>2. QueueInv' BY <1>2, QueueKept DEF Shutdown, HandlersKept, socketVars
  <2> QED BY <1>2, <2>1, <2>2 DEF Shutdown, LeaseInv, SinkInv, HandlerInv, socketVars
<1>3. ASSUME Stop PROVE LeaseInv' /\ SinkInv' /\ QueueInv' /\ HandlerInv'
  <2>1. LeaseInv' /\ SinkInv' BY <1>3, LeaseUntouched DEF Stop
  <2>2. \A c \in Conn : phase'[c] = phase[c] \/ (phase[c] # "new" /\ phase'[c] = "closing")
    BY <1>3 DEF Stop
  <2>3. QueueInv' BY <1>3, <2>2, QueueKept DEF Stop, HandlersKept, registryVars
  <2> QED BY <1>3, <2>1, <2>2, <2>3 DEF Stop, HandlerInv, registryVars
<1>4. ASSUME Restart PROVE LeaseInv' /\ SinkInv' /\ QueueInv' /\ HandlerInv'
  BY <1>4 DEF Restart, LeaseInv, SinkInv, QueueInv, HandlerInv
<1>5. ASSUME Tick \/ \E s \in Session, st \in LiveStatus : BackgroundWrite(s, st)
      PROVE  LeaseInv' /\ SinkInv' /\ QueueInv' /\ HandlerInv'
  <2>1. UNCHANGED <<live, entryConn, connections, activeInput, queue, sink, phase, clientOf, binding, sessOf>>
    BY <1>5 DEF Tick, BackgroundWrite, registryVars, socketVars
  <2> QED BY <2>1 DEF LeaseInv, SinkInv, QueueInv, HandlerInv
<1> HIDE DEF IInv
<1> QED BY <1>1, <1>2, <1>3, <1>4, <1>5 DEF Background

-----------------------------------------------------------------------------
(* The theorems.                                                           *)

\* An empty registry over an empty store satisfies the invariant.
LEMMA InitSafe == Init => IInv
<1> SUFFICES ASSUME Init PROVE IInv OBVIOUS
<1>1. queue \in Seq(Op) /\ 0 \in 0..Window BY DEF Init
<1>2. TypeOK BY <1>1 DEF Init, TypeOK, RegistryTypes, SocketTypes, StoreTypes, LiveStatus, Phases
<1>3. LeaseInv /\ SinkInv /\ QueueInv /\ HandlerInv BY DEF Init, LeaseInv, SinkInv, QueueInv, HandlerInv
<1> QED BY <1>2, <1>3 DEF IInv

\* Every step keeps the invariant.
LEMMA StepSafe == IInv /\ [Next]_vars => IInv'
<1> SUFFICES ASSUME IInv, [Next]_vars PROVE IInv' OBVIOUS
<1>1. CASE RunQueue BY <1>1, QueueStepTypes, QueueSafe DEF IInv
<1>2. CASE Sockets BY <1>2, SocketStepTypes, SocketSafe DEF IInv
<1>3. CASE Background \/ Tick BY <1>3, BackgroundStepTypes, BackgroundSafe DEF IInv
<1>4. CASE UNCHANGED vars
  BY <1>4 DEF vars, registryVars, socketVars, storeVars, IInv, TypeOK, RegistryTypes, SocketTypes, StoreTypes,
              LeaseInv, SinkInv, QueueInv, HandlerInv
<1> QED BY <1>1, <1>2, <1>3, <1>4 DEF Next

\* The inductive invariant: the lease, the sinks and the queue of logins hold
\* together; none of the three is inductive alone.
THEOREM Inductive == Spec => []IInv
<1> QED BY InitSafe, StepSafe, PTL DEF Spec

\* Every variable keeps its type, for any number of sockets and sessions.
THEOREM TypeCorrect == Spec => []TypeOK
<1>1. IInv => TypeOK BY DEF IInv
<1> QED BY <1>1, Inductive, PTL

\* Whatever the interleaving of hellos, closes, takeovers, expiries and
\* restarts, at most one connection drives at most one conversation and the
\* registry's three records of it agree.
THEOREM LeaseSafe == Spec => []LeaseInv
<1>1. IInv => LeaseInv BY DEF IInv
<1> QED BY <1>1, Inductive, PTL

\* A runtime emits to the connection that holds its lease or to nobody.
THEOREM SinkSafe == Spec => []SinkInv
<1>1. IInv => SinkInv BY DEF IInv
<1> QED BY <1>1, Inductive, PTL

\* Both together: one connection drives a conversation and hears it, however
\* many devices, sockets and conversations there are.
THEOREM LeaseHeldAlways == Spec => []LeaseHeld
BY LeaseSafe, SinkSafe, PTL DEF LeaseHeld

\* No connection has two logins queued, or one while it holds a lease.
THEOREM LoginsSafe == Spec => []QueueInv
<1>1. IInv => QueueInv BY DEF IInv
<1> QED BY <1>1, Inductive, PTL

-----------------------------------------------------------------------------
(* The abstract lease.                                                     *)

\* What the abstract lease sees of the registry: the session driven, the
\* sockets that are gone.
Drives == IF activeInput = None THEN None ELSE connections[activeInput]
Dead == {c \in Conn : phase[c] = "closed"}

\* A step that the abstract lease does not see.
LeaseKept == UNCHANGED <<activeInput, Drives, Dead>>
Given     == activeInput = None /\ activeInput' \in Conn /\ Drives' \in Session /\ Dead' = Dead
HandedOn  == activeInput # None /\ activeInput' \in Conn \ {activeInput} /\ UNCHANGED <<Drives, Dead>>
Returned  == activeInput # None /\ activeInput' = None /\ Drives' = None /\ Dead' = Dead
SocketsGone ==
  /\ Dead \subseteq Dead' /\ Dead' # Dead /\ Dead' \subseteq Conn
  /\ UNCHANGED <<activeInput, Drives>> \/ (activeInput' = None /\ Drives' = None)

\* The abstract lease, step by step.
LEMMA LeaseSteps ==
  ASSUME LeaseKept \/ Given \/ HandedOn \/ Returned \/ SocketsGone
  PROVE  [Lease!Next]_(Lease!leaseVars)
  BY DEF LeaseKept, Given, HandedOn, Returned, SocketsGone, Drives, Dead,
         Lease!Next, Lease!leaseVars, Lease!Take, Lease!HandOver, Lease!Release, Lease!Die

\* Only the connections map, activeInput and closed sockets are seen.
LEMMA LeaseUnseen ==
  ASSUME UNCHANGED <<activeInput, connections>>,
         \A c \in Conn : phase'[c] = "closed" <=> phase[c] = "closed"
  PROVE  LeaseKept
  BY DEF LeaseKept, Drives, Dead

\* attach takes a free lease, or the lease of the entry it replaces.
LEMMA LeaseGiven ==
  ASSUME TypeOK, LeaseInv, NEW s \in Session, NEW c \in Conn, connections[c] = None,
         activeInput = entryConn[s], attach(s, c, entryConn[s]), UNCHANGED phase
  PROVE  Given \/ HandedOn
<1> USE DEF TypeOK, RegistryTypes
<1>1. activeInput' = c /\ connections'[c] = s /\ Dead' = Dead BY DEF attach, Dead
<1>2. Drives' = s BY <1>1 DEF Drives
<1>3. CASE activeInput = None BY <1>1, <1>2, <1>3 DEF Given
<1>4. CASE activeInput # None
  <2>1. Drives = s BY <1>4 DEF Drives, LeaseInv
  <2>2. activeInput # c BY <1>4 DEF LeaseInv
  <2> QED BY <1>1, <1>2, <1>4, <2>1, <2>2 DEF HandedOn
<1> QED BY <1>3, <1>4

\* Every event of a socket or of guest mode.
LEMMA SocketLease ==
  ASSUME IInv, Sockets
  PROVE  LeaseKept \/ SocketsGone
<1> USE DEF IInv, TypeOK, SocketTypes
<1>1. ASSUME NEW c \in Conn, Authenticated(c) PROVE LeaseKept
  <2>1. \A d \in Conn : phase'[d] = "closed" <=> phase[d] = "closed"
    BY <1>1 DEF Authenticated, Reject
  <2> QED BY <1>1, <2>1, LeaseUnseen DEF Authenticated, registryVars
<1>2. ASSUME NEW c \in Conn, StartClose(c) \/ MessageWithoutLease(c) \/ ExitConfirm(c) \/ AccessRevoked(c)
      PROVE  LeaseKept
  BY <1>2, LeaseUnseen DEF StartClose, MessageWithoutLease, ExitConfirm, AccessRevoked, registryVars
<1>3. ASSUME NEW k, RevokeClient(k), UNCHANGED registryVars PROVE LeaseKept
  BY <1>3, LeaseUnseen DEF RevokeClient, registryVars
<1>4. ASSUME NEW c \in Conn, Unlock(c) \/ \E s \in Session : EnterGuest(c, s) PROVE LeaseKept
  BY <1>3, <1>4 DEF Unlock, EnterGuest
<1>5. ASSUME NEW k \in Client, SweepInvalid(k) PROVE LeaseKept
  BY <1>3, <1>5 DEF SweepInvalid
<1>6. ASSUME NEW c \in Conn, NEW forced \in BOOLEAN, Close(c, forced) PROVE SocketsGone
  <2>1. Dead' = Dead \cup {c} /\ c \notin Dead BY <1>6 DEF Close, Dead
  <2> QED BY <1>6, <2>1 DEF SocketsGone, Close, registryVars, Drives, Dead
<1>7. ASSUME NEW c \in Conn, NEW k \in Client,
             HelloGuest(c, k) \/ \E kind \in OwnerLogins, s \in Session \cup {None} : HelloOwner(c, k, kind, s)
      PROVE  LeaseKept
  BY <1>7, LeaseUnseen DEF HelloGuest, HelloOwner, registryVars
<1> HIDE DEF IInv
<1> QED BY <1>1, <1>2, <1>4, <1>5, <1>6, <1>7 DEF Sockets

\* A connection loses the lease with its entry of the connections map.
LEMMA LeaseReturned ==
  ASSUME TypeOK, LeaseInv, UNCHANGED phase, NEW c \in Conn \cup {None},
         activeInput' = IF activeInput = c THEN None ELSE activeInput,
         \A d \in Conn \ {c} : connections'[d] = connections[d]
  PROVE  LeaseKept \/ Returned
<1>1. Dead' = Dead BY DEF Dead
<1>2. CASE activeInput = None BY <1>1, <1>2 DEF LeaseKept, Drives
<1>3. CASE activeInput # None /\ activeInput = c BY <1>1, <1>3 DEF Returned, Drives
<1>4. CASE activeInput # None /\ activeInput # c
  <2>1. activeInput \in Conn \ {c} BY <1>4 DEF TypeOK, RegistryTypes
  <2> QED BY <1>1, <1>4, <2>1 DEF LeaseKept, Drives
<1> QED BY <1>2, <1>3, <1>4

\* Every operation of the queue.
LEMMA QueueLease ==
  ASSUME IInv, RunQueue
  PROVE  LeaseKept \/ Given \/ HandedOn \/ Returned
<1> USE DEF IInv
<1>1. ASSUME NEW c \in Conn, LoginRefused(c) PROVE LeaseKept
  <2>1. \A d \in Conn : phase'[d] = "closed" <=> phase[d] = "closed"
    BY <1>1 DEF LoginRefused, Reject, TypeOK, SocketTypes
  <2> QED BY <1>1, <2>1, LeaseUnseen DEF LoginRefused, registryVars
<1>2. "create" \in Logins /\ "resume" \in Logins /\ "guest" \in Logins BY DEF Logins, OwnerLogins
<1>3. ASSUME CreateRefused \/ GuestRefused PROVE LeaseKept
  BY <1>1, <1>2, <1>3, HeadLogin DEF CreateRefused, GuestRefused
<1>4. ASSUME NEW s \in Session, Create(s) PROVE Given \/ HandedOn
  <2>1. Running("create") /\ entryConn[s] = None BY <1>4 DEF Create, LeaseInv
  <2>2. connections[Head(queue).conn] = None /\ activeInput = None /\ Head(queue).conn \in Conn
    BY <1>2, <1>4, <2>1, HeadLogin DEF Create, ensureLeaseAvailable
  <2> QED BY <1>4, <2>1, <2>2, LeaseGiven DEF Create
<1>5. ASSUME NEW c \in Conn, NEW s \in Session, Resuming(c, s)
      PROVE  connections[c] = None /\ (ensureLeaseAvailable(c) => activeInput = None)
  BY <1>2, <1>5, HeadLogin DEF Resuming, ensureLeaseAvailable
<1>6. ASSUME NEW c \in Conn, NEW s \in Session,
             ResumeRefusedBeforeLookup(c, s) \/ HydrateFailed(c, s)
      PROVE  LeaseKept
  BY <1>1, <1>6 DEF ResumeRefusedBeforeLookup, HydrateFailed
<1>7. ASSUME NEW c \in Conn, NEW s \in Session,
             BeginHydrate(c, s) \/ HydratedTooLate(c, s) \/ ResumeRefused(c, s) \/ ResumeExpired(c, s)
      PROVE  LeaseKept
  <2>1. \A d \in Conn : phase'[d] = "closed" <=> phase[d] = "closed"
    BY <1>7 DEF BeginHydrate, HydratedTooLate, ResumeRefused, ResumeExpired, Reject, socketVars, TypeOK, SocketTypes
  <2> QED BY <1>7, <2>1, LeaseUnseen DEF BeginHydrate, HydratedTooLate, ResumeRefused, ResumeExpired, registryVars
<1>8. ASSUME NEW c \in Conn, NEW s \in Session, ResumeDetached(c, s) \/ TakeOver(c, s)
      PROVE  Given \/ HandedOn
  <2>1. connections[c] = None /\ activeInput = entryConn[s] /\ attach(s, c, entryConn[s]) /\ UNCHANGED phase
    BY <1>5, <1>8 DEF ResumeDetached, TakeOver, mayTakeOver
  <2> QED BY <2>1, LeaseGiven
<1>9. ASSUME NEW c \in Conn, NEW k \in Client, NEW s \in Session,
             GuestRebind(c, k, s) \/ GuestExpired(c, k, s)
      PROVE  LeaseKept
  BY <1>9, LeaseUnseen DEF GuestRebind, GuestExpired, registryVars, socketVars
<1>10. ASSUME NEW c \in Conn, NEW k \in Client, NEW s \in Session, GuestBusy(c, k, s) PROVE LeaseKept
  BY <1>1, <1>10 DEF GuestBusy
<1>11. ASSUME NEW c \in Conn, NEW k \in Client, NEW s \in Session, GuestAttached(c, k, s)
       PROVE  Given \/ HandedOn
  <2>1. connections[c] = None /\ entryConn[s] # c /\ (ensureLeaseAvailable(c) => activeInput = None)
    BY <1>2, <1>11, HeadLogin DEF GuestAttached, Selecting, ensureLeaseAvailable
  <2>2. activeInput = entryConn[s]
    BY <1>11, <2>1 DEF GuestAttached, HeldByOther, mayTakeOver
  <2> QED BY <1>11, <2>1, <2>2, LeaseGiven DEF GuestAttached
<1>12. ASSUME NEW c \in Conn, Detach(c) PROVE LeaseKept \/ Returned
  <2>1. /\ activeInput' = IF activeInput = c THEN None ELSE activeInput
        /\ \A d \in Conn \ {c} : connections'[d] = connections[d]
    BY <1>12 DEF Detach, TypeOK, RegistryTypes
  <2> QED BY <1>12, <2>1, LeaseReturned DEF Detach, socketVars
<1>13. ASSUME NEW s \in Session, ForcedExpiry(s) PROVE LeaseKept
  BY <1>13, LeaseUnseen DEF ForcedExpiry, socketVars
<1>14. ASSUME NEW s \in Session, End(s) PROVE LeaseKept \/ Returned
  <2>1. CASE s \in live
    <3>1. entryConn[s] \in Conn \cup {None} BY DEF TypeOK, RegistryTypes
    <3>2. /\ activeInput' = IF activeInput = entryConn[s] THEN None ELSE activeInput
          /\ \A d \in Conn \ {entryConn[s]} : connections'[d] = connections[d]
      BY <1>14, <2>1 DEF End
    <3> QED BY <1>14, <3>1, <3>2, LeaseReturned DEF End, socketVars
  <2>2. CASE s \notin live BY <1>14, <2>2, LeaseUnseen DEF End, registryVars, socketVars
  <2> QED BY <2>1, <2>2
<1> HIDE DEF IInv
<1> QED BY <1>3, <1>4, <1>6, <1>7, <1>8, <1>9, <1>10, <1>11, <1>12, <1>13, <1>14 DEF RunQueue

\* Timers and the process.
LEMMA BackgroundLease ==
  ASSUME IInv, Background \/ Tick
  PROVE  LeaseKept \/ Returned \/ SocketsGone
<1> USE DEF IInv
<1>1. ASSUME Tick \/ sweepExpired \/ Stop \/ \E s \in Session, st \in LiveStatus : BackgroundWrite(s, st)
      PROVE  LeaseKept
  <2>1. \A c \in Conn : phase'[c] = "closed" <=> phase[c] = "closed"
    BY <1>1 DEF Tick, sweepExpired, Stop, BackgroundWrite, socketVars
  <2> QED BY <1>1, <2>1, LeaseUnseen DEF Tick, sweepExpired, Stop, BackgroundWrite, registryVars
<1>2. ASSUME Shutdown PROVE LeaseKept \/ Returned
  <2>1. UNCHANGED Dead /\ activeInput' = None BY <1>2 DEF Shutdown, socketVars, Dead
  <2>2. Drives' = None BY <2>1 DEF Drives
  <2>3. activeInput = None => Drives = None BY DEF Drives
  <2> QED BY <2>1, <2>2, <2>3 DEF LeaseKept, Returned
<1>3. ASSUME Restart PROVE LeaseKept \/ Returned \/ SocketsGone
  <2>1. activeInput' = None /\ Dead \subseteq Dead' /\ Dead' \subseteq Conn
    BY <1>3 DEF Restart, Dead
  <2>2. Drives' = None BY <2>1 DEF Drives
  <2>3. activeInput = None => Drives = None BY DEF Drives
  <2> QED BY <2>1, <2>2, <2>3 DEF LeaseKept, Returned, SocketsGone
<1> HIDE DEF IInv
<1> QED BY <1>1, <1>2, <1>3 DEF Background

\* The registry with its sockets implements the abstract lease: every step takes
\* a free lease, hands it on for the same session, gives it back, loses its
\* holder with its socket, or is not seen.
THEOREM ImplementsLease == Spec => Lease!Promise
<1>1. Init => Lease!Init BY DEF Init, Lease!Init
<1>2. IInv /\ [Next]_vars => [Lease!Next]_(Lease!leaseVars)
  <2> SUFFICES ASSUME IInv, [Next]_vars PROVE [Lease!Next]_(Lease!leaseVars) OBVIOUS
  <2>1. CASE RunQueue BY <2>1, QueueLease, LeaseSteps
  <2>2. CASE Sockets BY <2>2, SocketLease, LeaseSteps
  <2>3. CASE Background \/ Tick BY <2>3, BackgroundLease, LeaseSteps
  <2>4. CASE UNCHANGED vars
    BY <2>4, LeaseSteps DEF vars, registryVars, socketVars, LeaseKept, Drives, Dead
  <2> QED BY <2>1, <2>2, <2>3, <2>4 DEF Next
<1> QED BY <1>1, <1>2, Inductive, PTL DEF Spec, Lease!Promise

-----------------------------------------------------------------------------
(***************************************************************************)
(* The registry, its queue and the rows of the store agree, and a session  *)
(* that is over stays so.  The queue carries what was true when it was     *)
(* filled: RowInv says what of that is still true when an operation runs,  *)
(* and who has a claim on which session.                                   *)
(***************************************************************************)

(* The inductive invariant.                                                *)

\* A resume waits for an owner's session that has a row.
QueuedResumes ==
  \A i \in 1..Len(queue) : queue[i].kind = "resume" =>
     queue[i].sess \in Session \ guests /\ status[queue[i].sess] # "none"

\* Guest sessions have rows, and a lock names a guest session.
GuestRows ==
  /\ \A s \in guests : status[s] # "none"
  /\ \A k \in Client : lock[k] # None => lock[k] \in guests

\* A hydration belongs to the head resume, whose session is not in memory and
\* whose row cannot end meanwhile.
Hydrating ==
  hydration # None =>
    /\ Running("resume")
    /\ Head(queue).sess \notin live
    /\ status[Head(queue).sess] \in LiveStatus

\* What gives client k a say over session s.
Claims(k, s) ==
  \/ <<k, s>> \in creds
  \/ entryClient[s] = k
  \/ lock[k] = s
  \/ \E c \in Conn : binding[c] = s /\ clientOf[c] = k

\* A session has one client for good.
OneClaimant ==
  \A s \in Session, k \in Client : Claims(k, s) =>
     status[s] # "none" /\ \A j \in Client : Claims(j, s) => j = k

\* A detach of c is queued behind place i.
Detaching(c, i) == \E j \in 1..Len(queue) : j > i /\ queue[j].kind = "detach" /\ queue[j].conn = c

\* The detach of a closed socket is behind its login, and pending while the
\* socket is attached.
ClosedDetach ==
  /\ \A c \in Conn : phase[c] = "closed" /\ connections[c] # None => Detaching(c, 0)
  /\ \A i \in 1..Len(queue) : queue[i].kind \in Logins /\ phase[queue[i].conn] = "closed" =>
        Detaching(queue[i].conn, i)

\* An owner's entry has a live row, and an active one while it is listened to.
EntryRows ==
  \A s \in live \ guests : /\ status[s] \in LiveStatus
                           /\ sink[s] # None => status[s] = "active"

\* An authenticated handler knows its client.
ReadyClients == \A c \in Conn : phase[c] = "ready" => clientOf[c] # None

RowInv == QueuedResumes /\ GuestRows /\ Hydrating /\ OneClaimant /\ ClosedDetach /\ EntryRows /\ ReadyClients

-----------------------------------------------------------------------------
(* The rows of the store.                                                  *)

\* What a step may do to the rows of the store.
RowsMove ==
  \A s \in Session :
     /\ status[s] \in {"ended", "expired"} => status'[s] = status[s]
     /\ status[s] # "none" => status'[s] # "none"
     /\ s \in guests => s \in guests'
     /\ s \in guests' \ guests => status[s] = "none" /\ status'[s] = "active"

\* Every update of the rows that finishes, idles or activates some of them.
LEMMA RowForms ==
  ASSUME TypeOK, guests' = guests,
         \/ status' = status
         \/ \E S, st : st \in {"ended", "expired"} /\ status' = Finished(S, st)
         \/ \E S : status' = Idled(S)
         \/ \E s \in Session : status' = Activated(s)
  PROVE  RowsMove
  BY DEF RowsMove, Finished, Idled, Activated, TypeOK, StoreTypes, LiveStatus

\* Sockets and guest mode move rows forward only.
LEMMA SocketRows ==
  ASSUME TypeOK, Sockets
  PROVE  RowsMove
<1>1. ASSUME NEW c \in Conn, Authenticated(c) \/ StartClose(c) \/ MessageWithoutLease(c) \/ ExitConfirm(c)
      PROVE  RowsMove
  BY <1>1, RowForms DEF Authenticated, StartClose, MessageWithoutLease, ExitConfirm, storeVars
<1>2. ASSUME NEW c \in Conn, AccessRevoked(c) PROVE RowsMove
  BY <1>2, RowForms DEF AccessRevoked
<1>3. ASSUME NEW c \in Conn, Unlock(c) PROVE RowsMove
  <2>1. \A s \in Session : status'[s] \in {status[s], Idled(OwnedBy(clientOf[c]))[s], Finished({sessOf[c]}, "ended")[s]}
    BY <1>3 DEF Unlock, Idled, TypeOK, StoreTypes
  <2> QED BY <1>3, <2>1 DEF Unlock, RowsMove, Idled, Finished, LiveStatus
<1>4. ASSUME NEW c \in Conn, NEW forced \in BOOLEAN, Close(c, forced) PROVE RowsMove
  BY <1>4, RowForms DEF Close, storeVars
<1>5. ASSUME NEW c \in Conn, NEW k \in Client,
             HelloGuest(c, k) \/ \E kind \in OwnerLogins, s \in Session \cup {None} : HelloOwner(c, k, kind, s)
      PROVE  RowsMove
  BY <1>5, RowForms DEF HelloGuest, HelloOwner, storeVars
<1>6. ASSUME NEW c \in Conn, NEW s \in Session, EnterGuest(c, s) PROVE RowsMove
  <2>1. \A t \in Session : status'[t] = IF t = s THEN "active" ELSE Idled(OwnedBy(clientOf[c]))[t]
    BY <1>6 DEF EnterGuest, Idled
  <2> QED BY <1>6, <2>1 DEF EnterGuest, Fresh, RowsMove, Idled, LiveStatus
<1>7. ASSUME NEW k \in Client, SweepInvalid(k) PROVE RowsMove
  BY <1>7, RowForms DEF SweepInvalid
<1> QED BY <1>1, <1>2, <1>3, <1>4, <1>5, <1>6, <1>7 DEF Sockets

\* Registry operations move rows forward only.
LEMMA QueueRows ==
  ASSUME TypeOK, RunQueue
  PROVE  RowsMove
<1>1. ASSUME CreateRefused \/ GuestRefused PROVE RowsMove
  BY <1>1, RowForms DEF CreateRefused, GuestRefused, LoginRefused, storeVars
<1>2. ASSUME NEW s \in Session, Create(s) PROVE RowsMove
  BY <1>2 DEF Create, Fresh, RowsMove, TypeOK, StoreTypes
<1>3. ASSUME NEW c \in Conn, NEW s \in Session,
             \/ ResumeRefusedBeforeLookup(c, s) \/ HydrateFailed(c, s) \/ BeginHydrate(c, s)
             \/ ResumeRefused(c, s)
      PROVE  RowsMove
  BY <1>3, RowForms DEF ResumeRefusedBeforeLookup, HydrateFailed, BeginHydrate, ResumeRefused, LoginRefused, storeVars
<1>4. ASSUME NEW c \in Conn, NEW s \in Session, HydratedTooLate(c, s) \/ ResumeExpired(c, s)
      PROVE  RowsMove
  BY <1>4, RowForms DEF HydratedTooLate, ResumeExpired, Terminate
<1>5. ASSUME NEW c \in Conn, NEW s \in Session, ResumeDetached(c, s) \/ TakeOver(c, s) PROVE RowsMove
  BY <1>5, RowForms DEF ResumeDetached, TakeOver
<1>6. ASSUME NEW c \in Conn, NEW k \in Client, NEW s \in Session, GuestRebind(c, k, s) PROVE RowsMove
  <2>1. \A t \in Session : status'[t] = IF t = s THEN "active" ELSE Finished({lock[k]}, "expired")[t]
    BY <1>6 DEF GuestRebind, Finished
  <2> QED BY <1>6, <2>1 DEF GuestRebind, Fresh, RowsMove, Finished, LiveStatus
<1>7. ASSUME NEW c \in Conn, NEW k \in Client, NEW s \in Session,
             GuestExpired(c, k, s) \/ GuestBusy(c, k, s) \/ GuestAttached(c, k, s)
      PROVE  RowsMove
  BY <1>7, RowForms DEF GuestExpired, Terminate, GuestBusy, LoginRefused, storeVars, GuestAttached
<1>8. ASSUME NEW c \in Conn, Detach(c) PROVE RowsMove
  BY <1>8, RowForms DEF Detach
<1>9. ASSUME NEW s \in Session, ForcedExpiry(s) \/ End(s) PROVE RowsMove
  BY <1>9, RowForms DEF ForcedExpiry, End, Terminate
<1> QED BY <1>1, <1>2, <1>3, <1>4, <1>5, <1>6, <1>7, <1>8, <1>9 DEF RunQueue

\* Timers, background writes and restarts move rows forward only.
LEMMA BackgroundRows ==
  ASSUME TypeOK, Background \/ Tick
  PROVE  RowsMove
<1>1. ASSUME sweepExpired \/ Shutdown \/ Stop \/ Tick PROVE RowsMove
  BY <1>1, RowForms DEF sweepExpired, Shutdown, Stop, Tick, Terminate, storeVars
<1>2. ASSUME Restart PROVE RowsMove
  BY <1>2 DEF Restart, RowsMove
<1>3. ASSUME NEW s \in Session, NEW st \in LiveStatus, BackgroundWrite(s, st) PROVE RowsMove
  BY <1>3 DEF BackgroundWrite, RowsMove, LiveStatus, TypeOK, StoreTypes
<1> QED BY <1>1, <1>2, <1>3 DEF Background

\* Every step moves rows forward only: a session that is over stays over.
LEMMA RowsStep ==
  ASSUME TypeOK, [Next]_vars
  PROVE  RowsMove
<1>1. CASE UNCHANGED vars BY <1>1, RowForms DEF vars, storeVars
<1> QED BY <1>1, SocketRows, QueueRows, BackgroundRows DEF Next
-----------------------------------------------------------------------------
(* The queue.                                                              *)

\* The queue keeps its operations and may get new ones behind them.
Grows ==
  /\ Len(queue) <= Len(queue')
  /\ \A i \in 1..Len(queue) : queue'[i] = queue[i]
  /\ \A i \in Len(queue)+1..Len(queue') :
       /\ queue'[i].kind \in Logins => phase'[queue'[i].conn] # "closed"
       /\ queue'[i].kind = "resume" => queue'[i].sess \in Session \ guests' /\ status'[queue'[i].sess] # "none"

\* The first operation leaves the queue; a detach may leave one behind that is no login.
Serves ==
  /\ queue # <<>> /\ hydration' = None
  /\ \A i \in 2..Len(queue) : i-1 \in 1..Len(queue') /\ queue'[i-1] = queue[i]
  /\ \A i \in 1..Len(queue') : queue'[i].kind \in Logins => i+1 \in 1..Len(queue) /\ queue'[i] = queue[i+1]

\* A socket is closed for good; one that closes now has its detach queued last.
ClosesDetaching ==
  \A c \in Conn : phase'[c] = "closed" =>
    phase[c] = "closed" \/ \E j \in Len(queue)+1..Len(queue') : queue'[j].kind = "detach" /\ queue'[j].conn = c

\* A queue that stays grows by nothing.
LEMMA GrowsByNothing == ASSUME TypeOK, queue' = queue PROVE Grows
  BY DEF Grows, TypeOK, RegistryTypes

\* A login of an open socket, or any other operation, is queued last.
LEMMA GrowsByOne ==
  ASSUME TypeOK, NEW op \in Op, queue' = Append(queue, op),
         op.kind \in Logins => phase'[op.conn] # "closed",
         op.kind = "resume" => op.sess \in Session \ guests' /\ status'[op.sess] # "none"
  PROVE  Grows /\ Len(queue') = Len(queue) + 1 /\ queue'[Len(queue)+1] = op
<1>1. /\ Len(queue) \in Nat /\ Len(queue') = Len(queue) + 1
      /\ \A i \in 1..Len(queue) : queue'[i] = queue[i]
      /\ queue'[Len(queue)+1] = op
  BY QueueAppend DEF TypeOK, RegistryTypes
<1>2. \A i \in Len(queue)+1..Len(queue') : i = Len(queue)+1 BY <1>1
<1> QED BY <1>1, <1>2 DEF Grows

\* An operation that is done leaves the queue to the others.
LEMMA DequeueServes == ASSUME TypeOK, queue # <<>>, Dequeue PROVE Serves
  BY QueueHead DEF Serves, Dequeue, TypeOK, RegistryTypes

\* What a queued resume asks for stays sensible while it waits.
LEMMA ResumesStep ==
  ASSUME TypeOK, QueuedResumes, RowsMove, Grows \/ Serves \/ queue' = <<>>, queue' \in Seq(Op)
  PROVE  QueuedResumes'
<1>1. ASSUME NEW i \in 1..Len(queue'), queue'[i].kind = "resume", NEW j \in 1..Len(queue), queue'[i] = queue[j]
      PROVE  queue'[i].sess \in Session \ guests' /\ status'[queue'[i].sess] # "none"
  BY <1>1 DEF QueuedResumes, RowsMove
<1>2. CASE Grows
  <2>1. \A i \in 1..Len(queue') : i \in 1..Len(queue) \/ i \in Len(queue)+1..Len(queue')
    BY DEF TypeOK, RegistryTypes
  <2> QED BY <1>1, <1>2, <2>1 DEF Grows, QueuedResumes
<1>3. CASE Serves BY <1>1, <1>3 DEF Serves, QueuedResumes, Logins, OwnerLogins
<1>4. CASE queue' = <<>> BY <1>4 DEF QueuedResumes
<1> QED BY <1>2, <1>3, <1>4

\* The detach of a closed socket keeps its place while the queue grows.
LEMMA ClosedGrows ==
  ASSUME TypeOK, ClosedDetach, Grows, ClosesDetaching, queue' \in Seq(Op),
         \A c \in Conn : connections'[c] # None => connections[c] # None
  PROVE  ClosedDetach'
<1> USE DEF ClosedDetach, Detaching
<1>0. Len(queue) \in Nat /\ Len(queue') \in Nat BY DEF TypeOK, RegistryTypes
<1>1. ASSUME NEW c \in Conn, NEW i \in 0..Len(queue), phase'[c] = "closed",
             phase[c] = "closed" => Detaching(c, i)
      PROVE  Detaching(c, i)'
  <2>1. CASE Detaching(c, i)
    <3>1. PICK j \in 1..Len(queue) : j > i /\ queue[j].kind = "detach" /\ queue[j].conn = c BY <2>1
    <3>2. j \in 1..Len(queue') /\ queue'[j] = queue[j] BY <1>0, <3>1 DEF Grows
    <3> QED BY <3>1, <3>2
  <2>2. CASE \E j \in Len(queue)+1..Len(queue') : queue'[j].kind = "detach" /\ queue'[j].conn = c
    <3>1. PICK j \in Len(queue)+1..Len(queue') : queue'[j].kind = "detach" /\ queue'[j].conn = c BY <2>2
    <3>2. j \in 1..Len(queue') /\ j > i BY <1>0, <3>1
    <3> QED BY <3>1, <3>2
  <2> QED BY <1>1, <2>1, <2>2 DEF ClosesDetaching
<1>2. ASSUME NEW c \in Conn, phase'[c] = "closed", connections'[c] # None PROVE Detaching(c, 0)'
  <2>1. phase[c] = "closed" => Detaching(c, 0) BY <1>2
  <2> QED BY <1>0, <1>1, <1>2, <2>1
<1>3. ASSUME NEW i \in 1..Len(queue'), queue'[i].kind \in Logins, NEW c, c = queue'[i].conn, phase'[c] = "closed"
      PROVE  Detaching(c, i)'
  <2>1. i \in 1..Len(queue) /\ queue'[i] = queue[i] BY <1>0, <1>3 DEF Grows
  <2>2. c \in Conn BY <1>3, <2>1, LoginOp
  <2>3. phase[c] = "closed" => Detaching(c, i) BY <1>3, <2>1
  <2>4. i \in 0..Len(queue) BY <1>0, <2>1
  <2> HIDE DEF Detaching
  <2> QED BY <1>1, <1>3, <2>2, <2>3, <2>4
<1> QED BY <1>2, <1>3

\* The detach of a closed socket stays behind its login while the queue is served.
LEMMA ClosedServes ==
  ASSUME TypeOK, ClosedDetach, Serves, queue' \in Seq(Op),
         \A c \in Conn : phase'[c] = "closed" => phase[c] = "closed",
         \A c \in Conn : connections'[c] # None =>
            \/ connections[c] # None /\ ~(Head(queue).kind = "detach" /\ Head(queue).conn = c)
            \/ Head(queue).kind \in Logins /\ Head(queue).conn = c
  PROVE  ClosedDetach'
<1> USE DEF ClosedDetach, Detaching
<1>0. /\ Len(queue) \in Nat /\ Len(queue') \in Nat /\ 1 \in 1..Len(queue) /\ Head(queue) = queue[1]
  BY QueueHead DEF TypeOK, RegistryTypes, Serves
<1>1. ASSUME NEW c, NEW i \in Nat, Detaching(c, i+1) PROVE Detaching(c, i)'
  <2>1. PICK j \in 1..Len(queue) : j > i+1 /\ queue[j].kind = "detach" /\ queue[j].conn = c BY <1>1
  <2>2. j \in 2..Len(queue) /\ j-1 > i BY <1>0, <2>1
  <2>3. j-1 \in 1..Len(queue') /\ queue'[j-1] = queue[j] BY <2>2 DEF Serves
  <2> QED BY <2>1, <2>2, <2>3
<1>2. ASSUME NEW c \in Conn, phase'[c] = "closed", connections'[c] # None PROVE Detaching(c, 0)'
  <2>1. Detaching(c, 1)
    <3>1. CASE connections[c] # None /\ ~(Head(queue).kind = "detach" /\ Head(queue).conn = c)
      <4>1. PICK j \in 1..Len(queue) : queue[j].kind = "detach" /\ queue[j].conn = c BY <1>2, <3>1
      <4>2. j > 1 BY <1>0, <3>1, <4>1
      <4> QED BY <4>1, <4>2
    <3>2. CASE Head(queue).kind \in Logins /\ Head(queue).conn = c BY <1>0, <1>2, <3>2
    <3> QED BY <1>2, <3>1, <3>2
  <2>2. Detaching(c, 0+1) BY <2>1
  <2> QED BY <1>1, <2>2
<1>3. ASSUME NEW i \in 1..Len(queue'), queue'[i].kind \in Logins, NEW c, c = queue'[i].conn, phase'[c] = "closed"
      PROVE  Detaching(c, i)'
  <2>1. i+1 \in 1..Len(queue) /\ queue'[i] = queue[i+1] BY <1>3 DEF Serves
  <2>2. c \in Conn BY <1>3, <2>1, LoginOp
  <2>3. Detaching(c, i+1) BY <1>3, <2>1, <2>2
  <2>4. i \in Nat BY <1>0
  <2> QED BY <1>1, <2>3, <2>4
<1> QED BY <1>2, <1>3

-----------------------------------------------------------------------------
(* Claims, entries and hydration.                                          *)

\* Nobody gains a claim.
ClaimsKept ==
  /\ \A s \in Session : entryClient'[s] \in {entryClient[s], None}
  /\ creds' \subseteq creds
  /\ \A k \in Client : lock'[k] \in {lock[k], None}
  /\ \A c \in Conn : binding'[c] \in {binding[c], None}
  /\ \A c \in Conn : binding'[c] # None => clientOf'[c] = clientOf[c]

\* The claims of a step: kept, or those of one client on a session that is new
\* or that he had a claim on already.
LEMMA ClaimantsStep ==
  ASSUME TypeOK, OneClaimant, RowsMove, NEW k0, NEW s0,
         \A s \in Session, k \in Client : Claims(k, s)' => Claims(k, s) \/ (k = k0 /\ s = s0),
         s0 \in Session =>
            \/ Claims(k0, s0) /\ k0 \in Client
            \/ status[s0] = "none" /\ status'[s0] # "none"
  PROVE  OneClaimant'
<1> SUFFICES ASSUME NEW s \in Session, NEW k \in Client, Claims(k, s)'
             PROVE  status'[s] # "none" /\ \A j \in Client : Claims(j, s)' => j = k
  BY DEF OneClaimant
<1> USE DEF OneClaimant, RowsMove
<1>1. CASE s = s0 /\ status[s0] = "none"
  BY <1>1
<1>2. CASE s = s0 /\ status[s0] # "none"
  <2>1. Claims(k, s) BY <1>2
  <2> QED BY <1>2, <2>1
<1>3. CASE s # s0 BY <1>3
<1> QED BY <1>1, <1>2, <1>3

\* A step in which nobody gains a claim.
LEMMA ClaimsStay ==
  ASSUME TypeOK, OneClaimant, RowsMove, ClaimsKept
  PROVE  OneClaimant'
<1>1. \A s \in Session, k \in Client : Claims(k, s)' => Claims(k, s)
  BY NoneAssumption DEF Claims, ClaimsKept
<1> QED BY <1>1, ClaimantsStep, NoneAssumption

\* attach gives the client of the connection a claim on the session.
LEMMA ClaimsAttached ==
  ASSUME TypeOK, OneClaimant, RowsMove, NEW s \in Session, NEW c \in Conn, NEW old,
         attach(s, c, old), UNCHANGED <<clientOf, lock, creds>>,
         \/ Claims(clientOf[c], s) /\ clientOf[c] \in Client
         \/ status[s] = "none" /\ status'[s] # "none"
  PROVE  OneClaimant'
<1>1. \A t \in Session, k \in Client : Claims(k, t)' => Claims(k, t) \/ (k = clientOf[c] /\ t = s)
  BY DEF Claims, attach, TypeOK, RegistryTypes, SocketTypes
<1> QED BY <1>1, ClaimantsStep

\* A row that is live stays so, or its entry leaves the registry with its sink.
LEMMA EntriesStay ==
  ASSUME TypeOK, EntryRows,
         \A s \in live' \ guests' :
            /\ s \in live \ guests
            /\ status[s] \in LiveStatus => status'[s] \in LiveStatus
            /\ sink'[s] # None => sink[s] # None /\ (status[s] = "active" => status'[s] = "active")
  PROVE  EntryRows'
  BY DEF EntryRows

\* While a draft is recovered for a hydration, the registry is not touched.
LEMMA HydratingKept ==
  ASSUME TypeOK, QueuedResumes, Hydrating, Grows, queue' \in Seq(Op), live' = live,
         hydration # None <=> hydration' # None,
         \A s \in Session \ guests : status[s] \in LiveStatus => status'[s] \in LiveStatus
  PROVE  Hydrating'
<1> SUFFICES ASSUME hydration # None PROVE Hydrating' BY DEF Hydrating
<1>1. queue # <<>> /\ Head(queue) = queue[1] /\ 1 \in 1..Len(queue) /\ queue[1].kind = "resume"
  BY QueueHead DEF Hydrating, Running, TypeOK, RegistryTypes
<1>2. queue[1].sess \in Session \ guests BY <1>1 DEF QueuedResumes
<1>3. queue'[1] = queue[1] /\ Len(queue') >= 1 BY <1>1 DEF Grows, TypeOK, RegistryTypes
<1>4. queue' # <<>> /\ Head(queue') = queue'[1] BY <1>3
<1> QED BY <1>1, <1>2, <1>3, <1>4 DEF Hydrating, Running

-----------------------------------------------------------------------------
(* Socket events.                                                          *)

\* revoke: a detach at most is queued, and the sinks of the client are cut off.
LEMMA RevokeQueue ==
  ASSUME TypeOK, LeaseInv, NEW k, RevokeClient(k), UNCHANGED connections
  PROVE  /\ Grows
         /\ \A c \in Conn : phase'[c] = "closed" <=> phase[c] = "closed"
         /\ \A c \in Conn : phase'[c] = "ready" => phase[c] = "ready"
         /\ \A s \in Session : sink'[s] \in {None, sink[s]} /\ (s \in OwnedBy(k) => sink'[s] = None)
<1>1. CASE activeInput \in registered \cap HandlersOf(k)
  <2>1. activeInput \in Conn BY <1>1 DEF TypeOK, SocketTypes
  <2>2. OpOf("detach", activeInput, None) \in Op BY <2>1, DetachOp
  <2>3. OpOf("detach", activeInput, None).kind = "detach" BY DEF OpOf
  <2>4. queue' = Append(queue, OpOf("detach", activeInput, None)) BY <1>1 DEF RevokeClient
  <2>5. Grows BY <2>2, <2>3, <2>4, GrowsByOne DEF Logins, OwnerLogins
  <2> QED BY <2>5 DEF RevokeClient, TypeOK, SocketTypes, RegistryTypes, OwnedBy
<1>2. CASE activeInput \notin registered \cap HandlersOf(k)
  <2>1. Grows BY <1>2, GrowsByNothing DEF RevokeClient
  <2> QED BY <2>1 DEF RevokeClient, TypeOK, SocketTypes, RegistryTypes, OwnedBy
<1> QED BY <1>1, <1>2

\* Socket events and guest mode keep the invariant.
LEMMA SocketsKeepRows ==
  ASSUME IInv, RowInv, Sockets, IInv'
  PROVE  RowInv'
<1> USE DEF IInv, RowInv
<1>0. RowsMove /\ queue' \in Seq(Op) BY SocketRows DEF TypeOK, RegistryTypes
<1>1. ASSUME Grows, live' = live, UNCHANGED connections, UNCHANGED hydration,
             \A c \in Conn : phase'[c] = "closed" => phase[c] = "closed"
                               \/ \E j \in Len(queue)+1..Len(queue') : queue'[j].kind = "detach" /\ queue'[j].conn = c,
             \A s \in Session \ guests : status[s] \in LiveStatus => status'[s] \in LiveStatus
      PROVE  QueuedResumes' /\ Hydrating' /\ ClosedDetach'
  <2>1. QueuedResumes' BY <1>0, <1>1, ResumesStep
  <2>2. Hydrating' BY <1>0, <1>1, HydratingKept
  <2>3. ClosedDetach' BY <1>0, <1>1, ClosedGrows DEF ClosesDetaching
  <2> QED BY <2>1, <2>2, <2>3
<1>2. ASSUME UNCHANGED <<live, status, guests, sink>> PROVE EntryRows'
  BY <1>2 DEF EntryRows
<1>3. ASSUME UNCHANGED <<lock, guests>> PROVE GuestRows'
  BY <1>0, <1>3 DEF GuestRows, RowsMove, TypeOK, StoreTypes
<1>4. ASSUME NEW c \in Conn, Authenticated(c) PROVE RowInv'
  <2>1. Grows BY <1>4, GrowsByNothing DEF Authenticated
  <2>2. \A d \in Conn : phase'[d] = "closed" => phase[d] = "closed" BY <1>4 DEF Authenticated, Reject, TypeOK, SocketTypes
  <2>3. QueuedResumes' /\ Hydrating' /\ ClosedDetach'
    BY <1>1, <1>4, <2>1, <2>2 DEF Authenticated, registryVars
  <2>4. EntryRows' /\ GuestRows' BY <1>2, <1>3, <1>4 DEF Authenticated, registryVars
  <2>5. ReadyClients'
    <3>1. \A d \in Conn : phase'[d] = "ready" => phase[d] = "ready" \/ d = c
      BY <1>4 DEF Authenticated, Reject, TypeOK, SocketTypes
    <3> QED BY <1>4, <3>1 DEF Authenticated, ReadyClients, HandlerInv
  <2>6. OneClaimant'
    <3>1. \A s \in Session, k \in Client : Claims(k, s)' => Claims(k, s)
      BY <1>4 DEF Authenticated, Claims, registryVars, TypeOK, SocketTypes
    <3> QED BY <1>0, <3>1, ClaimantsStep
  <2> QED BY <2>3, <2>4, <2>5, <2>6
<1>5. ASSUME NEW c \in Conn, StartClose(c) \/ MessageWithoutLease(c) PROVE RowInv'
  <2>1. Grows BY <1>5, GrowsByNothing DEF StartClose, MessageWithoutLease
  <2>2. \A d \in Conn : phase'[d] \in {phase[d], "closing"} BY <1>5 DEF StartClose, MessageWithoutLease, TypeOK, SocketTypes
  <2>3. QueuedResumes' /\ Hydrating' /\ ClosedDetach'
    BY <1>1, <1>5, <2>1, <2>2 DEF StartClose, MessageWithoutLease, registryVars, storeVars
  <2>4. EntryRows' /\ GuestRows' BY <1>2, <1>3, <1>5 DEF StartClose, MessageWithoutLease, registryVars, storeVars
  <2>5. ReadyClients' BY <1>5, <2>2 DEF StartClose, MessageWithoutLease, ReadyClients
  <2>6. OneClaimant' BY <1>0, <1>5, ClaimsStay DEF StartClose, MessageWithoutLease, ClaimsKept, registryVars, storeVars
  <2> QED BY <2>3, <2>4, <2>5, <2>6
<1>6. ASSUME NEW c \in Conn, ExitConfirm(c) PROVE RowInv'
  <2>0. sessOf[c] \in Session BY <1>6 DEF ExitConfirm, HandlerInv, TypeOK, SocketTypes
  <2>1. OpOf("end", c, sessOf[c]) \in Op /\ OpOf("end", c, sessOf[c]).kind = "end" BY <2>0 DEF OpOf, Op
  <2>2. Grows BY <1>6, <2>1, GrowsByOne DEF ExitConfirm, Enqueue, Logins, OwnerLogins
  <2>3. \A d \in Conn : phase'[d] \in {phase[d], "closing"} BY <1>6 DEF ExitConfirm, TypeOK, SocketTypes
  <2>4. QueuedResumes' /\ Hydrating' /\ ClosedDetach'
    BY <1>1, <1>6, <2>2, <2>3 DEF ExitConfirm, registryVars, storeVars
  <2>5. EntryRows' /\ GuestRows' BY <1>2, <1>3, <1>6 DEF ExitConfirm, registryVars, storeVars
  <2>6. ReadyClients' BY <1>6, <2>3 DEF ExitConfirm, ReadyClients
  <2>7. OneClaimant' BY <1>0, <1>6, ClaimsStay DEF ExitConfirm, ClaimsKept, registryVars, storeVars
  <2> QED BY <2>4, <2>5, <2>6, <2>7
<1>7. ASSUME NEW c \in Conn, AccessRevoked(c) PROVE RowInv'
  <2>1. OpOf("detach", c, None) \in Op /\ OpOf("detach", c, None).kind = "detach" BY DetachOp DEF OpOf
  <2>2. Grows BY <1>7, <2>1, GrowsByOne DEF AccessRevoked, Enqueue, Logins, OwnerLogins
  <2>3. \A d \in Conn : phase'[d] \in {phase[d], "closing"} BY <1>7 DEF AccessRevoked, TypeOK, SocketTypes
  <2>4. \A s \in Session : status'[s] = IF s = sessOf[c] /\ status[s] \in LiveStatus THEN "idle" ELSE status[s]
    BY <1>7 DEF AccessRevoked, Idled
  <2>5. QueuedResumes' /\ Hydrating' /\ ClosedDetach'
    BY <1>1, <1>7, <2>2, <2>3, <2>4 DEF AccessRevoked, registryVars, LiveStatus
  <2>6. EntryRows'
    BY <1>7, <2>4, EntriesStay DEF AccessRevoked, registryVars, LiveStatus, TypeOK, RegistryTypes
  <2>7. GuestRows' BY <1>3, <1>7 DEF AccessRevoked
  <2>8. ReadyClients' BY <1>7, <2>3 DEF AccessRevoked, ReadyClients
  <2>9. OneClaimant' BY <1>0, <1>7, ClaimsStay DEF AccessRevoked, ClaimsKept, registryVars
  <2> QED BY <2>5, <2>6, <2>7, <2>8, <2>9
<1>8. ASSUME NEW c \in Conn, Unlock(c) PROVE RowInv'
  <2> DEFINE k == clientOf[c]
  <2>0. k \in Client /\ sessOf[c] \in guests /\ sessOf[c] \in Session
    <3>1. sessOf[c] \in Session BY <1>8 DEF Unlock, HandlerInv, TypeOK, SocketTypes
    <3>2. k \in Client BY <1>8 DEF Unlock, ReadyClients, TypeOK, SocketTypes
    <3> QED BY <1>8, <3>1, <3>2 DEF Unlock, GuestRows
  <2>1. /\ Grows
        /\ \A d \in Conn : phase'[d] = "closed" <=> phase[d] = "closed"
        /\ \A d \in Conn : phase'[d] = "ready" => phase[d] = "ready"
        /\ \A s \in Session : sink'[s] \in {None, sink[s]} /\ (s \in OwnedBy(k) => sink'[s] = None)
    BY <1>8, RevokeQueue DEF Unlock, registryVars
  <2>2. \A s \in Session \ guests : status'[s] = IF s \in OwnedBy(k) /\ status[s] \in LiveStatus THEN "idle" ELSE status[s]
    BY <1>8, <2>0 DEF Unlock, Idled
  <2>3. UNCHANGED <<registryVars, hydration, clientOf, binding, guests>> /\ creds' \subseteq creds
        /\ lock' = [lock EXCEPT ![k] = None]
    BY <1>8 DEF Unlock
  <2> HIDE DEF k
  <2>4. QueuedResumes' /\ Hydrating' /\ ClosedDetach'
    BY <1>1, <2>1, <2>2, <2>3 DEF registryVars, LiveStatus
  <2>5. EntryRows' BY <2>1, <2>2, <2>3, EntriesStay DEF registryVars, LiveStatus, TypeOK, RegistryTypes
  <2>6. GuestRows' BY <1>0, <2>3 DEF GuestRows, RowsMove, TypeOK, StoreTypes
  <2>7. ReadyClients' BY <2>1, <2>3 DEF ReadyClients
  <2>8. OneClaimant' BY <1>0, <2>3, ClaimsStay DEF ClaimsKept, registryVars, TypeOK, StoreTypes
  <2> QED BY <2>4, <2>5, <2>6, <2>7, <2>8
<1>9. ASSUME NEW k \in Client, SweepInvalid(k) PROVE RowInv'
  <2>1. /\ Grows
        /\ \A d \in Conn : phase'[d] = "closed" <=> phase[d] = "closed"
        /\ \A d \in Conn : phase'[d] = "ready" => phase[d] = "ready"
        /\ \A s \in Session : sink'[s] \in {None, sink[s]} /\ (s \in OwnedBy(k) => sink'[s] = None)
    BY <1>9, RevokeQueue DEF SweepInvalid, registryVars
  <2>2. \A s \in Session : status'[s] = IF s \in OwnedBy(k) /\ status[s] \in LiveStatus THEN "idle" ELSE status[s]
    BY <1>9 DEF SweepInvalid, Idled
  <2>3. UNCHANGED <<registryVars, hydration, clientOf, binding, guests, lock, creds>>
    BY <1>9 DEF SweepInvalid
  <2>4. QueuedResumes' /\ Hydrating' /\ ClosedDetach'
    BY <1>1, <2>1, <2>2, <2>3 DEF registryVars, LiveStatus
  <2>5. EntryRows' BY <2>1, <2>2, <2>3, EntriesStay DEF registryVars, LiveStatus, TypeOK, RegistryTypes
  <2>6. GuestRows' BY <1>3, <2>3
  <2>7. ReadyClients' BY <2>1, <2>3 DEF ReadyClients
  <2>8. OneClaimant' BY <1>0, <2>3, ClaimsStay DEF ClaimsKept, registryVars
  <2> QED BY <2>4, <2>5, <2>6, <2>7, <2>8
<1>10. ASSUME NEW c \in Conn, NEW forced \in BOOLEAN, Close(c, forced) PROVE RowInv'
  <2> DEFINE op == OpOf("detach", c, IF forced THEN sessOf[c] ELSE None)
  <2>1. op \in Op /\ op.kind = "detach" /\ op.conn = c
    <3>1. (IF forced THEN sessOf[c] ELSE None) \in Session \cup {None} BY DEF TypeOK, SocketTypes
    <3> QED BY <3>1, DetachOp DEF OpOf
  <2>2. queue' = Append(queue, op) /\ phase' = [phase EXCEPT ![c] = "closed"]
        /\ UNCHANGED <<registryVars, hydration, sink, clientOf, binding, storeVars>>
    BY <1>10 DEF Close, Enqueue
  <2> HIDE DEF op
  <2>3. Grows /\ Len(queue') = Len(queue) + 1 /\ queue'[Len(queue)+1] = op
    BY <2>1, <2>2, GrowsByOne DEF Logins, OwnerLogins
  <2>4. \A d \in Conn : phase'[d] = "closed" => phase[d] = "closed"
                           \/ \E j \in Len(queue)+1..Len(queue') : queue'[j].kind = "detach" /\ queue'[j].conn = d
    <3>1. Len(queue)+1 \in Len(queue)+1..Len(queue') BY <2>3 DEF TypeOK, RegistryTypes
    <3> QED BY <2>1, <2>2, <2>3, <3>1 DEF TypeOK, SocketTypes
  <2>5. QueuedResumes' /\ Hydrating' /\ ClosedDetach'
    BY <1>1, <2>2, <2>3, <2>4 DEF registryVars, storeVars
  <2>6. EntryRows' /\ GuestRows' BY <1>2, <1>3, <2>2 DEF registryVars, storeVars
  <2>7. ReadyClients' BY <2>2 DEF ReadyClients, TypeOK, SocketTypes
  <2>8. OneClaimant' BY <1>0, <2>2, ClaimsStay DEF ClaimsKept, registryVars, storeVars
  <2> QED BY <2>5, <2>6, <2>7, <2>8
<1>11. ASSUME NEW c \in Conn, NEW k \in Client, NEW kind \in Logins, NEW s \in Session \cup {None},
              phase[c] = "new", phase' = [phase EXCEPT ![c] = "waiting"], clientOf' = [clientOf EXCEPT ![c] = k],
              Enqueue(OpOf(kind, c, s)), kind = "resume" => s \in Session \ guests /\ status[s] # "none",
              UNCHANGED <<registryVars, hydration, sink, binding, storeVars>>
       PROVE  RowInv'
  <2>1. /\ OpOf(kind, c, s) \in Op /\ OpOf(kind, c, s).kind = kind
        /\ OpOf(kind, c, s).conn = c /\ OpOf(kind, c, s).sess = s
    BY DEF OpOf, Op
  <2>2. phase'[c] = "waiting" /\ \A d \in Conn \ {c} : phase'[d] = phase[d] /\ clientOf'[d] = clientOf[d]
    BY <1>11 DEF TypeOK, SocketTypes
  <2>3. Grows BY <1>11, <2>1, <2>2, GrowsByOne DEF Enqueue, storeVars
  <2>4. QueuedResumes' /\ Hydrating' /\ ClosedDetach'
    BY <1>1, <1>11, <2>2, <2>3 DEF registryVars, storeVars
  <2>5. EntryRows' /\ GuestRows' BY <1>2, <1>3, <1>11 DEF registryVars, storeVars
  <2>6. ReadyClients' BY <2>2 DEF ReadyClients
  <2>7. \A d \in Conn : binding'[d] = binding[d] /\ (binding[d] # None => clientOf'[d] = clientOf[d])
    BY <1>11, <2>2 DEF HandlerInv
  <2>8. OneClaimant' BY <1>0, <1>11, <2>7, ClaimsStay DEF ClaimsKept, registryVars, storeVars
  <2> QED BY <2>4, <2>5, <2>6, <2>8
<1>12. ASSUME NEW c \in Conn, NEW k \in Client, HelloGuest(c, k) PROVE RowInv'
  BY <1>11, <1>12 DEF HelloGuest, Logins, OwnerLogins
<1>13. ASSUME NEW c \in Conn, NEW k \in Client, NEW kind \in OwnerLogins, NEW s \in Session \cup {None},
              HelloOwner(c, k, kind, s)
       PROVE  RowInv'
  BY <1>11, <1>13 DEF HelloOwner, Logins
<1>14. ASSUME NEW c \in Conn, NEW s \in Session, EnterGuest(c, s) PROVE RowInv'
  <2> DEFINE k == clientOf[c]
  <2>0. k \in Client /\ status[s] = "none"
    BY <1>14 DEF EnterGuest, ReadyClients, TypeOK, SocketTypes, Fresh
  <2>1. /\ Grows
        /\ \A d \in Conn : phase'[d] = "closed" <=> phase[d] = "closed"
        /\ \A d \in Conn : phase'[d] = "ready" => phase[d] = "ready"
        /\ \A t \in Session : sink'[t] \in {None, sink[t]} /\ (t \in OwnedBy(k) => sink'[t] = None)
    BY <1>14, RevokeQueue DEF EnterGuest, registryVars
  <2>2. \A t \in Session : status'[t] = IF t = s THEN "active"
                              ELSE IF t \in OwnedBy(k) /\ status[t] \in LiveStatus THEN "idle" ELSE status[t]
    BY <1>14 DEF EnterGuest, Idled
  <2>3. UNCHANGED <<registryVars, hydration, clientOf, binding, creds>> /\ guests' = guests \cup {s}
        /\ lock' = [lock EXCEPT ![k] = s]
    BY <1>14 DEF EnterGuest
  <2> HIDE DEF k
  <2>4. QueuedResumes' /\ Hydrating' /\ ClosedDetach'
    BY <1>1, <2>0, <2>1, <2>2, <2>3 DEF registryVars, LiveStatus
  <2>5. EntryRows' BY <2>0, <2>1, <2>2, <2>3, EntriesStay DEF registryVars, LiveStatus, TypeOK, RegistryTypes
  <2>6. GuestRows' BY <2>0, <2>2, <2>3, <1>0 DEF GuestRows, RowsMove, TypeOK, StoreTypes
  <2>7. ReadyClients' BY <2>1, <2>3 DEF ReadyClients
  <2>8. OneClaimant'
    <3>1. \A t \in Session, j \in Client : Claims(j, t)' => Claims(j, t) \/ (j = k /\ t = s)
      BY <2>3 DEF Claims, registryVars, TypeOK, StoreTypes
    <3> QED BY <1>0, <2>0, <2>2, <3>1, ClaimantsStep
  <2> QED BY <2>4, <2>5, <2>6, <2>7, <2>8
<1> QED BY <1>4, <1>5, <1>6, <1>7, <1>8, <1>9, <1>10, <1>12, <1>13, <1>14 DEF Sockets

-----------------------------------------------------------------------------
(* Registry operations.                                                    *)

\* A login that is refused leaves the queue and changes nothing else here.
LEMMA RefusedRows ==
  ASSUME IInv, RowInv, IInv', RowsMove, queue # <<>>, Dequeue,
         \A c \in Conn : phase'[c] \in {phase[c], "closing"},
         UNCHANGED <<connections, clientOf, binding, guests, lock>>,
         \A s \in Session : entryClient'[s] \in {entryClient[s], None},
         creds' \subseteq creds
  PROVE  QueuedResumes' /\ GuestRows' /\ Hydrating' /\ OneClaimant' /\ ReadyClients'
         /\ (~Running("detach") => ClosedDetach')
<1> USE DEF IInv, RowInv
<1>1. Serves /\ queue' \in Seq(Op) /\ hydration' = None
  BY DequeueServes DEF Dequeue, TypeOK, RegistryTypes
<1>2. QueuedResumes' BY <1>1, ResumesStep
<1>3. GuestRows' BY DEF GuestRows, RowsMove, TypeOK, StoreTypes
<1>4. Hydrating' BY <1>1 DEF Hydrating
<1>5. OneClaimant' BY ClaimsStay DEF ClaimsKept
<1>6. ReadyClients' BY DEF ReadyClients
<1>7. ASSUME ~Running("detach") PROVE ClosedDetach'
  BY <1>1, <1>7, ClosedServes DEF Running
<1> QED BY <1>2, <1>3, <1>4, <1>5, <1>6, <1>7

\* A login attaches its connection to s, which is new, or which its client had
\* a claim on.
LEMMA AttachedRows ==
  ASSUME IInv, RowInv, IInv', RowsMove, NEW kind \in Logins, Running(kind),
         NEW s \in Session, NEW old, attach(s, Head(queue).conn, old), Dequeue,
         \/ Claims(clientOf[Head(queue).conn], s)
         \/ status[s] = "none" /\ status'[s] # "none",
         \A t \in Session \ {s} : status'[t] = status[t],
         s \notin guests => status'[s] = "active",
         UNCHANGED <<phase, clientOf, sessOf, guests, lock, creds>>
  PROVE  RowInv'
<1> USE DEF IInv, RowInv
<1> DEFINE c == Head(queue).conn
<1>1. queue # <<>> /\ c \in Conn /\ Head(queue).kind \in Logins /\ clientOf[c] \in Client
  BY HeadLogin DEF TypeOK, SocketTypes
<1>2. Serves /\ queue' \in Seq(Op) /\ hydration' = None
  BY <1>1, DequeueServes DEF Dequeue, TypeOK, RegistryTypes
<1>3. \A d \in Conn \ {c} : connections'[d] \in {None, connections[d]} BY DEF attach
<1> HIDE DEF c
<1>4. QueuedResumes' BY <1>2, ResumesStep
<1>5. GuestRows' BY DEF GuestRows, RowsMove, TypeOK, StoreTypes
<1>6. Hydrating' BY <1>2 DEF Hydrating
<1>7. OneClaimant' BY <1>1, ClaimsAttached DEF c
<1>8. ReadyClients' BY DEF ReadyClients
<1>9. ClosedDetach'
  <2>1. Head(queue).kind # "detach" BY <1>1 DEF Logins, OwnerLogins
  <2>2. \A d \in Conn : connections'[d] # None =>
            \/ connections[d] # None /\ ~(Head(queue).kind = "detach" /\ Head(queue).conn = d)
            \/ Head(queue).kind \in Logins /\ Head(queue).conn = d
    BY <1>1, <1>3, <2>1 DEF c
  <2> QED BY <1>2, <2>2, ClosedServes
<1>10. EntryRows'
  <2>1. live' = live \cup {s} /\ \A t \in Session \ {s} : sink'[t] = sink[t] BY DEF attach, TypeOK, RegistryTypes
  <2> QED BY <2>1 DEF EntryRows, LiveStatus, TypeOK, RegistryTypes
<1> QED BY <1>4, <1>5, <1>6, <1>7, <1>8, <1>9, <1>10

\* The session of a resume that found its entry, or hydrated it, has a live row.
LEMMA FoundLive ==
  ASSUME IInv, RowInv, NEW c, NEW s \in Session, Resuming(c, s)
  PROVE  /\ s \notin guests
         /\ (s \in live \/ hydration # None) => status[s] \in LiveStatus
         /\ s \in live => hydration = None
<1> USE DEF IInv, RowInv
<1>1. queue # <<>> /\ Head(queue) = queue[1] /\ 1 \in 1..Len(queue) /\ queue[1].kind = "resume" /\ queue[1].sess = s
  BY QueueHead DEF Resuming, Running, TypeOK, RegistryTypes
<1>2. s \notin guests BY <1>1 DEF QueuedResumes
<1> QED BY <1>1, <1>2 DEF Hydrating, EntryRows

\* The queued operations of the registry keep the invariant.
LEMMA QueueKeepsRows ==
  ASSUME IInv, RowInv, RunQueue, IInv'
  PROVE  RowInv'
<1> USE DEF IInv, RowInv
<1>0. RowsMove BY QueueRows
<1>1. CASE CreateRefused \/ GuestRefused
  <2>1. /\ queue # <<>> /\ Dequeue /\ ~Running("detach")
        /\ \A c \in Conn : phase'[c] \in {phase[c], "closing"}
        /\ UNCHANGED <<registryVars, sink, clientOf, binding, storeVars>>
    BY <1>1 DEF CreateRefused, GuestRefused, LoginRefused, Running, Reject, TypeOK, SocketTypes
  <2>2. QueuedResumes' /\ GuestRows' /\ Hydrating' /\ OneClaimant' /\ ReadyClients' /\ ClosedDetach'
    BY <1>0, <2>1, RefusedRows DEF registryVars, storeVars
  <2>3. EntryRows' BY <2>1 DEF EntryRows, registryVars, storeVars
  <2> QED BY <2>2, <2>3
<1>2. ASSUME NEW s \in Session, Create(s) PROVE RowInv'
  <2>1. /\ Running("create") /\ attach(s, Head(queue).conn, None) /\ Dequeue
        /\ status[s] = "none" /\ status' = [status EXCEPT ![s] = "active"]
        /\ UNCHANGED <<phase, clientOf, sessOf, guests, lock, creds>>
    BY <1>2 DEF Create, Fresh
  <2>2. status'[s] = "active" /\ \A t \in Session \ {s} : status'[t] = status[t]
    BY <2>1 DEF TypeOK, StoreTypes
  <2> QED BY <1>0, <2>1, <2>2, AttachedRows DEF Logins, OwnerLogins
<1>3. ASSUME NEW c \in Conn, NEW s \in Session, ResumeRefusedBeforeLookup(c, s) \/ HydrateFailed(c, s) PROVE RowInv'
  <2>1. /\ queue # <<>> /\ Dequeue /\ ~Running("detach")
        /\ \A d \in Conn : phase'[d] \in {phase[d], "closing"}
        /\ UNCHANGED <<registryVars, sink, clientOf, binding, storeVars>>
    BY <1>3 DEF ResumeRefusedBeforeLookup, HydrateFailed, Resuming, LoginRefused, Running, Reject, TypeOK, SocketTypes
  <2>2. QueuedResumes' /\ GuestRows' /\ Hydrating' /\ OneClaimant' /\ ReadyClients' /\ ClosedDetach'
    BY <1>0, <2>1, RefusedRows DEF registryVars, storeVars
  <2>3. EntryRows' BY <2>1 DEF EntryRows, registryVars, storeVars
  <2> QED BY <2>2, <2>3
<1>4. ASSUME NEW c \in Conn, NEW s \in Session, BeginHydrate(c, s) PROVE RowInv'
  <2>1. Running("resume") /\ s = Head(queue).sess /\ s \notin live /\ status[s] \in LiveStatus
        /\ UNCHANGED <<registryVars, queue, sink, socketVars, storeVars>>
    BY <1>4 DEF BeginHydrate, Resuming
  <2>2. Hydrating' BY <2>1 DEF Hydrating, Running, registryVars, storeVars
  <2>3. QueuedResumes' BY <2>1 DEF QueuedResumes, storeVars
  <2>4. GuestRows' BY <2>1 DEF GuestRows, storeVars
  <2>5. OneClaimant' BY <2>1 DEF OneClaimant, Claims, storeVars, registryVars, socketVars
  <2>6. ClosedDetach' BY <2>1 DEF ClosedDetach, Detaching, registryVars, socketVars
  <2>7. EntryRows' /\ ReadyClients' BY <2>1 DEF EntryRows, ReadyClients, registryVars, socketVars, storeVars
  <2> QED BY <2>2, <2>3, <2>4, <2>5, <2>6, <2>7
<1>5. ASSUME NEW c \in Conn, NEW s \in Session, HydratedTooLate(c, s) \/ ResumeExpired(c, s) PROVE RowInv'
  <2>1. /\ queue # <<>> /\ Dequeue /\ ~Running("detach")
        /\ \A d \in Conn : phase'[d] \in {phase[d], "closing"}
        /\ UNCHANGED <<connections, clientOf, binding, guests, lock>>
        /\ \A t \in Session : entryClient'[t] \in {entryClient[t], None}
        /\ creds' \subseteq creds
    BY <1>5 DEF HydratedTooLate, ResumeExpired, Resuming, Running, Reject, Drop, Terminate, CredsWithout,
                registryVars, TypeOK, SocketTypes
  <2>2. QueuedResumes' /\ GuestRows' /\ Hydrating' /\ OneClaimant' /\ ReadyClients' /\ ClosedDetach'
    BY <1>0, <2>1, RefusedRows
  <2>3. s \notin live' /\ live' \subseteq live /\ guests' = guests
        /\ \A t \in Session \ {s} : status'[t] = status[t] /\ sink'[t] \in {None, sink[t]}
    <3>1. Resuming(c, s) /\ (hydration # None => s \notin live) BY <1>5, FoundLive DEF HydratedTooLate, ResumeExpired
    <3> QED BY <1>5, <3>1 DEF HydratedTooLate, ResumeExpired, Drop, Terminate, Finished, registryVars, TypeOK, RegistryTypes
  <2>4. EntryRows' BY <2>3, EntriesStay DEF TypeOK, RegistryTypes
  <2> QED BY <2>2, <2>4
<1>6. ASSUME NEW c \in Conn, NEW s \in Session, ResumeRefused(c, s) PROVE RowInv'
  <2>1. /\ queue # <<>> /\ Dequeue /\ ~Running("detach")
        /\ \A d \in Conn : phase'[d] \in {phase[d], "closing"}
        /\ UNCHANGED <<entryClient, connections, sink, clientOf, binding, storeVars>>
        /\ live' = live \cup {s}
    BY <1>6 DEF ResumeRefused, Resuming, Running, Reject, TypeOK, SocketTypes
  <2>2. QueuedResumes' /\ GuestRows' /\ Hydrating' /\ OneClaimant' /\ ReadyClients' /\ ClosedDetach'
    BY <1>0, <2>1, RefusedRows DEF storeVars
  <2>3. status[s] \in LiveStatus BY <1>6, FoundLive DEF ResumeRefused, Found
  <2>4. EntryRows' BY <2>1, <2>3 DEF EntryRows, SinkInv, storeVars
  <2> QED BY <2>2, <2>4
<1>7. ASSUME NEW c \in Conn, NEW s \in Session, ResumeDetached(c, s) \/ TakeOver(c, s) PROVE RowInv'
  <2>1. PICK old : attach(s, c, old)
    BY <1>7 DEF ResumeDetached, TakeOver
  <2>2. /\ Resuming(c, s) /\ Running("resume") /\ c = Head(queue).conn /\ Dequeue /\ Authorized(c, s)
        /\ s \in live \/ hydration # None
        /\ status' = Activated(s) /\ UNCHANGED <<phase, clientOf, sessOf, guests, lock, creds>>
    BY <1>7 DEF ResumeDetached, TakeOver, Resuming, Found
  <2>3. status[s] \in LiveStatus BY <2>2, FoundLive
  <2>4. status'[s] = "active" /\ \A t \in Session \ {s} : status'[t] = status[t]
    BY <2>2, <2>3 DEF Activated, TypeOK, StoreTypes
  <2>5. Claims(clientOf[c], s) BY <2>2 DEF Claims, Authorized
  <2> QED BY <1>0, <2>1, <2>2, <2>4, <2>5, AttachedRows DEF Logins, OwnerLogins
<1>8. ASSUME Running("guest"), UNCHANGED <<queue, hydration, connections, phase>>
      PROVE  QueuedResumes' /\ Hydrating' /\ ClosedDetach'
  <2>1. hydration = None BY <1>8 DEF Hydrating, Running
  <2>2. QueuedResumes' BY <1>0, <1>8, ResumesStep, GrowsByNothing DEF TypeOK, RegistryTypes
  <2>3. ClosedDetach' BY <1>8 DEF ClosedDetach, Detaching
  <2> QED BY <1>8, <2>1, <2>2, <2>3 DEF Hydrating
<1>9. ASSUME NEW c \in Conn, NEW k \in Client, NEW s \in Session, GuestRebind(c, k, s) PROVE RowInv'
  <2>1. /\ Running("guest") /\ status[s] = "none" /\ lock' = [lock EXCEPT ![k] = s] /\ guests' = guests \cup {s}
        /\ \A t \in Session : status'[t] = IF t = s THEN "active" ELSE Finished({lock[k]}, "expired")[t]
        /\ creds' \subseteq creds
        /\ UNCHANGED <<registryVars, queue, hydration, sink, socketVars>>
    BY <1>9 DEF GuestRebind, Selecting, Fresh, CredsWithout, Finished
  <2>2. QueuedResumes' /\ Hydrating' /\ ClosedDetach' BY <1>8, <2>1 DEF registryVars, socketVars
  <2>3. \A t \in Session \ guests' : status'[t] = status[t]
    BY <2>1 DEF GuestRows, Finished
  <2>4. EntryRows' BY <2>1, <2>3, EntriesStay DEF registryVars, TypeOK, RegistryTypes
  <2>5. GuestRows' BY <1>0, <2>1 DEF GuestRows, RowsMove, TypeOK, StoreTypes
  <2>6. ReadyClients' BY <2>1 DEF ReadyClients, socketVars
  <2>7. OneClaimant'
    <3>1. \A t \in Session, j \in Client : Claims(j, t)' => Claims(j, t) \/ (j = k /\ t = s)
      BY <2>1 DEF Claims, registryVars, socketVars, TypeOK, StoreTypes
    <3> QED BY <1>0, <2>1, <3>1, ClaimantsStep
  <2> QED BY <2>2, <2>4, <2>5, <2>6, <2>7
<1>10. ASSUME NEW c \in Conn, NEW k \in Client, NEW s \in Session, GuestExpired(c, k, s) PROVE RowInv'
  <2>1. /\ Running("guest") /\ UNCHANGED <<connections, queue, hydration, socketVars, guests, lock>>
        /\ \A t \in Session : entryClient'[t] \in {entryClient[t], None}
        /\ creds' \subseteq creds
    BY <1>10 DEF GuestExpired, Selecting, Drop, Terminate, CredsWithout
  <2>2. QueuedResumes' /\ Hydrating' /\ ClosedDetach' BY <1>8, <2>1 DEF socketVars
  <2>3. s \notin live' /\ live' \subseteq live /\ guests' = guests
        /\ \A t \in Session \ {s} : status'[t] = status[t] /\ sink'[t] \in {None, sink[t]}
    BY <1>10 DEF GuestExpired, Drop, Terminate, Finished
  <2>4. EntryRows' BY <2>3, EntriesStay DEF TypeOK, RegistryTypes
  <2>5. GuestRows' BY <1>0, <2>1 DEF GuestRows, RowsMove, TypeOK, StoreTypes
  <2>6. ReadyClients' BY <2>1 DEF ReadyClients, socketVars
  <2>7. OneClaimant' BY <1>0, <2>1, ClaimsStay DEF ClaimsKept, socketVars
  <2> QED BY <2>2, <2>4, <2>5, <2>6, <2>7
<1>11. ASSUME NEW c \in Conn, NEW k \in Client, NEW s \in Session, GuestBusy(c, k, s) PROVE RowInv'
  <2>1. /\ queue # <<>> /\ Dequeue /\ ~Running("detach")
        /\ \A d \in Conn : phase'[d] \in {phase[d], "closing"}
        /\ UNCHANGED <<registryVars, sink, clientOf, binding, storeVars>>
    BY <1>11 DEF GuestBusy, Selecting, LoginRefused, Running, Reject, TypeOK, SocketTypes
  <2>2. QueuedResumes' /\ GuestRows' /\ Hydrating' /\ OneClaimant' /\ ReadyClients' /\ ClosedDetach'
    BY <1>0, <2>1, RefusedRows DEF registryVars, storeVars
  <2>3. EntryRows' BY <2>1 DEF EntryRows, registryVars, storeVars
  <2> QED BY <2>2, <2>3
<1>12. ASSUME NEW c \in Conn, NEW k \in Client, NEW s \in Session, GuestAttached(c, k, s) PROVE RowInv'
  <2>1. /\ Running("guest") /\ c = Head(queue).conn /\ Dequeue /\ attach(s, c, entryConn[s])
        /\ k = clientOf[c] /\ s = lock[k]
        /\ status' = Activated(s) /\ UNCHANGED <<phase, clientOf, sessOf, guests, lock, creds>>
    BY <1>12 DEF GuestAttached, Selecting
  <2>2. s \in guests BY <2>1 DEF GuestRows
  <2>3. Claims(clientOf[c], s) BY <2>1 DEF Claims
  <2>4. \A t \in Session \ {s} : status'[t] = status[t] BY <2>1 DEF Activated
  <2> QED BY <1>0, <2>1, <2>2, <2>3, <2>4, AttachedRows DEF Logins
<1>13. ASSUME NEW c \in Conn, Detach(c) PROVE RowInv'
  <2>0. /\ queue # <<>> /\ Head(queue) \in Op /\ Head(queue) = queue[1] /\ Head(queue).kind = "detach" /\ Head(queue).conn = c
        /\ Tail(queue) \in Seq(Op) /\ Len(queue) \in Nat /\ Len(queue) >= 1 /\ Len(Tail(queue)) = Len(queue) - 1
        /\ \A i \in 1..Len(Tail(queue)) : Tail(queue)[i] = queue[i+1]
    BY <1>13, QueueHead DEF Detach, Running, TypeOK, RegistryTypes
  <2>1. Serves
    <3>1. CASE Head(queue).sess = None
      <4>1. Dequeue BY <1>13, <3>1 DEF Detach, Dequeue
      <4> QED BY <2>0, <4>1, DequeueServes
    <3>2. CASE Head(queue).sess # None
      <4>1. Head(queue).sess \in Session BY <2>0, <3>2 DEF Op, Logins, OwnerLogins
      <4>2. OpOf("expire", None, Head(queue).sess) \in Op /\ OpOf("expire", None, Head(queue).sess).kind = "expire"
        BY <4>1 DEF OpOf, Op
      <4>3. queue' = Append(Tail(queue), OpOf("expire", None, Head(queue).sess)) /\ hydration' = None
        BY <1>13, <3>2 DEF Detach
      <4>4. /\ Len(queue') = Len(queue) /\ queue'[Len(queue)].kind = "expire"
            /\ \A i \in 1..Len(queue)-1 : queue'[i] = queue[i+1]
        BY <2>0, <4>2, <4>3
      <4>5. \A i \in 2..Len(queue) : i-1 \in 1..Len(queue)-1 /\ i-1+1 = i BY <2>0
      <4>0. \A n \in Nat : \A i \in 1..n : i = n \/ (i \in 1..n-1 /\ i+1 \in 1..n) OBVIOUS
      <4>6. \A i \in 1..Len(queue') : i = Len(queue) \/ (i \in 1..Len(queue)-1 /\ i+1 \in 1..Len(queue))
        BY <2>0, <4>0, <4>4
      <4>7. \A i \in 2..Len(queue) : i-1 \in 1..Len(queue') /\ queue'[i-1] = queue[i]
        BY <2>0, <4>4, <4>5
      <4>8. \A i \in 1..Len(queue') : queue'[i].kind \in Logins => i+1 \in 1..Len(queue) /\ queue'[i] = queue[i+1]
        <5> SUFFICES ASSUME NEW i \in 1..Len(queue'), queue'[i].kind \in Logins
                     PROVE  i+1 \in 1..Len(queue) /\ queue'[i] = queue[i+1]
          OBVIOUS
        <5>1. i # Len(queue) BY <4>4 DEF Logins, OwnerLogins
        <5> QED BY <4>4, <4>6, <5>1
      <4> QED BY <2>0, <4>3, <4>7, <4>8 DEF Serves
    <3> QED BY <3>1, <3>2
  <2>2. /\ connections' = [connections EXCEPT ![c] = None] /\ hydration' = None
        /\ UNCHANGED <<live, entryClient, socketVars, guests, lock, creds>>
    BY <1>13 DEF Detach
  <2>3. QueuedResumes' BY <1>0, <2>1, ResumesStep DEF TypeOK, RegistryTypes
  <2>4. ClosedDetach'
    <3>1. \A d \in Conn : connections'[d] # None => connections[d] # None /\ Head(queue).conn # d
      BY <2>0, <2>2 DEF TypeOK, RegistryTypes
    <3> QED BY <2>1, <2>2, <3>1, ClosedServes DEF socketVars, TypeOK, RegistryTypes
  <2>5. EntryRows'
    <3>1. \A s \in Session : \/ status'[s] = status[s] /\ sink'[s] = sink[s]
                             \/ sink'[s] = None /\ (status[s] \in LiveStatus => status'[s] \in LiveStatus)
      <4>1. CASE connections[c] # None /\ entryConn[connections[c]] = c
        BY <1>13, <4>1 DEF Detach, Idled, LiveStatus, TypeOK, RegistryTypes
      <4>2. CASE ~(connections[c] # None /\ entryConn[connections[c]] = c)
        BY <1>13, <4>2 DEF Detach
      <4> QED BY <4>1, <4>2
    <3> QED BY <2>2, <3>1, EntriesStay DEF TypeOK, RegistryTypes
  <2>6. Hydrating' /\ GuestRows' /\ ReadyClients'
    BY <1>0, <2>2 DEF Hydrating, GuestRows, ReadyClients, socketVars, RowsMove, TypeOK, StoreTypes
  <2>7. OneClaimant' BY <1>0, <2>2, ClaimsStay DEF ClaimsKept, socketVars
  <2> QED BY <2>3, <2>4, <2>5, <2>6, <2>7
<1>14. ASSUME NEW s \in Session, ForcedExpiry(s) \/ End(s) PROVE RowInv'
  <2>1. /\ queue # <<>> /\ Dequeue /\ ~Running("detach") /\ Head(queue).kind \notin Logins
        /\ \A d \in Conn : connections'[d] \in {None, connections[d]}
        /\ UNCHANGED <<phase, clientOf, binding, guests, lock>>
        /\ \A t \in Session : entryClient'[t] \in {entryClient[t], None}
        /\ creds' \subseteq creds
    BY <1>14 DEF ForcedExpiry, End, Running, Drop, Terminate, CredsWithout, registryVars, socketVars, Logins, OwnerLogins
  <2>2. Serves /\ queue' \in Seq(Op) /\ hydration' = None
    BY <2>1, DequeueServes DEF Dequeue, TypeOK, RegistryTypes
  <2>3. QueuedResumes' BY <1>0, <2>2, ResumesStep
  <2>4. ClosedDetach' BY <2>1, <2>2, ClosedServes DEF Running
  <2>5. EntryRows'
    <3>1. \/ /\ s \notin live' /\ live' \subseteq live
             /\ \A t \in Session \ {s} : status'[t] = status[t] /\ sink'[t] \in {None, sink[t]}
          \/ UNCHANGED <<live, status, sink>>
      BY <1>14 DEF ForcedExpiry, End, Drop, Terminate, Finished, registryVars
    <3> QED BY <2>1, <3>1, EntriesStay DEF TypeOK, RegistryTypes
  <2>6. Hydrating' /\ GuestRows' /\ ReadyClients'
    BY <1>0, <2>1, <2>2 DEF Hydrating, GuestRows, ReadyClients, RowsMove, TypeOK, StoreTypes
  <2>7. OneClaimant' BY <1>0, <2>1, ClaimsStay DEF ClaimsKept
  <2> QED BY <2>3, <2>4, <2>5, <2>6, <2>7
<1> QED BY <1>1, <1>2, <1>3, <1>4, <1>5, <1>6, <1>7, <1>9, <1>10, <1>11, <1>12, <1>13, <1>14 DEF RunQueue

-----------------------------------------------------------------------------
(* The rest of the server, and the theorems.                               *)

\* Timers, background writes, the stop and the restart keep the invariant.
LEMMA BackgroundKeepsRows ==
  ASSUME IInv, RowInv, Background \/ Tick, IInv'
  PROVE  RowInv'
<1> USE DEF IInv, RowInv
<1>0. RowsMove /\ queue' \in Seq(Op) BY BackgroundRows DEF TypeOK, RegistryTypes
<1>1. ASSUME queue' = queue, UNCHANGED <<phase, clientOf, binding, connections, guests, lock>>,
             \A s \in Session : entryClient'[s] \in {entryClient[s], None}, creds' \subseteq creds
      PROVE  QueuedResumes' /\ GuestRows' /\ ClosedDetach' /\ ReadyClients' /\ OneClaimant'
  <2>1. QueuedResumes' BY <1>0, <1>1, GrowsByNothing, ResumesStep
  <2>2. GuestRows' BY <1>0, <1>1 DEF GuestRows, RowsMove, TypeOK, StoreTypes
  <2>3. ClosedDetach' /\ ReadyClients' BY <1>1 DEF ClosedDetach, Detaching, ReadyClients
  <2>4. OneClaimant' BY <1>0, <1>1, ClaimsStay DEF ClaimsKept
  <2> QED BY <2>1, <2>2, <2>3, <2>4
<1>2. CASE sweepExpired
  <2> DEFINE S == {s \in live : entryConn[s] = None /\ isExpired(s)}
  <2>1. hydration = None /\ hydration' = None /\ Drop(S) /\ Terminate(S, "expired")
        /\ UNCHANGED <<connections, queue, socketVars, guests, lock>>
    BY <1>2 DEF sweepExpired
  <2> HIDE DEF S
  <2>2. QueuedResumes' /\ GuestRows' /\ ClosedDetach' /\ ReadyClients' /\ OneClaimant'
    BY <1>1, <2>1 DEF Drop, Terminate, CredsWithout, socketVars
  <2>3. EntryRows' BY <2>1, EntriesStay DEF Drop, Terminate, Finished, TypeOK, RegistryTypes
  <2> QED BY <2>1, <2>2, <2>3 DEF Hydrating
<1>3. CASE Stop
  <2>1. \A c \in Conn : phase'[c] = "closed" => phase[c] = "closed" BY <1>3 DEF Stop
  <2>2. \A c \in Conn : phase'[c] = "ready" => phase[c] = "ready" BY <1>3 DEF Stop
  <2>3. UNCHANGED <<registryVars, queue, hydration, sink, clientOf, binding, storeVars>> BY <1>3 DEF Stop
  <2>4. Grows BY <2>3, GrowsByNothing
  <2>5. QueuedResumes' BY <1>0, <2>4, ResumesStep
  <2>6. GuestRows' /\ EntryRows' BY <2>3 DEF GuestRows, EntryRows, registryVars, storeVars
  <2>7. ClosedDetach' BY <1>0, <2>1, <2>3, <2>4, ClosedGrows DEF ClosesDetaching, registryVars
  <2>8. ReadyClients' BY <2>2, <2>3 DEF ReadyClients
  <2>9. OneClaimant' BY <2>3 DEF OneClaimant, Claims, registryVars, storeVars
  <2>10. Hydrating' BY <2>3 DEF Hydrating, Running, registryVars, storeVars
  <2> QED BY <2>5, <2>6, <2>7, <2>8, <2>9, <2>10
<1>4. CASE Shutdown
  <2>1. queue = <<>> /\ live' = {} /\ connections' = [c \in Conn |-> None]
        /\ UNCHANGED <<queue, hydration, socketVars, guests, lock, creds>>
        /\ \A s \in Session : entryClient'[s] \in {entryClient[s], None}
    BY <1>4 DEF Shutdown, Drop, TypeOK, RegistryTypes
  <2>2. QueuedResumes' BY <1>0, <2>1, GrowsByNothing, ResumesStep
  <2>3. GuestRows' BY <1>0, <2>1 DEF GuestRows, RowsMove, TypeOK, StoreTypes
  <2>4. ClosedDetach' /\ ReadyClients' BY <2>1 DEF ClosedDetach, Detaching, ReadyClients, socketVars
  <2>5. OneClaimant' BY <1>0, <2>1, ClaimsStay DEF ClaimsKept, socketVars
  <2>6. Hydrating' BY <2>1 DEF Hydrating, Running
  <2>7. EntryRows' BY <2>1 DEF EntryRows
  <2> QED BY <2>2, <2>3, <2>4, <2>5, <2>6, <2>7
<1>5. CASE Restart
  <2>1. /\ live' = {} /\ queue' = <<>> /\ hydration' = None
        /\ \A c \in Conn : connections'[c] = None /\ phase'[c] \in {"new", "closed"} /\ binding'[c] = None
        /\ \A s \in Session : entryClient'[s] = None
        /\ UNCHANGED <<guests, lock, creds>>
    BY <1>5 DEF Restart
  <2>2. QueuedResumes' BY <1>0, <2>1, ResumesStep
  <2>3. GuestRows' BY <1>0, <2>1 DEF GuestRows, RowsMove, TypeOK, StoreTypes
  <2>4. ClosedDetach' /\ ReadyClients' BY <2>1 DEF ClosedDetach, ReadyClients
  <2>5. OneClaimant' BY <1>0, <2>1, ClaimsStay DEF ClaimsKept
  <2>6. Hydrating' /\ EntryRows' BY <2>1 DEF Hydrating, EntryRows
  <2> QED BY <2>2, <2>3, <2>4, <2>5, <2>6
<1>6. ASSUME NEW s \in Session, NEW st \in LiveStatus, BackgroundWrite(s, st) PROVE RowInv'
  <2>1. /\ status[s] \in LiveStatus /\ (st = status[s] \/ st = "active") /\ status' = [status EXCEPT ![s] = st]
        /\ UNCHANGED <<registryVars, queue, hydration, sink, socketVars, guests, lock, creds>>
    BY <1>6 DEF BackgroundWrite
  <2>2. QueuedResumes' /\ GuestRows' /\ ClosedDetach' /\ ReadyClients' /\ OneClaimant'
    BY <1>1, <2>1 DEF registryVars, socketVars
  <2>3. \A t \in Session : status[t] \in LiveStatus => status'[t] \in LiveStatus /\ (status[t] = "active" => status'[t] = "active")
    BY <2>1 DEF TypeOK, StoreTypes
  <2>4. EntryRows' BY <2>1, <2>3, EntriesStay DEF registryVars, TypeOK, RegistryTypes
  <2>5. Hydrating'
    BY <2>1, <2>3, <1>0, GrowsByNothing, HydratingKept DEF registryVars
  <2> QED BY <2>2, <2>4, <2>5
<1>7. CASE Tick
  <2>1. /\ UNCHANGED <<live, entryConn, entryClient, connections, queue, sink, socketVars, status, guests, lock, creds>>
        /\ (hydration' # None <=> hydration # None)
    BY <1>7 DEF Tick, Older, TypeOK, RegistryTypes
  <2>2. QueuedResumes' /\ GuestRows' /\ ClosedDetach' /\ ReadyClients' /\ OneClaimant'
    BY <1>1, <2>1 DEF socketVars
  <2>3. EntryRows' BY <2>1 DEF EntryRows
  <2>4. Hydrating' BY <2>1 DEF Hydrating, Running
  <2> QED BY <2>2, <2>3, <2>4
<1> QED BY <1>2, <1>3, <1>4, <1>5, <1>6, <1>7 DEF Background

\* An empty registry over an empty store.
LEMMA InitRows == Init => RowInv
  BY DEF Init, RowInv, QueuedResumes, GuestRows, Hydrating, OneClaimant, Claims, ClosedDetach, EntryRows, ReadyClients

\* Every step keeps the invariant.
LEMMA StepRows == IInv /\ RowInv /\ IInv' /\ [Next]_vars => RowInv'
<1> SUFFICES ASSUME IInv, RowInv, IInv', [Next]_vars PROVE RowInv'
  OBVIOUS
<1>1. CASE UNCHANGED vars
  BY <1>1 DEF vars, registryVars, socketVars, storeVars, RowInv, QueuedResumes, GuestRows, Hydrating, Running,
              OneClaimant, Claims, ClosedDetach, Detaching, EntryRows, ReadyClients
<1> QED BY <1>1, SocketsKeepRows, QueueKeepsRows, BackgroundKeepsRows DEF Next

\* The queue and the claims stay what the operations rely on, over logins, closes,
\* takeovers, guest mode, stops and crashes.
THEOREM RowsInductive == Spec => []RowInv
<1> QED BY Inductive, InitRows, StepRows, PTL DEF Spec

\* The invariant says what RegistryAgrees says.
LEMMA RowsAgreeHere == IInv /\ RowInv => RegistryAgrees
<1> SUFFICES ASSUME IInv, RowInv PROVE DeadHolderIsDetaching /\ EntryMatchesRow
  BY DEF RegistryAgrees, IInv
<1> USE DEF IInv, RowInv
<1>1. DeadHolderIsDetaching
  <2> SUFFICES ASSUME NEW s \in Session, entryConn[s] # None, phase[entryConn[s]] = "closed"
               PROVE  \E i \in DOMAIN queue : queue[i].kind = "detach" /\ queue[i].conn = entryConn[s]
    BY DEF DeadHolderIsDetaching
  <2>1. entryConn[s] \in Conn /\ connections[entryConn[s]] # None BY DEF LeaseInv, TypeOK, RegistryTypes
  <2>2. Detaching(entryConn[s], 0) BY <2>1 DEF ClosedDetach
  <2>3. DOMAIN queue = 1..Len(queue) BY DEF TypeOK, RegistryTypes
  <2> QED BY <2>2, <2>3 DEF Detaching
<1>2. EntryMatchesRow
  <2>1. ASSUME NEW s \in live, NEW p \in creds, p[2] = s PROVE entryClient[s] \in {p[1], None}
    <3>1. p[1] \in Client /\ s \in Session /\ p = <<p[1], s>> BY <2>1 DEF TypeOK, StoreTypes, RegistryTypes
    <3>2. Claims(p[1], s) BY <3>1 DEF Claims
    <3>3. entryClient[s] # None => entryClient[s] \in Client /\ Claims(entryClient[s], s)
      BY <3>1 DEF Claims, TypeOK, RegistryTypes
    <3> QED BY <3>1, <3>2, <3>3 DEF OneClaimant
  <2> QED BY <2>1 DEF EntryMatchesRow, EntryRows
<1> QED BY <1>1, <1>2

\* What the registry, the queue and the rows of the store say of one conversation
\* agrees between any two steps: the lease of a closed socket is on its way back, an
\* entry of the owner has a live row, and nobody but its client may continue it.
THEOREM RegistryAgreesAlways == Spec => []RegistryAgrees
  BY Inductive, RowsInductive, RowsAgreeHere, PTL

\* A session that is over is not attached to.
LEMMA OverStays ==
  ASSUME IInv, RowInv, [Next]_vars, NEW s \in Session, status[s] \in {"ended", "expired"}, entryConn[s] = None
  PROVE  entryConn'[s] = None
<1> USE DEF IInv, RowInv
<1>1. ASSUME NEW t \in Session, NEW c, NEW old, attach(t, c, old), t # s PROVE entryConn'[s] = None
  BY <1>1 DEF attach
<1>2. CASE Sockets \/ UNCHANGED vars
  BY <1>2 DEF Sockets, Authenticated, StartClose, MessageWithoutLease, ExitConfirm, AccessRevoked, Unlock, Close,
              HelloGuest, HelloOwner, EnterGuest, SweepInvalid, vars, registryVars
<1>3. CASE Background \/ Tick
  BY <1>3 DEF Background, Tick, sweepExpired, Stop, Shutdown, Restart, BackgroundWrite, Drop, registryVars
<1>4. CASE RunQueue
  <2>1. ASSUME CreateRefused \/ GuestRefused PROVE entryConn'[s] = None
    BY <2>1 DEF CreateRefused, GuestRefused, LoginRefused, registryVars
  <2>2. ASSUME NEW t \in Session, Create(t) PROVE entryConn'[s] = None
    BY <1>1, <2>2 DEF Create, Fresh
  <2>3. ASSUME NEW c \in Conn, NEW t \in Session,
               \/ ResumeRefusedBeforeLookup(c, t) \/ BeginHydrate(c, t) \/ HydrateFailed(c, t)
               \/ HydratedTooLate(c, t) \/ ResumeRefused(c, t) \/ ResumeExpired(c, t)
        PROVE  entryConn'[s] = None
    BY <2>3 DEF ResumeRefusedBeforeLookup, BeginHydrate, HydrateFailed, HydratedTooLate, ResumeRefused, ResumeExpired,
                LoginRefused, Drop, registryVars
  <2>4. ASSUME NEW c \in Conn, NEW t \in Session, ResumeDetached(c, t) \/ TakeOver(c, t) PROVE entryConn'[s] = None
    <3>1. Resuming(c, t) /\ (t \in live \/ hydration # None) /\ \E old : attach(t, c, old)
      BY <2>4 DEF ResumeDetached, TakeOver, Found
    <3>2. t # s BY <3>1, FoundLive DEF LiveStatus
    <3> QED BY <1>1, <3>1, <3>2
  <2>5. ASSUME NEW c \in Conn, NEW k \in Client, NEW t \in Session,
               GuestRebind(c, k, t) \/ GuestExpired(c, k, t) \/ GuestBusy(c, k, t)
        PROVE  entryConn'[s] = None
    BY <2>5 DEF GuestRebind, GuestExpired, GuestBusy, LoginRefused, Drop, registryVars
  <2>6. ASSUME NEW c \in Conn, NEW k \in Client, NEW t \in Session, GuestAttached(c, k, t) PROVE entryConn'[s] = None
    <3>1. t # s BY <2>6 DEF GuestAttached, MustRebind, LiveStatus
    <3> QED BY <1>1, <2>6, <3>1 DEF GuestAttached
  <2>7. ASSUME NEW c \in Conn, Detach(c) PROVE entryConn'[s] = None
    BY <2>7 DEF Detach, TypeOK, RegistryTypes
  <2>8. ASSUME NEW t \in Session, ForcedExpiry(t) \/ End(t) PROVE entryConn'[s] = None
    BY <2>8 DEF ForcedExpiry, End, Drop, registryVars
  <2> QED BY <1>4, <2>1, <2>2, <2>3, <2>4, <2>5, <2>6, <2>7, <2>8 DEF RunQueue
<1> QED BY <1>2, <1>3, <1>4 DEF Next

\* No step, a restart, a late detach or a shutdown included, reopens an ended or
\* expired session or attaches a socket to it.
THEOREM OverForGoodAlways == Spec => OverForGood
<1>1. IInv /\ RowInv /\ [Next]_vars =>
        [\A s \in Session : status[s] \in {"ended", "expired"} =>
           status'[s] = status[s] /\ (entryConn[s] = None => entryConn'[s] = None)]_vars
  <2> SUFFICES ASSUME IInv, RowInv, [Next]_vars, NEW s \in Session, status[s] \in {"ended", "expired"}
               PROVE  status'[s] = status[s] /\ (entryConn[s] = None => entryConn'[s] = None)
    OBVIOUS
  <2>1. RowsMove BY RowsStep DEF IInv
  <2> QED BY <2>1, OverStays DEF RowsMove
<1> QED BY <1>1, Inductive, RowsInductive, PTL DEF Spec, OverForGood
=============================================================================
