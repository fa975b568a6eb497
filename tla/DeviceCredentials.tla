-------------------------- MODULE DeviceCredentials --------------------------
(***************************************************************************)
(* The rotating credential of one device: the generations the store keeps  *)
(* (conversation-store.ts, issue/rotate/acknowledgeDeviceCredential), the  *)
(* copies the client keeps in memory and in its host's storage             *)
(* (session-credential.ts, connection-controller.ts), and the connection   *)
(* between them, which may drop at any moment and lose what is in transit. *)
(*                                                                         *)
(* Generations are numbered in the order of created_at. A generation's     *)
(* grace and life count down to persist_deadline_at and expires_at.        *)
(***************************************************************************)
EXTENDS Naturals, Sequences

CONSTANTS MaxGen,  \* bound: generations ever issued
          Window,  \* deviceCredentialPersistWindowMs, in clock units
          Ttl,     \* deviceCredentialTtlMs, in clock units
          MaxWrites \* bound: host writes outstanding

ASSUME BoundAssumption == MaxGen \in Nat /\ MaxWrites \in Nat
ASSUME TimeAssumption == Window \in Nat \ {0} /\ Ttl \in Nat /\ Window < Ttl

VARIABLES
  issued,     \* generations issued so far
  state, pred, grace, life,  \* the rows of device_credentials, by generation
  since,      \* time since a generation was first presented, up to Window
  up,         \* the client has an authenticated connection
  pendingAck, \* the server's pendingDeviceCredentialId, or 0
  toClient,   \* generation in a ready message in transit, or 0
  toServer,   \* generation in a credential.persisted in transit, or 0
  held,       \* deviceCredentialValue: what the client presents next, or 0
  host,       \* what the host storage holds, or 0
  writes      \* host writes not done yet: value, and whether to acknowledge

rows == <<issued, state, pred, grace, life, since>>
link == <<up, pendingAck, toClient, toServer>>
client == <<held, host, writes>>
vars == <<rows, link, client>>

Gen == 1..MaxGen
States == {"unused", "pending", "active", "revoked"}
Write == [val : 0..MaxGen, ack : BOOLEAN]

TypeOK ==
  /\ issued \in 0..MaxGen
  /\ state \in [Gen -> States] /\ pred \in [Gen -> 0..MaxGen]
  /\ grace \in [Gen -> 0..Window] /\ life \in [Gen -> 0..Ttl]
  /\ since \in [Gen -> 0..Window \cup {Window + 1}]
  /\ up \in BOOLEAN
  /\ pendingAck \in 0..MaxGen /\ toClient \in 0..MaxGen /\ toServer \in 0..MaxGen
  /\ held \in 0..MaxGen /\ host \in 0..MaxGen
  /\ writes \in Seq(Write)

\* since[g] = Window + 1 means that g was never presented.
Init ==
  /\ issued = 0
  /\ state = [g \in Gen |-> "unused"] /\ pred = [g \in Gen |-> 0]
  /\ grace = [g \in Gen |-> 0] /\ life = [g \in Gen |-> 0]
  /\ since = [g \in Gen |-> Window + 1]
  /\ up = FALSE /\ pendingAck = 0 /\ toClient = 0 /\ toServer = 0
  /\ held = 0 /\ host = 0 /\ writes = <<>>

-----------------------------------------------------------------------------
(* The store.                                                              *)

Usable(st, g) == g \in Gen /\ st[g] \in {"pending", "active"}

\* Mutant: promotion leaves the other generations as they are.
PromotedBeside(st, g) == [h \in Gen |-> IF h = g THEN "active" ELSE st[h]]

\* promoteDeviceCredential: g is authoritative, every other generation ends.
Promoted(st, g) ==
  [h \in Gen |-> IF h = g THEN "active" ELSE IF st[h] = "unused" THEN "unused" ELSE "revoked"]

\* Generations whose overlap is over without an acknowledgement.
Due == {g \in Gen : state[g] = "pending" /\ grace[g] = 0 /\ life[g] > 0}
Newest(S) == CHOOSE g \in S : \A h \in S : h <= g

\* settleDeviceCredentialRotations, which opens every operation: the newest due
\* generation wins, and what has expired is revoked.
Settled ==
  LET st == IF Due = {} THEN state ELSE Promoted(state, Newest(Due))
  IN  [g \in Gen |-> IF st[g] # "unused" /\ life[g] = 0 THEN "revoked" ELSE st[g]]

\* A row for the next generation: pending, replacing p, with d left to persist.
Insert(st, p, d) ==
  /\ issued < MaxGen
  /\ issued' = issued + 1
  /\ state' = [st EXCEPT ![issued + 1] = "pending"]
  /\ pred' = [pred EXCEPT ![issued + 1] = p]
  /\ grace' = [grace EXCEPT ![issued + 1] = d]
  /\ life' = [life EXCEPT ![issued + 1] = Ttl]

ActiveOf(st) == IF \E g \in Gen : st[g] = "active" THEN CHOOSE g \in Gen : st[g] = "active" ELSE 0

\* The connection is authenticated; ready carries the new generation.
Admit ==
  /\ up' = TRUE /\ toServer' = 0
  /\ pendingAck' = issued + 1 /\ toClient' = issued + 1

\* A login by master token or resume credential provisions a generation
\* (issueDeviceCredential), whatever else is pending.
Provision ==
  /\ ~up
  /\ Insert(Settled, ActiveOf(Settled), Window)
  /\ Admit
  /\ UNCHANGED <<since, client>>

\* Mutant: the generation that was presented is revoked with its successors.
Family(st, g) == {h \in Gen : st[h] = "pending" /\ pred[h] = g} \cup {g}

\* Successors of g that were not persisted.
Children(st, g) == {h \in Gen : st[h] = "pending" /\ pred[h] = g}

\* Mutant: a replay gets the full window again.
DeviceLoginExtends ==
  LET g == held
      st == IF Settled[g] = "pending" THEN Promoted(Settled, g) ELSE Settled
  IN
  /\ ~up /\ held # 0 /\ life[held] > 0 /\ Usable(Settled, held)
  /\ Insert([h \in Gen |-> IF h \in Children(st, g) THEN "revoked" ELSE st[h]], g, Window)
  /\ since' = [since EXCEPT ![g] = IF @ = Window + 1 THEN 0 ELSE @]
  /\ Admit
  /\ UNCHANGED client

\* rotateDeviceCredential: a login by the generation the client holds. A pending
\* one is promoted first. The successor never outlives the first overlap.
DeviceLogin ==
  LET g == held
      st == IF Settled[g] = "pending" THEN Promoted(Settled, g) ELSE Settled
      graces == {grace[h] : h \in Children(st, g)} \cup {Window}
      hard == CHOOSE d \in graces : \A e \in graces : d <= e
  IN
  /\ ~up /\ held # 0 /\ life[held] > 0 /\ Usable(Settled, held) /\ hard > 0
  /\ Insert([h \in Gen |-> IF h \in Children(st, g) THEN "revoked" ELSE st[h]], g, hard)
  /\ since' = [since EXCEPT ![g] = IF @ = Window + 1 THEN 0 ELSE @]
  /\ Admit
  /\ UNCHANGED client

\* DEVICE_CREDENTIAL_INVALID: the client clears what it held. The transaction
\* that failed is rolled back, its settlement with it.
DeviceRefused ==
  /\ ~up /\ held # 0 /\ life[held] > 0 /\ ~Usable(Settled, held)
  /\ Len(writes) < MaxWrites
  /\ held' = 0
  /\ writes' = Append(writes, [val |-> 0, ack |-> FALSE])
  /\ UNCHANGED <<rows, link, host>>

\* The ACK of the generation this connection was given.
Acknowledge ==
  /\ up /\ toServer # 0 /\ toServer = pendingAck
  /\ Usable(Settled, toServer)
  /\ state' = IF Settled[toServer] = "pending" THEN Promoted(Settled, toServer) ELSE Settled
  /\ pendingAck' = 0 /\ toServer' = 0
  /\ UNCHANGED <<issued, pred, grace, life, since, up, toClient, client>>

\* Everything in transit is lost with the connection; a write that completes
\* later finds another socket and is not acknowledged.
Unacked == [i \in 1..Len(writes) |-> [writes[i] EXCEPT !.ack = FALSE]]
Disconnected ==
  /\ up' = FALSE /\ pendingAck' = 0 /\ toClient' = 0 /\ toServer' = 0

\* An ACK the store refuses closes the connection.
AckRefused ==
  /\ up /\ toServer # 0 /\ (toServer # pendingAck \/ ~Usable(Settled, toServer))
  /\ Disconnected
  /\ writes' = Unacked
  /\ UNCHANGED <<rows, held, host>>

\* An operation of another device settles this one's rows too.
SettleElsewhere ==
  /\ Settled # state
  /\ state' = Settled
  /\ UNCHANGED <<issued, pred, grace, life, since, link, client>>

\* revokeDeviceCredentials, at a guest unlock: the connection is closed; the
\* client hears of it, or not.
Revoke ==
  /\ up
  /\ state' = [g \in Gen |-> IF state[g] = "unused" THEN "unused" ELSE "revoked"]
  /\ Disconnected
  /\ \/ /\ Len(writes) < MaxWrites
        /\ held' = 0 /\ writes' = Append(Unacked, [val |-> 0, ack |-> FALSE])
     \/ held' = held /\ writes' = Unacked
  /\ UNCHANGED <<issued, pred, grace, life, since, host>>

-----------------------------------------------------------------------------
(* The client and its host.                                                *)

\* ready: the new generation is in memory at once, on the host when its turn
\* comes.
Ready ==
  /\ up /\ toClient # 0 /\ Len(writes) < MaxWrites
  /\ toClient' = 0
  /\ IF life[toClient] > 0
     THEN /\ held' = toClient
          /\ writes' = Append(writes, [val |-> toClient, ack |-> TRUE])
     ELSE held' = 0 /\ writes' = Append(writes, [val |-> 0, ack |-> FALSE])
  /\ UNCHANGED <<rows, up, pendingAck, toServer, host>>

\* setLocalStorage: only true counts as saved; a failure may have written.
HostWrite(ok) ==
  /\ writes # <<>>
  /\ LET w == Head(writes) IN
     /\ host' \in IF ok THEN {w.val} ELSE {w.val, host}
     /\ toServer' = IF ok /\ w.ack /\ up THEN w.val ELSE toServer
  /\ writes' = Tail(writes)
  /\ UNCHANGED <<rows, up, pendingAck, toClient, held>>

\* loadDevice drops a generation that has expired.
DropExpired ==
  /\ ~up /\ held # 0 /\ life[held] = 0
  /\ Len(writes) < MaxWrites
  /\ held' = 0
  /\ writes' = Append(writes, [val |-> 0, ack |-> FALSE])
  /\ UNCHANGED <<rows, link, host>>

\* The network, the server process or the lease drops the connection.
Drop ==
  /\ up
  /\ Disconnected
  /\ writes' = Unacked
  /\ UNCHANGED <<rows, held, host>>

\* The host kills the client's view: it starts again from the host storage,
\* which it may fail to read.
Reload ==
  /\ Disconnected
  /\ writes' = <<>>
  /\ \/ held' = 0 /\ host' = host
     \/ IF host # 0 /\ life[host] > 0 THEN held' = host /\ host' = host ELSE held' = 0 /\ host' = 0
  /\ UNCHANGED rows

Less(n) == IF n > 0 THEN n - 1 ELSE 0

Tick ==
  /\ grace' = [g \in Gen |-> Less(grace[g])]
  /\ life' = [g \in Gen |-> Less(life[g])]
  /\ since' = [g \in Gen |-> IF since[g] < Window THEN since[g] + 1 ELSE since[g]]
  /\ UNCHANGED <<issued, state, pred, link, client>>

Next ==
  \/ Provision \/ DeviceLogin \/ DeviceRefused \/ Acknowledge \/ AckRefused
  \/ SettleElsewhere \/ Revoke
  \/ Ready \/ (\E ok \in BOOLEAN : HostWrite(ok)) \/ DropExpired \/ Drop \/ Reload
  \/ Tick

Spec == Init /\ [][Next]_vars

-----------------------------------------------------------------------------
(* Properties.                                                             *)

\* One generation is authoritative at most, and what else still admits the
\* device is newer: no sequence of logins, replays, lost ACKs and settlements
\* leaves an older generation usable beside the active one.
OneActive ==
  \A g, h \in Gen : state[g] = "active" /\ Usable(state, h) /\ g # h =>
    state[h] = "pending" /\ h > g

\* Replaying a generation does not keep it alive: once Window has passed since
\* it was first presented, the store no longer accepts it.
OverlapBounded ==
  /\ TypeOK
  /\ \A g \in Gen : since[g] = Window => ~Usable(Settled, g)

\* What the client would present next is not invalidated by a login, an ACK or
\* a write; only by a deadline that passed, by its own expiry or by a revocation.
HeldSurvives ==
  [][ held # 0 /\ held' = held /\ Usable(state, held) /\ ~Usable(state', held) =>
      Due # {} \/ life[held] = 0 \/ (up /\ ~up') ]_vars
=============================================================================
