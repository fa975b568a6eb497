------------------------- MODULE MCSessionRegistry -------------------------
(* Instances of SessionRegistry for TLC.                                   *)
EXTENDS SessionRegistry, TLC

\* Ids are interchangeable before they are used; sound for the invariants and
\* the action properties, not used with liveness.
Symmetric == Permutations(Conn) \cup Permutations(Session) \cup Permutations(Client)

\* A device that was locked in guest mode by an earlier process: the state a
\* restart leaves, with the other sessions still unused.
LockedInit ==
  \E k \in Client, s \in Session :
    /\ live = {} /\ activeInput = None /\ closed = FALSE /\ stopping = FALSE
    /\ entryConn = [t \in Session |-> None] /\ entryClient = [t \in Session |-> None]
    /\ age = [t \in Session |-> 0] /\ sink = [t \in Session |-> None]
    /\ connections = [c \in Conn |-> None] /\ queue = <<>> /\ hydration = None
    /\ phase = [c \in Conn |-> "new"] /\ clientOf = [c \in Conn |-> None]
    /\ binding = [c \in Conn |-> None] /\ replaces = [c \in Conn |-> None]
    /\ sessOf = [c \in Conn |-> None] /\ registered = {} /\ stale = {}
    /\ status = [t \in Session |-> IF t = s THEN "idle" ELSE "none"]
    /\ storeAge = [t \in Session |-> 0]
    /\ guests = {s} /\ lock = [j \in Client |-> IF j = k THEN s ELSE None]
    /\ creds = {<<k, s>>}

\* Either start: a store without locks, or with one device locked.
AnySpec == (Init \/ LockedInit) /\ [][Next]_vars
=============================================================================
