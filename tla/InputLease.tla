----------------------------- MODULE InputLease -----------------------------
(***************************************************************************)
(* What SessionRegistry promises its callers, without queue, sockets or    *)
(* clock: at any moment one connection drives at most one conversation;    *)
(* a free lease may be taken, a held lease may only be handed over within  *)
(* the same conversation, and the lease of a dead connection comes back.   *)
(***************************************************************************)
CONSTANTS Session, Conn, None

VARIABLES holder,   \* the connection that owns the input lease, or None
          session,  \* the conversation it drives, or None
          dead      \* connections whose socket is gone

leaseVars == <<holder, session, dead>>

Init == holder = None /\ session = None /\ dead = {}

Take == /\ holder = None
        /\ holder' \in Conn
        /\ session' \in Session
        /\ UNCHANGED dead

HandOver == /\ holder # None
            /\ holder' \in Conn \ {holder}
            /\ UNCHANGED <<session, dead>>

Release == /\ holder # None
           /\ holder' = None
           /\ session' = None
           /\ UNCHANGED dead

\* One socket, or (with the process) all of them.
Die == /\ dead \subseteq dead' /\ dead' # dead /\ dead' \subseteq Conn
       /\ \/ UNCHANGED <<holder, session>>
          \/ holder' = None /\ session' = None

Next == Take \/ HandOver \/ Release \/ Die

\* A conversation given up by a dead connection is not kept by it.
ReleaseDead == holder \in dead /\ (Release \/ HandOver)

\* What no step may break; and that a dead connection lets go.
Promise == Init /\ [][Next]_leaseVars
Spec == Promise /\ WF_leaseVars(ReleaseDead)
=============================================================================
