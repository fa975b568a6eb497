------------------------------ MODULE MCAccess ------------------------------
(***************************************************************************)
(* Who may talk to the server, for TLC: the registry of the owner's        *)
(* conversations, the runtimes of guest mode and the link of the client.   *)
(* The three models share no state, and every property speaks of the       *)
(* variables of one of them: one run takes them one at a time, part names  *)
(* the one at work and the others rest.                                    *)
(***************************************************************************)
EXTENDS MCSessionRegistry, GuestMode, ClientLink

VARIABLE part

AccessInit == part \in {"registry", "guest", "link"} /\ Init /\ GuestInit /\ LinkInit

AccessNext ==
  \/ part = "registry" /\ UNCHANGED <<part, guestVars, clientVars>> /\ Next
  \/ part = "guest" /\ UNCHANGED <<part, vars, clientVars>> /\ GuestNext
  \/ part = "link" /\ UNCHANGED <<part, vars, guestVars>> /\ LinkNext

AccessSpec == AccessInit /\ [][AccessNext]_<<part, vars, guestVars, clientVars>>
=============================================================================
