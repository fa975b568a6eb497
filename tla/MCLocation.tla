----------------------------- MODULE MCLocation -----------------------------
(***************************************************************************)
(* LocationFix and LocationDialogue for TLC.  They share no state, and     *)
(* every property speaks of the variables of one of them: one run takes    *)
(* them one at a time, part names the one at work and the other rests.     *)
(* The positions are taken in two parts, since all at once is too much.    *)
(***************************************************************************)
EXTENDS LocationFix, LocationDialogue, TLC

VARIABLE part

Init == part \in {"requests", "reports", "talk"} /\ FixInit /\ TalkInit

\* Turns ask for positions and the phone answers late; nobody presses start.
Requested == part = "requests" /\ FixNext /\ starting' = {} /\ Len(up') <= 1

\* The user starts and stops reports, and turns are content with what they hold.
Reported == part = "reports" /\ FixNext /\ turn'.state # "waiting"

Next ==
  \/ (Requested \/ Reported) /\ UNCHANGED <<part, talkVars>>
  \/ part = "talk" /\ TalkNext /\ UNCHANGED <<part, fixVars>>

Spec == Init /\ [][Next]_<<part, fixVars, talkVars>>

\* Requests, callbacks and turns are alike; no two of them are compared.
Alike == Permutations(Req)
=============================================================================
