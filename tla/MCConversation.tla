--------------------------- MODULE MCConversation ---------------------------
(***************************************************************************)
(* The turns of a conversation and the summaries made of them, for TLC.    *)
(* The two models share no state, and every property speaks of the         *)
(* variables of one of them: one run takes them one at a time, part names  *)
(* the one at work and the other rests.  The timer of a resting worker     *)
(* would be due all the time: fairness is asked of a worker at work.       *)
(***************************************************************************)
EXTENDS ConversationTurns, SummaryJobs

VARIABLE part

TalkInit == part \in {"turns", "summaries"} /\ TurnInit /\ Init

TalkNext ==
  \/ part = "turns" /\ UNCHANGED <<part, vars>> /\ TurnNext
  \/ part = "summaries" /\ UNCHANGED <<part, turnVars>> /\ Next

TalkSpec ==
  /\ TalkInit /\ [][TalkNext]_<<part, turnVars, vars>>
  /\ TurnFairness /\ (part = "turns" \/ Fairness)
=============================================================================
