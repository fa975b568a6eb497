----------------------------- MODULE MCSettles -----------------------------
(***************************************************************************)
(* What must come to an end besides logins and jobs, for TLC: the alert    *)
(* mails of the cost ledger, the speech of one connection, and the         *)
(* microphone of one client.  The models share no state, and every         *)
(* property speaks of the variables of one of them: one run takes them one *)
(* at a time, part names the one at work and the others rest (none of      *)
(* their fair actions is enabled then).                                    *)
(***************************************************************************)
EXTENDS CostLedger, SpeechCapture, AudioCapture

VARIABLE part

Init == part \in {"alerts", "speech", "audio"} /\ LedgerInit /\ SpeechInit /\ AudioInit

Next ==
  \/ part = "alerts" /\ UNCHANGED <<part, speechVars, audioVars>> /\ LedgerNext
  \/ part = "speech" /\ UNCHANGED <<part, ledgerVars, audioVars>> /\ SpeechNext
  \/ part = "audio" /\ UNCHANGED <<part, ledgerVars, speechVars>> /\ AudioNext

Spec ==
  /\ Init /\ [][Next]_<<part, ledgerVars, speechVars, audioVars>>
  /\ LedgerFairness /\ SpeechFairness
=============================================================================
