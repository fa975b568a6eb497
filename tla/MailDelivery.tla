----------------------------- MODULE MailDelivery -----------------------------
(***************************************************************************)
(* How one conversation uses the JobStore: DeliveryDialogue                *)
(* (delivery-dialogue.ts), which previews an artifact and sends it when    *)
(* the next turn confirms, and the web panel's jobs.* messages             *)
(* (conversation-server.ts), which do the same with a one-use token.       *)
(*                                                                         *)
(* A turn runs from Submit to the end of its answer.  Its answer is one    *)
(* step unless it waits: for the draft ("generating"), for the job         *)
(* ("saving") or for the mail ("sending").  What the planner makes of a    *)
(* text is open; a text is "yes" when it would be a valid approval of the  *)
(* preview the conversation ends with.  A prompt is the job and the        *)
(* attempt it asks about; times are fresh or expired.  The offer to        *)
(* generate a document only chooses the action and is left out.            *)
(***************************************************************************)
EXTENDS JobStore

VARIABLES
  run,       \* the current submit(): its plan and what its reply waits for
  stale,     \* drafts of aborted turns that have not come back: the job, or NoJob
  approval,  \* DeliveryDialogue.approval
  shown,     \* what the last message of the history asks, or Nothing
  draft,     \* DeliveryDialogue.jobId (draft is set and cleared with it)
  saved,     \* the recovery row of kind "delivery"
  web,       \* ServerSessionRuntime.mailApproval
  asked,     \* history: shown is an approvable preview that was not answered,
             \* withdrawn or expired
  granted    \* history: the prompts that the user approved

dialogue == <<run, stale, approval, shown, draft, saved, web, asked, granted>>
vars == <<storeVars, dialogue>>

Nothing == [job |-> NoJob, attempt |-> 0]
NoApproval == [prompt |-> Nothing, fresh |-> FALSE]
Prompt == [job : Job, attempt : 0..1] \union {Nothing}
Approval == [prompt : Prompt, fresh : BOOLEAN]
NoCaller == "no caller"
NoRun == [phase |-> "none", yes |-> FALSE, approval |-> NoApproval, job |-> NoJob, caller |-> NoCaller]

TypeOK ==
  /\ StoreTypeOK
  /\ run \in [phase : {"none", "planning", "generating", "saving", "sending"}, yes : BOOLEAN,
              approval : Approval, job : Job \union {NoJob}, caller : Callers \union {NoCaller}]
  /\ stale \subseteq Job \union {NoJob}
  /\ approval \in Approval /\ web \in Approval
  /\ shown \in Prompt
  /\ draft \in Job \union {NoJob} /\ saved \in Job \union {NoJob}
  /\ asked \in BOOLEAN
  /\ granted \subseteq Prompt

Init ==
  /\ StoreInit
  /\ run = NoRun /\ stale = {}
  /\ approval = NoApproval /\ web = NoApproval
  /\ shown = Nothing /\ draft = NoJob /\ saved = NoJob
  /\ asked = FALSE /\ granted = {}

Grant(prompt) == granted' = granted \union {prompt}

-----------------------------------------------------------------------------
(* Turns *)

\* Conversation.cancel: the turn that runs is superseded.  Its mail is not
\* called back once it is sent; its draft comes back later.
AbortRun ==
  /\ stale' = IF run.phase \in {"generating", "saving"} THEN stale \union {run.job} ELSE stale
  /\ IF run.phase = "sending" /\ calls[run.caller].phase = "reading"
     THEN Abort(run.caller)
     ELSE UNCHANGED storeVars

\* The text of a turn is submitted, and its plan takes the approval at once.
\* The panel's approval ends with typed and spoken text, not with answer.retry.
Submit(yes, retyped) ==
  /\ AbortRun
  /\ run' = [NoRun EXCEPT !.phase = "planning", !.yes = yes, !.approval = approval]
  /\ approval' = NoApproval
  /\ web' = IF retyped THEN NoApproval ELSE web
  /\ IF yes /\ asked THEN Grant(shown) ELSE UNCHANGED granted
  /\ asked' = FALSE
  /\ UNCHANGED <<shown, draft, saved>>

\* A text that another wrapper or the conversation itself answers: the dialogue
\* never plans it and keeps its approval.
AnsweredElsewhere(retyped) ==
  /\ AbortRun
  /\ run' = NoRun
  /\ web' = IF retyped THEN NoApproval ELSE web
  /\ shown' = Nothing /\ asked' = FALSE
  /\ UNCHANGED <<approval, draft, saved, granted>>

Interrupt(spoken) ==
  /\ AbortRun
  /\ run' = NoRun
  /\ web' = IF spoken THEN NoApproval ELSE web
  /\ UNCHANGED <<approval, shown, draft, saved, asked, granted>>

\* pause, exit.request and a failing planner: invalidate follows the state event.
\* No text comes before the resume, which changes nothing else.
Paused ==
  /\ AbortRun
  /\ run' = NoRun
  /\ approval' = NoApproval /\ web' = NoApproval /\ asked' = FALSE
  /\ UNCHANGED <<shown, draft, saved, granted>>

\* The connection goes: approvals are revoked, the turn goes on.
Detach ==
  /\ approval' = NoApproval /\ web' = NoApproval /\ asked' = FALSE
  /\ UNCHANGED <<storeVars, run, stale, shown, draft, saved, granted>>

\* Memory is revoked, or the session ends.
EndSession ==
  /\ AbortRun
  /\ run' = NoRun
  /\ approval' = NoApproval /\ web' = NoApproval /\ asked' = FALSE
  /\ draft' = NoJob /\ saved' = NoJob /\ shown' = Nothing
  /\ UNCHANGED <<granted>>

\* Five minutes pass since a preview.
Expire ==
  \/ /\ approval.fresh \/ run.approval.fresh \/ asked
     /\ approval' = [approval EXCEPT !.fresh = FALSE]
     /\ run' = [run EXCEPT !.approval.fresh = FALSE]
     /\ asked' = FALSE
     /\ UNCHANGED <<storeVars, stale, shown, draft, saved, web, granted>>
  \/ /\ web.fresh
     /\ web' = [web EXCEPT !.fresh = FALSE]
     /\ UNCHANGED <<storeVars, run, stale, approval, shown, draft, saved, asked, granted>>

-----------------------------------------------------------------------------
(* The reply *)

\* The answer is committed without asking for anything.
Answered == run' = NoRun /\ shown' = Nothing /\ asked' = FALSE

\* The answer is a preview that asks for approval.
Asks(prompt) ==
  /\ run' = NoRun
  /\ shown' = prompt /\ asked' = TRUE
  /\ approval' = [prompt |-> prompt, fresh |-> TRUE]

\* preview and retryPreview, for the job j the dialogue has.
Preview(j) ==
  IF j # NoJob /\ Sendable(j) /\ delivery[j] = "none"
  THEN Asks([job |-> j, attempt |-> 0])
  ELSE Answered /\ UNCHANGED approval
RetryPreview ==
  IF draft # NoJob /\ CanRetryEmail(draft)
  THEN Asks([job |-> draft, attempt |-> Len(attempts[draft])])
  ELSE Answered /\ UNCHANGED approval

\* A text that approves a pending preview is a confirmation whatever the planner says.
Chooses == run.phase = "planning" /\ ~(run.yes /\ run.approval # NoApproval)

\* Mutant: the message the user answers is not compared with the preview.
ConfirmedAny == run.yes /\ run.approval.fresh /\ run.approval.prompt.job = draft

\* The text approves the very preview that the history ends with.
Confirmed ==
  /\ run.yes
  /\ run.approval.fresh
  /\ run.approval.prompt.job = draft
  /\ shown = run.approval.prompt

\* A plan that says wait: nothing is answered.
Waits ==
  /\ run.phase = "planning"
  /\ run' = NoRun
  /\ UNCHANGED <<storeVars, stale, approval, shown, draft, saved, web, asked, granted>>

\* An ordinary answer, or one of another wrapper; what it says may be lost
\* again by an interruption.
PlainReply ==
  /\ run.phase = "planning"
  /\ Answered
  /\ UNCHANGED <<storeVars, stale, approval, draft, saved, web, granted>>

NotReceived ==
  /\ Chooses
  /\ RetryPreview
  /\ UNCHANGED <<storeVars, stale, draft, saved, web, granted>>

Received ==
  /\ Chooses
  /\ draft # NoJob
  /\ AcknowledgeReceipt(draft)
  /\ Answered
  /\ approval' = NoApproval /\ saved' = NoJob
  /\ UNCHANGED <<stale, draft, web, granted>>

CancelSending ==
  /\ Chooses
  /\ Answered
  /\ approval' = NoApproval
  /\ UNCHANGED <<storeVars, stale, draft, saved, web, granted>>

Review ==
  /\ Chooses
  /\ Preview(draft)
  /\ UNCHANGED <<storeVars, stale, draft, saved, web, granted>>

\* confirm: approved, the mail is sent; otherwise a fresh preview.
Confirm ==
  /\ run.phase = "planning"
  /\ IF Confirmed
     THEN /\ approval' = NoApproval
          /\ LET retry == run.approval.prompt.attempt # 0
             IN  IF SendAccepted(draft, retry)
                 THEN \E c \in Callers :
                        /\ SendEmail(c, draft, retry)
                        /\ run' = [NoRun EXCEPT !.phase = "sending", !.caller = c]
                        /\ shown' = Nothing /\ asked' = FALSE
                 ELSE Answered /\ UNCHANGED storeVars
     ELSE /\ UNCHANGED storeVars
          /\ Preview(draft) \/ RetryPreview
  /\ UNCHANGED <<stale, draft, saved, web, granted>>

\* The mail was sent or not: the answer says so.
Reported ==
  /\ run.phase = "sending" /\ calls[run.caller] = NoCall
  /\ Answered
  /\ UNCHANGED <<storeVars, stale, approval, draft, saved, web, granted>>

\* document and revise: the artifact the dialogue had is superseded.
Generate ==
  /\ Chooses
  /\ IF draft # NoJob THEN Supersede(draft) ELSE UNCHANGED storeVars
  /\ run' = [NoRun EXCEPT !.phase = "generating"]
  /\ approval' = NoApproval /\ shown' = Nothing /\ asked' = FALSE
  /\ draft' = NoJob /\ saved' = NoJob
  /\ UNCHANGED <<stale, web, granted>>

\* The generator asks back or fails, or the job is refused.
NotGenerated ==
  /\ run.phase = "generating"
  /\ Answered
  /\ draft' = NoJob /\ saved' = NoJob
  /\ UNCHANGED <<storeVars, stale, approval, web, granted>>

Generated ==
  /\ run.phase = "generating"
  /\ Enqueue
  /\ run' = [run EXCEPT !.phase = "saving", !.job = NewJob]
  /\ UNCHANGED <<stale, approval, shown, draft, saved, web, asked, granted>>

\* Mutant: the recovery row is not written.
SavedUnrecorded ==
  /\ run.phase = "saving" /\ state[run.job] = "completed"
  /\ draft' = run.job /\ UNCHANGED saved
  /\ Preview(run.job)
  /\ UNCHANGED <<storeVars, stale, web, granted>>

Saved ==
  /\ run.phase = "saving" /\ state[run.job] = "completed"
  /\ draft' = run.job /\ saved' = run.job
  /\ Preview(run.job)
  /\ UNCHANGED <<storeVars, stale, web, granted>>

\* The job did not complete, or not within the deadline.
NotSaved ==
  /\ run.phase = "saving" /\ state[run.job] # "completed"
  /\ Discard(run.job)
  /\ Answered
  /\ draft' = NoJob /\ saved' = NoJob
  /\ UNCHANGED <<stale, approval, web, granted>>

\* An aborted turn notices that it was: it withdraws its job and, late as it
\* may be, forgets the dialogue's draft.
StaleReturns(j) ==
  /\ j \in stale
  /\ stale' = stale \ {j}
  /\ IF j # NoJob THEN Discard(j) ELSE UNCHANGED storeVars
  /\ draft' = NoJob /\ saved' = NoJob
  /\ UNCHANGED <<run, approval, shown, web, asked, granted>>

-----------------------------------------------------------------------------
(* The web panel *)

Withdrawn == approval' = NoApproval /\ asked' = FALSE

Prepared(j, retry) ==
  web' = IF Due(j, retry)
         THEN [prompt |-> [job |-> j, attempt |-> IF retry THEN Len(attempts[j]) ELSE 0], fresh |-> TRUE]
         ELSE NoApproval

\* jobs.email.prepare
Prepare(j, retry) ==
  /\ Withdrawn
  /\ Prepared(j, retry)
  /\ UNCHANGED <<storeVars, run, stale, shown, draft, saved, granted>>

\* Mutant: the token of the message is not compared with the pending one.
WebApprovedAny(j, current) == web.prompt.job = j /\ web.fresh

\* current: the message carries the token of the pending confirmation.
WebApproved(j, current) == web.prompt.job = j /\ current /\ web.fresh

\* jobs.email without a valid token: a fresh preview, never a mail.
Unapproved(j, current) ==
  /\ ~WebApproved(j, current)
  /\ IF delivery[j] = "none" THEN Withdrawn /\ Prepared(j, FALSE) ELSE UNCHANGED <<approval, asked, web>>
  /\ UNCHANGED <<storeVars, run, stale, shown, draft, saved, granted>>

\* jobs.email with it: the token is used up, and the mail is sent unless it
\* lacks the dates a calendar attachment wants confirmed or the store refuses.
Approved(j, current) ==
  /\ WebApproved(j, current)
  /\ Withdrawn
  /\ web' = NoApproval
  /\ \/ /\ \E c \in Callers \ {run.caller} : SendEmail(c, j, web.prompt.attempt # 0)
        /\ IF current THEN Grant(web.prompt) ELSE UNCHANGED granted
     \/ UNCHANGED <<storeVars, granted>>
  /\ UNCHANGED <<run, stale, shown, draft, saved>>

CancelPrepared ==
  /\ web # NoApproval
  /\ web' = NoApproval
  /\ UNCHANGED <<storeVars, run, stale, approval, shown, draft, saved, asked, granted>>

\* jobs.export
Export ==
  /\ Withdrawn /\ web' = NoApproval
  /\ IF CanEnqueue THEN Enqueue ELSE UNCHANGED storeVars
  /\ UNCHANGED <<run, stale, shown, draft, saved, granted>>

\* jobs.email.received
MarkReceived(j) ==
  /\ Withdrawn /\ web' = NoApproval
  /\ IF MailEnded(j) THEN AcknowledgeReceipt(j) ELSE UNCHANGED storeVars
  /\ UNCHANGED <<run, stale, shown, draft, saved, granted>>

\* jobs.cancel
CancelJob(j) == Cancel(j) /\ UNCHANGED dialogue

-----------------------------------------------------------------------------
(* Stop and start: the sessions are disposed of before the store is closed, so *)
(* nothing of the dialogue runs next to Close. Approvals are gone, the saved   *)
(* draft is loaded if it still stands.                                         *)

Restart ==
  /\ StoreRestarts
  /\ run' = NoRun /\ stale' = {}
  /\ approval' = NoApproval /\ web' = NoApproval /\ asked' = FALSE
  /\ saved' \in IF saved # NoJob /\ Sendable(saved) /\ saved \notin receipts
                THEN {saved, NoJob} ELSE {NoJob}
  /\ draft' = saved'
  /\ UNCHANGED <<shown, granted>>

\* What goes on without the user.
Background(A) == A /\ UNCHANGED dialogue

TurnGoesOn ==
  \/ Waits \/ PlainReply \/ NotReceived \/ Received \/ CancelSending \/ Review \/ Confirm
  \/ Reported \/ Generate \/ NotGenerated \/ Generated \/ Saved \/ NotSaved

Talk ==
  \/ \E retyped \in BOOLEAN : \/ \E yes \in BOOLEAN : Submit(yes, retyped)
                              \/ AnsweredElsewhere(retyped)
  \/ \E spoken \in BOOLEAN : Interrupt(spoken)
  \/ Paused \/ Detach \/ EndSession \/ Expire
  \/ TurnGoesOn
  \/ \E j \in stale : StaleReturns(j)

Panel ==
  \/ \E j \in Job : \/ \E retry \in BOOLEAN : Prepare(j, retry)
                    \/ \E current \in BOOLEAN : Unapproved(j, current) \/ Approved(j, current)
                    \/ MarkReceived(j) \/ CancelJob(j)
  \/ CancelPrepared \/ Export

Next == Background(StoreWorks) \/ Talk \/ Panel \/ Restart

Spec == Init /\ [][Next]_vars

-----------------------------------------------------------------------------
(* Properties *)

\* Every attempt has an approval of its own: the user's answer to a preview of
\* this very artifact, the last thing the conversation said, within five
\* minutes and with no other turn, pause, exit, disconnection or session end in
\* between, or the panel's token (delivery-dialogue.ts:163-183,
\* conversation-server.ts:1000-1012).
ApprovedBeforeSent ==
  \A j \in Job : \A i \in 1..Len(attempts[j]) : [job |-> j, attempt |-> i - 1] \in granted

\* The artifact the conversation would send is finished and current, and a
\* restart finds the same one unless its mail was received
\* (delivery-dialogue.ts:67-85, 186-222).
DraftRecoverable ==
  /\ TypeOK
  /\ draft # NoJob => Sendable(draft)
  /\ saved \in {draft, NoJob}
  /\ draft # NoJob /\ draft \notin receipts => saved = draft
=============================================================================
