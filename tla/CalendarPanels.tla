--------------------------- MODULE CalendarPanels ---------------------------
(***************************************************************************)
(* The calendar panels of the connections (src/src/calendar-control.ts)    *)
(* on top of the calendar service.  Each holds at most one preview that a  *)
(* confirmation would write, and gives it up when the connection is lost,  *)
(* the conversation pauses or another preview is asked for.                *)
(***************************************************************************)
EXTENDS GoogleCalendar

CONSTANT Panels   \* the connections that have a calendar panel

VARIABLES
    panel,     \* each panel's pending preview and the call under way
    void       \* history: operations whose preview a panel gave up unconfirmed

panels == <<panel, void>>
panelVars == <<service, panels>>

PanelCalls == {"none", "preview", "confirm"}

Idle(p) == panel[p].call = "none"

NewPanel == [pending |-> NoOp, call |-> "none", of |-> NoOp, stale |-> FALSE]

PanelInit == ServiceInit /\ panel = [p \in Panels |-> NewPanel] /\ void = {}

\* What invalidate() gives up: the pending preview and the one being prepared.
GivenUp(p) == {panel[p].pending} \cup (IF panel[p].call = "preview" THEN {panel[p].of} ELSE {})

\* invalidate(): the connection is lost, the session pauses or ends, or the
\* panel sends calendar.dismiss.
InvalidatePanel(p) ==
    /\ op' = Dismissed(panel[p].pending)
    /\ panel' = [panel EXCEPT ![p].pending = NoOp, ![p].stale = (panel[p].call = "preview")]
    /\ void' = void \cup (GivenUp(p) \ {NoOp})
    /\ UNCHANGED <<work, google, wire, edits, posts, effect>>

\* calendar.preview: gives up what was pending and asks the service, which
\* may refuse (then it was no more than an Invalidate).
AskPreview(p) ==
    /\ Idle(p)
    /\ \E o \in Ops, k \in Kinds, e \in Targets :
         /\ CanPreview(o, k, e)
         /\ op' = Previewing(Dismissed(panel[p].pending), o, k, e)
         /\ panel' = [panel EXCEPT ![p] = [NewPanel EXCEPT !.call = "preview", !.of = o]]
    /\ void' = void \cup (GivenUp(p) \ {NoOp})
    /\ UNCHANGED <<work, google, wire, edits, posts, effect>>

\* A preview that came back is shown, whatever happened meanwhile.
PreviewDoneLate(p) ==
    /\ panel[p].call = "preview" /\ op[panel[p].of].state = "pending"
    /\ panel' = [panel EXCEPT ![p] = [NewPanel EXCEPT !.pending = panel[p].of]]
    /\ UNCHANGED <<service, void>>

\* The preview is there: shown, unless the panel was invalidated meanwhile.
PreviewDone(p) ==
    /\ panel[p].call = "preview"
    /\ LET o == panel[p].of IN
       /\ op[o].state = "pending"
       /\ op' = IF panel[p].stale THEN Dismissed(o) ELSE op
       /\ panel' = [panel EXCEPT ![p] = [NewPanel EXCEPT
                      !.pending = IF panel[p].stale THEN NoOp ELSE o]]
    /\ UNCHANGED <<work, google, wire, edits, posts, effect, void>>

PreviewFailed(p) ==
    /\ panel[p].call = "preview"
    /\ op[panel[p].of].state = "lost"
    /\ panel' = [panel EXCEPT ![p] = NewPanel]
    /\ UNCHANGED <<service, void>>

\* calendar.confirm with the id of the pending preview and its phrase.
ConfirmPending(p) ==
    /\ Idle(p) /\ panel[p].pending # NoOp
    /\ Confirm(panel[p].pending)
    /\ panel' = [panel EXCEPT ![p] = [NewPanel EXCEPT !.call = "confirm", !.of = panel[p].pending]]
    /\ UNCHANGED void

\* The service refuses: it is busy, the phrase is wrong or the time is up.
ConfirmRefused(p) ==
    /\ Idle(p) /\ panel[p].pending # NoOp
    /\ op' = Dismissed(panel[p].pending)
    /\ panel' = [panel EXCEPT ![p].pending = NoOp]
    /\ UNCHANGED <<work, google, wire, edits, posts, effect, void>>

\* The write has its result, which goes to the panel.
ConfirmDone(p) ==
    /\ panel[p].call = "confirm"
    /\ work # panel[p].of
    /\ panel' = [panel EXCEPT ![p] = [NewPanel EXCEPT !.pending = panel[p].pending]]
    /\ UNCHANGED <<service, void>>

\* calendar.confirm with another id, say that of a write whose result the
\* panel never got: nothing but a reconciliation.
ConfirmOther(p) ==
    /\ Idle(p)
    /\ \E o \in Ops \ {panel[p].pending} :
         /\ op[o].state # "free"
         /\ \E r \in Findings(o) : op' = Reconciled(o, r)
    /\ UNCHANGED <<work, google, wire, edits, posts, effect, panels>>

PanelRestart ==
    /\ ServiceRestart
    /\ panel' = [p \in Panels |-> NewPanel]
    /\ UNCHANGED void

PanelNext ==
    \/ ServiceStep /\ UNCHANGED panels
    \/ \E p \in Panels :
         \/ InvalidatePanel(p) \/ AskPreview(p) \/ PreviewDone(p) \/ PreviewFailed(p)
         \/ ConfirmPending(p) \/ ConfirmRefused(p) \/ ConfirmDone(p) \/ ConfirmOther(p)
    \/ PanelRestart

PanelSpec == PanelInit /\ [][PanelNext]_panelVars

-----------------------------------------------------------------------------
(***************************************************************************)
(* Properties                                                              *)
(***************************************************************************)

PanelTypeOK ==
    /\ ServiceTypeOK
    /\ panel \in [Panels -> [pending : Ops \cup {NoOp}, call : PanelCalls,
                             of : Ops \cup {NoOp}, stale : BOOLEAN]]
    /\ void \subseteq Ops

(***************************************************************************)
(* A preview is good for one write while its panel holds it: nothing is    *)
(* ever sent for one that its panel gave up, not even when the panel gave  *)
(* it up before the preview had come back, and never twice for any, over   *)
(* restarts and reconciliations (calendar-control.ts:9-13, :31-33;         *)
(* google-calendar.ts:183-188, :399-404).                                  *)
(***************************************************************************)
WritesOnceWhatIsHeld ==
    /\ PanelTypeOK
    /\ \A o \in Ops : posts[o] <= 1 /\ (o \in void => posts[o] = 0)

(***************************************************************************)
(* What the ledger calls succeeded did happen: the calendar has shown the  *)
(* event as previewed, or without it, since the preview                    *)
(* (google-calendar.ts:212-241, :432-442).                                 *)
(***************************************************************************)
SucceededIsTrue == \A o \in Ops : op[o].state = "succeeded" => effect[o]

(***************************************************************************)
(* The calendar is written what was confirmed, once, and the ledger says   *)
(* what came of it.                                                        *)
(***************************************************************************)
WrittenAsConfirmed == WritesOnceWhatIsHeld /\ SucceededIsTrue

(***************************************************************************)
(* google-calendar.ts says "Block follow-up writes after an uncertain      *)
(* result until an operator reconciles it": no write starts for an event   *)
(* whose last one is uncertain.  The code looks when a preview is made,    *)
(* not when it is confirmed.                                               *)
(***************************************************************************)
FollowUpsBlocked ==
    [][\A o \in Ops :
          posts'[o] > posts[o] =>
            \A q \in Ops \ {o} : op[q].target = op[o].target => op[q].state # "unknown"]_panelVars

=============================================================================
