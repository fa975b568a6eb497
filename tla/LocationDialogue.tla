--------------------------- MODULE LocationDialogue ---------------------------
(***************************************************************************)
(* The LocationDialogue of a conversation: routes and nearby places over   *)
(* several turns.                                                          *)
(*                                                                         *)
(* A turn is planned by the model, then answered.  Four things are kept    *)
(* between turns: a request that waits for the user to say where he starts *)
(* (pending), a question which of several places he means (place), the     *)
(* comparison last shown (recent) and the search under way, whose          *)
(* preferences and questions so far it counts (task).  The answer to a     *)
(* question is recognized by the question being the last thing said.       *)
(*                                                                         *)
(* Every call of a provider is a step: between its start and its end the   *)
(* user may interrupt the turn and begin another, while the interrupted    *)
(* one is still waiting.                                                   *)
(***************************************************************************)
EXTENDS Integers, FiniteSets

CONSTANTS
  Turn,           \* turns, used again when they are over
  Dest,           \* destinations and categories
  Nil,
  Nearby,         \* changes of the preferences the model may read from an utterance
  Limits          \* questions allowed in one search: 0 delegated, 1 recommend, 2 specific

Patches == {"none", "keep", "patch", "exclude", "allow", "replace", "clear"}
ASSUME DialogueAssumption == Nil \notin Dest /\ Dest # {} /\ Nearby \subseteq Patches /\ Limits \subseteq 0..2

VARIABLES awaiting, place, recent, task, said, talks
contexts == <<awaiting, place, recent, task>>
talkVars == <<awaiting, place, recent, task, said, talks>>

(* What the model reads from an utterance.  "nearby" is its patch of the    *)
(* preferences: "replace" starts a search over, "clear" drops it, "patch",  *)
(* "exclude" and "allow" change it (the last two what cannot be checked).   *)
(* "other": the utterance also concerns the calendar or a delivery; "picks":*)
(* it asks which of the places to choose.                                   *)
Actions == {"none", "analyze", "cancel", "route", "nearby", "recompare"}
Utterance == [action : Actions, dest : Dest \union {Nil}, named : BOOLEAN, nearby : Nearby, other : BOOLEAN, picks : BOOLEAN]

(* A turn that is not running.  "cands" are the places held for it: none, a *)
(* settled choice ("one"), or places of several types ("mixed").            *)
Over == [pc |-> "over", action |-> "none", dest |-> Nil, kind |-> "destination", cands |-> "none", from |-> "nowhere",
         nearby |-> "none", aborted |-> FALSE, checked |-> FALSE, resolved |-> FALSE, inTry |-> FALSE,
         alt |-> FALSE, stage |-> "none"]

TalkInit ==
  /\ awaiting = Nil /\ place = Nil /\ recent = Nil /\ task = Nil
  /\ said = "other" /\ talks = [t \in Turn |-> Over]

DropContexts == awaiting' = Nil /\ place' = Nil /\ recent' = Nil
Become(t, new) == talks' = [talks EXCEPT ![t] = new]
Ends(t, words) == said' = words /\ talks' = [talks EXCEPT ![t] = Over]
Waits(t, pc) == talks[t].pc = pc /\ ~talks[t].aborted

-----------------------------------------------------------------------------
(* Planning.                                                                *)

(* An utterance arrives when no turn is live; contexts expire by then.      *)
Begin(t) ==
  /\ talks[t].pc = "over" /\ \A u \in Turn : talks[u].pc = "over" \/ talks[u].aborted
  /\ awaiting' \in {awaiting, Nil} /\ place' \in {place, Nil} /\ task' \in {task, Nil}
  /\ Become(t, [Over EXCEPT !.pc = "planning"])
  /\ UNCHANGED <<recent, said>>

Route(kind) == IF kind = "nearby" THEN "nearby" ELSE "route"

(* "Which would you choose?" about the comparison last shown.               *)
AsksToChoose(p) ==
  recent # Nil /\ place = Nil /\ p.picks /\ ~p.other /\ p.action \in {"none", "nearby", "recompare", "analyze"}
AnswersPlace(p) == place # Nil /\ said = "place" /\ p.action \in {"route", "nearby"} /\ p.nearby # "replace"
MovesOn(p) == place # Nil /\ said = "place" /\ p.action # "cancel" /\ ~AnswersPlace(p)
AnswersPending(p) ==
  awaiting # Nil /\ said = "pending" /\ p.action \in {"none", "nearby", "route"} /\ p.nearby # "replace" /\ ~p.other

(* The plan of the turn: what the model read, corrected by what was asked.  *)
Corrected(p) ==
  LET chosen == IF AsksToChoose(p) THEN [p EXCEPT !.action = "analyze", !.nearby = "none"] ELSE p
      meant == IF AnswersPlace(chosen)
               THEN [chosen EXCEPT !.action = Route(place.kind), !.dest = place.dest] ELSE chosen
      started == IF AnswersPending(meant)
                 THEN [meant EXCEPT !.action = Route(awaiting.kind), !.dest = awaiting.dest, !.named = TRUE] ELSE meant
  IN IF started.action \in {"route", "nearby"} /\ started.dest = Nil /\ awaiting # Nil
     THEN [started EXCEPT !.dest = awaiting.dest] ELSE started

PlanDone(t, p) ==
  /\ Waits(t, "planning")
  /\ LET q == Corrected(p)
         moved == MovesOn(IF AsksToChoose(p) THEN [p EXCEPT !.action = "analyze", !.nearby = "none"] ELSE p)
         plain == [Over EXCEPT !.pc = "planned", !.action = q.action]
     IN /\ place' = IF moved THEN Nil ELSE place
        /\ task' = IF moved THEN Nil ELSE task
        /\ Become(t, IF q.action \in {"route", "nearby", "recompare"}
                     THEN [plain EXCEPT !.dest = q.dest, !.nearby = q.nearby, !.from = IF q.named THEN "named" ELSE "nowhere"]
                     ELSE plain)
  /\ UNCHANGED <<awaiting, recent, said>>

-----------------------------------------------------------------------------
(* Answers of the model, and the web search for alternatives.               *)

(* What the turn was about matters only to the handler of a failed route.   *)
BaseReply(t, new) ==
  LET kept == IF new.inTry THEN new ELSE Over
  IN Become(t, [kept EXCEPT !.pc = "answering"])

(* Alternatives need an area to search: that of the origin or of a place    *)
(* found, else the one around the position, else the user is asked.         *)
AskArea(t, new) ==
  /\ awaiting' = [dest |-> new.dest, kind |-> new.kind, cands |-> "none"]
  /\ Ends(t, "pending")
Alternatives(t, new) ==
  \/ /\ awaiting' = Nil
     /\ BaseReply(t, new) /\ said' = said
  \/ /\ new.from = "gps"
     /\ Become(t, [new EXCEPT !.pc = "area"]) /\ UNCHANGED <<awaiting, said>>
  \/ /\ new.from # "gps"
     /\ AskArea(t, new)

AreaDone(t, found) ==
  /\ Waits(t, "area")
  /\ IF found THEN awaiting' = Nil /\ BaseReply(t, talks[t]) /\ said' = said ELSE AskArea(t, talks[t])
  /\ UNCHANGED <<place, recent, task>>

(* A failure while a route is looked for.  An alternative that was started  *)
(* is not started again; nothing found forgets the request.                 *)
FailsWith(t, new, nothing) ==
  IF new.alt THEN Ends(t, "other") /\ UNCHANGED <<awaiting, place, recent>>
  ELSE LET late == [new EXCEPT !.inTry = FALSE]
       IN IF nothing
          THEN /\ place' = Nil /\ recent' = Nil
               /\ \/ awaiting' = Nil /\ BaseReply(t, late) /\ said' = said
                  \/ late.from = "gps" /\ awaiting' = Nil /\ Become(t, [late EXCEPT !.pc = "area"]) /\ said' = said
                  \/ late.from # "gps" /\ AskArea(t, late)
          ELSE UNCHANGED <<place, recent>> /\ Alternatives(t, late)

ReplyDone(t, ok) ==
  /\ Waits(t, "answering")
  /\ IF ~ok /\ talks[t].inTry THEN FailsWith(t, talks[t], FALSE)
     ELSE Ends(t, "other") /\ UNCHANGED <<awaiting, place, recent>>
  /\ UNCHANGED task

-----------------------------------------------------------------------------
(* The turn is answered.                                                    *)

(* No route is asked for: the model answers.                                *)
ReplyPlain(t) ==
  /\ Waits(t, "planned") /\ talks[t].action = "none"
  /\ BaseReply(t, talks[t]) /\ UNCHANGED <<contexts, said>>

Cancels(c) == c.action = "cancel" \/ (c.action \in {"route", "nearby", "recompare"} /\ c.nearby = "clear")
ReplyCancel(t) ==
  /\ Waits(t, "planned") /\ Cancels(talks[t]) /\ (talks[t].action = "recompare" => recent # Nil)
  /\ DropContexts /\ task' = Nil
  /\ BaseReply(t, talks[t]) /\ said' = said

(* Nothing was compared yet.                                                *)
ReplyNothing(t) ==
  /\ Waits(t, "planned") /\ talks[t].action \in {"analyze", "recompare"} /\ recent = Nil
  /\ Ends(t, "other") /\ UNCHANGED contexts

(* The places last shown: their hours may be checked again first.           *)
Analyzed(t, old) ==
  LET new == [talks[t] EXCEPT !.dest = old.dest, !.kind = "nearby", !.from = "nowhere"]
  IN Alternatives(t, new) \/ (BaseReply(t, new) /\ UNCHANGED <<awaiting, said>>)
ReplyAnalyze(t) ==
  /\ Waits(t, "planned") /\ talks[t].action = "analyze" /\ recent # Nil
  /\ \/ Become(t, [talks[t] EXCEPT !.pc = "rechecking"]) /\ UNCHANGED <<awaiting, said>>
     \/ Analyzed(t, recent)
  /\ UNCHANGED <<place, recent, task>>
Rechecked(t, open) ==
  /\ Waits(t, "rechecking")
  /\ IF open THEN recent' = recent /\ Analyzed(t, recent)
     ELSE /\ recent' = Nil
          /\ Alternatives(t, [talks[t] EXCEPT !.dest = recent.dest, !.kind = "nearby", !.from = "nowhere"])
  /\ UNCHANGED <<place, task>>

(* The search goes on, or another begins.                                   *)
Fresh(c) ==
  \/ task = Nil \/ c.nearby = "replace"
  \/ c.nearby = "none" /\ place = Nil /\ awaiting = Nil /\ c.action # "recompare"
Continued(c, limit) ==
  LET base == IF Fresh(c) THEN [rounds |-> 0, limit |-> 2, excludes |-> FALSE] ELSE task
  IN IF c.nearby = "none" THEN base
     ELSE [base EXCEPT !.limit = limit,
                       !.excludes = c.nearby = "exclude" \/ (@ /\ c.nearby \notin {"allow", "replace"})]

Matches(context, dest, kind) == context # Nil /\ context.dest = dest /\ context.kind = kind
HeldCands(c, dest, kind) ==
  IF c.nearby = "replace" \/ (c.nearby \in {"patch", "exclude", "allow"} /\ place = Nil) THEN "none"
  ELSE IF Matches(place, dest, kind) THEN place.cands
  ELSE IF c.action = "recompare" THEN "one"
  ELSE IF Matches(awaiting, dest, kind) THEN awaiting.cands ELSE "none"

(* Candidates that are held must be of the kind asked for; which is asked   *)
(* again only while a question about places is open.                        *)
Search(t, new) ==
  \/ /\ new.cands = "none"
     /\ Become(t, [new EXCEPT !.pc = "searching", !.inTry = TRUE]) /\ UNCHANGED <<awaiting, place, recent, said>>
  \/ /\ new.cands # "none"
     /\ FailsWith(t, new, TRUE)
  \/ \E c \in {"one", new.cands} \ {"none"} :
       /\ new.cands # "none"
       /\ Become(t, [new EXCEPT !.cands = c, !.inTry = TRUE,
                     !.pc = IF c = "mixed" /\ place # Nil THEN "clarifying" ELSE "routing",
                     !.stage = IF c = "mixed" /\ place # Nil THEN "held" ELSE @])
       /\ UNCHANGED <<awaiting, place, recent, said>>

ReplyRoute(t) ==
  /\ Waits(t, "planned") /\ talks[t].action \in {"route", "nearby", "recompare"} /\ talks[t].nearby # "clear"
  /\ talks[t].action = "recompare" => recent # Nil
  /\ LET c == talks[t]
         again == c.action = "recompare"
         dest == IF again THEN recent.dest ELSE c.dest
         kind == IF again THEN recent.kind ELSE IF c.action = "nearby" THEN "nearby" ELSE "destination"
         new == [c EXCEPT !.dest = dest, !.kind = kind, !.cands = HeldCands(c, dest, kind), !.action = "none", !.nearby = "none"]
     IN /\ \E limit \in Limits : task' = Continued(c, limit)
        /\ IF (kind = "nearby" /\ task'.excludes) \/ dest = Nil
           THEN Ends(t, "other") /\ UNCHANGED <<awaiting, place, recent>>
           ELSE IF c.from = "named" THEN Search(t, new)
           ELSE Become(t, [new EXCEPT !.pc = "locating"]) /\ UNCHANGED <<awaiting, place, recent, said>>

Located(t, ok) ==
  /\ Waits(t, "locating")
  /\ IF ok THEN Search(t, [talks[t] EXCEPT !.from = "gps"])
     ELSE /\ awaiting' = [dest |-> talks[t].dest, kind |-> talks[t].kind, cands |-> talks[t].cands]
          /\ Ends(t, "pending") /\ UNCHANGED <<place, recent>>
  /\ UNCHANGED task

-----------------------------------------------------------------------------
(* Places are found, told apart, routed to, and checked.                    *)

Found(t, cands) ==
  Become(t, [talks[t] EXCEPT !.cands = cands, !.checked = TRUE,
             !.pc = IF cands = "mixed" THEN "clarifying" ELSE "routing", !.stage = IF cands = "mixed" THEN "found" ELSE @])

(* An unknown destination may be resolved by the model, once.               *)
Discovered(t, result) ==
  /\ Waits(t, "searching")
  /\ \/ result \in {"one", "mixed"} /\ Found(t, result) /\ UNCHANGED <<awaiting, place, recent, said>>
     \/ result \in {"nothing", "down"} /\ FailsWith(t, talks[t], result = "nothing")
     \/ /\ result = "unknown" /\ talks[t].kind = "destination" /\ ~talks[t].resolved
        /\ Become(t, [talks[t] EXCEPT !.pc = "resolving"]) /\ UNCHANGED <<awaiting, place, recent, said>>
  /\ UNCHANGED task

Resolved(t, dest) ==
  /\ Waits(t, "resolving")
  /\ \/ /\ dest # Nil
        /\ Become(t, [talks[t] EXCEPT !.pc = "searching", !.resolved = TRUE, !.dest = dest])
        /\ UNCHANGED <<awaiting, place, recent, said>>
     \/ dest = Nil /\ Ends(t, "other") /\ UNCHANGED <<awaiting, place, recent>>       \* a question of the model
     \/ dest = Nil /\ FailsWith(t, talks[t], TRUE)
  /\ UNCHANGED task

(* Results of the turn: they replace whatever was asked or compared before. *)
Settle(t) ==
  /\ recent' = [dest |-> talks[t].dest, kind |-> talks[t].kind]
  /\ place' = Nil
  /\ \/ awaiting' = Nil /\ Ends(t, "other")
     \/ /\ \/ awaiting' = Nil /\ BaseReply(t, [talks[t] EXCEPT !.alt = TRUE]) /\ said' = said
           \/ /\ talks[t].from = "gps" /\ awaiting' = Nil
              /\ Become(t, [talks[t] EXCEPT !.alt = TRUE, !.pc = "area"]) /\ said' = said
           \/ talks[t].from # "gps" /\ AskArea(t, talks[t])

(* Which places are meant: asked at most "limit" times in one search.       *)
Checking(t) ==
  \/ Become(t, [talks[t] EXCEPT !.pc = "verifying"]) /\ UNCHANGED <<awaiting, place, recent, said>>
  \/ Settle(t)                                      \* plain restaurants are not checked
Clarified(t, ask) ==
  /\ Waits(t, "clarifying")
  /\ LET c == talks[t] IN
     IF ask
     THEN /\ task.rounds < task.limit
          /\ task' = [task EXCEPT !.rounds = @ + 1]
          /\ IF c.stage = "held" THEN UNCHANGED <<awaiting, place, recent>>
             ELSE /\ awaiting' = Nil /\ recent' = Nil
                  /\ place' = [dest |-> c.dest, kind |-> c.kind, cands |-> "mixed"]
          /\ Ends(t, "place")
     ELSE /\ UNCHANGED task
          /\ IF c.stage = "routed" THEN Checking(t)
             ELSE /\ Become(t, [c EXCEPT !.cands = "one", !.checked = TRUE, !.pc = "routing"])
                  /\ UNCHANGED <<awaiting, place, recent, said>>

Routed(t, result) ==
  /\ Waits(t, "routing")
  /\ \/ result \in {"nothing", "down"} /\ FailsWith(t, talks[t], result = "nothing")
     \/ /\ result = "mixed" /\ ~talks[t].checked
        /\ Become(t, [talks[t] EXCEPT !.pc = "clarifying", !.stage = "routed"]) /\ UNCHANGED <<awaiting, place, recent, said>>
     \/ result \in {"one", "mixed"} /\ (result = "mixed" => talks[t].checked) /\ Checking(t)
  /\ UNCHANGED task

VerifiedLate(t, result) ==
  /\ talks[t].pc = "verifying"
  /\ IF result = "nothing" THEN FailsWith(t, talks[t], TRUE) ELSE Settle(t)
  /\ UNCHANGED task

Verified(t, result) ==
  /\ Waits(t, "verifying")
  /\ IF result = "nothing" THEN FailsWith(t, talks[t], TRUE) ELSE Settle(t)
  /\ UNCHANGED task

-----------------------------------------------------------------------------
(* The user interrupts: the turn runs on to the end of the call it waits    *)
(* for, and stops at the check that follows.  (What it was about is dropped *)
(* here: nothing reads it any more.)                                        *)
Abort(t) ==
  /\ talks[t].pc # "over" /\ ~talks[t].aborted
  /\ Become(t, [Over EXCEPT !.pc = talks[t].pc, !.aborted = TRUE])
  /\ said' = IF talks[t].pc = "planning" THEN said ELSE "other"
  /\ UNCHANGED contexts
Stop(t) ==
  /\ talks[t].pc # "over" /\ talks[t].aborted
  /\ Become(t, Over) /\ UNCHANGED <<contexts, said>>

SessionEnds ==
  /\ DropContexts /\ task' = Nil /\ said' = "other"
  /\ talks' = [t \in Turn |-> IF talks[t].pc = "over" THEN Over ELSE [Over EXCEPT !.pc = talks[t].pc, !.aborted = TRUE]]

Results == {"one", "mixed", "nothing", "down", "unknown"}
TalkNext ==
  \/ \E t \in Turn :
       \/ Begin(t) \/ (\E p \in Utterance : PlanDone(t, p))
       \/ ReplyPlain(t) \/ ReplyCancel(t) \/ ReplyNothing(t) \/ ReplyAnalyze(t) \/ ReplyRoute(t)
       \/ Abort(t) \/ Stop(t)
  \/ \E t \in Turn, yes \in BOOLEAN :
       Located(t, yes) \/ Clarified(t, yes) \/ Rechecked(t, yes) \/ AreaDone(t, yes) \/ ReplyDone(t, yes)
  \/ \E t \in Turn, r \in Results : Discovered(t, r) \/ Routed(t, r) \/ Verified(t, r)
  \/ \E t \in Turn, d \in Dest \union {Nil} : Resolved(t, d)
  \/ SessionEnds

TalkSpec == TalkInit /\ [][TalkNext]_talkVars

-----------------------------------------------------------------------------
(* A turn that was interrupted changes nothing of what the next turns go    *)
(* by, however late the call it waits for comes back (the checks of the     *)
(* signal after each await of reply and alternatives).                      *)
AbortedTurnWritesNothing ==
  [][\A t \in Turn : talks[t].aborted /\ talks'[t] # talks[t] => contexts' = contexts]_talkVars

(* "The user moved on to another topic. Do not let an old ambiguity answer  *)
(* silently affect a future route request." (comment in plan)  A turn that  *)
(* is about no route leaves no question about places open.                  *)
MovedOnForgets ==
  [][\A t \in Turn : talks[t].pc = "planning" /\ talks'[t].pc = "planned" /\ talks'[t].action = "none" => place' = Nil]_talkVars
=============================================================================
