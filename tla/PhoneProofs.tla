------------------------------ MODULE PhoneProofs ------------------------------
(***************************************************************************)
(* The Even client's microphone, the position of the phone and the turns   *)
(* that ask for it, for every bound of the three models.                   *)
(*                                                                         *)
(* The turns: what is left of an interrupted one is where it waits.        *)
(*                                                                         *)
(* The microphone: what is known before the queue is empty. Each job that  *)
(* opens leaves the microphone as it is until it ends, and a job whose     *)
(* reasons changed has another one queued behind it.                       *)
(*                                                                         *)
(* The position: stops and reports travel on one link in the order they    *)
(* were sent, so what has to be known is the order of what is on its way:  *)
(* no report is older than a stop said before it.                          *)
(***************************************************************************)
EXTENDS AudioCapture, LocationFix, LocationDialogue, TLAPS

(* The turns that ask for a place or a way.                                *)

\* A turn of the record's shape that nobody has interrupted, and what is left of one
\* that was: where it waits.
Intact(c) == DOMAIN c = DOMAIN Over /\ ~c.aborted
Dropped(pc) == [Over EXCEPT !.pc = pc, !.aborted = TRUE]

TalkIInv ==
  /\ DOMAIN talks = Turn
  /\ \A t \in Turn : Intact(talks[t]) \/ \E pc : pc # "over" /\ talks[t] = Dropped(pc)

\* A turn that runs goes on as one that runs, and no other turn changes.
Moves(t) == \E new : Intact(new) /\ talks' = [talks EXCEPT ![t] = new]

\* The record of a turn that is over, and what is left of an interrupted one.
LEMMA OverIs ==
  /\ Intact(Over) /\ Over.pc = "over" /\ ~Over.aborted
  /\ \A pc : /\ Intact([Over EXCEPT !.pc = pc])
             /\ Dropped(pc).pc = pc /\ Dropped(pc).aborted
             /\ [Over EXCEPT !.pc = pc, !.aborted = TRUE] = Dropped(pc)
<1>1. {"pc", "aborted"} \subseteq DOMAIN Over /\ Over.pc = "over" /\ ~Over.aborted BY DEF Over
<1> QED BY <1>1 DEF Intact, Dropped

\* A running turn that notes something runs on.
LEMMA Keeps ==
  ASSUME NEW c, Intact(c)
  PROVE  /\ \A pc : Intact([c EXCEPT !.pc = pc])
         /\ Intact([c EXCEPT !.inTry = FALSE]) /\ Intact([c EXCEPT !.alt = TRUE]) /\ Intact([c EXCEPT !.from = "gps"])
<1>1. "aborted" \in DOMAIN c BY DEF Intact, Over
<1> QED BY <1>1 DEF Intact

\* The ways of answering leave a turn that runs, or is over.
LEMMA Answers ==
  ASSUME NEW t, NEW new, Intact(new)
  PROVE  /\ BaseReply(t, new) => Moves(t)
         /\ AskArea(t, new) => Moves(t)
         /\ Alternatives(t, new) => Moves(t)
         /\ \A pc : Become(t, [new EXCEPT !.pc = pc]) => Moves(t)
         /\ \A words : Ends(t, words) => Moves(t)
<1>1. \A words : Ends(t, words) => Moves(t) BY OverIs DEF Ends, Moves
<1>2. \A pc : Become(t, [new EXCEPT !.pc = pc]) => Moves(t)
  <2>1. \A pc : Intact([new EXCEPT !.pc = pc]) BY Keeps
  <2> QED BY <2>1 DEF Become, Moves
<1>3. BaseReply(t, new) => Moves(t)
  <2> SUFFICES ASSUME BaseReply(t, new) PROVE Moves(t) OBVIOUS
  <2>1. PICK kept \in {new, Over} : Become(t, [kept EXCEPT !.pc = "answering"]) BY DEF BaseReply
  <2>2. Intact(kept) BY OverIs
  <2>3. Intact([kept EXCEPT !.pc = "answering"]) BY <2>2, Keeps
  <2> QED BY <2>1, <2>3 DEF Become, Moves
<1>4. AskArea(t, new) => Moves(t) BY <1>1 DEF AskArea
<1>5. Alternatives(t, new) => Moves(t) BY <1>2, <1>3, <1>4 DEF Alternatives
<1> QED BY <1>1, <1>2, <1>3, <1>4, <1>5

\* A failure is answered.
LEMMA Fails ==
  ASSUME NEW t, NEW new, Intact(new), NEW nothing, FailsWith(t, new, nothing)
  PROVE  Moves(t)
<1>1. CASE Ends(t, "other") BY <1>1, Answers
<1>2. PICK late : late = [new EXCEPT !.inTry = FALSE] /\ Intact(late) BY Keeps
<1>3. ASSUME ~new.alt
      PROVE BaseReply(t, late) \/ Become(t, [late EXCEPT !.pc = "area"]) \/ AskArea(t, late) \/ Alternatives(t, late)
  BY <1>2, <1>3 DEF FailsWith
<1>4. CASE ~new.alt BY <1>2, <1>3, <1>4, Answers
<1> QED BY <1>1, <1>4 DEF FailsWith

\* A search is begun, or answered.
LEMMA Searches ==
  ASSUME NEW t, NEW new, Intact(new), Search(t, new)
  PROVE  Moves(t)
<1>1. "aborted" \in DOMAIN new BY DEF Intact, Over
<1>2. CASE Become(t, [new EXCEPT !.pc = "searching", !.inTry = TRUE])
  <2>1. Intact([new EXCEPT !.pc = "searching", !.inTry = TRUE]) BY <1>1 DEF Intact
  <2> QED BY <1>2, <2>1 DEF Become, Moves
<1>3. CASE FailsWith(t, new, TRUE) BY <1>3, Fails
<1>4. ASSUME NEW c, NEW pc, NEW stage, Become(t, [new EXCEPT !.cands = c, !.inTry = TRUE, !.pc = pc, !.stage = stage])
      PROVE  Moves(t)
  <2>1. Intact([new EXCEPT !.cands = c, !.inTry = TRUE, !.pc = pc, !.stage = stage]) BY <1>1 DEF Intact
  <2> QED BY <1>4, <2>1 DEF Become, Moves
<1> QED BY <1>2, <1>3, <1>4 DEF Search

\* What was found is checked and answered.
LEMMA Settles ==
  ASSUME NEW t, Intact(talks[t]), Settle(t) \/ Checking(t)
  PROVE  Moves(t)
<1>1. Intact([talks[t] EXCEPT !.alt = TRUE]) BY Keeps
<1>2. "aborted" \in DOMAIN talks[t] BY DEF Intact, Over
<1>3. Intact([talks[t] EXCEPT !.alt = TRUE, !.pc = "area"]) BY <1>2 DEF Intact
<1>4. CASE Settle(t)
  <2>1. CASE Ends(t, "other") BY <2>1, OverIs DEF Ends, Moves
  <2>2. CASE BaseReply(t, [talks[t] EXCEPT !.alt = TRUE]) BY <1>1, <2>2, Answers
  <2>3. CASE Become(t, [talks[t] EXCEPT !.alt = TRUE, !.pc = "area"]) BY <1>3, <2>3 DEF Become, Moves
  <2>4. CASE AskArea(t, talks[t]) BY <2>4, Answers
  <2> QED BY <1>4, <2>1, <2>2, <2>3, <2>4 DEF Settle
<1>5. CASE Become(t, [talks[t] EXCEPT !.pc = "verifying"]) BY <1>5, Answers
<1> QED BY <1>4, <1>5 DEF Checking


\* What a turn does that has not been interrupted.
LEMMA Planned ==
  ASSUME NEW t, Intact(talks[t]), NEW p, PlanDone(t, p)
  PROVE  Moves(t)
<1>1. PICK a, d, n, f :
        \/ Become(t, [Over EXCEPT !.pc = "planned", !.action = a])
        \/ Become(t, [[Over EXCEPT !.pc = "planned", !.action = a] EXCEPT !.dest = d, !.nearby = n, !.from = f])
  BY DEF PlanDone
<1>2. "aborted" \in DOMAIN Over BY DEF Over
<1>3. /\ Intact([Over EXCEPT !.pc = "planned", !.action = a])
      /\ Intact([[Over EXCEPT !.pc = "planned", !.action = a] EXCEPT !.dest = d, !.nearby = n, !.from = f])
  BY <1>2, OverIs DEF Intact
<1> QED BY <1>1, <1>3 DEF Become, Moves

\* A reply that needs no route.
LEMMA Replied ==
  ASSUME NEW t, Intact(talks[t]),
         ReplyPlain(t) \/ ReplyCancel(t) \/ ReplyNothing(t) \/ ReplyAnalyze(t)
           \/ (\E ok \in BOOLEAN : Rechecked(t, ok) \/ AreaDone(t, ok) \/ ReplyDone(t, ok))
  PROVE  Moves(t)
<1>1. CASE ReplyPlain(t) BY <1>1, Answers DEF ReplyPlain
<1>2. CASE ReplyCancel(t) BY <1>2, Answers DEF ReplyCancel
<1>3. CASE ReplyNothing(t) BY <1>3, Answers DEF ReplyNothing
<1>4. "aborted" \in DOMAIN talks[t] BY DEF Intact, Over
<1>5. \A d, k : Intact([talks[t] EXCEPT !.dest = d, !.kind = k, !.from = "nowhere"]) BY <1>4 DEF Intact
<1>6. ASSUME NEW old, Analyzed(t, old) PROVE Moves(t)
  <2>1. PICK new : Intact(new) /\ (Alternatives(t, new) \/ BaseReply(t, new)) BY <1>5, <1>6 DEF Analyzed
  <2> QED BY <2>1, Answers
<1>7. CASE ReplyAnalyze(t)
  <2>1. Become(t, [talks[t] EXCEPT !.pc = "rechecking"]) \/ Analyzed(t, recent) BY <1>7 DEF ReplyAnalyze
  <2> QED BY <1>6, <2>1, Answers
<1>8. ASSUME NEW ok \in BOOLEAN, Rechecked(t, ok) PROVE Moves(t)
  <2>1. Analyzed(t, recent) \/ Alternatives(t, [talks[t] EXCEPT !.dest = recent.dest, !.kind = "nearby", !.from = "nowhere"])
    BY <1>8 DEF Rechecked
  <2> QED BY <1>5, <1>6, <2>1, Answers
<1>9. ASSUME NEW ok \in BOOLEAN, AreaDone(t, ok) PROVE Moves(t)
  <2>1. BaseReply(t, talks[t]) \/ AskArea(t, talks[t]) BY <1>9 DEF AreaDone
  <2> QED BY <2>1, Answers
<1>10. ASSUME NEW ok \in BOOLEAN, ReplyDone(t, ok) PROVE Moves(t)
  <2>1. FailsWith(t, talks[t], FALSE) \/ Ends(t, "other") BY <1>10 DEF ReplyDone
  <2> QED BY <2>1, Answers, Fails
<1> QED BY <1>1, <1>2, <1>3, <1>7, <1>8, <1>9, <1>10

\* A reply about a route.
LEMMA RouteAsked ==
  ASSUME NEW t, Intact(talks[t]), ReplyRoute(t)
  PROVE  Moves(t)
<1>1. "aborted" \in DOMAIN talks[t] BY DEF Intact, Over
<1>2. \A d, k, c : Intact([talks[t] EXCEPT !.dest = d, !.kind = k, !.cands = c, !.action = "none", !.nearby = "none"])
  BY <1>1 DEF Intact
<1>3. PICK new : Intact(new) /\ (Ends(t, "other") \/ Search(t, new) \/ Become(t, [new EXCEPT !.pc = "locating"]))
  <2>1. PICK d, k, c :
          \/ Ends(t, "other")
          \/ Search(t, [talks[t] EXCEPT !.dest = d, !.kind = k, !.cands = c, !.action = "none", !.nearby = "none"])
          \/ Become(t, [[talks[t] EXCEPT !.dest = d, !.kind = k, !.cands = c, !.action = "none", !.nearby = "none"]
                          EXCEPT !.pc = "locating"])
    BY Zenon DEF ReplyRoute
  <2> QED BY <1>2, <2>1
<1> QED BY <1>3, Answers, Searches

\* What position, search and model answer.
LEMMA Looked ==
  ASSUME NEW t, Intact(talks[t]),
         (\E yes \in BOOLEAN : Located(t, yes) \/ Clarified(t, yes))
           \/ (\E r \in Results : Discovered(t, r) \/ Routed(t, r) \/ Verified(t, r))
           \/ (\E d \in Dest \union {Nil} : Resolved(t, d))
  PROVE  Moves(t)
<1>1. "aborted" \in DOMAIN talks[t] BY DEF Intact, Over
<1>2. ASSUME NEW yes \in BOOLEAN, Located(t, yes) PROVE Moves(t)
  <2>1. Intact([talks[t] EXCEPT !.from = "gps"]) BY Keeps
  <2>2. Search(t, [talks[t] EXCEPT !.from = "gps"]) \/ Ends(t, "pending") BY <1>2 DEF Located
  <2> QED BY <2>1, <2>2, Answers, Searches
<1>3. ASSUME NEW yes \in BOOLEAN, Clarified(t, yes) PROVE Moves(t)
  <2>1. Intact([talks[t] EXCEPT !.cands = "one", !.checked = TRUE, !.pc = "routing"]) BY <1>1 DEF Intact
  <2>2. Ends(t, "place") \/ Checking(t) \/ Become(t, [talks[t] EXCEPT !.cands = "one", !.checked = TRUE, !.pc = "routing"])
    BY <1>3 DEF Clarified
  <2> QED BY <2>1, <2>2, Answers, Settles DEF Become, Moves
<1>4. ASSUME NEW r \in Results, Discovered(t, r) PROVE Moves(t)
  <2>1. ASSUME NEW pc, NEW st PROVE Intact([talks[t] EXCEPT !.cands = r, !.checked = TRUE, !.pc = pc, !.stage = st])
    BY <1>1 DEF Intact
  <2>2. Found(t, r) => Moves(t) BY <2>1 DEF Found, Become, Moves
  <2>3. Found(t, r) \/ FailsWith(t, talks[t], r = "nothing") \/ Become(t, [talks[t] EXCEPT !.pc = "resolving"])
    BY <1>4 DEF Discovered
  <2> QED BY <2>2, <2>3, Answers, Fails
<1>5. ASSUME NEW r \in Results, Routed(t, r) PROVE Moves(t)
  <2>1. Intact([talks[t] EXCEPT !.pc = "clarifying", !.stage = "routed"]) BY <1>1 DEF Intact
  <2>2. \/ FailsWith(t, talks[t], r = "nothing") \/ Checking(t)
        \/ Become(t, [talks[t] EXCEPT !.pc = "clarifying", !.stage = "routed"])
    BY <1>5 DEF Routed
  <2> QED BY <2>1, <2>2, Fails, Settles DEF Become, Moves
<1>6. ASSUME NEW r \in Results, Verified(t, r) PROVE Moves(t)
  <2>1. FailsWith(t, talks[t], TRUE) \/ Settle(t) BY <1>6 DEF Verified
  <2> QED BY <2>1, Fails, Settles
<1>7. ASSUME NEW d \in Dest \union {Nil}, Resolved(t, d) PROVE Moves(t)
  <2>1. Intact([talks[t] EXCEPT !.pc = "searching", !.resolved = TRUE, !.dest = d]) BY <1>1 DEF Intact
  <2>2. \/ FailsWith(t, talks[t], TRUE) \/ Ends(t, "other")
        \/ Become(t, [talks[t] EXCEPT !.pc = "searching", !.resolved = TRUE, !.dest = d])
    BY <1>7 DEF Resolved
  <2> QED BY <2>1, <2>2, Answers, Fails DEF Become, Moves
<1> QED BY <1>2, <1>3, <1>4, <1>5, <1>6, <1>7

-----------------------------------------------------------------------------
\* No turn runs at first.
LEMMA TalkBegins == TalkInit => TalkIInv
BY OverIs DEF TalkInit, TalkIInv

\* A step is that of a turn that goes on, or leaves every interrupted turn as it is,
\* or ends one and leaves the contexts alone.
LEMMA TalkSteps ==
  ASSUME TalkIInv, TalkNext
  PROVE  \/ \E t \in Turn : Intact(talks[t]) /\ Moves(t)
         \/ \E t \in Turn : \E pc : Intact(talks[t]) /\ pc # "over" /\ talks' = [talks EXCEPT ![t] = Dropped(pc)]
         \/ \E t \in Turn : talks' = [talks EXCEPT ![t] = Over] /\ UNCHANGED contexts
         \/ talks' = [t \in Turn |-> IF talks[t].pc = "over" THEN Over ELSE Dropped(talks[t].pc)]
<1>1. ASSUME NEW t \in Turn, ~talks[t].aborted \/ talks[t].pc = "over" PROVE Intact(talks[t])
  <2> SUFFICES ASSUME NEW pc, pc # "over", talks[t] = Dropped(pc) PROVE FALSE BY DEF TalkIInv
  <2>1. talks[t].pc = pc /\ talks[t].aborted BY OverIs
  <2> QED BY <1>1, <2>1
<1>2. ASSUME NEW t \in Turn, Begin(t) PROVE Intact(talks[t]) /\ Moves(t)
  <2>1. Become(t, [Over EXCEPT !.pc = "planning"]) /\ talks[t].pc = "over" BY <1>2 DEF Begin
  <2> QED BY <1>1, <2>1, OverIs DEF Become, Moves
<1>3. ASSUME NEW t \in Turn, Abort(t)
      PROVE  \E pc : Intact(talks[t]) /\ pc # "over" /\ talks' = [talks EXCEPT ![t] = Dropped(pc)]
  <2>1. /\ Become(t, [Over EXCEPT !.pc = talks[t].pc, !.aborted = TRUE])
        /\ talks[t].pc # "over" /\ ~talks[t].aborted
    BY <1>3 DEF Abort
  <2> QED BY <1>1, <2>1, OverIs DEF Become
<1>4. ASSUME NEW t \in Turn, Stop(t) PROVE talks' = [talks EXCEPT ![t] = Over] /\ UNCHANGED contexts
  BY <1>4 DEF Stop, Become
<1>5. CASE SessionEnds BY <1>5, OverIs DEF SessionEnds
<1>6. ASSUME NEW t \in Turn,
             \/ \E p \in Utterance : PlanDone(t, p)
             \/ ReplyPlain(t) \/ ReplyCancel(t) \/ ReplyNothing(t) \/ ReplyAnalyze(t) \/ ReplyRoute(t)
             \/ \E yes \in BOOLEAN : Located(t, yes) \/ Clarified(t, yes) \/ Rechecked(t, yes) \/ AreaDone(t, yes) \/ ReplyDone(t, yes)
             \/ \E r \in Results : Discovered(t, r) \/ Routed(t, r) \/ Verified(t, r)
             \/ \E d \in Dest \union {Nil} : Resolved(t, d)
      PROVE  Intact(talks[t]) /\ Moves(t)
  <2>1. ~talks[t].aborted
    BY <1>6
       DEF Waits, PlanDone, ReplyPlain, ReplyCancel, ReplyNothing, ReplyAnalyze, ReplyRoute, Located, Clarified, Rechecked,
           AreaDone, ReplyDone, Discovered, Routed, Verified, Resolved
  <2>2. Intact(talks[t]) BY <1>1, <2>1
  <2> QED BY <1>6, <2>2, Planned, Replied, RouteAsked, Looked
<1>7. \/ \E t \in Turn : Begin(t) \/ Abort(t) \/ Stop(t)
      \/ SessionEnds
      \/ \E t \in Turn :
             \/ \E p \in Utterance : PlanDone(t, p)
             \/ ReplyPlain(t) \/ ReplyCancel(t) \/ ReplyNothing(t) \/ ReplyAnalyze(t) \/ ReplyRoute(t)
             \/ \E yes \in BOOLEAN : Located(t, yes) \/ Clarified(t, yes) \/ Rechecked(t, yes) \/ AreaDone(t, yes) \/ ReplyDone(t, yes)
             \/ \E r \in Results : Discovered(t, r) \/ Routed(t, r) \/ Verified(t, r)
             \/ \E d \in Dest \union {Nil} : Resolved(t, d)
  BY DEF TalkNext
<1> QED BY <1>2, <1>3, <1>4, <1>5, <1>6, <1>7

\* Every step of the turns keeps the invariant.
LEMMA TalkStep == TalkIInv /\ [TalkNext]_talkVars => TalkIInv'
<1> SUFFICES ASSUME TalkIInv, [TalkNext]_talkVars PROVE TalkIInv' OBVIOUS
<1>1. CASE UNCHANGED talkVars BY <1>1 DEF talkVars, TalkIInv
<1>2. ASSUME NEW t \in Turn, Moves(t) PROVE TalkIInv'
  <2>1. PICK new : Intact(new) /\ talks' = [talks EXCEPT ![t] = new] BY <1>2 DEF Moves
  <2> QED BY <2>1 DEF TalkIInv
<1>3. ASSUME NEW t \in Turn, NEW pc, pc # "over", talks' = [talks EXCEPT ![t] = Dropped(pc)] PROVE TalkIInv'
  BY <1>3 DEF TalkIInv
<1>4. ASSUME NEW t \in Turn, talks' = [talks EXCEPT ![t] = Over] PROVE TalkIInv'
  BY <1>4, OverIs DEF TalkIInv
<1>5. CASE talks' = [t \in Turn |-> IF talks[t].pc = "over" THEN Over ELSE Dropped(talks[t].pc)]
  BY <1>5, OverIs DEF TalkIInv
<1>6. CASE TalkNext BY <1>2, <1>3, <1>4, <1>5, <1>6, TalkSteps
<1> QED BY <1>1, <1>6

\* A turn that was interrupted changes nothing of what the next turns go by, for any
\* number of turns that wait and however late the call comes back: what is left of it
\* is where it waits, and its one step is to stop.
THEOREM AbortedTurnWritesNothingEver == TalkSpec => AbortedTurnWritesNothing
<1>1. TalkIInv /\ [TalkNext]_talkVars =>
        \A t \in Turn : talks[t].aborted /\ talks'[t] # talks[t] => contexts' = contexts
  <2> SUFFICES ASSUME TalkIInv, [TalkNext]_talkVars, NEW t \in Turn, talks[t].aborted, talks'[t] # talks[t]
      PROVE UNCHANGED contexts OBVIOUS
  <2>1. ~Intact(talks[t]) BY DEF Intact
  <2>2. PICK pc : pc # "over" /\ talks[t] = Dropped(pc) BY <2>1 DEF TalkIInv
  <2>3. TalkNext BY DEF talkVars
  <2>4. ASSUME NEW u \in Turn, Intact(talks[u]), NEW new, talks' = [talks EXCEPT ![u] = new] PROVE FALSE
    <3>1. u # t BY <2>1, <2>4
    <3> QED BY <2>4, <3>1 DEF TalkIInv
  <2>5. ASSUME talks' = [u \in Turn |-> IF talks[u].pc = "over" THEN Over ELSE Dropped(talks[u].pc)] PROVE FALSE
    <3>1. talks'[t] = Dropped(pc) BY <2>2, <2>5, OverIs
    <3> QED BY <2>2, <3>1
  <2> QED BY <2>3, <2>4, <2>5, TalkSteps DEF Moves
<1> QED BY <1>1, TalkBegins, TalkStep, PTL DEF TalkSpec, AbortedTurnWritesNothing

-----------------------------------------------------------------------------
(* The microphone.                                                         *)

JobShape == job.at = "none" => job = NoAudioJob

\* What is known of the microphone while a job runs.
Microphone ==
  /\ job.at = "none" /\ ~stuck => (open <=> state = "streaming")
  /\ job.at \in {"opening", "waiting"} => (~stuck => ~open)

\* With nothing queued, the reasons of the running job are those of now.
Reasons ==
  /\ job.at \in {"opening", "waiting"} /\ audioQueue = <<>> => job.epoch = epoch /\ Available
  /\ job.at = "closing" /\ audioQueue = <<>> => ~Available
  /\ job.at = "undoing" => audioQueue # <<>>
  /\ job.at = "disposing" => disposed

\* A disposal is queued only by a controller that is disposed of.
Disposals == \A i \in DOMAIN audioQueue : audioQueue[i] = "dispose" => disposed

\* A refusal leaves nothing open but what the host would not close.
Refusal == reopen => /\ job.at \in {"none", "disposing"}
                     /\ state # "streaming"
                     /\ ~stuck => ~open

NothingQueued ==
  audioQueue = <<>> /\ job.at = "none" /\ ~stuck =>
    /\ state = "streaming" => Available
    /\ Available => state \in {"streaming", "unavailable"}

\* A job waits only for an attempt it still has.
AttemptLeft == job.at = "waiting" => job.attempt < Attempts

AudioIInv == AudioTypeOK /\ JobShape /\ AttemptLeft /\ Microphone /\ Reasons /\ Disposals /\ Refusal /\ NothingQueued

USE AudioAssumption

\* The variables that are truth values; the prover treats them apart.
Switches ==
  /\ desired \in BOOLEAN /\ disposed \in BOOLEAN /\ reopen \in BOOLEAN
  /\ open \in BOOLEAN /\ stuck \in BOOLEAN

\* Nothing is wanted, queued or open when the client starts.
LEMMA AudioBegins == AudioInit => AudioIInv
<1> SUFFICES ASSUME AudioInit PROVE AudioIInv OBVIOUS
<1>1. Switches BY DEF AudioInit, Switches
<1>2. job = NoAudioJob /\ job.at = "none" /\ ~Available /\ audioQueue = <<>> /\ state = "off" /\ ~open /\ ~reopen
  BY DEF AudioInit, NoAudioJob, Available
<1>3. AudioTypeOK BY <1>1, <1>2 DEF AudioInit, Switches, AudioTypeOK, NoAudioJob, Parts, Places, States
<1> QED BY <1>2, <1>3
     DEF AudioIInv, JobShape, AttemptLeft, Microphone, Reasons, Disposals, Refusal, NothingQueued

\* A change of the inputs queues a job, which is then the reason for whatever
\* does not yet agree.
LEMMA ChangesSafe ==
  ASSUME AudioIInv,
         (\E wish \in BOOLEAN : SetDesired(wish)) \/ WishRefused \/ Dispose
           \/ \E part \in Parts, available \in BOOLEAN : SetAvailable(part, available)
  PROVE  AudioIInv'
<1>0. audioQueue \in Seq({"reconcile", "dispose"}) /\ epoch \in Nat BY DEF AudioIInv, AudioTypeOK
<1>1. ASSUME NEW wish \in BOOLEAN, SetDesired(wish) PROVE AudioIInv'
  <2>1. audioQueue' # <<>> BY <1>0, <1>1 DEF SetDesired, EnqueueAudio
  <2>2. AudioTypeOK' BY <1>0, <1>1 DEF SetDesired, EnqueueAudio, AudioIInv, AudioTypeOK, host
  <2>3. Disposals' BY <1>0, <1>1 DEF SetDesired, EnqueueAudio, AudioIInv, Disposals
  <2> QED BY <1>1, <2>1, <2>2, <2>3
       DEF SetDesired, AudioIInv, JobShape, AttemptLeft, Microphone, Reasons, Refusal, NothingQueued, host
<1>2. ASSUME WishRefused PROVE AudioIInv'
  BY <1>2 DEF WishRefused, AudioIInv, AudioTypeOK, JobShape, AttemptLeft, Microphone, Reasons, Disposals, Refusal,
              NothingQueued, Available, States, host
<1>3. ASSUME Dispose PROVE AudioIInv'
  <2>1. audioQueue' # <<>> BY <1>0, <1>3 DEF Dispose, EnqueueAudio
  <2>truths. disposed' \in BOOLEAN /\ desired' \in BOOLEAN BY <1>3 DEF Dispose
  <2>values. audioQueue' \in Seq({"reconcile", "dispose"}) /\ Len(audioQueue') <= MaxQueue /\ epoch' \in 0 .. MaxEpoch
    BY <1>0, <1>3 DEF Dispose, EnqueueAudio, AudioIInv, AudioTypeOK
  <2>kept. UNCHANGED <<usable, state, reopen, job, open, stuck>> BY <1>3 DEF Dispose, host
  <2>2. AudioTypeOK' BY <2>truths, <2>values, <2>kept DEF AudioIInv, AudioTypeOK
  <2>3. Disposals' BY <1>3 DEF Dispose, Disposals
  <2> QED BY <1>3, <2>1, <2>2, <2>3
       DEF Dispose, AudioIInv, JobShape, AttemptLeft, Microphone, Reasons, Refusal, NothingQueued, host
<1>4. ASSUME NEW part \in Parts, NEW available \in BOOLEAN, SetAvailable(part, available) PROVE AudioIInv'
  <2>1. audioQueue' # <<>> BY <1>0, <1>4 DEF SetAvailable, EnqueueAudio
  <2>2. AudioTypeOK' BY <1>0, <1>4 DEF SetAvailable, EnqueueAudio, AudioIInv, AudioTypeOK, host
  <2>3. Disposals' BY <1>0, <1>4 DEF SetAvailable, EnqueueAudio, AudioIInv, Disposals
  <2> QED BY <1>4, <2>1, <2>2, <2>3
       DEF SetAvailable, AudioIInv, JobShape, AttemptLeft, Microphone, Reasons, Refusal, NothingQueued, host
<1> QED BY <1>1, <1>2, <1>3, <1>4

\* Taking a job off the queue.
LEMMA TakenSafe ==
  ASSUME AudioIInv, BeginReconcile \/ BeginDispose
  PROVE  AudioIInv'
<1>0. audioQueue \in Seq({"reconcile", "dispose"}) /\ epoch \in 0 .. MaxEpoch BY DEF AudioIInv, AudioTypeOK
<1>1. ASSUME NEW what, TakeJob(what)
      PROVE  /\ audioQueue' \in Seq({"reconcile", "dispose"}) /\ Len(audioQueue') <= MaxQueue
             /\ \A i \in DOMAIN audioQueue' : i + 1 \in DOMAIN audioQueue /\ audioQueue'[i] = audioQueue[i + 1]
  BY <1>0, <1>1 DEF TakeJob, AudioIInv, AudioTypeOK
<1>2. ASSUME BeginReconcile PROVE AudioIInv'
  <2>1. TakeJob("reconcile") /\ job.at = "none" BY <1>2 DEF BeginReconcile, TakeJob
  <2>truths. Switches' BY <1>2 DEF BeginReconcile, AudioIInv, AudioTypeOK, Switches, host
  <2>values. job' \in [at : Places, epoch : 0 .. MaxEpoch, attempt : 0 .. Attempts] /\ state' \in States
    BY <1>0, <1>2, <2>1 DEF BeginReconcile, JobEnds, AudioIInv, AudioTypeOK, NoAudioJob, Places, States
  <2>2. AudioTypeOK'
    BY <1>1, <1>2, <2>1, <2>truths, <2>values DEF BeginReconcile, AudioIInv, AudioTypeOK, Switches
  <2>3. Disposals' BY <1>1, <1>2, <2>1 DEF BeginReconcile, AudioIInv, Disposals
  <2>4. CASE reopen
    <3>1. ~desired' /\ ~Available' /\ JobEnds("requires_reopen") BY <1>2, <2>4 DEF BeginReconcile, Available
    <3> QED BY <1>2, <2>1, <2>2, <2>3, <2>4, <3>1
         DEF BeginReconcile, JobEnds, AudioIInv, JobShape, AttemptLeft, Microphone, Reasons, Refusal, NothingQueued, NoAudioJob, host
  <2>5. CASE ~reopen
    <3>1. UNCHANGED <<inputs, reopen, host>> /\ (Available' <=> Available)
      BY <1>2, <2>5 DEF BeginReconcile, inputs, Available
    <3> QED BY <1>2, <2>1, <2>2, <2>3, <2>5, <3>1
         DEF BeginReconcile, JobEnds, AudioIInv, JobShape, AttemptLeft, Microphone, Reasons, Refusal, NothingQueued, NoAudioJob,
             host, inputs
  <2> QED BY <2>4, <2>5
<1>3. ASSUME BeginDispose PROVE AudioIInv'
  <2>1. TakeJob("dispose") BY <1>3 DEF BeginDispose
  <2>2. disposed BY <1>0, <2>1 DEF TakeJob, AudioIInv, Disposals
  <2>3. AudioTypeOK' BY <1>0, <1>1, <1>3, <2>1 DEF BeginDispose, AudioIInv, AudioTypeOK, Places, host, inputs
  <2>4. Disposals' BY <1>1, <1>3, <2>1 DEF BeginDispose, AudioIInv, Disposals, inputs
  <2> QED BY <1>3, <2>1, <2>2, <2>3, <2>4
       DEF BeginDispose, TakeJob, AudioIInv, JobShape, AttemptLeft, Microphone, Reasons, Refusal, NothingQueued, Available,
           NoAudioJob, host, inputs
<1> QED BY <1>2, <1>3

\* A job that finds its reasons out of date shows the microphone as off and
\* leaves the rest to the job behind it.
LEMMA OffSafe ==
  ASSUME AudioIInv, job.at \in {"opening", "waiting"}, OutOfDate, JobEnds("off"),
         UNCHANGED <<desired, usable, disposed, epoch, reopen, audioQueue, open, stuck>>
  PROVE  AudioIInv'
<1>1. audioQueue # <<>> BY DEF OutOfDate, AudioIInv, Reasons
<1>2. AudioTypeOK' BY DEF JobEnds, AudioIInv, AudioTypeOK, NoAudioJob, Places, States
<1>3. job' = NoAudioJob /\ job'.at = "none" /\ state' = "off" /\ audioQueue' # <<>> BY <1>1 DEF JobEnds, NoAudioJob
<1>4. ~open \/ stuck BY DEF AudioIInv, Microphone
<1> QED BY <1>2, <1>3, <1>4 DEF AudioIInv, JobShape, AttemptLeft, Microphone, Reasons, Disposals, Refusal, NothingQueued

\* The answers of the host.
LEMMA AnswersSafe ==
  ASSUME AudioIInv, (\E ok \in BOOLEAN : HostCloses(ok)) \/ HostOpens \/ HostRefuses \/ HostFails \/ Retry
  PROVE  AudioIInv'
<1>1. ASSUME NEW ok \in BOOLEAN, HostCloses(ok) PROVE AudioIInv'
  <2>1. AudioTypeOK' BY <1>1 DEF HostCloses, JobEnds, AudioIInv, AudioTypeOK, NoAudioJob, Places, States, inputs
  <2> QED BY <1>1, <2>1 DEF HostCloses, JobEnds, AudioIInv, AudioTypeOK, JobShape, AttemptLeft, Microphone, Reasons, Disposals,
                            Refusal, NothingQueued, Available, NoAudioJob, inputs
<1>2. ASSUME HostOpens PROVE AudioIInv'
  <2>truths. Switches' BY <1>2 DEF HostOpens, OpenedLate, OpenedInTime, AudioIInv, AudioTypeOK, Switches
  <2>values. job' \in [at : Places, epoch : 0 .. MaxEpoch, attempt : 0 .. Attempts] /\ state' \in States
    BY <1>2 DEF HostOpens, OpenedLate, OpenedInTime, JobEnds, AudioIInv, AudioTypeOK, NoAudioJob, Places, States
  <2>1. AudioTypeOK' BY <1>2, <2>truths, <2>values DEF HostOpens, AudioIInv, AudioTypeOK, Switches
  <2>2. CASE OpenedLate
    <3>1. audioQueue # <<>> BY <1>2, <2>2 DEF HostOpens, OpenedLate, OutOfDate, AudioIInv, Reasons
    <3> QED BY <1>2, <2>1, <2>2, <3>1
         DEF HostOpens, OpenedLate, AudioIInv, AudioTypeOK, JobShape, AttemptLeft, Microphone, Reasons, Disposals, Refusal, NothingQueued
  <2>3. CASE OpenedInTime
    BY <1>2, <2>1, <2>3 DEF HostOpens, OpenedInTime, OutOfDate, JobEnds, AudioIInv, JobShape, AttemptLeft, Microphone,
                            Reasons, Disposals, Refusal, NothingQueued, Available, NoAudioJob
  <2> QED BY <1>2, <2>2, <2>3 DEF HostOpens
<1>3. ASSUME HostRefuses PROVE AudioIInv'
  <2>1. CASE OutOfDate
    <3>1. JobEnds("off") /\ UNCHANGED <<desired, reopen>> BY <1>3, <2>1 DEF HostRefuses
    <3> QED BY <1>3, <2>1, <3>1, OffSafe DEF HostRefuses, host, inputs
  <2>2. CASE ~OutOfDate
    <3>1. desired' = FALSE /\ reopen' = TRUE /\ JobEnds("requires_reopen") BY <1>3, <2>2 DEF HostRefuses
    <3>truths. Switches' BY <1>3, <3>1 DEF HostRefuses, AudioIInv, AudioTypeOK, Switches, host
    <3>2. AudioTypeOK' BY <1>3, <3>1, <3>truths DEF HostRefuses, JobEnds, AudioIInv, AudioTypeOK, NoAudioJob, Places, States, Switches
    <3>3. ~desired' /\ ~Available' BY <3>1 DEF Available
    <3>4. (~open \/ stuck) /\ UNCHANGED <<open, stuck>> BY <1>3 DEF HostRefuses, AudioIInv, Microphone, host
    <3>5. job' = NoAudioJob /\ job'.at = "none" /\ state' = "requires_reopen" BY <3>1 DEF JobEnds, NoAudioJob
    <3>6. UNCHANGED <<audioQueue, disposed>> BY <1>3 DEF HostRefuses
    <3> QED BY <3>2, <3>3, <3>4, <3>5, <3>6
         DEF AudioIInv, JobShape, AttemptLeft, Microphone, Reasons, Disposals, Refusal, NothingQueued
  <2> QED BY <2>1, <2>2
<1>4. ASSUME HostFails PROVE AudioIInv'
  <2>1. CASE OutOfDate
    <3>1. JobEnds("off") BY <1>4, <2>1 DEF HostFails
    <3> QED BY <1>4, <2>1, <3>1, OffSafe DEF HostFails, host, inputs
  <2>2. CASE ~OutOfDate /\ job.attempt < Attempts
    <3>1. job' = [job EXCEPT !.at = "waiting"] /\ UNCHANGED state BY <1>4, <2>2 DEF HostFails
    <3> QED BY <1>4, <2>2, <3>1
         DEF HostFails, AudioIInv, AudioTypeOK, JobShape, AttemptLeft, Microphone, Reasons, Disposals, Refusal,
             NothingQueued, Available, Places, host, inputs
  <2>3. CASE ~OutOfDate /\ ~(job.attempt < Attempts)
    <3>1. JobEnds("unavailable") BY <1>4, <2>3 DEF HostFails
    <3> QED BY <1>4, <2>3, <3>1
         DEF HostFails, JobEnds, AudioIInv, AudioTypeOK, JobShape, AttemptLeft, Microphone, Reasons, Disposals, Refusal,
             NothingQueued, Available, NoAudioJob, Places, States, host, inputs
  <2> QED BY <2>1, <2>2, <2>3
<1>5. ASSUME Retry PROVE AudioIInv'
  <2>1. CASE OutOfDate
    <3>1. JobEnds("off") BY <1>5, <2>1 DEF Retry
    <3> QED BY <1>5, <2>1, <3>1, OffSafe DEF Retry, host, inputs
  <2>2. CASE ~OutOfDate
    <3>1. job' = [job EXCEPT !.at = "opening", !.attempt = @ + 1] /\ UNCHANGED state
      BY <1>5, <2>2 DEF Retry
    <3>2. job.attempt + 1 \in 0 .. Attempts BY <1>5 DEF Retry, AudioIInv, AudioTypeOK, AttemptLeft
    <3> QED BY <1>5, <3>1, <3>2
         DEF Retry, AudioIInv, AudioTypeOK, JobShape, AttemptLeft, Microphone, Reasons, Disposals, Refusal,
             NothingQueued, Available, Places, host, inputs
  <2> QED BY <2>1, <2>2
<1> QED BY <1>1, <1>2, <1>3, <1>4, <1>5

\* Every step of the client and of the host keeps the invariant.
LEMMA AudioStep == AudioIInv /\ [AudioNext]_audioVars => AudioIInv'
<1> SUFFICES ASSUME AudioIInv, [AudioNext]_audioVars PROVE AudioIInv'
  OBVIOUS
<1>1. ASSUME UNCHANGED audioVars PROVE AudioIInv'
  BY <1>1 DEF audioVars, inputs, host, AudioIInv, AudioTypeOK, JobShape, AttemptLeft, Microphone, Reasons, Disposals, Refusal,
              NothingQueued, Available
<1> QED BY <1>1, ChangesSafe, TakenSafe, AnswersSafe DEF AudioNext

\* Once every change is dealt with, the microphone is open exactly if the client
\* shows it streaming, and then rightly, however often the wish, the connection,
\* the glasses and the page changed during however many calls of the host.
THEOREM SettledAgreesAlways == AudioSpec => []SettledAgrees
<1>1. AudioIInv => SettledAgrees
  <2>1. job = NoAudioJob => job.at = "none" BY DEF NoAudioJob
  <2> QED BY <2>1 DEF AudioIInv, Microphone, NothingQueued, SettledAgrees
<1> QED BY <1>1, AudioBegins, AudioStep, PTL DEF AudioSpec

-----------------------------------------------------------------------------
(* The position of the phone.                                              *)

Fixes == [place : Place \union {None}, sharp : BOOLEAN, old : BOOLEAN, era : 0..MaxStops]

\* What is on its way to the server: the answer to a request is accurate.
Messages ==
  {m \in [kind : {"report", "failed", "clear"}, req : Req \union {None}, fix : Fixes] :
     m.kind = "report" /\ m.req # None => m.fix.sharp}
Orders == [kind : {"request", "cancel"}, req : Req \union {None}]

Awaited == [req : Req \union {None}, tries : 1..Tries, era : 0..MaxStops, linked : BOOLEAN, current : BOOLEAN]

FixShape ==
  /\ stops \in 0..MaxStops /\ cleared \in Nat
  /\ onces \subseteq [era : 0..MaxStops, current : BOOLEAN] /\ autos \subseteq Awaited
  /\ starting \subseteq [sub : Sub] /\ subs \subseteq [sub : Sub, era : 0..MaxStops] /\ held \in Sub \union {None}
  /\ stopping \in {"no", "quiet", "clear"}
  /\ up \in Seq(Messages) /\ down \in Seq(Orders)
  /\ loc \in Fixes /\ pending \in Req \union {None}

\* What is awaited and still wanted was asked for since the last stop.
Wanted == (\A o \in onces : o.current => o.era = stops) /\ (\A a \in autos : a.current => a.era = stops)

\* The only callback registered is the one whose handle the client holds.
OneHandle ==
  /\ \A s \in subs : s.sub = held
  /\ \A s, t \in starting : s = t
  /\ \A s \in starting : held \in {None, s.sub}
  /\ starting = {} /\ ~active => held = None

\* The latest stop the server may have been told of: one that the phone has not
\* carried out is not.
Announced == IF stopping = "clear" THEN stops - 1 ELSE stops

Reporting == \A s \in subs : s.era >= Announced

\* On the link q, to a server that has heard of stop c, with b announced: no
\* report is older than the last stop that was said before it.
Ordered(q, c, b) ==
  /\ c <= b
  /\ \A i \in 1..Len(q) : q[i].kind = "clear" => q[i].fix.era <= b
  /\ \A i \in 1..Len(q) : q[i].kind = "report" => q[i].fix.era >= c
  /\ \A i, j \in 1..Len(q) : i < j /\ q[i].kind = "clear" /\ q[j].kind = "report" => q[j].fix.era >= q[i].fix.era

StopIInv == Wanted /\ OneHandle /\ Reporting /\ Ordered(up, cleared, Announced) /\ ClearedStaysCleared

USE FixAssumption

-----------------------------------------------------------------------------
\* More stops may be announced than the link has heard of.
LEMMA Raised ==
  ASSUME NEW q \in Seq(Messages), NEW c \in Int, NEW b \in Int, NEW d \in Int, Ordered(q, c, b), b <= d
  PROVE  Ordered(q, c, d)
<1>1. \A i \in 1..Len(q) : q[i].fix.era \in Int BY DEF Messages, Fixes
<1> QED BY <1>1 DEF Ordered

\* A message behind the others that is a report of now, or a stop.
LEMMA Said ==
  ASSUME NEW q \in Seq(Messages), NEW c \in Int, NEW b \in Int, NEW d \in Int, Ordered(q, c, b), b <= d,
         NEW m \in Messages, m.kind = "report" => m.fix.era >= b, m.kind = "clear" => m.fix.era <= d
  PROVE  Ordered(Append(q, m), c, d)
<1> DEFINE r == Append(q, m)
<1>1. Len(r) = Len(q) + 1 /\ r[Len(q) + 1] = m /\ \A i \in 1..Len(q) : r[i] = q[i] OBVIOUS
<1>2. m.fix.era \in Int /\ \A i \in 1..Len(q) : q[i].fix.era \in Int BY DEF Messages, Fixes
<1>3. Ordered(q, c, d) BY Raised
<1>4. Len(q) \in Nat /\ \A i \in 1..Len(r) : i \in 1..Len(q) \/ i = Len(q) + 1 BY <1>1
<1> HIDE DEF r
<1>5. \A i \in 1..Len(r) : r[i].kind = "clear" => r[i].fix.era <= d BY <1>1, <1>3, <1>4 DEF Ordered
<1>6. \A i \in 1..Len(r) : r[i].kind = "report" => r[i].fix.era >= c
  <2>1. m.kind = "report" => m.fix.era >= c BY <1>2 DEF Ordered
  <2> QED BY <1>1, <1>3, <1>4, <2>1 DEF Ordered
<1>7. ASSUME NEW i \in 1..Len(r), NEW j \in 1..Len(r), i < j, r[i].kind = "clear", r[j].kind = "report"
      PROVE r[j].fix.era >= r[i].fix.era
  <2>1. i \in 1..Len(q) BY <1>1, <1>7
  <2>2. CASE j \in 1..Len(q) BY <1>1, <1>3, <1>7, <2>1, <2>2 DEF Ordered
  <2>3. CASE j = Len(q) + 1
    <3>1. q[i].fix.era <= b BY <1>1, <1>7, <2>1 DEF Ordered
    <3> QED BY <1>1, <1>2, <1>7, <2>1, <2>3, <3>1
  <2> QED BY <1>4, <2>2, <2>3
<1>8. Ordered(r, c, d) BY <1>3, <1>5, <1>6, <1>7 DEF Ordered
<1> QED BY <1>8 DEF r

\* Taking the oldest message off the link.
LEMMA HeardNext ==
  ASSUME NEW q \in Seq(Messages), NEW c \in Int, NEW b \in Int, Ordered(q, c, b), q # << >>
  PROVE  /\ Head(q) \in Messages /\ Tail(q) \in Seq(Messages)
         /\ Ordered(Tail(q), c, b)
         /\ Head(q).kind = "clear" => Ordered(Tail(q), Head(q).fix.era, b)
         /\ Head(q).kind = "report" => Head(q).fix.era >= c
<1>1. Len(q) \in Nat /\ Len(q) >= 1 /\ Head(q) = q[1] /\ Tail(q) \in Seq(Messages) OBVIOUS
<1>2. /\ Len(Tail(q)) = Len(q) - 1
      /\ \A i \in 1..Len(Tail(q)) : i + 1 \in 1..Len(q) /\ Tail(q)[i] = q[i + 1]
  OBVIOUS
<1>3. Head(q) \in Messages BY <1>1
<1> DEFINE r == Tail(q)
<1> HIDE DEF r
<1>4. Len(r) = Len(q) - 1 /\ \A i \in 1..Len(r) : i + 1 \in 1..Len(q) /\ r[i] = q[i + 1] BY <1>2 DEF r
<1>5. Ordered(r, c, b)
  <2>1. \A i, j \in 1..Len(r) : i < j => i + 1 < j + 1 BY <1>1, <1>4
  <2> QED BY <1>4, <2>1 DEF Ordered
<1>6. ASSUME q[1].kind = "clear" PROVE Ordered(r, q[1].fix.era, b)
  <2>1. q[1].fix.era <= b BY <1>1, <1>6 DEF Ordered
  <2>2. \A i \in 1..Len(r) : r[i].kind = "report" => r[i].fix.era >= q[1].fix.era
    <3>1. \A i \in 1..Len(r) : 1 < i + 1 /\ 1 \in 1..Len(q) BY <1>1, <1>4
    <3> QED BY <1>4, <1>6, <3>1 DEF Ordered
  <2> QED BY <1>5, <2>1, <2>2 DEF Ordered
<1>7. q[1].kind = "report" => q[1].fix.era >= c BY <1>1 DEF Ordered
<1> QED BY <1>1, <1>3, <1>5, <1>6, <1>7 DEF r

-----------------------------------------------------------------------------
\* A reading becomes a report of the stop it was asked for under.
LEMMA ReadIs ==
  ASSUME NEW r \in Readings, NEW era \in 0..MaxStops, NEW q \in Req \union {None},
         q # None => r.sharp
  PROVE  /\ Report(q, Read(r, era)) \in Messages
         /\ Report(q, Read(r, era)).kind = "report" /\ Report(q, Read(r, era)).fix.era = era
         /\ Report(q, Read(r, era)).req = q
<1>1. r.place \in Place /\ r.sharp \in BOOLEAN /\ r.old \in BOOLEAN BY DEF Readings
<1>2. Read(r, era) \in Fixes /\ Read(r, era).era = era /\ Read(r, era).sharp = r.sharp BY <1>1 DEF Read, Fixes
<1> HIDE DEF Read
<1> QED BY <1>2 DEF Report, Messages

\* A failure and a stop are messages.
LEMMA NoFixIs ==
  /\ NoFix \in Fixes
  /\ \A q \in Req \union {None} : Failed(q) \in Messages /\ Failed(q).kind = "failed"
  /\ \A e \in 0..MaxStops : ClearOf(e) \in Messages /\ ClearOf(e).kind = "clear" /\ ClearOf(e).fix.era = e
<1>1. NoFix \in Fixes BY DEF NoFix, Fixes
<1>2. \A e \in 0..MaxStops : [NoFix EXCEPT !.era = e] \in Fixes /\ [NoFix EXCEPT !.era = e].era = e
  BY DEF NoFix, Fixes
<1> QED BY <1>1, <1>2 DEF Failed, ClearOf, Messages

\* Sending appends, or does nothing when there is no link.
LEMMA Sent ==
  ASSUME up \in Seq(Messages), NEW m \in Messages, Send(m)
  PROVE  up' \in Seq(Messages) /\ up' \in {up, Append(up, m)} /\ down' = down
BY DEF Send

\* Whatever is sent for a reading, a failure or a stop is a message.
LEMMA AutoIs ==
  ASSUME FixShape, NEW a \in autos, NEW r \in Readings \union {NoReading}, AutoAnswered(a, r)
  PROVE  /\ a \in Awaited /\ down' = down
         /\ \/ up' = up
            \/ \E m \in Messages : up' = Append(up, m) /\ m.kind # "clear" /\ (m.kind = "report" => a.current /\ m.fix.era = a.era)
         /\ \A x \in autos' : x \in Awaited /\ \E y \in autos : x.era = y.era /\ x.current = y.current
<1>1. a \in Awaited /\ up \in Seq(Messages) BY DEF FixShape
<1>2. a.era \in 0..MaxStops /\ a.req \in Req \union {None} /\ a.tries \in 1..Tries BY <1>1 DEF Awaited
<1>3. CASE ~a.current /\ autos' = autos \ {a} /\ UNCHANGED linkVars
  BY <1>1, <1>3 DEF linkVars, FixShape
<1>4. CASE a.current /\ r # NoReading /\ Acceptable(r) /\ autos' = autos \ {a} /\ Send(Report(a.req, Read(r, a.era)))
  <2>1. r \in Readings /\ r.sharp BY <1>4 DEF Acceptable
  <2>2. PICK m \in Messages : Send(m) /\ m.kind = "report" /\ m.fix.era = a.era BY <1>2, <1>4, <2>1, ReadIs
  <2> QED BY <1>1, <1>4, <2>2, Sent DEF FixShape
<1>5. CASE a.current /\ a.tries > 1 /\ autos' = (autos \ {a}) \union {[a EXCEPT !.tries = @ - 1]} /\ UNCHANGED linkVars
  <2> DEFINE b == [a EXCEPT !.tries = @ - 1]
  <2>0. a.tries - 1 \in 1..Tries BY <1>2, <1>5
  <2>1. b \in Awaited /\ b.era = a.era /\ b.current = a.current BY <1>1, <2>0 DEF Awaited
  <2>2. autos' = (autos \ {a}) \union {b} /\ up' = up /\ down' = down BY <1>5 DEF linkVars
  <2> HIDE DEF b
  <2> QED BY <1>1, <2>1, <2>2 DEF FixShape
<1>6. CASE a.current /\ autos' = autos \ {a} /\ Unanswered(a)
  <2>1. CASE a.linked
    <3>1. PICK m \in Messages : Send(m) /\ m.kind = "failed" BY <1>2, <1>6, <2>1, NoFixIs DEF Unanswered
    <3> QED BY <1>1, <1>6, <3>1, Sent DEF FixShape
  <2>2. CASE ~a.linked BY <1>1, <1>6, <2>2 DEF Unanswered, linkVars, FixShape
  <2> QED BY <2>1, <2>2
<1> QED BY <1>3, <1>4, <1>5, <1>6 DEF AutoAnswered

\* What is let go of is no longer wanted.
LEMMA LetGoIs ==
  /\ \A S \in SUBSET Awaited : LetGo(S) \subseteq Awaited /\ \A w \in LetGo(S) : ~w.current
  /\ \A S \in SUBSET [era : 0..MaxStops, current : BOOLEAN] :
       LetGo(S) \subseteq [era : 0..MaxStops, current : BOOLEAN] /\ \A w \in LetGo(S) : ~w.current
<1>1. \A w \in Awaited : [w EXCEPT !.current = FALSE] \in Awaited /\ ~[w EXCEPT !.current = FALSE].current BY DEF Awaited
<1>2. \A w \in [era : 0..MaxStops, current : BOOLEAN] :
         [w EXCEPT !.current = FALSE] \in [era : 0..MaxStops, current : BOOLEAN] /\ ~[w EXCEPT !.current = FALSE].current
  OBVIOUS
<1>3. \A S : \A w \in LetGo(S) : \E v \in S : w = [v EXCEPT !.current = FALSE] BY DEF LetGo
<1>4. ASSUME NEW S \in SUBSET Awaited PROVE LetGo(S) \subseteq Awaited /\ \A w \in LetGo(S) : ~w.current
  <2> SUFFICES ASSUME NEW w \in LetGo(S) PROVE w \in Awaited /\ ~w.current OBVIOUS
  <2>1. PICK v \in S : w = [v EXCEPT !.current = FALSE] BY <1>3
  <2> QED BY <1>1, <2>1
<1>5. ASSUME NEW S \in SUBSET [era : 0..MaxStops, current : BOOLEAN]
      PROVE  LetGo(S) \subseteq [era : 0..MaxStops, current : BOOLEAN] /\ \A w \in LetGo(S) : ~w.current
  BY <1>2, <1>3
<1> QED BY <1>4, <1>5

\* The orders of the server keep their shape.
LEMMA OrdersQueue ==
  ASSUME down \in Seq(Orders)
  PROVE  /\ down # << >> => Head(down) \in Orders /\ Tail(down) \in Seq(Orders)
         /\ \A k \in {"request", "cancel"}, q \in Req \union {None} : Told([kind |-> k, req |-> q]) \in Seq(Orders)
<1>1. \A k \in {"request", "cancel"}, q \in Req \union {None} : [kind |-> k, req |-> q] \in Orders BY DEF Orders
<1>2. \A m \in Orders : Told(m) \in Seq(Orders) BY DEF Told
<1> QED BY <1>1, <1>2

\* Nothing is asked for when the client starts.
LEMMA ShapeBegins == FixInit => FixShape
<1> SUFFICES ASSUME FixInit PROVE FixShape OBVIOUS
<1>1. up \in Seq(Messages) /\ down \in Seq(Orders) BY DEF FixInit
<1>2. onces \subseteq [era : 0..MaxStops, current : BOOLEAN] /\ autos \subseteq Awaited
      /\ starting \subseteq [sub : Sub] /\ subs \subseteq [sub : Sub, era : 0..MaxStops]
  BY DEF FixInit
<1> QED BY <1>1, <1>2, NoFixIs DEF FixInit, FixShape

-----------------------------------------------------------------------------
\* The client's actions, the phone's answers and the link.
LEMMA PhoneShape ==
  ASSUME FixShape,
         \/ LocateOnce \/ RequestHeard \/ CancelHeard
         \/ \E era \in Era, c \in BOOLEAN, r \in Readings \union {NoReading} :
              OnceAnswered([era |-> era, current |-> c], r)
         \/ \E a \in autos, r \in Readings \union {NoReading} : AutoAnswered(a, r)
  PROVE  FixShape'
<1>0. /\ stops \in 0..MaxStops /\ onces \subseteq [era : 0..MaxStops, current : BOOLEAN] /\ autos \subseteq Awaited
      /\ up \in Seq(Messages) /\ down \in Seq(Orders)
  BY DEF FixShape
<1>1. UNCHANGED <<stops, cleared, starting, subs, held, stopping, loc, pending>>
  BY DEF LocateOnce, RequestHeard, CancelHeard, OnceAnswered, AutoAnswered, contVars, brokerVars
<1>2. /\ onces' \subseteq [era : 0..MaxStops, current : BOOLEAN] /\ autos' \subseteq Awaited
      /\ up' \in Seq(Messages) /\ down' \in Seq(Orders)
  <2>1. CASE LocateOnce
    <3>1. [era |-> stops, current |-> TRUE] \in [era : 0..MaxStops, current : BOOLEAN] BY <1>0
    <3> QED BY <1>0, <2>1, <3>1, LetGoIs DEF LocateOnce, linkVars
  <2>2. CASE RequestHeard
    <3>1. Head(down) \in Orders /\ Tail(down) \in Seq(Orders) BY <1>0, <2>2, OrdersQueue DEF RequestHeard
    <3>2. [req |-> Head(down).req, tries |-> Tries, era |-> stops, linked |-> TRUE, current |-> TRUE] \in Awaited
      <4>1. Tries \in 1..Tries OBVIOUS
      <4> QED BY <1>0, <3>1, <4>1 DEF Awaited, Orders
    <3> QED BY <1>0, <2>2, <3>1, <3>2, LetGoIs DEF RequestHeard
  <2>3. CASE CancelHeard
    <3>1. Tail(down) \in Seq(Orders) BY <1>0, <2>3, OrdersQueue DEF CancelHeard
    <3> QED BY <1>0, <2>3, <3>1, LetGoIs DEF CancelHeard
  <2>4. ASSUME NEW era \in Era, NEW c \in BOOLEAN, NEW r \in Readings \union {NoReading},
               OnceAnswered([era |-> era, current |-> c], r)
        PROVE  /\ onces' \subseteq [era : 0..MaxStops, current : BOOLEAN] /\ autos' \subseteq Awaited
               /\ up' \in Seq(Messages) /\ down' \in Seq(Orders)
    <3>1. onces' \subseteq [era : 0..MaxStops, current : BOOLEAN] /\ autos' = autos BY <1>0, <2>4 DEF OnceAnswered
    <3>2. CASE r # NoReading /\ Send(Report(None, Read(r, era)))
      <4>1. PICK m \in Messages : Send(m) BY <3>2, ReadIs DEF Era
      <4> QED BY <1>0, <3>1, <4>1, Sent
    <3>3. CASE UNCHANGED linkVars BY <1>0, <3>1, <3>3 DEF linkVars
    <3> QED BY <2>4, <3>2, <3>3 DEF OnceAnswered
  <2>5. ASSUME NEW a \in autos, NEW r \in Readings \union {NoReading}, AutoAnswered(a, r)
        PROVE  /\ onces' \subseteq [era : 0..MaxStops, current : BOOLEAN] /\ autos' \subseteq Awaited
               /\ up' \in Seq(Messages) /\ down' \in Seq(Orders)
    <3>1. onces' = onces BY <2>5 DEF AutoAnswered
    <3>2. autos' \subseteq Awaited /\ down' = down BY AutoIs, <2>5
    <3>3. up' \in Seq(Messages)
      <4>1. up' = up \/ \E m \in Messages : up' = Append(up, m) BY AutoIs, <2>5
      <4> QED BY <1>0, <4>1
    <3> QED BY <1>0, <3>1, <3>2, <3>3
  <2> QED BY <2>1, <2>2, <2>3, <2>4, <2>5
<1> QED BY <1>1, <1>2 DEF FixShape

\* Continuous reports, and the stop.
LEMMA ReportsShape ==
  ASSUME FixShape,
         \/ StartPressed
         \/ \E t \in starting, ok \in BOOLEAN : StartAnswered(t, ok)
         \/ \E r \in Readings : Emit(r)
         \/ \E c \in BOOLEAN : StopPressed(c)
         \/ \E ok \in BOOLEAN : StopAnswered(ok)
  PROVE  FixShape'
<1>0. /\ stops \in 0..MaxStops /\ onces \subseteq [era : 0..MaxStops, current : BOOLEAN] /\ autos \subseteq Awaited
      /\ starting \subseteq [sub : Sub] /\ subs \subseteq [sub : Sub, era : 0..MaxStops] /\ held \in Sub \union {None}
      /\ stopping \in {"no", "quiet", "clear"}
      /\ up \in Seq(Messages) /\ down \in Seq(Orders)
  BY DEF FixShape
<1>1. UNCHANGED <<cleared, loc, pending>>
  BY DEF StartPressed, StartAnswered, Emit, StopPressed, StopAnswered, brokerVars
<1>2. CASE StartPressed
  <2>1. UNCHANGED <<stops, onces, autos, stopping, up, down>> BY <1>2 DEF StartPressed, phoneVars, linkVars
  <2>2. PICK s \in Sub : /\ subs' = subs \union {[sub |-> s, era |-> stops]}
                         /\ starting' = starting \union {[sub |-> s]} /\ held' = s
    BY <1>2 DEF StartPressed
  <2>3. [sub |-> s, era |-> stops] \in [sub : Sub, era : 0..MaxStops] /\ [sub |-> s] \in [sub : Sub] BY <1>0
  <2>4. subs' \subseteq [sub : Sub, era : 0..MaxStops] /\ starting' \subseteq [sub : Sub] /\ held' \in Sub \union {None}
    BY <1>0, <2>2, <2>3
  <2> QED BY <1>0, <1>1, <2>1, <2>4 DEF FixShape
<1>3. ASSUME NEW t \in starting, NEW ok \in BOOLEAN, StartAnswered(t, ok) PROVE FixShape'
  <2>1. UNCHANGED <<stops, onces, autos, stopping, up, down>> BY <1>3 DEF StartAnswered, phoneVars, linkVars
  <2>2. starting' \subseteq starting /\ subs' \subseteq subs /\ held' \in {held, None} BY <1>3 DEF StartAnswered
  <2> QED BY <1>0, <1>1, <2>1, <2>2 DEF FixShape
<1>4. ASSUME NEW r \in Readings, Emit(r) PROVE FixShape'
  <2>1. UNCHANGED <<stops, onces, autos, starting, subs, held, stopping>> BY <1>4 DEF Emit, phoneVars, contVars
  <2>2. PICK s \in subs : Send(Report(None, Read(r, s.era))) BY <1>4 DEF Emit
  <2>3. s.era \in 0..MaxStops BY <1>0
  <2>4. up' \in Seq(Messages) /\ down' = down BY <1>0, <2>2, <2>3, ReadIs, Sent
  <2> QED BY <1>0, <1>1, <2>1, <2>4 DEF FixShape
<1>5. ASSUME NEW c \in BOOLEAN, StopPressed(c) PROVE FixShape'
  <2>1. UNCHANGED <<starting, subs, held>> BY <1>5 DEF StopPressed
  <2>2. stops' \in 0..MaxStops /\ stopping' \in {"no", "quiet", "clear"}
    BY <1>0, <1>5 DEF StopPressed
  <2>3. onces' \subseteq [era : 0..MaxStops, current : BOOLEAN] /\ autos' \subseteq Awaited
    BY <1>0, <1>5, LetGoIs DEF StopPressed, StopOnces
  <2>4. Send(ClearOf(stops')) \/ UNCHANGED linkVars BY <1>5 DEF StopPressed
  <2>5. up' \in Seq(Messages) /\ down' = down BY <1>0, <2>2, <2>4, NoFixIs, Sent DEF linkVars
  <2> QED BY <1>0, <1>1, <2>1, <2>2, <2>3, <2>5 DEF FixShape
<1>6. ASSUME NEW ok \in BOOLEAN, StopAnswered(ok) PROVE FixShape'
  <2>1. UNCHANGED <<stops, onces, autos, starting>> BY <1>6 DEF StopAnswered, phoneVars
  <2>2. subs' \subseteq subs /\ held' = None /\ stopping' = "no" BY <1>6 DEF StopAnswered
  <2>3. Send(ClearOf(stops)) \/ UNCHANGED linkVars BY <1>6 DEF StopAnswered
  <2>4. up' \in Seq(Messages) /\ down' = down BY <1>0, <2>3, NoFixIs, Sent DEF linkVars
  <2> QED BY <1>0, <1>1, <2>1, <2>2, <2>4 DEF FixShape
<1> QED BY <1>2, <1>3, <1>4, <1>5, <1>6

\* The broker's actions and the link.
LEMMA BrokerShape ==
  ASSUME FixShape,
         \/ \E kind \in Kind : Ask(kind)
         \/ GiveUp \/ TurnEnds \/ ZoneResolved \/ ReportHeard \/ FailedHeard \/ ClearHeard \/ ServerClears
         \/ Detach \/ Attach \/ Age
  PROVE  FixShape'
<1>0. /\ up \in Seq(Messages) /\ down \in Seq(Orders) /\ loc \in Fixes /\ pending \in Req \union {None} /\ cleared \in Nat
      /\ autos \subseteq Awaited /\ stops \in 0..MaxStops
  BY DEF FixShape
<1>1. UNCHANGED <<stops, onces, starting, subs, held, stopping>>
  BY DEF Ask, GiveUp, TurnEnds, ZoneResolved, ReportHeard, FailedHeard, ClearHeard, ServerClears, Detach, Attach, Age,
         phoneVars, contVars
<1>2. up # << >> => Head(up) \in Messages /\ Tail(up) \in Seq(Messages) BY <1>0
<1>3. Head(up) \in Messages => Head(up).fix \in Fixes /\ Head(up).fix.era \in 0..MaxStops
  BY DEF Messages, Fixes
<1>4. up' \in Seq(Messages) /\ cleared' \in Nat
  <2>1. << >> \in Seq(Messages) OBVIOUS
  <2>2. CASE ClearHeard BY <1>2, <1>3, <2>2 DEF ClearHeard
  <2> QED
    BY <1>0, <1>2, <2>1, <2>2
       DEF Ask, GiveUp, TurnEnds, ZoneResolved, ReportHeard, FailedHeard, ServerClears, Detach, Attach, Age, linkVars
<1>5. down' \in Seq(Orders)
  <2>1. \A k \in {"request", "cancel"}, q \in Req \union {None} : Told([kind |-> k, req |-> q]) \in Seq(Orders)
    BY <1>0, OrdersQueue
  <2>2. << >> \in Seq(Orders) OBVIOUS
  <2> QED
    BY <1>0, <2>1, <2>2
       DEF Ask, GiveUp, TurnEnds, ZoneResolved, ReportHeard, FailedHeard, ClearHeard, ServerClears, Detach, Attach, Age, linkVars
<1>6. pending' \in Req \union {None}
  BY <1>0
     DEF Ask, GiveUp, TurnEnds, ZoneResolved, ReportHeard, Accept, Prime, Ignore, FailedHeard, ClearHeard, ServerClears,
         Detach, Attach, Age, brokerVars
<1>7. loc' \in Fixes
  <2>1. CASE ReportHeard BY <1>0, <1>2, <1>3, <2>1 DEF ReportHeard, Accept, Prime, Ignore, brokerVars
  <2>2. CASE Age BY <1>0, <2>2 DEF Age, Fixes
  <2> QED
    BY <1>0, <2>1, <2>2, NoFixIs
       DEF Ask, GiveUp, TurnEnds, ZoneResolved, FailedHeard, ClearHeard, ServerClears, Forget, Detach, Attach, brokerVars
<1>8. autos' \subseteq Awaited
  <2>1. CASE Detach
    <3>1. \A a \in Awaited : [a EXCEPT !.linked = FALSE] \in Awaited BY DEF Awaited
    <3> QED BY <1>0, <2>1, <3>1 DEF Detach
  <2> QED
    BY <1>0, <2>1
       DEF Ask, GiveUp, TurnEnds, ZoneResolved, ReportHeard, FailedHeard, ClearHeard, ServerClears, Attach, Age, phoneVars
<1> QED BY <1>1, <1>4, <1>5, <1>6, <1>7, <1>8 DEF FixShape

\* Every step keeps the shape.
LEMMA ShapeStep == FixShape /\ [FixNext]_fixVars => FixShape'
<1> SUFFICES ASSUME FixShape, [FixNext]_fixVars PROVE FixShape' OBVIOUS
<1>1. CASE UNCHANGED fixVars BY <1>1 DEF fixVars, phoneVars, contVars, linkVars, brokerVars, FixShape
<1>2. CASE FixNext BY <1>2, PhoneShape, ReportsShape, BrokerShape DEF FixNext
<1> QED BY <1>1, <1>2

-----------------------------------------------------------------------------
\* Nothing has been stopped when the client starts.
LEMMA StopBegins == FixInit => StopIInv
<1> SUFFICES ASSUME FixInit PROVE StopIInv OBVIOUS
<1>1. Wanted /\ OneHandle /\ Reporting BY DEF FixInit, Wanted, OneHandle, Reporting
<1>2. Ordered(up, cleared, Announced) BY DEF FixInit, Ordered, Announced
<1> QED BY <1>1, <1>2 DEF FixInit, ClearedStaysCleared, StopIInv

\* The phone answers and the server asks: no stop, no report that starts or ends.
LEMMA PhoneStops ==
  ASSUME FixShape, StopIInv,
         \/ LocateOnce \/ RequestHeard \/ CancelHeard
         \/ \E era \in Era, c \in BOOLEAN, r \in Readings \union {NoReading} :
              OnceAnswered([era |-> era, current |-> c], r)
         \/ \E a \in autos, r \in Readings \union {NoReading} : AutoAnswered(a, r)
  PROVE  StopIInv'
<1>0. /\ stops \in 0..MaxStops /\ onces \in SUBSET [era : 0..MaxStops, current : BOOLEAN] /\ autos \in SUBSET Awaited
      /\ up \in Seq(Messages) /\ cleared \in Nat
      /\ Wanted /\ Ordered(up, cleared, Announced)
  BY DEF FixShape, StopIInv
<1>1. UNCHANGED <<stops, cleared, starting, subs, held, active, stopping, loc>>
  BY DEF LocateOnce, RequestHeard, CancelHeard, OnceAnswered, AutoAnswered, contVars, brokerVars
<1>2. OneHandle' /\ Reporting' /\ ClearedStaysCleared' /\ Announced' = Announced
  BY <1>1 DEF StopIInv, OneHandle, Reporting, Announced, ClearedStaysCleared
<1>3. PICK b \in Int : b = Announced /\ b <= stops BY <1>0 DEF Announced
<1>4. Wanted' /\ Ordered(up', cleared, b)
  <2>1. CASE LocateOnce
    <3>1. \A o \in onces' : o.current => o.era = stops BY <1>0, <2>1, LetGoIs DEF LocateOnce
    <3> QED BY <1>0, <1>1, <1>3, <2>1, <3>1 DEF LocateOnce, linkVars, Wanted
  <2>2. CASE RequestHeard
    <3>1. \A a \in autos' : a.current => a.era = stops BY <1>0, <2>2, LetGoIs DEF RequestHeard
    <3> QED BY <1>0, <1>1, <1>3, <2>2, <3>1 DEF RequestHeard, Wanted
  <2>3. CASE CancelHeard
    <3>1. \A a \in autos' : ~a.current BY <1>0, <2>3, LetGoIs DEF CancelHeard
    <3> QED BY <1>0, <1>1, <1>3, <2>3, <3>1 DEF CancelHeard, Wanted
  <2>4. ASSUME NEW era \in Era, NEW c \in BOOLEAN, NEW r \in Readings \union {NoReading},
               OnceAnswered([era |-> era, current |-> c], r)
        PROVE  Wanted' /\ Ordered(up', cleared, b)
    <3>1. Wanted' BY <1>0, <1>1, <2>4 DEF OnceAnswered, Wanted
    <3>2. CASE c /\ r # NoReading /\ Send(Report(None, Read(r, era)))
      <4>1. era = stops BY <1>0, <2>4, <3>2 DEF OnceAnswered, Wanted
      <4>2. PICK m \in Messages : Send(m) /\ m.kind = "report" /\ m.fix.era = era BY <3>2, ReadIs DEF Era
      <4>3. Ordered(Append(up, m), cleared, b) BY <1>0, <1>3, <4>1, <4>2, Said
      <4> QED BY <1>0, <1>3, <3>1, <4>2, <4>3, Sent
    <3>3. CASE UNCHANGED linkVars BY <1>0, <1>3, <3>1, <3>3 DEF linkVars
    <3> QED BY <2>4, <3>2, <3>3 DEF OnceAnswered
  <2>5. ASSUME NEW a \in autos, NEW r \in Readings \union {NoReading}, AutoAnswered(a, r)
        PROVE  Wanted' /\ Ordered(up', cleared, b)
    <3>1. Wanted'
      <4>1. \A x \in autos' : \E y \in autos : x.era = y.era /\ x.current = y.current BY <2>5, AutoIs
      <4> QED BY <1>0, <1>1, <2>5, <4>1 DEF AutoAnswered, Wanted
    <3>2. CASE up' = up BY <1>0, <1>3, <3>1, <3>2
    <3>3. ASSUME NEW m \in Messages, up' = Append(up, m), m.kind # "clear", m.kind = "report" => a.current /\ m.fix.era = a.era
          PROVE  Ordered(up', cleared, b)
      <4>1. m.kind = "report" => m.fix.era = stops BY <1>0, <3>3 DEF Wanted
      <4> QED BY <1>0, <1>3, <3>3, <4>1, Said
    <3>4. \/ up' = up
          \/ \E m \in Messages : up' = Append(up, m) /\ m.kind # "clear" /\ (m.kind = "report" => a.current /\ m.fix.era = a.era)
      BY <2>5, AutoIs
    <3> QED BY <3>1, <3>2, <3>3, <3>4
  <2> QED BY <2>1, <2>2, <2>3, <2>4, <2>5
<1> QED BY <1>1, <1>2, <1>3, <1>4 DEF StopIInv

\* Reports start, come and end, and the user stops.
LEMMA ReportsStop ==
  ASSUME ~StartTwice, FixShape, StopIInv,
         \/ StartPressed
         \/ \E t \in starting, ok \in BOOLEAN : StartAnswered(t, ok)
         \/ \E r \in Readings : Emit(r)
         \/ \E c \in BOOLEAN : StopPressed(c)
         \/ \E ok \in BOOLEAN : StopAnswered(ok)
  PROVE  StopIInv'
<1>0. /\ stops \in 0..MaxStops /\ onces \in SUBSET [era : 0..MaxStops, current : BOOLEAN] /\ autos \in SUBSET Awaited
      /\ starting \subseteq [sub : Sub] /\ subs \subseteq [sub : Sub, era : 0..MaxStops] /\ held \in Sub \union {None}
      /\ stopping \in {"no", "quiet", "clear"}
      /\ up \in Seq(Messages) /\ cleared \in Nat
      /\ Wanted /\ OneHandle /\ Reporting /\ Ordered(up, cleared, Announced)
  BY DEF FixShape, StopIInv
<1>1. UNCHANGED <<cleared, loc>> /\ ClearedStaysCleared'
  BY DEF StartPressed, StartAnswered, Emit, StopPressed, StopAnswered, brokerVars, StopIInv, ClearedStaysCleared
<1>2. PICK b \in Int : b = Announced /\ b <= stops BY <1>0 DEF Announced
<1>3. None \notin Sub OBVIOUS
<1>4. CASE StartPressed
  <2>1. UNCHANGED <<stops, onces, autos, active, stopping, up>> BY <1>4 DEF StartPressed, phoneVars, linkVars
  <2>2. starting = {} /\ ~active BY <1>4 DEF StartPressed
  <2>3. held = None /\ subs = {}
    <3>1. held = None BY <1>0, <2>2 DEF OneHandle
    <3>2. \A s \in subs : s.sub \in Sub /\ s.sub = None BY <1>0, <3>1 DEF OneHandle
    <3> QED BY <1>3, <3>1, <3>2
  <2>4. PICK s \in Sub : /\ subs' = {[sub |-> s, era |-> stops]} /\ starting' = {[sub |-> s]} /\ held' = s
    BY <1>4, <2>2, <2>3 DEF StartPressed
  <2>5. OneHandle'
    <3>1. \A x \in subs' : x.sub = s BY <2>4
    <3>2. \A x \in starting' : x = [sub |-> s] /\ x.sub = s BY <2>4
    <3>3. starting' # {} BY <2>4
    <3> QED BY <2>4, <3>1, <3>2, <3>3 DEF OneHandle
  <2>6. Announced' = Announced /\ Wanted' BY <1>0, <2>1 DEF Announced, Wanted
  <2>7. Reporting' BY <1>2, <2>4, <2>6 DEF Reporting
  <2> QED BY <1>0, <1>1, <2>1, <2>5, <2>6, <2>7 DEF StopIInv
<1>5. ASSUME NEW t \in starting, NEW ok \in BOOLEAN, StartAnswered(t, ok) PROVE StopIInv'
  <2>1. UNCHANGED <<stops, onces, autos, stopping, up>> BY <1>5 DEF StartAnswered, phoneVars, linkVars
  <2>2. starting' = {} BY <1>0, <1>5 DEF StartAnswered, OneHandle
  <2>3. OneHandle' /\ subs' \subseteq subs
    <3>1. CASE ok BY <1>0, <1>5, <2>2, <3>1 DEF StartAnswered, OneHandle
    <3>2. CASE ~ok
      <4>1. subs' = {} /\ held' = None BY <1>0, <1>5, <3>2 DEF StartAnswered, OneHandle
      <4> QED BY <2>2, <4>1 DEF OneHandle
    <3> QED BY <3>1, <3>2
  <2>4. Announced' = Announced /\ Wanted' BY <1>0, <2>1 DEF Announced, Wanted
  <2>5. Reporting' BY <1>0, <2>3, <2>4 DEF Reporting
  <2> QED BY <1>0, <1>1, <2>1, <2>3, <2>4, <2>5 DEF StopIInv
<1>6. ASSUME NEW r \in Readings, Emit(r) PROVE StopIInv'
  <2>1. UNCHANGED <<stops, onces, autos, starting, subs, held, active, stopping>> BY <1>6 DEF Emit, phoneVars, contVars
  <2>2. PICK s \in subs : Send(Report(None, Read(r, s.era))) BY <1>6 DEF Emit
  <2>3. s.era \in 0..MaxStops /\ s.era >= b BY <1>0, <1>2 DEF Reporting
  <2>4. PICK m \in Messages : Send(m) /\ m.kind = "report" /\ m.fix.era = s.era BY <2>2, <2>3, ReadIs
  <2>5. Ordered(Append(up, m), cleared, b) BY <1>0, <1>2, <2>3, <2>4, Said
  <2>6. Ordered(up', cleared, b) BY <1>0, <1>2, <2>4, <2>5, Sent
  <2>7. Wanted' /\ OneHandle' /\ Reporting' /\ Announced' = Announced
    BY <1>0, <2>1 DEF Wanted, OneHandle, Reporting, Announced
  <2> QED BY <1>1, <1>2, <2>6, <2>7 DEF StopIInv
<1>7. ASSUME NEW c \in BOOLEAN, StopPressed(c) PROVE StopIInv'
  <2>1. UNCHANGED <<starting, subs, held, active>> /\ stopping = "no" /\ b = stops
    BY <1>2, <1>7 DEF StopPressed, Announced
  <2>2. Wanted'
    <3>1. \A o \in onces' : ~o.current BY <1>0, <1>7, LetGoIs DEF StopPressed, StopOnces
    <3>2. \A a \in autos' : ~a.current BY <1>0, <1>7, LetGoIs DEF StopPressed
    <3> QED BY <3>1, <3>2 DEF Wanted
  <2>3. OneHandle' BY <1>0, <2>1 DEF OneHandle
  <2>4. PICK e \in 0..MaxStops : e = stops' /\ e \in {stops, stops + 1} BY <1>0, <1>7 DEF StopPressed
  <2>5. CASE ~active /\ held = None
    <3>1. \A s \in subs : s.sub \in Sub /\ s.sub = None BY <1>0, <2>5 DEF OneHandle
    <3>2. subs' = {} BY <1>3, <2>1, <3>1
    <3>3. stopping' = "no" /\ Announced' = e BY <1>7, <2>4, <2>5 DEF StopPressed, Announced
    <3>4. Ordered(up', cleared, e)
      <4>1. CASE UNCHANGED linkVars BY <1>0, <1>2, <2>1, <2>4, <4>1, Raised DEF linkVars
      <4>2. CASE Send(ClearOf(e))
        <5>1. PICK m \in Messages : Send(m) /\ m.kind = "clear" /\ m.fix.era = e BY <4>2, NoFixIs
        <5>2. Ordered(Append(up, m), cleared, e) BY <1>0, <1>2, <2>1, <2>4, <5>1, Said
        <5>3. Ordered(up, cleared, e) BY <1>0, <1>2, <2>1, <2>4, Raised
        <5> QED BY <1>0, <5>1, <5>2, <5>3, Sent
      <4> QED BY <1>7, <2>4, <2>5, <4>1, <4>2 DEF StopPressed
    <3>5. Reporting' BY <3>2 DEF Reporting
    <3> QED BY <1>1, <2>2, <2>3, <3>3, <3>4, <3>5 DEF StopIInv
  <2>6. CASE ~(~active /\ held = None)
    <3>1. up' = up /\ stopping' = (IF c THEN "clear" ELSE "quiet") /\ stops' = (IF c THEN stops + 1 ELSE stops)
      BY <1>7, <2>6 DEF StopPressed, linkVars
    <3>2. Announced' = Announced
      <4>1. CASE c BY <1>0, <2>1, <3>1, <4>1 DEF Announced
      <4>2. CASE ~c BY <1>0, <2>1, <3>1, <4>2 DEF Announced
      <4> QED BY <4>1, <4>2
    <3>3. Reporting' BY <1>0, <2>1, <3>2 DEF Reporting
    <3> QED BY <1>0, <1>1, <2>2, <2>3, <3>1, <3>2, <3>3 DEF StopIInv
  <2> QED BY <2>5, <2>6
<1>8. ASSUME NEW ok \in BOOLEAN, StopAnswered(ok) PROVE StopIInv'
  <2>1. UNCHANGED <<stops, onces, autos, starting>> BY <1>8 DEF StopAnswered, phoneVars
  <2>2. subs' = {} /\ held' = None /\ stopping' = "no" BY <1>0, <1>8 DEF StopAnswered, OneHandle
  <2>3. Wanted' /\ OneHandle' /\ Reporting' /\ Announced' = stops
    BY <1>0, <2>1, <2>2 DEF Wanted, OneHandle, Reporting, Announced
  <2>4. Ordered(up', cleared, stops)
    <3>1. Ordered(up, cleared, stops) BY <1>0, <1>2, Raised
    <3>2. CASE UNCHANGED linkVars BY <3>1, <3>2 DEF linkVars
    <3>3. CASE Send(ClearOf(stops))
      <4>1. PICK m \in Messages : Send(m) /\ m.kind = "clear" /\ m.fix.era = stops BY <1>0, <3>3, NoFixIs
      <4>2. Ordered(Append(up, m), cleared, stops) BY <1>0, <1>2, <4>1, Said
      <4> QED BY <1>0, <3>1, <4>1, <4>2, Sent
    <3> QED BY <1>8, <3>2, <3>3 DEF StopAnswered
  <2> QED BY <1>1, <2>3, <2>4 DEF StopIInv
<1> QED BY <1>4, <1>5, <1>6, <1>7, <1>8

\* The server hears, forgets, and the link comes and goes.
LEMMA BrokerStops ==
  ASSUME FixShape, StopIInv,
         \/ \E kind \in Kind : Ask(kind)
         \/ GiveUp \/ TurnEnds \/ ZoneResolved \/ ReportHeard \/ FailedHeard \/ ClearHeard \/ ServerClears
         \/ Detach \/ Attach \/ Age
  PROVE  StopIInv'
<1>0. /\ stops \in 0..MaxStops /\ up \in Seq(Messages) /\ loc \in Fixes /\ cleared \in Nat /\ autos \subseteq Awaited
      /\ Wanted /\ OneHandle /\ Reporting /\ Ordered(up, cleared, Announced)
  BY DEF FixShape, StopIInv
<1>1. UNCHANGED <<stops, onces, starting, subs, held, active, stopping>>
  BY DEF Ask, GiveUp, TurnEnds, ZoneResolved, ReportHeard, FailedHeard, ClearHeard, ServerClears, Detach, Attach, Age,
         phoneVars, contVars
<1>2. OneHandle' /\ Reporting' /\ Announced' = Announced BY <1>0, <1>1 DEF OneHandle, Reporting, Announced
<1>3. Wanted'
  <2>1. CASE Detach
    <3>1. \A a \in Awaited : [a EXCEPT !.linked = FALSE].era = a.era /\ [a EXCEPT !.linked = FALSE].current = a.current
      BY DEF Awaited
    <3> QED BY <1>0, <1>1, <2>1, <3>1 DEF Detach, Wanted
  <2> QED
    BY <1>0, <1>1, <2>1
       DEF Ask, GiveUp, TurnEnds, ZoneResolved, ReportHeard, FailedHeard, ClearHeard, ServerClears, Attach, Age,
           phoneVars, Wanted
<1>4. PICK b \in Int : b = Announced BY <1>0 DEF Announced
<1>5. ASSUME up # << >>
      PROVE  /\ Head(up) \in Messages
             /\ Ordered(Tail(up), cleared, b)
             /\ Head(up).kind = "clear" => Ordered(Tail(up), Head(up).fix.era, b)
             /\ Head(up).kind = "report" => Head(up).fix.era >= cleared
  BY <1>0, <1>4, <1>5, HeardNext
<1>6. Ordered(up', cleared', b) /\ (loc' = NoFix \/ loc'.era >= cleared')
  <2>1. CASE ReportHeard
    <3>1. Head(up).kind = "report" /\ up # << >> /\ up' = Tail(up) /\ cleared' = cleared BY <2>1 DEF ReportHeard
    <3>2. loc' \in {loc, Head(up).fix} BY <2>1 DEF ReportHeard, Accept, Prime, Ignore, brokerVars
    <3> QED BY <1>5, <3>1, <3>2 DEF StopIInv, ClearedStaysCleared
  <2>2. CASE FailedHeard
    BY <1>5, <2>2 DEF FailedHeard, StopIInv, ClearedStaysCleared
  <2>3. CASE ClearHeard BY <1>5, <2>3 DEF ClearHeard, Forget
  <2>4. CASE Detach
    <3>1. Ordered(<< >>, cleared, b) BY <1>0, <1>4 DEF Ordered
    <3> QED BY <2>4, <3>1 DEF Detach, StopIInv, ClearedStaysCleared
  <2>5. CASE Age
    <3>1. loc' = [loc EXCEPT !.old = TRUE] /\ loc # NoFix /\ up' = up /\ cleared' = cleared BY <2>5 DEF Age, linkVars
    <3>2. loc'.era = loc.era BY <1>0, <3>1 DEF Fixes
    <3> QED BY <1>0, <1>4, <3>1, <3>2 DEF StopIInv, ClearedStaysCleared
  <2>6. CASE \/ \E kind \in Kind : Ask(kind)
             \/ GiveUp \/ TurnEnds \/ ZoneResolved \/ ServerClears \/ Attach
    BY <1>0, <1>4, <2>6
       DEF Ask, GiveUp, TurnEnds, ZoneResolved, ServerClears, Forget, Attach, linkVars, brokerVars, StopIInv, ClearedStaysCleared
  <2> QED BY <2>1, <2>2, <2>3, <2>4, <2>5, <2>6
<1>7. ClearedStaysCleared' BY <1>6 DEF ClearedStaysCleared
<1> QED BY <1>2, <1>3, <1>4, <1>6, <1>7 DEF StopIInv

\* Every step keeps the order of stops and reports, if start is not pressed twice.
LEMMA StopStep == ~StartTwice /\ FixShape /\ StopIInv /\ [FixNext]_fixVars => StopIInv'
<1> SUFFICES ASSUME ~StartTwice, FixShape, StopIInv, [FixNext]_fixVars PROVE StopIInv' OBVIOUS
<1>1. CASE UNCHANGED fixVars
  <2>1. UNCHANGED <<stops, onces, autos, starting, subs, held, active, stopping, up, loc, cleared>>
    BY <1>1 DEF fixVars, phoneVars, contVars, linkVars, brokerVars
  <2>2. Announced' = Announced BY <2>1 DEF Announced
  <2> QED BY <2>1, <2>2 DEF StopIInv, Wanted, OneHandle, Reporting, ClearedStaysCleared
<1>2. CASE FixNext BY <1>2, PhoneStops, ReportsStop, BrokerStops DEF FixNext
<1> QED BY <1>1, <1>2

\* After the server has cleared the position for a stop of the user, none whose
\* acquisition began before that stop comes back, for any number of stops, requests
\* and messages under way; if start is not pressed again before the phone answers.
THEOREM ClearedStaysClearedAlways == ASSUME ~StartTwice PROVE FixSpec => []ClearedStaysCleared
<1>1. FixInit => FixShape /\ StopIInv BY ShapeBegins, StopBegins
<1>2. FixShape /\ StopIInv /\ [FixNext]_fixVars => (FixShape /\ StopIInv)' BY ShapeStep, StopStep
<1>3. StopIInv => ClearedStaysCleared BY DEF StopIInv
<1> QED BY <1>1, <1>2, <1>3, PTL DEF FixSpec

\* Whatever a turn is given as the position of the user is accurate to the bar and
\* not older than two minutes, whoever asked for it and however late it came.
THEOREM AskersGetGoodFixesAlways == FixSpec => AskersGetGoodFixes
<1>1. FixShape /\ [FixNext]_fixVars => (turn.state # "using" /\ turn'.state = "using" => turn'.fix.sharp /\ ~turn'.fix.old)
  <2> SUFFICES ASSUME FixShape, [FixNext]_fixVars, turn.state # "using", turn'.state = "using"
      PROVE turn'.fix.sharp /\ ~turn'.fix.old OBVIOUS
  <2>1. turn' # turn OBVIOUS
  <2>2. (\E kind \in Kind : Ask(kind)) \/ ReportHeard
    <3>1. GiveUp \/ TurnEnds \/ ZoneResolved \/ FailedHeard \/ ServerClears \/ Detach => turn' \in {turn, Idle}
      BY DEF GiveUp, TurnEnds, ZoneResolved, FailedHeard, ServerClears, Detach
    <3>2. turn' # Idle BY DEF Idle
    <3>3. FixNext BY <2>1 DEF fixVars
    <3>4. \/ LocateOnce \/ RequestHeard \/ CancelHeard \/ StartPressed \/ ClearHeard \/ Attach \/ Age
          \/ \E era \in Era, c \in BOOLEAN, r \in Readings \union {NoReading} :
               OnceAnswered([era |-> era, current |-> c], r)
          \/ \E a \in autos, r \in Readings \union {NoReading} : AutoAnswered(a, r)
          \/ \E t \in starting, ok \in BOOLEAN : StartAnswered(t, ok)
          \/ \E r \in Readings : Emit(r)
          \/ \E c \in BOOLEAN : StopPressed(c)
          \/ \E ok \in BOOLEAN : StopAnswered(ok)
          => turn' = turn
      BY DEF LocateOnce, RequestHeard, CancelHeard, StartPressed, ClearHeard, Attach, Age, OnceAnswered, AutoAnswered,
             StartAnswered, Emit, StopPressed, StopAnswered
    <3> QED BY <2>1, <3>1, <3>2, <3>3, <3>4 DEF FixNext
  <2>3. CASE \E kind \in Kind : Ask(kind)
    <3>1. PICK kind \in Kind : Ask(kind) BY <2>3
    <3>2. CASE Usable(loc)
      <4>1. turn'.fix = loc BY <3>1, <3>2 DEF Ask
      <4> QED BY <3>2, <4>1 DEF Usable
    <3>3. CASE ~Usable(loc)
      <4>1. turn' = [state |-> "waiting", kind |-> kind, fix |-> NoFix] BY <3>1, <3>3, Zenon DEF Ask
      <4> QED BY <4>1
    <3> QED BY <3>2, <3>3
  <2>4. CASE ReportHeard
    <3>1. up # << >> /\ Head(up).kind = "report" /\ Valid(Head(up)) /\ Accept(Head(up))
      BY <2>1, <2>4 DEF ReportHeard, Prime, Ignore
    <3>2. up \in Seq(Messages) BY DEF FixShape
    <3>3. Head(up) \in Messages BY <3>1, <3>2
    <3>4. Head(up).fix.sharp BY <3>1, <3>3 DEF Accept, Messages
    <3>5. turn'.fix = Head(up).fix BY <3>1 DEF Accept
    <3> QED BY <3>1, <3>4, <3>5 DEF Valid
  <2> QED BY <2>2, <2>3, <2>4
<1> QED BY <1>1, ShapeBegins, ShapeStep, PTL DEF FixSpec, AskersGetGoodFixes
=============================================================================
