----------------------------- MODULE LocationFix -----------------------------
(***************************************************************************)
(* How a session comes by the position of its user: the LocationController *)
(* of the client, the link, and the LocationRequestBroker of the session.  *)
(*                                                                         *)
(* The server asks the phone for a fix while a turn waits for it, and the  *)
(* user may also send one, or have the phone report continuously.  None of *)
(* the phone's calls can be aborted: a late answer has to be ignored by    *)
(* whoever asked.  The broker keeps the newest fix in memory for the turns *)
(* that follow, and the timezone that was resolved from it.                *)
(*                                                                         *)
(* Every acquisition carries the number of times the user had stopped      *)
(* location when it began (its era); the code has no such number, it lets  *)
(* the properties tell a late fix from a wanted one.                       *)
(***************************************************************************)
EXTENDS Integers, Sequences, FiniteSets, SequencesExt

CONSTANTS
  Place,          \* where the user may be; a place has one timezone, its own
  Req,            \* ids of location requests, used again when nothing speaks of them
  None,
  Tries,          \* readings the phone takes for one request (three in the code)
  MaxStops,       \* bound on the stops of the user
  Sub,            \* callbacks the client registers for continuous reports, used again
  Kind,           \* what turns ask the position for: "route", "zone" (a timezone)
  MaxLink,        \* bound on the messages on their way to the server
  StartTwice      \* may the user press start again before the phone has answered?

ASSUME FixAssumption ==
  /\ None \notin Place \union Req \union Sub /\ Kind \subseteq {"route", "zone"} /\ Place # {}
  /\ Tries \in Nat \ {0} /\ MaxStops \in Nat /\ MaxLink \in Nat \ {0} /\ StartTwice \in BOOLEAN

VARIABLES
  stops,                                   \* how often the user has stopped location
  onces, autos,                            \* the phone: readings awaited, for the user and for requests
  starting, subs, held, active, updates, stopping,   \* the phone: continuous reports
  attached, up, down,                      \* the link
  pending, loc, zone, turn,                \* the broker, and the turn that uses it
  cleared                                  \* era of the last stop the server heard of (history)

phoneVars == <<onces, autos>>
contVars  == <<starting, subs, held, active, updates, stopping>>
linkVars  == <<attached, up, down>>
brokerVars == <<pending, loc, zone>>
fixVars == <<stops, phoneVars, contVars, linkVars, brokerVars, turn, cleared>>

Fix == [place : Place, sharp : BOOLEAN, old : BOOLEAN, era : 0..MaxStops]
NoFix == [place |-> None, sharp |-> FALSE, old |-> TRUE, era |-> 0]
Idle == [state |-> "idle", kind |-> "route", fix |-> NoFix]

FixInit ==
  /\ stops = 0
  /\ onces = {} /\ autos = {}
  /\ starting = {} /\ subs = {} /\ held = None /\ active = FALSE /\ updates = FALSE /\ stopping = "no"
  /\ attached = TRUE /\ up = << >> /\ down = << >>
  /\ pending = None /\ loc = NoFix /\ zone = None /\ turn = Idle
  /\ cleared = 0

-----------------------------------------------------------------------------
(* The phone.  A reading is accurate enough (sharp) or not; it may be one   *)
(* the host had cached, older than the two minutes a fix is good for.       *)

Readings == {r \in [place : Place, sharp : BOOLEAN, old : BOOLEAN] : r.sharp \/ ~r.old}
NoReading == [place |-> None, sharp |-> FALSE, old |-> TRUE]    \* refused, timed out, or not a position
Read(r, era) == [place |-> r.place, sharp |-> r.sharp, old |-> r.old, era |-> era]

Report(req, fix) == [kind |-> "report", req |-> req, fix |-> fix]
Failed(req) == [kind |-> "failed", req |-> req, fix |-> NoFix]
ClearOf(era) == [kind |-> "clear", req |-> None, fix |-> [NoFix EXCEPT !.era = era]]

\* a message goes to the socket that is open now, if there is one
Send(m) ==
  /\ Len(up) < MaxLink
  /\ up' = IF attached THEN Append(up, m) ELSE up
  /\ UNCHANGED <<attached, down>>

\* generations: what was awaited before is no longer current
LetGo(awaited) == {[w EXCEPT !.current = FALSE] : w \in awaited}
\* StopOncesNot would forget them
StopOncesNot(awaited) == awaited
StopOnces(awaited) == LetGo(awaited)

LocateOnce ==
  /\ attached /\ Cardinality(onces) < 2
  /\ onces' = LetGo(onces) \union {[era |-> stops, current |-> TRUE]}
  /\ UNCHANGED <<stops, autos, contVars, linkVars, brokerVars, turn, cleared>>

OnceAnswered(o, r) ==
  /\ o \in onces
  /\ onces' = onces \ {o}
  /\ IF o.current /\ r # NoReading THEN Send(Report(None, Read(r, o.era))) ELSE UNCHANGED linkVars
  /\ UNCHANGED <<stops, autos, contVars, brokerVars, turn, cleared>>

RequestHeard ==
  /\ down # << >> /\ Head(down).kind = "request"
  /\ down' = Tail(down)
  /\ autos' = LetGo(autos) \union
       {[req |-> Head(down).req, tries |-> Tries, era |-> stops, linked |-> TRUE, current |-> TRUE]}
  /\ UNCHANGED <<stops, onces, contVars, attached, up, brokerVars, turn, cleared>>

\* a cancellation ends the acquisition of the moment, whichever request it names
CancelHeard ==
  /\ down # << >> /\ Head(down).kind = "cancel"
  /\ down' = Tail(down)
  /\ autos' = LetGo(autos)
  /\ UNCHANGED <<stops, onces, contVars, attached, up, brokerVars, turn, cleared>>

\* the phone's own bar for a fix it was asked for; it does not look at the age
Acceptable(r) == r.sharp

\* the third try has failed: said only on the socket the request came by
Unanswered(a) == IF a.linked THEN Send(Failed(a.req)) ELSE UNCHANGED linkVars

AutoAnswered(a, r) ==
  /\ a \in autos
  /\ \/ /\ ~a.current
        /\ autos' = autos \ {a} /\ UNCHANGED linkVars
     \/ /\ a.current /\ r # NoReading /\ Acceptable(r)
        /\ autos' = autos \ {a} /\ Send(Report(a.req, Read(r, a.era)))
     \/ /\ a.current /\ (r = NoReading \/ ~Acceptable(r)) /\ a.tries > 1
        /\ autos' = (autos \ {a}) \union {[a EXCEPT !.tries = @ - 1]}
        /\ UNCHANGED linkVars
     \/ /\ a.current /\ (r = NoReading \/ ~Acceptable(r)) /\ a.tries = 1
        /\ autos' = autos \ {a} /\ Unanswered(a)
  /\ UNCHANGED <<stops, onces, contVars, brokerVars, turn, cleared>>

StartPressed ==
  /\ attached /\ ~active
  /\ starting = {} \/ StartTwice
  /\ \E s \in Sub \ {t.sub : t \in subs \union starting} :
       /\ subs' = subs \union {[sub |-> s, era |-> stops]}
       /\ starting' = starting \union {[sub |-> s]}
       /\ held' = s
  /\ UNCHANGED <<stops, phoneVars, active, updates, stopping, linkVars, brokerVars, turn, cleared>>

\* the handle that is dropped is the one held by now, not the one of this start
StartAnswered(t, ok) ==
  /\ t \in starting
  /\ starting' = starting \ {t}
  /\ IF ok
     THEN active' = TRUE /\ updates' = TRUE /\ UNCHANGED <<subs, held>>
     ELSE subs' = {s \in subs : s.sub # held} /\ held' = None /\ UNCHANGED <<active, updates>>
  /\ UNCHANGED <<stops, phoneVars, stopping, linkVars, brokerVars, turn, cleared>>

\* every callback that is registered reports; the throttle lets one through
Emit(r) ==
  /\ updates
  /\ \E s \in subs : Send(Report(None, Read(r, s.era)))
  /\ UNCHANGED <<stops, phoneVars, contVars, brokerVars, turn, cleared>>

\* stop button (which has the server clear too), background, reset of the view
StopPressed(clears) ==
  /\ stopping = "no"
  /\ clears => stops < MaxStops
  /\ stops' = IF clears THEN stops + 1 ELSE stops
  /\ onces' = StopOnces(onces)
  /\ autos' = LetGo(autos)
  /\ IF ~active /\ held = None
     THEN IF clears THEN Send(ClearOf(stops')) ELSE UNCHANGED linkVars
     ELSE UNCHANGED linkVars
  /\ stopping' = IF ~active /\ held = None THEN "no" ELSE IF clears THEN "clear" ELSE "quiet"
  /\ UNCHANGED <<starting, subs, held, active, updates, brokerVars, turn, cleared>>

StopAnswered(ok) ==
  /\ stopping # "no"
  /\ updates' = IF ok THEN FALSE ELSE updates
  /\ subs' = {s \in subs : s.sub # held} /\ held' = None /\ active' = FALSE
  /\ stopping' = "no"
  /\ IF stopping = "clear" THEN Send(ClearOf(stops)) ELSE UNCHANGED linkVars
  /\ UNCHANGED <<stops, phoneVars, starting, brokerVars, turn, cleared>>

-----------------------------------------------------------------------------
(* The server.                                                             *)

\* UsableAnyAge would not look at the age
UsableAnyAge(fix) == fix.place # None /\ fix.sharp
Usable(fix) == fix.place # None /\ fix.sharp /\ ~fix.old

Mentioned ==
  {pending} \union {m.req : m \in ToSet(up) \union ToSet(down)} \union {a.req : a \in autos}

Told(m) == IF attached THEN Append(down, m) ELSE down

\* the turn of the moment asks; a turn asks once
Ask(kind) ==
  /\ turn.state = "idle"
  /\ kind = "zone" => zone = None
  /\ IF Usable(loc)
     THEN /\ turn' = [state |-> "using", kind |-> kind, fix |-> loc]
          /\ UNCHANGED <<pending, down>>
     ELSE \E q \in Req \ Mentioned :
            /\ pending' = q
            /\ turn' = [state |-> "waiting", kind |-> kind, fix |-> NoFix]
            /\ down' = Told([kind |-> "request", req |-> q])
  /\ UNCHANGED <<stops, phoneVars, contVars, attached, up, loc, zone, cleared>>

\* request given up: the turn is aborted, or 22 seconds have passed
GiveUp ==
  /\ turn.state = "waiting"
  /\ pending' = None /\ turn' = Idle
  /\ down' = Told([kind |-> "cancel", req |-> pending])
  /\ UNCHANGED <<stops, phoneVars, contVars, attached, up, loc, zone, cleared>>

\* the route has been answered, or its turn aborted, or no timezone found
TurnEnds ==
  /\ turn.state = "using"
  /\ turn' = Idle
  /\ UNCHANGED <<stops, phoneVars, contVars, linkVars, brokerVars, cleared>>

\* the timezone of the fix the turn was given, whatever came in since
ZoneResolved ==
  /\ turn.state = "using" /\ turn.kind = "zone"
  /\ zone' = turn.fix.place /\ turn' = Idle
  /\ UNCHANGED <<stops, phoneVars, contVars, linkVars, pending, loc, cleared>>

\* what the server's boundary lets pass
Valid(m) == ~m.fix.old

\* the answer to the request of the moment goes to the turn that waits
Accept(m) ==
  /\ m.req # None /\ m.req = pending
  /\ pending' = None /\ loc' = m.fix /\ zone' = None
  /\ turn' = [turn EXCEPT !.state = "using", !.fix = m.fix]

\* a report nobody asked for serves the turns to come
Prime(m) ==
  /\ m.req = None /\ Usable(m.fix)
  /\ loc' = m.fix /\ zone' = None
  /\ UNCHANGED <<pending, turn>>

\* too old, inaccurate, or the answer to a request given up
Ignore(m) ==
  /\ Valid(m) => (IF m.req = None THEN ~Usable(m.fix) ELSE m.req # pending)
  /\ UNCHANGED <<brokerVars, turn>>

ReportHeard ==
  /\ up # << >> /\ Head(up).kind = "report"
  /\ \/ Valid(Head(up)) /\ (Accept(Head(up)) \/ Prime(Head(up)))
     \/ Ignore(Head(up))
  /\ up' = Tail(up)
  /\ UNCHANGED <<stops, phoneVars, contVars, attached, down, cleared>>

FailedHeard ==
  /\ up # << >> /\ Head(up).kind = "failed"
  /\ IF Head(up).req = pending THEN pending' = None /\ turn' = Idle ELSE UNCHANGED <<pending, turn>>
  /\ up' = Tail(up)
  /\ UNCHANGED <<stops, phoneVars, contVars, attached, down, loc, zone, cleared>>

Forget == loc' = NoFix /\ zone' = None

\* a request that waits is not given up by this
ClearHeard ==
  /\ up # << >> /\ Head(up).kind = "clear"
  /\ Forget /\ cleared' = Head(up).fix.era
  /\ up' = Tail(up)
  /\ UNCHANGED <<stops, phoneVars, contVars, attached, down, pending, turn>>

\* the user calls the route off in words, or the memory behind it is withdrawn
ServerClears ==
  /\ loc # NoFix \/ pending # None
  /\ Forget /\ pending' = None
  /\ turn' = IF turn.state = "waiting" THEN Idle ELSE turn
  /\ down' = IF pending = None THEN down ELSE Told([kind |-> "cancel", req |-> pending])
  /\ UNCHANGED <<stops, phoneVars, contVars, attached, up, cleared>>

\* both ends lose the link; the request of the moment is refused, the fix stays
Detach ==
  /\ attached
  /\ attached' = FALSE /\ up' = << >> /\ down' = << >>
  /\ autos' = {[a EXCEPT !.linked = FALSE] : a \in autos}
  /\ pending' = None
  /\ turn' = IF turn.state = "waiting" THEN Idle ELSE turn
  /\ UNCHANGED <<stops, onces, contVars, loc, zone, cleared>>

Attach ==
  /\ ~attached /\ attached' = TRUE
  /\ UNCHANGED <<stops, phoneVars, contVars, up, down, brokerVars, turn, cleared>>

\* two minutes pass
Age ==
  /\ loc # NoFix /\ ~loc.old
  /\ loc' = [loc EXCEPT !.old = TRUE]
  /\ UNCHANGED <<stops, phoneVars, contVars, linkVars, pending, zone, turn, cleared>>

Era == 0..MaxStops
FixNext ==
  \/ LocateOnce \/ RequestHeard \/ CancelHeard \/ StartPressed
  \/ \E era \in Era, c \in BOOLEAN, r \in Readings \union {NoReading} :
       OnceAnswered([era |-> era, current |-> c], r)
  \/ \E a \in autos, r \in Readings \union {NoReading} : AutoAnswered(a, r)
  \/ \E t \in starting, ok \in BOOLEAN : StartAnswered(t, ok)
  \/ \E r \in Readings : Emit(r)
  \/ \E c \in BOOLEAN : StopPressed(c)
  \/ \E ok \in BOOLEAN : StopAnswered(ok)
  \/ \E kind \in Kind : Ask(kind)
  \/ GiveUp \/ TurnEnds \/ ZoneResolved \/ ReportHeard \/ FailedHeard \/ ClearHeard \/ ServerClears
  \/ Detach \/ Attach \/ Age

FixSpec == FixInit /\ [][FixNext]_fixVars
-----------------------------------------------------------------------------
\* After the server has cleared the position for a stop of the user, no fix
\* whose acquisition began before that stop comes back: neither the answer of
\* a call of the phone that could not be aborted, nor a continuous report.
ClearedStaysCleared == loc # NoFix => loc.era >= cleared

\* Whatever a turn is given as the position of the user is accurate to the
\* bar and no older than two minutes, wherever it came from: the phone's
\* answer to this request, an earlier one, or a continuous report.
AskersGetGoodFixes ==
  [][(turn.state # "using" /\ turn'.state = "using") => turn'.fix.sharp /\ ~turn'.fix.old]_fixVars

\* "exact coordinates ... are cleared on stop/disconnect/session exit".
DisconnectClears == ~attached => loc = NoFix

\* The timezone held beside a fix is the timezone of that fix.
ZoneOfNewestFix == (zone # None /\ loc # NoFix) => zone = loc.place
=============================================================================
