---------------------------- MODULE SpeechCapture ----------------------------
(***************************************************************************)
(* Speech on one connection of the conversation server: the detector that  *)
(* cuts the microphone's frames into segments (src/src/vad.ts), one        *)
(* streaming transcription job per segment (src/src/stt-provider.ts,       *)
(* soniox-transcriber.ts, live-transcriber.ts), and the slots that collect *)
(* the texts until they are submitted as one turn                          *)
(* (src/src/conversation-server.ts).                                       *)
(*                                                                         *)
(* A chunk is some milliseconds of audio; its content is its place in its  *)
(* segment, so that a text is the list of segments it holds with the       *)
(* number of chunks recognised of each. A segment of mere noise has the    *)
(* empty text.                                                             *)
(***************************************************************************)
EXTENDS Integers, Sequences

CONSTANTS MaxSlots,    \* segments that may wait for a text at a time (4)
          MaxChunks,   \* chunks after which the detector ends a segment (60 s)
          MaxSegments, \* bound: segments of one behaviour
          MaxClears    \* bound: times the capture is discarded

ASSUME SpeechAssumption ==
  /\ MaxSlots \in Nat \ {0}
  /\ MaxChunks \in Nat /\ MaxChunks > 1
  /\ MaxSegments \in Nat
  /\ MaxClears \in Nat

VARIABLES
  accepts,    \* conversation.acceptsInput: not paused, leaving or closed
  manual,     \* manualCapture: the client holds a button to speak
  held,       \* the button is down; the 65 s timer runs exactly then
  forced,     \* the waiting texts go out as a finished turn
  generation, \* how often the capture was discarded
  active,     \* detector.active
  duration,   \* chunks the detector counted in the segment
  current,    \* the segment whose job receives audio, 0 if none
  segmentId,  \* the last segment with a job
  slots,      \* [segment, text] in the order the segments began
  jobs,       \* the transcription job of each segment
  spoken,     \* history: the speech captured since the last turn or discard
  submitted   \* history: the text of the spoken turn the last step sent

conversation == <<accepts, manual, held>>
detector == <<active, duration, current>>
speechVars == <<conversation, forced, generation, detector, segmentId, slots, jobs, spoken, submitted>>

Segments == 1 .. MaxSegments
Unknown == -1
Stages == {"none", "reserving", "connecting", "ready", "done", "failed", "reported"}

NoJob == [stage |-> "none", epoch |-> 0, speech |-> FALSE, queued |-> 0, pending |-> 0,
          sent |-> 0, finished |-> FALSE, ended |-> FALSE, cancelled |-> FALSE]

SpeechInit ==
  /\ accepts = TRUE /\ manual = FALSE /\ held = FALSE /\ forced = FALSE
  /\ generation = 0 /\ active = FALSE /\ duration = 0 /\ current = 0 /\ segmentId = 0
  /\ slots = <<>>
  /\ jobs = [s \in Segments |-> NoJob]
  /\ spoken = <<>> /\ submitted = <<>>

-----------------------------------------------------------------------------
(* The job of one segment: the metered wrapper around a provider's stream. *)

Streaming(j) == j.stage \in {"connecting", "ready"}

\* A stream that is ready sends whole packets and holds the rest back until
\* the segment has ended.
FlushAudio(j) ==
  LET rest == IF j.ended \/ j.pending = 0 THEN 0 ELSE 1
  IN  IF j.stage = "ready"
      THEN [j EXCEPT !.sent = @ + j.pending - rest, !.pending = rest]
      ELSE j

InnerPush(j, n) ==
  IF j.ended \/ ~Streaming(j) THEN j ELSE FlushAudio([j EXCEPT !.pending = @ + n])

InnerFinish(j) ==
  IF j.ended \/ ~Streaming(j) THEN j ELSE FlushAudio([j EXCEPT !.ended = TRUE])

\* Until the reservation is granted the wrapper queues the audio itself.
Push(j) ==
  IF j.finished \/ j.cancelled THEN j
  ELSE IF j.stage = "reserving" THEN [j EXCEPT !.queued = @ + 1]
  ELSE InnerPush(j, 1)

Finish(j) ==
  IF j.finished \/ j.cancelled THEN j ELSE InnerFinish([j EXCEPT !.finished = TRUE])

\* A job that has ended keeps what its answer needs.
Settled(j, stage) ==
  [NoJob EXCEPT !.stage = stage, !.epoch = j.epoch, !.speech = j.speech, !.sent = j.sent]
Reported == [NoJob EXCEPT !.stage = "reported"]

\* A job whose text is already on its way cannot be called back.
Cancel(j) ==
  IF Streaming(j) THEN Settled(j, "failed")
  ELSE IF j.stage = "reserving" THEN [j EXCEPT !.cancelled = TRUE, !.queued = 0]
  ELSE j

\* What the wrapper does once the stream exists: the queued audio first, then
\* the end of the segment if it has come meanwhile.
Opened(j) ==
  LET fed == InnerPush([j EXCEPT !.stage = "connecting", !.queued = 0], j.queued)
  IN  IF j.finished THEN InnerFinish(fed) ELSE fed

-----------------------------------------------------------------------------
(* Collecting and submitting.                                              *)

TextOf(j) == IF j.speech THEN j.sent ELSE 0

\* The texts in the order of their segments, empty ones left out.
Joined(ss) ==
  LET kept[i \in 0 .. Len(ss)] ==
        IF i = 0 THEN <<>>
        ELSE IF ss[i].text = 0 THEN kept[i-1] ELSE Append(kept[i-1], ss[i])
  IN  kept[Len(ss)]

\* Mutant: only the newest segment is looked at.
NewestWaiting(ss) == ss # <<>> /\ ss[Len(ss)].text = Unknown

TextMissing(ss) == \E i \in DOMAIN ss : ss[i].text = Unknown

\* flush(): nothing goes out while the button is down, somebody speaks, input
\* is refused or a text is still missing.
Flush(ss, f) ==
  IF held' \/ active' \/ ~accepts' \/ TextMissing(ss)
  THEN slots' = ss /\ forced' = f /\ UNCHANGED spoken /\ submitted' = <<>>
  ELSE /\ slots' = <<>> /\ forced' = FALSE /\ spoken' = <<>>
       /\ submitted' = Joined(ss)

\* clearCapture(): everything captured is discarded, the jobs of the slots are
\* cancelled and what they still answer belongs to an older generation.
ClearCapture ==
  /\ generation < MaxClears /\ generation' = generation + 1
  /\ active' = FALSE /\ duration' = 0 /\ current' = 0 /\ forced' = FALSE
  /\ jobs' = [s \in Segments |-> IF \E i \in DOMAIN slots : slots[i].segment = s
                                 THEN Cancel(jobs[s]) ELSE jobs[s]]
  /\ slots' = <<>> /\ spoken' = <<>> /\ submitted' = <<>>
  /\ UNCHANGED segmentId

EndSegment ==
  /\ active' = FALSE /\ duration' = 0 /\ current' = 0
  /\ jobs' = IF current = 0 THEN jobs ELSE [jobs EXCEPT ![current] = Finish(@)]

-----------------------------------------------------------------------------
(* Frames of the microphone.                                               *)

Heard == accepts /\ (~manual \/ held)

\* The first frame of a held button, or the one that confirms the onset of
\* speech: a job is opened and receives the frames kept from before.
StartSegment(speech) ==
  LET s == segmentId + 1 IN
  /\ Heard /\ ~active /\ Len(slots) < MaxSlots /\ segmentId < MaxSegments
  /\ active' = TRUE /\ duration' = 1 /\ current' = s /\ segmentId' = s
  /\ jobs' = [jobs EXCEPT ![s] =
       Push([NoJob EXCEPT !.stage = "reserving", !.epoch = generation, !.speech = speech])]
  /\ slots' = Append(slots, [segment |-> s, text |-> Unknown])
  /\ spoken' = IF speech THEN Append(spoken, [segment |-> s, text |-> 1]) ELSE spoken
  /\ UNCHANGED <<conversation, forced, generation>>
  /\ submitted' = <<>>

\* TRANSCRIPTION_BACKLOG: no job is opened and the conversation is paused.
Backlog ==
  /\ Heard /\ ~active /\ Len(slots) >= MaxSlots
  /\ active' = TRUE /\ duration' = 1 /\ accepts' = FALSE
  /\ UNCHANGED <<manual, held, forced, generation, current, segmentId, slots, jobs, spoken>>
  /\ submitted' = <<>>

\* One more chunk for the open job; the detector ends a segment that is too long.
NextChunk ==
  LET fed == IF current = 0 THEN jobs ELSE [jobs EXCEPT ![current] = Push(@)]
  IN
  /\ Heard /\ active
  /\ spoken' = [i \in DOMAIN spoken |-> IF spoken[i].segment = current
                                        THEN [spoken[i] EXCEPT !.text = @ + 1] ELSE spoken[i]]
  /\ IF duration + 1 < MaxChunks
     THEN duration' = duration + 1 /\ jobs' = fed /\ UNCHANGED <<active, current>>
     ELSE /\ active' = FALSE /\ duration' = 0 /\ current' = 0
          /\ jobs' = IF current = 0 THEN fed ELSE [fed EXCEPT ![current] = Finish(@)]
  /\ UNCHANGED <<conversation, forced, generation, segmentId, slots>>
  /\ submitted' = <<>>

\* 1.2 s of silence end a segment that no button holds open.
Silence ==
  /\ Heard /\ active /\ ~held
  /\ EndSegment
  /\ UNCHANGED <<conversation, forced, generation, segmentId, slots, spoken>>
  /\ submitted' = <<>>

-----------------------------------------------------------------------------
(* Messages of the client.                                                 *)

TurnBegin ==
  /\ accepts /\ ~held
  /\ ClearCapture
  /\ manual' = TRUE /\ held' = TRUE
  /\ UNCHANGED accepts

\* turn.submit: the button is released, or the user says "that is all".
TurnSubmit ==
  /\ accepts /\ (manual => held)
  /\ held' = FALSE /\ UNCHANGED <<accepts, manual>>
  /\ IF manual /\ slots = <<>> THEN ClearCapture
     ELSE /\ IF active
             THEN /\ EndSegment /\ forced' = TRUE
                  /\ UNCHANGED <<slots, spoken>> /\ submitted' = <<>>
             ELSE UNCHANGED <<detector, jobs>> /\ Flush(slots, TRUE)
          /\ UNCHANGED <<generation, segmentId>>

\* text.submit and answer.retry start a turn of another kind.
OtherTurn ==
  /\ accepts
  /\ ClearCapture
  /\ held' = FALSE /\ UNCHANGED <<accepts, manual>>

\* A lost release never leaves a job open: after 65 s the capture is discarded.
HoldTimeout ==
  /\ held
  /\ ClearCapture
  /\ held' = FALSE /\ accepts' = FALSE /\ UNCHANGED manual

\* A pause by the client or after long idleness, or an exit being confirmed:
\* what was captured stays.
Pause ==
  /\ accepts /\ accepts' = FALSE
  /\ UNCHANGED <<manual, held, forced, generation, detector, segmentId, slots, jobs, spoken>>
  /\ submitted' = <<>>

Resume ==
  /\ ~accepts /\ accepts' = TRUE
  /\ UNCHANGED <<manual, held, forced, generation, detector, segmentId, slots, jobs, spoken>>
  /\ submitted' = <<>>

-----------------------------------------------------------------------------
(* The transcription jobs.                                                 *)

capture == <<conversation, forced, generation, detector, segmentId, slots, spoken>>

\* The monthly budget grants the reservation; a job cancelled by then fails.
Reserve(s) ==
  /\ jobs[s].stage = "reserving"
  /\ jobs' = [jobs EXCEPT ![s] = IF @.cancelled THEN Settled(@, "failed") ELSE Opened(@)]
  /\ UNCHANGED capture /\ submitted' = <<>>

\* The stream is open: the audio kept during the handshake is sent.
Ready(s) ==
  /\ jobs[s].stage = "connecting"
  /\ jobs' = [jobs EXCEPT ![s] = FlushAudio([@ EXCEPT !.stage = "ready"])]
  /\ UNCHANGED capture /\ submitted' = <<>>

\* The provider answers the end of the segment with the text of what it was sent.
Complete(s) ==
  /\ jobs[s].stage = "ready" /\ jobs[s].ended
  /\ jobs' = [jobs EXCEPT ![s] = Settled(@, "done")]
  /\ UNCHANGED capture /\ submitted' = <<>>

\* The reservation is refused, the stream breaks, a timer of the job ends it,
\* or its cost cannot be recorded.
JobFails(s) ==
  /\ jobs[s].stage \in {"reserving", "connecting", "ready", "done"}
  /\ jobs' = [jobs EXCEPT ![s] = Settled(@, "failed")]
  /\ UNCHANGED capture /\ submitted' = <<>>

Filled(s) ==
  [i \in DOMAIN slots |-> IF slots[i].segment = s THEN [slots[i] EXCEPT !.text = TextOf(jobs[s])]
                          ELSE slots[i]]

\* Mutant: a text is only filed.
DeliverQuietly(s) ==
  /\ jobs[s].stage = "done"
  /\ jobs' = [jobs EXCEPT ![s] = Reported]
  /\ slots' = IF jobs[s].epoch = generation THEN Filled(s) ELSE slots
  /\ UNCHANGED <<conversation, forced, generation, detector, segmentId, spoken>>
  /\ submitted' = <<>>

\* The text reaches its slot, unless the capture was discarded meanwhile.
Deliver(s) ==
  /\ jobs[s].stage = "done"
  /\ jobs' = [jobs EXCEPT ![s] = Reported]
  /\ UNCHANGED <<conversation, generation, detector, segmentId>>
  /\ IF jobs[s].epoch = generation THEN Flush(Filled(s), forced)
     ELSE UNCHANGED <<slots, forced, spoken>> /\ submitted' = <<>>

\* TRANSCRIPTION_FAILED: the conversation is paused and the slot stays.
Report(s) ==
  /\ jobs[s].stage = "failed"
  /\ jobs' = [jobs EXCEPT ![s] = Reported]
  /\ accepts' = (accepts /\ jobs[s].epoch # generation)
  /\ UNCHANGED <<manual, held, forced, generation, detector, segmentId, slots, spoken>>
  /\ submitted' = <<>>

JobStep(s) == Reserve(s) \/ Ready(s) \/ Complete(s) \/ JobFails(s) \/ Deliver(s) \/ Report(s)

SpeechNext ==
  \/ \E speech \in BOOLEAN : StartSegment(speech)
  \/ Backlog \/ NextChunk \/ Silence
  \/ TurnBegin \/ TurnSubmit \/ OtherTurn \/ HoldTimeout \/ Pause \/ Resume
  \/ \E s \in Segments : JobStep(s)

\* Timers bound every stage of a job, and its answer is a pending microtask.
SpeechFairness == \A s \in Segments : WF_speechVars(JobStep(s))

SpeechSpec == SpeechInit /\ [][SpeechNext]_speechVars /\ SpeechFairness

-----------------------------------------------------------------------------
(* Properties.                                                             *)

\* The slots are emptied without a discard only by a turn that holds exactly
\* the speech captured since the last one: every segment, in the order spoken,
\* with every chunk, whichever job was opened, ready or answered first, and
\* however the end of a segment fell between reservation, handshake and answer.
SubmittedWhole ==
  [][slots # <<>> /\ slots' = <<>> /\ generation' = generation => submitted' = spoken]_speechVars

AnswersToCome ==
  /\ TextMissing(slots)
  /\ \A i \in DOMAIN slots : slots[i].text = Unknown => jobs[slots[i].segment].stage # "reported"

\* A button that was released with texts still to come is answered: the turn
\* goes out, the capture is discarded, or the conversation is paused, with an
\* error if a job failed. It is never left listening with the texts in hand.
ReleaseSettles == (manual /\ forced /\ accepts /\ AnswersToCome) ~> (~forced \/ ~accepts)

\* What the browser client tells the user after an error of transcription: the
\* conversation is paused and may be resumed (src/web/app.js:254). A text that
\* then arrives while the conversation listens and nobody speaks does not wait
\* for ever.
ResumeRecovers ==
  (accepts /\ ~active /\ ~held /\ \E i \in DOMAIN slots : jobs[slots[i].segment].stage = "done")
    ~> (~accepts \/ active \/ held \/ slots = <<>>)
=============================================================================
