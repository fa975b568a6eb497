----------------------------- MODULE AudioCapture -----------------------------
(***************************************************************************)
(* The microphone of the Even client (clients/even/src/audio-controller.ts):*)
(* what the user wants is kept apart from what the host did. Every change  *)
(* of the user's wish, of the connection, of the glasses or of the page    *)
(* appends a reconciliation to a queue whose jobs run one after another;   *)
(* each call of the host may take long, and an epoch tells a job that its  *)
(* reasons are out of date.                                                *)
(***************************************************************************)
EXTENDS Integers, Sequences

CONSTANTS Attempts, \* opens tried by one reconciliation (1 to 3)
          MaxEpoch, \* bound: changes of one behaviour
          MaxQueue  \* bound: jobs waiting at a time

ASSUME AudioAssumption == Attempts \in 1 .. 3 /\ MaxEpoch \in Nat /\ MaxQueue \in Nat

VARIABLES
  desired,  \* desiredValue: the user wants to be heard
  usable,   \* those of "backend", "device" and "page" that are available
  disposed,
  epoch,
  state,    \* stateValue, what the client shows
  reopen,   \* reopenRequired
  audioQueue,    \* jobs that have not begun
  job,      \* [at, epoch, attempt] of the running job
  open,     \* external: the host's microphone is open
  stuck     \* history: the host refused the last close

inputs == <<desired, usable, disposed, epoch>>
host == <<open, stuck>>
audioVars == <<inputs, state, reopen, audioQueue, job, host>>

Parts == {"backend", "device", "page"}
Places == {"none", "closing", "opening", "undoing", "waiting", "disposing"}
States == {"off", "starting", "streaming", "unavailable", "requires_reopen"}
NoAudioJob == [at |-> "none", epoch |-> 0, attempt |-> 0]

AudioInit ==
  /\ desired = FALSE /\ usable = {"device", "page"} /\ disposed = FALSE /\ epoch = 0
  /\ state = "off" /\ reopen = FALSE /\ audioQueue = <<>> /\ job = NoAudioJob
  /\ open = FALSE /\ stuck = FALSE

Available == ~disposed /\ desired /\ usable = Parts

-----------------------------------------------------------------------------
(* Changes.                                                                *)

\* Another epoch, and a reconciliation behind the jobs already queued.
EnqueueAudio(what) ==
  /\ epoch < MaxEpoch /\ Len(audioQueue) < MaxQueue
  /\ epoch' = epoch + 1
  /\ audioQueue' = Append(audioQueue, what)

SetDesired(wish) ==
  /\ ~disposed
  /\ ~(wish /\ reopen)
  /\ desired' = wish
  /\ EnqueueAudio("reconcile")
  /\ UNCHANGED <<usable, disposed, state, reopen, job, host>>

\* Once the host has refused, only a fresh start of the application helps.
WishRefused ==
  /\ ~disposed /\ reopen
  /\ desired' = FALSE /\ state' = "requires_reopen"
  /\ UNCHANGED <<usable, disposed, epoch, reopen, audioQueue, job, host>>

SetAvailable(part, available) ==
  /\ ~disposed
  /\ (part \in usable) # available
  /\ usable' = IF available THEN usable \cup {part} ELSE usable \ {part}
  /\ EnqueueAudio("reconcile")
  /\ UNCHANGED <<desired, disposed, state, reopen, job, host>>

Dispose ==
  /\ ~disposed
  /\ disposed' = TRUE /\ desired' = FALSE
  /\ EnqueueAudio("dispose")
  /\ UNCHANGED <<usable, state, reopen, job, host>>

-----------------------------------------------------------------------------
(* Jobs.                                                                   *)

TakeJob(what) ==
  /\ job.at = "none" /\ audioQueue # <<>> /\ Head(audioQueue) = what
  /\ audioQueue' = Tail(audioQueue)

JobEnds(shown) == job' = NoAudioJob /\ state' = shown

\* The epoch is read when the job begins, not when it was queued.
BeginReconcile ==
  /\ TakeJob("reconcile")
  /\ UNCHANGED <<usable, disposed, epoch, reopen, host>>
  /\ \/ reopen /\ desired' = FALSE /\ JobEnds("requires_reopen")
     \/ /\ ~reopen /\ ~Available /\ state # "off"
        /\ job' = [at |-> "closing", epoch |-> epoch, attempt |-> 0]
        /\ UNCHANGED <<desired, state>>
     \/ ~reopen /\ ~Available /\ state = "off" /\ JobEnds("off") /\ UNCHANGED desired
     \/ ~reopen /\ Available /\ state = "streaming" /\ JobEnds("streaming") /\ UNCHANGED desired
     \/ /\ ~reopen /\ Available /\ state # "streaming"
        /\ job' = [at |-> "opening", epoch |-> epoch, attempt |-> 1]
        /\ state' = "starting"
        /\ UNCHANGED desired

BeginDispose ==
  /\ TakeJob("dispose")
  /\ job' = [at |-> "disposing", epoch |-> epoch, attempt |-> 0]
  /\ UNCHANGED <<inputs, state, reopen, host>>

OutOfDate == job.epoch # epoch \/ ~Available

\* Whether or not the host closed the microphone, the job shows it as off.
HostCloses(ok) ==
  /\ job.at \in {"closing", "undoing", "disposing"}
  /\ open' = (open /\ ~ok) /\ stuck' = (open /\ ~ok)
  /\ reopen' = (reopen /\ job.at # "disposing")
  /\ JobEnds("off")
  /\ UNCHANGED <<inputs, audioQueue>>

\* Mutant: the late open is only not shown.
OpenedUnseen == OutOfDate /\ JobEnds("off") /\ UNCHANGED <<desired, reopen>>

\* An open that comes too late is undone.
OpenedLate ==
  /\ OutOfDate
  /\ job' = [job EXCEPT !.at = "undoing"]
  /\ UNCHANGED <<desired, state, reopen>>

OpenedInTime ==
  /\ ~OutOfDate
  /\ JobEnds("streaming")
  /\ UNCHANGED <<desired, reopen>>

HostOpens ==
  /\ job.at = "opening"
  /\ open' = TRUE /\ stuck' = FALSE
  /\ UNCHANGED <<usable, disposed, epoch, audioQueue>>
  /\ OpenedLate \/ OpenedInTime

\* A plain refusal is final for the life of the process.
HostRefuses ==
  /\ job.at = "opening"
  /\ UNCHANGED <<usable, disposed, epoch, audioQueue, host>>
  /\ IF OutOfDate THEN JobEnds("off") /\ UNCHANGED <<desired, reopen>>
     ELSE desired' = FALSE /\ reopen' = TRUE /\ JobEnds("requires_reopen")

\* The call throws: wait and try again, a few times.
HostFails ==
  /\ job.at = "opening"
  /\ UNCHANGED <<inputs, reopen, audioQueue, host>>
  /\ IF OutOfDate THEN JobEnds("off")
     ELSE IF job.attempt < Attempts
     THEN job' = [job EXCEPT !.at = "waiting"] /\ UNCHANGED state
     ELSE JobEnds("unavailable")

Retry ==
  /\ job.at = "waiting"
  /\ UNCHANGED <<inputs, reopen, audioQueue, host>>
  /\ IF OutOfDate THEN JobEnds("off")
     ELSE job' = [job EXCEPT !.at = "opening", !.attempt = @ + 1] /\ UNCHANGED state

AudioNext ==
  \/ \E wish \in BOOLEAN : SetDesired(wish)
  \/ WishRefused
  \/ \E part \in Parts, available \in BOOLEAN : SetAvailable(part, available)
  \/ Dispose
  \/ BeginReconcile \/ BeginDispose
  \/ \E ok \in BOOLEAN : HostCloses(ok)
  \/ HostOpens \/ HostRefuses \/ HostFails \/ Retry

AudioSpec == AudioInit /\ [][AudioNext]_audioVars

-----------------------------------------------------------------------------
(* Properties.                                                             *)

AudioTypeOK ==
  /\ desired \in BOOLEAN /\ disposed \in BOOLEAN /\ reopen \in BOOLEAN
  /\ open \in BOOLEAN /\ stuck \in BOOLEAN
  /\ usable \subseteq Parts /\ epoch \in 0 .. MaxEpoch /\ state \in States
  /\ audioQueue \in Seq({"reconcile", "dispose"}) /\ Len(audioQueue) <= MaxQueue
  /\ job \in [at : Places, epoch : 0 .. MaxEpoch, attempt : 0 .. Attempts]

\* When every change has been dealt with, the microphone is open exactly if the
\* client shows it streaming, and then the user wants it and connection,
\* glasses and page are there; a wish that can be met has been met or given up
\* with a message. A host that refused to close is the one exception. An open
\* answered late, a wish changed twice during one call and a retry cut short
\* all end here.
SettledAgrees ==
  /\ AudioTypeOK
  /\ (audioQueue = <<>> /\ job = NoAudioJob /\ ~stuck) =>
       /\ open <=> state = "streaming"
       /\ state = "streaming" => Available
       /\ Available => state \in {"streaming", "unavailable"}
=============================================================================
