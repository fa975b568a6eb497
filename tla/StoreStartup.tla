---------------------------- MODULE StoreStartup ----------------------------
(***************************************************************************)
(* How a process comes to own the data directory and gives it up again:    *)
(* the main program of src/src/conversation-server.ts and the command-line *)
(* tools open the job store and the conversation store                     *)
(* (src/src/conversation-store.ts), bring the schema up to date, claim the *)
(* owner row, interrupt what a dead owner left, serve, and close.          *)
(*                                                                         *)
(* Every transaction is one step: they begin with BEGIN IMMEDIATE.         *)
(***************************************************************************)
EXTENDS Naturals, FiniteSets

CONSTANTS
    Servers,    \* processes that run the service
    Tools,      \* processes that run a maintenance or import command
    Host,       \* the machine each process runs on
    Release,    \* the schema version each process was built for
    Pids,       \* the process ids of a machine
    Answers,    \* answers the service may stream
    Nobody,     \* no process
    MaxStarts   \* how often a process is started (bounds the run)

Procs == Servers \cup Tools

ASSUME StartupAssumption ==
    /\ Servers \cap Tools = {} /\ Nobody \notin Procs
    /\ DOMAIN Host = Procs
    /\ Release \in [Procs -> Nat \ {0}]
    /\ MaxStarts \in Nat

Hosts == {Host[p] : p \in Procs}

VARIABLES
    migrations, \* the rows of schema_migrations: the versions that ran
    owner,      \* the row of service_owner in the conversation store
    jobsOwner,  \* the row of service_owner in the job store
    answer,     \* the status of each assistant message on file
    phase,      \* how far each process has come
    pid,        \* the process id each running process was given
    streams,    \* the answers each process is streaming
    others,     \* the process ids that unrelated programs have, by machine
    starts      \* how often each process was started

disk == <<migrations, owner, jobsOwner, answer>>
startupVars == <<disk, phase, pid, streams, others, starts>>

NoRow == [token |-> Nobody, pid |-> 0, host |-> Nobody]

RowOf(p) == [token |-> p, pid |-> pid[p], host |-> Host[p]]

Phases == {"off", "jobs", "open", "migrated", "claimed", "calendar", "serving", "closing"}

\* The phases in which a process uses the conversation store as its own.
Owning == {"claimed", "calendar", "serving", "closing"}

Owners == {p \in Procs : phase[p] \in Owning}

Running(h) == {p \in Procs : phase[p] # "off" /\ Host[p] = h}

UsedPids(h) == {pid[p] : p \in Running(h)} \cup others[h]

StartupInit ==
    /\ migrations = {}
    /\ owner = NoRow /\ jobsOwner = NoRow
    /\ answer = [a \in Answers |-> "none"]
    /\ phase = [p \in Procs |-> "off"]
    /\ pid = [p \in Procs |-> 0]
    /\ streams = [p \in Procs |-> {}]
    /\ others = [h \in Hosts |-> {}]
    /\ starts = [p \in Procs |-> 0]

\* A process is started under an id that nothing on its machine has.  The
\* service opens the job store first, a tool only the conversation store.
Start(p) ==
    /\ phase[p] = "off" /\ starts[p] < MaxStarts
    /\ starts' = [starts EXCEPT ![p] = @ + 1]
    /\ \E i \in Pids \ UsedPids(Host[p]) : pid' = [pid EXCEPT ![p] = i]
    /\ phase' = [phase EXCEPT ![p] = IF p \in Servers THEN "jobs" ELSE "open"]
    /\ UNCHANGED <<disk, streams, others>>

\* processIsAlive(): any process with the id counts, the asking one included.
Alive(h, i) == i \in UsedPids(h)

\* A claim that asks for the process id and not for the machine.
MayClaimById(p, row) == row = NoRow \/ ~Alive(Host[p], row.pid)

\* claim(): a row of another machine or of a process that lives is respected.
MayClaim(p, row) == row = NoRow \/ (row.host = Host[p] /\ ~Alive(row.host, row.pid))

Stopped(p) ==
    /\ phase' = [phase EXCEPT ![p] = "off"]
    /\ pid' = [pid EXCEPT ![p] = 0]
    /\ streams' = [streams EXCEPT ![p] = {}]

\* JobStore.create(): its own owner row, in its own database.
ClaimJobs(p) ==
    /\ phase[p] = "jobs"
    /\ MayClaim(p, jobsOwner)
    /\ jobsOwner' = RowOf(p)
    /\ phase' = [phase EXCEPT ![p] = "open"]
    /\ UNCHANGED <<migrations, owner, answer, pid, streams, others, starts>>

JobsRefused(p) ==
    /\ phase[p] = "jobs"
    /\ ~MayClaim(p, jobsOwner)
    /\ Stopped(p)
    /\ UNCHANGED <<disk, others, starts>>

\* No migration on file is one that this program does not know.
Knows(p) == migrations \subseteq 1 .. Release[p]

\* The versions whose statements have not run on this database.
Missing(p) == {v \in 1 .. Release[p] : \A w \in migrations : v > w}

\* migrate(): whatever is missing, in one transaction and before the claim.
Migrate(p) ==
    /\ phase[p] = "open"
    /\ Knows(p)
    /\ migrations' = migrations \cup Missing(p)
    /\ phase' = [phase EXCEPT ![p] = "migrated"]
    /\ UNCHANGED <<owner, jobsOwner, answer, pid, streams, others, starts>>

\* The database is newer than this program: it stops.
TooNew(p) ==
    /\ phase[p] = "open"
    /\ ~Knows(p)
    /\ Stopped(p)
    /\ UNCHANGED <<disk, others, starts>>

Claim(p) ==
    /\ phase[p] = "migrated"
    /\ MayClaim(p, owner)
    /\ owner' = RowOf(p)
    /\ phase' = [phase EXCEPT ![p] = "claimed"]
    /\ UNCHANGED <<migrations, jobsOwner, answer, pid, streams, others, starts>>

\* create() closes the database and throws; the program ends.  A server's
\* row in the job store stays behind and names a dead process.
ClaimRefused(p) ==
    /\ phase[p] = "migrated"
    /\ ~MayClaim(p, owner)
    /\ Stopped(p)
    /\ UNCHANGED <<disk, others, starts>>

\* recoverInterrupted(): what is still streaming was left by a dead owner.
Recover(p) ==
    /\ phase[p] = "claimed"
    /\ answer' = [a \in Answers |-> IF answer[a] = "streaming" THEN "interrupted" ELSE answer[a]]
    /\ phase' = [phase EXCEPT ![p] = IF p \in Servers THEN "calendar" ELSE "closing"]
    /\ UNCHANGED <<migrations, owner, jobsOwner, pid, streams, others, starts>>

\* The calendar set-up is read; with one that is invalid, or when the port is
\* taken, the stores are closed again.
Listen(p) ==
    /\ phase[p] = "calendar"
    /\ \E next \in {"serving", "closing"} : phase' = [phase EXCEPT ![p] = next]
    /\ UNCHANGED <<disk, pid, streams, others, starts>>

BeginAnswer(p) ==
    /\ phase[p] = "serving"
    /\ \E a \in Answers :
         /\ answer[a] = "none"
         /\ answer' = [answer EXCEPT ![a] = "streaming"]
         /\ streams' = [streams EXCEPT ![p] = @ \cup {a}]
    /\ UNCHANGED <<migrations, owner, jobsOwner, phase, pid, others, starts>>

EndAnswer(p) ==
    /\ phase[p] = "serving"
    /\ \E a \in streams[p] :
         /\ answer' = [answer EXCEPT ![a] = "committed"]
         /\ streams' = [streams EXCEPT ![p] = @ \ {a}]
    /\ UNCHANGED <<migrations, owner, jobsOwner, phase, pid, others, starts>>

\* A signal, or a rejection nobody handled: shutdown() runs once, and closing
\* the server interrupts every conversation.
Shutdown(p) ==
    /\ phase[p] = "serving"
    /\ answer' = [a \in Answers |-> IF a \in streams[p] THEN "interrupted" ELSE answer[a]]
    /\ streams' = [streams EXCEPT ![p] = {}]
    /\ phase' = [phase EXCEPT ![p] = "closing"]
    /\ UNCHANGED <<migrations, owner, jobsOwner, pid, others, starts>>

\* close(): only a row with the own token is deleted.
Released(p, row) == IF row.token = p THEN NoRow ELSE row

CloseStores(p) ==
    /\ phase[p] = "closing"
    /\ owner' = Released(p, owner)
    /\ jobsOwner' = IF p \in Servers THEN Released(p, jobsOwner) ELSE jobsOwner
    /\ Stopped(p)
    /\ UNCHANGED <<migrations, answer, others, starts>>

\* The process is killed, or the 25 s of a shutdown are over: whatever it has
\* on file stays.
Crash(p) ==
    /\ phase[p] # "off"
    /\ Stopped(p)
    /\ UNCHANGED <<disk, others, starts>>

\* Some other program is given a free process id, or ends.
Elsewhere ==
    /\ \E h \in Hosts, i \in Pids :
         \/ i \notin UsedPids(h) /\ others' = [others EXCEPT ![h] = @ \cup {i}]
         \/ i \in others[h] /\ others' = [others EXCEPT ![h] = @ \ {i}]
    /\ UNCHANGED <<disk, phase, pid, streams, starts>>

StartupNext ==
    \/ \E p \in Procs :
         \/ Start(p) \/ ClaimJobs(p) \/ JobsRefused(p)
         \/ Migrate(p) \/ TooNew(p) \/ Claim(p) \/ ClaimRefused(p) \/ Recover(p)
         \/ Listen(p) \/ BeginAnswer(p) \/ EndAnswer(p)
         \/ Shutdown(p) \/ CloseStores(p) \/ Crash(p)
    \/ Elsewhere

StartupSpec == StartupInit /\ [][StartupNext]_startupVars

-----------------------------------------------------------------------------
(***************************************************************************)
(* Properties                                                              *)
(***************************************************************************)

Statuses == {"none", "streaming", "interrupted", "committed"}

RowsOK == {NoRow} \cup [token : Procs, pid : Pids, host : Hosts]

StartupTypeOK ==
    /\ migrations \subseteq Nat
    /\ owner \in RowsOK /\ jobsOwner \in RowsOK
    /\ answer \in [Answers -> Statuses]
    /\ phase \in [Procs -> Phases]
    /\ \A p \in Procs : phase[p] # "off" => pid[p] \in Pids
    /\ streams \in [Procs -> SUBSET Answers]
    /\ others \in [Hosts -> SUBSET Pids]

(***************************************************************************)
(* One process owns the conversation store at a time, over crashes, reused *)
(* process ids and machines that share the directory: the row on file is   *)
(* its own, and what it streams is not called interrupted by a newcomer    *)
(* (conversation-store.ts:639-674, LINUX_OPERATIONS.md:11).                *)
(***************************************************************************)
OwnsAlone ==
    /\ StartupTypeOK
    /\ \A p \in Owners :
         /\ owner = RowOf(p)
         /\ \A a \in streams[p] : answer[a] = "streaming"

(***************************************************************************)
(* LINUX_OPERATIONS.md:11 says "a second live owner is rejected": a        *)
(* process that is turned away has changed nothing under the one that      *)
(* owns the store, its schema least of all.                                *)
(***************************************************************************)
RejectedTouchesNothing == [][Owners # {} => migrations' = migrations]_startupVars

=============================================================================
