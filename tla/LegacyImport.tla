---------------------------- MODULE LegacyImport ----------------------------
(***************************************************************************)
(* The import of the dialogues that an earlier program kept as JSON files  *)
(* (src/src/legacy-session-import.ts and importLegacySession of            *)
(* src/src/conversation-store.ts): the command scans the directory, turns  *)
(* each file into a session with topics, turns and messages, and puts it   *)
(* into the store in one transaction, or moves it to quarantine.  It may   *)
(* be stopped anywhere and is run again; the operator changes files while  *)
(* it runs, and retention deletes old sessions.                            *)
(*                                                                         *)
(* The bytes of a file stand for their hash: they contain the session's id *)
(* and two files with the same bytes are the same file.                    *)
(***************************************************************************)
EXTENDS Naturals, Sequences, FiniteSets, SequencesExt

CONSTANTS
    Names,      \* the names of files, each the id of the session in it
    Histories,  \* the dialogues that may be in each file
    MaxTopics,  \* how many topics a session may have (1000)
    NoTurn,     \* no turn, no message
    MaxEdits    \* how often the operator puts a file there (bounds the run)

Roles == {"user", "assistant"}
TopicsOf(h) == {h[i].topic : i \in DOMAIN h}

\* What the parser lets through: messages of the user and of the assistant.
ASSUME ImportAssumption ==
    /\ DOMAIN Histories = Names
    /\ \A f \in Names : \A h \in Histories[f] : h \in Seq([role : Roles, topic : TopicsOf(h)])
    /\ NoTurn \notin Nat
    /\ MaxTopics \in Nat \ {0} /\ MaxEdits \in Nat

\* What may be under a name: a dialogue, or something that is refused, which
\* is moved away unless it is a link or cannot be read.
Refusals == {"INVALID", "SYMLINK"}

Bad(code) == [code |-> code, history |-> <<>>]
Good(h) == [code |-> "OK", history |-> h]
Absent == Bad("ABSENT")

Contents(f) == {Good(h) : h \in Histories[f]} \cup {Bad(c) : c \in Refusals}

VARIABLES
    folder,        \* what is under each name
    quarantine,  \* the names that something was moved away under
    session,     \* the sessions in the store that the import wrote
    ledger,      \* the rows of legacy_session_imports
    run,         \* the command: the names still to be scanned, the bytes read
    failed,      \* history: files that were valid and that the store refused
    imports,     \* history: how often each file was imported, up to twice
    edits        \* how often the operator put a file there

store == <<session, ledger>>
importVars == <<folder, quarantine, store, run, failed, imports, edits>>

-----------------------------------------------------------------------------
(***************************************************************************)
(* From a dialogue to the rows of a session                                *)
(***************************************************************************)

NewTurn(t, i, o) == [topic |-> t, input |-> i, output |-> o,
                     status |-> IF o = NoTurn THEN "interrupted" ELSE "committed"]

Unread == [open |-> NoTurn, turns |-> <<>>, of |-> <<>>]

\* A question always opens a turn.
Asked(acc, topic, i) ==
    LET n == Len(acc.turns) + 1 IN
    [open |-> n, turns |-> Append(acc.turns, NewTurn(topic, i, NoTurn)), of |-> Append(acc.of, n)]

\* An answer goes to the open turn, whatever it was about.
AnsweredAny(acc, topic, i) ==
    IF acc.open = NoTurn
    THEN [open |-> NoTurn, turns |-> Append(acc.turns, NewTurn(topic, NoTurn, i)),
          of |-> Append(acc.of, Len(acc.turns) + 1)]
    ELSE [open |-> NoTurn,
          turns |-> [acc.turns EXCEPT ![acc.open].output = i, ![acc.open].status = "committed"],
          of |-> Append(acc.of, acc.open)]

\* An answer goes to the open turn of its topic, or has a turn of its own.
Answered(acc, topic, i) ==
    IF acc.open = NoTurn \/ acc.turns[acc.open].topic # topic
    THEN [open |-> NoTurn, turns |-> Append(acc.turns, NewTurn(topic, NoTurn, i)),
          of |-> Append(acc.of, Len(acc.turns) + 1)]
    ELSE [open |-> NoTurn,
          turns |-> [acc.turns EXCEPT ![acc.open].output = i, ![acc.open].status = "committed"],
          of |-> Append(acc.of, acc.open)]

\* toImport(): turns, and the turn of each message; a message's sequence
\* number is its place.
ToImport(h) ==
    LET Step(acc, i) == IF h[i].role = "user" THEN Asked(acc, h[i].topic, i)
                                              ELSE Answered(acc, h[i].topic, i)
        read == FoldLeftDomain(Step, Unread, h)
    IN  [turns |-> read.turns, of |-> read.of, messages |-> h]

\* What importLegacySession() demands of the rows before it writes any: each
\* message is the question or the answer of its turn, and of its topic.
Accepted(rows) ==
    LET turn(i) == rows.turns[rows.of[i]] IN
    /\ Cardinality(TopicsOf(rows.messages)) <= MaxTopics
    /\ \A i \in DOMAIN rows.messages :
         /\ turn(i).topic = rows.messages[i].topic
         /\ i = IF rows.messages[i].role = "user" THEN turn(i).input ELSE turn(i).output
    /\ \A k \in DOMAIN rows.turns :
         /\ rows.turns[k].input # NoTurn =>
              rows.of[rows.turns[k].input] = k /\ rows.messages[rows.turns[k].input].role = "user"
         /\ rows.turns[k].output # NoTurn =>
              rows.of[rows.turns[k].output] = k /\ rows.messages[rows.turns[k].output].role = "assistant"

-----------------------------------------------------------------------------
(***************************************************************************)
(* The command and what goes on around it                                  *)
(***************************************************************************)

Idle == [left |-> {}, name |-> NoTurn, bytes |-> Absent]

\* The store may have a session of its own under such an id.
ImportInit ==
    /\ folder = [f \in Names |-> Absent]
    /\ quarantine = {}
    /\ \E own \in SUBSET Names :
         session = [f \in Names |-> IF f \in own THEN Bad("OWN") ELSE Absent]
    /\ ledger = {}
    /\ run = Idle
    /\ failed = {}
    /\ imports = [f \in Names |-> 0]
    /\ edits = 0

\* The operator copies a file there, over another one perhaps.
Place ==
    /\ edits < MaxEdits
    /\ edits' = edits + 1
    /\ \E f \in Names : \E c \in Contents(f) :
         /\ c # folder[f]
         /\ folder' = [folder EXCEPT ![f] = c]
         /\ imports' = [imports EXCEPT ![f] = 0]
    /\ UNCHANGED <<quarantine, store, run, failed>>

\* The command lists the directory.  The order of the names plays no part.
StartRun ==
    /\ run = Idle
    /\ \E f \in Names : folder[f] # Absent
    /\ run' = [Idle EXCEPT !.left = {f \in Names : folder[f] # Absent}]
    /\ UNCHANGED <<folder, quarantine, store, failed, imports, edits>>

\* A file is read at once, under the handle that was checked.
ReadFile ==
    /\ run.name = NoTurn
    /\ \E f \in run.left :
         run' = [left |-> run.left \ {f}, name |-> f, bytes |-> folder[f]]
    /\ UNCHANGED <<folder, quarantine, store, failed, imports, edits>>

Scanned == [run EXCEPT !.name = NoTurn, !.bytes = Absent]

\* quarantine(): whatever is under the name by now is moved, a rename.
MovedAway(f, code) ==
    IF folder[f] = Absent \/ code = "SYMLINK" THEN UNCHANGED <<folder, quarantine>>
    ELSE /\ folder' = [folder EXCEPT ![f] = Absent]
         /\ quarantine' = quarantine \cup {f}

\* The file is gone, or is refused for what it is.
Refuse ==
    /\ run.name # NoTurn /\ run.bytes.code # "OK"
    /\ MovedAway(run.name, run.bytes.code)
    /\ run' = Scanned
    /\ UNCHANGED <<store, failed, imports, edits>>

Row(f, h) == [name |-> f, bytes |-> h]

Dup(f, h) == Row(f, h) \in ledger

Taken(f) == (\E r \in ledger : r.name = f) \/ session[f] # Absent

\* All rows of the session and its row in the ledger, in one transaction.
Import ==
    /\ run.name # NoTurn /\ run.bytes.code = "OK"
    /\ LET f == run.name  h == run.bytes.history IN
       /\ Accepted(ToImport(h)) /\ ~Dup(f, h) /\ ~Taken(f)
       /\ session' = [session EXCEPT ![f] = [code |-> "OK", history |-> ToImport(h)]]
       /\ ledger' = ledger \cup {Row(f, h)}
       /\ imports' = [imports EXCEPT ![f] = IF @ = 2 THEN 2 ELSE @ + 1]
    /\ run' = Scanned
    /\ UNCHANGED <<folder, quarantine, failed, edits>>

\* A row of the ledger with the same hash: nothing is written.
Duplicate ==
    /\ run.name # NoTurn /\ run.bytes.code = "OK"
    /\ Accepted(ToImport(run.bytes.history)) /\ Dup(run.name, run.bytes.history)
    /\ run' = Scanned
    /\ UNCHANGED <<folder, quarantine, store, failed, imports, edits>>

\* The session is there with other bytes, or is not the import's.
Conflict ==
    /\ run.name # NoTurn /\ run.bytes.code = "OK"
    /\ LET f == run.name  h == run.bytes.history IN
       /\ Accepted(ToImport(h)) /\ ~Dup(f, h) /\ Taken(f)
       /\ MovedAway(f, "IMPORT_CONFLICT")
    /\ run' = Scanned
    /\ UNCHANGED <<store, failed, imports, edits>>

\* The rows do not pass: IMPORT_FAILED, and the file stays where it is.
Fail ==
    /\ run.name # NoTurn /\ run.bytes.code = "OK"
    /\ ~Accepted(ToImport(run.bytes.history))
    /\ failed' = failed \cup {Row(run.name, run.bytes.history)}
    /\ run' = Scanned
    /\ UNCHANGED <<folder, quarantine, store, imports, edits>>

\* The list is done, or the command was stopped.
EndRun ==
    /\ run # Idle
    /\ run' = Idle
    /\ UNCHANGED <<folder, quarantine, store, failed, imports, edits>>

\* Retention deletes a session that ended long ago; its row in the ledger
\* goes with it (ON DELETE CASCADE).
Retain ==
    /\ run = Idle
    /\ \E f \in Names :
         /\ session[f] # Absent
         /\ session' = [session EXCEPT ![f] = Absent]
         /\ ledger' = {r \in ledger : r.name # f}
    /\ UNCHANGED <<folder, quarantine, run, failed, imports, edits>>

ImportNext ==
    \/ Place \/ StartRun \/ ReadFile
    \/ Refuse \/ Import \/ Duplicate \/ Conflict \/ Fail \/ EndRun
    \/ Retain

ImportSpec == ImportInit /\ [][ImportNext]_importVars

-----------------------------------------------------------------------------
(***************************************************************************)
(* Properties                                                              *)
(***************************************************************************)

(***************************************************************************)
(* What the parser lets through the store takes: no dialogue, however      *)
(* questions, answers and topics alternate in it, is valid and yet cannot  *)
(* be imported, unless it has too many topics.  And a session is there as  *)
(* a whole with its row in the ledger, or not at all, wherever the command *)
(* was stopped and whatever became of its file                             *)
(* (legacy-session-import.ts:90-143, conversation-store.ts:1141-1207).     *)
(***************************************************************************)
ImportsWhole ==
    /\ \A r \in failed : Cardinality(TopicsOf(r.bytes)) > MaxTopics
    /\ \A f \in Names :
         \/ session[f] \in {Absent, Bad("OWN")} /\ \A r \in ledger : r.name # f
         \/ \E h \in Histories[f] :
              /\ session[f].history = ToImport(h)
              /\ {r \in ledger : r.name = f} = {Row(f, h)}

(***************************************************************************)
(* SESSION_MIGRATION_RETENTION.md:52 says that a repeated run only reports *)
(* a duplicate and does not create the session again.                      *)
(***************************************************************************)
RepeatsCreateNothing == \A f \in Names : imports[f] <= 1

=============================================================================
