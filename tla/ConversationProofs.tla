-------------------------- MODULE ConversationProofs --------------------------
(***************************************************************************)
(* A conversation and the jobs that summarise it, for any messages,        *)
(* sessions, limits, faults of the store and number of restarts.           *)
(***************************************************************************)
EXTENDS ConversationTurns, SummaryJobs, FiniteSetTheorems, WellFoundedInduction, TLAPS

-----------------------------------------------------------------------------
(***************************************************************************)
(* Proofs about one conversation and its rows, for any messages, limits    *)
(* and faults of the store.                                                *)
(*                                                                         *)
(* The invariant has four parts: the numbering of the messages; the run    *)
(* that is current, and what the mode says of it; the one row that may     *)
(* stream; and the model's context, entry by entry, beside the rows.  A    *)
(* late run is harmless because it is not current, and it cannot become    *)
(* current again because every cancellation spends a revision.             *)
(***************************************************************************)

USE ParametersAreSane

-----------------------------------------------------------------------------
(* The inductive invariant.                                                *)

\* At most one execution of submit() is current, and the mode says how far it
\* has come; nothing is current once the user stopped the conversation.
RunsOk ==
  /\ \A r \in runs : r.rev \in 1..revision
  /\ \A r, q \in runs : Current(r) /\ Current(q) => r = q
  /\ \A r \in runs : Current(r) =>
       \/ r.phase = "plan" /\ mode = "thinking" /\ durable = 0
       \/ r.phase = "reply" /\ mode = "answering" /\ durable # 0
  /\ BusyHasRun
  /\ session = "ended" => mode = "closed"

\* How far the store came with the answer of a turn.
RowOk(row) ==
  \/ row.answer = "none" /\ row.answerSeq = 0 /\ row.status \in {"accepted", "interrupted"}
  \/ row.answer = "streaming" /\ row.status = "answering" /\ row.answerSeq = row.userSeq + 1
  \/ row.answer \in {"committed", "interrupted"} /\ row.status = row.answer /\ row.answerSeq = row.userSeq + 1

\* The one row that may stream is the conversation's durable answer, and its
\* question was asked after what was forgotten.
OpenOk ==
  /\ \A t \in DOMAIN turns : RowOk(turns[t])
  /\ durable # 0 => /\ mode = "answering" /\ responseId = revision /\ revision # 0
                    /\ turns[durable].answer = "streaming" /\ turns[durable].userSeq > forgotten
  /\ durable = 0 => responseId = 0 /\ ~partial
  /\ \A t \in DOMAIN turns : turns[t].answer = "streaming" => t = durable

\* The number of an entry's message.
NumberOf(rows, e) == IF e.role = "user" THEN rows[e.turn].userSeq ELSE rows[e.turn].answerSeq

\* An entry of the model's context beside the rows.
EntryOk(rows, f, e) ==
  /\ e.turn \in DOMAIN rows
  /\ e.role = "user" => e.status = "committed"
  /\ e.role = "assistant" => rows[e.turn].answer \in {"committed", "interrupted"}
  /\ e.status = "interrupted" => rows[e.turn].answer = "interrupted"
  /\ NumberOf(rows, e) > f

\* No entry is there twice.
Distinct(entries) == \A i, j \in DOMAIN entries : entries[i] = entries[j] => i = j

\* The whole context: true entries, each of them once.
ContextOk(entries, rows, f) ==
  /\ entries \in Seq(Entry)
  /\ \A i \in DOMAIN entries : EntryOk(rows, f, entries[i])
  /\ Distinct(entries)

\* What every step keeps.
TurnInv ==
  /\ TurnTypeOK /\ SequenceDense /\ forgotten <= latest
  /\ RunsOk /\ OpenOk /\ ContextOk(history, turns, forgotten)

-----------------------------------------------------------------------------
(* boundMemoryHistory: a filter that keeps the order.                      *)

\* Different places have different ranks, and every rank is taken.
LEMMA RankOnto ==
  ASSUME NEW S, IsFiniteSet(S), S \subseteq Int
  PROVE  /\ Cardinality(S) \in Nat
         /\ \A i, j \in S : Rank(S, i) = Rank(S, j) => i = j
         /\ \A n \in 1..Cardinality(S) : \E i \in S : Rank(S, i) = n
<1> DEFINE Below(i) == {p \in S : p <= i}
           f == [i \in S |-> Rank(S, i)]
<1>1. Cardinality(S) \in Nat BY FS_CardinalityType
<1>2. ASSUME NEW i \in S
      PROVE  IsFiniteSet(Below(i)) /\ Rank(S, i) = Cardinality(Below(i)) /\ Rank(S, i) \in 1..Cardinality(S)
  <2>1. IsFiniteSet(Below(i)) /\ Cardinality(Below(i)) <= Cardinality(S)
    <3>1. Below(i) \in SUBSET S OBVIOUS
    <3> HIDE DEF Below
    <3> QED BY <3>1, FS_Subset
  <2>2. i \in Below(i) BY <1>2
  <2>3. Rank(S, i) = Cardinality(Below(i)) BY DEF Rank
  <2> HIDE DEF Below
  <2>4. Cardinality(Below(i)) \in Nat /\ Cardinality(Below(i)) # 0
    BY <2>1, <2>2, FS_CardinalityType, FS_EmptySet
  <2> QED BY <1>1, <2>1, <2>3, <2>4
<1>3. ASSUME NEW i \in S, NEW j \in S, i < j PROVE Rank(S, i) # Rank(S, j)
  <2>1. \A p \in S : p <= i => p <= j BY <1>3
  <2>2. i \in Int /\ j \in Int BY <1>3
  <2>3. Below(i) \in SUBSET Below(j) BY <2>1
  <2>4. j \in Below(j) /\ j \notin Below(i) BY <1>3, <2>2
  <2>5. IsFiniteSet(Below(j)) /\ Rank(S, i) = Cardinality(Below(i)) /\ Rank(S, j) = Cardinality(Below(j)) BY <1>2
  <2> HIDE DEF Below
  <2> QED BY <2>3, <2>4, <2>5, FS_Subset
<1>4. \A i, j \in S : Rank(S, i) = Rank(S, j) => i = j BY <1>3
<1>5. f \in Injection(S, 1..Cardinality(S))
  <2>1. f \in [S -> 1..Cardinality(S)] BY <1>2
  <2>2. \A a, b \in S : f[a] = f[b] => a = b BY <1>4
  <2> DEFINE T == 1..Cardinality(S)
  <2>3. f \in [S -> T] BY <2>1
  <2> HIDE DEF f, T
  <2>4. f \in Injection(S, T) BY <2>2, <2>3 DEF Injection, IsInjective
  <2> QED BY <2>4 DEF T
<1>6. IsFiniteSet(1..Cardinality(S)) /\ Cardinality(1..Cardinality(S)) = Cardinality(S)
  BY <1>1, FS_Interval
<1>7. f \in Surjection(S, 1..Cardinality(S))
  <2> HIDE DEF f
  <2> QED BY <1>5, <1>6, FS_Injection
<1>8. \A n \in 1..Cardinality(S) : \E i \in S : f[i] = n
  <2> HIDE DEF f
  <2> QED BY <1>7 DEF Surjection
<1> QED BY <1>1, <1>4, <1>8

\* What is kept was there before, once, and was not fed by what is forgotten.
LEMMA BoundedPicks ==
  ASSUME NEW entries \in Seq(Entry)
  PROVE  /\ Bounded(entries) \in Seq(Entry)
         /\ \A n \in DOMAIN Bounded(entries) : \E i \in DOMAIN entries :
              /\ Bounded(entries)[n] = entries[i]
              /\ forgotten = NeverForgotten \/ (TurnFloor # 0 /\ SequenceOf(entries[i]) >= TurnFloor)
         /\ Distinct(entries) => Distinct(Bounded(entries))
<1>1. CASE forgotten = NeverForgotten BY <1>1 DEF Bounded
<1>2. CASE forgotten # NeverForgotten
  <2> DEFINE kept == {i \in DOMAIN entries : TurnFloor # 0 /\ SequenceOf(entries[i]) >= TurnFloor}
             at(n) == CHOOSE i \in kept : Rank(kept, i) = n
  <2>1. Bounded(entries) = [n \in 1..Cardinality(kept) |-> entries[at(n)]] BY <1>2 DEF Bounded
  <2>2. kept \subseteq Int /\ kept \in SUBSET (1..Len(entries)) /\ Len(entries) \in Nat OBVIOUS
  <2>3. IsFiniteSet(kept)
    <3>1. IsFiniteSet(1..Len(entries)) BY <2>2, FS_Interval
    <3> HIDE DEF kept
    <3> QED BY <2>2, <3>1, FS_Subset
  <2>4. /\ Cardinality(kept) \in Nat
        /\ \A n \in 1..Cardinality(kept) : at(n) \in kept /\ Rank(kept, at(n)) = n
    <3> HIDE DEF kept
    <3>1. Cardinality(kept) \in Nat /\ \A n \in 1..Cardinality(kept) : \E i \in kept : Rank(kept, i) = n
      BY <2>2, <2>3, RankOnto
    <3> QED BY <3>1
  <2>5. \A i \in kept : i \in DOMAIN entries /\ TurnFloor # 0 /\ SequenceOf(entries[i]) >= TurnFloor OBVIOUS
  <2> HIDE DEF kept, at
  <2>6. \A i \in DOMAIN entries : entries[i] \in Entry OBVIOUS
  <2>7. Bounded(entries) \in Seq(Entry) /\ DOMAIN Bounded(entries) = 1..Cardinality(kept)
    BY <2>1, <2>4, <2>5, <2>6
  <2>8. \A n \in 1..Cardinality(kept) : Bounded(entries)[n] = entries[at(n)] BY <2>1
  <2>9. ASSUME Distinct(entries), NEW m \in 1..Cardinality(kept), NEW n \in 1..Cardinality(kept),
               Bounded(entries)[m] = Bounded(entries)[n]
        PROVE  m = n
    <3>1. at(m) = at(n) BY <2>4, <2>5, <2>8, <2>9 DEF Distinct
    <3> QED BY <2>4, <2>9, <3>1
  <2> QED BY <2>4, <2>5, <2>7, <2>8, <2>9 DEF Distinct
<1> QED BY <1>1, <1>2

-----------------------------------------------------------------------------
(* The rows.                                                               *)

\* What an operation of the store may do to the rows that are there: numbers
\* stay, and so does a turn whose answer is settled.
Follows(rows) ==
  /\ rows \in Seq(Turn) /\ Len(turns) <= Len(rows)
  /\ \A t \in DOMAIN turns :
       /\ rows[t].userSeq = turns[t].userSeq /\ rows[t].answerSeq = turns[t].answerSeq
       /\ rows[t].answer = "none" <=> turns[t].answer = "none"
       /\ turns[t].answer \in {"committed", "interrupted"} => rows[t] = turns[t]

\* Rewriting rows leaves the messages numbered without a gap.
LEMMA DenseKept ==
  ASSUME TurnTypeOK, SequenceDense, Follows(turns'), Len(turns') = Len(turns), latest' = latest
  PROVE  SequenceDense'
<1>1. DOMAIN turns' = DOMAIN turns BY DEF Follows, TurnTypeOK
<1>2. /\ {turns'[t].userSeq : t \in DOMAIN turns'} = {turns[t].userSeq : t \in DOMAIN turns}
      /\ {t \in DOMAIN turns' : turns'[t].answer # "none"} = {t \in DOMAIN turns : turns[t].answer # "none"}
  BY <1>1 DEF Follows
<1>3. {turns'[t].answerSeq : t \in {u \in DOMAIN turns' : turns'[u].answer # "none"}}
        = {turns[t].answerSeq : t \in {u \in DOMAIN turns : turns[u].answer # "none"}}
  BY <1>1, <1>2 DEF Follows
<1> QED BY <1>1, <1>2, <1>3 DEF SequenceDense

\* A new turn takes the next number, or the next two.
LEMMA DenseAppended ==
  ASSUME TurnTypeOK, SequenceDense, NEW rows, Follows(rows), Len(rows) = Len(turns), NEW row \in Turn,
         turns' = Append(rows, row), row.userSeq = latest + 1,
         \/ row.answer = "none" /\ latest' = latest + 1
         \/ row.answer # "none" /\ row.answerSeq = latest + 2 /\ latest' = latest + 2
  PROVE  SequenceDense'
<1> DEFINE n == Len(turns) + 1
           Q == {turns[t].userSeq : t \in DOMAIN turns}
           D == {t \in DOMAIN turns : turns[t].answer # "none"}
           A == {turns[t].answerSeq : t \in D}
           Q2 == {turns'[t].userSeq : t \in DOMAIN turns'}
           D2 == {t \in DOMAIN turns' : turns'[t].answer # "none"}
           A2 == {turns'[t].answerSeq : t \in D2}
<1>0. latest \in Nat /\ Len(turns) \in Nat /\ rows \in Seq(Turn) /\ DOMAIN turns = 1..Len(turns)
  BY DEF TurnTypeOK, Follows
<1>1. DOMAIN turns' = DOMAIN turns \cup {n} /\ n \notin DOMAIN turns /\ Len(turns') = Len(turns) + 1
  BY <1>0
<1>2. turns'[n] = row /\ \A t \in DOMAIN turns : turns'[t] = rows[t]
  BY <1>0
<1>3. \A t \in DOMAIN turns : /\ turns'[t].userSeq = turns[t].userSeq /\ turns'[t].answerSeq = turns[t].answerSeq
                              /\ turns'[t].answer = "none" <=> turns[t].answer = "none"
  BY <1>2 DEF Follows
<1>4. Q2 = Q \cup {latest + 1} BY <1>1, <1>2, <1>3
<1>5. D2 = IF row.answer = "none" THEN D ELSE D \cup {n} BY <1>1, <1>2, <1>3
<1>6. A2 = IF row.answer = "none" THEN A ELSE A \cup {row.answerSeq} BY <1>1, <1>2, <1>3, <1>5
<1>7. Q \cup A = 1..latest /\ Cardinality(D) + Len(turns) = latest BY DEF SequenceDense
<1>8. IsFiniteSet(D) /\ Cardinality(D) \in Nat /\ n \notin D
  <2>1. D \in SUBSET (1..Len(turns)) BY <1>0
  <2>2. IsFiniteSet(1..Len(turns)) BY <1>0, FS_Interval
  <2>3. n \notin D BY <1>1
  <2> HIDE DEF D
  <2> QED BY <2>1, <2>2, <2>3, FS_Subset, FS_CardinalityType
<1>9. Cardinality(D \cup {n}) = Cardinality(D) + 1
  <2> HIDE DEF D, n
  <2> QED BY <1>8, FS_AddElement
<1> HIDE DEF Q, D, A, Q2, D2, A2, n
<1>10. Q2 \cup A2 = 1..latest' /\ Cardinality(D2) + Len(turns') = latest'
  <2>1. CASE row.answer = "none"
    <3>1. latest' = latest + 1 /\ A2 = A /\ D2 = D BY <2>1, <1>5, <1>6
    <3>2. 1..(latest + 1) = (1..latest) \cup {latest + 1} BY <1>0
    <3> QED BY <1>0, <1>1, <1>4, <1>7, <1>8, <3>1, <3>2
  <2>2. CASE row.answer # "none"
    <3>1. latest' = latest + 2 /\ A2 = A \cup {latest + 2} /\ D2 = D \cup {n} BY <2>2, <1>5, <1>6
    <3>2. 1..(latest + 2) = (1..latest) \cup {latest + 1, latest + 2} BY <1>0
    <3> QED BY <1>0, <1>1, <1>4, <1>7, <1>8, <1>9, <3>1, <3>2
  <2> QED BY <2>1, <2>2
<1> QED BY <1>10 DEF SequenceDense, Q2, D2, A2

\* cancel() interrupts the open answer, so that no row streams.
LEMMA CancelledFacts ==
  ASSUME TurnTypeOK, OpenOk
  PROVE  /\ Follows(CancelledRows) /\ Len(CancelledRows) = Len(turns)
         /\ \A t \in DOMAIN turns : RowOk(CancelledRows[t]) /\ CancelledRows[t].answer # "streaming"
         /\ durable # 0 => /\ OpenAnswer /\ durable \in DOMAIN turns
                           /\ CancelledRows[durable].answer = "interrupted"
<1>1. CASE durable = 0
  <2>1. CancelledRows = turns BY <1>1 DEF CancelledRows, OpenAnswer
  <2> QED BY <1>1, <2>1 DEF Follows, TurnTypeOK, OpenOk
<1>2. CASE durable # 0
  <2>1. OpenAnswer /\ durable \in DOMAIN turns /\ turns \in Seq(Turn) BY <1>2 DEF OpenOk, OpenAnswer, TurnTypeOK
  <2>2. turns[durable] \in Turn /\ turns[durable].answer = "streaming" /\ RowOk(turns[durable])
    BY <1>2, <2>1 DEF OpenOk
  <2> DEFINE row == [turns[durable] EXCEPT !.status = "interrupted", !.answer = "interrupted"]
  <2>3. Interrupted(turns[durable]) = row BY <2>2 DEF Interrupted, RowOk
  <2>4. row \in Turn /\ row.answer = "interrupted" /\ RowOk(row)
        /\ row.userSeq = turns[durable].userSeq /\ row.answerSeq = turns[durable].answerSeq
    BY <2>2 DEF Turn, RowOk
  <2> HIDE DEF row
  <2>5. CancelledRows = [turns EXCEPT ![durable] = row] BY <2>1, <2>3 DEF CancelledRows
  <2>6. CancelledRows \in Seq(Turn) /\ Len(CancelledRows) = Len(turns) BY <2>1, <2>4, <2>5
  <2>7. \A t \in DOMAIN turns : CancelledRows[t] = IF t = durable THEN row ELSE turns[t] BY <2>1, <2>5
  <2> QED BY <2>1, <2>2, <2>4, <2>6, <2>7 DEF Follows, OpenOk, RowOk
<1> QED BY <1>1, <1>2

-----------------------------------------------------------------------------
(* The model's context.                                                    *)

\* What the store does to the rows leaves the context true.
LEMMA ContextKept ==
  ASSUME TurnTypeOK, NEW h, NEW f, ContextOk(h, turns, f), NEW rows, Follows(rows)
  PROVE  ContextOk(h, rows, f)
<1>1. DOMAIN turns \subseteq DOMAIN rows BY DEF Follows, TurnTypeOK
<1>2. ASSUME NEW i \in DOMAIN h PROVE EntryOk(rows, f, h[i])
  <2>1. h[i] \in Entry /\ EntryOk(turns, f, h[i]) BY DEF ContextOk
  <2>2. h[i].turn \in DOMAIN turns BY <2>1 DEF EntryOk
  <2>3. NumberOf(rows, h[i]) = NumberOf(turns, h[i]) BY <2>2 DEF Follows, NumberOf
  <2> QED BY <1>1, <2>1, <2>2, <2>3 DEF Follows, EntryOk, Entry
<1> QED BY <1>2 DEF ContextOk

\* A new entry.
LEMMA ContextAppended ==
  ASSUME NEW rows, NEW h, NEW f, ContextOk(h, rows, f), NEW e \in Entry, EntryOk(rows, f, e),
         \A i \in DOMAIN h : h[i] # e
  PROVE  ContextOk(Append(h, e), rows, f)
<1>1. h \in Seq(Entry) /\ Append(h, e) \in Seq(Entry) /\ Len(h) \in Nat BY DEF ContextOk
<1>2. \A i \in DOMAIN Append(h, e) : \/ i \in DOMAIN h /\ Append(h, e)[i] = h[i]
                                     \/ i = Len(h) + 1 /\ i \notin DOMAIN h /\ Append(h, e)[i] = e
  BY <1>1
<1> QED BY <1>1, <1>2 DEF ContextOk, Distinct

\* Filtering what was forgotten leaves the context true.
LEMMA ContextBounded ==
  ASSUME NEW rows, NEW h, NEW f, ContextOk(h, rows, f)
  PROVE  ContextOk(Bounded(h), rows, f)
<1>1. h \in Seq(Entry) BY DEF ContextOk
<1> QED BY <1>1, BoundedPicks DEF ContextOk

\* What was produced of an answer that is cut off enters the context once.
LEMMA CancelContext ==
  ASSUME TurnInv
  PROVE  ContextOk(CancelledHistory(history), CancelledRows, forgotten)
<1>1. TurnTypeOK /\ OpenOk /\ ContextOk(history, turns, forgotten) BY DEF TurnInv
<1>2. ContextOk(history, CancelledRows, forgotten) BY <1>1, CancelledFacts, ContextKept
<1>3. CASE OpenAnswer /\ partial
  <2> DEFINE e == Answered(durable, "interrupted")
  <2>1. durable # 0 /\ durable \in DOMAIN turns BY <1>1, <1>3 DEF OpenAnswer, TurnTypeOK
  <2>2. e \in Entry BY <1>1, <2>1 DEF Answered, Entry, TurnTypeOK
  <2>3. EntryOk(CancelledRows, forgotten, e)
    <3>1. /\ CancelledRows[durable].answer = "interrupted" /\ durable \in DOMAIN CancelledRows
          /\ CancelledRows[durable].answerSeq = turns[durable].answerSeq
      BY <1>1, <2>1, CancelledFacts DEF Follows, TurnTypeOK
    <3>2. turns[durable].answerSeq > forgotten
      <4>1. turns[durable] \in Turn /\ forgotten \in Int BY <1>1, <2>1 DEF TurnTypeOK, NeverForgotten
      <4> QED BY <1>1, <2>1, <4>1 DEF OpenOk, RowOk, Turn
    <3> QED BY <2>1, <3>1, <3>2 DEF EntryOk, NumberOf, Answered
  <2>4. \A i \in DOMAIN history : history[i] # e
    <3>1. turns[durable].answer = "streaming" BY <1>1, <2>1 DEF OpenOk
    <3> QED BY <1>1, <3>1 DEF ContextOk, EntryOk, Answered
  <2> HIDE DEF e
  <2>5. ContextOk(Append(history, e), CancelledRows, forgotten) BY <1>2, <2>2, <2>3, <2>4, ContextAppended
  <2> QED BY <1>3, <2>5 DEF CancelledHistory, e
<1> QED BY <1>2, <1>3 DEF CancelledHistory

-----------------------------------------------------------------------------
(* The steps.                                                              *)

\* What every step does to the rows, and what it may not do any more after the
\* session has ended.
Keeps == Follows(turns') /\ (session = "ended" => turns' = turns)

\* The rows and the open answer after cancel().
LEMMA CancelStep ==
  ASSUME TurnInv, Cancel, latest' = latest, forgotten' \in {forgotten, latest}
  PROVE  /\ Follows(turns') /\ turns' = CancelledRows /\ turns' \in Seq(Turn)
         /\ SequenceDense' /\ OpenOk' /\ forgotten' <= latest'
         /\ revision' = revision + 1 /\ revision' \in Nat /\ responseId' = 0 /\ durable' = 0 /\ partial' = FALSE
<1>1. TurnTypeOK /\ SequenceDense /\ OpenOk /\ forgotten <= latest BY DEF TurnInv
<1>2. /\ turns' = CancelledRows /\ revision' = revision + 1
      /\ responseId' = 0 /\ durable' = 0 /\ partial' = FALSE
  BY DEF Cancel
<1>3. /\ Follows(turns') /\ Len(turns') = Len(turns)
      /\ \A t \in DOMAIN turns : RowOk(turns'[t]) /\ turns'[t].answer # "streaming"
  BY <1>1, <1>2, CancelledFacts
<1>4. DOMAIN turns' = DOMAIN turns /\ turns' \in Seq(Turn) BY <1>1, <1>3 DEF Follows, TurnTypeOK
<1>5. SequenceDense' BY <1>1, <1>3, DenseKept
<1>6. OpenOk' BY <1>2, <1>3, <1>4 DEF OpenOk, RowOk
<1> QED BY <1>1, <1>2, <1>3, <1>4, <1>5, <1>6 DEF TurnTypeOK

\* Nothing is current after a step that spends a revision and starts no run.
LEMMA NothingCurrent ==
  ASSUME TurnInv, revision' = revision + 1, runs' \subseteq runs, mode' \notin {"thinking", "answering"},
         session' = "ended" => mode' = "closed"
  PROVE  RunsOk'
<1>1. \A r \in runs' : r.rev \in 1..revision /\ revision \in Nat BY DEF TurnInv, RunsOk, TurnTypeOK
<1> QED BY <1>1 DEF RunsOk, Current, BusyHasRun

\* A step that cancels without a new run.
LEMMA StopStep ==
  ASSUME TurnInv, Cancel, latest' = latest, UNCHANGED forgotten, runs' \subseteq runs,
         mode' \in {"listening", "paused", "exit_pending", "closed"},
         session' \in {"live", "ended"}, session' = "ended" => mode' = "closed",
         pending' \in Seq(Texts),
         ContextOk(history', CancelledRows, forgotten)
  PROVE  TurnInv' /\ Follows(turns')
<1>1. RunsOk' BY CancelStep, NothingCurrent
<1>2. TurnTypeOK /\ TurnTypeOK'
  <2>1. TurnTypeOK BY DEF TurnInv
  <2>2. history' \in Seq(Entry) BY DEF ContextOk
  <2>3. durable' \in 0..Len(turns') /\ responseId' \in Nat /\ partial' \in BOOLEAN BY CancelStep
  <2> QED BY <2>1, <2>2, <2>3, CancelStep DEF TurnTypeOK
<1> QED BY <1>1, <1>2, CancelStep DEF TurnInv

\* A submission: the new run is the current one.
LEMMA SubmitStep ==
  ASSUME TurnInv, NEW text \in Texts, NEW id \in Messages \cup {NoId}, NEW forced \in BOOLEAN,
         Submit(text, id, forced)
  PROVE  TurnInv' /\ Follows(turns') /\ session # "ended"
<1>1. TurnTypeOK /\ RunsOk BY DEF TurnInv
<1>2. Cancel /\ UNCHANGED <<latest, forgotten, session>> /\ session = "live" /\ mode' = "thinking"
  BY DEF Submit, Request
<1>3. pending' \in Seq(Texts) BY <1>1 DEF Submit, TurnTypeOK
<1> DEFINE new == [rev |-> revision + 1, phase |-> "plan", text |-> pending', id |-> id, forced |-> forced]
<1>4. runs' = runs \cup {new} BY DEF Submit
<1>5. new \in Run /\ new.rev = revision + 1 /\ new.phase = "plan" BY <1>1, <1>3 DEF Run, Phases, TurnTypeOK
<1> HIDE DEF new
<1>6. /\ Follows(turns') /\ turns' = CancelledRows /\ turns' \in Seq(Turn)
      /\ SequenceDense' /\ OpenOk' /\ forgotten' <= latest'
      /\ revision' = revision + 1 /\ revision' \in Nat /\ responseId' = 0 /\ durable' = 0 /\ partial' = FALSE
  BY <1>2, CancelStep
<1>7. \A r \in runs : r.rev \in 1..revision /\ revision \in Nat BY <1>1 DEF RunsOk, TurnTypeOK
<1>8. RunsOk' BY <1>1, <1>2, <1>4, <1>5, <1>6, <1>7 DEF RunsOk, Current, BusyHasRun, TurnTypeOK
<1>9. ContextOk(history', turns', forgotten')
  <2>1. history' = Bounded(CancelledHistory(history)) BY DEF Submit
  <2> QED BY <1>2, <1>6, <2>1, CancelContext, ContextBounded
<1>10. TurnTypeOK'
  <2>1. history' \in Seq(Entry) BY <1>9 DEF ContextOk
  <2>2. durable' \in 0..Len(turns') /\ responseId' \in Nat BY <1>6
  <2>4. partial' \in BOOLEAN BY <1>6
  <2>3. runs' \subseteq Run BY <1>1, <1>4, <1>5 DEF TurnTypeOK
  <2> QED BY <1>1, <1>2, <1>3, <1>6, <2>1, <2>2, <2>3, <2>4 DEF TurnTypeOK
<1> QED BY <1>2, <1>6, <1>8, <1>9, <1>10 DEF TurnInv

\* The rows a new turn may be.
LEMMA NewRows ==
  ASSUME TurnTypeOK, NEW r, r.id \in Messages \cup {NoId}, r.text \in Seq(Texts)
  PROVE  /\ Accepted(r) \in Turn /\ RowOk(Accepted(r))
         /\ Accepted(r).userSeq = latest + 1 /\ Accepted(r).answer = "none"
         /\ Started(Accepted(r)) \in Turn /\ RowOk(Started(Accepted(r)))
         /\ Started(Accepted(r)).userSeq = latest + 1 /\ Started(Accepted(r)).answerSeq = latest + 2
         /\ Started(Accepted(r)).answer = "streaming"
         /\ Committed(Started(Accepted(r))) \in Turn /\ RowOk(Committed(Started(Accepted(r))))
         /\ Committed(Started(Accepted(r))).userSeq = latest + 1
         /\ Committed(Started(Accepted(r))).answerSeq = latest + 2
         /\ Committed(Started(Accepted(r))).answer = "committed"
<1>1. latest \in Nat BY DEF TurnTypeOK
<1> DEFINE a == [id |-> r.id, text |-> r.text, userSeq |-> latest + 1, answerSeq |-> 0,
                 status |-> "accepted", answer |-> "none"]
           b == [id |-> r.id, text |-> r.text, userSeq |-> latest + 1, answerSeq |-> latest + 2,
                 status |-> "answering", answer |-> "streaming"]
           c == [id |-> r.id, text |-> r.text, userSeq |-> latest + 1, answerSeq |-> latest + 2,
                 status |-> "committed", answer |-> "committed"]
<1>2. Accepted(r) = a BY DEF Accepted
<1>3. Started(Accepted(r)) = b
  <2>1. Started(a) = [a EXCEPT !.status = "answering", !.answer = "streaming", !.answerSeq = latest + 1 + 1]
    BY DEF Started
  <2>2. latest + 1 + 1 = latest + 2 BY <1>1
  <2> QED BY <1>2, <2>1, <2>2
<1>4. Committed(Started(Accepted(r))) = c
  <2>1. Committed(b) = [b EXCEPT !.status = "committed", !.answer = "committed"] BY DEF Committed
  <2> QED BY <1>3, <2>1
<1>5. a \in Turn /\ b \in Turn /\ c \in Turn BY <1>1 DEF Turn
<1>6. RowOk(a) /\ RowOk(b) /\ RowOk(c) BY <1>1 DEF RowOk
<1> QED BY <1>2, <1>3, <1>4, <1>5, <1>6

\* A question that is committed joins the rows and the context.
LEMMA Appended ==
  ASSUME TurnInv, NEW rows, Follows(rows), Len(rows) = Len(turns), NEW row \in Turn, NEW h,
         ContextOk(h, rows, forgotten),
         row.userSeq = latest + 1,
         \/ row.answer = "none" /\ latest' = latest + 1
         \/ row.answer # "none" /\ row.answerSeq = latest + 2 /\ latest' = latest + 2,
         turns' = Append(rows, row)
  PROVE  /\ SequenceDense' /\ Follows(turns') /\ turns' \in Seq(Turn)
         /\ Len(turns') = Len(turns) + 1 /\ turns'[Len(turns) + 1] = row
         /\ \A t \in DOMAIN turns' : (t \in DOMAIN turns /\ turns'[t] = rows[t]) \/ t = Len(turns) + 1
         /\ ContextOk(Append(h, Asked(Len(turns) + 1)), turns', forgotten)
         /\ latest' \in Nat /\ forgotten <= latest'
<1>1. TurnTypeOK /\ SequenceDense /\ forgotten <= latest BY DEF TurnInv
<1>2. rows \in Seq(Turn) /\ Len(turns) \in Nat /\ latest \in Nat /\ forgotten \in Int
  BY <1>1 DEF Follows, TurnTypeOK, NeverForgotten
<1> DEFINE n == Len(turns) + 1
           e == Asked(n)
<1>3. /\ turns' \in Seq(Turn) /\ Len(turns') = n /\ turns'[n] = row
      /\ \A t \in DOMAIN turns : t \in DOMAIN turns' /\ turns'[t] = rows[t]
      /\ \A t \in DOMAIN turns' : t \in DOMAIN turns \/ t = n
  BY <1>1, <1>2 DEF TurnTypeOK
<1>4. Follows(turns') BY <1>2, <1>3 DEF Follows
<1>5. SequenceDense' BY <1>1, DenseAppended
<1>6. ContextOk(h, turns', forgotten)
  <2>1. ASSUME NEW i \in DOMAIN h PROVE EntryOk(turns', forgotten, h[i]) /\ h[i].turn # n
    <3>1. EntryOk(rows, forgotten, h[i]) BY DEF ContextOk
    <3>2. h[i].turn \in DOMAIN turns BY <1>2, <3>1 DEF EntryOk
    <3>3. turns'[h[i].turn] = rows[h[i].turn] /\ h[i].turn \in DOMAIN turns' BY <1>3, <3>2
    <3>4. h[i].turn # n BY <1>2, <3>2
    <3> QED BY <3>1, <3>3, <3>4 DEF EntryOk, NumberOf
  <2> QED BY <2>1 DEF ContextOk
<1>7. e \in Entry /\ EntryOk(turns', forgotten, e)
  <2>1. e.turn = n /\ e.role = "user" /\ e.status = "committed" /\ e \in Entry BY <1>2 DEF Asked, Entry
  <2>2. n \in DOMAIN turns' BY <1>2, <1>3
  <2>3. turns'[n].userSeq > forgotten BY <1>1, <1>2, <1>3
  <2> QED BY <2>1, <2>2, <2>3 DEF EntryOk, NumberOf
<1>8. \A i \in DOMAIN h : h[i] # e
  <2>1. \A i \in DOMAIN h : h[i].turn \in DOMAIN turns BY <1>2 DEF ContextOk, EntryOk
  <2>2. e.turn = n /\ n \notin DOMAIN turns BY <1>2 DEF Asked
  <2> QED BY <2>1, <2>2
<1> HIDE DEF e
<1>9. ContextOk(Append(h, e), turns', forgotten) BY <1>6, <1>7, <1>8, ContextAppended
<1> QED BY <1>1, <1>2, <1>3, <1>4, <1>5, <1>9 DEF e

\* "Go on with the last answer", where the reply is known at once.
LEMMA RecoverStep ==
  ASSUME TurnInv, RecoverText
  PROVE  TurnInv' /\ Keeps
<1>1. TurnTypeOK /\ RunsOk /\ OpenOk BY DEF TurnInv
<1>2. CASE Recovery = "interrupted"
  <2>1. "recover" \in Texts /\ NoId \in Messages \cup {NoId} /\ TRUE \in BOOLEAN BY DEF Texts
  <2>2. Submit("recover", NoId, TRUE) BY <1>2 DEF RecoverText
  <2> QED BY <2>1, <2>2, SubmitStep DEF Keeps
<1>3. CASE Recovery # "interrupted"
  <2> DEFINE r == [id |-> NoId, text |-> <<"recover">>]
             t == Len(turns) + 1
             row == Committed(Started(Accepted(r)))
  <2>1. /\ session = "live" /\ revision' = revision + 1
        /\ turns' = Append(CancelledRows, row) /\ latest' = latest + 2
        /\ history' = Bounded(CancelledHistory(history)) \o <<Asked(t), Answered(t, "committed")>>
        /\ responseId' = 0 /\ durable' = 0 /\ partial' = FALSE /\ mode' = "listening"
        /\ UNCHANGED <<pending, runs, forgotten, session>>
    BY <1>3 DEF RecoverText, Request
  <2>2. r.id \in Messages \cup {NoId} /\ r.text \in Seq(Texts) BY DEF Texts
  <2>3. row \in Turn /\ RowOk(row) /\ row.userSeq = latest + 1 /\ row.answerSeq = latest + 2 /\ row.answer = "committed"
    BY <1>1, <2>2, NewRows
  <2>4. /\ Follows(CancelledRows) /\ Len(CancelledRows) = Len(turns)
        /\ \A u \in DOMAIN turns : RowOk(CancelledRows[u]) /\ CancelledRows[u].answer # "streaming"
    BY <1>1, CancelledFacts
  <2> DEFINE h == Bounded(CancelledHistory(history))
             h1 == Append(h, Asked(t))
             e == Answered(t, "committed")
  <2>5. ContextOk(h, CancelledRows, forgotten) BY CancelContext, ContextBounded
  <2>p. h \in Seq(Entry) BY <2>5 DEF ContextOk
  <2> HIDE DEF row, r, h
  <2>6. /\ SequenceDense' /\ Follows(turns') /\ turns' \in Seq(Turn)
        /\ Len(turns') = t /\ turns'[t] = row
        /\ \A u \in DOMAIN turns' : (u \in DOMAIN turns /\ turns'[u] = CancelledRows[u]) \/ u = t
        /\ ContextOk(h1, turns', forgotten)
        /\ latest' \in Nat /\ forgotten <= latest'
    BY <2>1, <2>3, <2>4, <2>5, Appended
  <2>7. e \in Entry /\ EntryOk(turns', forgotten, e)
    <3>1. e.turn = t /\ e.role = "assistant" /\ e.status = "committed" BY DEF Answered
    <3>2. t \in DOMAIN turns' /\ e \in Entry BY <1>1, <2>6 DEF Answered, Entry, TurnTypeOK
    <3>3. latest + 2 > forgotten BY <1>1 DEF TurnInv, TurnTypeOK, NeverForgotten
    <3> QED BY <2>3, <2>6, <3>1, <3>2, <3>3 DEF EntryOk, NumberOf
  <2>8. \A i \in DOMAIN h1 : h1[i] # e
    <3>1. \A i \in DOMAIN h1 : (i \in DOMAIN h /\ h1[i] = h[i]) \/ h1[i] = Asked(t) BY <2>p
    <3>2. \A i \in DOMAIN h : h[i].turn \in DOMAIN turns
      BY <2>4, <2>5 DEF ContextOk, EntryOk, Follows
    <3>3. t \notin DOMAIN turns BY <1>1 DEF TurnTypeOK
    <3>4. e.turn = t /\ Asked(t) # e BY DEF Answered, Asked
    <3> QED BY <3>1, <3>2, <3>3, <3>4
  <2>9. history' = Append(h1, e)
    <3>1. Asked(t) \in Entry /\ e \in Entry BY <1>1, <2>7 DEF Asked, Entry, TurnTypeOK
    <3> HIDE DEF t, e
    <3>2. h \o <<Asked(t), e>> = Append(Append(h, Asked(t)), e) BY <2>p, <3>1
    <3> QED BY <2>1, <3>2 DEF h, e
  <2> HIDE DEF e, h1
  <2>10. ContextOk(history', turns', forgotten') BY <2>1, <2>6, <2>7, <2>8, <2>9, ContextAppended
  <2>11. RunsOk' BY <1>1, <2>1, NothingCurrent DEF TurnInv
  <2>12. OpenOk' BY <2>1, <2>3, <2>4, <2>6 DEF OpenOk
  <2>13. TurnTypeOK'
    <3>1. history' \in Seq(Entry) BY <2>10 DEF ContextOk
    <3>2. durable' \in 0..Len(turns') /\ responseId' \in Nat /\ revision' \in Nat BY <1>1, <2>1, <2>6 DEF TurnTypeOK
    <3>3. partial' \in BOOLEAN BY <2>1
    <3> QED BY <1>1, <2>1, <2>6, <3>1, <3>2, <3>3 DEF TurnTypeOK
  <2> QED BY <2>1, <2>6, <2>10, <2>11, <2>12, <2>13 DEF TurnInv, Keeps
<1> QED BY <1>2, <1>3

\* What the user, the end of the session and a forgotten memory stop.
LEMMA StoppedStep ==
  ASSUME TurnInv,
         \/ TooLong \/ Interrupt \/ Pause \/ RequestExit \/ End \/ ForgetTurns
  PROVE  TurnInv' /\ Keeps
<1>1. TurnTypeOK /\ RunsOk /\ OpenOk /\ ContextOk(history, turns, forgotten) BY DEF TurnInv
<1>2. ASSUME NEW next \in {"listening", "paused", "exit_pending"}, Stop(next) PROVE TurnInv' /\ Keeps
  <2>1. /\ session = "live" /\ Cancel /\ history' = CancelledHistory(history) /\ mode' = next
        /\ UNCHANGED <<pending, runs, latest, forgotten, session>>
    BY <1>2 DEF Stop, Request
  <2> QED BY <1>1, <1>2, <2>1, StopStep, CancelContext DEF TurnTypeOK, Keeps
<1>3. CASE TooLong
  <2>1. /\ session = "live" /\ Cancel /\ history' = CancelledHistory(history) /\ mode' = "paused"
        /\ UNCHANGED <<pending, runs, latest, forgotten, session>>
    BY <1>3 DEF TooLong, Request
  <2> QED BY <1>1, <2>1, StopStep, CancelContext DEF TurnTypeOK, Keeps
<1>4. CASE Interrupt BY <1>2, <1>4 DEF Interrupt
<1>5. CASE Pause BY <1>2, <1>5 DEF Pause
<1>6. CASE RequestExit BY <1>2, <1>6 DEF RequestExit
<1>7. CASE End
  <2>1. CASE mode # "closed"
    <3>1. /\ session = "live" /\ Cancel /\ history' = CancelledHistory(history) /\ mode' = "closed" /\ session' = "ended"
          /\ UNCHANGED <<pending, runs, latest, forgotten>>
      BY <1>7, <2>1 DEF End
    <3> QED BY <1>1, <3>1, StopStep, CancelContext DEF TurnTypeOK, Keeps
  <2>2. CASE mode = "closed"
    <3>1. /\ session = "live" /\ mode' = "closed" /\ session' = "ended"
          /\ UNCHANGED <<revision, turns, responseId, durable, partial, history, pending, runs, latest, forgotten>>
      BY <1>7, <2>2 DEF End
    <3>2. TurnTypeOK' BY <1>1, <3>1 DEF TurnTypeOK
    <3>3. RunsOk' BY <1>1, <2>2, <3>1 DEF RunsOk, BusyHasRun, Current
    <3>4. OpenOk' BY <1>1, <2>2, <3>1 DEF OpenOk
    <3>5. SequenceDense' BY <3>1 DEF TurnInv, SequenceDense
    <3>6. Follows(turns') BY <1>1, <3>1 DEF Follows, TurnTypeOK
    <3> QED BY <3>1, <3>2, <3>3, <3>4, <3>5, <3>6 DEF TurnInv, Keeps
  <2> QED BY <2>1, <2>2
<1>8. CASE ForgetTurns
  <2>1. /\ session = "live" /\ mode # "closed" /\ Cancel /\ forgotten' = latest /\ pending' = <<>> /\ history' = <<>>
        /\ mode' = (IF mode \in {"thinking", "answering"} THEN "listening" ELSE mode)
        /\ UNCHANGED <<runs, latest, session>>
    BY <1>8 DEF ForgetTurns
  <2>2. /\ Follows(turns') /\ turns' \in Seq(Turn)
        /\ SequenceDense' /\ OpenOk' /\ forgotten' <= latest'
        /\ revision' = revision + 1 /\ revision' \in Nat /\ responseId' = 0 /\ durable' = 0 /\ partial' = FALSE
    BY <2>1, CancelStep
  <2>3. RunsOk' BY <2>1, <2>2, NothingCurrent
  <2>4. ContextOk(history', turns', forgotten')
    <3>1. history' \in Seq(Entry) /\ DOMAIN history' = {} BY <2>1
    <3> QED BY <3>1 DEF ContextOk, Distinct
  <2>5. TurnTypeOK'
    <3>1. history' \in Seq(Entry) /\ pending' \in Seq(Texts) BY <2>1
    <3>2. durable' \in 0..Len(turns') /\ responseId' \in Nat BY <2>2
    <3>3. partial' \in BOOLEAN BY <2>2
    <3> QED BY <1>1, <2>1, <2>2, <3>1, <3>2, <3>3 DEF TurnTypeOK
  <2> QED BY <2>1, <2>2, <2>3, <2>4, <2>5 DEF TurnInv, Keeps
<1> QED BY <1>3, <1>4, <1>5, <1>6, <1>7, <1>8

\* Rows and answer are as they were: the invariant is about the mode and the
\* runs that are left.
LEMMA Undisturbed ==
  ASSUME TurnInv, TurnTypeOK', RunsOk', UNCHANGED <<revision, responseId, durable, history, rowVars>>,
         durable # 0 => mode' = mode, durable = 0 => partial' = partial
  PROVE  TurnInv' /\ Keeps
<1>1. UNCHANGED <<turns, latest, forgotten, session>> BY DEF rowVars
<1>2. OpenOk' BY <1>1 DEF TurnInv, OpenOk
<1>3. SequenceDense' BY <1>1 DEF TurnInv, SequenceDense
<1>4. Follows(turns') BY <1>1 DEF TurnInv, Follows, TurnTypeOK
<1> QED BY <1>1, <1>2, <1>3, <1>4 DEF TurnInv, Keeps

\* A run that was superseded leaves nothing behind; one that is current leaves
\* nobody at work.
LEMMA RunLeaves ==
  ASSUME TurnInv, NEW r \in runs, runs' = runs \ {r}, revision' = revision, UNCHANGED session,
         \/ ~Current(r) /\ UNCHANGED <<mode, durable>>
         \/ Current(r) /\ mode' \in {"listening", "paused"} /\ session # "ended"
  PROVE  RunsOk'
  BY DEF TurnInv, RunsOk, Current, BusyHasRun

\* A session that ended, or a conversation that was stopped, has no current run.
LEMMA CurrentIsLive ==
  ASSUME TurnInv, NEW r \in runs, Current(r)
  PROVE  /\ session # "ended"
         /\ r.phase = "plan" => durable = 0 /\ mode = "thinking"
         /\ r.phase = "reply" => durable # 0 /\ durable \in DOMAIN turns /\ mode = "answering"
  BY DEF TurnInv, RunsOk, TurnTypeOK

\* submit() returns without a new row: superseded, waiting, or a repeat.
LEMMA ReturnedStep ==
  ASSUME TurnInv, NEW r \in runs, Late(r) \/ Wait(r) \/ Duplicate(r)
  PROVE  TurnInv' /\ Keeps
<1>1. TurnTypeOK BY DEF TurnInv
<1>2. /\ runs' = runs \ {r} /\ UNCHANGED <<revision, responseId, durable, partial, history, rowVars>>
      /\ \/ ~Current(r) /\ UNCHANGED <<mode, pending>>
         \/ Current(r) /\ mode' = "listening" /\ r.phase = "plan" /\ pending' \in {pending, <<>>}
  BY DEF Late, Wait, Duplicate, Delivered
<1>3. UNCHANGED <<turns, latest, forgotten, session>> BY <1>2 DEF rowVars
<1>4. RunsOk'
  <2>1. CASE ~Current(r) BY <1>2, <1>3, <2>1, RunLeaves
  <2>2. CASE Current(r)
    <3>1. session # "ended" BY <2>2, CurrentIsLive
    <3> QED BY <1>2, <1>3, <2>2, <3>1, RunLeaves
  <2> QED BY <2>1, <2>2
<1>5. TurnTypeOK'
  <2>1. pending \in Seq(Texts) /\ <<>> \in Seq(Texts) BY <1>1 DEF TurnTypeOK
  <2>2. pending' \in Seq(Texts) BY <1>2, <2>1
  <2>3. runs' \subseteq Run BY <1>1, <1>2 DEF TurnTypeOK
  <2> QED BY <1>1, <1>2, <1>3, <2>2, <2>3 DEF TurnTypeOK
<1>6. durable # 0 => mode' = mode BY <1>2, CurrentIsLive
<1> QED BY <1>2, <1>4, <1>5, <1>6, Undisturbed

\* submit() fails: the open answer, if there is one, is interrupted.
LEMMA FailedStep ==
  ASSUME TurnInv, NEW r \in runs, PlanFails(r) \/ UserTurnFails(r) \/ ReplyFails(r) \/ CommitFails(r)
  PROVE  TurnInv' /\ Keeps
<1>1. TurnTypeOK /\ OpenOk /\ ContextOk(history, turns, forgotten) BY DEF TurnInv
<1>2. /\ Current(r) /\ Cancel /\ runs' = runs \ {r} /\ mode' = "paused"
      /\ UNCHANGED <<latest, forgotten, session>> /\ pending' \in {pending, <<>>}
      /\ \/ history' = CancelledHistory(history)
         \/ /\ r.phase = "reply"
            /\ history' = CancelledHistory(Append(history, Answered(durable, "committed")))
  BY DEF PlanFails, UserTurnFails, ReplyFails, CommitFails, Fails, Delivered
<1>3. session = "live" BY <1>1, <1>2, CurrentIsLive DEF TurnTypeOK
<1>4. pending' \in Seq(Texts)
  <2>1. pending \in Seq(Texts) /\ <<>> \in Seq(Texts) BY <1>1 DEF TurnTypeOK
  <2> QED BY <1>2, <2>1
<1>5. ContextOk(history', CancelledRows, forgotten)
  <2>1. CASE history' = CancelledHistory(history) BY <2>1, CancelContext
  <2>2. CASE r.phase = "reply" /\ history' = CancelledHistory(Append(history, Answered(durable, "committed")))
    <3>1. durable # 0 /\ durable \in DOMAIN turns BY <1>2, <2>2, CurrentIsLive
    <3>2. /\ Follows(CancelledRows) /\ CancelledRows[durable].answer = "interrupted" /\ OpenAnswer
      BY <1>1, <3>1, CancelledFacts
    <3> DEFINE a == Answered(durable, "committed")
               b == Answered(durable, "interrupted")
               h1 == Append(history, a)
    <3>3. a \in Entry /\ b \in Entry /\ a # b BY <1>1, <3>1 DEF Answered, Entry, TurnTypeOK
    <3>4. turns[durable].answerSeq > forgotten /\ turns[durable].answer = "streaming"
      <4>1. turns[durable] \in Turn /\ forgotten \in Int BY <1>1, <3>1 DEF TurnTypeOK, NeverForgotten
      <4> QED BY <1>1, <3>1, <4>1 DEF OpenOk, RowOk, Turn
    <3>5. EntryOk(CancelledRows, forgotten, a) /\ EntryOk(CancelledRows, forgotten, b)
      <4>1. durable \in DOMAIN CancelledRows /\ CancelledRows[durable].answerSeq = turns[durable].answerSeq
        BY <1>1, <3>1, <3>2 DEF Follows, TurnTypeOK
      <4> QED BY <3>1, <3>2, <3>4, <4>1 DEF EntryOk, NumberOf, Answered
    <3>6. \A i \in DOMAIN history : history[i] # a /\ history[i] # b
      BY <1>1, <3>4 DEF ContextOk, EntryOk, Answered
    <3>7. ContextOk(history, CancelledRows, forgotten) BY <1>1, <3>2, ContextKept
    <3> HIDE DEF a, b
    <3>8. ContextOk(h1, CancelledRows, forgotten) BY <3>3, <3>5, <3>6, <3>7, ContextAppended
    <3>9. \A i \in DOMAIN h1 : h1[i] # b
      <4>1. history \in Seq(Entry) BY <1>1 DEF TurnTypeOK
      <4>2. \A i \in DOMAIN h1 : (i \in DOMAIN history /\ h1[i] = history[i]) \/ h1[i] = a BY <3>3, <4>1
      <4> QED BY <3>3, <3>6, <4>2
    <3> HIDE DEF h1
    <3>10. ContextOk(Append(h1, b), CancelledRows, forgotten) BY <3>3, <3>5, <3>8, <3>9, ContextAppended
    <3>11. history' \in {h1, Append(h1, b)} BY <2>2 DEF CancelledHistory, h1, a, b
    <3> QED BY <3>8, <3>10, <3>11
  <2> QED BY <1>2, <2>1, <2>2
<1>6. TurnInv' /\ Follows(turns') BY <1>2, <1>3, <1>4, <1>5, StopStep
<1> QED BY <1>3, <1>6 DEF Keeps

\* The planner decided: the question joins the rows, and its answer is started,
\* is not started, or is not wanted.
LEMMA DecidedStep ==
  ASSUME TurnInv, NEW r \in runs, ExitDecision(r) \/ StartAnswer(r) \/ StartFails(r)
  PROVE  TurnInv' /\ Keeps
<1>1. TurnTypeOK /\ RunsOk /\ OpenOk /\ ContextOk(history, turns, forgotten) BY DEF TurnInv
<1> DEFINE t == Len(turns) + 1
<1>2. /\ Current(r) /\ r.phase = "plan" /\ pending' = <<>> /\ UNCHANGED <<forgotten, session>>
      /\ history' = Append(history, Asked(t))
  BY DEF ExitDecision, StartAnswer, StartFails, Delivered
<1>3. durable = 0 /\ responseId = 0 /\ ~partial /\ session = "live"
  BY <1>1, <1>2, CurrentIsLive DEF OpenOk, TurnTypeOK
<1>4. r \in Run /\ r.id \in Messages \cup {NoId} /\ r.text \in Seq(Texts) BY <1>1 DEF Run, TurnTypeOK
<1>5. Follows(turns) BY <1>1 DEF Follows, TurnTypeOK
<1>6. /\ Accepted(r) \in Turn /\ RowOk(Accepted(r))
      /\ Accepted(r).userSeq = latest + 1 /\ Accepted(r).answer = "none"
      /\ Started(Accepted(r)) \in Turn /\ RowOk(Started(Accepted(r)))
      /\ Started(Accepted(r)).userSeq = latest + 1 /\ Started(Accepted(r)).answerSeq = latest + 2
      /\ Started(Accepted(r)).answer = "streaming"
  BY <1>1, <1>4, NewRows
<1>7. pending' \in Seq(Texts) BY <1>2
<1>8. \A u \in DOMAIN turns : RowOk(turns[u]) /\ turns[u].answer # "streaming" BY <1>1, <1>3 DEF OpenOk, TurnTypeOK
<1>9. CASE ExitDecision(r) \/ StartFails(r)
  <2>1. /\ turns' = Append(turns, Accepted(r)) /\ latest' = latest + 1
        /\ revision' = revision + 1 /\ mode' \in {"exit_pending", "paused"} /\ runs' = runs \ {r}
        /\ UNCHANGED <<responseId, durable, partial>>
    BY <1>9 DEF ExitDecision, StartFails
  <2>2. /\ SequenceDense' /\ Follows(turns') /\ turns' \in Seq(Turn)
        /\ Len(turns') = t /\ turns'[t] = Accepted(r)
        /\ \A u \in DOMAIN turns' : (u \in DOMAIN turns /\ turns'[u] = turns[u]) \/ u = t
        /\ ContextOk(history', turns', forgotten)
        /\ latest' \in Nat /\ forgotten <= latest'
    BY <1>1, <1>2, <1>5, <1>6, <2>1, Appended
  <2>3. RunsOk' BY <1>2, <1>3, <2>1, NothingCurrent
  <2>4. OpenOk' BY <1>3, <1>6, <1>8, <2>1, <2>2 DEF OpenOk
  <2>5. TurnTypeOK'
    <3>1. history' \in Seq(Entry) BY <2>2 DEF ContextOk
    <3>2. durable' \in 0..Len(turns') /\ revision' \in Nat /\ runs' \subseteq Run
      BY <1>1, <1>3, <2>1, <2>2 DEF TurnTypeOK
    <3> QED BY <1>1, <1>2, <1>7, <2>1, <2>2, <3>1, <3>2 DEF TurnTypeOK
  <2> QED BY <1>2, <1>3, <2>2, <2>3, <2>4, <2>5 DEF TurnInv, Keeps
<1>10. CASE StartAnswer(r)
  <2> DEFINE q == [r EXCEPT !.phase = "reply"]
             row == Started(Accepted(r))
  <2>1. /\ turns' = Append(turns, row) /\ latest' = latest + 2
        /\ responseId' = r.rev /\ durable' = t /\ partial' = FALSE /\ mode' = "answering"
        /\ runs' = (runs \ {r}) \cup {q} /\ revision' = revision
    BY <1>10 DEF StartAnswer
  <2>2. q \in Run /\ q.rev = revision /\ q.phase = "reply" /\ r.rev = revision /\ r.rev \in 1..revision /\ revision \in Nat
    BY <1>1, <1>2, <1>4 DEF Run, Phases, Current, RunsOk, TurnTypeOK
  <2> HIDE DEF q, row
  <2>3. row \in Turn /\ RowOk(row) /\ row.userSeq = latest + 1 /\ row.answerSeq = latest + 2 /\ row.answer = "streaming"
    BY <1>6 DEF row
  <2>4. /\ SequenceDense' /\ Follows(turns') /\ turns' \in Seq(Turn)
        /\ Len(turns') = t /\ turns'[t] = row
        /\ \A u \in DOMAIN turns' : (u \in DOMAIN turns /\ turns'[u] = turns[u]) \/ u = t
        /\ ContextOk(history', turns', forgotten)
        /\ latest' \in Nat /\ forgotten <= latest'
    BY <1>1, <1>2, <1>5, <2>1, <2>3, Appended
  <2>5. \A p \in runs \ {r} : p.rev \in 1..revision /\ p.rev # revision
    BY <1>1, <1>2 DEF RunsOk, Current
  <2>6. RunsOk' BY <1>2, <1>3, <2>1, <2>2, <2>5 DEF RunsOk, Current, BusyHasRun
  <2>7. OpenOk'
    <3>1. latest \in Nat /\ forgotten \in Int /\ forgotten <= latest
      BY <1>1 DEF TurnInv, TurnTypeOK, NeverForgotten
    <3>2. turns'[durable'].userSeq > forgotten' /\ durable' # 0 BY <1>2, <2>1, <2>3, <2>4, <3>1, <1>1 DEF TurnTypeOK
    <3> QED BY <1>8, <2>1, <2>2, <2>3, <2>4, <3>2 DEF OpenOk
  <2>8. TurnTypeOK'
    <3>1. history' \in Seq(Entry) BY <2>4 DEF ContextOk
    <3>2. durable' \in 0..Len(turns') /\ responseId' \in Nat /\ runs' \subseteq Run
      BY <1>1, <2>1, <2>2, <2>4 DEF TurnTypeOK
    <3>3. partial' \in BOOLEAN BY <2>1
    <3> QED BY <1>1, <1>2, <1>7, <2>1, <2>4, <3>1, <3>2, <3>3 DEF TurnTypeOK
  <2> QED BY <1>2, <1>3, <2>4, <2>6, <2>7, <2>8 DEF TurnInv, Keeps
<1> QED BY <1>9, <1>10

\* The answer streams.
LEMMA DeltaStep ==
  ASSUME TurnInv, NEW r \in runs, Delta(r)
  PROVE  TurnInv' /\ Keeps
<1>1. /\ Current(r) /\ r.phase = "reply" /\ partial' = TRUE
      /\ UNCHANGED <<mode, pending, revision, runs, responseId, durable, history, rowVars>>
  BY DEF Delta, Delivered
<1>2. UNCHANGED <<turns, latest, forgotten, session>> BY <1>1 DEF rowVars
<1>3. TurnTypeOK' BY <1>1, <1>2 DEF TurnInv, TurnTypeOK
<1>4. RunsOk' BY <1>1, <1>2 DEF TurnInv, RunsOk, BusyHasRun, Current
<1>5. durable # 0 BY <1>1, CurrentIsLive
<1> QED BY <1>1, <1>3, <1>4, <1>5, Undisturbed

\* The answer is complete: it enters the context and the store.
LEMMA CommitStep ==
  ASSUME TurnInv, NEW r \in runs, Commit(r)
  PROVE  TurnInv' /\ Keeps
<1>1. TurnTypeOK /\ SequenceDense /\ RunsOk /\ OpenOk /\ ContextOk(history, turns, forgotten) /\ forgotten <= latest
  BY DEF TurnInv
<1>2. /\ Current(r) /\ r.phase = "reply"
      /\ history' = Append(history, Answered(durable, "committed"))
      /\ turns' = [turns EXCEPT ![durable] = Committed(@)]
      /\ responseId' = 0 /\ durable' = 0 /\ partial' = FALSE
      /\ mode' = "listening" /\ runs' = runs \ {r}
      /\ UNCHANGED <<pending, revision, latest, forgotten, session>>
  BY DEF Commit, Delivered
<1>3. durable # 0 /\ durable \in DOMAIN turns /\ session # "ended" BY <1>2, CurrentIsLive
<1>4. turns \in Seq(Turn) /\ turns[durable] \in Turn /\ turns[durable].answer = "streaming" /\ RowOk(turns[durable])
  BY <1>1, <1>3 DEF OpenOk, TurnTypeOK
<1> DEFINE row == [turns[durable] EXCEPT !.status = "committed", !.answer = "committed"]
           e == Answered(durable, "committed")
<1>5. Committed(turns[durable]) = row BY <1>4 DEF Committed, RowOk
<1>6. row \in Turn /\ row.answer = "committed" /\ RowOk(row)
      /\ row.userSeq = turns[durable].userSeq /\ row.answerSeq = turns[durable].answerSeq
  BY <1>4 DEF Turn, RowOk
<1> HIDE DEF row
<1>7. turns' = [turns EXCEPT ![durable] = row] BY <1>2, <1>5
<1>8. turns' \in Seq(Turn) /\ Len(turns') = Len(turns) /\ DOMAIN turns' = DOMAIN turns BY <1>3, <1>4, <1>6, <1>7
<1>9. \A t \in DOMAIN turns : turns'[t] = IF t = durable THEN row ELSE turns[t] BY <1>3, <1>7
<1>10. Follows(turns') BY <1>3, <1>4, <1>6, <1>8, <1>9 DEF Follows
<1>11. SequenceDense' BY <1>1, <1>2, <1>8, <1>10, DenseKept
<1>12. OpenOk' BY <1>1, <1>2, <1>3, <1>6, <1>8, <1>9 DEF OpenOk
<1>13. RunsOk' BY <1>2, <1>3, RunLeaves
<1>14. ContextOk(history', turns', forgotten')
  <2>1. ContextOk(history, turns', forgotten) BY <1>1, <1>10, ContextKept
  <2>2. e \in Entry /\ e.turn = durable /\ e.role = "assistant" /\ e.status = "committed"
    BY <1>1, <1>3 DEF Answered, Entry, TurnTypeOK
  <2>3. turns[durable].answerSeq > forgotten
    <3>1. forgotten \in Int BY <1>1 DEF TurnTypeOK, NeverForgotten
    <3> QED BY <1>1, <1>3, <1>4, <3>1 DEF OpenOk, RowOk, Turn
  <2>4. EntryOk(turns', forgotten, e) BY <1>3, <1>6, <1>8, <1>9, <2>2, <2>3 DEF EntryOk, NumberOf
  <2>5. \A i \in DOMAIN history : history[i] # e
    BY <1>1, <1>4, <2>2 DEF ContextOk, EntryOk
  <2> HIDE DEF e
  <2>6. ContextOk(Append(history, e), turns', forgotten) BY <2>1, <2>2, <2>4, <2>5, ContextAppended
  <2> QED BY <1>2, <2>6 DEF e
<1>15. TurnTypeOK'
  <2>1. history' \in Seq(Entry) BY <1>14 DEF ContextOk
  <2>2. durable' \in 0..Len(turns') /\ responseId' \in Nat /\ runs' \subseteq Run BY <1>1, <1>2, <1>8 DEF TurnTypeOK
  <2>3. partial' \in BOOLEAN BY <1>2
  <2> QED BY <1>1, <1>2, <1>8, <2>1, <2>2, <2>3 DEF TurnTypeOK
<1> QED BY <1>1, <1>2, <1>3, <1>10, <1>11, <1>12, <1>13, <1>14, <1>15 DEF TurnInv, Keeps

\* What the process that opens the database makes of a row.
LEMMA RecoveredRow ==
  ASSUME NEW row \in Turn, RowOk(row)
  PROVE  /\ Recovered(row) \in Turn /\ RowOk(Recovered(row)) /\ Recovered(row).answer # "streaming"
         /\ Recovered(row).userSeq = row.userSeq /\ Recovered(row).answerSeq = row.answerSeq
         /\ Recovered(row).answer = "none" <=> row.answer = "none"
         /\ row.answer \in {"committed", "interrupted"} => Recovered(row) = row
<1> DEFINE a == IF row.answer = "streaming" THEN "interrupted" ELSE row.answer
           s == IF row.status \in {"accepted", "answering"} THEN "interrupted" ELSE row.status
<1>1. Recovered(row) = [row EXCEPT !.answer = a, !.status = s] BY DEF Recovered, Turn
<1>2. a \in {"none", "committed", "interrupted"} /\ s \in {"committed", "interrupted"} BY DEF Turn
<1>3. row.answer \in {"committed", "interrupted"} => a = row.answer /\ s = row.status BY DEF RowOk
<1>4. row.answer = "none" => s = "interrupted" BY DEF RowOk
<1>5. row.answer = "streaming" => s = "interrupted" BY DEF RowOk
<1>6. a = "none" <=> row.answer = "none" OBVIOUS
<1>7. row.answer \notin {"committed", "interrupted"} => row.answer \in {"none", "streaming"} BY DEF Turn
<1>8. row.answer = "streaming" => a = "interrupted" OBVIOUS
<1> DEFINE new == [row EXCEPT !.answer = a, !.status = s]
<1> HIDE DEF a, s
<1>9. /\ new.answer = a /\ new.status = s /\ new.userSeq = row.userSeq /\ new.answerSeq = row.answerSeq
  BY DEF Turn
<1>10. new \in Turn BY <1>2 DEF Turn
<1>11. row.answer \in {"committed", "interrupted"} => new = row BY <1>3 DEF Turn
<1> HIDE DEF new
<1>12. RowOk(new)
  <2>1. CASE row.answer = "none" BY <1>4, <1>6, <1>9, <2>1 DEF RowOk
  <2>2. CASE row.answer = "streaming" BY <1>5, <1>8, <1>9, <2>2 DEF RowOk
  <2>3. CASE row.answer \in {"committed", "interrupted"} BY <1>11, <2>3
  <2> QED BY <1>7, <2>1, <2>2, <2>3
<1> QED BY <1>1, <1>2, <1>6, <1>9, <1>10, <1>11, <1>12 DEF new

\* The earliest question after the marker is after the marker.
LEMMA FloorIsLater ==
  ASSUME TurnTypeOK, forgotten # NeverForgotten, TurnFloor # 0
  PROVE  TurnFloor \in Nat /\ TurnFloor > forgotten
<1> DEFINE S == {turns[t].userSeq : t \in {u \in DOMAIN turns : turns[u].userSeq > forgotten}}
<1>1. TurnFloor = IF S = {} THEN 0 ELSE CHOOSE s \in S : \A o \in S : s <= o BY DEF TurnFloor
<1>2. \A s \in S : s \in Nat /\ s > forgotten
  <2>1. ASSUME NEW u \in DOMAIN turns PROVE turns[u].userSeq \in Nat
    <3>1. turns[u] \in Turn BY DEF TurnTypeOK
    <3> QED BY <3>1 DEF Turn
  <2> QED BY <2>1
<1>3. S # {} BY <1>1
<1> HIDE DEF S
<1>4. PICK s \in S : \A o \in S : ~(<<o, s>> \in OpToRel(<, Nat))
  BY <1>2, <1>3, NatLessThanWellFounded, WFMin
<1>5. \A o \in S : s <= o
  <2> SUFFICES ASSUME NEW o \in S, ~(s <= o) PROVE FALSE OBVIOUS
  <2>1. o < s /\ o \in Nat /\ s \in Nat BY <1>2
  <2>2. <<o, s>> \in OpToRel(<, Nat) BY <2>1 DEF OpToRel
  <2> QED BY <1>4, <2>2
<1>6. \E x \in S : \A o \in S : x <= o BY <1>5
<1>7. TurnFloor \in S BY <1>1, <1>3, <1>6
<1> QED BY <1>2, <1>7

\* The process dies and the next one hydrates the conversation from the rows.
LEMMA RestartStep ==
  ASSUME TurnInv, RestartTurns
  PROVE  TurnInv' /\ Keeps
<1>1. TurnTypeOK /\ SequenceDense /\ OpenOk /\ forgotten <= latest BY DEF TurnInv
<1> DEFINE stored == [i \in 1..latest |-> Stored(i)]
<1>2. /\ session = "live" /\ turns' = [t \in DOMAIN turns |-> Recovered(turns[t])]
      /\ history' = Bounded(stored)
      /\ mode' = "listening" /\ pending' = <<>> /\ runs' = {}
      /\ responseId' = 0 /\ durable' = 0 /\ partial' = FALSE
      /\ UNCHANGED <<revision, latest, forgotten, session>>
  BY DEF RestartTurns
<1>3. \A t \in DOMAIN turns :
        /\ turns[t] \in Turn /\ RowOk(turns[t]) /\ turns'[t] = Recovered(turns[t])
        /\ turns'[t] \in Turn /\ RowOk(turns'[t]) /\ turns'[t].answer # "streaming"
        /\ turns'[t].userSeq = turns[t].userSeq /\ turns'[t].answerSeq = turns[t].answerSeq
        /\ turns'[t].answer = "none" <=> turns[t].answer = "none"
        /\ turns[t].answer \in {"committed", "interrupted"} => turns'[t] = turns[t]
  <2> SUFFICES ASSUME NEW t \in DOMAIN turns PROVE
        /\ turns[t] \in Turn /\ RowOk(turns[t]) /\ turns'[t] = Recovered(turns[t])
        /\ turns'[t] \in Turn /\ RowOk(turns'[t]) /\ turns'[t].answer # "streaming"
        /\ turns'[t].userSeq = turns[t].userSeq /\ turns'[t].answerSeq = turns[t].answerSeq
        /\ turns'[t].answer = "none" <=> turns[t].answer = "none"
        /\ turns[t].answer \in {"committed", "interrupted"} => turns'[t] = turns[t]
    OBVIOUS
  <2>1. turns[t] \in Turn /\ RowOk(turns[t]) BY <1>1 DEF OpenOk, TurnTypeOK
  <2>2. turns'[t] = Recovered(turns[t]) BY <1>2
  <2> QED BY <2>1, <2>2, RecoveredRow
<1>4. turns' \in Seq(Turn) /\ Len(turns') = Len(turns) /\ DOMAIN turns' = DOMAIN turns
  <2>1. DOMAIN turns = 1..Len(turns) /\ Len(turns) \in Nat BY <1>1 DEF TurnTypeOK
  <2>2. turns' = [t \in 1..Len(turns) |-> Recovered(turns[t])] BY <1>2, <2>1
  <2>3. \A t \in 1..Len(turns) : Recovered(turns[t]) \in Turn BY <1>3, <2>1
  <2> QED BY <2>1, <2>2, <2>3
<1>5. Follows(turns') BY <1>3, <1>4 DEF Follows
<1>6. SequenceDense' BY <1>1, <1>2, <1>4, <1>5, DenseKept
<1>7. OpenOk' BY <1>2, <1>3, <1>4 DEF OpenOk
<1>8. RunsOk' BY <1>2 DEF RunsOk, BusyHasRun
<1>9. ASSUME NEW i \in 1..latest
      PROVE  /\ Stored(i) \in Entry /\ Stored(i).turn \in DOMAIN turns
             /\ SequenceOf(Stored(i)) = i
             /\ Stored(i).role = "user" => Stored(i).status = "committed"
             /\ Stored(i).role = "assistant" => turns'[Stored(i).turn].answer \in {"committed", "interrupted"}
             /\ Stored(i).status = "interrupted" => turns'[Stored(i).turn].answer = "interrupted"
  <2> DEFINE t == CHOOSE u \in DOMAIN turns : i \in {turns[u].userSeq, turns[u].answerSeq}
  <2>1. \E u \in DOMAIN turns : i \in {turns[u].userSeq, turns[u].answerSeq}
    BY <1>1, <1>9 DEF SequenceDense
  <2>2. t \in DOMAIN turns /\ i \in {turns[t].userSeq, turns[t].answerSeq} BY <2>1
  <2>3. Stored(i) = IF i = turns[t].userSeq THEN Asked(t) ELSE Answered(t, Recovered(turns[t]).answer)
    BY DEF Stored
  <2> HIDE DEF t
  <2>4. t \in Nat BY <1>1, <2>2 DEF TurnTypeOK
  <2>5. CASE i = turns[t].userSeq
    <3>1. Stored(i) = [turn |-> t, role |-> "user", status |-> "committed"] BY <2>3, <2>5 DEF Asked
    <3> QED BY <2>2, <2>4, <2>5, <3>1 DEF Entry, SequenceOf
  <2>6. CASE i # turns[t].userSeq
    <3>1. Stored(i) = [turn |-> t, role |-> "assistant", status |-> turns'[t].answer]
      BY <1>3, <2>2, <2>3, <2>6 DEF Answered
    <3>2. i = turns[t].answerSeq /\ i # 0 BY <2>2, <2>6
    <3>3. turns'[t].answer \in {"committed", "interrupted"}
      <4>1. turns[t].answer # "none" BY <1>3, <2>2, <3>2 DEF RowOk
      <4>2. turns'[t] \in Turn /\ turns'[t].answer # "none" /\ turns'[t].answer # "streaming" BY <1>3, <2>2, <4>1
      <4> QED BY <4>2 DEF Turn
    <3> QED BY <2>2, <2>4, <3>1, <3>2, <3>3 DEF Entry, SequenceOf
  <2> QED BY <2>5, <2>6
<1>10. stored \in Seq(Entry) /\ DOMAIN stored = 1..latest /\ \A i \in 1..latest : stored[i] = Stored(i)
  BY <1>1, <1>9 DEF TurnTypeOK
<1>11. Distinct(stored)
  <2>1. \A i, j \in 1..latest : Stored(i) = Stored(j) => i = j
    <3> SUFFICES ASSUME NEW i \in 1..latest, NEW j \in 1..latest, Stored(i) = Stored(j) PROVE i = j OBVIOUS
    <3>1. SequenceOf(Stored(i)) = i /\ SequenceOf(Stored(j)) = j BY <1>9
    <3> QED BY <3>1
  <2> QED BY <1>10, <2>1 DEF Distinct
<1> HIDE DEF stored
<1>12. ContextOk(history', turns', forgotten')
  <2>1. history' \in Seq(Entry) /\ Distinct(history') BY <1>2, <1>10, <1>11, BoundedPicks
  <2>2. ASSUME NEW n \in DOMAIN history' PROVE EntryOk(turns', forgotten', history'[n])
    <3>1. PICK i \in 1..latest :
            /\ history'[n] = Stored(i)
            /\ forgotten = NeverForgotten \/ (TurnFloor # 0 /\ SequenceOf(Stored(i)) >= TurnFloor)
      <4>1. \A m \in DOMAIN Bounded(stored) : \E i \in DOMAIN stored :
              /\ Bounded(stored)[m] = stored[i]
              /\ forgotten = NeverForgotten \/ (TurnFloor # 0 /\ SequenceOf(stored[i]) >= TurnFloor)
        BY <1>10, BoundedPicks
      <4>2. PICK i \in DOMAIN stored :
              /\ history'[n] = stored[i]
              /\ forgotten = NeverForgotten \/ (TurnFloor # 0 /\ SequenceOf(stored[i]) >= TurnFloor)
        BY <1>2, <4>1
      <4> QED BY <1>10, <4>2
    <3> DEFINE e == Stored(i)
    <3>2. /\ e \in Entry /\ e.turn \in DOMAIN turns /\ SequenceOf(e) = i
          /\ e.role = "user" => e.status = "committed"
          /\ e.role = "assistant" => turns'[e.turn].answer \in {"committed", "interrupted"}
          /\ e.status = "interrupted" => turns'[e.turn].answer = "interrupted"
      BY <1>9
    <3>3. i > forgotten
      <4>1. CASE forgotten = NeverForgotten BY <4>1 DEF NeverForgotten
      <4>2. CASE forgotten # NeverForgotten
        <5>1. TurnFloor # 0 /\ i >= TurnFloor BY <3>1, <3>2, <4>2
        <5>2. TurnFloor \in Nat /\ TurnFloor > forgotten /\ forgotten \in Nat
          BY <1>1, <4>2, <5>1, FloorIsLater DEF TurnTypeOK
        <5> QED BY <5>1, <5>2
      <4> QED BY <4>1, <4>2
    <3> HIDE DEF e
    <3>4. NumberOf(turns', e) = i BY <1>3, <3>2 DEF NumberOf, SequenceOf
    <3>5. EntryOk(turns', forgotten, e) BY <1>4, <3>2, <3>3, <3>4 DEF EntryOk
    <3> QED BY <1>2, <3>1, <3>5 DEF e
  <2> QED BY <2>1, <2>2 DEF ContextOk
<1>13. TurnTypeOK'
  <2>1. history' \in Seq(Entry) /\ pending' \in Seq(Texts) /\ runs' \subseteq Run BY <1>2, <1>12 DEF ContextOk
  <2>2. durable' \in 0..Len(turns') /\ responseId' \in Nat BY <1>2, <1>4
  <2>3. partial' \in BOOLEAN BY <1>2
  <2> QED BY <1>1, <1>2, <1>4, <2>1, <2>2, <2>3 DEF TurnTypeOK
<1> QED BY <1>1, <1>2, <1>5, <1>6, <1>7, <1>8, <1>12, <1>13 DEF TurnInv, Keeps

\* resume and exit.confirm: the conversation was stopped before.
LEMMA ResumedStep ==
  ASSUME TurnInv, Resume \/ \E confirm \in BOOLEAN : ConfirmExit(confirm)
  PROVE  TurnInv' /\ Keeps
<1>1. /\ mode \in {"paused", "exit_pending"} /\ mode' \in {"listening", "closed", "paused"}
      /\ UNCHANGED <<pending, revision, runs, responseId, durable, partial, history, rowVars>>
  BY DEF Resume, ConfirmExit
<1>2. UNCHANGED <<turns, latest, forgotten, session>> /\ session = "live" BY DEF Resume, ConfirmExit, rowVars
<1>3. TurnTypeOK' BY <1>1, <1>2 DEF TurnInv, TurnTypeOK
<1>4. RunsOk' BY <1>1, <1>2 DEF TurnInv, RunsOk, BusyHasRun, Current
<1>5. durable = 0 BY <1>1 DEF TurnInv, OpenOk
<1> QED BY <1>1, <1>3, <1>4, <1>5, Undisturbed

\* Every step.
LEMMA TurnStep == TurnInv /\ [TurnNext]_turnVars => TurnInv' /\ Keeps
<1> SUFFICES ASSUME TurnInv, [TurnNext]_turnVars PROVE TurnInv' /\ Keeps OBVIOUS
<1>1. ASSUME NEW text \in Texts, NEW id \in Messages \cup {NoId}, NEW forced \in BOOLEAN, Submit(text, id, forced)
      PROVE  TurnInv' /\ Keeps
  BY <1>1, SubmitStep DEF Keeps
<1>2. CASE \E m \in Messages : SubmitText(m) BY <1>1, <1>2 DEF SubmitText, Texts
<1>3. CASE SubmitSpeech BY <1>1, <1>3 DEF SubmitSpeech, Texts
<1>4. CASE AnswerRetry BY <1>1, <1>4 DEF AnswerRetry, Texts
<1>5. CASE RecoverText BY <1>5, RecoverStep
<1>6. CASE TooLong \/ Interrupt \/ Pause \/ RequestExit \/ End \/ ForgetTurns BY <1>6, StoppedStep
<1>7. CASE Resume \/ \E confirm \in BOOLEAN : ConfirmExit(confirm) BY <1>7, ResumedStep
<1>8. CASE RestartTurns BY <1>8, RestartStep
<1>9. ASSUME NEW r \in runs, Results(r) PROVE TurnInv' /\ Keeps
  BY <1>9, ReturnedStep, FailedStep, DecidedStep, DeltaStep, CommitStep DEF Results
<1>10. CASE UNCHANGED turnVars
  <2>1. UNCHANGED <<mode, pending, revision, runs, responseId, durable, partial, history, turns, latest, forgotten, session>>
    BY <1>10 DEF turnVars, conversationVars, rowVars
  <2>2. TurnTypeOK' BY <2>1 DEF TurnInv, TurnTypeOK
  <2>3. RunsOk' BY <2>1 DEF TurnInv, RunsOk, BusyHasRun, Current
  <2> QED BY <2>1, <2>2, <2>3, Undisturbed DEF rowVars
<1> QED BY <1>2, <1>3, <1>4, <1>5, <1>6, <1>7, <1>8, <1>9, <1>10 DEF TurnNext, Inputs

\* An empty conversation.
LEMMA TurnStart == TurnInit => TurnInv
<1> SUFFICES ASSUME TurnInit PROVE TurnInv OBVIOUS
<1>1. /\ mode = "listening" /\ pending = <<>> /\ revision = 0 /\ runs = {}
      /\ responseId = 0 /\ durable = 0 /\ partial = FALSE
      /\ history = <<>> /\ turns = <<>> /\ latest = 0
      /\ forgotten = NeverForgotten /\ session = "live"
  BY DEF TurnInit
<1>2. /\ pending \in Seq(Texts) /\ history \in Seq(Entry) /\ turns \in Seq(Turn)
      /\ Len(turns) = 0 /\ DOMAIN turns = {} /\ DOMAIN history = {}
  BY <1>1
<1>3. TurnTypeOK
  <2>1. partial \in BOOLEAN BY <1>1
  <2>2. runs \subseteq Run /\ durable \in 0..Len(turns) BY <1>1, <1>2
  <2> QED BY <1>1, <1>2, <2>1, <2>2 DEF TurnTypeOK
<1>4. SequenceDense
  <2> DEFINE D == {t \in DOMAIN turns : turns[t].answer # "none"}
  <2>1. D = {} BY <1>2
  <2>2. Cardinality(D) = 0 BY <2>1, FS_EmptySet
  <2>3. {turns[t].userSeq : t \in DOMAIN turns} \cup {turns[t].answerSeq : t \in D} = {} BY <1>2, <2>1
  <2>4. 1..latest = {} BY <1>1
  <2> QED BY <1>1, <1>2, <2>2, <2>3, <2>4 DEF SequenceDense
<1>5. RunsOk /\ OpenOk BY <1>1, <1>2 DEF RunsOk, BusyHasRun, OpenOk
<1>6. ContextOk(history, turns, forgotten) BY <1>2 DEF ContextOk, Distinct
<1> QED BY <1>1, <1>3, <1>4, <1>5, <1>6 DEF TurnInv, NeverForgotten

\* The inductive invariant holds in every state of a conversation.
THEOREM TurnsInductive == TurnSpec => []TurnInv
<1>1. TurnInv /\ [TurnNext]_turnVars => TurnInv' BY TurnStep
<1> QED BY <1>1, TurnStart, PTL DEF TurnSpec

\* Whatever is interrupted, repeated, refused, forgotten or restarted: messages
\* are numbered without a gap, a row streams only while a current run is going to
\* finish it, the user is never shown a run that is gone, and no answer is in the
\* model's context twice (submit, cancel, commitUserTurn, startAssistantAnswer).
THEOREM RowsAgreeAlways == TurnSpec => []RowsAgree
<1>1. TurnInv => RowsAgree
  <2> SUFFICES ASSUME TurnInv PROVE RowsAgree OBVIOUS
  <2>1. TurnTypeOK /\ SequenceDense /\ BusyHasRun BY DEF TurnInv, RunsOk
  <2>2. StreamingHasWriter
    <3> SUFFICES ASSUME NEW t \in DOMAIN turns, turns[t].answer = "streaming"
                 PROVE  /\ turns[t].status = "answering" /\ durable = t /\ responseId = revision
                        /\ \E r \in runs : r.rev = revision /\ r.phase = "reply"
      BY DEF StreamingHasWriter
    <3>1. t = durable /\ RowOk(turns[t]) /\ t # 0 BY DEF TurnInv, OpenOk, TurnTypeOK
    <3>2. mode = "answering" /\ responseId = revision BY <3>1 DEF TurnInv, OpenOk
    <3> QED BY <2>1, <3>1, <3>2 DEF RowOk, BusyHasRun, Current
  <2>3. FinishedOnce
    <3>1. \A i \in DOMAIN history : history[i].status = "interrupted" => turns[history[i].turn].answer = "interrupted"
      BY DEF TurnInv, ContextOk, EntryOk
    <3> QED BY <3>1 DEF TurnInv, ContextOk, Distinct, FinishedOnce
  <2> QED BY <2>1, <2>2, <2>3 DEF RowsAgree
<1> QED BY <1>1, TurnsInductive, PTL

\* Nothing a forgotten memory was drawn from comes back into the model's context,
\* by a late answer, a later submission or a restart (boundMemoryHistory, the
\* listener of a forgotten memory, hydration).
THEOREM ForgottenStaysOutAlways == TurnSpec => []ForgottenStaysOut
<1>1. TurnInv => ForgottenStaysOut
  BY DEF TurnInv, ContextOk, EntryOk, NumberOf, SequenceOf, ForgottenStaysOut
<1> QED BY <1>1, TurnsInductive, PTL

\* A settled answer keeps its row for ever, and no late run writes a row after the
\* session ended (commitAssistantAnswer, interruptAssistantAnswer,
\* recoverInterrupted, dispose).
THEOREM SettledStaysAlways == TurnSpec => SettledStays
<1>1. TurnInv /\ [TurnNext]_turnVars =>
        [ /\ \A t \in DOMAIN turns :
               /\ t \in DOMAIN turns'
               /\ turns[t].answer \in {"committed", "interrupted"} => turns'[t] = turns[t]
          /\ session = "ended" => turns' = turns ]_turnVars
  <2> SUFFICES ASSUME TurnInv, [TurnNext]_turnVars
               PROVE  /\ \A t \in DOMAIN turns :
                           /\ t \in DOMAIN turns'
                           /\ turns[t].answer \in {"committed", "interrupted"} => turns'[t] = turns[t]
                      /\ session = "ended" => turns' = turns
    OBVIOUS
  <2>1. Keeps /\ turns \in Seq(Turn) BY TurnStep DEF TurnInv, TurnTypeOK
  <2> QED BY <2>1 DEF Keeps, Follows
<1> QED BY <1>1, TurnsInductive, PTL DEF TurnSpec, SettledStays

HIDE ParametersAreSane

-----------------------------------------------------------------------------
(***************************************************************************)
(* Proofs about SummaryJobs for any sessions, messages, limits and any     *)
(* number of restarts: one job is running at most, the one the worker      *)
(* waits for; no job is paid for in more than MaxAttempts rounds; and the  *)
(* stored summaries cover their sessions without gaps or repetitions.      *)
(*                                                                         *)
(* AttemptsBounded is not inductive: an attempt is given back when the     *)
(* budget refuses the first request, which is harmless only because that   *)
(* round has not been paid yet (UnpaidYet), and a queued job must not have *)
(* spent anything (RowOK).                                                 *)
(*                                                                         *)
(* RangesAgree is not inductive either.  It needs to be known of the rows  *)
(* that a job which may still run is the only one of its session and ends  *)
(* before its recent messages (PlansOK), of the answer being written that  *)
(* it draws on the whole span up to its end (AnswerOK), and of a session   *)
(* that its newest summary ends where it is covered (Covered).             *)
(***************************************************************************)

Columns == {"status", "code", "attempts", "deferrals", "anchor", "paid"}
RowOK(r) ==
  /\ r = [column \in Columns |-> r[column]]
  /\ r.attempts \in 0..MaxAttempts /\ r.paid \in 0..r.attempts
  /\ r.status = "queued" => r.attempts = 0
RowsOK(js) == js = [k \in DOMAIN js |-> js[k]] /\ \A k \in DOMAIN js : RowOK(js[k])
WorkerOK == worker = [phase |-> worker.phase, job |-> worker.job, draws |-> worker.draws]
UnpaidYet ==
  worker.phase = "asking" => \A k \in Running(jobs) : jobs[k].paid < jobs[k].attempts
IInv == RowsOK(jobs) /\ WorkerOK /\ OneRunning /\ UnpaidYet

\* What the planning operations and the disappearance of rows have in common:
\* no job starts running and a running one is left as it is.
Tame(js, js2) ==
  /\ RowsOK(js2)
  /\ Running(js2) \subseteq Running(js)
  /\ \A k \in Running(js2) : js2[k] = js[k]

-----------------------------------------------------------------------------
(* Operations on the rows *)

LEMMA Limit == MaxAttempts \in Nat /\ MaxAttempts > 0
BY SummaryParameters DEF SummaryParameters

USE Limit

\* Updates of the columns of a row, one for each statement of the store.
ClaimRow(r, status, code, attempts) ==
  [r EXCEPT !.status = status, !.code = code, !.attempts = attempts]
LEMMA Claimed ==
  ASSUME NEW r, RowOK(r), NEW status, status # "queued", NEW code,
         NEW attempts \in 0..MaxAttempts, r.paid \in 0..attempts
  PROVE  LET r2 == ClaimRow(r, status, code, attempts)
         IN RowOK(r2) /\ r2.status = status /\ r2.attempts = attempts /\ r2.paid = r.paid
BY DEF RowOK, Columns, ClaimRow

LEMMA Counted ==
  ASSUME NEW r, RowOK(r), r.status # "queued", NEW deferrals,
         NEW attempts \in 0..MaxAttempts, r.paid \in 0..attempts
  PROVE  LET r2 == [r EXCEPT !.deferrals = deferrals, !.attempts = attempts]
         IN RowOK(r2) /\ r2.status = r.status
BY DEF RowOK, Columns

LEMMA ToRetry ==
  ASSUME NEW r, RowOK(r), NEW code
  PROVE  LET r2 == [r EXCEPT !.status = "failed", !.code = code]
         IN RowOK(r2) /\ r2.status = "failed"
BY DEF RowOK, Columns

LEMMA Paid ==
  ASSUME NEW r, RowOK(r), NEW paid \in 0..r.attempts
  PROVE  LET r2 == [r EXCEPT !.paid = paid] IN RowOK(r2) /\ r2.status = r.status
BY DEF RowOK, Columns

\* A new row, or a row that settles, has spent nothing.
LEMMA FreshRows ==
  ASSUME NEW k, NEW status, NEW code, status # "queued"
  PROVE  /\ RowOK(NewJob) /\ NewJob.status = "queued"
         /\ RowOK(Settled(k, status, code)) /\ Settled(k, status, code).status = status
<1>1. RowOK(NewJob) /\ NewJob.status = "queued" /\ NewJob.attempts = 0 /\ NewJob.paid = 0
  BY DEF RowOK, Columns, NewJob
<1>2. RowOK(Settled(k, status, code)) /\ Settled(k, status, code).status = status
  BY <1>1 DEF RowOK, Columns, Settled
<1> QED BY <1>1, <1>2

\* insertSummaryJob adds a queued row or finds the range already there.
LEMMA InsertTame ==
  ASSUME NEW js, RowsOK(js), NEW s, NEW st, NEW from, NEW to, NEW ready
  PROVE  Tame(js, Insert(js, s, st, from, to, ready))
<1>1. RowOK(NewJob) /\ NewJob.status # "running"
  BY FreshRows DEF NewJob
<1>2. PICK key : Insert(js, s, st, from, to, ready) =
                   [k \in DOMAIN js \union {key} |-> IF k \in DOMAIN js THEN js[k] ELSE NewJob]
  BY DEF Insert
<1>3. ASSUME NEW key2, NEW js2, js2 = [k \in DOMAIN js \union {key2} |->
                                        IF k \in DOMAIN js THEN js[k] ELSE NewJob]
      PROVE  Tame(js, js2)
  <2>1. DOMAIN js2 = DOMAIN js \union {key2} BY <1>3
  <2>2. \A k \in DOMAIN js2 : js2[k] = IF k \in DOMAIN js THEN js[k] ELSE NewJob BY <1>3, <2>1
  <2>3. js2 = [k \in DOMAIN js2 |-> js2[k]] BY <1>3
  <2> QED BY <1>1, <2>1, <2>2, <2>3 DEF Tame, RowsOK, Running
<1> QED BY <1>2, <1>3

\* A step of planning that changes nothing is tame.
LEMMA SameTame == ASSUME NEW js, RowsOK(js) PROVE Tame(js, js)
BY DEF Tame

LEMMA EnqueueTame ==
  ASSUME NEW js, RowsOK(js), NEW s, NEW covered, NEW ready
  PROVE  Tame(js, EnqueueClosed(js, s, covered, ready))
BY InsertTame, SameTame DEF EnqueueClosed

LEMMA ConsiderTame ==
  ASSUME NEW js, RowsOK(js), NEW s, NEW st, NEW l, NEW start, NEW ready
  PROVE  Tame(js, Consider(js, s, st, l, start, ready))
BY InsertTame, SameTame DEF Consider, ScheduleActive

\* A forgotten memory settles what its session had not completed.
LEMMA ForgottenTame ==
  ASSUME NEW js, RowsOK(js), NEW s
  PROVE  Tame(js, Forgotten(js, s))
<1> DEFINE js2 == Forgotten(js, s)
<1>1. /\ js2 = [k \in DOMAIN js2 |-> js2[k]] /\ DOMAIN js2 = DOMAIN js
      /\ \A k \in DOMAIN js : js2[k] = js[k] \/ js2[k] = Settled(k, "failed", "FORGOTTEN")
  BY DEF Forgotten
<1>2. \A k : RowOK(Settled(k, "failed", "FORGOTTEN")) /\ Settled(k, "failed", "FORGOTTEN").status = "failed"
  BY FreshRows
<1> HIDE DEF js2
<1>3. Tame(js, js2) BY <1>1, <1>2 DEF Tame, RowsOK, Running
<1> QED BY <1>3 DEF js2

LEMMA TameTwice ==
  ASSUME NEW js, NEW js2, NEW js3, Tame(js, js2), Tame(js2, js3)
  PROVE  Tame(js, js3)
BY DEF Tame

\* failSummaryJob settles one row, or leaves it to a retry with its attempts.
LEMMA FailOK ==
  ASSUME NEW js, RowsOK(js), NEW k \in DOMAIN js, js[k].status # "queued", NEW code
  PROVE  RowsOK(Fail(js, k, code)) /\ Running(Fail(js, k, code)) = Running(js) \ {k}
<1>1. PICK r : Fail(js, k, code) = [js EXCEPT ![k] = r] /\ RowOK(r) /\ r.status = "failed"
  <2>1. CASE code \in RetryCodes
    <3> DEFINE r == [js[k] EXCEPT !.status = "failed", !.code = code]
    <3>1. RowOK(r) /\ r.status = "failed" BY ToRetry DEF RowsOK
    <3>2. Fail(js, k, code) = [js EXCEPT ![k] = r] BY <2>1 DEF Fail
    <3> QED BY <3>1, <3>2
  <2>2. CASE code \notin RetryCodes
    <3>1. Fail(js, k, code) = [js EXCEPT ![k] = Settled(k, "failed", code)] BY <2>2 DEF Fail
    <3> DEFINE r == Settled(k, "failed", code)
    <3>2. RowOK(r) /\ r.status = "failed" BY FreshRows
    <3> HIDE DEF r
    <3> QED BY <3>1, <3>2 DEF r
  <2> QED BY <2>1, <2>2
<1>2. /\ DOMAIN [js EXCEPT ![k] = r] = DOMAIN js
      /\ \A x \in DOMAIN js : [js EXCEPT ![k] = r][x] = IF x = k THEN r ELSE js[x]
      /\ [js EXCEPT ![k] = r] = [x \in DOMAIN js |-> IF x = k THEN r ELSE js[x]]
  OBVIOUS
<1> QED BY <1>1, <1>2 DEF RowsOK, Running

\* claimNextSummaryJob's quarantine starts nothing and leaves what it spares.
LEMMA QuarantineTame == RowsOK(jobs) => Tame(jobs, Quarantined)
<1> SUFFICES ASSUME RowsOK(jobs) PROVE Tame(jobs, Quarantined) OBVIOUS
<1> DEFINE js2 == Quarantined
<1>1. /\ js2 = [k \in DOMAIN js2 |-> js2[k]] /\ DOMAIN js2 = DOMAIN jobs
      /\ \A k \in DOMAIN jobs : \/ js2[k] = jobs[k]
                                \/ js2[k] = Settled(k, "failed", "RANGE_INVALID")
                                \/ js2[k] = Settled(k, "failed", "GAVE_UP")
  BY DEF Quarantined
<1>2. \A k, c : RowOK(Settled(k, "failed", c)) /\ Settled(k, "failed", c).status = "failed"
  BY FreshRows
<1> HIDE DEF js2
<1>3. Tame(jobs, js2) BY <1>1, <1>2 DEF Tame, RowsOK, Running
<1> QED BY <1>3 DEF js2

-----------------------------------------------------------------------------
(* Steps *)

\* A tame change keeps the invariant as long as the worker keeps its job.
LEMMA TameStep ==
  ASSUME IInv, Tame(jobs, jobs'),
         \/ worker' = worker \/ worker' = Kicked
         \/ Running(jobs) = {} /\ \E phase : phase # "asking" /\ worker' = To(phase)
  PROVE  IInv'
<1>1. RowsOK(jobs') /\ Running(jobs') \subseteq Running(jobs)
      /\ \A k \in Running(jobs') : jobs'[k] = jobs[k]
  BY DEF Tame
<1>2. CASE worker' = worker
  BY <1>1, <1>2 DEF IInv, OneRunning, UnpaidYet, WorkerOK
<1>3. CASE worker' = Kicked /\ worker' # worker
  <2>1. worker.phase = "asleep" /\ worker' = [worker EXCEPT !.phase = "scheduled"]
    BY <1>3 DEF Kicked
  <2>2. Running(jobs) = {} BY <2>1 DEF IInv, OneRunning, Busy
  <2>3. WorkerOK' /\ worker'.phase = "scheduled" BY <2>1 DEF IInv, WorkerOK
  <2> QED BY <1>1, <2>2, <2>3 DEF IInv, OneRunning, UnpaidYet
<1>4. CASE Running(jobs) = {} /\ \E phase : phase # "asking" /\ worker' = To(phase)
  <2>1. WorkerOK' /\ worker'.phase # "asking" BY <1>4 DEF To, WorkerOK
  <2>2. Running(jobs') = {} BY <1>1, <1>4
  <2> QED BY <1>1, <2>1, <2>2 DEF IInv, OneRunning, UnpaidYet
<1> QED BY <1>2, <1>3, <1>4

\* While the worker waits for nothing, nothing is running.
LEMMA NothingRunning == IInv /\ worker.phase \notin Busy => Running(jobs) = {}
BY DEF IInv, OneRunning

\* Turns, ends, forgotten memories and clean-ups.
LEMMA ConversationStep == IInv /\ (\E s \in Sessions : Conversation(s)) => IInv'
<1> SUFFICES ASSUME IInv, NEW s \in Sessions, Conversation(s) PROVE IInv' OBVIOUS
<1> USE DEF IInv
<1>1. CASE Question(s)
  BY <1>1, SameTame, TameStep DEF Question
<1>2. CASE \E kept \in BOOLEAN : Answer(s, kept)
  <2>1. Tame(jobs, jobs') BY <1>2, SameTame, ConsiderTame DEF Answer
  <2>2. worker' = worker \/ worker' = Kicked BY <1>2 DEF Answer
  <2> QED BY <2>1, <2>2, TameStep
<1>3. CASE Close(s)
  <2>1. PICK ready \in BOOLEAN : jobs' =
          EnqueueClosed(IF marker[s] = NoMarker THEN jobs ELSE Forgotten(jobs, s), s, through[s], ready)
    BY <1>3 DEF Close
  <2> DEFINE js == IF marker[s] = NoMarker THEN jobs ELSE Forgotten(jobs, s)
  <2>2. Tame(jobs, js) BY SameTame, ForgottenTame
  <2>3. Tame(js, jobs') BY <2>1, <2>2, EnqueueTame DEF Tame
  <2>4. Tame(jobs, jobs') BY <2>2, <2>3, TameTwice
  <2> QED BY <1>3, <2>4, TameStep DEF Close
<1>4. CASE Forget(s)
  BY <1>4, ForgottenTame, TameStep DEF Forget
<1>5. CASE Purge(s)
  <2>1. Tame(jobs, jobs')
    BY <1>5 DEF Purge, Tame, RowsOK, Running
  <2> QED BY <1>5, <2>1, TameStep DEF Purge
<1> QED BY <1>1, <1>2, <1>3, <1>4, <1>5 DEF Conversation

\* A job that is claimed has an attempt left: a queued one has used none, an
\* unknown one with none left was given up by the quarantine just before.
LEMMA ClaimableHasAttempt ==
  ASSUME RowsOK(jobs), NEW k \in DOMAIN jobs, Claimable(k), Running(jobs) = {}
  PROVE  /\ Quarantined[k] = jobs[k] /\ jobs[k].attempts < MaxAttempts
<1>1. jobs[k].status # "running" BY DEF Running
<1>2. \A c : ~Unsettled(Settled(k, "failed", c)) \/ c \in RetryCodes
  BY FreshRows DEF Unsettled, Retryable, Settled, NewJob
<1>3. Quarantined[k] = jobs[k] \/ Quarantined[k] = Settled(k, "failed", "RANGE_INVALID")
      \/ Quarantined[k] = Settled(k, "failed", "GAVE_UP")
  BY DEF Quarantined
<1>4. Quarantined[k] = jobs[k] BY <1>2, <1>3 DEF Claimable, RetryCodes
<1>5. Unsettled(jobs[k]) BY <1>4 DEF Claimable
<1>6. CASE jobs[k].status = "unknown"
  <2> SUFFICES ASSUME jobs[k].attempts >= MaxAttempts PROVE FALSE
    BY <1>4 DEF RowsOK, RowOK
  <2>1. Quarantined[k].status = "failed"
    BY <1>6, FreshRows DEF Quarantined
  <2> QED BY <1>4, <1>6, <2>1
<1>7. CASE jobs[k].status = "queued" BY <1>4, <1>7 DEF RowsOK, RowOK
<1>8. CASE Retryable(jobs[k]) /\ jobs[k].attempts < MaxAttempts BY <1>4, <1>8
<1> QED BY <1>1, <1>4, <1>5, <1>6, <1>7, <1>8 DEF Unsettled

\* The worker claims: the job gets its next attempt, unpaid as yet, or it is
\* replaced by a shorter one.
LEMMA ClaimStep == IInv /\ (\E k \in Key : Claim(k)) => IInv'
<1> SUFFICES ASSUME IInv, NEW k \in Key, Claim(k) PROVE IInv' OBVIOUS
<1> DEFINE batch == First(Uncovered(k), fit)
           claimed == [Quarantined EXCEPT ![k].status = "running", ![k].code = "NONE",
                                          ![k].attempts = @ + 1]
           row == [jobs[k] EXCEPT !.status = "running", !.code = "NONE", !.attempts = @ + 1]
<1>1. Running(jobs) = {} /\ k \in DOMAIN jobs /\ Claimable(k) /\ RowsOK(jobs)
  BY DEF Claim, IInv
<1>2. Quarantined[k] = jobs[k] /\ jobs[k].attempts < MaxAttempts
  BY <1>1, ClaimableHasAttempt
<1>3. RowsOK(Quarantined) /\ Running(Quarantined) = {} /\ DOMAIN Quarantined = DOMAIN jobs
  BY <1>1, QuarantineTame DEF Tame, Quarantined
<1>4. RowOK(row) /\ row.status = "running" /\ row.paid < row.attempts
  <2>1. RowOK(jobs[k]) BY <1>1 DEF RowsOK
  <2>2. /\ jobs[k].attempts + 1 \in 0..MaxAttempts
        /\ jobs[k].paid \in 0..(jobs[k].attempts + 1) /\ jobs[k].paid < jobs[k].attempts + 1
    BY <1>2, <2>1 DEF RowOK
  <2> DEFINE attempts == jobs[k].attempts + 1
  <2>3. row = ClaimRow(jobs[k], "running", "NONE", attempts) BY DEF ClaimRow
  <2>4. attempts \in 0..MaxAttempts /\ jobs[k].paid \in 0..attempts /\ jobs[k].paid < attempts
    BY <2>2
  <2>5. "running" # "queued" OBVIOUS
  <2> HIDE DEF row, attempts
  <2>6. RowOK(row) /\ row.status = "running" /\ row.attempts = attempts /\ row.paid = jobs[k].paid
    BY <2>1, <2>3, <2>4, <2>5, Claimed
  <2> QED BY <2>4, <2>6
<1>5. claimed = [Quarantined EXCEPT ![k] = row]
  BY <1>1, <1>2, <1>3
<1>6. claimed = [x \in DOMAIN jobs |-> IF x = k THEN row ELSE Quarantined[x]]
  BY <1>3, <1>5
<1> HIDE DEF claimed, row
<1>7. RowsOK(claimed) /\ Running(claimed) = {k} /\ claimed[k] = row
  BY <1>1, <1>3, <1>4, <1>6 DEF RowsOK, Running
<1>8. CASE Max(batch) < k.to
  <2>1. PICK ready : jobs' = Insert(Fail(claimed, k, "REBATCHED"), k.session,
                                    state[k.session], k.from, Max(batch), ready)
    BY <1>8 DEF Claim, claimed
  <2>2. RowsOK(Fail(claimed, k, "REBATCHED")) /\ Running(Fail(claimed, k, "REBATCHED")) = {}
    BY <1>1, <1>6, <1>7, <1>4, FailOK
  <2>3. RowsOK(jobs') /\ Running(jobs') = {}
    BY <2>1, <2>2, InsertTame DEF Tame
  <2>4. worker' = worker BY <1>8 DEF Claim
  <2> QED BY <2>3, <2>4 DEF IInv, OneRunning, UnpaidYet, WorkerOK
<1>9. CASE ~(Max(batch) < k.to)
  <2>1. jobs' = claimed /\ worker' = [phase |-> "asking", job |-> k,
                                      draws |-> batch \union Previous(k.session)]
    BY <1>9 DEF Claim, claimed
  <2>2. WorkerOK' /\ worker'.phase = "asking" /\ worker'.job = k
    BY <2>1 DEF WorkerOK
  <2> QED BY <1>4, <1>7, <2>1, <2>2 DEF IInv, OneRunning, UnpaidYet, Busy
<1> QED BY <1>8, <1>9

\* Whatever settles the worker's job leaves nothing running.
LEMMA SettlesStep ==
  ASSUME IInv, worker.phase \in Busy, NEW outcome, Settles(worker.job, outcome),
         worker.job \in Running(jobs) => RowsOK(outcome) /\ Running(outcome) = {}
  PROVE  IInv'
<1>1. Running(jobs) \subseteq {worker.job} BY DEF IInv, OneRunning
<1>2. RowsOK(jobs') /\ Running(jobs') = {}
  BY <1>1 DEF Settles, IInv
<1>3. WorkerOK' /\ worker'.phase = "claiming" BY DEF Settles, To, WorkerOK
<1> QED BY <1>2, <1>3 DEF IInv, OneRunning, UnpaidYet

LEMMA FailedSettles ==
  ASSUME IInv, worker.job \in Running(jobs), NEW code
  PROVE  RowsOK(Failed(worker.job, code)) /\ Running(Failed(worker.job, code)) = {}
<1>1. Running(jobs) = {worker.job} BY DEF IInv, OneRunning
<1>2. worker.job \in DOMAIN jobs /\ jobs[worker.job].status # "queued" BY DEF Running
<1> QED BY <1>1, <1>2, FailOK DEF IInv, Failed

\* The attempt is given back only before the round was paid for.
LEMMA DeferredSettles ==
  ASSUME IInv, worker.job \in Running(jobs), worker.phase \in {"asking", "askingRepair"}
  PROVE  LET js == Deferred(worker.job, worker.phase = "askingRepair")
         IN RowsOK(js) /\ Running(js) = {}
<1> DEFINE k == worker.job
           consumed == worker.phase = "askingRepair"
           left == IF consumed THEN jobs[k].attempts ELSE Max({0, jobs[k].attempts - 1})
           row == [jobs[k] EXCEPT !.deferrals = @ + 1, !.attempts = left]
           counted == [jobs EXCEPT ![k].deferrals = @ + 1,
                                   ![k].attempts = IF consumed THEN @ ELSE Max({0, @ - 1})]
<1>1. k \in DOMAIN jobs /\ jobs[k].status = "running" /\ Running(jobs) = {k} /\ RowsOK(jobs) /\ RowOK(jobs[k])
  BY DEF IInv, OneRunning, Running, RowsOK
<1>2. jobs[k].attempts \in 0..MaxAttempts /\ jobs[k].paid \in 0..jobs[k].attempts
  BY <1>1 DEF RowOK
<1>3. left \in 0..MaxAttempts /\ jobs[k].paid \in 0..left
  <2>1. CASE consumed BY <1>2, <2>1
  <2>2. CASE ~consumed
    <3>1. jobs[k].paid < jobs[k].attempts BY <2>2 DEF IInv, UnpaidYet
    <3>2. ASSUME NEW n \in Nat PROVE Max({0, n}) = n
      <4>1. n \in {0, n} /\ \A y \in {0, n} : n >= y OBVIOUS
      <4>2. ASSUME NEW x \in {0, n}, \A y \in {0, n} : x >= y PROVE x = n BY <4>2
      <4> QED BY <4>1, <4>2 DEF Max
    <3>3. jobs[k].attempts - 1 \in Nat BY <1>2, <3>1
    <3>4. Max({0, jobs[k].attempts - 1}) = jobs[k].attempts - 1 BY <3>2, <3>3
    <3> QED BY <1>2, <2>2, <3>1, <3>4
  <2> QED BY <2>1, <2>2
<1> HIDE DEF left
<1>4. RowOK(row) /\ row.status = "running"
  BY <1>1, <1>3, Counted
<1>5. counted = [jobs EXCEPT ![k] = row] BY <1>1 DEF left, RowOK, RowsOK
<1>6. counted = [x \in DOMAIN jobs |-> IF x = k THEN row ELSE jobs[x]] BY <1>5
<1> HIDE DEF row, counted
<1>7. RowsOK(counted) /\ Running(counted) = {k} /\ k \in DOMAIN counted /\ counted[k].status = "running"
  BY <1>1, <1>4, <1>6 DEF RowsOK, Running
<1>8. \A code : RowsOK(Fail(counted, k, code)) /\ Running(Fail(counted, k, code)) = {}
  BY <1>7, FailOK
<1> QED BY <1>8 DEF Deferred, counted

LEMMA AskStep == IInv /\ Ask => IInv'
<1> SUFFICES ASSUME IInv, Ask PROVE IInv' OBVIOUS
<1>1. WorkerOK' /\ worker'.job = worker.job /\ worker'.phase \in {"calling", "repairing"}
  BY DEF Ask, IInv, WorkerOK
<1>2. CASE worker.phase = "asking" /\ worker.job \in Running(jobs)
  <2> DEFINE k == worker.job
             row == [jobs[k] EXCEPT !.paid = @ + 1]
  <2>1. k \in DOMAIN jobs /\ RowsOK(jobs) /\ RowOK(jobs[k]) BY <1>2 DEF IInv, RowsOK, Running
  <2>2. jobs[k].paid < jobs[k].attempts BY <1>2 DEF IInv, UnpaidYet
  <2>3. RowOK(row) /\ row.status = jobs[k].status
    <3>1. jobs[k].paid + 1 \in 0..jobs[k].attempts BY <2>1, <2>2 DEF RowOK
    <3> QED BY <2>1, <3>1, Paid
  <2>4. jobs' = [jobs EXCEPT ![k] = row] BY <1>2 DEF Ask
  <2>5. jobs' = [x \in DOMAIN jobs |-> IF x = k THEN row ELSE jobs[x]]
    BY <2>1, <2>4 DEF RowsOK
  <2> HIDE DEF row
  <2>6. RowsOK(jobs') /\ Running(jobs') = Running(jobs)
    BY <2>1, <2>3, <2>5 DEF RowsOK, Running
  <2> QED BY <1>1, <2>6 DEF IInv, OneRunning, UnpaidYet, Busy
<1>3. CASE ~(worker.phase = "asking" /\ worker.job \in Running(jobs))
  <2>1. jobs' = jobs BY <1>3 DEF Ask
  <2> QED BY <1>1, <2>1 DEF IInv, OneRunning, UnpaidYet, Busy
<1> QED BY <1>2, <1>3

\* The timer, and the two steps of the drain that start nothing.
LEMMA IdleStep == IInv /\ (TimerKick \/ Drain \/ NothingDue) => IInv'
<1> SUFFICES ASSUME IInv, TimerKick \/ Drain \/ NothingDue PROVE IInv' OBVIOUS
<1>0. RowsOK(jobs) BY DEF IInv
<1>1. CASE TimerKick BY <1>0, <1>1, SameTame, TameStep DEF TimerKick
<1>2. CASE Drain
  <2>1. Running(jobs) = {} BY <1>2, NothingRunning DEF Drain, Busy
  <2>2. Tame(jobs, jobs') BY <1>0, <1>2, SameTame, EnqueueTame DEF Drain
  <2>3. "claiming" # "asking" /\ worker' = To("claiming") BY <1>2 DEF Drain
  <2> QED BY <2>1, <2>2, <2>3, TameStep
<1>3. CASE NothingDue
  <2>1. Running(jobs) = {} BY <1>3, NothingRunning DEF NothingDue, Busy
  <2>2. Tame(jobs, jobs') BY <1>0, <1>3, QuarantineTame DEF NothingDue
  <2>3. "asleep" # "asking" /\ worker' = To("asleep") BY <1>3 DEF NothingDue
  <2> QED BY <2>1, <2>2, <2>3, TameStep
<1> QED BY <1>1, <1>2, <1>3

\* Refusals, failed calls and bad answers.
LEMMA RefusedStep == IInv /\ (Refused \/ CallFails \/ BadAnswer) => IInv'
<1> SUFFICES ASSUME IInv, Refused \/ CallFails \/ BadAnswer PROVE IInv' OBVIOUS
<1> DEFINE k == worker.job
<1>0. worker.phase \in Busy BY DEF Refused, CallFails, BadAnswer, Busy
<1>1. CASE \E code : Settles(k, Failed(k, code))
  BY <1>0, <1>1, FailedSettles, SettlesStep
<1>2. CASE /\ worker.phase \in {"asking", "askingRepair"}
           /\ Settles(k, Deferred(k, worker.phase = "askingRepair"))
  BY <1>0, <1>2, DeferredSettles, SettlesStep
<1>3. CASE /\ BadAnswer /\ worker.phase = "calling"
           /\ worker' = [worker EXCEPT !.phase = "askingRepair"] /\ jobs' = jobs
  <2>1. WorkerOK' /\ worker'.job = worker.job /\ worker'.phase = "askingRepair"
    BY <1>3 DEF IInv, WorkerOK
  <2> QED BY <1>3, <2>1 DEF IInv, OneRunning, UnpaidYet, Busy
<1> QED BY <1>1, <1>2, <1>3 DEF Refused, CallFails, BadAnswer

\* A summary is stored: its job settles, and the next range is planned.
LEMMA GoodAnswerStep == IInv /\ GoodAnswer => IInv'
<1> SUFFICES ASSUME IInv, GoodAnswer PROVE IInv' OBVIOUS
<1> DEFINE k == worker.job
           s == k.session
           row == Settled(k, "completed", "NONE")
           done == [jobs EXCEPT ![k] = row]
<1>1. worker.phase \in Busy BY DEF GoodAnswer, Busy
<1>2. CASE Completable(k)
  <2>1. k \in DOMAIN jobs /\ Running(jobs) = {k} /\ RowsOK(jobs)
    BY <1>2 DEF Completable, IInv, OneRunning, Running
  <2>2. RowOK(row) /\ row.status = "completed" BY FreshRows
  <2>3. done = [x \in DOMAIN jobs |-> IF x = k THEN row ELSE jobs[x]]
    BY <2>1 DEF RowsOK
  <2>4. \/ \E ready : jobs' = EnqueueClosed(done, s, k.to, ready)
        \/ \E ready : jobs' = Consider(done, s, state[s], log[s], k.to + 1, ready)
    BY <1>2 DEF GoodAnswer
  <2>5. worker' = To("claiming") BY <1>2 DEF GoodAnswer
  <2> HIDE DEF row, done
  <2>6. RowsOK(done) /\ Running(done) = {} BY <2>1, <2>2, <2>3 DEF RowsOK, Running
  <2>7. Tame(done, jobs') BY <2>4, <2>6, EnqueueTame, ConsiderTame
  <2>8. RowsOK(jobs') /\ Running(jobs') = {} BY <2>6, <2>7 DEF Tame
  <2>9. WorkerOK' /\ worker'.phase = "claiming" BY <2>5 DEF To, WorkerOK
  <2> QED BY <2>8, <2>9 DEF IInv, OneRunning, UnpaidYet
<1>3. CASE ~Completable(k)
  <2>1. PICK code : Settles(k, Failed(k, code)) BY <1>3 DEF GoodAnswer
  <2> QED BY <1>1, <2>1, FailedSettles, SettlesStep
<1> QED BY <1>2, <1>3

\* A restart leaves no row running: its outcome is unknown.
LEMMA WorkerRestartStep == IInv /\ Restart => IInv'
<1> SUFFICES ASSUME IInv, Restart PROVE IInv' OBVIOUS
<1>1. ASSUME NEW r, RowOK(r)
      PROVE  LET r2 == [r EXCEPT !.status = "unknown"]
             IN RowOK(r2) /\ r2.status = "unknown"
  BY <1>1 DEF RowOK, Columns
<1>2. /\ DOMAIN jobs' = DOMAIN jobs
      /\ jobs' = [k \in DOMAIN jobs' |-> jobs'[k]]
      /\ \A k \in DOMAIN jobs : jobs'[k] = IF jobs[k].status = "running"
                                         THEN [jobs[k] EXCEPT !.status = "unknown"] ELSE jobs[k]
  BY DEF Restart
<1>3. \A k \in DOMAIN jobs : RowOK(jobs'[k]) /\ jobs'[k].status # "running"
  BY <1>1, <1>2 DEF IInv, RowsOK
<1>4. RowsOK(jobs') /\ Running(jobs') = {} BY <1>2, <1>3 DEF RowsOK, Running
<1>5. WorkerOK' /\ worker'.phase = "scheduled" BY DEF Restart, To, WorkerOK
<1> QED BY <1>4, <1>5 DEF IInv, OneRunning, UnpaidYet

-----------------------------------------------------------------------------
(* The theorems *)

LEMMA InitSafe == Init => IInv
<1> SUFFICES ASSUME Init PROVE IInv OBVIOUS
<1>1. jobs = [k \in {} |-> NewJob] BY DEF Init
<1>2. RowsOK(jobs) /\ Running(jobs) = {} BY <1>1 DEF RowsOK, Running
<1>3. WorkerOK BY DEF Init, WorkerOK
<1> QED BY <1>2, <1>3 DEF IInv, OneRunning, UnpaidYet

LEMMA StepSafe == IInv /\ [Next]_vars => IInv'
<1>1. IInv /\ UNCHANGED vars => IInv'
  BY DEF vars, IInv, WorkerOK, OneRunning, UnpaidYet
<1> QED
  BY <1>1, ConversationStep, IdleStep, ClaimStep, AskStep, RefusedStep, GoodAnswerStep,
     WorkerRestartStep DEF Next

\* The invariant the other two follow from: rows are well formed, the running
\* one is the worker's, and while its first request of a round is still to be
\* accepted that round's attempt is not paid for.
THEOREM Inductive == Spec => []IInv
BY InitSafe, StepSafe, PTL DEF Spec

\* claimNextSummaryJob, the settling statements and recoverInterrupted: a row
\* says "running" only while the worker waits for that very job.
THEOREM OneRunningAlways == Spec => []OneRunning
<1>1. IInv => OneRunning BY DEF IInv
<1> QED BY <1>1, Inductive, PTL

\* deferSummaryJob gives an attempt back, and even so no job is sent to the
\* provider in more than MaxAttempts rounds, for any number of deferrals,
\* restarts and re-planned ranges.
THEOREM RoundsBounded == Spec => []AttemptsBounded
<1>1. IInv => AttemptsBounded
  BY DEF IInv, RowsOK, RowOK, AttemptsBounded
<1> QED BY <1>1, Inductive, PTL

-----------------------------------------------------------------------------
(* Numbers of messages                                                     *)

LEMMA Limits ==
  /\ MaxMessages \in Nat /\ LastGeneration \in Nat /\ Fits \subseteq Nat \ {0}
  /\ KeepRecent \in Nat /\ KeepRecent > 0 /\ MaxBatch \in Nat /\ MaxBatch > 0
  /\ CloseMin \in Nat /\ CloseMin > 0 /\ MaxDeferrals \in Nat /\ MaxDeferrals > 0
  /\ Threshold \in Nat /\ KeepRecent < Threshold
BY SummaryParameters DEF SummaryParameters

\* Every set of messages that is not empty has a first one, and a last one.
LEMMA LeastOf ==
  ASSUME NEW S, S \subseteq Nat, S # {}
  PROVE  Min(S) \in S /\ \A y \in S : Min(S) <= y
<1>1. PICK x \in S : \A y \in S : ~(<<y, x>> \in OpToRel(<, Nat))
  BY NatLessThanWellFounded, WFMin
<1>2. \A y \in S : x <= y
  <2> SUFFICES ASSUME NEW y \in S, ~(x <= y) PROVE FALSE OBVIOUS
  <2>1. x \in Nat /\ y \in Nat /\ y < x OBVIOUS
  <2>2. <<y, x>> \in OpToRel(<, Nat) BY <2>1 DEF OpToRel
  <2> QED BY <1>1, <2>2
<1> QED BY <1>2 DEF Min

LEMMA GreatestOf ==
  ASSUME NEW n \in Nat, NEW S, S \subseteq 0..n, S # {}
  PROVE  Max(S) \in S /\ \A y \in S : y <= Max(S)
<1> DEFINE T == {n - y : y \in S}
<1>0. \A y \in S : y \in 0..n /\ n - y \in Nat OBVIOUS
<1>1. T \subseteq Nat /\ T # {} BY <1>0
<1> HIDE DEF T
<1>2. Min(T) \in T /\ \A z \in T : Min(T) <= z BY <1>1, LeastOf
<1>3. PICK x \in S : Min(T) = n - x BY <1>2 DEF T
<1>4. \A y \in S : y <= x
  <2> SUFFICES ASSUME NEW y \in S PROVE y <= x OBVIOUS
  <2>1. n - y \in T BY DEF T
  <2>2. n - x <= n - y BY <1>2, <1>3, <2>1
  <2>3. x \in Int /\ y \in Int BY <1>0
  <2> QED BY <2>2, <2>3
<1> QED BY <1>4 DEF Max

LEMMA LeastIs ==
  ASSUME NEW S, S \subseteq Nat, NEW x \in S, \A y \in S : x <= y
  PROVE  Min(S) = x
<1>1. Min(S) \in S /\ Min(S) <= x /\ x <= Min(S) BY LeastOf
<1>2. Min(S) \in Nat /\ x \in Nat BY <1>1
<1> QED BY <1>1, <1>2

\* The first messages of a set: there are some, and no more than asked for.
LEMMA FirstSome ==
  ASSUME NEW N \in Nat, NEW S, S \subseteq 1..N, S # {}, NEW n \in Nat \ {0}
  PROVE  /\ IsFiniteSet(S) /\ Cardinality(S) \in Nat
         /\ First(S, n) \subseteq S /\ Max(First(S, n)) \in S
         /\ \A x \in First(S, n) : x <= Max(First(S, n))
         /\ Cardinality({y \in S : y <= Max(First(S, n))}) <= n
<1>1. IsFiniteSet(S)
  <2>1. IsFiniteSet(1..N) BY FS_Interval
  <2> QED BY <2>1, FS_Subset
<1>2. First(S, n) \subseteq S BY DEF First
<1>3. First(S, n) # {}
  <2>1. S \subseteq Nat OBVIOUS
  <2>2. Min(S) \in S /\ \A y \in S : Min(S) <= y BY <2>1, LeastOf
  <2>3. {y \in S : y <= Min(S)} = {Min(S)}
    <3>1. \A y \in S : y <= Min(S) => y = Min(S)
      <4> SUFFICES ASSUME NEW y \in S, y <= Min(S) PROVE y = Min(S) OBVIOUS
      <4>1. y \in Nat /\ Min(S) \in Nat /\ Min(S) <= y BY <2>1, <2>2
      <4> QED BY <4>1
    <3>2. Min(S) <= Min(S) BY <2>2
    <3> QED BY <2>2, <3>1, <3>2
  <2>4. Cardinality({y \in S : y <= Min(S)}) = 1 BY <2>3, FS_Singleton
  <2>5. 1 <= n OBVIOUS
  <2>6. Min(S) \in First(S, n) BY <2>2, <2>4, <2>5 DEF First
  <2> QED BY <2>6
<1>4. First(S, n) \subseteq 0..N
  <2>1. 1..N \subseteq 0..N OBVIOUS
  <2> QED BY <1>2, <2>1
<1>5. Max(First(S, n)) \in First(S, n) /\ \A x \in First(S, n) : x <= Max(First(S, n))
  BY <1>3, <1>4, GreatestOf
<1>6. Cardinality({y \in S : y <= Max(First(S, n))}) <= n BY <1>5 DEF First
<1> QED BY <1>1, <1>2, <1>5, <1>6, FS_CardinalityType

\* All of them, if the last of the set is among them.
LEMMA FirstAll ==
  ASSUME NEW N \in Nat, NEW S, S \subseteq 1..N, NEW n \in Nat \ {0},
         NEW top \in S, \A x \in S : x <= top, top <= Max(First(S, n))
  PROVE  First(S, n) = S
<1> DEFINE m == Max(First(S, n))
           below(x) == {y \in S : y <= x}
<1>1. /\ IsFiniteSet(S) /\ First(S, n) \subseteq S /\ m \in S
      /\ Cardinality(below(m)) <= n
  BY FirstSome
<1>2. ASSUME NEW x \in S PROVE x \in First(S, n)
  <2>1. x <= m
    <3>1. x <= top /\ top <= m OBVIOUS
    <3>2. S \subseteq Int OBVIOUS
    <3>3. x \in Int /\ top \in Int /\ m \in Int BY <1>1, <3>2
    <3> HIDE DEF m
    <3> QED BY <3>1, <3>3
  <2>2. below(x) \in SUBSET below(m)
    <3>1. S \subseteq Int OBVIOUS
    <3>2. x \in Int /\ m \in Int BY <1>1, <3>1
    <3> HIDE DEF m
    <3>3. \A y \in S : y <= x => y <= m BY <2>1, <3>1, <3>2
    <3> QED BY <3>3
  <2>3. below(m) \in SUBSET S OBVIOUS
  <2> HIDE DEF below, m
  <2>4. IsFiniteSet(below(m)) BY <1>1, <2>3, FS_Subset
  <2>5. IsFiniteSet(below(x)) /\ Cardinality(below(x)) <= Cardinality(below(m))
    BY <2>2, <2>4, FS_Subset
  <2>6. Cardinality(below(x)) \in Nat /\ Cardinality(below(m)) \in Nat
    BY <2>4, <2>5, FS_CardinalityType
  <2>7. Cardinality(below(x)) <= n BY <1>1, <2>5, <2>6
  <2> QED BY <2>7 DEF First, below
<1> QED BY <1>1, <1>2

\* What is left behind them.
LEMMA Remaining ==
  ASSUME NEW S, S \subseteq Nat, IsFiniteSet(S), NEW x \in Nat, NEW n \in Nat,
         Cardinality({y \in S : y <= x}) <= n
  PROVE  Cardinality({y \in S : y > x}) >= Cardinality(S) - n
<1> DEFINE T == {y \in S : y <= x}
<1>0. \A y \in S : y > x <=> ~(y <= x) OBVIOUS
<1>1. {y \in S : y > x} = S \ T /\ S \cap T = T /\ T \in SUBSET S BY <1>0
<1>2. IsFiniteSet(T)
  <2> HIDE DEF T
  <2> QED BY <1>1, FS_Subset
<1>3. Cardinality(T) \in Nat /\ Cardinality(S) \in Nat BY <1>2, FS_CardinalityType
<1>4. Cardinality(S \ T) = Cardinality(S) - Cardinality(T)
  <2> HIDE DEF T
  <2> QED BY <1>1, FS_Difference
<1>5. Cardinality(T) <= n OBVIOUS
<1> HIDE DEF T
<1> QED BY <1>1, <1>3, <1>4, <1>5

-----------------------------------------------------------------------------
(* A log that grows                                                        *)

Message == [user : BOOLEAN, kept : BOOLEAN]
After(l, n) == {i \in Kept(l) : i > n}

LEMMA KeptRange ==
  ASSUME NEW l \in Seq(Message), Len(l) <= MaxMessages, NEW S, S \subseteq Kept(l)
  PROVE  /\ Kept(l) \subseteq 1..Len(l) /\ S \subseteq 1..MaxMessages /\ S \subseteq Nat
         /\ IsFiniteSet(S) /\ Cardinality(S) \in Nat
<1>1. Kept(l) \subseteq 1..Len(l) /\ S \subseteq 1..MaxMessages BY Limits DEF Kept
<1>2. IsFiniteSet(1..MaxMessages) BY Limits, FS_Interval
<1>3. IsFiniteSet(S) BY <1>1, <1>2, FS_Subset
<1> QED BY <1>1, <1>3, FS_CardinalityType

LEMMA FloorSays ==
  ASSUME NEW l \in Seq(Message), NEW m \in Int
  PROVE  /\ Floor(l, m) \in Nat
         /\ m # NoMarker /\ Floor(l, m) # NoFloor => Floor(l, m) > m
         /\ m = NoMarker => Floor(l, m) = 1
<1> DEFINE after == {i \in Kept(l) : l[i].user /\ i > m}
<1>1. after \subseteq Nat BY DEF Kept
<1>2. \A i \in after : i > m OBVIOUS
<1>3. Floor(l, m) = IF m = NoMarker THEN 1 ELSE IF after = {} THEN NoFloor ELSE Min(after) BY DEF Floor
<1> HIDE DEF after
<1>4. after # {} => Min(after) \in after BY <1>1, LeastOf
<1>5. NoFloor = 0 /\ (m # NoMarker /\ after # {} => Min(after) \in Nat /\ Min(after) > m)
  BY <1>1, <1>2, <1>4 DEF NoFloor
<1> QED BY <1>3, <1>5

LEMMA Grown ==
  ASSUME NEW l \in Seq(Message), NEW e \in Message, NEW l2, l2 = Append(l, e)
  PROVE  /\ l2 \in Seq(Message) /\ Len(l2) = Len(l) + 1
         /\ Kept(l) \subseteq Kept(l2) /\ Kept(l2) \subseteq Kept(l) \cup {Len(l) + 1}
         /\ \A m \in Int : IF Floor(l, m) # NoFloor THEN Floor(l2, m) = Floor(l, m)
                          ELSE Floor(l2, m) \in {NoFloor, Len(l) + 1}
<1>1. l2 \in Seq(Message) /\ Len(l2) = Len(l) + 1 /\ DOMAIN l2 = 1..Len(l2) /\ DOMAIN l = 1..Len(l) /\ Len(l) \in Nat
  OBVIOUS
<1>2. \A i \in 1..Len(l) : l2[i] = l[i] OBVIOUS
<1>3. Kept(l) \subseteq Kept(l2) /\ Kept(l2) \subseteq Kept(l) \cup {Len(l) + 1}
  BY <1>1, <1>2 DEF Kept
<1>4. ASSUME NEW m \in Int
      PROVE  IF Floor(l, m) # NoFloor THEN Floor(l2, m) = Floor(l, m)
             ELSE Floor(l2, m) \in {NoFloor, Len(l) + 1}
  <2> DEFINE a == {i \in Kept(l) : l[i].user /\ i > m}
             a2 == {i \in Kept(l2) : l2[i].user /\ i > m}
  <2>1. Floor(l, m) = IF m = NoMarker THEN 1 ELSE IF a = {} THEN NoFloor ELSE Min(a) BY DEF Floor
  <2>2. Floor(l2, m) = IF m = NoMarker THEN 1 ELSE IF a2 = {} THEN NoFloor ELSE Min(a2) BY DEF Floor
  <2>3. a \subseteq 1..Len(l) /\ a2 \subseteq 1..Len(l2) BY DEF Kept
  <2>4. a \subseteq a2 /\ a2 \subseteq a \cup {Len(l) + 1}
    <3>1. Kept(l) \subseteq 1..Len(l) BY DEF Kept
    <3>2. \A i \in Kept(l) : l2[i] = l[i] BY <1>2, <3>1
    <3> QED BY <1>3, <3>2
  <2> HIDE DEF a, a2
  <2>5. CASE m = NoMarker
    <3>1. Floor(l, m) = 1 /\ Floor(l2, m) = 1 BY <2>1, <2>2, <2>5
    <3> QED BY <3>1 DEF NoFloor
  <2>7. CASE m # NoMarker /\ Floor(l, m) = NoFloor
    <3>1. a = {}
      <4> SUFFICES ASSUME a # {} PROVE FALSE OBVIOUS
      <4>1. a \subseteq Nat BY <2>3
      <4>2. Min(a) \in a BY <4>1, LeastOf
      <4>3. Min(a) \in 1..Len(l) /\ Floor(l, m) = Min(a) BY <2>1, <2>3, <2>7, <4>2
      <4> QED BY <2>7, <4>3 DEF NoFloor
    <3>2. a2 \subseteq {Len(l) + 1} /\ a2 \subseteq Nat BY <2>3, <2>4, <3>1
    <3>3. a2 # {} => Min(a2) \in a2 BY <3>2, LeastOf
    <3> QED BY <2>2, <2>7, <3>2, <3>3
  <2>6. CASE m # NoMarker /\ Floor(l, m) # NoFloor
    <3>1. a # {} /\ a2 # {} BY <2>1, <2>4, <2>6
    <3>2. a \subseteq Nat /\ a2 \subseteq Nat BY <2>3
    <3>3. Min(a) \in a /\ \A y \in a : Min(a) <= y BY <3>1, <3>2, LeastOf
    <3>4. \A y \in a2 : Min(a) <= y
      <4>1. Min(a) \in 1..Len(l) /\ Len(l) \in Nat BY <1>1, <2>3, <3>3
      <4>2. Min(a) <= Len(l) + 1 BY <4>1
      <4> QED BY <2>4, <3>3, <4>2
    <3>5. Min(a2) = Min(a) BY <2>4, <3>2, <3>3, <3>4, LeastIs
    <3> QED BY <2>1, <2>2, <2>6, <3>1, <3>5
  <2> QED BY <2>5, <2>6, <2>7
<1> QED BY <1>1, <1>3, <1>4

LEMMA AfterGrows ==
  ASSUME NEW l \in Seq(Message), NEW l2 \in Seq(Message), Len(l2) <= MaxMessages,
         Kept(l) \subseteq Kept(l2), NEW n, Cardinality(After(l, n)) >= KeepRecent,
         Len(l) <= Len(l2)
  PROVE  Cardinality(After(l2, n)) >= KeepRecent
<1>1. After(l, n) \subseteq Kept(l) /\ After(l2, n) \subseteq Kept(l2)
      /\ After(l, n) \in SUBSET After(l2, n)
  BY DEF After
<1>2. IsFiniteSet(After(l2, n)) /\ Cardinality(After(l2, n)) \in Nat BY <1>1, KeptRange
<1>3. Len(l) <= MaxMessages
  <2>1. Len(l) \in Nat /\ Len(l2) \in Nat OBVIOUS
  <2> QED BY <2>1, Limits
<1>4. Cardinality(After(l, n)) \in Nat BY <1>1, <1>3, KeptRange
<1>5. Cardinality(After(l, n)) <= Cardinality(After(l2, n)) BY <1>1, <1>2, FS_Subset
<1> QED BY <1>2, <1>4, <1>5, Limits

-----------------------------------------------------------------------------
(* The rows beside their sessions                                          *)

\* A job covers messages that are there, up to one that was committed.
KeyOK(k, l) == k \in Key /\ k.from <= k.to /\ k.to \in Kept(l[k.session])
RowTyped(r) ==
  /\ r.status \in {"queued", "running", "completed", "failed", "unknown"} /\ r.code \in Codes
  /\ r.deferrals \in 0..MaxDeferrals /\ r.anchor \in 0..MaxMessages
\* A job that may still run begins behind what is covered, leaves the recent
\* messages of a live session alone, and is the only one of its session.
Ahead(k, l, th, st) ==
  /\ k.from > th[k.session]
  /\ st[k.session] = "open" => Cardinality(After(l[k.session], k.to)) >= KeepRecent
Alone(js, k) == \A o \in DOMAIN js : o.session = k.session /\ Unsettled(js[o]) => o = k
PlansOK(js, l, th, st) ==
  \A k \in DOMAIN js :
    /\ KeyOK(k, l) /\ RowTyped(js[k])
    /\ Unsettled(js[k]) => Ahead(k, l, th, st) /\ Alone(js, k)

\* What may be said of logs and coverage at any time.
LogsOK(l, th) ==
  /\ l \in [Sessions -> Seq(Message)] /\ \A s \in Sessions : Len(l[s]) <= MaxMessages
  /\ th \in [Sessions -> Nat] /\ \A s \in Sessions : th[s] <= Len(l[s])

LEMMA KeyFields ==
  ASSUME NEW k \in Key
  PROVE  /\ k.session \in Sessions /\ k.from \in 1..MaxMessages /\ k.to \in 1..MaxMessages
         /\ k.gen \in 0..LastGeneration
BY DEF Key, Sequence

\* Rows settle, keep their numbers or go.
Settling(js, js2) ==
  /\ DOMAIN js2 \subseteq DOMAIN js
  /\ \A k \in DOMAIN js2 : RowTyped(js2[k]) /\ (Unsettled(js2[k]) => Unsettled(js[k]))

LEMMA SettlePlans ==
  ASSUME NEW js, NEW js2, NEW l, NEW th, NEW st, PlansOK(js, l, th, st), Settling(js, js2)
  PROVE  PlansOK(js2, l, th, st)
BY DEF PlansOK, Settling, Alone

\* Typed rows: new ones and settled ones.
LEMMA SettledTyped ==
  ASSUME NEW k, NEW n \in 0..MaxMessages, Len(log[k.session]) = n,
         NEW status \in {"queued", "running", "completed", "failed", "unknown"}, NEW code \in Codes
  PROVE  /\ RowTyped(NewJob) /\ RowTyped(Settled(k, status, code))
         /\ (status = "completed" \/ (status = "failed" /\ code \notin RetryCodes)) =>
              ~Unsettled(Settled(k, status, code))
<1>1. 0 \in 0..MaxMessages /\ 0 \in 0..MaxDeferrals /\ "NONE" \in Codes BY Limits DEF Codes
<1>2. RowTyped(NewJob) BY <1>1 DEF RowTyped, NewJob
<1>3. /\ Settled(k, status, code).status = status /\ Settled(k, status, code).code = code
      /\ Settled(k, status, code).deferrals = 0
      /\ Settled(k, status, code).anchor = IF code \in TerminalCodes THEN n ELSE 0
  BY DEF Settled, NewJob
<1>4. RowTyped(Settled(k, status, code)) BY <1>1, <1>3 DEF RowTyped
<1> QED BY <1>2, <1>3, <1>4 DEF Unsettled, Retryable

\* Among the rows that gave a start up there is a newest one.
LEMMA NewestIs ==
  ASSUME NEW js, \A k \in DOMAIN js : k \in Key /\ js[k].anchor \in 0..MaxMessages,
         NEW s, NEW from, Terminals(js, s, from) # {}
  PROVE  /\ NewestTerminal(js, s, from) \in Terminals(js, s, from)
         /\ Max({k.gen : k \in Terminals(js, s, from)}) \in 0..NewestTerminal(js, s, from).gen
<1> DEFINE T == Terminals(js, s, from)
           G == {k.gen : k \in T}
           A == {js[k].anchor : k \in {t \in T : t.gen = Max(G)}}
<1>1. \A k \in T : k.gen \in 0..LastGeneration /\ js[k].anchor \in 0..MaxMessages
  BY KeyFields DEF Terminals
<1>2. G # {} /\ G \subseteq 0..LastGeneration BY <1>1
<1>3. Max(G) \in G /\ \A g \in G : g <= Max(G)
  <2> HIDE DEF G
  <2> QED BY <1>2, Limits, GreatestOf
<1>4. A # {} /\ A \subseteq 0..MaxMessages BY <1>1, <1>3
<1>5. Max(A) \in A /\ \A a \in A : a <= Max(A)
  <2> HIDE DEF A
  <2> QED BY <1>4, Limits, GreatestOf
<1>6. PICK k \in T : k.gen = Max(G) /\ js[k].anchor = Max(A) BY <1>5
<1>7. \A o \in T : k.gen > o.gen \/ (k.gen = o.gen /\ js[k].anchor >= js[o].anchor)
  <2> SUFFICES ASSUME NEW o \in T PROVE k.gen > o.gen \/ (k.gen = o.gen /\ js[k].anchor >= js[o].anchor)
    OBVIOUS
  <2>1. o.gen \in 0..LastGeneration /\ k.gen \in 0..LastGeneration BY <1>1
  <2>2. o.gen <= k.gen BY <1>3, <1>6
  <2>3. o.gen = k.gen => js[o].anchor <= js[k].anchor BY <1>5, <1>6
  <2>4. js[o].anchor \in 0..MaxMessages /\ js[k].anchor \in 0..MaxMessages BY <1>1
  <2> QED BY <2>1, <2>2, <2>3, <2>4
<1> DEFINE new == NewestTerminal(js, s, from)
<1>8. new \in T /\ \A o \in T : new.gen > o.gen \/ (new.gen = o.gen /\ js[new].anchor >= js[o].anchor)
  BY <1>6, <1>7 DEF NewestTerminal
<1>9. Max(G) <= new.gen /\ new.gen \in 0..LastGeneration /\ Max(G) \in 0..LastGeneration
  <2>1. k.gen \in 0..LastGeneration /\ new.gen \in 0..LastGeneration BY <1>1, <1>8
  <2>2. new.gen > k.gen \/ new.gen = k.gen BY <1>8
  <2> QED BY <1>6, <2>1, <2>2
<1> HIDE DEF T, new
<1> QED BY <1>8, <1>9 DEF T, new

\* insertSummaryJob: a range of its own, or the row that is there already.
LEMMA InsertPlans ==
  ASSUME NEW js, NEW l, NEW th, NEW st, PlansOK(js, l, th, st),
         NEW s \in Sessions, ~Blocking(js, s), NEW sort,
         NEW from \in 1..MaxMessages, NEW to \in 1..MaxMessages, NEW ready,
         from > th[s], from <= to, to \in Kept(l[s]),
         st[s] = "open" => Cardinality(After(l[s], to)) >= KeepRecent
  PROVE  PlansOK(Insert(js, s, sort, from, to, ready), l, th, st)
<1> DEFINE terminal == Terminals(js, s, from)
           gen == IF terminal = {} \/ GivenUp(js, s, sort, from, ready)
                  THEN 0 ELSE Max({k.gen : k \in terminal}) + 1
           key == [session |-> s, from |-> from, to |-> to, gen |-> gen]
           js2 == [k \in DOMAIN js \cup {key} |-> IF k \in DOMAIN js THEN js[k] ELSE NewJob]
<1>1. Insert(js, s, sort, from, to, ready) = js2 BY DEF Insert
<1>2. gen \in 0..LastGeneration
  <2>1. \A k \in DOMAIN js : k \in Key /\ js[k].anchor \in 0..MaxMessages BY DEF PlansOK, KeyOK, RowTyped
  <2>2. CASE terminal = {} \/ GivenUp(js, s, sort, from, ready) BY <2>2, Limits
  <2>3. CASE terminal # {} /\ ~GivenUp(js, s, sort, from, ready)
    <3> DEFINE new == NewestTerminal(js, s, from)
               m == Max({k.gen : k \in terminal})
    <3>1. new \in terminal /\ m \in 0..new.gen BY <2>1, <2>3, NewestIs
    <3>2. ~(new.gen >= LastGeneration) BY <2>3 DEF GivenUp
    <3>3. new.gen \in 0..LastGeneration BY <2>1, <3>1, KeyFields DEF Terminals
    <3>4. gen = m + 1 BY <2>3
    <3> HIDE DEF new, m
    <3>5. m + 1 \in 0..LastGeneration BY <3>1, <3>2, <3>3, Limits
    <3> QED BY <3>4, <3>5
  <2> QED BY <2>2, <2>3
<1> HIDE DEF gen
<1>3. key \in Key /\ key.session = s /\ key.from = from /\ key.to = to BY <1>2 DEF Key, Sequence
<1> HIDE DEF key
<1>4. KeyOK(key, l) /\ Ahead(key, l, th, st) BY <1>3 DEF KeyOK, Ahead
<1>5. RowTyped(NewJob)
  <2>1. 0 \in 0..MaxMessages /\ 0 \in 0..MaxDeferrals /\ "NONE" \in Codes BY Limits DEF Codes
  <2> QED BY <2>1 DEF RowTyped, NewJob
<1>6. /\ DOMAIN js2 = DOMAIN js \cup {key}
      /\ \A k \in DOMAIN js2 : js2[k] = IF k \in DOMAIN js THEN js[k] ELSE NewJob
  OBVIOUS
<1> HIDE DEF js2
<1>7. ASSUME NEW k \in DOMAIN js2
      PROVE  /\ KeyOK(k, l) /\ RowTyped(js2[k])
             /\ Unsettled(js2[k]) => Ahead(k, l, th, st) /\ Alone(js2, k)
  <2>1. \A o \in DOMAIN js : o.session = s => ~Unsettled(js[o]) BY DEF Blocking
  <2>2. CASE k \in DOMAIN js
    <3>1. KeyOK(k, l) /\ RowTyped(js2[k]) /\ (Unsettled(js2[k]) => Ahead(k, l, th, st))
      BY <1>6, <2>2 DEF PlansOK
    <3>2. ASSUME Unsettled(js2[k]) PROVE Alone(js2, k)
      <4>1. k.session # s BY <1>6, <2>1, <2>2, <3>2
      <4>2. Alone(js, k) BY <1>6, <2>2, <3>2 DEF PlansOK
      <4> QED BY <1>3, <1>6, <4>1, <4>2 DEF Alone
    <3> QED BY <3>1, <3>2
  <2>3. CASE k \notin DOMAIN js
    <3>1. k = key /\ js2[k] = NewJob BY <1>6, <2>3
    <3>2. Alone(js2, k) BY <1>3, <1>6, <2>1, <3>1 DEF Alone
    <3> QED BY <1>4, <1>5, <3>1, <3>2
  <2> QED BY <2>2, <2>3
<1> QED BY <1>1, <1>7 DEF PlansOK

\* A closed session: the next range behind what is covered.
LEMMA EnqueuePlans ==
  ASSUME NEW js, NEW l, NEW th, NEW st, PlansOK(js, l, th, st), LogsOK(l, th), fit \in Fits,
         NEW s \in Sessions, l[s] = log[s], st[s] # "open", NEW ready
  PROVE  PlansOK(EnqueueClosed(js, s, th[s], ready), l, th, st)
<1> DEFINE covered == th[s]
           pend == {i \in Kept(log[s]) : i > covered}
           to == Max(First(pend, fit))
<1>1. CASE EnqueueClosed(js, s, covered, ready) = js BY <1>1
<1>2. CASE EnqueueClosed(js, s, covered, ready) # js
  <2>1. /\ EnqueueClosed(js, s, covered, ready) = Insert(js, s, "closed", covered + 1, to, ready)
        /\ ~Blocking(js, s) /\ ~(Cardinality(pend) < CloseMin)
    BY <1>2 DEF EnqueueClosed
  <2>2. log[s] \in Seq(Message) /\ Len(log[s]) <= MaxMessages /\ covered \in Nat BY DEF LogsOK
  <2>3. pend \subseteq 1..MaxMessages /\ IsFiniteSet(pend) /\ Cardinality(pend) \in Nat
    <3>1. pend \subseteq Kept(log[s]) OBVIOUS
    <3> HIDE DEF pend
    <3> QED BY <2>2, <3>1, KeptRange
  <2>4. pend # {}
    <3> HIDE DEF pend
    <3> QED BY <2>1, <2>3, Limits, FS_EmptySet
  <2>5. to \in pend
    <3>1. fit \in Nat \ {0} BY Limits
    <3> HIDE DEF pend
    <3> QED BY <2>3, <2>4, <3>1, Limits, FirstSome
  <2>6. to \in Kept(l[s]) /\ to > covered /\ to \in 1..MaxMessages BY <2>3, <2>5
  <2> HIDE DEF to, pend
  <2>7. covered + 1 \in 1..MaxMessages /\ covered + 1 > th[s] /\ covered + 1 <= to
    <3>1. covered \in Nat /\ to \in 1..MaxMessages /\ to > covered /\ MaxMessages \in Nat BY <2>2, <2>6, Limits
    <3>2. covered = th[s] OBVIOUS
    <3> HIDE DEF covered
    <3> QED BY <3>1, <3>2
  <2> DEFINE from == covered + 1
  <2>8. from \in 1..MaxMessages /\ from > th[s] /\ from <= to BY <2>7
  <2> HIDE DEF from
  <2>9. PlansOK(Insert(js, s, "closed", from, to, ready), l, th, st)
    BY <2>1, <2>6, <2>8, InsertPlans
  <2> QED BY <2>1, <2>9 DEF from
<1> QED BY <1>1, <1>2

\* A live session: a range that leaves its recent messages alone.
LEMMA ConsiderPlans ==
  ASSUME NEW js, NEW l, NEW th, NEW st, PlansOK(js, l, th, st), LogsOK(l, th), fit \in Fits,
         NEW s \in Sessions, NEW start \in Nat, start = NoFloor \/ start > th[s], NEW ready
  PROVE  PlansOK(Consider(js, s, st[s], l[s], start, ready), l, th, st)
<1> DEFINE rows == {i \in Kept(l[s]) : i >= start}
           n == Least(Cardinality(rows) - KeepRecent, MaxBatch)
           m == Least(n, fit)
           to == Max(First(rows, m))
<1>1. CASE Consider(js, s, st[s], l[s], start, ready) = js BY <1>1
<1>2. CASE Consider(js, s, st[s], l[s], start, ready) # js
  <2>1. /\ Consider(js, s, st[s], l[s], start, ready) = Insert(js, s, "open", start, to, ready)
        /\ ~Blocking(js, s) /\ start # NoFloor /\ ~(Cardinality(rows) < Threshold)
    BY <1>2 DEF Consider, ScheduleActive
  <2>2. l[s] \in Seq(Message) /\ Len(l[s]) <= MaxMessages /\ th[s] \in Nat BY DEF LogsOK
  <2>3. rows \subseteq 1..MaxMessages /\ rows \subseteq Nat /\ IsFiniteSet(rows) /\ Cardinality(rows) \in Nat
    <3>1. rows \subseteq Kept(l[s]) OBVIOUS
    <3> HIDE DEF rows
    <3> QED BY <2>2, <3>1, KeptRange
  <2>4. rows # {}
    <3> HIDE DEF rows
    <3> QED BY <2>1, <2>3, Limits, FS_EmptySet
  <2>5. m \in Nat \ {0} /\ m <= Cardinality(rows) - KeepRecent
    <3>1. fit \in Nat \ {0} BY Limits
    <3> HIDE DEF rows
    <3> QED BY <2>1, <2>3, <3>1, Limits DEF Least
  <2>6. to \in rows /\ Cardinality({y \in rows : y <= to}) <= m
    <3> HIDE DEF rows, m
    <3> QED BY <2>3, <2>4, <2>5, Limits, FirstSome
  <2>7. to \in Kept(l[s]) /\ to >= start /\ to \in 1..MaxMessages BY <2>3, <2>6
  <2>8. Cardinality(After(l[s], to)) >= KeepRecent
    <3>1. \A i \in Kept(l[s]) : i \in Nat BY <2>2, KeptRange
    <3> HIDE DEF to, m
    <3>2. After(l[s], to) = {y \in rows : y > to}
      <4>1. to \in Nat /\ to >= start BY <2>7, Limits
      <4>2. \A i \in Kept(l[s]) : i > to => i >= start BY <3>1, <4>1
      <4> QED BY <4>2 DEF After
    <3> HIDE DEF rows
    <3>3. Cardinality({y \in rows : y > to}) >= Cardinality(rows) - m
      BY <2>3, <2>5, <2>6, <2>7, Remaining
    <3>4. IsFiniteSet({y \in rows : y > to}) /\ Cardinality({y \in rows : y > to}) \in Nat
      <4>1. {y \in rows : y > to} \in SUBSET rows OBVIOUS
      <4>2. IsFiniteSet({y \in rows : y > to}) BY <2>3, <4>1, FS_Subset
      <4> QED BY <4>2, FS_CardinalityType
    <3> QED BY <2>3, <2>5, <3>2, <3>3, <3>4, Limits
  <2> HIDE DEF to, rows, m, n
  <2>9. start \in 1..MaxMessages /\ start > th[s] /\ start <= to
    <3>1. start # 0 /\ start > th[s] BY <2>1 DEF NoFloor
    <3>2. start \in Nat /\ to \in 1..MaxMessages /\ to >= start /\ MaxMessages \in Nat BY <2>7, Limits
    <3> QED BY <3>1, <3>2
  <2> QED BY <2>1, <2>7, <2>8, <2>9, InsertPlans
<1> QED BY <1>1, <1>2

\* Messages that are added spoil no plan.
LEMMA GrowPlans ==
  ASSUME NEW js, NEW l, NEW l2, NEW th, NEW st, PlansOK(js, l, th, st), LogsOK(l, th),
         NEW s \in Sessions, NEW e \in Message, l2 = [l EXCEPT ![s] = Append(@, e)],
         Len(l[s]) < MaxMessages
  PROVE  PlansOK(js, l2, th, st) /\ LogsOK(l2, th)
<1>1. l2[s] = Append(l[s], e) /\ \A x \in Sessions : x # s => l2[x] = l[x] BY DEF LogsOK
<1>2. /\ l2[s] \in Seq(Message) /\ Len(l2[s]) = Len(l[s]) + 1 /\ Len(l[s]) \in Nat
      /\ Kept(l[s]) \subseteq Kept(l2[s])
  <2>1. l[s] \in Seq(Message) BY DEF LogsOK
  <2>2. Len(l[s]) \in Nat BY <2>1
  <2> DEFINE old == l[s]
             new == l2[s]
  <2>3. old \in Seq(Message) /\ new = Append(old, e) BY <1>1, <2>1
  <2> HIDE DEF old, new
  <2>4. new \in Seq(Message) /\ Len(new) = Len(old) + 1 /\ Kept(old) \subseteq Kept(new)
    BY <2>3, Grown
  <2> QED BY <2>2, <2>4 DEF old, new
<1>3. LogsOK(l2, th) BY <1>1, <1>2, Limits DEF LogsOK
<1>4. ASSUME NEW n, Cardinality(After(l[s], n)) >= KeepRecent
      PROVE  Cardinality(After(l2[s], n)) >= KeepRecent
  <2>1. l[s] \in Seq(Message) /\ l2[s] \in Seq(Message) /\ Len(l2[s]) <= MaxMessages
    BY <1>2, <1>3 DEF LogsOK
  <2>2. Len(l[s]) <= Len(l2[s]) BY <1>2
  <2> QED BY <1>2, <1>4, <2>1, <2>2, AfterGrows
<1>5. \A k \in Key : KeyOK(k, l) => KeyOK(k, l2)
  BY <1>1, <1>2, KeyFields DEF KeyOK
<1>6. \A k \in Key : Ahead(k, l, th, st) => Ahead(k, l2, th, st)
  <2> SUFFICES ASSUME NEW k \in Key, Ahead(k, l, th, st) PROVE Ahead(k, l2, th, st) OBVIOUS
  <2>1. k.session \in Sessions BY KeyFields
  <2>2. CASE k.session = s BY <1>4, <2>2 DEF Ahead
  <2>3. CASE k.session # s BY <1>1, <2>1, <2>3 DEF Ahead
  <2> QED BY <2>2, <2>3
<1>7. PlansOK(js, l2, th, st) BY <1>5, <1>6 DEF PlansOK, KeyOK
<1> QED BY <1>3, <1>7

\* What is covered moves on when nothing is left to run.
LEMMA RaisePlans ==
  ASSUME NEW js, NEW l, NEW th, NEW th2, NEW st, PlansOK(js, l, th, st),
         NEW s, ~Blocking(js, s), \A x \in Sessions : x # s => th2[x] = th[x]
  PROVE  PlansOK(js, l, th2, st)
<1>1. \A k \in DOMAIN js : k \in Key /\ k.session \in Sessions BY KeyFields DEF PlansOK, KeyOK
<1>2. \A k \in DOMAIN js : Unsettled(js[k]) => k.session # s BY DEF Blocking
<1> QED BY <1>1, <1>2 DEF PlansOK, Ahead

\* Sessions that end ask less of a plan.
LEMMA ClosePlans ==
  ASSUME NEW js, NEW l, NEW th, NEW st, NEW st2, PlansOK(js, l, th, st),
         \A s \in Sessions : st2[s] = "open" => st[s] = "open"
  PROVE  PlansOK(js, l, th, st2)
<1>1. \A k \in DOMAIN js : k.session \in Sessions BY KeyFields DEF PlansOK, KeyOK
<1> QED BY <1>1 DEF PlansOK, Ahead

-----------------------------------------------------------------------------
(* What is covered                                                         *)

Span(l, m, to) == {i \in Kept(l) : Floor(l, m) <= i /\ i <= to}
\* The summaries of a session draw on what lies between its floor and their
\* end, the newest ends where the session is covered, and a live session has
\* its recent messages left.
Covered(st, l, m, th, sums) ==
  /\ \A r \in sums : r.to \in 1..th /\ Floor(l, m) # NoFloor /\ r.draws = Span(l, m, r.to)
  /\ Floor(l, m) \in 1..th => \E r \in sums : r.to = th
  /\ st = "open" /\ th > 0 => Cardinality(After(l, th)) >= KeepRecent

SessionsOK ==
  /\ state \in [Sessions -> {"open", "closed", "gone"}]
  /\ LogsOK(log, through) /\ marker \in [Sessions -> NoMarker..MaxMessages]
  /\ DOMAIN summaries = Sessions /\ fit \in Fits /\ restarts \in 0..MaxRestarts
SummariesOK ==
  \A s \in Sessions : Covered(state[s], log[s], marker[s], through[s], summaries[s])

LEMMA SpanGrows ==
  ASSUME NEW l \in Seq(Message), NEW e \in Message, NEW m \in Int,
         Floor(l, m) # NoFloor, NEW n \in Nat, n <= Len(l)
  PROVE  Span(Append(l, e), m, n) = Span(l, m, n)
<1> DEFINE l2 == Append(l, e)
<1>1. l2 = Append(l, e) OBVIOUS
<1> HIDE DEF l2
<1>2. /\ Kept(l) \subseteq Kept(l2) /\ Kept(l2) \subseteq Kept(l) \cup {Len(l) + 1}
      /\ IF Floor(l, m) # NoFloor THEN Floor(l2, m) = Floor(l, m)
         ELSE Floor(l2, m) \in {NoFloor, Len(l) + 1}
  BY <1>1, Grown
<1>3. ~(Len(l) + 1 <= n)
  <2>1. Len(l) \in Nat OBVIOUS
  <2> QED BY <2>1
<1>4. Span(l2, m, n) = Span(l, m, n) BY <1>2, <1>3 DEF Span
<1> QED BY <1>1, <1>4

LEMMA CoveredGrows ==
  ASSUME NEW st, NEW l \in Seq(Message), Len(l) < MaxMessages, NEW e \in Message,
         NEW m \in Int, NEW th \in Nat, th <= Len(l), NEW sums, Covered(st, l, m, th, sums)
  PROVE  Covered(st, Append(l, e), m, th, sums)
<1> DEFINE l2 == Append(l, e)
<1>1. l2 = Append(l, e) OBVIOUS
<1>0. Len(l) \in Nat OBVIOUS
<1> HIDE DEF l2
<1>2. /\ l2 \in Seq(Message) /\ Len(l2) = Len(l) + 1 /\ Kept(l) \subseteq Kept(l2)
      /\ IF Floor(l, m) # NoFloor THEN Floor(l2, m) = Floor(l, m)
         ELSE Floor(l2, m) \in {NoFloor, Len(l) + 1}
  BY <1>1, Grown
<1>3. ASSUME NEW r \in sums
      PROVE  r.to \in 1..th /\ Floor(l2, m) # NoFloor /\ r.draws = Span(l2, m, r.to)
  <2>1. r.to \in 1..th /\ Floor(l, m) # NoFloor /\ r.draws = Span(l, m, r.to) BY DEF Covered
  <2>2. r.to \in Nat /\ r.to <= Len(l) BY <1>0, <2>1
  <2>3. Span(l2, m, r.to) = Span(l, m, r.to) BY <1>1, <2>1, <2>2, SpanGrows
  <2> QED BY <1>2, <2>1, <2>3
<1>4. Floor(l2, m) \in 1..th => Floor(l, m) \in 1..th
  <2>1. NoFloor \notin 1..th /\ Len(l) + 1 \notin 1..th BY <1>0 DEF NoFloor
  <2> QED BY <1>2, <2>1
<1>5. Len(l2) <= MaxMessages /\ Len(l) <= Len(l2) BY <1>0, <1>2, Limits
<1>6. \A n : Cardinality(After(l, n)) >= KeepRecent => Cardinality(After(l2, n)) >= KeepRecent
  BY <1>2, <1>5, AfterGrows
<1> QED BY <1>1, <1>3, <1>4, <1>6 DEF Covered

\* A marker behind the last message leaves no floor that is covered.
LEMMA CoveredForgets ==
  ASSUME NEW st, NEW l \in Seq(Message), NEW m \in Int, NEW th \in Nat, th <= Len(l),
         NEW sums, Covered(st, l, m, th, sums)
  PROVE  Covered(st, l, Len(l), th, {})
<1>1. Len(l) \in Nat /\ Len(l) # NoMarker BY DEF NoMarker
<1>2. Floor(l, Len(l)) \notin 1..th
  <2>1. Floor(l, Len(l)) = NoFloor \/ Floor(l, Len(l)) > Len(l) BY <1>1, FloorSays
  <2>2. NoFloor \notin 1..th BY DEF NoFloor
  <2> DEFINE f == Floor(l, Len(l))
  <2>3. f \in Nat BY <1>1, FloorSays
  <2> HIDE DEF f
  <2>4. f > Len(l) => f \notin 1..th BY <1>1, <2>3
  <2> QED BY <2>1, <2>2, <2>4 DEF f
<1> QED BY <1>2 DEF Covered

\* A deleted session has nothing left to cover.
LEMMA CoveredGone ==
  ASSUME NEW m PROVE Covered("gone", <<>>, m, 0, {})
BY DEF Covered

LEMMA StartSays ==
  ASSUME SessionsOK, NEW s \in Sessions
  PROVE  /\ Start(s) \in Nat /\ (Start(s) = NoFloor \/ Start(s) > through[s])
         /\ Floor(log[s], marker[s]) \in Nat
         /\ Start(s) # NoFloor =>
              /\ Floor(log[s], marker[s]) # NoFloor /\ Start(s) >= Floor(log[s], marker[s])
              /\ Start(s) = IF Floor(log[s], marker[s]) > through[s]
                            THEN Floor(log[s], marker[s]) ELSE through[s] + 1
<1> DEFINE f == Floor(log[s], marker[s])
           th == through[s]
<1>1. log[s] \in Seq(Message) /\ marker[s] \in Int /\ th \in Nat
  <2>1. marker[s] \in NoMarker..MaxMessages BY DEF SessionsOK
  <2>2. marker[s] \in Int BY <2>1 DEF NoMarker
  <2> QED BY <2>2 DEF SessionsOK, LogsOK
<1>2. f \in Nat BY <1>1, FloorSays
<1>3. Start(s) = IF f = NoFloor \/ f > th THEN f ELSE th + 1 BY DEF Start
<1> HIDE DEF f, th
<1>4. /\ Start(s) \in Nat /\ (Start(s) = NoFloor \/ Start(s) > th)
      /\ Start(s) # NoFloor => /\ f # NoFloor /\ Start(s) >= f
                               /\ Start(s) = IF f > th THEN f ELSE th + 1
  BY <1>1, <1>2, <1>3 DEF NoFloor
<1> QED BY <1>2, <1>4 DEF f, th

\* The request for a range and the previous summary make up the span.
LEMMA RequestDraws ==
  ASSUME SessionsOK, NEW s \in Sessions, SummariesOK, NEW to \in Kept(log[s]),
         Start(s) # NoFloor, Start(s) <= to
  PROVE  {i \in Kept(log[s]) : Start(s) <= i /\ i <= to} \cup Previous(s)
           = Span(log[s], marker[s], to)
<1> DEFINE f == Floor(log[s], marker[s])
           th == through[s]
           rows == {r \in summaries[s] : r.to >= f}
           part == {i \in Kept(log[s]) : Start(s) <= i /\ i <= to}
<1>1. log[s] \in Seq(Message) /\ th \in Nat BY DEF SessionsOK, LogsOK
<1>2. f \in Nat /\ f # NoFloor /\ Start(s) \in Nat /\ Start(s) >= f
      /\ Start(s) = IF f > th THEN f ELSE th + 1
  BY StartSays
<1>3. \A i \in Kept(log[s]) : i \in Nat BY <1>1 DEF Kept
<1>4. \A r \in summaries[s] : r.to \in 1..th /\ r.draws = Span(log[s], marker[s], r.to)
  BY DEF SummariesOK, Covered
<1>5. Previous(s) = IF rows = {} THEN {} ELSE (CHOOSE r \in rows : \A o \in rows : r.to >= o.to).draws
  BY DEF Previous
<1>6. \A n : Span(log[s], marker[s], n) = {i \in Kept(log[s]) : f <= i /\ i <= n} BY DEF Span
<1>7. CASE f > th
  <2>1. rows = {}
    <3>1. \A r \in summaries[s] : r.to \in 1..th BY <1>4
    <3> DEFINE g == f
    <3>2. g \in Nat /\ g > th /\ \A x \in 1..th : ~(x >= g) BY <1>1, <1>2, <1>7
    <3> QED BY <3>1, <3>2
  <2>2. Start(s) = f BY <1>2, <1>7
  <2> QED BY <1>5, <1>6, <2>1, <2>2
<1>8. CASE ~(f > th)
  <2>0. f \in 1..th
    <3> HIDE DEF f, th
    <3> QED BY <1>1, <1>2, <1>8 DEF NoFloor
  <2>1. PICK r \in summaries[s] : r.to = th BY <2>0 DEF SummariesOK, Covered
  <2>2. r \in rows /\ \A o \in rows : r.to >= o.to
    <3>1. \A x \in 1..th : th >= x OBVIOUS
    <3>2. th >= f BY <2>0
    <3> QED BY <1>4, <2>1, <3>1, <3>2
  <2> DEFINE new == CHOOSE x \in rows : \A o \in rows : x.to >= o.to
  <2>3. new \in rows /\ \A o \in rows : new.to >= o.to BY <2>2
  <2>4. new.to = th
    <3>1. new.to \in 1..th /\ new.to >= th BY <1>4, <2>1, <2>2, <2>3
    <3> HIDE DEF new, th
    <3> QED BY <1>1, <3>1
  <2>5. Previous(s) = {i \in Kept(log[s]) : f <= i /\ i <= th}
    BY <1>4, <1>5, <1>6, <2>2, <2>3, <2>4
  <2>6. Start(s) = th + 1 BY <1>2, <1>8
  <2>7. to \in Nat /\ th < to BY <1>1, <1>3, <2>6
  <2> HIDE DEF f, th, new, rows
  <2>8. \A i \in Kept(log[s]) :
          (th + 1 <= i /\ i <= to) \/ (f <= i /\ i <= th) <=> f <= i /\ i <= to
    BY <1>1, <1>2, <1>3, <2>0, <2>7
  <2>9. part \cup Previous(s) = {i \in Kept(log[s]) : f <= i /\ i <= to} BY <2>5, <2>6, <2>8
  <2> QED BY <1>6, <2>9 DEF f
<1> QED BY <1>7, <1>8

-----------------------------------------------------------------------------
(* The invariant                                                           *)

\* The answer the worker waits for will draw on the span of its job.
AnswerOK ==
  worker.phase \in Busy /\ worker.job \in Running(jobs) =>
    LET s == worker.job.session
    IN /\ Floor(log[s], marker[s]) # NoFloor
       /\ worker.draws = Span(log[s], marker[s], worker.job.to)
WorkerTyped ==
  /\ worker.phase \in Busy \cup {"asleep", "scheduled", "claiming"}
  /\ worker.job \in Key \cup {NoJob} /\ worker.draws \subseteq Sequence
RInv ==
  /\ PlansOK(jobs, log, through, state) /\ SessionsOK /\ SummariesOK
  /\ AnswerOK /\ WorkerTyped

\* Rows change and the worker goes on waiting, or stops.
LEMMA RowsMove ==
  ASSUME RInv, UNCHANGED <<state, log, through, marker, summaries>>,
         fit' \in Fits, restarts' \in 0..MaxRestarts,
         PlansOK(jobs', log, through, state), WorkerTyped',
         worker'.phase \in Busy =>
           /\ worker.phase \in Busy /\ worker'.job = worker.job /\ worker'.draws = worker.draws
           /\ Running(jobs') \subseteq Running(jobs)
  PROVE  RInv'
<1>1. PlansOK(jobs, log, through, state)' BY DEF RInv
<1>2. SessionsOK' BY DEF RInv, SessionsOK
<1>3. SummariesOK' BY DEF RInv, SummariesOK
<1>4. AnswerOK' BY DEF RInv, AnswerOK
<1> QED BY <1>1, <1>2, <1>3, <1>4 DEF RInv

LEMMA WorkerMoves ==
  ASSUME WorkerOK, WorkerTyped,
         \/ worker' = worker \/ worker' = Kicked
         \/ \E phase \in {"asleep", "scheduled", "claiming"} : worker' = To(phase)
  PROVE  WorkerTyped' /\ (worker'.phase \in Busy => worker' = worker)
<1>1. CASE worker' = worker BY <1>1 DEF WorkerTyped
<1>2. CASE worker' = Kicked /\ worker' # worker
  <2>1. worker' = [worker EXCEPT !.phase = "scheduled"] BY <1>2 DEF Kicked
  <2>2. worker'.phase = "scheduled" /\ worker'.job = worker.job /\ worker'.draws = worker.draws
    BY <2>1 DEF WorkerOK
  <2> QED BY <2>2 DEF WorkerTyped, Busy
<1>3. CASE \E phase \in {"asleep", "scheduled", "claiming"} : worker' = To(phase)
  <2>1. worker'.phase \in {"asleep", "scheduled", "claiming"} /\ worker'.job = NoJob /\ worker'.draws = {}
    BY <1>3 DEF To
  <2> QED BY <2>1 DEF WorkerTyped, Busy
<1> QED BY <1>1, <1>2, <1>3

LEMMA Facts ==
  ASSUME RInv, NEW k \in DOMAIN jobs
  PROVE  /\ k \in Key /\ k.session \in Sessions /\ RowTyped(jobs[k])
         /\ log[k.session] \in Seq(Message) /\ Len(log[k.session]) \in 0..MaxMessages
         /\ k.to \in Kept(log[k.session]) /\ k.to <= Len(log[k.session])
         /\ marker[k.session] \in Int /\ through[k.session] \in Nat
<1>1. k \in Key /\ RowTyped(jobs[k]) /\ k.to \in Kept(log[k.session]) BY DEF RInv, PlansOK, KeyOK
<1>2. k.session \in Sessions BY <1>1, KeyFields
<1>3. log[k.session] \in Seq(Message) /\ Len(log[k.session]) <= MaxMessages /\ through[k.session] \in Nat
  BY <1>2 DEF RInv, SessionsOK, LogsOK
<1>4. Len(log[k.session]) \in 0..MaxMessages
  <2>1. Len(log[k.session]) \in Nat BY <1>3
  <2> QED BY <1>3, <2>1, Limits
<1>5. marker[k.session] \in NoMarker..MaxMessages BY <1>2 DEF RInv, SessionsOK
<1>6. marker[k.session] \in Int BY <1>5 DEF NoMarker
<1>7. k.to <= Len(log[k.session]) BY <1>1, <1>3 DEF Kept
<1> QED BY <1>1, <1>2, <1>3, <1>4, <1>6, <1>7

LEMMA SettledRow ==
  ASSUME RInv, NEW k \in DOMAIN jobs, NEW code \in Codes,
         NEW status \in {"completed", "failed"}
  PROVE  /\ RowTyped(Settled(k, status, code))
         /\ status = "completed" \/ code \notin RetryCodes => ~Unsettled(Settled(k, status, code))
<1>1. Len(log[k.session]) \in 0..MaxMessages BY Facts
<1> DEFINE n == Len(log[k.session])
<1>2. n \in 0..MaxMessages /\ Len(log[k.session]) = n BY <1>1
<1> HIDE DEF n
<1> QED BY <1>2, SettledTyped

\* What the statements that settle rows write.
Columned(r) == r = [column \in Columns |-> r[column]]
LEMMA RowMoves ==
  ASSUME NEW r, Columned(r), RowTyped(r), NEW code \in Codes
  PROVE  /\ \A attempts : RowTyped(ClaimRow(r, "running", "NONE", attempts))
         /\ RowTyped([r EXCEPT !.status = "failed", !.code = code])
         /\ RowTyped([r EXCEPT !.status = "unknown"])
         /\ \A paid : LET r2 == [r EXCEPT !.paid = paid]
                      IN RowTyped(r2) /\ (Unsettled(r2) => Unsettled(r))
<1>0. "NONE" \in Codes BY DEF Codes
<1>1. \A attempts : RowTyped(ClaimRow(r, "running", "NONE", attempts))
  BY <1>0 DEF Columned, Columns, ClaimRow, RowTyped
<1>2. RowTyped([r EXCEPT !.status = "failed", !.code = code])
  BY DEF Columned, Columns, RowTyped
<1>3. RowTyped([r EXCEPT !.status = "unknown"])
  BY DEF Columned, Columns, RowTyped
<1>4. ASSUME NEW paid
      PROVE  LET r2 == [r EXCEPT !.paid = paid]
             IN RowTyped(r2) /\ (Unsettled(r2) => Unsettled(r))
  BY DEF Columned, Columns, RowTyped, Unsettled, Retryable
<1> QED BY <1>1, <1>2, <1>3, <1>4

LEMMA ForgottenSettles ==
  ASSUME RInv, NEW s PROVE Settling(jobs, Forgotten(jobs, s))
<1> DEFINE js2 == Forgotten(jobs, s)
<1>1. DOMAIN js2 = DOMAIN jobs
      /\ \A k \in DOMAIN jobs : js2[k] = jobs[k] \/ js2[k] = Settled(k, "failed", "FORGOTTEN")
  BY DEF Forgotten
<1> HIDE DEF js2
<1>2. "FORGOTTEN" \in Codes /\ "FORGOTTEN" \notin RetryCodes BY DEF Codes, RetryCodes
<1>3. \A k \in DOMAIN jobs : RowTyped(jobs[k]) BY Facts
<1>4. Settling(jobs, js2) BY <1>1, <1>2, <1>3, SettledRow DEF Settling
<1> QED BY <1>4 DEF js2

LEMMA QuarantineSettles ==
  ASSUME RInv PROVE Settling(jobs, Quarantined)
<1> DEFINE js2 == Quarantined
<1>1. DOMAIN js2 = DOMAIN jobs
      /\ \A k \in DOMAIN jobs : \/ js2[k] = jobs[k]
                                \/ js2[k] = Settled(k, "failed", "RANGE_INVALID")
                                \/ js2[k] = Settled(k, "failed", "GAVE_UP")
  BY DEF Quarantined
<1> HIDE DEF js2
<1>2. {"RANGE_INVALID", "GAVE_UP"} \subseteq Codes \ RetryCodes BY DEF Codes, RetryCodes, TerminalCodes
<1>3. \A k \in DOMAIN jobs : RowTyped(jobs[k]) BY Facts
<1>4. Settling(jobs, js2) BY <1>1, <1>2, <1>3, SettledRow DEF Settling
<1> QED BY <1>4 DEF js2

LEMMA FailTyped ==
  ASSUME RInv, NEW js, DOMAIN js = DOMAIN jobs, NEW k \in DOMAIN js, NEW code \in Codes,
         code \in RetryCodes => Columned(js[k]) /\ RowTyped(js[k])
  PROVE  LET js2 == Fail(js, k, code)
         IN /\ DOMAIN js2 = DOMAIN js /\ \A o \in DOMAIN js : o # k => js2[o] = js[o]
            /\ RowTyped(js2[k]) /\ (code \notin RetryCodes => ~Unsettled(js2[k]))
<1>1. CASE code \in RetryCodes
  <2> DEFINE r == [js[k] EXCEPT !.status = "failed", !.code = code]
  <2>1. Fail(js, k, code) = [js EXCEPT ![k] = r] BY <1>1 DEF Fail
  <2>2. RowTyped(r) BY <1>1, RowMoves
  <2> HIDE DEF r
  <2> QED BY <1>1, <2>1, <2>2
<1>2. CASE code \notin RetryCodes
  <2> DEFINE r == Settled(k, "failed", code)
  <2>1. Fail(js, k, code) = [js EXCEPT ![k] = r] BY <1>2 DEF Fail
  <2>2. RowTyped(r) /\ ~Unsettled(r) BY <1>2, SettledRow
  <2> HIDE DEF r
  <2> QED BY <2>1, <2>2
<1> QED BY <1>1, <1>2

-----------------------------------------------------------------------------
(* Steps of the worker                                                     *)

LEMMA SettlesRange ==
  ASSUME RInv, IInv, NEW outcome, Settles(worker.job, outcome),
         worker.job \in Running(jobs) => Settling(jobs, outcome)
  PROVE  RInv'
<1>1. Settling(jobs, jobs')
  <2>1. CASE worker.job \in Running(jobs) BY <2>1 DEF Settles
  <2>2. CASE worker.job \notin Running(jobs)
    <3>1. jobs' = jobs BY <2>2 DEF Settles
    <3>2. \A k \in DOMAIN jobs : RowTyped(jobs[k]) BY Facts
    <3> QED BY <3>1, <3>2 DEF Settling
  <2> QED BY <2>1, <2>2
<1>2. PlansOK(jobs', log, through, state) BY <1>1, SettlePlans DEF RInv
<1>3. worker' = To("claiming") BY DEF Settles
<1>4. WorkerTyped' /\ worker'.phase \notin Busy
  BY <1>3 DEF To, WorkerTyped, Busy
<1> QED BY <1>2, <1>4, RowsMove DEF Settles, RInv, SessionsOK

\* A failed request settles its row or leaves it to a retry.
LEMMA FailedRange ==
  ASSUME RInv, IInv, worker.job \in Running(jobs), NEW code \in Codes
  PROVE  Settling(jobs, Failed(worker.job, code))
<1> DEFINE k == worker.job
           c == IF jobs[k].attempts >= MaxAttempts /\ code \in RetryCodes THEN "GAVE_UP" ELSE code
           js2 == Fail(jobs, k, c)
<1>1. k \in DOMAIN jobs /\ Unsettled(jobs[k]) BY DEF Running, Unsettled
<1>2. c \in Codes BY DEF Codes, TerminalCodes
<1>3. Columned(jobs[k]) /\ RowTyped(jobs[k]) BY <1>1, Facts DEF IInv, RowsOK, RowOK, Columned
<1>4. \A o \in DOMAIN jobs : RowTyped(jobs[o]) BY Facts
<1> HIDE DEF c
<1>5. DOMAIN js2 = DOMAIN jobs /\ RowTyped(js2[k]) /\ \A o \in DOMAIN jobs : o # k => js2[o] = jobs[o]
  BY <1>1, <1>2, <1>3, FailTyped
<1> HIDE DEF js2
<1>6. Settling(jobs, js2) BY <1>1, <1>4, <1>5 DEF Settling
<1> QED BY <1>6 DEF js2, c, Failed

\* A deferral is counted as long as there are deferrals left.
LEMMA DeferredRange ==
  ASSUME RInv, IInv, worker.job \in Running(jobs), NEW consumed \in BOOLEAN
  PROVE  Settling(jobs, Deferred(worker.job, consumed))
<1> DEFINE k == worker.job
           code == IF consumed /\ jobs[k].attempts >= MaxAttempts THEN "GAVE_UP"
                   ELSE IF jobs[k].deferrals + 1 >= MaxDeferrals THEN "BUDGET_GAVE_UP"
                   ELSE "BUDGET_DEFERRED"
           left == IF consumed THEN jobs[k].attempts ELSE Max({0, jobs[k].attempts - 1})
           n == jobs[k].deferrals + 1
           row == [jobs[k] EXCEPT !.deferrals = n, !.attempts = left]
           counted == [jobs EXCEPT ![k].deferrals = @ + 1,
                                   ![k].attempts = IF consumed THEN @ ELSE Max({0, @ - 1})]
           js2 == Fail(counted, k, code)
<1>1. k \in DOMAIN jobs /\ Unsettled(jobs[k]) BY DEF Running, Unsettled
<1>2. RowsOK(jobs) /\ RowOK(jobs[k]) /\ RowTyped(jobs[k]) BY <1>1, Facts DEF IInv, RowsOK
<1>3. \A o \in DOMAIN jobs : RowTyped(jobs[o]) BY Facts
<1>4. code \in Codes /\ (code \in RetryCodes => n < MaxDeferrals)
  <2>1. "GAVE_UP" \notin RetryCodes /\ "BUDGET_GAVE_UP" \notin RetryCodes BY DEF RetryCodes
  <2>2. n \in Nat BY <1>2, Limits DEF RowTyped
  <2>3. {"GAVE_UP", "BUDGET_GAVE_UP", "BUDGET_DEFERRED"} \subseteq Codes
    BY DEF Codes, RetryCodes, TerminalCodes
  <2> HIDE DEF n
  <2>4. ~(n >= MaxDeferrals) => n < MaxDeferrals BY <2>2, Limits
  <2> QED BY <2>1, <2>3, <2>4 DEF n
<1>5. counted = [jobs EXCEPT ![k] = row] BY <1>1, <1>2 DEF RowOK, RowsOK, Columns
<1>6. code \in RetryCodes => RowTyped(row) /\ Columned(row)
  <2> SUFFICES ASSUME code \in RetryCodes PROVE RowTyped(row) /\ Columned(row) OBVIOUS
  <2>1. n \in 0..MaxDeferrals
    <3>1. n \in Nat BY <1>2, Limits DEF RowTyped
    <3> HIDE DEF n, code
    <3> QED BY <1>4, <3>1, Limits
  <2> HIDE DEF n, left
  <2>2. row.deferrals = n /\ row.status = jobs[k].status /\ row.code = jobs[k].code
        /\ row.anchor = jobs[k].anchor
    BY <1>2 DEF RowOK, Columns
  <2>3. RowTyped(row) BY <1>2, <2>1, <2>2 DEF RowTyped
  <2>4. Columned(row) BY <1>2 DEF RowOK, Columned
  <2> QED BY <2>3, <2>4
<1>7. DOMAIN counted = DOMAIN jobs /\ counted[k] = row /\ \A o \in DOMAIN jobs : o # k => counted[o] = jobs[o]
  BY <1>1, <1>5
<1> HIDE DEF counted, row, code
<1>8. /\ DOMAIN js2 = DOMAIN jobs /\ RowTyped(js2[k])
      /\ \A o \in DOMAIN jobs : o # k => js2[o] = jobs[o]
  BY <1>1, <1>4, <1>6, <1>7, FailTyped
<1> HIDE DEF js2
<1>9. Settling(jobs, js2) BY <1>1, <1>3, <1>8 DEF Settling
<1> QED BY <1>9 DEF js2, counted, code, Deferred

\* A claimed job runs over its whole range, with the request drawing on its
\* span, or gives way to a shorter range.
LEMMA ClaimRange == RInv /\ IInv /\ (\E k \in Key : Claim(k)) => RInv'
<1> SUFFICES ASSUME RInv, IInv, NEW k \in Key, Claim(k) PROVE RInv' OBVIOUS
<1> DEFINE s == k.session
           part == Uncovered(k)
           batch == First(part, fit)
           row == ClaimRow(jobs[k], "running", "NONE", jobs[k].attempts + 1)
           claimed == [Quarantined EXCEPT ![k].status = "running", ![k].code = "NONE",
                                          ![k].attempts = @ + 1]
<1>1. Running(jobs) = {} /\ k \in DOMAIN jobs /\ Claimable(k) /\ RowsOK(jobs)
  BY DEF Claim, IInv
<1>2. Quarantined[k] = jobs[k] /\ Unsettled(jobs[k])
  BY <1>1, ClaimableHasAttempt DEF Claimable
<1>3. Settling(jobs, Quarantined) /\ DOMAIN Quarantined = DOMAIN jobs
  BY QuarantineSettles DEF Quarantined
<1>4. RowTyped(row) /\ Columned(jobs[k])
  <2>1. Columned(jobs[k]) /\ RowTyped(jobs[k]) BY <1>1, Facts DEF RowsOK, RowOK, Columned
  <2>2. "NONE" \in Codes BY DEF Codes
  <2> QED BY <2>1, <2>2, RowMoves
<1>5. claimed = [Quarantined EXCEPT ![k] = row] BY <1>1, <1>2, <1>3 DEF ClaimRow
<1>6. /\ DOMAIN claimed = DOMAIN jobs /\ claimed[k] = row
      /\ \A o \in DOMAIN jobs : o # k => claimed[o] = Quarantined[o]
  BY <1>1, <1>3, <1>5
<1> HIDE DEF claimed, row
<1>7. /\ s \in Sessions /\ log[s] \in Seq(Message) /\ Len(log[s]) <= MaxMessages
      /\ k.to \in Kept(log[s]) /\ k.from \in 1..MaxMessages /\ k.to \in 1..MaxMessages /\ k.from <= k.to
      /\ Ahead(k, log, through, state) /\ Alone(jobs, k)
  <2>1. PlansOK(jobs, log, through, state) BY DEF RInv
  <2>2. KeyOK(k, log) /\ Ahead(k, log, through, state) /\ Alone(jobs, k)
    BY <1>1, <1>2, <2>1 DEF PlansOK
  <2> QED BY <1>1, <2>2, Facts, KeyFields DEF KeyOK
<1>8. part \subseteq 1..MaxMessages /\ k.to \in part /\ part \subseteq Kept(log[s])
      /\ (\A i \in part : k.from <= i /\ i <= k.to)
  <2>1. Kept(log[s]) \subseteq 1..MaxMessages BY <1>7, KeptRange
  <2>2. k.to <= k.to BY <1>7
  <2> QED BY <1>7, <2>1, <2>2 DEF Uncovered
<1>9. fit \in Nat \ {0} /\ fit \in Fits BY Limits DEF RInv, SessionsOK
<1>10. worker.phase = "claiming" /\ UNCHANGED <<state, log, through, marker, summaries, fit, restarts>>
  BY DEF Claim
<1>11. fit' \in Fits /\ restarts' \in 0..MaxRestarts BY <1>10 DEF RInv, SessionsOK
<1>12. CASE Max(batch) < k.to
  <2> DEFINE to == Max(batch)
             failed == Fail(claimed, k, "REBATCHED")
  <2>1. PICK ready : jobs' = Insert(failed, s, state[s], k.from, to, ready)
    BY <1>12 DEF Claim, claimed
  <2>2. worker' = worker BY <1>12 DEF Claim
  <2>3. "REBATCHED" \in Codes /\ "REBATCHED" \notin RetryCodes BY DEF Codes, RetryCodes
  <2>4. /\ DOMAIN failed = DOMAIN jobs /\ RowTyped(failed[k]) /\ ~Unsettled(failed[k])
        /\ \A o \in DOMAIN jobs : o # k => failed[o] = Quarantined[o]
    BY <1>1, <1>6, <2>3, FailTyped
  <2> HIDE DEF failed
  <2>5. Settling(jobs, failed) BY <1>3, <2>4 DEF Settling
  <2>6. PlansOK(failed, log, through, state) BY <2>5, SettlePlans DEF RInv
  <2>7. ~Blocking(failed, s)
    BY <1>7, <2>4, <2>5 DEF Blocking, Alone, Settling
  <2>8. to \in part
    <3> HIDE DEF part
    <3> QED BY <1>8, <1>9, Limits, FirstSome
  <2>9. to \in 1..MaxMessages /\ to \in Kept(log[s]) /\ k.from <= to BY <1>8, <2>8
  <2>10. state[s] = "open" => Cardinality(After(log[s], to)) >= KeepRecent
    <3> SUFFICES ASSUME state[s] = "open" PROVE Cardinality(After(log[s], to)) >= KeepRecent OBVIOUS
    <3>1. Cardinality(After(log[s], k.to)) >= KeepRecent BY <1>7 DEF Ahead
    <3>2. to < k.to /\ to \in Nat /\ k.to \in Nat BY <1>7, <1>12, <2>9, Limits
    <3> HIDE DEF to
    <3>3. \A i \in Kept(log[s]) : i \in Nat BY <1>7, KeptRange
    <3>4. After(log[s], k.to) \in SUBSET After(log[s], to) BY <3>2, <3>3 DEF After
    <3>5. After(log[s], k.to) \subseteq Kept(log[s]) /\ After(log[s], to) \subseteq Kept(log[s])
      BY DEF After
    <3>6. IsFiniteSet(After(log[s], to)) /\ Cardinality(After(log[s], to)) \in Nat
          /\ Cardinality(After(log[s], k.to)) \in Nat
      BY <1>7, <3>5, KeptRange
    <3>7. Cardinality(After(log[s], k.to)) <= Cardinality(After(log[s], to)) BY <3>4, <3>6, FS_Subset
    <3> QED BY <3>1, <3>6, <3>7, Limits
  <2>11. k.from > through[s] BY <1>7 DEF Ahead
  <2> HIDE DEF to, s
  <2>12. PlansOK(jobs', log, through, state)
    BY <1>7, <2>1, <2>6, <2>7, <2>9, <2>10, <2>11, InsertPlans
  <2>13. worker'.phase \notin Busy BY <1>10, <2>2 DEF Busy
  <2>14. WorkerTyped' BY <2>2 DEF RInv, WorkerTyped
  <2> QED BY <1>10, <1>11, <2>12, <2>13, <2>14, RowsMove
<1>13. CASE ~(Max(batch) < k.to)
  <2>1. jobs' = claimed /\ worker' = [phase |-> "asking", job |-> k, draws |-> batch \cup Previous(s)]
    BY <1>13 DEF Claim, claimed
  <2>2. Settling(jobs, jobs')
    BY <1>1, <1>2, <1>3, <1>4, <1>6, <2>1 DEF Settling
  <2>3. PlansOK(jobs', log, through, state) BY <2>2, SettlePlans DEF RInv
  <2>4. batch = part
    <3>1. Max(batch) \in part
      <4> HIDE DEF part
      <4> QED BY <1>8, <1>9, Limits, FirstSome
    <3>2. k.to <= Max(batch)
      <4> DEFINE x == Max(batch)
      <4>1. x \in 1..MaxMessages /\ k.to \in 1..MaxMessages /\ ~(x < k.to) BY <1>7, <1>8, <1>13, <3>1
      <4> HIDE DEF x
      <4>2. k.to <= x BY <4>1, Limits
      <4> QED BY <4>2 DEF x
    <3> HIDE DEF part
    <3> QED BY <1>8, <1>9, <3>2, Limits, FirstAll
  <2>5. k.from = Start(s) /\ Start(s) # NoFloor /\ Start(s) <= k.to
    <3>1. k.from = Start(s) BY <1>1 DEF Claimable
    <3>2. k.from # 0 BY <1>7
    <3> QED BY <1>7, <3>1, <3>2 DEF NoFloor
  <2>6. batch \cup Previous(s) = Span(log[s], marker[s], k.to)
    BY <1>7, <2>4, <2>5, RequestDraws DEF RInv, Uncovered
  <2>7. worker'.phase = "asking" /\ worker'.job = k /\ worker'.draws = Span(log[s], marker[s], k.to)
    BY <2>1, <2>6
  <2>8. AnswerOK'
    <3>1. Floor(log[s], marker[s]) # NoFloor BY <1>7, <2>5, StartSays DEF RInv
    <3> QED BY <1>10, <2>7, <3>1 DEF AnswerOK
  <2>9. WorkerTyped'
    <3>1. Span(log[s], marker[s], k.to) \subseteq Sequence
      BY <1>7, KeptRange DEF Span, Sequence
    <3> QED BY <2>7, <3>1 DEF WorkerTyped, Busy
  <2>10. SessionsOK' /\ SummariesOK' BY <1>10 DEF RInv, SessionsOK, SummariesOK
  <2>11. PlansOK(jobs, log, through, state)' BY <1>10, <2>3
  <2> QED BY <2>8, <2>9, <2>10, <2>11 DEF RInv
<1> QED BY <1>12, <1>13

LEMMA AskRange == RInv /\ IInv /\ Ask => RInv'
<1> SUFFICES ASSUME RInv, IInv, Ask PROVE RInv' OBVIOUS
<1>1. /\ worker'.phase \in {"calling", "repairing"} /\ worker.phase \in Busy
      /\ worker'.job = worker.job /\ worker'.draws = worker.draws
  BY DEF Ask, IInv, WorkerOK, Busy
<1>2. Settling(jobs, jobs') /\ Running(jobs') \subseteq Running(jobs)
  <2>1. \A o \in DOMAIN jobs : RowTyped(jobs[o]) BY Facts
  <2>2. CASE jobs' = jobs BY <2>1, <2>2 DEF Settling
  <2>3. CASE worker.job \in Running(jobs) /\ jobs' = [jobs EXCEPT ![worker.job].paid = @ + 1]
    <3> DEFINE k == worker.job
               row == [jobs[k] EXCEPT !.paid = @ + 1]
    <3>1. k \in DOMAIN jobs /\ jobs' = [jobs EXCEPT ![k] = row] BY <2>3 DEF Running
    <3>2. "NONE" \in Codes BY DEF Codes
    <3>3. Columned(jobs[k]) /\ RowTyped(jobs[k]) BY <3>1, Facts DEF IInv, RowsOK, RowOK, Columned
    <3>4. RowTyped(row) /\ (Unsettled(row) => Unsettled(jobs[k])) BY <3>2, <3>3, RowMoves
    <3> HIDE DEF row
    <3>5. /\ DOMAIN jobs' = DOMAIN jobs /\ jobs'[k] = row
          /\ \A o \in DOMAIN jobs : o # k => jobs'[o] = jobs[o]
      BY <3>1
    <3> QED BY <2>1, <2>3, <3>4, <3>5 DEF Settling, Running
  <2> QED BY <2>2, <2>3 DEF Ask
<1>3. PlansOK(jobs', log, through, state) BY <1>2, SettlePlans DEF RInv
<1>4. WorkerTyped' BY <1>1 DEF RInv, WorkerTyped, Busy
<1>5. fit' \in Fits /\ restarts' \in 0..MaxRestarts BY DEF Ask, RInv, SessionsOK
<1> QED BY <1>1, <1>2, <1>3, <1>4, <1>5, RowsMove DEF Ask

LEMMA RefusedRange == RInv /\ IInv /\ (Refused \/ CallFails \/ BadAnswer) => RInv'
<1> SUFFICES ASSUME RInv, IInv, Refused \/ CallFails \/ BadAnswer PROVE RInv' OBVIOUS
<1> DEFINE k == worker.job
<1>1. CASE \E code \in Codes : Settles(k, Failed(k, code))
  BY <1>1, FailedRange, SettlesRange
<1>2. CASE \E consumed \in BOOLEAN : Settles(k, Deferred(k, consumed))
  BY <1>2, DeferredRange, SettlesRange
<1>3. CASE /\ worker.phase = "calling" /\ worker' = [worker EXCEPT !.phase = "askingRepair"]
           /\ UNCHANGED <<state, log, through, marker, jobs, summaries, fit, restarts>>
  <2>1. worker'.phase = "askingRepair" /\ worker'.job = worker.job /\ worker'.draws = worker.draws
    BY <1>3 DEF IInv, WorkerOK
  <2>2. WorkerTyped' BY <2>1 DEF RInv, WorkerTyped, Busy
  <2> QED BY <1>3, <2>1, <2>2, RowsMove DEF RInv, SessionsOK, Busy
<1>4. {"INPUT_LIMIT", "MODEL_FAILED", "FORGOTTEN", "SCHEMA_INVALID"} \subseteq Codes
  BY DEF Codes, RetryCodes, TerminalCodes
<1> QED BY <1>1, <1>2, <1>3, <1>4 DEF Refused, CallFails, BadAnswer

\* A stored summary covers the session up to its end; what is planned next
\* begins behind it.
LEMMA GoodAnswerRange == RInv /\ IInv /\ GoodAnswer => RInv'
<1> SUFFICES ASSUME RInv, IInv, GoodAnswer PROVE RInv' OBVIOUS
<1> DEFINE k == worker.job
           s == k.session
           row == Settled(k, "completed", "NONE")
           done == [jobs EXCEPT ![k] = row]
<1>1. worker.phase \in Busy BY DEF GoodAnswer, Busy
<1>2. CASE ~Completable(k)
  <2>1. PICK code \in {"RANGE_INVALID", "FORGOTTEN"} : Settles(k, Failed(k, code))
    BY <1>2 DEF GoodAnswer
  <2>2. code \in Codes BY DEF Codes
  <2> QED BY <2>1, <2>2, FailedRange, SettlesRange
<1>3. CASE Completable(k)
  <2>1. /\ k \in DOMAIN jobs /\ k \in Running(jobs) /\ Unsettled(jobs[k])
        /\ k.from = Start(s) /\ k.to <= Len(log[s])
    BY <1>3 DEF Completable, Running, Unsettled
  <2>2. /\ s \in Sessions /\ log[s] \in Seq(Message) /\ through[s] \in Nat
        /\ k.from \in 1..MaxMessages /\ k.to \in 1..MaxMessages /\ k.from <= k.to
        /\ Ahead(k, log, through, state) /\ Alone(jobs, k)
    <3>1. PlansOK(jobs, log, through, state) BY DEF RInv
    <3>2. KeyOK(k, log) /\ Ahead(k, log, through, state) /\ Alone(jobs, k) BY <2>1, <3>1 DEF PlansOK
    <3> QED BY <2>1, <3>2, Facts, KeyFields DEF KeyOK
  <2>3. /\ summaries' = [summaries EXCEPT ![s] = @ \cup {[to |-> k.to, draws |-> worker.draws]}]
        /\ through' = [through EXCEPT ![s] = k.to]
        /\ worker' = To("claiming")
        /\ UNCHANGED <<state, log, marker, fit, restarts>>
    BY <1>3 DEF GoodAnswer
  <2>4. PICK ready \in BOOLEAN :
          jobs' = IF state[s] = "closed" THEN EnqueueClosed(done, s, k.to, ready)
                  ELSE Consider(done, s, state[s], log[s], k.to + 1, ready)
    BY <1>3 DEF GoodAnswer
  <2>5. through[s] < k.to
    <3>1. k.from > through[s] BY <2>2 DEF Ahead
    <3> HIDE DEF k, s
    <3> QED BY <2>2, <3>1, Limits
  <2>6. /\ through'[s] = k.to /\ \A x \in Sessions : x # s => through'[x] = through[x]
        /\ through' \in [Sessions -> Nat]
    BY <2>2, <2>3 DEF RInv, SessionsOK, LogsOK
  <2>7. LogsOK(log, through') BY <2>1, <2>6 DEF RInv, SessionsOK, LogsOK
  <2>8. SessionsOK'
    <3>1. DOMAIN summaries' = DOMAIN summaries BY <2>3
    <3> QED BY <2>3, <2>7, <3>1 DEF RInv, SessionsOK
  <2>9. SummariesOK'
    <3>0. summaries'[s] = summaries[s] \cup {[to |-> k.to, draws |-> worker.draws]}
          /\ \A x \in Sessions : x # s => summaries'[x] = summaries[x]
      BY <2>2, <2>3 DEF RInv, SessionsOK
    <3>1. \A x \in Sessions : Covered(state[x], log[x], marker[x], through[x], summaries[x])
      BY DEF RInv, SummariesOK
    <3>2. Floor(log[s], marker[s]) # NoFloor /\ worker.draws = Span(log[s], marker[s], k.to)
      BY <1>1, <2>1 DEF RInv, AnswerOK
    <3>3. state[s] = "open" => Cardinality(After(log[s], k.to)) >= KeepRecent BY <2>2 DEF Ahead
    <3>4. ASSUME NEW r \in summaries'[s]
          PROVE  r.to \in 1..k.to /\ r.draws = Span(log[s], marker[s], r.to)
      <4>1. CASE r \in summaries[s]
        <5>1. r.to \in 1..through[s] /\ r.draws = Span(log[s], marker[s], r.to)
          BY <2>2, <3>1, <4>1 DEF Covered
        <5>2. 1..through[s] \subseteq 1..k.to
          <6> HIDE DEF k, s
          <6> QED BY <2>2, <2>5, Limits
        <5> QED BY <5>1, <5>2
      <4>2. CASE r = [to |-> k.to, draws |-> worker.draws]
        <5>1. k.to \in 1..k.to BY <2>2
        <5> QED BY <3>2, <4>2, <5>1
      <4> QED BY <3>0, <4>1, <4>2
    <3>5. \E r \in summaries'[s] : r.to = k.to
      <4>1. [to |-> k.to, draws |-> worker.draws] \in summaries'[s] BY <3>0
      <4>2. [to |-> k.to, draws |-> worker.draws].to = k.to OBVIOUS
      <4> QED BY <4>1, <4>2
    <3>6. Covered(state[s], log[s], marker[s], k.to, summaries'[s])
      BY <3>2, <3>3, <3>4, <3>5 DEF Covered
    <3> QED BY <2>3, <2>6, <3>0, <3>1, <3>6 DEF SummariesOK
  <2>10. Settling(jobs, done)
    <3>1. "NONE" \in Codes BY DEF Codes
    <3>2. RowTyped(row) /\ ~Unsettled(row) BY <2>1, <3>1, SettledRow
    <3>3. \A o \in DOMAIN jobs : RowTyped(jobs[o]) BY Facts
    <3> HIDE DEF row
    <3>4. DOMAIN done = DOMAIN jobs /\ done[k] = row /\ \A o \in DOMAIN jobs : o # k => done[o] = jobs[o]
      BY <2>1
    <3> QED BY <3>2, <3>3, <3>4 DEF Settling
  <2>11. ~Blocking(done, s)
    <3>1. "NONE" \in Codes BY DEF Codes
    <3>2. ~Unsettled(row) BY <2>1, <3>1, SettledRow
    <3>3. \A o \in DOMAIN done : o = k => ~Unsettled(done[o]) BY <2>1, <3>2
    <3> HIDE DEF done
    <3> QED BY <2>2, <2>10, <3>3 DEF Blocking, Alone, Settling
  <2> HIDE DEF done
  <2>12. PlansOK(done, log, through, state) BY <2>10, SettlePlans DEF RInv
  <2>13. PlansOK(done, log, through', state) BY <2>6, <2>11, <2>12, RaisePlans
  <2>14. PlansOK(jobs', log, through', state)
    <3>1. fit \in Fits BY DEF RInv, SessionsOK
    <3>2. CASE state[s] = "closed"
      <4>1. jobs' = EnqueueClosed(done, s, through'[s], ready) BY <2>4, <2>6, <3>2
      <4> HIDE DEF s
      <4> QED BY <2>2, <2>7, <2>13, <3>1, <3>2, <4>1, EnqueuePlans
    <3>3. CASE state[s] # "closed"
      <4> DEFINE start == k.to + 1
      <4>1. jobs' = Consider(done, s, state[s], log[s], start, ready) BY <2>4, <3>3
      <4>2. start \in Nat /\ start > through'[s] BY <2>2, <2>6, Limits
      <4> HIDE DEF s, start
      <4> QED BY <2>2, <2>7, <2>13, <3>1, <4>1, <4>2, ConsiderPlans
    <3> QED BY <3>2, <3>3
  <2>15. WorkerTyped' /\ worker'.phase \notin Busy BY <2>3 DEF To, WorkerTyped, Busy
  <2>16. AnswerOK' BY <2>15 DEF AnswerOK
  <2>17. PlansOK(jobs, log, through, state)' BY <2>3, <2>14
  <2> QED BY <2>8, <2>9, <2>15, <2>16, <2>17 DEF RInv
<1> QED BY <1>2, <1>3

LEMMA IdleRange == RInv /\ IInv /\ (TimerKick \/ Drain \/ NothingDue) => RInv'
<1> SUFFICES ASSUME RInv, IInv, TimerKick \/ Drain \/ NothingDue PROVE RInv' OBVIOUS
<1>0. /\ WorkerOK /\ WorkerTyped /\ fit' \in Fits /\ restarts' \in 0..MaxRestarts
      /\ UNCHANGED <<state, log, through, marker, summaries>>
  BY DEF RInv, IInv, SessionsOK, TimerKick, Drain, NothingDue
<1>1. WorkerTyped' /\ (worker'.phase \in Busy => worker' = worker)
  <2>1. worker' = Kicked \/ \E phase \in {"asleep", "scheduled", "claiming"} : worker' = To(phase)
    BY DEF TimerKick, Drain, NothingDue
  <2> QED BY <1>0, <2>1, WorkerMoves
<1>2. worker.phase \notin Busy BY DEF TimerKick, Drain, NothingDue, Busy
<1>3. PlansOK(jobs', log, through, state)
  <2>0. PlansOK(jobs, log, through, state) BY DEF RInv
  <2>1. CASE jobs' = jobs BY <2>0, <2>1
  <2>2. CASE jobs' = Quarantined BY <2>0, <2>2, QuarantineSettles, SettlePlans
  <2>3. CASE \E s \in {x \in Sessions : Recoverable(x)} : jobs' = EnqueueClosed(jobs, s, through[s], TRUE)
    <3>1. PICK s \in Sessions : Recoverable(s) /\ jobs' = EnqueueClosed(jobs, s, through[s], TRUE)
      BY <2>3
    <3>2. state[s] # "open" /\ LogsOK(log, through) /\ fit \in Fits
      BY <3>1 DEF Recoverable, RInv, SessionsOK
    <3> QED BY <2>0, <3>1, <3>2, EnqueuePlans
  <2> QED BY <2>1, <2>2, <2>3 DEF TimerKick, Drain, NothingDue
<1> QED BY <1>0, <1>1, <1>2, <1>3, RowsMove

LEMMA RestartRange == RInv /\ IInv /\ Restart => RInv'
<1> SUFFICES ASSUME RInv, IInv, Restart PROVE RInv' OBVIOUS
<1>1. /\ DOMAIN jobs' = DOMAIN jobs
      /\ \A k \in DOMAIN jobs : jobs'[k] = IF jobs[k].status = "running"
                                         THEN [jobs[k] EXCEPT !.status = "unknown"] ELSE jobs[k]
  BY DEF Restart
<1>2. Settling(jobs, jobs')
  <2> SUFFICES ASSUME NEW k \in DOMAIN jobs
               PROVE  RowTyped(jobs'[k]) /\ (Unsettled(jobs'[k]) => Unsettled(jobs[k]))
    BY <1>1 DEF Settling
  <2>0. "NONE" \in Codes BY DEF Codes
  <2>1. Columned(jobs[k]) /\ RowTyped(jobs[k]) BY Facts DEF IInv, RowsOK, RowOK, Columned
  <2>2. RowTyped([jobs[k] EXCEPT !.status = "unknown"]) BY <2>0, <2>1, RowMoves
  <2>3. jobs[k].status = "running" => Unsettled(jobs[k]) BY DEF Unsettled
  <2> QED BY <1>1, <2>1, <2>2, <2>3
<1>3. PlansOK(jobs', log, through, state) BY <1>2, SettlePlans DEF RInv
<1>4. /\ worker' = To("scheduled") /\ fit' \in Fits
      /\ UNCHANGED <<state, log, through, marker, summaries>>
  BY DEF Restart
<1>5. restarts' \in 0..MaxRestarts
  <2>1. MaxRestarts \in Nat BY SummaryParameters DEF SummaryParameters
  <2>2. restarts \in 0..MaxRestarts /\ restarts < MaxRestarts /\ restarts' = restarts + 1
    BY DEF Restart, RInv, SessionsOK
  <2> QED BY <2>1, <2>2
<1>6. WorkerTyped' /\ worker'.phase \notin Busy BY <1>4 DEF To, WorkerTyped, Busy
<1> QED BY <1>3, <1>4, <1>5, <1>6, RowsMove

-----------------------------------------------------------------------------
(* Steps of the conversations                                              *)

\* A turn adds a message; what is planned then begins behind what is covered.
LEMMA TurnRange ==
  ASSUME RInv, IInv, NEW s \in Sessions, Room(s), NEW e \in Message,
         log' = [log EXCEPT ![s] = Append(@, e)],
         UNCHANGED <<state, through, marker, summaries, fit, restarts>>,
         \/ jobs' = jobs
         \/ \E ready \in BOOLEAN : jobs' = Consider(jobs, s, "open", log'[s], Start(s), ready),
         worker' = worker \/ worker' = Kicked
  PROVE  RInv'
<1>0. SessionsOK /\ PlansOK(jobs, log, through, state) /\ SummariesOK /\ LogsOK(log, through)
  BY DEF RInv, SessionsOK
<1>1. state[s] = "open" /\ Len(log[s]) < MaxMessages BY DEF Room
<1>2. PlansOK(jobs, log', through, state) /\ LogsOK(log', through)
  BY <1>0, <1>1, GrowPlans
<1>3. PlansOK(jobs', log', through, state)
  <2>1. CASE jobs' = jobs BY <1>2, <2>1
  <2>2. CASE \E ready \in BOOLEAN : jobs' = Consider(jobs, s, "open", log'[s], Start(s), ready)
    <3>1. PICK ready \in BOOLEAN : jobs' = Consider(jobs, s, state[s], log'[s], Start(s), ready)
      BY <1>1, <2>2
    <3>2. Start(s) \in Nat /\ (Start(s) = NoFloor \/ Start(s) > through[s]) BY <1>0, StartSays
    <3>3. fit \in Fits BY DEF RInv, SessionsOK
    <3> DEFINE start == Start(s)
               l2 == log'
    <3>4. /\ start \in Nat /\ (start = NoFloor \/ start > through[s])
          /\ PlansOK(jobs, l2, through, state) /\ LogsOK(l2, through)
      BY <1>2, <3>2
    <3>5. jobs' = Consider(jobs, s, state[s], l2[s], start, ready) BY <3>1
    <3> HIDE DEF start, l2
    <3>6. PlansOK(jobs', l2, through, state) BY <3>3, <3>4, <3>5, ConsiderPlans
    <3> QED BY <3>6 DEF l2
  <2> QED BY <2>1, <2>2
<1>4. PlansOK(jobs, log, through, state)' BY <1>3
<1>5. SessionsOK' BY <1>0, <1>2 DEF SessionsOK
<1>6. \A x \in Sessions : /\ log[x] \in Seq(Message) /\ through[x] \in Nat /\ through[x] <= Len(log[x])
                          /\ marker[x] \in Int
  <2>1. \A x \in Sessions : marker[x] \in NoMarker..MaxMessages BY <1>0 DEF SessionsOK
  <2> QED BY <1>0, <2>1 DEF LogsOK, NoMarker
<1>7. log'[s] = Append(log[s], e) /\ \A x \in Sessions : x # s => log'[x] = log[x]
  BY <1>0 DEF LogsOK
<1>8. SummariesOK'
  <2> SUFFICES ASSUME NEW x \in Sessions
               PROVE  Covered(state[x], log'[x], marker[x], through[x], summaries[x])
    BY DEF SummariesOK
  <2>1. Covered(state[x], log[x], marker[x], through[x], summaries[x]) BY <1>0 DEF SummariesOK
  <2>2. CASE x # s BY <1>7, <2>1, <2>2
  <2>3. CASE x = s
    <3>1. Covered(state[s], Append(log[s], e), marker[s], through[s], summaries[s])
      BY <1>1, <1>6, <2>1, <2>3, CoveredGrows
    <3> QED BY <1>7, <2>3, <3>1
  <2> QED BY <2>2, <2>3
<1>9. WorkerTyped' /\ (worker'.phase \in Busy => worker' = worker)
  BY WorkerMoves DEF RInv, IInv
<1>10. Running(jobs') \subseteq Running(jobs)
  <2>1. RowsOK(jobs) BY DEF IInv
  <2>2. Tame(jobs, jobs') BY <2>1, SameTame, ConsiderTame
  <2> QED BY <2>2 DEF Tame
<1>11. AnswerOK'
  <2> SUFFICES ASSUME worker'.phase \in Busy, worker'.job \in Running(jobs')
               PROVE  LET x == worker.job.session
                      IN /\ Floor(log'[x], marker[x]) # NoFloor
                         /\ worker.draws = Span(log'[x], marker[x], worker.job.to)
    BY <1>9 DEF AnswerOK
  <2> DEFINE x == worker.job.session
             to == worker.job.to
  <2>1. worker' = worker /\ worker.job \in Running(jobs) /\ worker.job \in DOMAIN jobs
    BY <1>9, <1>10 DEF Running
  <2>2. Floor(log[x], marker[x]) # NoFloor /\ worker.draws = Span(log[x], marker[x], to)
    BY <2>1 DEF RInv, AnswerOK
  <2>3. x \in Sessions /\ to <= Len(log[x]) /\ to \in Nat
    BY <2>1, Facts, KeyFields, Limits
  <2>4. CASE x # s BY <1>7, <2>2, <2>3, <2>4
  <2>5. CASE x = s
    <3> HIDE DEF x, to
    <3>1. /\ log[s] \in Seq(Message) /\ marker[s] \in Int /\ Floor(log[s], marker[s]) # NoFloor
          /\ to <= Len(log[s]) /\ worker.draws = Span(log[s], marker[s], to)
      BY <1>6, <2>2, <2>3, <2>5
    <3>2. Span(Append(log[s], e), marker[s], to) = Span(log[s], marker[s], to)
      BY <2>3, <3>1, SpanGrows
    <3> DEFINE l == log[s]
               m == marker[s]
               l2 == Append(l, e)
    <3>3. l \in Seq(Message) /\ m \in Int /\ l2 = Append(l, e) BY <3>1
    <3> HIDE DEF l, m, l2
    <3>5. IF Floor(l, m) # NoFloor THEN Floor(l2, m) = Floor(l, m)
          ELSE Floor(l2, m) \in {NoFloor, Len(l) + 1}
      BY <3>3, Grown
    <3>4. Floor(l, m) # NoFloor => Floor(l2, m) = Floor(l, m) BY <3>5
    <3> USE DEF l, m, l2
    <3> QED BY <1>7, <2>5, <3>1, <3>2, <3>3, <3>4 DEF x, to
  <2> QED BY <2>4, <2>5
<1> QED BY <1>4, <1>5, <1>8, <1>9, <1>11 DEF RInv

\* The end of a session, a marker and a clean-up.
LEMMA CloseRange == RInv /\ IInv /\ (\E s \in Sessions : Close(s)) => RInv'
<1> SUFFICES ASSUME RInv, IInv, NEW s \in Sessions, Close(s) PROVE RInv' OBVIOUS
<1> DEFINE js == IF marker[s] = NoMarker THEN jobs ELSE Forgotten(jobs, s)
<1>1. /\ state' = [state EXCEPT ![s] = "closed"] /\ worker' = Kicked
      /\ UNCHANGED <<log, through, marker, summaries, fit, restarts>>
  BY DEF Close
<1>2. PICK ready \in BOOLEAN : jobs' = EnqueueClosed(js, s, through[s], ready) BY DEF Close
<1>3. SessionsOK /\ LogsOK(log, through) /\ fit \in Fits BY DEF RInv, SessionsOK
<1>4. state'[s] = "closed" /\ \A x \in Sessions : x # s => state'[x] = state[x]
  BY <1>1, <1>3 DEF SessionsOK
<1>5. PlansOK(js, log, through, state)
  <2>1. PlansOK(jobs, log, through, state) BY DEF RInv
  <2>2. Settling(jobs, Forgotten(jobs, s)) BY ForgottenSettles
  <2> QED BY <2>1, <2>2, SettlePlans
<1>6. Tame(jobs, js) BY SameTame, ForgottenTame DEF IInv
<1> HIDE DEF js
<1>7. PlansOK(js, log, through, state')
  BY <1>4, <1>5, ClosePlans
<1>8. PlansOK(jobs', log, through, state')
  <2>1. state'[s] # "open" BY <1>4
  <2> QED BY <1>2, <1>3, <1>7, <2>1, EnqueuePlans
<1>9. PlansOK(jobs, log, through, state)' BY <1>1, <1>8
<1>10. SessionsOK'
  <2>1. state' \in [Sessions -> {"open", "closed", "gone"}] BY <1>1, <1>3 DEF SessionsOK
  <2> QED BY <1>1, <1>3, <2>1 DEF SessionsOK
<1>11. SummariesOK'
  <2>1. \A x \in Sessions : Covered(state[x], log[x], marker[x], through[x], summaries[x])
    BY DEF RInv, SummariesOK
  <2>2. \A x \in Sessions : Covered(state'[x], log[x], marker[x], through[x], summaries[x])
    <3>1. \A x \in Sessions : state'[x] = "open" => state[x] = "open" BY <1>4
    <3> QED BY <2>1, <3>1 DEF Covered
  <2> QED BY <1>1, <2>2 DEF SummariesOK
<1>12. WorkerTyped' /\ (worker'.phase \in Busy => worker' = worker)
  BY <1>1, WorkerMoves DEF RInv, IInv
<1>13. Running(jobs') \subseteq Running(jobs)
  <2>1. Tame(js, jobs') BY <1>2, <1>6, EnqueueTame DEF Tame
  <2> QED BY <1>6, <2>1 DEF Tame
<1>14. AnswerOK' BY <1>1, <1>12, <1>13 DEF RInv, AnswerOK
<1> QED BY <1>9, <1>10, <1>11, <1>12, <1>14 DEF RInv

LEMMA ForgetRange == RInv /\ IInv /\ (\E s \in Sessions : Forget(s)) => RInv'
<1> SUFFICES ASSUME RInv, IInv, NEW s \in Sessions, Forget(s) PROVE RInv' OBVIOUS
<1>1. /\ marker' = [marker EXCEPT ![s] = Len(log[s])] /\ summaries' = [summaries EXCEPT ![s] = {}]
      /\ jobs' = Forgotten(jobs, s) /\ UNCHANGED <<state, log, through, worker, fit, restarts>>
  BY DEF Forget
<1>2. SessionsOK BY DEF RInv
<1>3. /\ log[s] \in Seq(Message) /\ Len(log[s]) \in Nat /\ Len(log[s]) <= MaxMessages
      /\ through[s] \in Nat /\ through[s] <= Len(log[s]) /\ marker[s] \in NoMarker..MaxMessages
  BY <1>2 DEF SessionsOK, LogsOK
<1>4. /\ marker'[s] = Len(log[s]) /\ summaries'[s] = {}
      /\ \A x \in Sessions : x # s => marker'[x] = marker[x] /\ summaries'[x] = summaries[x]
  BY <1>1, <1>2 DEF SessionsOK
<1>5. PlansOK(jobs, log, through, state)'
  <2>1. PlansOK(jobs', log, through, state) BY <1>1, ForgottenSettles, SettlePlans DEF RInv
  <2> QED BY <1>1, <2>1
<1>6. SessionsOK'
  <2>1. Len(log[s]) \in NoMarker..MaxMessages BY <1>3, Limits DEF NoMarker
  <2>2. marker' \in [Sessions -> NoMarker..MaxMessages] BY <1>1, <1>2, <2>1 DEF SessionsOK
  <2>3. DOMAIN summaries' = Sessions BY <1>1, <1>2 DEF SessionsOK
  <2> QED BY <1>1, <1>2, <2>2, <2>3 DEF SessionsOK
<1>7. SummariesOK'
  <2>1. \A x \in Sessions : Covered(state[x], log[x], marker[x], through[x], summaries[x])
    BY DEF RInv, SummariesOK
  <2>2. marker[s] \in Int BY <1>3 DEF NoMarker
  <2>3. Covered(state[s], log[s], Len(log[s]), through[s], {}) BY <1>3, <2>1, <2>2, CoveredForgets
  <2>4. \A x \in Sessions : Covered(state[x], log[x], marker'[x], through[x], summaries'[x])
    BY <1>4, <2>1, <2>3
  <2> QED BY <1>1, <2>4 DEF SummariesOK
<1>8. WorkerTyped' BY <1>1 DEF RInv, WorkerTyped
<1>9. AnswerOK'
  <2>1. Running(jobs') \subseteq {k \in Running(jobs) : k.session # s}
    <3>1. \A k \in DOMAIN jobs : k.session = s /\ jobs[k].status # "completed" =>
            Forgotten(jobs, s)[k] = Settled(k, "failed", "FORGOTTEN")
      BY DEF Forgotten
    <3>2. \A k : Settled(k, "failed", "FORGOTTEN").status = "failed" BY FreshRows
    <3>3. DOMAIN Forgotten(jobs, s) = DOMAIN jobs
          /\ \A k \in DOMAIN jobs : k.session # s \/ jobs[k].status = "completed" =>
               Forgotten(jobs, s)[k] = jobs[k]
      BY DEF Forgotten
    <3> QED BY <1>1, <3>1, <3>2, <3>3 DEF Running
  <2>2. ASSUME worker.phase \in Busy, worker.job \in Running(jobs')
        PROVE  /\ worker.job \in Running(jobs) /\ worker.job.session \in Sessions
               /\ marker'[worker.job.session] = marker[worker.job.session]
    <3>1. worker.job \in Running(jobs) /\ worker.job.session # s BY <2>1, <2>2
    <3>2. worker.job.session \in Sessions BY <3>1, Facts DEF Running
    <3> QED BY <1>4, <3>1, <3>2
  <2> QED BY <1>1, <2>2 DEF RInv, AnswerOK
<1> QED BY <1>5, <1>6, <1>7, <1>8, <1>9 DEF RInv

LEMMA PurgeRange == RInv /\ IInv /\ (\E s \in Sessions : Purge(s)) => RInv'
<1> SUFFICES ASSUME RInv, IInv, NEW s \in Sessions, Purge(s) PROVE RInv' OBVIOUS
<1>1. /\ state' = [state EXCEPT ![s] = "gone"] /\ log' = [log EXCEPT ![s] = <<>>]
      /\ through' = [through EXCEPT ![s] = 0] /\ summaries' = [summaries EXCEPT ![s] = {}]
      /\ jobs' = [k \in {key \in DOMAIN jobs : key.session # s} |-> jobs[k]]
      /\ UNCHANGED <<marker, worker, fit, restarts>>
      /\ \A k \in Running(jobs) : k.session # s
  BY DEF Purge
<1>2. SessionsOK BY DEF RInv
<1>3. /\ state'[s] = "gone" /\ log'[s] = <<>> /\ through'[s] = 0 /\ summaries'[s] = {}
      /\ \A x \in Sessions : x # s => /\ state'[x] = state[x] /\ log'[x] = log[x]
                                      /\ through'[x] = through[x] /\ summaries'[x] = summaries[x]
  BY <1>1, <1>2 DEF SessionsOK, LogsOK
<1>4. DOMAIN jobs' \subseteq DOMAIN jobs
      /\ \A k \in DOMAIN jobs' : jobs'[k] = jobs[k] /\ k.session # s /\ k.session \in Sessions
  BY <1>1, Facts
<1>5. PlansOK(jobs', log', through', state')
  <2> SUFFICES ASSUME NEW k \in DOMAIN jobs'
               PROVE  /\ KeyOK(k, log') /\ RowTyped(jobs'[k])
                      /\ Unsettled(jobs'[k]) => Ahead(k, log', through', state') /\ Alone(jobs', k)
    BY DEF PlansOK
  <2>1. /\ KeyOK(k, log) /\ RowTyped(jobs[k])
        /\ Unsettled(jobs[k]) => Ahead(k, log, through, state) /\ Alone(jobs, k)
    BY <1>4 DEF RInv, PlansOK
  <2>2. Alone(jobs, k) => Alone(jobs', k) BY <1>4 DEF Alone
  <2> QED BY <1>3, <1>4, <2>1, <2>2 DEF KeyOK, Ahead
<1>6. SessionsOK'
  <2>1. state' \in [Sessions -> {"open", "closed", "gone"}] BY <1>1, <1>2 DEF SessionsOK
  <2>2. <<>> \in Seq(Message) /\ Len(<<>>) = 0 OBVIOUS
  <2>3. LogsOK(log', through')
    <3>1. log' \in [Sessions -> Seq(Message)] BY <1>1, <1>2, <2>2 DEF SessionsOK, LogsOK
    <3>2. through' \in [Sessions -> Nat] BY <1>1, <1>2 DEF SessionsOK, LogsOK
    <3>3. \A x \in Sessions : Len(log'[x]) <= MaxMessages /\ through'[x] <= Len(log'[x])
      <4> SUFFICES ASSUME NEW x \in Sessions
                   PROVE  Len(log'[x]) <= MaxMessages /\ through'[x] <= Len(log'[x])
        OBVIOUS
      <4>1. CASE x = s
        <5>1. log'[x] = <<>> /\ through'[x] = 0 BY <1>3, <4>1
        <5>2. Len(log'[x]) = 0 BY <2>2, <5>1
        <5> QED BY <5>1, <5>2, Limits
      <4>2. CASE x # s
        <5>1. log'[x] = log[x] /\ through'[x] = through[x] BY <1>3, <4>2
        <5>2. Len(log[x]) <= MaxMessages /\ through[x] <= Len(log[x])
          BY <1>2 DEF SessionsOK, LogsOK
        <5> QED BY <5>1, <5>2
      <4> QED BY <4>1, <4>2
    <3> QED BY <3>1, <3>2, <3>3 DEF LogsOK
  <2>4. DOMAIN summaries' = Sessions BY <1>1, <1>2 DEF SessionsOK
  <2> QED BY <1>1, <1>2, <2>1, <2>3, <2>4 DEF SessionsOK
<1>7. SummariesOK'
  <2>1. \A x \in Sessions : Covered(state[x], log[x], marker[x], through[x], summaries[x])
    BY DEF RInv, SummariesOK
  <2>2. \A x \in Sessions : Covered(state'[x], log'[x], marker[x], through'[x], summaries'[x])
    BY <1>3, <2>1, CoveredGone
  <2> QED BY <1>1, <2>2 DEF SummariesOK
<1>8. WorkerTyped' BY <1>1 DEF RInv, WorkerTyped
<1>9. AnswerOK'
  <2>1. Running(jobs') \subseteq Running(jobs) BY <1>4 DEF Running
  <2>2. \A k \in Running(jobs') : log'[k.session] = log[k.session]
    BY <1>3, <1>4 DEF Running
  <2> QED BY <1>1, <2>1, <2>2 DEF RInv, AnswerOK
<1>10. PlansOK(jobs, log, through, state)' BY <1>5
<1> QED BY <1>6, <1>7, <1>8, <1>9, <1>10 DEF RInv

-----------------------------------------------------------------------------
(* Ranges agree                                                            *)

LEMMA InitRange == Init => RInv
<1> SUFFICES ASSUME Init PROVE RInv OBVIOUS
<1>1. DOMAIN jobs = {} BY DEF Init
<1>2. PlansOK(jobs, log, through, state) BY <1>1 DEF PlansOK
<1>3. SessionsOK
  <2>1. <<>> \in Seq(Message) /\ Len(<<>>) = 0 /\ MaxMessages \in Nat /\ MaxRestarts \in Nat
    BY SummaryParameters DEF SummaryParameters
  <2>2. LogsOK(log, through) BY <2>1 DEF Init, LogsOK
  <2>3. marker \in [Sessions -> NoMarker..MaxMessages] BY <2>1 DEF Init, NoMarker
  <2>4. restarts \in 0..MaxRestarts BY <2>1 DEF Init
  <2> QED BY <2>2, <2>3, <2>4 DEF Init, SessionsOK
<1>4. SummariesOK
  <2>1. \A n \in 1..0 : FALSE OBVIOUS
  <2> QED BY <2>1 DEF Init, SummariesOK, Covered
<1>5. AnswerOK BY DEF Init, AnswerOK, Busy
<1>6. WorkerTyped BY DEF Init, WorkerTyped
<1> QED BY <1>2, <1>3, <1>4, <1>5, <1>6 DEF RInv

LEMMA StepRange == RInv /\ IInv /\ [Next]_vars => RInv'
<1>1. RInv /\ UNCHANGED vars => RInv'
  <2> SUFFICES ASSUME RInv, UNCHANGED vars PROVE RInv' OBVIOUS
  <2>1. PlansOK(jobs, log, through, state)' BY DEF vars, RInv
  <2>2. SessionsOK' /\ SummariesOK' /\ AnswerOK' /\ WorkerTyped'
    BY DEF vars, RInv, SessionsOK, SummariesOK, AnswerOK, WorkerTyped
  <2> QED BY <2>1, <2>2 DEF RInv
<1>2. ASSUME RInv, IInv, NEW s \in Sessions, Conversation(s) PROVE RInv'
  <2>1. CASE Question(s)
    <3>1. [user |-> TRUE, kept |-> TRUE] \in Message BY DEF Message
    <3> QED BY <1>2, <2>1, <3>1, TurnRange DEF Question
  <2>2. CASE \E kept \in BOOLEAN : Answer(s, kept)
    <3>1. PICK kept \in BOOLEAN : Answer(s, kept) BY <2>2
    <3>2. [user |-> FALSE, kept |-> kept] \in Message BY DEF Message
    <3>3. /\ Room(s) /\ log' = [log EXCEPT ![s] = Append(@, [user |-> FALSE, kept |-> kept])]
          /\ UNCHANGED <<state, through, marker, summaries, fit, restarts>>
      BY <3>1 DEF Answer
    <3>4. \/ jobs' = jobs
          \/ \E ready \in BOOLEAN : jobs' = Consider(jobs, s, "open", log'[s], Start(s), ready)
      BY <3>1 DEF Answer
    <3>5. worker' = worker \/ worker' = Kicked BY <3>1 DEF Answer
    <3> QED BY <1>2, <3>2, <3>3, <3>4, <3>5, TurnRange
  <2> QED BY <1>2, <2>1, <2>2, CloseRange, ForgetRange, PurgeRange DEF Conversation
<1> QED
  BY <1>1, <1>2, IdleRange, ClaimRange, AskRange, RefusedRange, GoodAnswerRange, RestartRange DEF Next

THEOREM RangesInductive == Spec => [](RInv /\ IInv)
<1>1. RInv /\ IInv /\ [Next]_vars => (RInv /\ IInv)' BY StepRange, StepSafe
<1>2. Init => RInv /\ IInv BY InitRange, InitSafe
<1> QED BY <1>1, <1>2, PTL DEF Spec

\* A row that is typed column by column is a job.
LEMMA TypedRow ==
  ASSUME NEW r, RowOK(r), RowTyped(r) PROVE r \in Job
<1>1. r.paid \in Nat BY DEF RowOK
<1> QED BY <1>1 DEF RowOK, RowTyped, Columns, Job

\* claimNextSummaryJob, completeSummaryJob and the forget markers: a stored
\* summary draws on all committed messages between the session's floor and its
\* end, what may still run begins behind it, and a live conversation keeps its
\* recent messages.
THEOREM RangesAgreeAlways == Spec => []RangesAgree
<1>1. RInv /\ IInv => RangesAgree
  <2> SUFFICES ASSUME RInv, IInv PROVE RangesAgree OBVIOUS
  <2>1. \A s \in Sessions : /\ log[s] \in Seq(Message) /\ Len(log[s]) <= MaxMessages
                            /\ through[s] \in Nat /\ through[s] <= Len(log[s])
    BY DEF RInv, SessionsOK, LogsOK
  <2>2. \A s \in Sessions : Covered(state[s], log[s], marker[s], through[s], summaries[s])
    BY DEF RInv, SummariesOK
  <2>3. \A s \in Sessions : through[s] \in 0..MaxMessages
    <3> SUFFICES ASSUME NEW s \in Sessions PROVE through[s] \in 0..MaxMessages OBVIOUS
    <3>1. Len(log[s]) \in Nat /\ through[s] \in Nat /\ through[s] <= Len(log[s]) /\ Len(log[s]) <= MaxMessages
      BY <2>1
    <3> QED BY <3>1, Limits
  <2>4. \A s \in Sessions : \A r \in summaries[s] : r.to \in Sequence /\ r.draws \subseteq Sequence
    <3> SUFFICES ASSUME NEW s \in Sessions, NEW r \in summaries[s]
                 PROVE  r.to \in Sequence /\ r.draws \subseteq Sequence
      OBVIOUS
    <3>1. r.to \in 1..through[s] /\ r.draws = Span(log[s], marker[s], r.to) BY <2>2 DEF Covered
    <3>2. r.to \in 1..MaxMessages
      <4>1. through[s] \in 0..MaxMessages BY <2>3
      <4> QED BY <3>1, <4>1, Limits
    <3>3. r.draws \subseteq Kept(log[s]) BY <3>1 DEF Span
    <3>4. r.draws \subseteq 1..MaxMessages BY <2>1, <3>3, KeptRange
    <3> QED BY <3>2, <3>4 DEF Sequence
  <2>5. DOMAIN jobs \subseteq Key /\ \A k \in DOMAIN jobs : jobs[k] \in Job
    BY Facts, TypedRow DEF IInv, RowsOK
  <2>6. TypeOK
    <3>1. through \in [Sessions -> 0..MaxMessages] BY <2>3 DEF RInv, SessionsOK, LogsOK
    <3>2. /\ state \in [Sessions -> {"open", "closed", "gone"}]
          /\ log \in [Sessions -> Seq([user : BOOLEAN, kept : BOOLEAN])]
          /\ marker \in [Sessions -> NoMarker..MaxMessages] /\ fit \in Fits /\ restarts \in 0..MaxRestarts
      BY DEF RInv, SessionsOK, LogsOK, Message
    <3> QED BY <2>4, <2>5, <3>1, <3>2 DEF TypeOK, RInv, WorkerTyped
  <2>7. CoveredOnce
    <3> SUFFICES ASSUME NEW s \in Sessions, NEW r \in summaries[s]
                 PROVE  /\ r.draws = {i \in Kept(log[s]) : Floor(log[s], marker[s]) <= i /\ i <= r.to}
                        /\ r.to <= through[s]
                        /\ \A k \in DOMAIN jobs : k.session = s /\ Unsettled(jobs[k]) => k.from > r.to
      BY DEF CoveredOnce
    <3>1. r.to \in 1..through[s] /\ r.draws = Span(log[s], marker[s], r.to) BY <2>2 DEF Covered
    <3>2. ASSUME NEW k \in DOMAIN jobs, k.session = s, Unsettled(jobs[k]) PROVE k.from > r.to
      <4>1. k.from > through[s] BY <3>2 DEF RInv, PlansOK, Ahead
      <4>2. k.from \in 1..MaxMessages BY Facts, KeyFields
      <4> QED BY <2>1, <3>1, <4>1, <4>2, Limits
    <3> QED BY <2>1, <3>1, <3>2 DEF Span
  <2>8. RecentKept BY <2>2 DEF RecentKept, Covered, After
  <2> QED BY <2>6, <2>7, <2>8 DEF RangesAgree
<1> QED BY <1>1, RangesInductive, PTL
=============================================================================
