----------------------------- MODULE FilesProofs ------------------------------
(***************************************************************************)
(* Proofs about the rows and files that outlive a process: the import of   *)
(* old dialogues (LegacyImport), for files of any length; the row that     *)
(* says who owns the store (StoreStartup), for any number of processes and *)
(* machines; and the generations of a device credential                    *)
(* (DeviceCredentials), for any number of them.                            *)
(***************************************************************************)
EXTENDS StoreStartup, LegacyImport, DeviceCredentials, FiniteSetTheorems, WellFoundedInduction, TLAPS

-----------------------------------------------------------------------------
(* Counting, as in BudgetProofs.                                             *)

\* A set of natural numbers that has 0 and, with each number, the next.
LEMMA Counting ==
  ASSUME NEW T, 0 \in T, \A n \in Nat : n \in T => n+1 \in T
  PROVE  \A n \in Nat : n \in T
<1> SUFFICES ASSUME NEW m \in Nat, m \notin T PROVE FALSE
  OBVIOUS
<1> DEFINE R == Nat \ T
<1>1. PICK x \in R : \A y \in R : ~(<<y, x>> \in OpToRel(<, Nat))
  <2>1. R \subseteq Nat /\ R # {} OBVIOUS
  <2> HIDE DEF R
  <2> QED BY <2>1, NatLessThanWellFounded, WFMin
<1>2. x \in Nat /\ x \notin T BY <1>1
<1>3. x # 0 BY <1>2
<1>4. x - 1 \in Nat /\ x - 1 < x /\ (x - 1) + 1 = x
  <2> HIDE DEF R
  <2> QED BY <1>2, <1>3
<1>5. x - 1 \notin R
  <2>1. <<x - 1, x>> \in OpToRel(<, Nat) BY <1>2, <1>4 DEF OpToRel
  <2> HIDE DEF R
  <2> QED BY <1>1, <2>1
<1>6. x - 1 \in T BY <1>4, <1>5
<1> QED BY <1>2, <1>4, <1>6

\* The size of a set less one of its elements.
LEMMA OneLess ==
  ASSUME NEW s, IsFiniteSet(s), NEW x \in s
  PROVE  IsFiniteSet(s \ {x}) /\ Cardinality(s) \in Nat /\ Cardinality(s \ {x}) = Cardinality(s) - 1
  BY FS_RemoveElement, FS_CardinalityType

-----------------------------------------------------------------------------
(* The import.  Reading a dialogue from left to right keeps turns and        *)
(* messages in step, so that the store takes every dialogue.                 *)

ReadOne(h, acc, i) ==
  IF h[i].role = "user" THEN Asked(acc, h[i].topic, i) ELSE Answered(acc, h[i].topic, i)

\* g is the function that the fold in ToImport applies to the places of h.
Reads(h, g) ==
  g = [s \in SUBSET DOMAIN h |-> IF s = {} THEN Unread ELSE ReadOne(h, g[s \ {Max(s)}], Max(s))]

IsDialogue(h) == h \in Seq([role : Roles, topic : TopicsOf(h)])

LEMMA HighestOf ==
  ASSUME NEW n \in Nat, NEW s \in SUBSET (1..n), s # {}
  PROVE  Max(s) \in s /\ \A y \in s : Max(s) >= y
<1> DEFINE T == {k \in Nat : \A r \in SUBSET (1..k) : r # {} => \E x \in r : \A y \in r : x >= y}
<1>1. 0 \in T
  <2>1. \A r \in SUBSET (1..0) : r = {} OBVIOUS
  <2> QED BY <2>1
<1>2. \A k \in Nat : k \in T => k+1 \in T
  <2> SUFFICES ASSUME NEW k \in Nat, k \in T, NEW r \in SUBSET (1..(k+1)), r # {}
               PROVE \E x \in r : \A y \in r : x >= y
    OBVIOUS
  <2>1. CASE k+1 \in r
    <3>1. \A y \in r : k+1 >= y OBVIOUS
    <3> QED BY <2>1, <3>1
  <2>2. CASE k+1 \notin r
    <3>1. r \in SUBSET (1..k) BY <2>2
    <3> QED BY <3>1
  <2> QED BY <2>1, <2>2
<1>3. n \in T
  <2> HIDE DEF T
  <2> QED BY <1>1, <1>2, Counting
<1>4. \E x \in s : \A y \in s : x >= y BY <1>3
<1> QED BY <1>4 DEF Max

LEMMA HighestOfAll ==
  ASSUME NEW k \in Nat
  PROVE  Max(1..(k+1)) = k+1 /\ (1..(k+1)) \ {k+1} = 1..k
<1>1. k+1 \in 1..(k+1) OBVIOUS
<1>2. Max(1..(k+1)) \in 1..(k+1) /\ \A y \in 1..(k+1) : Max(1..(k+1)) >= y
  BY <1>1, HighestOf, k+1 \in Nat
<1>3. Max(1..(k+1)) = k+1 BY <1>1, <1>2
<1> QED BY <1>3

\* The fold is defined.
LEMMA ReadsExist ==
  ASSUME NEW h, NEW n \in Nat, DOMAIN h = 1..n
  PROVE  \E g : Reads(h, g)
<1> DEFINE U == 1..n
           Upto(k, g) ==
             /\ g = [s \in SUBSET U |-> g[s]]
             /\ \A s \in SUBSET U : Cardinality(s) <= k =>
                  g[s] = IF s = {} THEN Unread ELSE ReadOne(h, g[s \ {Max(s)}], Max(s))
           T == {k \in Nat : \E g : Upto(k, g)}
<1>u. IsFiniteSet(U) BY FS_Interval
<1>f. \A s \in SUBSET U : /\ IsFiniteSet(s) /\ Cardinality(s) \in Nat /\ Cardinality(s) <= Cardinality(U)
                          /\ Cardinality(s) = 0 <=> s = {}
  <2> HIDE DEF U
  <2> QED BY <1>u, FS_Subset, FS_CardinalityType, FS_EmptySet
<1>g. \A s \in SUBSET U : s # {} => /\ s \ {Max(s)} \in SUBSET U
                                    /\ Cardinality(s \ {Max(s)}) = Cardinality(s) - 1
  <2>1. \A s \in SUBSET U : s # {} => Max(s) \in s BY HighestOf
  <2> HIDE DEF U
  <2> QED BY <1>f, <2>1, OneLess
<1>1. 0 \in T
  <2>1. Upto(0, [s \in SUBSET U |-> Unread]) BY <1>f
  <2> QED BY <2>1
<1>2. \A k \in Nat : k \in T => k+1 \in T
  <2> SUFFICES ASSUME NEW k \in Nat, k \in T PROVE k+1 \in T
    OBVIOUS
  <2>1. PICK g : Upto(k, g) OBVIOUS
  <2> DEFINE j == [s \in SUBSET U |-> IF Cardinality(s) = k+1 THEN ReadOne(h, g[s \ {Max(s)}], Max(s)) ELSE g[s]]
  <2> HIDE DEF U
  <2>3. Upto(k+1, j)
    <3> SUFFICES ASSUME NEW s \in SUBSET U, Cardinality(s) <= k+1
                 PROVE  j[s] = IF s = {} THEN Unread ELSE ReadOne(h, j[s \ {Max(s)}], Max(s))
      OBVIOUS
    <3>1. CASE Cardinality(s) = k+1
      <4>1. s # {} BY <3>1, <1>f
      <4>2. j[s \ {Max(s)}] = g[s \ {Max(s)}] BY <4>1, <3>1, <1>g, <1>f
      <4> QED BY <3>1, <4>1, <4>2
    <3>2. CASE Cardinality(s) <= k
      <4>1. j[s] = g[s] BY <3>2, <1>f
      <4>2. s # {} => j[s \ {Max(s)}] = g[s \ {Max(s)}] BY <3>2, <1>g, <1>f
      <4>3. g[s] = IF s = {} THEN Unread ELSE ReadOne(h, g[s \ {Max(s)}], Max(s)) BY <2>1, <3>2
      <4> QED BY <4>1, <4>2, <4>3
    <3>3. Cardinality(s) \in Nat BY <1>f
    <3> HIDE DEF j, Upto, T
    <3> QED BY <3>1, <3>2, <3>3
  <2> HIDE DEF j, Upto
  <2> QED BY <2>3
<1>3. Cardinality(U) \in T
  <2> HIDE DEF T, U
  <2> QED BY <1>1, <1>2, <1>u, Counting, FS_CardinalityType
<1>4. PICK g : Upto(Cardinality(U), g) BY <1>3
<1>5. g = [s \in SUBSET U |-> IF s = {} THEN Unread ELSE ReadOne(h, g[s \ {Max(s)}], Max(s))]
  <2>1. \A s \in SUBSET U : g[s] = IF s = {} THEN Unread ELSE ReadOne(h, g[s \ {Max(s)}], Max(s)) BY <1>4, <1>f
  <2> HIDE DEF U
  <2> QED BY <1>4, <2>1
<1> QED BY <1>5 DEF Reads

\* ToImport reads the messages one after the other.
LEMMA ToImportReads ==
  ASSUME NEW h, NEW n \in Nat, DOMAIN h = 1..n
  PROVE  \E g : /\ ToImport(h) = [turns |-> g[1..n].turns, of |-> g[1..n].of, messages |-> h]
                /\ g[1..0] = Unread
                /\ \A k \in Nat : k < n => g[1..(k+1)] = ReadOne(h, g[1..k], k+1)
<1> DEFINE g == CHOOSE f : Reads(h, f)
<1>1. Reads(h, g) BY ReadsExist
<1>2. ToImport(h) = [turns |-> g[1..n].turns, of |-> g[1..n].of, messages |-> h]
  <2> DEFINE places == [i \in DOMAIN h |-> i]
             it == CHOOSE f : f = [s \in SUBSET DOMAIN places |->
                     IF s = {} THEN Unread ELSE ReadOne(h, f[s \ {Max(s)}], places[Max(s)])]
  <2>1. ToImport(h) = [turns |-> it[DOMAIN places].turns, of |-> it[DOMAIN places].of, messages |-> h]
    BY DEF ToImport, FoldLeftDomain, FoldLeft, MapThenFoldSet, ReadOne
  <2>2. DOMAIN places = 1..n OBVIOUS
  <2>3. \A s \in SUBSET (1..n) : s # {} => places[Max(s)] = Max(s)
    <3>1. \A s \in SUBSET (1..n) : s # {} => Max(s) \in 1..n BY HighestOf
    <3> QED BY <3>1
  <2>4. \A f : [s \in SUBSET DOMAIN places |-> IF s = {} THEN Unread ELSE ReadOne(h, f[s \ {Max(s)}], places[Max(s)])]
             = [s \in SUBSET DOMAIN h |-> IF s = {} THEN Unread ELSE ReadOne(h, f[s \ {Max(s)}], Max(s))]
    <3> HIDE DEF places
    <3> QED BY <2>2, <2>3
  <2>5. it = g
    <3> HIDE DEF places
    <3> QED BY <2>4 DEF Reads
  <2> HIDE DEF it, g, places
  <2> QED BY <2>1, <2>2, <2>5
<1>3. g[1..0] = Unread
  <2>1. 1..0 = {} OBVIOUS
  <2> HIDE DEF g
  <2> QED BY <1>1, <2>1 DEF Reads
<1>4. ASSUME NEW k \in Nat, k < n PROVE g[1..(k+1)] = ReadOne(h, g[1..k], k+1)
  <2>1. 1..(k+1) \in SUBSET (1..n) /\ 1..(k+1) # {} BY <1>4
  <2> HIDE DEF g
  <2>2. g[1..(k+1)] = ReadOne(h, g[(1..(k+1)) \ {Max(1..(k+1))}], Max(1..(k+1))) BY <1>1, <2>1 DEF Reads
  <2> QED BY <2>2, HighestOfAll
<1> HIDE DEF g
<1> QED BY <1>2, <1>3, <1>4

Places == Nat \union {NoTurn}
TurnsOf(h) == [topic : TopicsOf(h), input : Places, output : Places, status : {"interrupted", "committed"}]

\* What is known of the first k messages of h once they are read.
ReadWell(h, k, acc) ==
  /\ acc.turns \in Seq(TurnsOf(h)) /\ acc.of \in Seq(Nat) /\ Len(acc.of) = k
  /\ \A i \in 1..k :
       /\ acc.of[i] \in 1..Len(acc.turns) /\ acc.turns[acc.of[i]].topic = h[i].topic
       /\ i = IF h[i].role = "user" THEN acc.turns[acc.of[i]].input ELSE acc.turns[acc.of[i]].output
  /\ \A t \in 1..Len(acc.turns) :
       /\ acc.turns[t].input # NoTurn =>
            acc.turns[t].input \in 1..k /\ acc.of[acc.turns[t].input] = t /\ h[acc.turns[t].input].role = "user"
       /\ acc.turns[t].output # NoTurn =>
            acc.turns[t].output \in 1..k /\ acc.of[acc.turns[t].output] = t /\ h[acc.turns[t].output].role = "assistant"
  /\ acc.open # NoTurn => acc.open \in 1..Len(acc.turns) /\ acc.turns[acc.open].output = NoTurn

LEMMA NotNat == NoTurn \notin Nat
  BY ImportAssumption DEF ImportAssumption

\* A message with a turn of its own.
LEMMA TurnOpened ==
  ASSUME NEW h, IsDialogue(h), NEW k \in Nat, k < Len(h), NEW acc, ReadWell(h, k, acc), NEW new,
         NEW u \in TurnsOf(h), u.topic = h[k+1].topic,
         new.turns = Append(acc.turns, u), new.of = Append(acc.of, Len(acc.turns) + 1),
         \/ /\ h[k+1].role = "user" /\ u.input = k+1 /\ u.output = NoTurn
            /\ new.open = Len(acc.turns) + 1
         \/ /\ h[k+1].role = "assistant" /\ u.input = NoTurn /\ u.output = k+1
            /\ new.open = NoTurn
  PROVE  ReadWell(h, k+1, new)
<1> DEFINE n == Len(acc.turns)
<1>1. acc.turns \in Seq(TurnsOf(h)) /\ acc.of \in Seq(Nat) /\ Len(acc.of) = k /\ n \in Nat BY DEF ReadWell
<1>2. /\ new.turns \in Seq(TurnsOf(h)) /\ Len(new.turns) = n+1 /\ new.turns[n+1] = u
      /\ \A t \in 1..n : new.turns[t] = acc.turns[t]
  BY <1>1
<1>3. /\ new.of \in Seq(Nat) /\ Len(new.of) = k+1 /\ new.of[k+1] = n+1
      /\ \A i \in 1..k : new.of[i] = acc.of[i]
  BY <1>1
<1>4. \A i \in 1..(k+1) : i \in 1..k \/ i = k+1 OBVIOUS
<1>5. \A t \in 1..(n+1) : t \in 1..n \/ t = n+1 BY <1>1
<1>6. k+1 # NoTurn BY NotNat
<1> HIDE DEF n
<1>7. ASSUME NEW i \in 1..(k+1)
      PROVE /\ new.of[i] \in 1..Len(new.turns) /\ new.turns[new.of[i]].topic = h[i].topic
            /\ i = IF h[i].role = "user" THEN new.turns[new.of[i]].input ELSE new.turns[new.of[i]].output
  <2>1. CASE i \in 1..k
    <3>1. acc.of[i] \in 1..n /\ acc.turns[acc.of[i]].topic = h[i].topic
          /\ i = IF h[i].role = "user" THEN acc.turns[acc.of[i]].input ELSE acc.turns[acc.of[i]].output
      BY <2>1 DEF ReadWell, n
    <3>2. PICK j \in 1..n : j = acc.of[i] BY <3>1
    <3>3. new.of[i] = j /\ new.turns[j] = acc.turns[j] BY <2>1, <3>2, <1>2, <1>3
    <3>4. j \in 1..Len(new.turns) BY <1>1, <1>2
    <3> QED BY <3>1, <3>2, <3>3, <3>4
  <2>2. CASE i = k+1 BY <2>2, <1>1, <1>2, <1>3
  <2> QED BY <2>1, <2>2, <1>4
<1>8. ASSUME NEW t \in 1..(n+1)
      PROVE /\ new.turns[t].input # NoTurn =>
                 new.turns[t].input \in 1..(k+1) /\ new.of[new.turns[t].input] = t /\ h[new.turns[t].input].role = "user"
            /\ new.turns[t].output # NoTurn =>
                 new.turns[t].output \in 1..(k+1) /\ new.of[new.turns[t].output] = t
                 /\ h[new.turns[t].output].role = "assistant"
  <2>1. CASE t \in 1..n
    <3>1. /\ acc.turns[t].input # NoTurn =>
            acc.turns[t].input \in 1..k /\ acc.of[acc.turns[t].input] = t /\ h[acc.turns[t].input].role = "user"
          /\ acc.turns[t].output # NoTurn =>
            acc.turns[t].output \in 1..k /\ acc.of[acc.turns[t].output] = t /\ h[acc.turns[t].output].role = "assistant"
      BY <2>1 DEF ReadWell, n
    <3>2. 1..k \subseteq 1..(k+1) OBVIOUS
    <3> QED BY <2>1, <3>1, <3>2, <1>2, <1>3
  <2>2. CASE t = n+1 BY <2>2, <1>2, <1>3
  <2> QED BY <2>1, <2>2, <1>5
<1>9. new.open # NoTurn => new.open \in 1..Len(new.turns) /\ new.turns[new.open].output = NoTurn
  BY <1>1, <1>2 DEF n
<1> QED BY <1>2, <1>3, <1>7, <1>8, <1>9 DEF ReadWell

\* An answer to the open question.
LEMMA TurnAnswered ==
  ASSUME NEW h, IsDialogue(h), NEW k \in Nat, k < Len(h), NEW acc, ReadWell(h, k, acc), NEW new,
         h[k+1].role = "assistant", acc.open # NoTurn, acc.turns[acc.open].topic = h[k+1].topic,
         new.turns = [acc.turns EXCEPT ![acc.open].output = k+1, ![acc.open].status = "committed"],
         new.of = Append(acc.of, acc.open), new.open = NoTurn
  PROVE  ReadWell(h, k+1, new)
<1> DEFINE n == Len(acc.turns)
           o == acc.open
<1>1. /\ acc.turns \in Seq(TurnsOf(h)) /\ acc.of \in Seq(Nat) /\ Len(acc.of) = k /\ n \in Nat
      /\ o \in 1..n /\ acc.turns[o].output = NoTurn
  BY DEF ReadWell
<1>6. k+1 # NoTurn /\ k+1 \in Nat BY NotNat
<1>2. /\ new.turns \in Seq(TurnsOf(h)) /\ Len(new.turns) = n
      /\ new.turns[o].output = k+1 /\ new.turns[o].topic = acc.turns[o].topic /\ new.turns[o].input = acc.turns[o].input
      /\ \A t \in 1..n : t # o => new.turns[t] = acc.turns[t]
  <2> DEFINE u == [acc.turns[o] EXCEPT !.output = k+1, !.status = "committed"]
  <2>1. acc.turns[o] \in TurnsOf(h) BY <1>1
  <2>2. u \in TurnsOf(h) /\ u.output = k+1 /\ u.topic = acc.turns[o].topic /\ u.input = acc.turns[o].input
    BY <2>1, <1>6 DEF TurnsOf, Places
  <2>3. new.turns = [acc.turns EXCEPT ![o] = u] BY <1>1
  <2> HIDE DEF u, o
  <2>4. DOMAIN acc.turns = 1..n /\ n = Len(acc.turns) /\ \A t \in 1..n : acc.turns[t] \in TurnsOf(h) BY <1>1
  <2> HIDE DEF n
  <2>5. /\ new.turns = [t \in 1..n |-> IF t = o THEN u ELSE acc.turns[t]]
    BY <2>3, <2>4
  <2>6. new.turns \in Seq(TurnsOf(h)) /\ Len(new.turns) = n
    <3>1. PICK q : q = new.turns OBVIOUS
    <3>2. q \in [1..n -> TurnsOf(h)] BY <2>2, <2>4, <2>5, <3>1
    <3>3. q \in Seq(TurnsOf(h))
      <4> PICK S : S = TurnsOf(h) OBVIOUS
      <4>1. q \in [1..n -> S] /\ n \in Nat BY <3>2, <1>1
      <4>2. q \in Seq(S) BY ONLY <4>1
      <4> QED BY <4>2
    <3>4. Len(q) = n BY <3>2, <3>3, <1>1
    <3> QED BY <3>1, <3>3, <3>4
  <2>7. new.turns[o] = u /\ \A t \in 1..n : t # o => new.turns[t] = acc.turns[t] BY <1>1, <2>5
  <2> QED BY <2>2, <2>6, <2>7
<1>3. /\ new.of \in Seq(Nat) /\ Len(new.of) = k+1 /\ new.of[k+1] = o
      /\ \A i \in 1..k : new.of[i] = acc.of[i]
  BY <1>1
<1>4. \A i \in 1..(k+1) : i \in 1..k \/ i = k+1 OBVIOUS
<1> HIDE DEF n, o
<1>7. ASSUME NEW i \in 1..(k+1)
      PROVE /\ new.of[i] \in 1..Len(new.turns) /\ new.turns[new.of[i]].topic = h[i].topic
            /\ i = IF h[i].role = "user" THEN new.turns[new.of[i]].input ELSE new.turns[new.of[i]].output
  <2>1. CASE i \in 1..k
    <3>1. acc.of[i] \in 1..n /\ acc.turns[acc.of[i]].topic = h[i].topic
          /\ i = IF h[i].role = "user" THEN acc.turns[acc.of[i]].input ELSE acc.turns[acc.of[i]].output
      BY <2>1 DEF ReadWell, n
    <3>2. CASE acc.of[i] = o
      <4>1. h[i].role = "user"
        <5>1. i # NoTurn BY <2>1, NotNat
        <5> QED BY <3>1, <3>2, <5>1, <1>1
      <4> QED BY <2>1, <3>1, <3>2, <4>1, <1>2, <1>3
    <3>3. CASE acc.of[i] # o BY <2>1, <3>1, <3>3, <1>2, <1>3
    <3> QED BY <3>2, <3>3
  <2>2. CASE i = k+1 BY <2>2, <1>1, <1>2, <1>3 DEF o
  <2> QED BY <2>1, <2>2, <1>4
<1>8. ASSUME NEW t \in 1..n
      PROVE /\ new.turns[t].input # NoTurn =>
                 new.turns[t].input \in 1..(k+1) /\ new.of[new.turns[t].input] = t /\ h[new.turns[t].input].role = "user"
            /\ new.turns[t].output # NoTurn =>
                 new.turns[t].output \in 1..(k+1) /\ new.of[new.turns[t].output] = t
                 /\ h[new.turns[t].output].role = "assistant"
  <2>1. /\ acc.turns[t].input # NoTurn =>
            acc.turns[t].input \in 1..k /\ acc.of[acc.turns[t].input] = t /\ h[acc.turns[t].input].role = "user"
        /\ acc.turns[t].output # NoTurn =>
            acc.turns[t].output \in 1..k /\ acc.of[acc.turns[t].output] = t /\ h[acc.turns[t].output].role = "assistant"
      BY DEF ReadWell, n
  <2>2. 1..k \subseteq 1..(k+1) /\ k+1 \in 1..(k+1) OBVIOUS
  <2>3. CASE t = o BY <2>1, <2>2, <2>3, <1>2, <1>3
  <2>4. CASE t # o BY <2>1, <2>2, <2>4, <1>2, <1>3
  <2> QED BY <2>3, <2>4
<1> QED BY <1>2, <1>3, <1>7, <1>8 DEF ReadWell

LEMMA ReadsOne ==
  ASSUME NEW h, IsDialogue(h), NEW k \in Nat, k < Len(h), NEW acc, ReadWell(h, k, acc)
  PROVE  ReadWell(h, k+1, ReadOne(h, acc, k+1))
<1>1. h \in Seq([role : Roles, topic : TopicsOf(h)]) /\ k+1 \in 1..Len(h) BY DEF IsDialogue
<1>2. h[k+1] \in [role : Roles, topic : TopicsOf(h)]
  <2> DEFINE S == [role : Roles, topic : TopicsOf(h)]
  <2>1. h \in Seq(S) BY <1>1
  <2> HIDE DEF S
  <2>2. h[k+1] \in S BY <1>1, <2>1
  <2> QED BY <2>2 DEF S
<1>3. h[k+1].role \in {"user", "assistant"} /\ h[k+1].topic \in TopicsOf(h) BY <1>2 DEF Roles
<1>4. PICK new : new = ReadOne(h, acc, k+1) OBVIOUS
<1>5. k+1 \in Nat /\ k+1 # NoTurn BY NotNat
<1>6. CASE h[k+1].role = "user"
  <2> DEFINE u == NewTurn(h[k+1].topic, k+1, NoTurn)
  <2>1. u \in TurnsOf(h) /\ u.topic = h[k+1].topic /\ u.input = k+1 /\ u.output = NoTurn
    BY <1>3, <1>5 DEF NewTurn, TurnsOf, Places
  <2>2. new.turns = Append(acc.turns, u) /\ new.of = Append(acc.of, Len(acc.turns) + 1)
        /\ new.open = Len(acc.turns) + 1
    BY <1>4, <1>6 DEF ReadOne, Asked
  <2> HIDE DEF u
  <2> QED BY <1>4, <1>6, <2>1, <2>2, TurnOpened
<1>7. CASE h[k+1].role = "assistant" /\ (acc.open = NoTurn \/ acc.turns[acc.open].topic # h[k+1].topic)
  <2> DEFINE u == NewTurn(h[k+1].topic, NoTurn, k+1)
  <2>1. u \in TurnsOf(h) /\ u.topic = h[k+1].topic /\ u.input = NoTurn /\ u.output = k+1
    BY <1>3, <1>5 DEF NewTurn, TurnsOf, Places
  <2>2. new.turns = Append(acc.turns, u) /\ new.of = Append(acc.of, Len(acc.turns) + 1)
        /\ new.open = NoTurn
    BY <1>4, <1>7 DEF ReadOne, Answered
  <2> HIDE DEF u
  <2> QED BY <1>4, <1>7, <2>1, <2>2, TurnOpened
<1>8. CASE h[k+1].role = "assistant" /\ acc.open # NoTurn /\ acc.turns[acc.open].topic = h[k+1].topic
  <2>1. /\ new.turns = [acc.turns EXCEPT ![acc.open].output = k+1, ![acc.open].status = "committed"]
        /\ new.of = Append(acc.of, acc.open) /\ new.open = NoTurn
    BY <1>4, <1>8 DEF ReadOne, Answered
  <2> QED BY <1>4, <1>8, <2>1, TurnAnswered
<1> QED BY <1>3, <1>6, <1>7, <1>8

\* The store takes every dialogue that has not too many topics.
LEMMA DialoguesAreAccepted ==
  ASSUME NEW h, IsDialogue(h)
  PROVE  /\ Cardinality(TopicsOf(h)) \in Nat
         /\ Accepted(ToImport(h)) \/ Cardinality(TopicsOf(h)) > MaxTopics
<1>1. PICK n \in Nat : n = Len(h) /\ DOMAIN h = 1..n BY DEF IsDialogue
<1>2. PICK g : /\ ToImport(h) = [turns |-> g[1..n].turns, of |-> g[1..n].of, messages |-> h]
               /\ g[1..0] = Unread
               /\ \A k \in Nat : k < n => g[1..(k+1)] = ReadOne(h, g[1..k], k+1)
  BY <1>1, ToImportReads
<1> DEFINE T == {k \in Nat : k <= n => ReadWell(h, k, g[1..k])}
<1>3. 0 \in T
  <2>1. ReadWell(h, 0, Unread) BY DEF ReadWell, Unread
  <2> QED BY <2>1, <1>2
<1>4. \A k \in Nat : k \in T => k+1 \in T
  <2> SUFFICES ASSUME NEW k \in Nat, k \in T, k+1 <= n PROVE ReadWell(h, k+1, g[1..(k+1)])
    OBVIOUS
  <2>1. k < n /\ ReadWell(h, k, g[1..k]) OBVIOUS
  <2> QED BY <2>1, <1>1, <1>2, ReadsOne
<1>5. n \in T
  <2> HIDE DEF T
  <2> QED BY <1>3, <1>4, Counting
<1>6. PICK acc : acc = g[1..n] /\ ReadWell(h, n, acc) BY <1>5
<1>7. PICK imported : imported = ToImport(h) /\ imported.turns = acc.turns /\ imported.of = acc.of /\ imported.messages = h BY <1>2, <1>6
<1>8. Cardinality(TopicsOf(h)) \in Nat
  <2>1. IsFiniteSet(1..n) BY FS_Interval
  <2>2. IsFiniteSet({h[i].topic : i \in 1..n})
    <3> DEFINE I == 1..n
               P == {h[i].topic : i \in I}
               q == [i \in I |-> h[i].topic]
    <3>1. q \in Surjection(I, P) BY DEF Surjection
    <3> HIDE DEF I, P, q
    <3>2. IsFiniteSet(I) BY <2>1 DEF I
    <3>3. IsFiniteSet(P) BY <3>1, <3>2, FS_Surjection
    <3> QED BY <3>3 DEF I, P
  <2> QED BY <2>2, <1>1, FS_CardinalityType DEF TopicsOf
<1>9. \A i \in DOMAIN h :
         /\ imported.turns[imported.of[i]].topic = h[i].topic
         /\ i = IF h[i].role = "user" THEN imported.turns[imported.of[i]].input ELSE imported.turns[imported.of[i]].output
  BY <1>1, <1>6, <1>7 DEF ReadWell
<1>10. \A k \in DOMAIN imported.turns :
         /\ imported.turns[k].input # NoTurn => imported.of[imported.turns[k].input] = k /\ h[imported.turns[k].input].role = "user"
         /\ imported.turns[k].output # NoTurn => imported.of[imported.turns[k].output] = k /\ h[imported.turns[k].output].role = "assistant"
  <2>1. acc.turns \in Seq(TurnsOf(h)) BY <1>6 DEF ReadWell
  <2>2. DOMAIN acc.turns = 1..Len(acc.turns) BY <2>1
  <2>3. \A t \in 1..Len(acc.turns) :
         /\ acc.turns[t].input # NoTurn => acc.of[acc.turns[t].input] = t /\ h[acc.turns[t].input].role = "user"
         /\ acc.turns[t].output # NoTurn => acc.of[acc.turns[t].output] = t /\ h[acc.turns[t].output].role = "assistant"
    BY <1>6 DEF ReadWell
  <2> QED BY <2>2, <2>3, <1>7
<1>11. Accepted(imported) \/ ~(Cardinality(TopicsOf(h)) <= MaxTopics) BY <1>7, <1>9, <1>10 DEF Accepted
<1>12. MaxTopics \in Nat BY ImportAssumption DEF ImportAssumption
<1> QED BY <1>7, <1>8, <1>11, <1>12

\* Inductive: what the command read is what was in the file, so a valid
\* dialogue is one of the file's, and of a session there is all or nothing.
FileBytes == {Absent} \union (UNION {Contents(f) : f \in Names})

ImportInv ==
  /\ DOMAIN session = Names
  /\ DOMAIN folder = Names /\ \A f \in Names : folder[f] \in Contents(f) \union {Absent}
  /\ run \in [left : SUBSET Names, name : Names \union {NoTurn}, bytes : FileBytes]
  /\ run.name # NoTurn => run.bytes \in Contents(run.name) \union {Absent}
  /\ ImportsWhole

\* Bytes that the parser lets through.
LEMMA ReadIsDialogue ==
  ASSUME NEW f \in Names, NEW b \in Contents(f) \union {Absent}, b.code = "OK"
  PROVE  b.history \in Histories[f] /\ IsDialogue(b.history)
<1>1. PICK h \in Histories[f] : b = Good(h) BY DEF Contents, Bad, Absent, Refusals
<1>2. IsDialogue(h) BY ImportAssumption DEF ImportAssumption, IsDialogue
<1> QED BY <1>1, <1>2 DEF Good

\* What does not touch the store keeps its sessions whole.
LEMMA WholeStays ==
  ASSUME ImportsWhole, UNCHANGED <<session, ledger, failed>>
  PROVE  ImportsWhole'
BY DEF ImportsWhole

LEMMA ImportBegins == ImportInit => ImportInv
<1> SUFFICES ASSUME ImportInit PROVE ImportInv OBVIOUS
<1>1. run \in [left : SUBSET Names, name : Names \union {NoTurn}, bytes : FileBytes] /\ run.name = NoTurn
  BY DEF ImportInit, Idle, FileBytes
<1>2. DOMAIN folder = Names /\ \A f \in Names : folder[f] = Absent BY DEF ImportInit
<1>3. DOMAIN session = Names /\ \A f \in Names : session[f] \in {Absent, Bad("OWN")} BY DEF ImportInit
<1>4. ledger = {} /\ failed = {} BY DEF ImportInit
<1>5. ImportsWhole BY <1>3, <1>4 DEF ImportsWhole
<1> QED BY <1>1, <1>2, <1>3, <1>5 DEF ImportInv

\* A name is scanned.
LEMMA ScannedIsRun ==
  ASSUME ImportInv
  PROVE  Scanned \in [left : SUBSET Names, name : Names \union {NoTurn}, bytes : FileBytes] /\ Scanned.name = NoTurn
BY DEF ImportInv, Scanned, FileBytes

\* A file that is moved away is no longer there.
LEMMA MovedFolder ==
  ASSUME ImportInv, NEW f \in Names, NEW code, MovedAway(f, code)
  PROVE  DOMAIN folder' = Names /\ \A g \in Names : folder'[g] \in Contents(g) \union {Absent}
BY DEF ImportInv, MovedAway

LEMMA ImportStep == ImportInv /\ [ImportNext]_importVars => ImportInv'
<1> SUFFICES ASSUME ImportInv, [ImportNext]_importVars PROVE ImportInv' OBVIOUS
<1> DEFINE Runs == [left : SUBSET Names, name : Names \union {NoTurn}, bytes : FileBytes]
<1>a. /\ DOMAIN session = Names /\ DOMAIN folder = Names
      /\ \A f \in Names : folder[f] \in Contents(f) \union {Absent}
      /\ run \in Runs
      /\ run.name # NoTurn => run.name \in Names /\ run.bytes \in Contents(run.name) \union {Absent}
      /\ ImportsWhole
  BY DEF ImportInv
<1>b. Scanned \in Runs /\ Scanned.name = NoTurn BY ScannedIsRun
<1>c. \A f \in Names : Contents(f) \union {Absent} \subseteq FileBytes BY DEF FileBytes
<1>d. Idle \in Runs /\ Idle.name = NoTurn BY DEF Idle, FileBytes
<1>1. CASE Place
  <2>1. DOMAIN folder' = Names /\ \A f \in Names : folder'[f] \in Contents(f) \union {Absent}
    BY <1>1, <1>a DEF Place
  <2>2. ImportsWhole' BY <1>1, <1>a, WholeStays DEF Place, store
  <2> QED BY <1>1, <1>a, <2>1, <2>2 DEF ImportInv, Place, store
<1>2. CASE StartRun
  <2>1. run' \in Runs /\ run'.name = NoTurn BY <1>2, <1>d DEF StartRun, Idle
  <2>2. ImportsWhole' BY <1>2, <1>a, WholeStays DEF StartRun, store
  <2> QED BY <1>2, <1>a, <2>1, <2>2 DEF ImportInv, StartRun, store
<1>3. CASE ReadFile
  <2>1. PICK f \in run.left : run' = [left |-> run.left \ {f}, name |-> f, bytes |-> folder[f]]
    BY <1>3 DEF ReadFile
  <2>2. f \in Names /\ run.left \in SUBSET Names BY <1>a
  <2>3. folder[f] \in Contents(f) \union {Absent} BY <2>2, <1>a
  <2>4. run' \in Runs /\ run'.bytes \in Contents(run'.name) \union {Absent} BY <2>1, <2>2, <2>3, <1>c
  <2>5. ImportsWhole' BY <1>3, <1>a, WholeStays DEF ReadFile, store
  <2> QED BY <1>3, <1>a, <2>4, <2>5 DEF ImportInv, ReadFile, store
<1>4. CASE Refuse
  <2>1. DOMAIN folder' = Names /\ \A f \in Names : folder'[f] \in Contents(f) \union {Absent}
    BY <1>4, <1>a, MovedFolder DEF Refuse
  <2>2. ImportsWhole' BY <1>4, <1>a, WholeStays DEF Refuse, store
  <2> QED BY <1>4, <1>a, <1>b, <2>1, <2>2 DEF ImportInv, Refuse, store
<1>5. CASE Import
  <2>1. PICK f, h : f = run.name /\ h = run.bytes.history OBVIOUS
  <2>2. f \in Names /\ h \in Histories[f] BY <1>5, <2>1, <1>a, ReadIsDialogue DEF Import
  <2>3. /\ ~Taken(f)
        /\ session' = [session EXCEPT ![f] = [code |-> "OK", history |-> ToImport(h)]]
        /\ ledger' = ledger \union {Row(f, h)}
        /\ run' = Scanned /\ failed' = failed /\ folder' = folder
    BY <1>5, <2>1 DEF Import
  <2>4. Row(f, h).name = f BY DEF Row
  <2>5. {r \in ledger' : r.name = f} = {Row(f, h)} BY <2>3, <2>4 DEF Taken
  <2>6. session'[f].history = ToImport(h) BY <2>2, <2>3, <1>a
  <2>7. \A g \in Names : g # f => session'[g] = session[g] /\ {r \in ledger' : r.name = g} = {r \in ledger : r.name = g}
    BY <2>3, <2>4, <1>a
  <2>8. ImportsWhole'
    <3>1. \A r \in failed' : Cardinality(TopicsOf(r.bytes)) > MaxTopics BY <2>3, <1>a DEF ImportsWhole
    <3>2. ASSUME NEW g \in Names
          PROVE \/ session'[g] \in {Absent, Bad("OWN")} /\ (\A r \in ledger' : r.name # g)
                \/ \E k \in Histories[g] : /\ session'[g].history = ToImport(k)
                                           /\ {r \in ledger' : r.name = g} = {Row(g, k)}
      <4>1. CASE g = f BY <4>1, <2>2, <2>5, <2>6
      <4>2. CASE g # f
        <5>1. \/ session[g] \in {Absent, Bad("OWN")} /\ (\A r \in ledger : r.name # g)
              \/ \E k \in Histories[g] : /\ session[g].history = ToImport(k)
                                         /\ {r \in ledger : r.name = g} = {Row(g, k)}
          BY <1>a DEF ImportsWhole
        <5>2. session'[g] = session[g] /\ {r \in ledger' : r.name = g} = {r \in ledger : r.name = g} BY <4>2, <2>7
        <5>3. CASE session[g] \in {Absent, Bad("OWN")} /\ \A r \in ledger : r.name # g
          BY <5>2, <5>3, <2>3, <2>4, <4>2
        <5>4. CASE \E k \in Histories[g] : /\ session[g].history = ToImport(k)
                                           /\ {r \in ledger : r.name = g} = {Row(g, k)}
          BY <5>2, <5>4
        <5> QED BY <5>1, <5>3, <5>4
      <4> QED BY <4>1, <4>2
    <3> QED BY <3>1, <3>2 DEF ImportsWhole
  <2>9. DOMAIN session' = Names BY <2>3, <1>a
  <2> QED BY <1>a, <1>b, <2>3, <2>8, <2>9 DEF ImportInv
<1>6. CASE Duplicate
  <2>1. ImportsWhole' BY <1>6, <1>a, WholeStays DEF Duplicate, store
  <2> QED BY <1>6, <1>a, <1>b, <2>1 DEF ImportInv, Duplicate, store
<1>7. CASE Conflict
  <2>1. DOMAIN folder' = Names /\ \A f \in Names : folder'[f] \in Contents(f) \union {Absent}
    BY <1>7, <1>a, MovedFolder DEF Conflict
  <2>2. ImportsWhole' BY <1>7, <1>a, WholeStays DEF Conflict, store
  <2> QED BY <1>7, <1>a, <1>b, <2>1, <2>2 DEF ImportInv, Conflict, store
<1>8. CASE Fail
  <2>1. PICK f, h : f = run.name /\ h = run.bytes.history OBVIOUS
  <2>2. f \in Names /\ IsDialogue(h) BY <1>8, <2>1, <1>a, ReadIsDialogue DEF Fail
  <2>3. /\ ~Accepted(ToImport(h))
        /\ failed' = failed \union {Row(f, h)} /\ run' = Scanned
        /\ session' = session /\ ledger' = ledger /\ folder' = folder
    BY <1>8, <2>1 DEF Fail, store
  <2>4. Cardinality(TopicsOf(h)) > MaxTopics BY <2>2, <2>3, DialoguesAreAccepted
  <2>5. ImportsWhole' BY <2>3, <2>4, <1>a DEF ImportsWhole, Row
  <2> QED BY <1>a, <1>b, <2>3, <2>5 DEF ImportInv
<1>9. CASE EndRun
  <2>1. ImportsWhole' BY <1>9, <1>a, WholeStays DEF EndRun, store
  <2> QED BY <1>9, <1>a, <1>d, <2>1 DEF ImportInv, EndRun, store
<1>10. CASE Retain
  <2>1. PICK f \in Names : /\ session' = [session EXCEPT ![f] = Absent]
                           /\ ledger' = {r \in ledger : r.name # f}
    BY <1>10 DEF Retain
  <2>2. failed' = failed /\ folder' = folder /\ run' = run BY <1>10 DEF Retain
  <2>3. session'[f] = Absent /\ \A r \in ledger' : r.name # f BY <2>1, <1>a
  <2>4. \A g \in Names : g # f => session'[g] = session[g] /\ {r \in ledger' : r.name = g} = {r \in ledger : r.name = g}
    BY <2>1, <1>a
  <2>5. ImportsWhole'
    <3>1. \A r \in failed' : Cardinality(TopicsOf(r.bytes)) > MaxTopics BY <2>2, <1>a DEF ImportsWhole
    <3>2. ASSUME NEW g \in Names
          PROVE \/ session'[g] \in {Absent, Bad("OWN")} /\ (\A r \in ledger' : r.name # g)
                \/ \E k \in Histories[g] : /\ session'[g].history = ToImport(k)
                                           /\ {r \in ledger' : r.name = g} = {Row(g, k)}
      <4>1. CASE g = f BY <4>1, <2>3
      <4>2. CASE g # f
        <5>1. \/ session[g] \in {Absent, Bad("OWN")} /\ (\A r \in ledger : r.name # g)
              \/ \E k \in Histories[g] : /\ session[g].history = ToImport(k)
                                         /\ {r \in ledger : r.name = g} = {Row(g, k)}
          BY <1>a DEF ImportsWhole
        <5>2. session'[g] = session[g] /\ {r \in ledger' : r.name = g} = {r \in ledger : r.name = g} BY <4>2, <2>4
        <5>3. CASE session[g] \in {Absent, Bad("OWN")} /\ \A r \in ledger : r.name # g
          BY <5>2, <5>3, <2>1
        <5>4. CASE \E k \in Histories[g] : /\ session[g].history = ToImport(k)
                                           /\ {r \in ledger : r.name = g} = {Row(g, k)}
          BY <5>2, <5>4
        <5> QED BY <5>1, <5>3, <5>4
      <4> QED BY <4>1, <4>2
    <3> QED BY <3>1, <3>2 DEF ImportsWhole
  <2>6. DOMAIN session' = Names BY <2>1, <1>a
  <2> QED BY <1>a, <2>2, <2>5, <2>6 DEF ImportInv
<1>11. CASE UNCHANGED importVars
  <2>1. ImportsWhole' BY <1>11, <1>a, WholeStays DEF importVars, store
  <2> QED BY <1>11, <1>a, <2>1 DEF ImportInv, importVars, store
<1> QED BY <1>1, <1>2, <1>3, <1>4, <1>5, <1>6, <1>7, <1>8, <1>9, <1>10, <1>11 DEF ImportNext

(***************************************************************************)
(* ImportsWhole: what the parser lets through the store takes, for         *)
(* dialogues of any length, and a session is there as a whole or not at    *)
(* all (toImport of legacy-session-import.ts, importLegacySession of       *)
(* conversation-store.ts).                                                 *)
(***************************************************************************)
THEOREM ImportsWholeAlways == ImportSpec => []ImportsWhole
<1>1. ImportInv => ImportsWhole BY DEF ImportInv
<1> QED BY <1>1, ImportBegins, ImportStep, PTL DEF ImportSpec

-----------------------------------------------------------------------------
(* Who owns the store.  A process that owns it has its row in it, and no    *)
(* other process may claim the row while it lives.                          *)

USE StartupAssumption

\* What a process streams it streams as the owner, once it serves.
StartupInv ==
  /\ OwnsAlone
  /\ pid = [p \in Procs |-> pid[p]]
  /\ \A p \in Procs : streams[p] # {} => phase[p] = "serving"

\* One process owns the store: the row names one.
LEMMA OneOwner == ASSUME StartupInv PROVE \A p, q \in Owners : p = q
  BY DEF StartupInv, OwnsAlone, RowOf

LEMMA StartupBegins == StartupInit => StartupInv
  BY DEF StartupInit, StartupInv, OwnsAlone, StartupTypeOK, Owners, Owning, Phases, RowsOK, Statuses

LEMMA StartupStep == StartupInv /\ [StartupNext]_startupVars => StartupInv'
<1> SUFFICES ASSUME StartupInv, [StartupNext]_startupVars PROVE StartupInv'
  OBVIOUS
<1> USE DEF StartupInv
<1>t. StartupTypeOK BY DEF OwnsAlone
<1>r. \A p \in Procs : pid[p] \in Pids => RowOf(p) \in RowsOK /\ RowOf(p) # NoRow /\ RowOf(p).token = p
  BY DEF RowOf, RowsOK, Hosts, NoRow
<1>o. \A p \in Owners : p \in Procs /\ phase[p] # "off" /\ pid[p] \in Pids /\ owner = RowOf(p)
  BY <1>t DEF OwnsAlone, Owners, Owning, StartupTypeOK
<1>a. \A p \in Owners, q \in Procs : ~MayClaim(q, owner)
  <2> SUFFICES ASSUME NEW p \in Owners, NEW q \in Procs PROVE ~MayClaim(q, owner)
    OBVIOUS
  <2>1. owner.pid = pid[p] /\ owner.host = Host[p] /\ owner # NoRow BY <1>o, <1>r DEF RowOf
  <2>2. Alive(Host[p], pid[p]) BY <1>o DEF Alive, UsedPids, Running
  <2> QED BY <2>1, <2>2 DEF MayClaim
\* A process that stops, or is not started yet, leaves the others alone.
<1>1. ASSUME NEW p \in Procs, Stopped(p), UNCHANGED <<disk, others>> PROVE StartupInv'
  <2>1. StartupTypeOK' BY <1>1, <1>t DEF StartupTypeOK, Stopped, Phases, disk
  <2>2. Owners' = Owners \ {p} BY <1>1, <1>t DEF Owners, Owning, Stopped, StartupTypeOK
  <2>3. \A q \in Owners' : q # p /\ pid'[q] = pid[q] /\ streams'[q] = streams[q] /\ q \in Owners
    BY <2>2, <1>1, <1>o, <1>t DEF Stopped, StartupTypeOK
  <2>4. OwnsAlone' BY <2>1, <2>3, <1>1 DEF OwnsAlone, RowOf, disk
  <2> QED BY <2>4, <1>1, <1>t DEF Stopped, StartupTypeOK
\* A process goes on, but not to own the store.
<1>2. ASSUME NEW p \in Procs, NEW ph \in Phases, phase[p] # "off", phase' = [phase EXCEPT ![p] = ph],
             ph \in Owning => phase[p] \in Owning,
             phase[p] = "serving" /\ ph # "serving" => streams'[p] = {},
             \/ streams' = streams
             \/ streams' = [streams EXCEPT ![p] = {}],
             pid' = pid, owner' = owner, others' = others, jobsOwner' \in RowsOK, migrations' \subseteq Nat,
             answer' \in [Answers -> Statuses],
             \A q \in Owners : \A a \in streams'[q] : answer'[a] = "streaming"
      PROVE  StartupInv'
  <2>0. streams' \in [Procs -> SUBSET Answers] /\ phase' \in [Procs -> Phases]
    BY <1>2, <1>t DEF StartupTypeOK
  <2>1. StartupTypeOK' BY <2>0, <1>2, <1>t DEF StartupTypeOK
  <2>2. Owners' \subseteq Owners BY <1>2, <1>t DEF Owners, StartupTypeOK
  <2>3. OwnsAlone' BY <2>1, <2>2, <1>2 DEF OwnsAlone, RowOf
  <2> QED BY <2>3, <1>2, <1>t DEF StartupTypeOK
<1>3. ASSUME NEW p \in Procs, Start(p) PROVE StartupInv'
  <2>1. PICK i \in Pids : pid' = [pid EXCEPT ![p] = i] BY <1>3 DEF Start
  <2>2. StartupTypeOK'
    <3>1. phase' \in [Procs -> Phases] BY <1>3, <1>t DEF Start, StartupTypeOK, Phases
    <3>2. UNCHANGED <<disk, streams, others>> BY <1>3 DEF Start
    <3>3. \A q \in Procs : phase'[q] # "off" => pid'[q] \in Pids
      BY <1>3, <1>t, <2>1 DEF Start, StartupTypeOK
    <3> QED BY <1>t, <3>1, <3>2, <3>3 DEF StartupTypeOK, disk
  <2>3. Owners' = Owners /\ p \notin Owners BY <1>3, <1>t DEF Start, Owners, Owning, StartupTypeOK
  <2>4. OwnsAlone'
    <3>1. \A q \in Owners' : RowOf(q)' = RowOf(q)
      BY <2>1, <2>3, <1>o, <1>t DEF RowOf, StartupTypeOK
    <3> QED BY <2>2, <2>3, <3>1, <1>3 DEF Start, disk, OwnsAlone
  <2> QED BY <2>4, <1>3, <1>t DEF Start, StartupTypeOK
<1>4. ASSUME NEW p \in Procs, Claim(p) PROVE StartupInv'
  <2>1. Owners = {} BY <1>4, <1>a DEF Claim
  <2>2. Owners' = {p} BY <1>4, <2>1, <1>t DEF Claim, Owners, Owning, StartupTypeOK
  <2>3. StartupTypeOK' BY <1>4, <1>t, <1>r DEF Claim, StartupTypeOK, Phases
  <2>4. streams[p] = {} BY <1>4, <1>t DEF Claim, StartupTypeOK
  <2>5. OwnsAlone' BY <2>2, <2>3, <2>4, <1>4 DEF Claim, OwnsAlone, RowOf
  <2> QED BY <2>5, <2>1, <1>4, <1>t DEF Claim, StartupTypeOK
<1>5. ASSUME NEW p \in Procs, ClaimJobs(p) PROVE StartupInv'
  <2>1. jobsOwner' \in RowsOK /\ phase[p] = "jobs" BY <1>5, <1>t, <1>r DEF ClaimJobs, StartupTypeOK
  <2> QED BY <2>1, <1>2, <1>5, <1>t DEF ClaimJobs, OwnsAlone, StartupTypeOK, Phases, Owning
<1>6. ASSUME NEW p \in Procs, Migrate(p) PROVE StartupInv'
  <2>1. migrations' \subseteq Nat /\ phase[p] = "open" BY <1>6, <1>t DEF Migrate, Missing, StartupTypeOK
  <2> QED BY <2>1, <1>2, <1>6, <1>t DEF Migrate, OwnsAlone, StartupTypeOK, Phases, Owning
\* Only an owner recovers what is streaming, and it does not stream yet.
<1>7. ASSUME NEW p \in Procs, Recover(p) PROVE StartupInv'
  <2>1. \A q \in Owners : q = p BY <1>7, OneOwner DEF Recover, Owners, Owning
  <2>2. streams[p] = {} BY <1>7, <1>t DEF Recover, StartupTypeOK
  <2>3. answer' \in [Answers -> Statuses] BY <1>7, <1>t DEF Recover, StartupTypeOK, Statuses
  <2> QED BY <2>1, <2>2, <2>3, <1>2, <1>7, <1>t DEF Recover, StartupTypeOK, Phases, Owning
<1>8. ASSUME NEW p \in Procs, Listen(p) PROVE StartupInv'
  <2>1. PICK ph \in {"serving", "closing"} : phase' = [phase EXCEPT ![p] = ph] BY <1>8 DEF Listen
  <2>2. /\ phase[p] = "calendar" /\ streams[p] = {} /\ ph \in Phases
        /\ UNCHANGED <<migrations, owner, jobsOwner, answer, pid, streams, others>>
    BY <1>8, <1>t DEF Listen, disk, Phases, StartupTypeOK
  <2>3. jobsOwner' \in RowsOK /\ migrations' \subseteq Nat /\ answer' \in [Answers -> Statuses]
    BY <2>2, <1>t DEF StartupTypeOK
  <2>4. \A q \in Owners : \A a \in streams'[q] : answer'[a] = "streaming" BY <2>2 DEF OwnsAlone
  <2>5. phase[p] \in Owning BY <2>2 DEF Owning
  <2> QED BY <2>1, <2>2, <2>3, <2>4, <2>5, <1>2
<1>9. ASSUME NEW p \in Procs, Shutdown(p) PROVE StartupInv'
  <2>1. \A q \in Owners : q = p BY <1>9, OneOwner DEF Shutdown, Owners, Owning
  <2>2. answer' \in [Answers -> Statuses] BY <1>9, <1>t DEF Shutdown, StartupTypeOK, Statuses
  <2>3. streams'[p] = {} BY <1>9, <1>t DEF Shutdown, StartupTypeOK
  <2> QED BY <2>1, <2>2, <2>3, <1>2, <1>9, <1>t DEF Shutdown, StartupTypeOK, Phases, Owning
\* What the only owner streams changes with the row on file.
<1>10. ASSUME NEW p \in Procs, BeginAnswer(p) \/ EndAnswer(p) PROVE StartupInv'
  <2>1. phase[p] = "serving" BY <1>10 DEF BeginAnswer, EndAnswer
  <2>2. Owners = {p} BY <2>1, OneOwner DEF Owners, Owning
  <2>3. PICK a \in Answers : \/ answer' = [answer EXCEPT ![a] = "streaming"] /\ streams' = [streams EXCEPT ![p] = @ \cup {a}]
                             \/ answer' = [answer EXCEPT ![a] = "committed"] /\ streams' = [streams EXCEPT ![p] = @ \ {a}]
    BY <1>10, <1>t DEF BeginAnswer, EndAnswer, StartupTypeOK
  <2>4. UNCHANGED <<migrations, owner, jobsOwner, phase, pid, others>> BY <1>10 DEF BeginAnswer, EndAnswer
  <2>5. StartupTypeOK' BY <2>3, <2>4, <1>t DEF StartupTypeOK, Statuses
  <2>6. \A b \in streams'[p] : answer'[b] = "streaming"
    BY <2>2, <2>3, <1>t DEF OwnsAlone, StartupTypeOK
  <2>7. Owners' = {p} BY <2>2, <2>4 DEF Owners
  <2>8. OwnsAlone' BY <2>2, <2>4, <2>5, <2>6, <2>7 DEF OwnsAlone, RowOf
  <2> QED BY <2>1, <2>3, <2>4, <2>8, <1>t DEF StartupTypeOK
<1>11. ASSUME NEW p \in Procs, CloseStores(p) PROVE StartupInv'
  <2>1. Owners = {p} BY <1>11, OneOwner DEF CloseStores, Owners, Owning
  <2>2. /\ owner' \in RowsOK /\ jobsOwner' \in RowsOK
    BY <1>11, <1>t DEF CloseStores, Released, RowsOK, StartupTypeOK
  <2>3. StartupTypeOK' BY <2>2, <1>11, <1>t DEF CloseStores, StartupTypeOK, Stopped, Phases
  <2>4. Owners' = {} BY <2>1, <1>11, <1>t DEF CloseStores, Owners, Owning, Stopped, StartupTypeOK
  <2> QED BY <2>3, <2>4, <1>11, <1>t DEF CloseStores, Stopped, OwnsAlone, StartupTypeOK
<1>12. ASSUME Elsewhere PROVE StartupInv'
  <2>1. others' \in [Hosts -> SUBSET Pids] BY <1>12, <1>t DEF Elsewhere, StartupTypeOK
  <2>2. UNCHANGED <<disk, phase, pid, streams>> BY <1>12 DEF Elsewhere
  <2> QED BY <2>1, <2>2 DEF disk, OwnsAlone, StartupTypeOK, Owners, RowOf
<1>13. ASSUME UNCHANGED startupVars PROVE StartupInv'
  BY <1>13 DEF startupVars, disk, OwnsAlone, StartupTypeOK, Owners, RowOf
<1>14. ASSUME NEW p \in Procs, JobsRefused(p) \/ TooNew(p) \/ ClaimRefused(p) \/ Crash(p) PROVE StartupInv'
  BY <1>1, <1>14 DEF JobsRefused, TooNew, ClaimRefused, Crash
<1> QED
  BY <1>3, <1>4, <1>5, <1>6, <1>7, <1>8, <1>9, <1>10, <1>11, <1>12, <1>13, <1>14 DEF StartupNext

\* One process owns the store, the row on file is its own, and nobody calls
\* interrupted what it streams: through crashes, reused process ids, programs of
\* two releases and machines that share the directory (conversation-store.ts:639-674).
THEOREM OwnsAloneAlways == StartupSpec => []OwnsAlone
<1>1. StartupInv => OwnsAlone BY DEF StartupInv
<1> QED BY StartupBegins, StartupStep, <1>1, PTL DEF StartupSpec

HIDE StartupAssumption

-----------------------------------------------------------------------------
(***************************************************************************)
(* For any number of generations and any window and lifetime: one          *)
(* authoritative generation at most, an overlap that replays do not        *)
(* prolong, and a client that is not locked out by an operation.           *)
(*                                                                         *)
(* The store's order of creation makes the first inductive (a row that was *)
(* not issued yet is newer than every used one); the second needs the      *)
(* successor whose deadline each presented generation waits for, and that  *)
(* an older row does not outlive a newer one; the third, that what is in   *)
(* transit to be acknowledged is what the client holds.                    *)
(***************************************************************************)

USE BoundAssumption, TimeAssumption

\* The rows are typed and used in the order of their numbers.
RowsOk ==
  /\ issued \in 0..MaxGen
  /\ state \in [Gen -> States]
  /\ \A g \in Gen : state[g] = "unused" <=> g > issued

IInv == RowsOk /\ OneActive

\* Rows an operation may start from: those issued are in use, and no usable row
\* is beside an active one unless it is pending and newer.
GoodRows(st) ==
  /\ st \in [Gen -> States]
  /\ \A g \in Gen : st[g] = "unused" <=> g > issued
  /\ \A g, h \in Gen : st[g] = "active" /\ Usable(st, h) /\ g # h => st[h] = "pending" /\ h > g

\* A set of generations that is not empty has a newest one (ORDER BY created_at
\* DESC LIMIT 1 finds a row).
LEMMA NewestExists ==
  ASSUME NEW S, S \subseteq Gen, S # {}
  PROVE  Newest(S) \in S /\ \A h \in S : h <= Newest(S)
<1> DEFINE T == {MaxGen - g : g \in S}
<1>1. T \subseteq Nat /\ T # {}
  <2>1. PICK g \in S : TRUE OBVIOUS
  <2>2. MaxGen - g \in T BY <2>1
  <2>3. \A h \in S : MaxGen - h \in Nat BY BoundAssumption DEF Gen
  <2> QED BY <2>2, <2>3
<1>2. PICK x \in T : \A y \in T : ~(<<y, x>> \in OpToRel(<, Nat))
  <2> HIDE DEF T
  <2> QED BY <1>1, NatLessThanWellFounded, WFMin
<1>3. PICK g \in S : x = MaxGen - g OBVIOUS
<1>4. \A h \in S : h <= g
  <2> SUFFICES ASSUME NEW h \in S, ~(h <= g) PROVE FALSE OBVIOUS
  <2>1. MaxGen - h \in T /\ MaxGen - h < x /\ MaxGen - h \in Nat /\ x \in Nat BY <1>3 DEF Gen
  <2> HIDE DEF T
  <2>2. <<MaxGen - h, x>> \in OpToRel(<, Nat) BY <2>1 DEF OpToRel
  <2> QED BY <1>2, <2>1, <2>2
<1> QED BY <1>4 DEF Newest

\* Promotion (promoteDeviceCredential) leaves one usable row, whatever it
\* starts from.
LEMMA PromotedGood ==
  ASSUME NEW st, GoodRows(st), NEW g \in Gen, st[g] # "unused"
  PROVE  GoodRows(Promoted(st, g))
  BY DEF GoodRows, Promoted, Usable, States

\* Settlement, which opens every operation, keeps the rows in order.
LEMMA SettledGood ==
  ASSUME IInv
  PROVE  GoodRows(Settled)
<1>1. GoodRows(state) BY DEF IInv, RowsOk, OneActive, GoodRows
<1> DEFINE st == IF Due = {} THEN state ELSE Promoted(state, Newest(Due))
<1>2. GoodRows(st)
  <2>1. CASE Due = {} BY <1>1, <2>1
  <2>2. CASE Due # {}
    <3>1. Due \subseteq Gen BY DEF Due
    <3>2. Newest(Due) \in Due BY <2>2, <3>1, NewestExists
    <3>3. Newest(Due) \in Gen /\ state[Newest(Due)] # "unused" BY <3>2 DEF Due
    <3> QED BY <1>1, <2>2, <3>3, PromotedGood
  <2> QED BY <2>1, <2>2
<1>3. Settled = [g \in Gen |-> IF st[g] # "unused" /\ life[g] = 0 THEN "revoked" ELSE st[g]]
  BY DEF Settled
<1> HIDE DEF st
<1> QED BY <1>2, <1>3 DEF GoodRows, Usable, States

\* A new pending row is newer than every row in use.
LEMMA InsertGood ==
  ASSUME IInv, NEW st, GoodRows(st), NEW p, NEW d, Insert(st, p, d)
  PROVE  IInv'
<1>1. issued \in 0..MaxGen /\ issued < MaxGen /\ issued + 1 \in Gen BY DEF IInv, RowsOk, Insert, Gen
<1>2. RowsOk' BY <1>1 DEF Insert, GoodRows, RowsOk, Gen, States
<1>3. OneActive' BY <1>1 DEF Insert, GoodRows, OneActive, Usable, Gen, States
<1> QED BY <1>2, <1>3 DEF IInv

\* Revoking the successors that were not persisted keeps the rows in order.
LEMMA ChildrenRevoked ==
  ASSUME NEW st, GoodRows(st), NEW S, \A h \in S : h \in Gen /\ st[h] = "pending"
  PROVE  GoodRows([h \in Gen |-> IF h \in S THEN "revoked" ELSE st[h]])
  BY DEF GoodRows, Usable, States

\* An operation that rewrites the rows without a new one.
LEMMA RewriteGood ==
  ASSUME IInv, NEW st, GoodRows(st), state' = st, issued' = issued
  PROVE  IInv'
  BY DEF IInv, GoodRows, RowsOk, OneActive, Usable, Gen

\* Every step keeps the rows in order: the four operations of the store rewrite
\* them, everything else leaves them alone.
LEMMA StepOrdered == IInv /\ [Next]_vars => IInv'
<1> SUFFICES ASSUME IInv, [Next]_vars PROVE IInv' OBVIOUS
<1>0. GoodRows(Settled) BY SettledGood
<1>1. CASE Provision BY <1>0, <1>1, InsertGood DEF Provision
<1>2. CASE DeviceLogin
  <2> DEFINE st == IF Settled[held] = "pending" THEN Promoted(Settled, held) ELSE Settled
             graces == {grace[h] : h \in Children(st, held)} \cup {Window}
             hard == CHOOSE d \in graces : \A e \in graces : d <= e
             st2 == [h \in Gen |-> IF h \in Children(st, held) THEN "revoked" ELSE st[h]]
  <2>1. Usable(Settled, held) /\ Insert(st2, held, hard) BY <1>2 DEF DeviceLogin
  <2>2. GoodRows(st) BY <1>0, <2>1, PromotedGood DEF Usable
  <2> HIDE DEF st, hard
  <2>3. GoodRows(st2) BY <2>2, ChildrenRevoked DEF Children
  <2> HIDE DEF st2
  <2> QED BY <2>1, <2>3, InsertGood
<1>3. CASE Acknowledge
  <2>1. GoodRows(IF Settled[toServer] = "pending" THEN Promoted(Settled, toServer) ELSE Settled)
    BY <1>0, <1>3, PromotedGood DEF Acknowledge, Usable
  <2> QED BY <1>3, <2>1, RewriteGood DEF Acknowledge
<1>4. CASE SettleElsewhere BY <1>0, <1>4, RewriteGood DEF SettleElsewhere
<1>5. CASE Revoke
  <2>1. GoodRows([g \in Gen |-> IF state[g] = "unused" THEN "unused" ELSE "revoked"])
    BY DEF GoodRows, IInv, RowsOk, Usable, States
  <2> QED BY <1>5, <2>1, RewriteGood DEF Revoke
<1>6. ASSUME UNCHANGED <<issued, state>> PROVE IInv'
  BY <1>6 DEF IInv, RowsOk, OneActive, Usable, Gen
<1>7. CASE DeviceRefused BY <1>6, <1>7 DEF DeviceRefused, rows
<1>8. CASE AckRefused BY <1>6, <1>8 DEF AckRefused, rows
<1>9. CASE Ready BY <1>6, <1>9 DEF Ready, rows
<1>10. CASE \E ok \in BOOLEAN : HostWrite(ok) BY <1>6, <1>10 DEF HostWrite, rows
<1>11. CASE DropExpired BY <1>6, <1>11 DEF DropExpired, rows
<1>12. CASE Drop BY <1>6, <1>12 DEF Drop, rows
<1>13. CASE Reload BY <1>6, <1>13 DEF Reload, rows
<1>14. CASE Tick BY <1>6, <1>14 DEF Tick
<1>15. CASE UNCHANGED vars BY <1>6, <1>15 DEF vars, rows
<1> QED BY <1>1, <1>2, <1>3, <1>4, <1>5, <1>7, <1>8, <1>9, <1>10, <1>11, <1>12, <1>13, <1>14, <1>15 DEF Next

\* No sequence of logins, replays, acknowledgements, settlements and losses
\* leaves two authoritative generations of a device, or an older one usable
\* beside the authoritative one (issue/rotate/acknowledgeDeviceCredential).
THEOREM OneActiveAlways == Spec => []OneActive
<1>1. Init => IInv BY DEF Init, IInv, RowsOk, OneActive, Usable, Gen, States
<1>2. IInv /\ [Next]_vars => IInv' BY StepOrdered
<1>3. IInv => OneActive BY DEF IInv
<1> QED BY <1>1, <1>2, <1>3, PTL DEF Spec

-----------------------------------------------------------------------------
(* The overlap of two generations.                                         *)

\* Rows st in which a generation that was presented is the active one and has
\* a successor whose grace ends with the window.
Presented(st) ==
  \A g \in Gen : since[g] # Window + 1 /\ Usable(st, g) =>
    /\ st[g] = "active"
    /\ \E h \in Gen : pred[h] = g /\ st[h] = "pending" /\ grace[h] + since[g] <= Window

\* An older generation does not outlive a newer one.
Lives == \A g, h \in Gen : g < h /\ h <= issued => life[g] <= life[h]

\* A row that was not issued was not presented.
Unpresented == \A g \in Gen : g > issued => since[g] = Window + 1

\* While a connection lasts, what it acknowledges is what the client holds; what
\* is in transit, or queued to be acknowledged, belongs to that connection.
HeldIsAcked ==
  /\ toServer # 0 => toServer = held
  /\ \A i \in 1..Len(writes) : writes[i].ack => writes[i].val = held
  /\ ~up => toServer = 0 /\ toClient = 0
  /\ ~up \/ toClient # 0 => toServer = 0 /\ \A i \in 1..Len(writes) : ~writes[i].ack

OverlapInv == IInv /\ TypeOK /\ Presented(state) /\ Lives /\ Unpresented

\* A set of deadlines that is not empty has an earliest one (MIN over the rows).
LEMMA LeastExists ==
  ASSUME NEW S, S \subseteq Nat, S # {}
  PROVE  \E d \in S : \A e \in S : d <= e
<1>1. PICK d \in S : \A e \in S : ~(<<e, d>> \in OpToRel(<, Nat))
  BY NatLessThanWellFounded, WFMin
<1>2. \A e \in S : d <= e
  <2> SUFFICES ASSUME NEW e \in S, ~(d <= e) PROVE FALSE OBVIOUS
  <2>1. e < d /\ e \in Nat /\ d \in Nat OBVIOUS
  <2>2. <<e, d>> \in OpToRel(<, Nat) BY <2>1 DEF OpToRel
  <2> QED BY <1>1, <2>2
<1> QED BY <1>2

\* Promoting a pending generation ends those that were presented before.
LEMMA PromotedPresented ==
  ASSUME NEW st, Presented(st), NEW g \in Gen, st[g] = "pending"
  PROVE  Presented(Promoted(st, g))
  BY DEF Presented, Promoted, Usable

\* Settlement ends a generation whose successor is due.
LEMMA SettledPresented ==
  ASSUME OverlapInv
  PROVE  Presented(Settled) /\ \A g \in Gen : since[g] = Window => ~Usable(Settled, g)
<1> USE DEF OverlapInv
<1> DEFINE st == IF Due = {} THEN state ELSE Promoted(state, Newest(Due))
<1>1. Presented(st) /\ GoodRows(st) /\ (Due # {} => Newest(Due) \in Due /\ st = Promoted(state, Newest(Due)))
  <2>0. GoodRows(state) BY DEF IInv, RowsOk, OneActive, GoodRows
  <2>1. CASE Due = {} BY <2>0, <2>1
  <2>2. CASE Due # {}
    <3>1. Due \subseteq Gen BY DEF Due
    <3>2. Newest(Due) \in Due BY <2>2, <3>1, NewestExists
    <3>3. Newest(Due) \in Gen /\ state[Newest(Due)] = "pending" BY <3>2 DEF Due
    <3> QED BY <2>0, <2>2, <3>2, <3>3, PromotedGood, PromotedPresented
  <2> QED BY <2>1, <2>2
<1>2. Settled = [g \in Gen |-> IF st[g] # "unused" /\ life[g] = 0 THEN "revoked" ELSE st[g]]
  BY DEF Settled
<1>3. ASSUME NEW g \in Gen, since[g] # Window + 1, Usable(Settled, g)
      PROVE  Settled[g] = "active" /\ \E h \in Gen : pred[h] = g /\ Settled[h] = "pending" /\ grace[h] + since[g] <= Window
                                                /\ h > g /\ h <= issued
  <2>1. Usable(st, g) /\ life[g] # 0
    <3> HIDE DEF st
    <3> QED BY <1>2, <1>3 DEF Usable
  <2>2. PICK h \in Gen : st[g] = "active" /\ pred[h] = g /\ st[h] = "pending" /\ grace[h] + since[g] <= Window
    <3> HIDE DEF st
    <3> QED BY <1>1, <1>3, <2>1 DEF Presented
  <2> HIDE DEF st
  <2>3. h > g /\ h <= issued BY <1>1, <2>2 DEF GoodRows, Usable, IInv, RowsOk, Gen
  <2>4. life[h] # 0 BY <2>1, <2>3 DEF Lives, TypeOK
  <2> QED BY <1>2, <2>1, <2>2, <2>3, <2>4
<1>4. ASSUME NEW g \in Gen, since[g] = Window, Usable(Settled, g) PROVE FALSE
  <2>1. PICK h \in Gen : Settled[g] = "active" /\ Settled[h] = "pending" /\ grace[h] + since[g] <= Window
    <3>1. since[g] # Window + 1 BY <1>4
    <3> HIDE DEF st
    <3> QED BY <1>3, <1>4, <3>1
  <2>2. grace[h] = 0 BY <1>4, <2>1 DEF TypeOK
  <2>3. st[h] = "pending" /\ life[h] # 0 /\ st[g] = "active"
    <3> HIDE DEF st
    <3> QED BY <1>2, <2>1
  <2>4. state[h] = "pending" /\ state[g] = "active"
    <3>1. CASE Due = {} BY <2>3, <3>1
    <3>2. CASE Due # {}
      <4>1. st[h] # "pending" BY <3>2 DEF Promoted
      <4> QED BY <2>3, <4>1
    <3> QED BY <3>1, <3>2
  <2>5. h \in Due BY <2>2, <2>3, <2>4 DEF Due, TypeOK
  <2>6. st = Promoted(state, Newest(Due)) /\ Newest(Due) \in Due BY <1>1, <2>5
  <2>7. st[h] # "pending"
    <3> HIDE DEF st
    <3> QED BY <2>6 DEF Promoted
  <2> QED BY <2>3, <2>7
<1> HIDE DEF st
<1> QED BY <1>3, <1>4 DEF Presented

\* A generation that is inserted leaves the others their successors.
LEMMA InsertPresented ==
  ASSUME OverlapInv, NEW st, GoodRows(st), NEW p \in 0..MaxGen, NEW d \in 0..Window, Insert(st, p, d),
         \A g \in Gen : since'[g] \in 0..Window \cup {Window + 1},
         \A g \in Gen : g > issued => since'[g] = Window + 1,
         \A g \in Gen : since'[g] # Window + 1 /\ Usable(st, g) =>
           /\ st[g] = "active"
           /\ \/ \E h \in Gen : h <= issued /\ pred[h] = g /\ st[h] = "pending" /\ grace[h] + since'[g] <= Window
              \/ p = g /\ d + since'[g] <= Window
  PROVE  Presented(state)' /\ Lives' /\ Unpresented'
<1> USE DEF OverlapInv
<1> DEFINE n == issued + 1
<1>1. /\ issued \in 0..MaxGen /\ n \in Gen /\ issued' = n
      /\ state'[n] = "pending" /\ pred'[n] = p /\ grace'[n] = d /\ life'[n] = Ttl
      /\ \A g \in Gen \ {n} : state'[g] = st[g] /\ pred'[g] = pred[g] /\ grace'[g] = grace[g] /\ life'[g] = life[g]
  BY DEF Insert, IInv, RowsOk, Gen, TypeOK, GoodRows
<1>2. \A g \in Gen : g <= issued => g # n BY <1>1 DEF Gen
<1>3. \A g \in Gen : g # n /\ g <= n => g <= issued BY <1>1 DEF Gen
<1>4. n > issued BY <1>1
<1>5. \A g \in Gen : life[g] \in 0..Ttl BY DEF TypeOK
<1> HIDE DEF n
<1>6. Lives' BY <1>1, <1>2, <1>3, <1>5 DEF Lives, Gen
<1>7. Unpresented' BY <1>1, <1>4 DEF Unpresented, Gen
<1>8. ASSUME NEW g \in Gen, since'[g] # Window + 1, Usable(state, g)'
      PROVE  state'[g] = "active" /\ \E h \in Gen : pred'[h] = g /\ state'[h] = "pending" /\ grace'[h] + since'[g] <= Window
  <2>1. g # n BY <1>1, <1>4, <1>8
  <2>2. Usable(st, g) BY <1>1, <1>8, <2>1 DEF Usable
  <2>3. CASE \E h \in Gen : h <= issued /\ pred[h] = g /\ st[h] = "pending" /\ grace[h] + since'[g] <= Window
    BY <1>1, <1>2, <1>8, <2>1, <2>2, <2>3
  <2>4. CASE p = g /\ d + since'[g] <= Window
    BY <1>1, <1>8, <2>1, <2>2, <2>4
  <2> QED BY <1>8, <2>2, <2>3, <2>4
<1> QED BY <1>6, <1>7, <1>8 DEF Presented

\* The first overlap bounds every later one: a replay takes over the grace that
\* its lost successor had left.
LEMMA LoginPresented ==
  ASSUME OverlapInv, DeviceLogin
  PROVE  Presented(state)' /\ Lives' /\ Unpresented'
<1> USE DEF OverlapInv
<1> DEFINE g0 == held
           st == IF Settled[g0] = "pending" THEN Promoted(Settled, g0) ELSE Settled
           graces == {grace[h] : h \in Children(st, g0)} \cup {Window}
           hard == CHOOSE d \in graces : \A e \in graces : d <= e
           st2 == [h \in Gen |-> IF h \in Children(st, g0) THEN "revoked" ELSE st[h]]
<1>1. /\ Usable(Settled, g0) /\ Insert(st2, g0, hard)
      /\ since' = [since EXCEPT ![g0] = IF @ = Window + 1 THEN 0 ELSE @]
  BY DEF DeviceLogin
<1>2. GoodRows(Settled) /\ Presented(Settled) BY SettledGood, SettledPresented
<1>3. g0 \in Gen /\ GoodRows(st) /\ Presented(st) /\ st[g0] = "active"
  BY <1>1, <1>2, PromotedGood, PromotedPresented DEF Usable, GoodRows, Promoted
<1>4. graces \subseteq 0..Window /\ Window \in graces
  BY DEF TypeOK, Children
<1>5. hard \in graces /\ \A e \in graces : hard <= e
  <2>1. graces \subseteq Nat /\ graces # {} BY <1>4
  <2> HIDE DEF graces
  <2>2. \E d \in graces : \A e \in graces : d <= e BY <2>1, LeastExists
  <2> QED BY <2>2
<1>6. \A h \in Children(st, g0) : hard <= grace[h] BY <1>5
<1> HIDE DEF st, hard
<1>7. GoodRows(st2) BY <1>3, ChildrenRevoked DEF Children
<1>8. ASSUME NEW g \in Gen, since'[g] # Window + 1, Usable(st2, g)
      PROVE  st2[g] = "active" /\ g0 = g /\ hard + since'[g] <= Window
  <2>1. Usable(st, g) /\ (g = g0 \/ since'[g] = since[g])
    BY <1>1, <1>3, <1>8 DEF Usable, Children, TypeOK
  <2>2. g = g0
    <3> SUFFICES ASSUME g # g0 PROVE FALSE OBVIOUS
    <3>1. st[g] = "active" BY <1>3, <1>8, <2>1 DEF Presented
    <3> QED BY <1>3, <2>1, <3>1 DEF GoodRows, Usable
  <2>3. st2[g] = "active" BY <1>3, <2>2 DEF Children
  <2>4. CASE since[g] = Window + 1
    <3>1. since'[g] = 0 BY <1>1, <1>3, <2>2, <2>4 DEF TypeOK
    <3>2. hard \in 0..Window BY <1>4, <1>5
    <3> QED BY <2>2, <2>3, <3>1, <3>2
  <2>5. CASE since[g] # Window + 1
    <3>1. since'[g] = since[g] BY <1>1, <1>3, <2>2, <2>5 DEF TypeOK
    <3>2. PICK h \in Gen : pred[h] = g /\ st[h] = "pending" /\ grace[h] + since[g] <= Window
      BY <1>3, <2>1, <2>5 DEF Presented
    <3>3. hard <= grace[h] BY <1>6, <2>2, <3>2 DEF Children
    <3>4. hard \in 0..Window /\ grace[h] \in 0..Window /\ since[g] \in Nat BY <1>4, <1>5 DEF TypeOK
    <3> QED BY <2>2, <2>3, <3>1, <3>2, <3>3, <3>4
  <2> QED BY <2>4, <2>5
<1>9. \A g \in Gen : g > issued => since'[g] = Window + 1
  <2>1. g0 <= issued BY <1>2, <1>1 DEF Usable, GoodRows, IInv, RowsOk, Gen
  <2> QED BY <1>1, <1>3, <2>1 DEF Unpresented, TypeOK, IInv, RowsOk, Gen
<1>10. \A g \in Gen : since'[g] \in 0..Window \cup {Window + 1} BY <1>1, <1>3 DEF TypeOK
<1>11. g0 \in 0..MaxGen /\ hard \in 0..Window BY <1>3, <1>4, <1>5 DEF Gen
<1> HIDE DEF st2, g0
<1> QED BY <1>1, <1>7, <1>8, <1>9, <1>10, <1>11, InsertPresented

\* The operations that rewrite rows without a new one.
LEMMA RewritePresented ==
  ASSUME OverlapInv, Presented(state'), UNCHANGED <<issued, pred, grace, life, since>>
  PROVE  Presented(state)' /\ Lives' /\ Unpresented'
  BY DEF OverlapInv, Presented, Lives, Unpresented, Usable

\* Time.
LEMMA TickPresented ==
  ASSUME OverlapInv, Tick
  PROVE  Presented(state)' /\ Lives' /\ Unpresented'
<1> USE DEF OverlapInv
<1>1. /\ \A g \in Gen : grace'[g] = Less(grace[g]) /\ life'[g] = Less(life[g])
                       /\ since'[g] = IF since[g] < Window THEN since[g] + 1 ELSE since[g]
      /\ UNCHANGED <<issued, state, pred>>
      /\ \A g \in Gen : grace[g] \in 0..Window /\ life[g] \in 0..Ttl /\ since[g] \in 0..Window \cup {Window + 1}
  BY DEF Tick, TypeOK
<1>2. Lives' BY <1>1 DEF Lives, Less, Gen
<1>3. Unpresented' BY <1>1 DEF Unpresented
<1>4. ASSUME NEW g \in Gen, since'[g] # Window + 1, Usable(state', g)
      PROVE  state'[g] = "active" /\ \E h \in Gen : pred'[h] = g /\ state'[h] = "pending" /\ grace'[h] + since'[g] <= Window
  <2>1. since[g] # Window + 1 /\ Usable(state, g) BY <1>1, <1>4
  <2>2. PICK h \in Gen : state[g] = "active" /\ pred[h] = g /\ state[h] = "pending" /\ grace[h] + since[g] <= Window
    BY <2>1 DEF Presented
  <2>3. grace'[h] + since'[g] <= Window BY <1>1, <2>1, <2>2 DEF Less
  <2> QED BY <1>1, <2>2, <2>3
<1> QED BY <1>2, <1>3, <1>4 DEF Presented

\* The client's queue of host writes.
LEMMA AppendTyped ==
  ASSUME NEW ws \in Seq(Write), NEW w \in Write
  PROVE  Append(ws, w) \in Seq(Write)
  OBVIOUS

\* A write that finds another socket stays in the queue.
LEMMA UnackedTyped ==
  ASSUME writes \in Seq(Write)
  PROVE  Unacked \in Seq(Write) /\ Len(Unacked) = Len(writes)
<1>1. ASSUME NEW i \in 1..Len(writes) PROVE [writes[i] EXCEPT !.ack = FALSE] \in Write
  <2>1. writes[i] \in Write OBVIOUS
  <2> QED BY <2>1 DEF Write
<1>2. Len(writes) \in Nat OBVIOUS
<1> QED BY <1>1, <1>2 DEF Unacked

\* A new row is of the rows' type.
LEMMA InsertTyped ==
  ASSUME TypeOK, NEW st \in [Gen -> States], NEW p \in 0..MaxGen, NEW d \in 0..Window, Insert(st, p, d)
  PROVE  /\ issued' \in 1..MaxGen /\ issued' = issued + 1
         /\ state' \in [Gen -> States] /\ pred' \in [Gen -> 0..MaxGen]
         /\ grace' \in [Gen -> 0..Window] /\ life' \in [Gen -> 0..Ttl]
  BY DEF TypeOK, Insert, States, Gen

\* The rows, the link and the client's copies keep their types.
LEMMA TypedStep == OverlapInv /\ [Next]_vars => TypeOK'
<1> SUFFICES ASSUME OverlapInv, [Next]_vars PROVE TypeOK' OBVIOUS
<1>t. TypeOK BY DEF OverlapInv
<1>0. GoodRows(Settled) /\ Settled \in [Gen -> States] BY SettledGood DEF OverlapInv, GoodRows
<1>a. writes \in Seq(Write) /\ Unacked \in Seq(Write) BY <1>t, UnackedTyped DEF TypeOK
<1>b. [val |-> 0, ack |-> FALSE] \in Write BY DEF Write
<1>1. CASE Provision
  <2>1. ActiveOf(Settled) \in 0..MaxGen BY DEF ActiveOf, Gen
  <2>2. Insert(Settled, ActiveOf(Settled), Window) BY <1>1 DEF Provision
  <2>3. Window \in 0..Window OBVIOUS
  <2>4. /\ issued' \in 1..MaxGen /\ issued' = issued + 1
        /\ state' \in [Gen -> States] /\ pred' \in [Gen -> 0..MaxGen]
        /\ grace' \in [Gen -> 0..Window] /\ life' \in [Gen -> 0..Ttl]
    BY <1>t, <1>0, <2>1, <2>2, <2>3, InsertTyped
  <2>5. Admit /\ UNCHANGED <<since, held, host, writes>> BY <1>1 DEF Provision, client
  <2> QED BY <1>t, <2>4, <2>5 DEF Admit, TypeOK
<1>2. CASE DeviceLogin
  <2> DEFINE st == IF Settled[held] = "pending" THEN Promoted(Settled, held) ELSE Settled
             graces == {grace[h] : h \in Children(st, held)} \cup {Window}
             hard == CHOOSE d \in graces : \A e \in graces : d <= e
             st2 == [h \in Gen |-> IF h \in Children(st, held) THEN "revoked" ELSE st[h]]
  <2>1. /\ held \in Gen /\ Insert(st2, held, hard) /\ Admit /\ UNCHANGED client
        /\ since' = [since EXCEPT ![held] = IF @ = Window + 1 THEN 0 ELSE @]
    BY <1>2 DEF DeviceLogin, Usable
  <2>2. st2 \in [Gen -> States] BY <1>0 DEF Promoted, States
  <2>3. hard \in 0..Window
    <3>1. graces \subseteq 0..Window /\ Window \in graces BY <1>t DEF TypeOK, Children
    <3>2. graces \subseteq Nat /\ graces # {} BY <3>1
    <3> HIDE DEF graces
    <3>3. \E d \in graces : \A e \in graces : d <= e BY <3>2, LeastExists
    <3> QED BY <3>1, <3>3
  <2>4. held \in 0..MaxGen BY <2>1 DEF Gen
  <2> HIDE DEF st2, hard
  <2>5. since' \in [Gen -> 0..Window \cup {Window + 1}] BY <1>t, <2>1 DEF TypeOK
  <2>6. /\ issued' \in 1..MaxGen /\ issued' = issued + 1
        /\ state' \in [Gen -> States] /\ pred' \in [Gen -> 0..MaxGen]
        /\ grace' \in [Gen -> 0..Window] /\ life' \in [Gen -> 0..Ttl]
    BY <1>t, <2>1, <2>2, <2>3, <2>4, InsertTyped
  <2>7. UNCHANGED <<held, host, writes>> BY <2>1 DEF client
  <2> QED BY <1>t, <2>1, <2>5, <2>6, <2>7 DEF Admit, TypeOK
<1>3. CASE Acknowledge
  <2>1. state' \in [Gen -> States] BY <1>0, <1>3 DEF Acknowledge, Promoted, States
  <2> QED BY <1>t, <1>3, <2>1 DEF Acknowledge, client, TypeOK
<1>4. CASE SettleElsewhere BY <1>t, <1>0, <1>4 DEF SettleElsewhere, link, client, TypeOK
<1>5. CASE Revoke
  <2>1. state' \in [Gen -> States] BY <1>5 DEF Revoke, States
  <2>2. writes' \in Seq(Write)
    <3>1. Append(Unacked, [val |-> 0, ack |-> FALSE]) \in Seq(Write) BY <1>a, <1>b, AppendTyped
    <3> QED BY <1>5, <1>a, <3>1 DEF Revoke
  <2>3. held' \in 0..MaxGen BY <1>5, <1>t DEF Revoke, TypeOK
  <2>4. up' \in BOOLEAN /\ pendingAck' \in 0..MaxGen /\ toClient' \in 0..MaxGen /\ toServer' \in 0..MaxGen
    <3>1. up' = FALSE /\ pendingAck' = 0 /\ toClient' = 0 /\ toServer' = 0 BY <1>5 DEF Revoke, Disconnected
    <3>2. up' \in BOOLEAN BY <3>1
    <3>3. 0 \in 0..MaxGen OBVIOUS
    <3> QED BY <3>1, <3>2, <3>3
  <2>5. UNCHANGED <<issued, pred, grace, life, since, host>> BY <1>5 DEF Revoke
  <2> QED BY <1>t, <2>1, <2>2, <2>3, <2>4, <2>5 DEF TypeOK
<1>6. CASE Tick BY <1>t, <1>6 DEF Tick, Less, link, client, TypeOK
<1>7. CASE DeviceRefused
  <2>1. writes' \in Seq(Write) BY <1>7, <1>a, <1>b, AppendTyped DEF DeviceRefused
  <2>2. held' \in 0..MaxGen BY <1>7 DEF DeviceRefused
  <2> QED BY <1>t, <1>7, <2>1, <2>2 DEF DeviceRefused, rows, link, TypeOK
<1>d. ASSUME Disconnected, UNCHANGED rows, held' \in 0..MaxGen, host' \in 0..MaxGen, writes' \in Seq(Write)
      PROVE  TypeOK'
  <2>1. UNCHANGED <<issued, state, pred, grace, life, since>> BY <1>d DEF rows
  <2>2. up' \in BOOLEAN /\ pendingAck' \in 0..MaxGen /\ toClient' \in 0..MaxGen /\ toServer' \in 0..MaxGen
    <3>1. up' = FALSE /\ pendingAck' = 0 /\ toClient' = 0 /\ toServer' = 0 BY <1>d DEF Disconnected
    <3>2. up' \in BOOLEAN BY <3>1
    <3>3. 0 \in 0..MaxGen OBVIOUS
    <3> QED BY <3>1, <3>2, <3>3
  <2> QED BY <1>t, <1>d, <2>1, <2>2 DEF TypeOK
<1>8. CASE AckRefused BY <1>t, <1>8, <1>a, <1>d DEF AckRefused, TypeOK
<1>9. CASE Ready
  <2>1. [val |-> toClient, ack |-> TRUE] \in Write BY <1>t DEF Write, TypeOK
  <2>2. writes' \in Seq(Write)
    <3>1. Append(writes, [val |-> toClient, ack |-> TRUE]) \in Seq(Write) BY <1>a, <2>1, AppendTyped
    <3>2. Append(writes, [val |-> 0, ack |-> FALSE]) \in Seq(Write) BY <1>a, <1>b, AppendTyped
    <3> QED BY <1>9, <3>1, <3>2 DEF Ready
  <2>3. held' \in 0..MaxGen BY <1>t, <1>9 DEF Ready, TypeOK
  <2> QED BY <1>t, <1>9, <2>2, <2>3 DEF Ready, rows, TypeOK
<1>10. ASSUME NEW ok \in BOOLEAN, HostWrite(ok) PROVE TypeOK'
  <2>1. Head(writes) \in Write /\ Tail(writes) \in Seq(Write) BY <1>10, <1>a DEF HostWrite
  <2>2. host' \in 0..MaxGen /\ toServer' \in 0..MaxGen BY <1>t, <1>10, <2>1 DEF HostWrite, Write, TypeOK
  <2> QED BY <1>t, <1>10, <2>1, <2>2 DEF HostWrite, rows, TypeOK
<1>11. CASE DropExpired BY <1>t, <1>11, <1>b, AppendTyped DEF DropExpired, rows, link, TypeOK
<1>12. CASE Drop BY <1>t, <1>12, <1>a, <1>d DEF Drop, TypeOK
<1>13. CASE Reload
  <2>1. held' \in 0..MaxGen /\ host' \in 0..MaxGen BY <1>t, <1>13 DEF Reload, TypeOK
  <2>2. writes' \in Seq(Write) BY <1>13 DEF Reload
  <2> QED BY <1>13, <2>1, <2>2, <1>d DEF Reload
<1>14. CASE UNCHANGED vars BY <1>t, <1>14 DEF vars, rows, link, client, TypeOK
<1> QED BY <1>1, <1>2, <1>3, <1>4, <1>5, <1>6, <1>7, <1>8, <1>9, <1>10, <1>11, <1>12, <1>13, <1>14 DEF Next

\* Every step keeps the successors of what was presented: an operation of the
\* store by the lemmas above, everything else leaves the rows alone.
LEMMA OverlapStep == OverlapInv /\ [Next]_vars => OverlapInv'
<1> SUFFICES ASSUME OverlapInv, [Next]_vars PROVE Presented(state)' /\ Lives' /\ Unpresented'
  BY StepOrdered, TypedStep DEF OverlapInv
<1>0. GoodRows(Settled) /\ Presented(Settled) BY SettledGood, SettledPresented DEF OverlapInv
<1>1. CASE Provision
  <2>1. ActiveOf(Settled) \in 0..MaxGen BY DEF ActiveOf, Gen
  <2>2. Insert(Settled, ActiveOf(Settled), Window) /\ since' = since BY <1>1 DEF Provision
  <2>3. Window \in 0..Window OBVIOUS
  <2>4. \A g \in Gen : since'[g] \in 0..Window \cup {Window + 1} BY <2>2 DEF OverlapInv, TypeOK
  <2>5. \A g \in Gen : g > issued => since'[g] = Window + 1 BY <2>2 DEF OverlapInv, Unpresented
  <2>6. ASSUME NEW g \in Gen, since'[g] # Window + 1, Usable(Settled, g)
        PROVE  /\ Settled[g] = "active"
               /\ \E h \in Gen : h <= issued /\ pred[h] = g /\ Settled[h] = "pending" /\ grace[h] + since'[g] <= Window
    <3>1. PICK h \in Gen : Settled[g] = "active" /\ pred[h] = g /\ Settled[h] = "pending" /\ grace[h] + since[g] <= Window
      BY <1>0, <2>2, <2>6 DEF Presented
    <3>2. h <= issued BY <1>0, <3>1 DEF GoodRows, OverlapInv, TypeOK, Gen
    <3> QED BY <2>2, <3>1, <3>2
  <2> QED BY <1>0, <2>1, <2>2, <2>3, <2>4, <2>5, <2>6, InsertPresented
<1>2. CASE DeviceLogin BY <1>2, LoginPresented
<1>3. CASE Acknowledge
  <2>1. Presented(state') BY <1>0, <1>3, PromotedPresented DEF Acknowledge, Usable
  <2> QED BY <1>3, <2>1, RewritePresented DEF Acknowledge
<1>4. CASE SettleElsewhere BY <1>0, <1>4, RewritePresented DEF SettleElsewhere
<1>5. CASE Revoke
  <2>1. Presented(state') BY <1>5 DEF Revoke, Presented, Usable
  <2> QED BY <1>5, <2>1, RewritePresented DEF Revoke
<1>6. CASE Tick BY <1>6, TickPresented
<1>7. ASSUME UNCHANGED rows PROVE Presented(state)' /\ Lives' /\ Unpresented'
  <2>1. UNCHANGED <<issued, state, pred, grace, life, since>> BY <1>7 DEF rows
  <2>2. Presented(state') BY <2>1 DEF OverlapInv
  <2> QED BY <2>1, <2>2, RewritePresented
<1>8. CASE DeviceRefused BY <1>7, <1>8 DEF DeviceRefused
<1>9. CASE AckRefused BY <1>7, <1>9 DEF AckRefused
<1>10. CASE Ready BY <1>7, <1>10 DEF Ready
<1>11. CASE \E ok \in BOOLEAN : HostWrite(ok) BY <1>7, <1>11 DEF HostWrite
<1>12. CASE DropExpired BY <1>7, <1>12 DEF DropExpired
<1>13. CASE Drop BY <1>7, <1>13 DEF Drop
<1>14. CASE Reload BY <1>7, <1>14 DEF Reload
<1>15. CASE UNCHANGED vars BY <1>7, <1>15 DEF vars
<1> QED BY <1>1, <1>2, <1>3, <1>4, <1>5, <1>6, <1>8, <1>9, <1>10, <1>11, <1>12, <1>13, <1>14, <1>15 DEF Next

\* Nothing was issued yet.
LEMMA OverlapInit == Init => OverlapInv
<1> SUFFICES ASSUME Init PROVE OverlapInv OBVIOUS
<1>1. IInv BY DEF Init, IInv, RowsOk, OneActive, Usable, Gen, States
<1>2. TypeOK
  <2>1. <<>> \in Seq(Write) OBVIOUS
  <2>2. Window + 1 \in 0..Window \cup {Window + 1} OBVIOUS
  <2>3. [g \in Gen |-> Window + 1] \in [Gen -> 0..Window \cup {Window + 1}] BY <2>2
  <2>4. 0 \in 0..MaxGen /\ 0 \in 0..Window /\ 0 \in 0..Ttl OBVIOUS
  <2>5. issued = 0 /\ up = FALSE /\ pendingAck = 0 /\ toClient = 0 /\ toServer = 0 /\ held = 0 /\ host = 0 BY DEF Init
  <2>6. /\ state \in [Gen -> States] /\ pred \in [Gen -> 0..MaxGen]
        /\ grace \in [Gen -> 0..Window] /\ life \in [Gen -> 0..Ttl] BY <2>4 DEF Init, States
  <2>7. since \in [Gen -> 0..Window \cup {Window + 1}] /\ writes \in Seq(Write) BY <2>1, <2>3 DEF Init
  <2> QED BY <2>4, <2>5, <2>6, <2>7 DEF TypeOK
<1>3. Presented(state) /\ Lives /\ Unpresented BY DEF Init, Presented, Lives, Unpresented
<1> QED BY <1>1, <1>2, <1>3 DEF OverlapInv

\* A generation is not accepted once Window has passed since it was first
\* presented, however often it is replayed (rotateDeviceCredential hands the
\* earliest deadline of its lost successors on, settleDeviceCredentialRotations
\* revokes it with the first operation after that).
THEOREM OverlapBoundedAlways == Spec => []OverlapBounded
<1>1. Init => OverlapInv BY OverlapInit
<1>2. OverlapInv /\ [Next]_vars => OverlapInv' BY OverlapStep
<1>3. OverlapInv => OverlapBounded
  <2> SUFFICES ASSUME OverlapInv PROVE OverlapBounded OBVIOUS
  <2> QED BY SettledPresented DEF OverlapBounded, OverlapInv
<1> QED BY <1>1, <1>2, <1>3, PTL DEF Spec

\* A write whose connection is gone is not acknowledged.
LEMMA UnackedSilent ==
  ASSUME writes \in Seq(Write)
  PROVE  \A i \in 1..Len(writes) : ~Unacked[i].ack
<1> SUFFICES ASSUME NEW i \in 1..Len(writes) PROVE ~Unacked[i].ack OBVIOUS
<1>1. Unacked[i] = [writes[i] EXCEPT !.ack = FALSE] BY DEF Unacked
<1>2. writes[i] \in Write OBVIOUS
<1> QED BY <1>1, <1>2 DEF Write

\* What is in the client's queue after a write was added to it.
LEMMA Appended ==
  ASSUME NEW ws \in Seq(Write), NEW w \in Write
  PROVE  \A i \in 1..Len(Append(ws, w)) :
           \/ i \in 1..Len(ws) /\ Append(ws, w)[i] = ws[i]
           \/ Append(ws, w)[i] = w
  OBVIOUS

\* The rows, and what a connection acknowledges is what the client holds.
HeldInv == OverlapInv /\ HeldIsAcked

\* A connection acknowledges a generation only after ready brought it, and then
\* the client presents no other while the connection lasts.
LEMMA HeldIsAckedStep == HeldInv /\ [Next]_vars => HeldIsAcked'
<1> SUFFICES ASSUME HeldInv, [Next]_vars PROVE HeldIsAcked' OBVIOUS
<1>t. TypeOK /\ HeldIsAcked BY DEF HeldInv, OverlapInv
<1>a. writes \in Seq(Write) /\ Len(writes) \in Nat BY <1>t DEF TypeOK
<1>u. /\ Unacked \in Seq(Write) /\ Len(Unacked) = Len(writes)
      /\ \A i \in 1..Len(writes) : ~Unacked[i].ack
  BY <1>a, UnackedTyped, UnackedSilent
<1> DEFINE silent == [val |-> 0, ack |-> FALSE]
<1>n. silent \in Write /\ silent.ack = FALSE BY DEF Write
<1> HIDE DEF silent
\* A login finds nothing in transit.
<1>1. ASSUME ~up, Admit, UNCHANGED client PROVE HeldIsAcked'
  BY <1>t, <1>1 DEF HeldIsAcked, Admit, client
\* Whatever the client writes while no connection lasts is not acknowledged.
<1>2. ASSUME ~up', toServer' = 0, toClient' = 0, \A i \in 1..Len(writes') : ~writes'[i].ack
      PROVE  HeldIsAcked'
  BY <1>2 DEF HeldIsAcked
<1>3. CASE Provision BY <1>1, <1>3 DEF Provision
<1>4. CASE DeviceLogin BY <1>1, <1>4 DEF DeviceLogin
<1>5. ASSUME ~up, UNCHANGED link, writes' = Append(writes, silent) PROVE HeldIsAcked'
  <2>1. \A i \in 1..Len(writes') : ~writes'[i].ack
    BY <1>t, <1>a, <1>n, <1>5, Appended DEF HeldIsAcked
  <2> QED BY <1>t, <1>2, <1>5, <2>1 DEF HeldIsAcked, link
<1>6. CASE DeviceRefused BY <1>5, <1>6 DEF DeviceRefused, silent
<1>7. CASE DropExpired BY <1>5, <1>7 DEF DropExpired, silent
<1>8. CASE Acknowledge BY <1>t, <1>8 DEF Acknowledge, HeldIsAcked, client
<1>9. ASSUME Disconnected, writes' = Unacked PROVE HeldIsAcked'
  BY <1>2, <1>u, <1>9 DEF Disconnected
<1>10. CASE AckRefused BY <1>9, <1>10 DEF AckRefused
<1>11. CASE Drop BY <1>9, <1>11 DEF Drop
<1>12. CASE Revoke
  <2>1. CASE writes' = Append(Unacked, silent)
    <3>1. \A i \in 1..Len(writes') : ~writes'[i].ack BY <1>n, <1>u, <2>1, Appended
    <3> QED BY <1>2, <1>12, <3>1 DEF Revoke, Disconnected
  <2>2. CASE writes' = Unacked BY <1>9, <1>12, <2>2 DEF Revoke
  <2> QED BY <1>12, <2>1, <2>2 DEF Revoke, silent
<1>13. CASE Ready
  <2>1. /\ up' /\ toServer' = 0 /\ toClient' = 0
        /\ \A i \in 1..Len(writes) : ~writes[i].ack
    BY <1>t, <1>13 DEF Ready, HeldIsAcked
  <2>2. CASE life[toClient] > 0
    <3> DEFINE told == [val |-> toClient, ack |-> TRUE]
    <3>1. told \in Write /\ told.val = toClient BY <1>t DEF Write, TypeOK
    <3> HIDE DEF told
    <3>2. held' = toClient /\ writes' = Append(writes, told) BY <1>13, <2>2 DEF Ready, told
    <3>3. \A i \in 1..Len(writes') : writes'[i].ack => writes'[i].val = held'
      BY <1>a, <2>1, <3>1, <3>2, Appended
    <3> QED BY <2>1, <3>3 DEF HeldIsAcked
  <2>3. CASE ~(life[toClient] > 0)
    <3>1. writes' = Append(writes, silent) BY <1>13, <2>3 DEF Ready, silent
    <3>2. \A i \in 1..Len(writes') : ~writes'[i].ack BY <1>a, <1>n, <2>1, <3>1, Appended
    <3> QED BY <2>1, <3>2 DEF HeldIsAcked
  <2> QED BY <2>2, <2>3
<1>14. ASSUME NEW ok \in BOOLEAN, HostWrite(ok) PROVE HeldIsAcked'
  <2>1. /\ writes # <<>> /\ writes' = Tail(writes) /\ UNCHANGED <<up, toClient, held>>
        /\ toServer' = IF ok /\ Head(writes).ack /\ up THEN Head(writes).val ELSE toServer
    BY <1>14 DEF HostWrite
  <2>2. Len(writes) > 0 /\ Head(writes) = writes[1] BY <1>a, <2>1
  <2>3. \A i \in 1..Len(writes') : i + 1 \in 1..Len(writes) /\ writes'[i] = writes[i + 1] BY <1>a, <2>1, <2>2
  <2> QED BY <1>t, <1>a, <2>1, <2>2, <2>3 DEF HeldIsAcked
<1>15. CASE Reload
  <2>1. Len(writes') = 0 BY <1>15 DEF Reload
  <2> QED BY <1>2, <1>15, <2>1 DEF Reload, Disconnected
<1>16. ASSUME UNCHANGED <<link, client>> PROVE HeldIsAcked'
  BY <1>t, <1>16 DEF HeldIsAcked, link, client
<1>17. CASE SettleElsewhere BY <1>16, <1>17 DEF SettleElsewhere
<1>18. CASE Tick BY <1>16, <1>18 DEF Tick
<1>19. CASE UNCHANGED vars BY <1>16, <1>19 DEF vars
<1> QED BY <1>3, <1>4, <1>6, <1>7, <1>8, <1>10, <1>11, <1>12, <1>13, <1>14, <1>15, <1>17, <1>18, <1>19 DEF Next

\* An operation that finds no overlap over leaves what the client holds usable.
LEMMA HeldStep ==
  ASSUME HeldInv, [Next]_vars, held # 0, held' = held, Usable(state, held), Due = {}, life[held] # 0,
         ~(up /\ ~up')
  PROVE  Usable(state', held)
<1>t. TypeOK /\ HeldIsAcked /\ IInv BY DEF HeldInv, OverlapInv
<1>0. held \in Gen /\ Settled[held] = state[held] BY DEF Settled, Usable
<1>1. CASE Provision
  <2>1. issued + 1 # held BY <1>t, <1>0 DEF Usable, IInv, RowsOk
  <2>2. state' = [Settled EXCEPT ![issued + 1] = "pending"] BY <1>1 DEF Provision, Insert
  <2>3. Settled \in [Gen -> States] BY <1>t, SettledGood DEF GoodRows
  <2> QED BY <1>0, <2>1, <2>2, <2>3 DEF Usable
<1>2. CASE DeviceLogin
  <2> DEFINE st == IF Settled[held] = "pending" THEN Promoted(Settled, held) ELSE Settled
             st2 == [h \in Gen |-> IF h \in Children(st, held) THEN "revoked" ELSE st[h]]
  <2>1. issued + 1 # held BY <1>t, <1>0 DEF Usable, IInv, RowsOk
  <2>2. state' = [st2 EXCEPT ![issued + 1] = "pending"] BY <1>2 DEF DeviceLogin, Insert
  <2>3. st[held] = "active" BY <1>0 DEF Usable, Promoted
  <2>4. st2[held] = "active" /\ DOMAIN st2 = Gen
    <3> HIDE DEF st
    <3> QED BY <1>0, <2>3 DEF Children
  <2> HIDE DEF st2
  <2> QED BY <1>0, <2>1, <2>2, <2>4 DEF Usable
<1>3. CASE Acknowledge
  <2>1. toServer = held BY <1>t, <1>3 DEF Acknowledge, HeldIsAcked
  <2> QED BY <1>0, <1>3, <2>1 DEF Acknowledge, Promoted, Usable
<1>4. CASE SettleElsewhere BY <1>0, <1>4 DEF SettleElsewhere, Usable
<1>5. CASE Revoke BY <1>5 DEF Revoke, Disconnected
<1>6. CASE UNCHANGED state BY <1>6
<1>7. CASE DeviceRefused \/ AckRefused \/ Ready \/ DropExpired \/ Drop \/ Reload
  BY <1>6, <1>7 DEF DeviceRefused, AckRefused, Ready, DropExpired, Drop, Reload, rows
<1>8. CASE \E ok \in BOOLEAN : HostWrite(ok) BY <1>6, <1>8 DEF HostWrite, rows
<1>9. CASE Tick \/ UNCHANGED vars BY <1>6, <1>9 DEF Tick, vars, rows
<1> QED BY <1>1, <1>2, <1>3, <1>4, <1>5, <1>7, <1>8, <1>9 DEF Next

\* What the client would present next stays usable through every login, replay
\* and acknowledgement; only a deadline that passed, its expiry or a revocation
\* that closes the connection ends it (acknowledgeDeviceCredential promotes what
\* the client holds, rotateDeviceCredential revokes only its successors).
THEOREM HeldSurvivesAlways == Spec => HeldSurvives
<1>1. Init => HeldInv
  <2>1. Init => HeldIsAcked
    <3> SUFFICES ASSUME Init PROVE HeldIsAcked OBVIOUS
    <3>1. writes = <<>> /\ Len(writes) = 0 BY DEF Init
    <3> QED BY <3>1 DEF Init, HeldIsAcked
  <2> QED BY <2>1, OverlapInit DEF HeldInv
<1>2. HeldInv /\ [Next]_vars => HeldInv' BY OverlapStep, HeldIsAckedStep DEF HeldInv
<1>3. HeldInv /\ [Next]_vars =>
        [held # 0 /\ held' = held /\ Usable(state, held) /\ ~Usable(state', held) =>
           Due # {} \/ life[held] = 0 \/ (up /\ ~up')]_vars
  BY HeldStep
<1> QED BY <1>1, <1>2, <1>3, PTL DEF Spec, HeldSurvives
=============================================================================
