---------------------------- MODULE BudgetProofs -----------------------------
(***************************************************************************)
(* Proofs about what may be spent: the ledger of costs (CostLedger) and    *)
(* the quota of searches (SearchQuota), for any number of calls, months,   *)
(* days and sessions.  Both say that a sum over all calls is on file, and  *)
(* the first part is about such sums.  The last part is about the speech   *)
(* that is metered (SpeechCapture): what is submitted is what was said.    *)
(***************************************************************************)
EXTENDS CostLedger, SearchQuota, SpeechCapture, FiniteSetTheorems, WellFoundedInduction, TLAPS

-----------------------------------------------------------------------------
(* Sums over a finite set.  MapThenSumSet is a recursive function; what it  *)
(* computes is found by looking at a smallest counterexample.               *)

Pick(S) == CHOOSE x \in S : TRUE
SumOf(v, S) == MapThenSumSet(LAMBDA c : v[c], S)

\* g is the function that MapThenSumSet(v, U) applies to U.
Sums(v, U, g) ==
  g = [s \in SUBSET U |-> IF s = {} THEN 0 ELSE v[Pick(s)] + g[s \ {Pick(s)}]]

\* A set of natural numbers that has 0 and, with each number, the next.
LEMMA Counting ==
  ASSUME NEW T, 0 \in T, \A n \in Nat : n \in T => n+1 \in T
  PROVE  \A n \in Nat : n \in T
<1> SUFFICES ASSUME NEW m \in Nat, m \notin T PROVE FALSE
  OBVIOUS
<1> DEFINE R == Nat \ T
<1>1. PICK x \in R : \A y \in R : ~(<<y, x>> \in OpToRel(<, Nat))
  <2>1. R \subseteq Nat /\ R # {} OBVIOUS
  <2> HIDE DEF R
  <2> QED BY <2>1, NatLessThanWellFounded, WFMin
<1>2. x \in Nat /\ x \notin T BY <1>1
<1>3. x # 0 BY <1>2
<1>4. x - 1 \in Nat /\ x - 1 < x /\ (x - 1) + 1 = x
  <2> HIDE DEF R
  <2> QED BY <1>2, <1>3
<1>5. x - 1 \notin R
  <2>1. <<x - 1, x>> \in OpToRel(<, Nat) BY <1>2, <1>4 DEF OpToRel
  <2> HIDE DEF R
  <2> QED BY <1>1, <2>1
<1>6. x - 1 \in T BY <1>4, <1>5
<1> QED BY <1>2, <1>4, <1>6

\* The size of a set less one of its elements.
LEMMA OneLess ==
  ASSUME NEW s, IsFiniteSet(s), NEW x \in s
  PROVE  IsFiniteSet(s \ {x}) /\ Cardinality(s) \in Nat /\ Cardinality(s \ {x}) = Cardinality(s) - 1
  BY FS_RemoveElement, FS_CardinalityType

LEMMA Picked == ASSUME NEW s, s # {} PROVE Pick(s) \in s
  BY DEF Pick

\* The recursion has a solution.
LEMMA SumsExist ==
  ASSUME NEW U, IsFiniteSet(U), NEW v \in [U -> Int]
  PROVE  \E g \in [SUBSET U -> Int] : Sums(v, U, g)
<1> DEFINE Upto(n, g) ==
             \A s \in SUBSET U : Cardinality(s) <= n =>
               g[s] = IF s = {} THEN 0 ELSE v[Pick(s)] + g[s \ {Pick(s)}]
           T == {n \in Nat : \E g \in [SUBSET U -> Int] : Upto(n, g)}
<1>f. \A s \in SUBSET U : /\ IsFiniteSet(s) /\ Cardinality(s) \in Nat /\ Cardinality(s) <= Cardinality(U)
                          /\ Cardinality(s) = 0 <=> s = {}
  BY FS_Subset, FS_CardinalityType, FS_EmptySet
<1>g. \A s \in SUBSET U : s # {} => /\ Pick(s) \in U /\ s \ {Pick(s)} \in SUBSET U
                                    /\ Cardinality(s \ {Pick(s)}) = Cardinality(s) - 1
  BY <1>f, Picked, OneLess
<1>1. 0 \in T
  <2>1. [s \in SUBSET U |-> 0] \in [SUBSET U -> Int] OBVIOUS
  <2>2. Upto(0, [s \in SUBSET U |-> 0]) BY <1>f
  <2> QED BY <2>1, <2>2
<1>2. \A n \in Nat : n \in T => n+1 \in T
  <2> SUFFICES ASSUME NEW n \in Nat, n \in T PROVE n+1 \in T
    OBVIOUS
  <2>1. PICK g \in [SUBSET U -> Int] : Upto(n, g) OBVIOUS
  <2> DEFINE h == [s \in SUBSET U |-> IF Cardinality(s) = n+1 THEN v[Pick(s)] + g[s \ {Pick(s)}] ELSE g[s]]
  <2>2. h \in [SUBSET U -> Int]
    <3> SUFFICES ASSUME NEW s \in SUBSET U, Cardinality(s) = n+1 PROVE v[Pick(s)] + g[s \ {Pick(s)}] \in Int
      OBVIOUS
    <3>1. s # {} BY <1>f
    <3> QED BY <3>1, <1>g
  <2>3. Upto(n+1, h)
    <3> SUFFICES ASSUME NEW s \in SUBSET U, Cardinality(s) <= n+1
                 PROVE  h[s] = IF s = {} THEN 0 ELSE v[Pick(s)] + h[s \ {Pick(s)}]
      OBVIOUS
    <3>1. CASE Cardinality(s) = n+1
      <4>1. s # {} BY <3>1, <1>f
      <4>2. h[s \ {Pick(s)}] = g[s \ {Pick(s)}] BY <4>1, <3>1, <1>g, <1>f
      <4> QED BY <3>1, <4>1, <4>2
    <3>2. CASE Cardinality(s) <= n
      <4>1. h[s] = g[s] BY <3>2, <1>f
      <4>2. s # {} => h[s \ {Pick(s)}] = g[s \ {Pick(s)}] BY <3>2, <1>g, <1>f
      <4>3. g[s] = IF s = {} THEN 0 ELSE v[Pick(s)] + g[s \ {Pick(s)}] BY <2>1, <3>2
      <4> QED BY <4>1, <4>2, <4>3
    <3>3. Cardinality(s) \in Nat BY <1>f
    <3> HIDE DEF h, Upto, T
    <3> QED BY <3>1, <3>2, <3>3
  <2> HIDE DEF h, Upto
  <2> QED BY <2>2, <2>3
<1>3. Cardinality(U) \in T
  <2> HIDE DEF T
  <2> QED BY <1>1, <1>2, Counting, FS_CardinalityType
<1>4. PICK g \in [SUBSET U -> Int] : Upto(Cardinality(U), g) BY <1>3
<1>5. \A s \in SUBSET U : g[s] = IF s = {} THEN 0 ELSE v[Pick(s)] + g[s \ {Pick(s)}] BY <1>4, <1>f
<1> QED BY <1>5 DEF Sums

\* It has one only, and what it says of a set does not depend on the others.
LEMMA SumsAgree ==
  ASSUME NEW U, IsFiniteSet(U), NEW S \in SUBSET U, NEW v, NEW w, \A c \in S : v[c] = w[c],
         NEW g, NEW h, Sums(v, S, g), Sums(w, U, h)
  PROVE  g[S] = h[S]
<1> DEFINE T == {n \in Nat : \A s \in SUBSET S : Cardinality(s) = n => g[s] = h[s]}
<1>f. \A s \in SUBSET S : /\ s \in SUBSET U /\ IsFiniteSet(s) /\ Cardinality(s) \in Nat
                          /\ Cardinality(s) = 0 <=> s = {}
  BY FS_Subset, FS_CardinalityType, FS_EmptySet
<1>g. \A s \in SUBSET S : s # {} => /\ Pick(s) \in S /\ s \ {Pick(s)} \in SUBSET S
                                    /\ Cardinality(s \ {Pick(s)}) = Cardinality(s) - 1
  BY <1>f, Picked, OneLess
<1>h. \A s \in SUBSET S : /\ g[s] = IF s = {} THEN 0 ELSE v[Pick(s)] + g[s \ {Pick(s)}]
                          /\ h[s] = IF s = {} THEN 0 ELSE w[Pick(s)] + h[s \ {Pick(s)}]
  BY <1>f DEF Sums
<1>1. 0 \in T BY <1>f, <1>h
<1>2. \A n \in Nat : n \in T => n+1 \in T
  <2> SUFFICES ASSUME NEW n \in Nat, n \in T, NEW s \in SUBSET S, Cardinality(s) = n+1 PROVE g[s] = h[s]
    OBVIOUS
  <2>1. s # {} BY <1>f
  <2>2. g[s \ {Pick(s)}] = h[s \ {Pick(s)}] BY <2>1, <1>g
  <2>3. v[Pick(s)] = w[Pick(s)] BY <2>1, <1>g
  <2> QED BY <2>1, <2>2, <2>3, <1>h
<1>3. Cardinality(S) \in T
  <2> HIDE DEF T
  <2> QED BY <1>1, <1>2, <1>f, Counting
<1> QED BY <1>3

Solves(v, U, g) ==
  g \in [SUBSET U -> Int] /\ Sums(v, U, g) /\ \A S \in SUBSET U : SumOf(v, S) = g[S]

\* MapThenSumSet solves it.
LEMMA SumOfSolves ==
  ASSUME NEW U, IsFiniteSet(U), NEW v \in [U -> Int]
  PROVE  \E g : Solves(v, U, g)
<1>1. PICK g \in [SUBSET U -> Int] : Sums(v, U, g) BY SumsExist
<1>2. ASSUME NEW S \in SUBSET U PROVE SumOf(v, S) = g[S]
  <2> DEFINE h == CHOOSE f : Sums(v, S, f)
  <2>1. SumOf(v, S) = h[S]
    BY DEF SumOf, Sums, MapThenSumSet, MapThenFoldSet, Pick
  <2>2. Sums(v, S, h)
    <3>1. IsFiniteSet(S) BY FS_Subset
    <3>2. \E f : Sums([c \in S |-> v[c]], S, f) BY <3>1, SumsExist
    <3>3. \A f : Sums([c \in S |-> v[c]], S, f) <=> Sums(v, S, f)
      <4> SUFFICES ASSUME NEW f
                   PROVE [s \in SUBSET S |-> IF s = {} THEN 0 ELSE [c \in S |-> v[c]][Pick(s)] + f[s \ {Pick(s)}]]
                       = [s \in SUBSET S |-> IF s = {} THEN 0 ELSE v[Pick(s)] + f[s \ {Pick(s)}]]
        BY DEF Sums
      <4>1. \A s \in SUBSET S : s # {} => Pick(s) \in S BY Picked
      <4> QED BY <4>1
    <3> QED BY <3>2, <3>3
  <2> HIDE DEF h
  <2> QED BY <2>1, <2>2, <1>1, SumsAgree
<1> QED BY <1>1, <1>2 DEF Solves

\* The sum without one of its terms: the order in which terms are taken plays no part.
LEMMA SumLess ==
  ASSUME NEW U, IsFiniteSet(U), NEW v \in [U -> Int], NEW S \in SUBSET U, NEW x \in S
  PROVE  SumOf(v, S) = v[x] + SumOf(v, S \ {x})
<1>1. PICK g : Solves(v, U, g) BY SumOfSolves
<1> DEFINE T == {n \in Nat : \A s \in SUBSET U : Cardinality(s) = n => \A y \in s : g[s] = v[y] + g[s \ {y}]}
<1>f. \A s \in SUBSET U : /\ IsFiniteSet(s) /\ Cardinality(s) \in Nat
                          /\ Cardinality(s) = 0 <=> s = {}
  BY FS_Subset, FS_CardinalityType, FS_EmptySet
<1>g. \A s \in SUBSET U : \A y \in s : s \ {y} \in SUBSET U /\ Cardinality(s \ {y}) = Cardinality(s) - 1
  BY <1>f, OneLess
<1>h. \A s \in SUBSET U : s # {} => Pick(s) \in s /\ g[s] = v[Pick(s)] + g[s \ {Pick(s)}]
  BY <1>1, Picked DEF Solves, Sums
<1>2. 0 \in T BY <1>f
<1>3. \A n \in Nat : n \in T => n+1 \in T
  <2> SUFFICES ASSUME NEW n \in Nat, n \in T, NEW s \in SUBSET U, Cardinality(s) = n+1, NEW y \in s
               PROVE g[s] = v[y] + g[s \ {y}]
    OBVIOUS
  <2> DEFINE z == Pick(s)
  <2>1. z \in s /\ g[s] = v[z] + g[s \ {z}] BY <1>h
  <2>2. CASE y = z BY <2>1, <2>2
  <2>3. CASE y # z
    <3>1. s \ {z} \in SUBSET U /\ Cardinality(s \ {z}) = n /\ y \in s \ {z} BY <2>1, <2>3, <1>g
    <3>2. s \ {y} \in SUBSET U /\ Cardinality(s \ {y}) = n /\ z \in s \ {y}
      <4>1. s \ {y} \in SUBSET U /\ Cardinality(s \ {y}) = Cardinality(s) - 1 BY <1>g
      <4>2. Cardinality(s \ {y}) = n BY <4>1
      <4> HIDE DEF z
      <4> QED BY <2>1, <2>3, <4>1, <4>2
    <3>3. g[s \ {z}] = v[y] + g[(s \ {z}) \ {y}] BY <3>1
    <3>4. g[s \ {y}] = v[z] + g[(s \ {y}) \ {z}] BY <3>2
    <3>5. (s \ {y}) \ {z} = (s \ {z}) \ {y} /\ (s \ {y}) \ {z} \in SUBSET U OBVIOUS
    <3>6. v[y] \in Int /\ v[z] \in Int /\ g[(s \ {y}) \ {z}] \in Int BY <2>1, <3>5, <1>1 DEF Solves
    <3> DEFINE r == g[(s \ {y}) \ {z}]
               a == g[s \ {y}]
               b == g[s \ {z}]
    <3>7. g[s] = v[z] + b /\ b = v[y] + r /\ a = v[z] + r /\ r \in Int /\ v[y] \in Int /\ v[z] \in Int
      BY <2>1, <3>3, <3>4, <3>5, <3>6
    <3> HIDE DEF z, T, a, b, r
    <3>8. g[s] = v[y] + a BY <3>7
    <3> QED BY <3>8 DEF a
  <2> QED BY <2>2, <2>3
<1>4. Cardinality(S) \in T
  <2> HIDE DEF T
  <2> QED BY <1>2, <1>3, <1>f, Counting
<1>5. g[S] = v[x] + g[S \ {x}] BY <1>4
<1> QED BY <1>1, <1>5 DEF Solves

LEMMA SumValue ==
  ASSUME NEW U, IsFiniteSet(U), NEW v \in [U -> Int], NEW S \in SUBSET U
  PROVE  SumOf(v, S) \in Int /\ (S = {} => SumOf(v, S) = 0)
<1>1. PICK g : Solves(v, U, g) BY SumOfSolves
<1> QED BY <1>1 DEF Solves, Sums

LEMMA SumZero ==
  ASSUME NEW U, IsFiniteSet(U), NEW v \in [U -> Int], \A c \in U : v[c] = 0
  PROVE  SumOf(v, U) = 0
<1> DEFINE T == {n \in Nat : \A s \in SUBSET U : Cardinality(s) = n => SumOf(v, s) = 0}
<1>f. \A s \in SUBSET U : /\ IsFiniteSet(s) /\ Cardinality(s) \in Nat
                          /\ Cardinality(s) = 0 <=> s = {}
  BY FS_Subset, FS_CardinalityType, FS_EmptySet
<1>1. 0 \in T
  <2>1. SumOf(v, {}) = 0 BY SumValue
  <2> QED BY <2>1, <1>f
<1>2. \A n \in Nat : n \in T => n+1 \in T
  <2> SUFFICES ASSUME NEW n \in Nat, n \in T, NEW s \in SUBSET U, Cardinality(s) = n+1 PROVE SumOf(v, s) = 0
    OBVIOUS
  <2>1. PICK x \in s : TRUE BY <1>f
  <2>2. s \ {x} \in SUBSET U /\ Cardinality(s \ {x}) = n BY <1>f, OneLess
  <2>3. SumOf(v, s \ {x}) = 0 BY <2>2
  <2> HIDE DEF T
  <2>4. SumOf(v, s) = v[x] + SumOf(v, s \ {x}) BY SumLess
  <2> QED BY <2>3, <2>4
<1>3. Cardinality(U) \in T
  <2> HIDE DEF T
  <2> QED BY <1>1, <1>2, <1>f, Counting
<1> QED BY <1>3

\* Fewer and smaller terms make a smaller sum.
LEMMA SumMono ==
  ASSUME NEW U, IsFiniteSet(U), NEW v \in [U -> Int], NEW w \in [U -> Int], NEW S \in SUBSET U,
         \A c \in S : v[c] <= w[c], \A c \in U \ S : 0 <= w[c]
  PROVE  SumOf(v, S) <= SumOf(w, U)
<1> DEFINE T == {n \in Nat : \A s \in SUBSET U : Cardinality(s) = n => SumOf(v, s \cap S) <= SumOf(w, s)}
<1>f. \A s \in SUBSET U : /\ IsFiniteSet(s) /\ Cardinality(s) \in Nat
                          /\ Cardinality(s) = 0 <=> s = {}
  BY FS_Subset, FS_CardinalityType, FS_EmptySet
<1>1. 0 \in T
  <2>1. SumOf(v, {}) = 0 /\ SumOf(w, {}) = 0 BY SumValue
  <2>2. {} \cap S = {} OBVIOUS
  <2> QED BY <2>1, <2>2, <1>f
<1>2. \A n \in Nat : n \in T => n+1 \in T
  <2> SUFFICES ASSUME NEW n \in Nat, n \in T, NEW s \in SUBSET U, Cardinality(s) = n+1
               PROVE SumOf(v, s \cap S) <= SumOf(w, s)
    OBVIOUS
  <2>1. PICK y \in s : TRUE BY <1>f
  <2>2. s \ {y} \in SUBSET U /\ Cardinality(s \ {y}) = n BY <1>f, OneLess
  <2>3. SumOf(v, (s \ {y}) \cap S) <= SumOf(w, s \ {y}) BY <2>2
  <2> HIDE DEF T
  <2>4. SumOf(w, s) = w[y] + SumOf(w, s \ {y}) BY SumLess
  <2>5. SumOf(w, s \ {y}) \in Int /\ SumOf(v, (s \ {y}) \cap S) \in Int /\ SumOf(v, s \cap S) \in Int
    BY SumValue, (s \ {y}) \cap S \in SUBSET U, s \cap S \in SUBSET U, <2>2
  <2>6. CASE y \in S
    <3>1. SumOf(v, s \cap S) = v[y] + SumOf(v, (s \cap S) \ {y}) BY <2>6, SumLess, s \cap S \in SUBSET U
    <3>2. (s \cap S) \ {y} = (s \ {y}) \cap S OBVIOUS
    <3>3. v[y] \in Int /\ w[y] \in Int /\ v[y] <= w[y] BY <2>6
    <3> DEFINE a == SumOf(v, s \cap S)
               b == SumOf(v, (s \ {y}) \cap S)
               p == SumOf(w, s)
               q == SumOf(w, s \ {y})
    <3>4. a = v[y] + b /\ p = w[y] + q /\ b <= q /\ b \in Int /\ q \in Int BY <2>3, <2>4, <2>5, <3>1, <3>2
    <3> HIDE DEF a, b, p, q
    <3>5. a <= p BY <3>3, <3>4
    <3> QED BY <3>5 DEF a, p
  <2>7. CASE y \notin S
    <3>1. s \cap S = (s \ {y}) \cap S BY <2>7
    <3>2. w[y] \in Int /\ 0 <= w[y] BY <2>7
    <3> DEFINE b == SumOf(v, (s \ {y}) \cap S)
               p == SumOf(w, s)
               q == SumOf(w, s \ {y})
    <3>4. p = w[y] + q /\ b <= q /\ b \in Int /\ q \in Int BY <2>3, <2>4, <2>5
    <3> HIDE DEF b, p, q
    <3>5. b <= p BY <3>2, <3>4
    <3> QED BY <3>1, <3>5 DEF b, p
  <2> QED BY <2>6, <2>7
<1>3. Cardinality(U) \in T
  <2> HIDE DEF T
  <2> QED BY <1>1, <1>2, <1>f, Counting
<1>4. U \cap S = S OBVIOUS
<1> QED BY <1>3, <1>4

\* One term changes.
LEMMA SumChange ==
  ASSUME NEW U, IsFiniteSet(U), NEW v \in [U -> Int], NEW w \in [U -> Int], NEW x \in U,
         \A c \in U \ {x} : w[c] = v[c]
  PROVE  SumOf(w, U) = SumOf(v, U) - v[x] + w[x]
<1>1. SumOf(v, U) = v[x] + SumOf(v, U \ {x}) BY SumLess
<1>2. SumOf(w, U) = w[x] + SumOf(w, U \ {x}) BY SumLess
<1>3. U \ {x} \in SUBSET U /\ IsFiniteSet(U \ {x}) BY FS_Subset
<1>4. PICK g \in [SUBSET (U \ {x}) -> Int] : /\ Sums([c \in U \ {x} |-> v[c]], U \ {x}, g)
  BY <1>3, SumsExist
<1>5. PICK h : Solves(v, U, h) BY SumOfSolves
<1>6. PICK k : Solves(w, U, k) BY SumOfSolves
<1>7. g[U \ {x}] = h[U \ {x}] BY <1>3, <1>4, <1>5, SumsAgree DEF Solves
<1>8. g[U \ {x}] = k[U \ {x}] BY <1>3, <1>4, <1>6, SumsAgree DEF Solves
<1>9. SumOf(v, U \ {x}) = SumOf(w, U \ {x}) BY <1>3, <1>5, <1>6, <1>7, <1>8 DEF Solves
<1>10. SumOf(v, U \ {x}) \in Int BY <1>3, SumValue
<1> QED BY <1>1, <1>2, <1>9, <1>10

-----------------------------------------------------------------------------
(* The cost ledger.  What a call may yet cost is in the memory from its     *)
(* booking on and on file before its request goes out, and leaves both only *)
(* for what it really cost.                                                 *)

Records == [spent : [Providers -> Nat], units : Nat, alerts : [Thresholds -> AlertStates]]
CallPhases == {"new", "asking", "calling", "settling", "over", "refused"}
CallRecords == [phase : CallPhases, month : 0..LastMonth, want : Nat, held : Nat, cost : Nat]
Ops == [op : {"reserve", "settle", "select", "record"}, call : Calls \union {"none"}, actual : Nat]
FlushPhases == {"idle", "selecting", "sending", "recording"}

LedgerTypes ==
  /\ memory \in [Months -> Records] /\ file \in [Months -> Records]
  /\ queue \in Seq(Ops) /\ calls \in [Calls -> CallRecords]
  /\ flush \in [phase : FlushPhases, alert : Alerts \union {NoAlert}, accepted : BOOLEAN]
  /\ writing \in BOOLEAN /\ broken \in BOOLEAN /\ timer \in BOOLEAN /\ month \in Months

Books == {"reserve", "settle"}

\* An operation of the chain belongs to a call that waits for it.
ChainOf(q, cl) ==
  \A i \in 1..Len(q) :
    /\ q[i].op \in Books => q[i].call \in Calls
    /\ q[i].op = "reserve" => cl[q[i].call].phase = "asking"
    /\ q[i].op = "settle" => cl[q[i].call].phase = "settling" /\ q[i].actual = cl[q[i].call].cost
    /\ \A j \in 1..Len(q) : q[i].op \in Books /\ q[j].op \in Books /\ q[i].call = q[j].call => i = j
QueueOK == (writing => queue # <<>>) /\ ChainOf(queue, calls)

\* The operation that has changed the memory and waits for its write.
Busy == IF writing THEN Head(queue) ELSE SelectOp
BookedNow(c) == Busy.op = "reserve" /\ Busy.call = c
SettledNow(c) == Busy.op = "settle" /\ Busy.call = c

\* A booked call knows its month, and is billed no more than it asked for.
CallsOK ==
  \A c \in Calls :
    /\ calls[c].phase \in {"calling", "settling", "over"} => calls[c].month \in Months /\ calls[c].cost <= calls[c].want
    /\ calls[c].phase \in {"calling", "settling"} \/ BookedNow(c) =>
         calls[c].month \in Months /\ (c \in PricedCalls => calls[c].held = calls[c].want)

\* What the memory, and the file, must hold for a call.
InMemory(c) ==
  IF \/ BookedNow(c) \/ calls[c].phase = "calling"
     \/ calls[c].phase = "settling" /\ ~SettledNow(c)
  THEN calls[c].want
  ELSE IF calls[c].phase \in {"settling", "over"} THEN calls[c].cost ELSE 0
OnFile(c) ==
  IF calls[c].phase \in {"calling", "settling"} THEN calls[c].want
  ELSE IF calls[c].phase = "over" THEN calls[c].cost ELSE 0
MemoryOf(cs, m) == [c \in cs |-> IF calls[c].month = m THEN InMemory(c) ELSE 0]
FileOf(cs, m) == [c \in cs |-> IF calls[c].month = m THEN OnFile(c) ELSE 0]

SumsOK ==
  \A m \in Months :
    /\ SumOf(MemoryOf(PricedCalls, m), PricedCalls) <= memory[m].spent["openai"]
    /\ SumOf(MemoryOf(GoogleCalls, m), GoogleCalls) <= memory[m].units
    /\ SumOf(FileOf(PricedCalls, m), PricedCalls) <= file[m].spent["openai"]
    /\ SumOf(FileOf(GoogleCalls, m), GoogleCalls) <= file[m].units

Within(r) == Price(r.units) <= r.spent["google"] /\ \A p \in Providers : r.spent[p] <= Limit(p)
LimitsOK == \A m \in Months : Within(memory[m]) /\ Within(file[m])

LedgerInv == LedgerTypes /\ QueueOK /\ CallsOK /\ SumsOK /\ LimitsOK

LEMMA LedgerValues ==
  /\ IsFiniteSet(PricedCalls) /\ IsFiniteSet(GoogleCalls)
  /\ PricedLimit \in Nat /\ GoogleLimit \in Nat /\ FreeUnits \in Nat /\ UnitPrice \in Nat
  /\ LastMonth \in Nat /\ 1 \in Months /\ Months \subseteq Nat /\ Months \subseteq 0..LastMonth
  /\ SelectOp \in Ops
  BY LedgerParameters DEF LedgerParameters, Months, SelectOp, Ops

\* More units do not cost less.
LEMMA Prices ==
  ASSUME NEW a \in Nat, NEW b \in Nat, a <= b
  PROVE  Price(a) \in Nat /\ Price(b) \in Nat /\ Price(a) <= Price(b)
<1> DEFINE x == Most(0, a - FreeUnits)
           y == Most(0, b - FreeUnits)
<1>1. x \in Nat /\ y \in Nat /\ x <= y BY LedgerValues DEF Most
<1>2. Price(a) = UnitPrice * x /\ Price(b) = UnitPrice * y BY DEF Price
<1> HIDE DEF x, y
<1>3. PICK k \in Nat : y = x + k BY <1>1
<1>4. UnitPrice * y = UnitPrice * x + UnitPrice * k BY <1>1, <1>3, LedgerValues
<1>5. UnitPrice * x \in Nat /\ UnitPrice * k \in Nat BY <1>1, <1>3, LedgerValues
<1> QED BY <1>2, <1>4, <1>5

-----------------------------------------------------------------------------
(* The chain *)

LEMMA ChainServed ==
  ASSUME NEW q \in Seq(Ops), q # <<>>, NEW cl, ChainOf(q, cl), NEW d,
         \A c \in Calls : d[c] # cl[c] => Head(q).op \in Books /\ c = Head(q).call
  PROVE  Tail(q) \in Seq(Ops) /\ ChainOf(Tail(q), d)
<1>1. /\ Tail(q) \in Seq(Ops) /\ Head(q) = q[1] /\ 1 \in 1..Len(q)
      /\ \A i \in 1..Len(Tail(q)) : i+1 \in 1..Len(q) /\ i+1 # 1 /\ Tail(q)[i] = q[i+1]
  OBVIOUS
<1>2. \A i \in 1..Len(Tail(q)) : Tail(q)[i].op \in Books => d[Tail(q)[i].call] = cl[Tail(q)[i].call]
  BY <1>1 DEF ChainOf
<1>3. \A i, j \in 1..Len(Tail(q)) : i+1 = j+1 => i = j OBVIOUS
<1> QED BY <1>1, <1>2, <1>3 DEF ChainOf, Books

LEMMA ChainGrows ==
  ASSUME NEW q \in Seq(Ops), NEW cl, ChainOf(q, cl), NEW o \in Ops, o.op \notin Books
  PROVE  Append(q, o) \in Seq(Ops) /\ ChainOf(Append(q, o), cl)
<1>1. /\ Append(q, o) \in Seq(Ops) /\ Len(Append(q, o)) = Len(q) + 1 /\ Len(q) \in Nat
      /\ \A i \in 1..Len(Append(q, o)) : (i \in 1..Len(q) /\ Append(q, o)[i] = q[i]) \/ Append(q, o)[i] = o
  OBVIOUS
<1> QED BY <1>1 DEF ChainOf, Books

LEMMA ChainBooks ==
  ASSUME NEW q \in Seq(Ops), NEW cl, ChainOf(q, cl), NEW o \in Ops, o.op \in Books, o.call \in Calls,
         cl[o.call].phase \notin {"asking", "settling"}, NEW d, \A c \in Calls : d[c] # cl[c] => c = o.call,
         o.op = "reserve" => d[o.call].phase = "asking",
         o.op = "settle" => d[o.call].phase = "settling" /\ o.actual = d[o.call].cost
  PROVE  Append(q, o) \in Seq(Ops) /\ ChainOf(Append(q, o), d)
<1>1. /\ Append(q, o) \in Seq(Ops) /\ Len(Append(q, o)) = Len(q) + 1 /\ Len(q) \in Nat
      /\ Append(q, o)[Len(q) + 1] = o
      /\ \A i \in 1..Len(q) : Append(q, o)[i] = q[i]
  OBVIOUS
<1>2. \A i \in 1..Len(q) : q[i].op \in Books => q[i].call # o.call /\ d[q[i].call] = cl[q[i].call]
  BY DEF ChainOf, Books
<1>3. \A i \in 1..Len(Append(q, o)) : i \in 1..Len(q) \/ i = Len(q) + 1 BY <1>1
<1>4. ASSUME NEW i \in 1..Len(q)
      PROVE  /\ q[i].op \in Books => q[i].call \in Calls
             /\ q[i].op = "reserve" => d[q[i].call].phase = "asking"
             /\ q[i].op = "settle" => d[q[i].call].phase = "settling" /\ q[i].actual = d[q[i].call].cost
  BY <1>2 DEF ChainOf, Books
<1>5. ASSUME NEW i \in 1..Len(Append(q, o)), NEW j \in 1..Len(Append(q, o)),
             Append(q, o)[i].op \in Books, Append(q, o)[j].op \in Books, Append(q, o)[i].call = Append(q, o)[j].call
      PROVE  i = j
  <2>1. CASE i \in 1..Len(q) /\ j \in 1..Len(q) BY <2>1, <1>1, <1>5 DEF ChainOf
  <2>2. CASE i \in 1..Len(q) /\ j = Len(q) + 1 BY <2>2, <1>1, <1>2, <1>5
  <2>3. CASE j \in 1..Len(q) /\ i = Len(q) + 1 BY <2>3, <1>1, <1>2, <1>5
  <2> QED BY <2>1, <2>2, <2>3, <1>3
<1>6. ASSUME NEW i \in 1..Len(Append(q, o))
      PROVE  LET p == Append(q, o)[i] IN
             /\ p.op \in Books => p.call \in Calls
             /\ p.op = "reserve" => d[p.call].phase = "asking"
             /\ p.op = "settle" => d[p.call].phase = "settling" /\ p.actual = d[p.call].cost
  BY <1>1, <1>3, <1>4
<1> QED BY <1>1, <1>5, <1>6 DEF ChainOf

-----------------------------------------------------------------------------
(* The sums *)

LEMMA WeightsTyped ==
  ASSUME LedgerTypes, NEW m
  PROVE  \A cs \in {PricedCalls, GoogleCalls} :
           /\ cs \subseteq Calls /\ IsFiniteSet(cs)
           /\ MemoryOf(cs, m) \in [cs -> Int] /\ FileOf(cs, m) \in [cs -> Int]
           /\ \A c \in cs : MemoryOf(cs, m)[c] >= 0 /\ FileOf(cs, m)[c] >= 0
<1>1. \A c \in Calls : calls[c].want \in Nat /\ calls[c].cost \in Nat BY DEF LedgerTypes, CallRecords
<1>2. \A c \in Calls : InMemory(c) \in Nat /\ OnFile(c) \in Nat BY <1>1 DEF InMemory, OnFile
<1> QED BY <1>2, LedgerValues DEF MemoryOf, FileOf, Calls

\* Smaller weights.
LEMMA SumFalls ==
  ASSUME NEW cs, IsFiniteSet(cs), NEW v \in [cs -> Int], NEW w \in [cs -> Int], \A c \in cs : v[c] <= w[c],
         NEW n \in Int, SumOf(w, cs) <= n
  PROVE  SumOf(v, cs) <= n
<1>1. SumOf(v, cs) <= SumOf(w, cs) BY SumMono
<1>2. SumOf(v, cs) \in Int /\ SumOf(w, cs) \in Int BY SumValue
<1> QED BY <1>1, <1>2

\* One weight changes by what the amount changes.
LEMMA SumMoves ==
  ASSUME NEW cs, IsFiniteSet(cs), NEW v \in [cs -> Int], NEW w \in [cs -> Int], NEW x \in cs,
         \A c \in cs \ {x} : v[c] = w[c],
         NEW n \in Int, SumOf(w, cs) <= n, NEW k \in Int, n - w[x] + v[x] <= k
  PROVE  SumOf(v, cs) <= k
<1>1. SumOf(v, cs) = SumOf(w, cs) - w[x] + v[x] BY SumChange
<1>2. SumOf(v, cs) \in Int /\ SumOf(w, cs) \in Int /\ v[x] \in Int /\ w[x] \in Int BY SumValue
<1> QED BY <1>1, <1>2

\* A term is not more than the sum.
LEMMA SumHas ==
  ASSUME NEW cs, IsFiniteSet(cs), NEW w \in [cs -> Int], \A c \in cs : 0 <= w[c], NEW x \in cs,
         NEW n \in Int, SumOf(w, cs) <= n
  PROVE  w[x] <= n
<1>1. SumOf(w, {x}) <= SumOf(w, cs) BY SumMono
<1>2. SumOf(w, {x}) = w[x] + SumOf(w, {x} \ {x}) BY SumLess
<1>3. SumOf(w, {x} \ {x}) = 0 BY SumValue
<1>4. SumOf(w, cs) \in Int /\ w[x] \in Int BY SumValue
<1> QED BY <1>1, <1>2, <1>3, <1>4

\* A step that leaves the amounts as they are and no call with more weight.
LEMMA Quiet ==
  ASSUME LedgerInv, LedgerTypes', QueueOK', CallsOK', LimitsOK',
         \A c \in Calls : /\ calls'[c].month = calls[c].month
                          /\ InMemory(c)' <= InMemory(c) /\ OnFile(c)' <= OnFile(c),
         \A m \in Months : /\ memory'[m].spent = memory[m].spent /\ memory'[m].units = memory[m].units
                           /\ file'[m] = file[m]
  PROVE  LedgerInv'
<1> SUFFICES ASSUME NEW m \in Months
             PROVE /\ SumOf(MemoryOf(PricedCalls, m)', PricedCalls) <= memory'[m].spent["openai"]
                   /\ SumOf(MemoryOf(GoogleCalls, m)', GoogleCalls) <= memory'[m].units
                   /\ SumOf(FileOf(PricedCalls, m)', PricedCalls) <= file'[m].spent["openai"]
                   /\ SumOf(FileOf(GoogleCalls, m)', GoogleCalls) <= file'[m].units
  BY DEF LedgerInv, SumsOK
<1>1. \A cs \in {PricedCalls, GoogleCalls} :
           /\ cs \subseteq Calls /\ IsFiniteSet(cs)
           /\ MemoryOf(cs, m) \in [cs -> Int] /\ FileOf(cs, m) \in [cs -> Int]
  BY WeightsTyped DEF LedgerInv
<1>2. \A cs \in {PricedCalls, GoogleCalls} : MemoryOf(cs, m)' \in [cs -> Int] /\ FileOf(cs, m)' \in [cs -> Int]
  <2>1. \A c \in Calls : calls'[c].want \in Nat /\ calls'[c].cost \in Nat BY DEF LedgerTypes, CallRecords
  <2>2. \A c \in Calls : InMemory(c)' \in Nat /\ OnFile(c)' \in Nat BY <2>1 DEF InMemory, OnFile
  <2> QED BY <2>2, <1>1 DEF MemoryOf, FileOf
<1>3. \A cs \in {PricedCalls, GoogleCalls} : \A c \in cs :
        MemoryOf(cs, m)'[c] <= MemoryOf(cs, m)[c] /\ FileOf(cs, m)'[c] <= FileOf(cs, m)[c]
  BY <1>1 DEF MemoryOf, FileOf
<1>4. /\ memory[m].spent["openai"] \in Int /\ memory[m].units \in Int
      /\ file[m].spent["openai"] \in Int /\ file[m].units \in Int
  <2>1. memory[m] \in Records /\ file[m] \in Records BY DEF LedgerInv, LedgerTypes
  <2> QED BY <2>1 DEF Records, Providers
<1>5. /\ SumOf(MemoryOf(PricedCalls, m), PricedCalls) <= memory[m].spent["openai"]
      /\ SumOf(MemoryOf(GoogleCalls, m), GoogleCalls) <= memory[m].units
      /\ SumOf(FileOf(PricedCalls, m), PricedCalls) <= file[m].spent["openai"]
      /\ SumOf(FileOf(GoogleCalls, m), GoogleCalls) <= file[m].units
  BY DEF LedgerInv, SumsOK
<1>6. /\ SumOf(MemoryOf(PricedCalls, m)', PricedCalls) <= memory[m].spent["openai"]
      /\ SumOf(MemoryOf(GoogleCalls, m)', GoogleCalls) <= memory[m].units
  <2> HIDE DEF MemoryOf, FileOf
  <2> QED BY <1>1, <1>2, <1>3, <1>4, <1>5, SumFalls
<1>7. /\ SumOf(FileOf(PricedCalls, m)', PricedCalls) <= file[m].spent["openai"]
      /\ SumOf(FileOf(GoogleCalls, m)', GoogleCalls) <= file[m].units
  BY <1>1, <1>2, <1>3, <1>4, <1>5, SumFalls
<1> QED BY <1>6, <1>7

-----------------------------------------------------------------------------
(* The steps *)

\* Appending to the chain leaves the operation under way.
LEMMA BusyKept ==
  ASSUME LedgerTypes, QueueOK, NEW o, queue' = Append(queue, o), writing' = writing
  PROVE  Busy' = Busy
<1>1. writing => Head(Append(queue, o)) = Head(queue) BY DEF LedgerTypes, QueueOK
<1> QED BY <1>1 DEF Busy

\* Who is at the head.
LEMMA HeadIs ==
  ASSUME LedgerTypes, QueueOK, queue # <<>>
  PROVE  LET o == Head(queue) IN
         /\ o \in Ops /\ Tail(queue) \in Seq(Ops)
         /\ o.op \in Books => o.call \in Calls
         /\ o.op = "reserve" => calls[o.call].phase = "asking"
         /\ o.op = "settle" => calls[o.call].phase = "settling" /\ o.actual = calls[o.call].cost
<1>1. Head(queue) = queue[1] /\ 1 \in 1..Len(queue) /\ Head(queue) \in Ops /\ Tail(queue) \in Seq(Ops)
  BY DEF LedgerTypes
<1> QED BY <1>1 DEF QueueOK, ChainOf

\* The calls that BookedNow and SettledNow speak of.
LEMMA BusyIs ==
  ASSUME LedgerTypes, QueueOK, NEW c
  PROVE  /\ BookedNow(c) => c \in Calls /\ calls[c].phase = "asking"
         /\ SettledNow(c) => c \in Calls /\ calls[c].phase = "settling"
  BY HeadIs DEF BookedNow, SettledNow, Busy, SelectOp, QueueOK, Books

\* The head's promise is rejected.
LEMMA RejectsSafe ==
  ASSUME LedgerInv, queue # <<>>, Rejects, broken' \in BOOLEAN, UNCHANGED <<memory, file, month>>
  PROVE  LedgerInv'
<1> DEFINE o == Head(queue)
<1>t. LedgerTypes /\ QueueOK /\ CallsOK BY DEF LedgerInv
<1>1. /\ o \in Ops /\ o.op \in Books => o.call \in Calls
  BY <1>t, HeadIs
<1>h. /\ o.op \in Books => o.call \in Calls
      /\ o.op = "reserve" => calls[o.call].phase = "asking"
      /\ o.op = "settle" => calls[o.call].phase = "settling"
  BY <1>t, HeadIs
<1> DEFINE ph == IF o.op = "reserve" THEN "refused" ELSE "over"
<1>2. /\ queue' = Tail(queue) /\ writing' = FALSE
      /\ o.op \in Books => calls' = [calls EXCEPT ![o.call].phase = ph]
      /\ o.op \notin Books => calls' = calls
  BY DEF Rejects, Serving, Books
<1>3. \A c \in Calls : /\ calls'[c] # calls[c] => o.op \in Books /\ c = o.call
                       /\ calls'[c].month = calls[c].month /\ calls'[c].want = calls[c].want
                       /\ calls'[c].cost = calls[c].cost /\ calls'[c].held = calls[c].held
                       /\ calls'[c].phase = IF o.op \in Books /\ c = o.call THEN ph ELSE calls[c].phase
  <2> HIDE DEF o, ph
  <2>1. calls \in [Calls -> CallRecords] BY <1>t DEF LedgerTypes
  <2>2. CASE o.op \in Books BY <1>2, <2>1, <2>2, <1>h DEF CallRecords
  <2>3. CASE o.op \notin Books BY <1>2, <2>1, <2>3
  <2> QED BY <2>2, <2>3
<1>4. calls' \in [Calls -> CallRecords]
  <2>1. calls \in [Calls -> CallRecords] /\ ph \in CallPhases BY <1>t DEF LedgerTypes, CallPhases
  <2> HIDE DEF o, ph
  <2> QED BY <1>2, <2>1, <1>h DEF CallRecords
<1>5. LedgerTypes'
  <2>1. flush' \in [phase : FlushPhases, alert : Alerts \union {NoAlert}, accepted : BOOLEAN]
    BY <1>t DEF LedgerTypes, Rejects, FlushPhases
  <2>2. timer' = timer BY DEF Rejects
  <2> QED BY <1>t, <1>2, <1>4, <2>1, <2>2, HeadIs DEF LedgerTypes
<1>6. QueueOK'
  <2>1. ChainOf(Tail(queue), calls') BY <1>t, <1>3, ChainServed DEF LedgerTypes, QueueOK
  <2> QED BY <2>1, <1>2 DEF QueueOK
<1>7. \A c \in Calls : ~BookedNow(c)' /\ ~SettledNow(c)'
  BY <1>2 DEF BookedNow, SettledNow, Busy, SelectOp
<1>8. CallsOK' BY <1>t, <1>3, <1>7, <1>h DEF CallsOK, Books
<1>9. \A c \in Calls : InMemory(c)' <= InMemory(c) /\ OnFile(c)' <= OnFile(c)
  <2> SUFFICES ASSUME NEW c \in Calls PROVE InMemory(c)' <= InMemory(c) /\ OnFile(c)' <= OnFile(c)
    OBVIOUS
  <2>0. calls[c] \in CallRecords BY <1>t DEF LedgerTypes
  <2>1. calls[c].want \in Nat /\ calls[c].cost \in Nat BY <2>0 DEF CallRecords
  <2>2. calls[c].phase \in {"settling", "over"} => calls[c].cost <= calls[c].want BY <1>t DEF CallsOK
  <2>3. SettledNow(c) => o.op \in Books /\ o.call = c BY <1>t DEF SettledNow, Busy, SelectOp, Books
  <2>4. /\ calls'[c].want = calls[c].want /\ calls'[c].cost = calls[c].cost
        /\ \/ calls'[c].phase = calls[c].phase /\ ~SettledNow(c)
           \/ calls[c].phase = "asking" /\ calls'[c].phase = "refused"
           \/ calls[c].phase = "settling" /\ calls'[c].phase = "over"
    BY <1>3, <1>h, <2>3 DEF Books
  <2> QED BY <2>1, <2>2, <2>4, <1>7 DEF InMemory, OnFile
<1>10. LimitsOK' BY DEF LimitsOK, LedgerInv
<1> QED BY <1>3, <1>5, <1>6, <1>8, <1>9, <1>10, Quiet

\* A caller takes its next step: it asks, gets its answer, or never learns it.
LEMMA CallerSafe ==
  ASSUME LedgerInv, NEW c \in Calls, Ask(c) \/ CallAnswered(c) \/ NotKnown(c)
  PROVE  LedgerInv'
<1>t. LedgerTypes /\ QueueOK /\ CallsOK BY DEF LedgerInv
<1>c. calls \in [Calls -> CallRecords] /\ queue \in Seq(Ops) BY <1>t DEF LedgerTypes
<1>v. calls[c].want \in Nat /\ calls[c].cost \in Nat BY <1>c DEF CallRecords
<1>u. UNCHANGED <<memory, file, writing, broken, flush, timer, month>>
  BY DEF Ask, CallAnswered, NotKnown
<1>l. LimitsOK' BY <1>u DEF LimitsOK, LedgerInv
<1>b. ~BookedNow(c) /\ ~SettledNow(c) BY <1>t, BusyIs DEF Ask, CallAnswered, NotKnown
<1>1. CASE Ask(c)
  <2>1. PICK n \in Wants : calls' = [calls EXCEPT ![c].phase = "asking", ![c].want = n] BY <1>1 DEF Ask
  <2>n. n \in Nat BY LedgerParameters DEF LedgerParameters
  <2>2. calls' \in [Calls -> CallRecords] BY <2>1, <2>n, <1>c DEF CallRecords, CallPhases
  <2> DEFINE o == [op |-> "reserve", call |-> c, actual |-> 0]
  <2>3. calls[c].phase = "new" /\ queue' = Append(queue, o) /\ o \in Ops BY <1>1 DEF Ask, Ops
  <2>4. calls'[c].phase = "asking" /\ \A d \in Calls : d # c => calls'[d] = calls[d] BY <2>1, <1>c
  <2>m. calls'[c].month = calls[c].month BY <2>1, <1>c DEF CallRecords
  <2>5. queue' \in Seq(Ops) /\ ChainOf(queue', calls')
    BY <2>3, <2>4, <1>t, <1>c, ChainBooks DEF QueueOK, Books
  <2>6. LedgerTypes' BY <2>2, <2>5, <1>u, <1>t DEF LedgerTypes
  <2>7. QueueOK' BY <2>5, <2>3, <1>u, <1>c DEF QueueOK
  <2>8. Busy' = Busy BY <2>3, <1>u, <1>t, BusyKept
  <2>9. CallsOK' BY <1>t, <2>4, <2>8, <1>b DEF CallsOK, BookedNow
  <2>10. \A d \in Calls : /\ calls'[d].month = calls[d].month
                          /\ InMemory(d)' <= InMemory(d) /\ OnFile(d)' <= OnFile(d)
    <3>1. InMemory(c)' = 0 /\ InMemory(c) = 0 /\ OnFile(c)' = 0 /\ OnFile(c) = 0
      BY <2>3, <2>4, <2>8, <1>b DEF InMemory, OnFile, BookedNow, SettledNow
    <3>2. \A d \in Calls : d # c => InMemory(d)' = InMemory(d) /\ OnFile(d)' = OnFile(d)
      BY <2>4, <2>8 DEF InMemory, OnFile, BookedNow, SettledNow
    <3>3. \A d \in Calls : InMemory(d) \in Nat /\ OnFile(d) \in Nat
      BY <1>c DEF InMemory, OnFile, CallRecords
    <3> QED BY <3>1, <3>2, <3>3, <2>4, <2>m
  <2> QED BY <1>u, <1>l, <2>6, <2>7, <2>9, <2>10, Quiet
<1>2. CASE CallAnswered(c)
  <2> DEFINE o == [op |-> "settle", call |-> c, actual |-> calls[c].cost]
  <2>1. calls' = [calls EXCEPT ![c].phase = "settling"] /\ calls[c].phase = "calling" /\ queue' = Append(queue, o)
    BY <1>2 DEF CallAnswered, SettleWith
  <2>2. calls' \in [Calls -> CallRecords] BY <2>1, <1>c DEF CallRecords, CallPhases
  <2>3. o \in Ops BY <1>v DEF Ops
  <2>4. /\ calls'[c].phase = "settling" /\ calls'[c].cost = calls[c].cost /\ calls'[c].want = calls[c].want
        /\ calls'[c].month = calls[c].month /\ calls'[c].held = calls[c].held
        /\ \A d \in Calls : d # c => calls'[d] = calls[d]
    BY <2>1, <1>c DEF CallRecords
  <2>5. queue' \in Seq(Ops) /\ ChainOf(queue', calls')
    BY <2>1, <2>3, <2>4, <1>t, <1>c, ChainBooks DEF QueueOK, Books
  <2>6. LedgerTypes' BY <2>2, <2>5, <1>u, <1>t DEF LedgerTypes
  <2>7. QueueOK' BY <2>5, <2>1, <1>u, <1>c DEF QueueOK
  <2>8. Busy' = Busy BY <2>1, <1>u, <1>t, BusyKept
  <2>9. CallsOK' BY <1>t, <2>1, <2>4, <2>8 DEF CallsOK, BookedNow
  <2>10. \A d \in Calls : /\ calls'[d].month = calls[d].month
                          /\ InMemory(d)' <= InMemory(d) /\ OnFile(d)' <= OnFile(d)
    <3>1. InMemory(c)' = InMemory(c) /\ OnFile(c)' = OnFile(c)
      BY <2>1, <2>4, <2>8, <1>b DEF InMemory, OnFile, BookedNow, SettledNow
    <3>2. \A d \in Calls : d # c => InMemory(d)' = InMemory(d) /\ OnFile(d)' = OnFile(d)
      BY <2>4, <2>8 DEF InMemory, OnFile, BookedNow, SettledNow
    <3>3. \A d \in Calls : InMemory(d) \in Nat /\ OnFile(d) \in Nat
      BY <1>c DEF InMemory, OnFile, CallRecords
    <3> QED BY <3>1, <3>2, <3>3, <2>4
  <2> QED BY <1>u, <1>l, <2>6, <2>7, <2>9, <2>10, Quiet
<1>3. CASE NotKnown(c)
  <2>1. calls' = [calls EXCEPT ![c].phase = "over"] /\ calls[c].phase = "calling" /\ queue' = queue
    BY <1>3 DEF NotKnown
  <2>2. calls' \in [Calls -> CallRecords] BY <2>1, <1>c DEF CallRecords, CallPhases
  <2>4. /\ calls'[c].phase = "over" /\ calls'[c].cost = calls[c].cost /\ calls'[c].want = calls[c].want
        /\ calls'[c].month = calls[c].month /\ calls'[c].held = calls[c].held
        /\ \A d \in Calls : d # c => calls'[d] = calls[d]
    BY <2>1, <1>c DEF CallRecords
  <2>5. ChainOf(queue, calls')
    <3>1. \A i \in 1..Len(queue) : queue[i].op \in Books => queue[i].call \in Calls /\ queue[i].call # c
      BY <2>1, <1>t DEF QueueOK, ChainOf, Books
    <3> QED BY <3>1, <2>4, <1>t DEF QueueOK, ChainOf, Books
  <2>6. LedgerTypes' BY <2>1, <2>2, <1>u, <1>t DEF LedgerTypes
  <2>7. QueueOK' BY <2>5, <2>1, <1>u, <1>t DEF QueueOK
  <2>8. Busy' = Busy BY <2>1, <1>u DEF Busy
  <2>9. CallsOK' BY <1>t, <2>1, <2>4, <2>8, <1>b DEF CallsOK, BookedNow
  <2>10. \A d \in Calls : /\ calls'[d].month = calls[d].month
                          /\ InMemory(d)' <= InMemory(d) /\ OnFile(d)' <= OnFile(d)
    <3>1. InMemory(c)' = calls[c].cost /\ InMemory(c) = calls[c].want /\ OnFile(c)' = calls[c].cost /\ OnFile(c) = calls[c].want
      BY <2>1, <2>4, <2>8, <1>b DEF InMemory, OnFile, BookedNow, SettledNow
    <3>2. \A d \in Calls : d # c => InMemory(d)' = InMemory(d) /\ OnFile(d)' = OnFile(d)
      BY <2>4, <2>8 DEF InMemory, OnFile, BookedNow, SettledNow
    <3>3. \A d \in Calls : InMemory(d) \in Nat /\ OnFile(d) \in Nat
      BY <1>c DEF InMemory, OnFile, CallRecords
    <3>4. calls[c].cost <= calls[c].want BY <2>1, <1>t DEF CallsOK
    <3> QED BY <3>1, <3>2, <3>3, <3>4, <2>4
  <2> QED BY <1>u, <1>l, <2>6, <2>7, <2>9, <2>10, Quiet
<1> QED BY <1>1, <1>2, <1>3

\* Steps that append at most an operation on the alerts.
LEMMA AlertsSafe ==
  ASSUME LedgerInv, UNCHANGED <<file, writing, calls>>,
         memory' = memory, queue' = queue \/ \E o \in Ops : o.op \notin Books /\ queue' = Append(queue, o),
         flush' \in [phase : FlushPhases, alert : Alerts \union {NoAlert}, accepted : BOOLEAN],
         broken' \in BOOLEAN, timer' \in BOOLEAN, month' \in Months
  PROVE  LedgerInv'
<1>t. LedgerTypes /\ QueueOK /\ CallsOK BY DEF LedgerInv
<1>1. queue' \in Seq(Ops) /\ ChainOf(queue', calls)
  <2>1. queue \in Seq(Ops) /\ ChainOf(queue, calls) BY <1>t DEF LedgerTypes, QueueOK
  <2> QED BY <2>1, ChainGrows
<1>2. LedgerTypes' BY <1>1, <1>t DEF LedgerTypes
<1>3. queue # <<>> => queue' # <<>> BY <1>t DEF LedgerTypes
<1>4. QueueOK' BY <1>1, <1>3, <1>t DEF QueueOK
<1>5. Busy' = Busy BY <1>t, BusyKept DEF Busy
<1>6. CallsOK' BY <1>5, <1>t DEF CallsOK, BookedNow
<1>7. \A c \in Calls : InMemory(c)' = InMemory(c) /\ OnFile(c)' = OnFile(c)
  BY <1>5 DEF InMemory, OnFile, BookedNow, SettledNow
<1>8. \A c \in Calls : InMemory(c) \in Nat /\ OnFile(c) \in Nat
  BY <1>t DEF InMemory, OnFile, CallRecords, LedgerTypes
<1>9. LimitsOK' BY DEF LimitsOK, LedgerInv
<1> QED BY <1>2, <1>4, <1>6, <1>7, <1>8, <1>9, Quiet

LEMMA OutsideSafe ==
  ASSUME LedgerInv, AlertTimer \/ MonthTurns \/ (\E accepted \in BOOLEAN : AlertAnswered(accepted)) \/ UNCHANGED ledgerVars
  PROVE  LedgerInv'
<1>t. LedgerTypes BY DEF LedgerInv
<1>1. CASE \E accepted \in BOOLEAN : AlertAnswered(accepted)
  <2>1. PICK a \in BOOLEAN : AlertAnswered(a) BY <1>1
  <2> DEFINE o == [op |-> "record", call |-> "none", actual |-> 0]
  <2>2. o \in Ops /\ o.op \notin Books /\ queue' = Append(queue, o) BY <2>1 DEF AlertAnswered, Ops, Books
  <2>3. flush' \in [phase : FlushPhases, alert : Alerts \union {NoAlert}, accepted : BOOLEAN]
    BY <2>1, <1>t DEF AlertAnswered, LedgerTypes, FlushPhases
  <2>4. UNCHANGED <<memory, file, writing, broken, calls, timer, month>> BY <2>1 DEF AlertAnswered
  <2> HIDE DEF o
  <2> QED BY <2>2, <2>3, <2>4, <1>t, AlertsSafe DEF LedgerTypes
<1>2. CASE AlertTimer
  <2>1. SelectOp \in Ops /\ SelectOp.op \notin Books BY DEF SelectOp, Ops, Books
  <2>2. queue' = queue \/ \E o \in Ops : o.op \notin Books /\ queue' = Append(queue, o)
    BY <1>2, <2>1 DEF AlertTimer, Flushed
  <2>3. /\ flush' \in [phase : FlushPhases, alert : Alerts \union {NoAlert}, accepted : BOOLEAN]
        /\ timer' \in BOOLEAN
    <3>1. \/ flush' = flush
          \/ flush' = [phase |-> "selecting", alert |-> NoAlert, accepted |-> FALSE]
      BY <1>2 DEF AlertTimer, Flushed
    <3>2. timer' = timer \/ timer' = FALSE BY <1>2 DEF AlertTimer, Flushed
    <3>3. [phase |-> "selecting", alert |-> NoAlert, accepted |-> FALSE]
            \in [phase : FlushPhases, alert : Alerts \union {NoAlert}, accepted : BOOLEAN]
      BY DEF FlushPhases
    <3>4. /\ flush \in [phase : FlushPhases, alert : Alerts \union {NoAlert}, accepted : BOOLEAN]
          /\ timer \in BOOLEAN
      BY <1>t DEF LedgerTypes
    <3> QED BY <3>1, <3>2, <3>3, <3>4
  <2>4. UNCHANGED <<memory, file, writing, broken, calls, month>> BY <1>2 DEF AlertTimer
  <2> QED BY <2>2, <2>3, <2>4, <1>t, AlertsSafe DEF LedgerTypes
<1>3. CASE MonthTurns
  <2>1. month' \in Months /\ UNCHANGED <<memory, file, queue, writing, broken, calls, flush, timer>>
    BY <1>3, <1>t, LedgerValues DEF MonthTurns, Months, LedgerTypes
  <2> QED BY <2>1, <1>t, AlertsSafe DEF LedgerTypes
<1>4. CASE UNCHANGED ledgerVars
  <2>1. UNCHANGED <<memory, file, queue, writing, broken, calls, flush, timer, month>> BY <1>4 DEF ledgerVars
  <2> QED BY <2>1, <1>t, AlertsSafe DEF LedgerTypes
<1> QED BY <1>1, <1>2, <1>3, <1>4

\* The oldest alert that is pending is one.
LEMMA NextIsAlert ==
  ASSUME Pending # {}
  PROVE  NextAlert \in Pending
<1>p. Pending \subseteq Months \X Thresholds /\ Months \subseteq Nat /\ Thresholds \subseteq Nat
  BY LedgerValues, LedgerParameters DEF Pending, Alerts, LedgerParameters
<1>q. \A b \in Pending : b = <<b[1], b[2]>> /\ b[1] \in Nat /\ b[2] \in Nat
  <2> SUFFICES ASSUME NEW b \in Nat \X Nat PROVE b = <<b[1], b[2]>> /\ b[1] \in Nat /\ b[2] \in Nat
    BY <1>p
  <2> QED OBVIOUS
<1>1. PICK m \in Nat : (\E b \in Pending : b[1] = m) /\ \A n \in Nat : n < m => ~\E b \in Pending : b[1] = n
  <2> DEFINE R == {n \in Nat : \E b \in Pending : b[1] = n}
  <2>1. R \subseteq Nat /\ R # {}
    <3>1. PICK b \in Pending : TRUE OBVIOUS
    <3>2. b[1] \in R BY <1>p
    <3> QED BY <3>2
  <2>2. PICK x \in R : \A y \in R : ~(<<y, x>> \in OpToRel(<, Nat))
    <3> HIDE DEF R
    <3> QED BY <2>1, NatLessThanWellFounded, WFMin
  <2>3. \A n \in Nat : n < x => n \notin R BY <2>2 DEF OpToRel
  <2> QED BY <2>2, <2>3
<1>2. PICK t \in Nat : <<m, t>> \in Pending /\ \A n \in Nat : n < t => <<m, n>> \notin Pending
  <2> DEFINE R == {n \in Nat : <<m, n>> \in Pending}
  <2>1. R \subseteq Nat /\ R # {}
    <3>1. PICK b \in Pending : b[1] = m BY <1>1
    <3>2. b = <<m, b[2]>> /\ b[2] \in Nat BY <3>1, <1>q
    <3>3. b[2] \in R BY <3>2
    <3> QED BY <3>3
  <2>2. PICK x \in R : \A y \in R : ~(<<y, x>> \in OpToRel(<, Nat))
    <3> HIDE DEF R
    <3> QED BY <2>1, NatLessThanWellFounded, WFMin
  <2>3. \A n \in Nat : n < x => n \notin R BY <2>2 DEF OpToRel
  <2> QED BY <2>2, <2>3
<1>3. \A o \in Pending : m < o[1] \/ (m = o[1] /\ t <= o[2])
  <2> SUFFICES ASSUME NEW o \in Pending PROVE m < o[1] \/ (m = o[1] /\ t <= o[2])
    OBVIOUS
  <2>1. o = <<o[1], o[2]>> /\ o[1] \in Nat /\ o[2] \in Nat BY <1>q
  <2>2. ~(o[1] < m) BY <1>1, <2>1
  <2>3. o[1] = m => ~(o[2] < t) BY <1>2, <2>1
  <2> QED BY <2>1, <2>2, <2>3
<1>4. \E a \in Pending : \A o \in Pending : a[1] < o[1] \/ (a[1] = o[1] /\ a[2] <= o[2])
  BY <1>2, <1>3
<1> QED BY <1>4 DEF NextAlert

\* The loop takes an alert, or notes what became of it: no amount changes.
LEMMA AlertWorkSafe ==
  ASSUME LedgerInv, Select \/ Record
  PROVE  LedgerInv'
<1>t. LedgerTypes /\ QueueOK /\ CallsOK BY DEF LedgerInv
<1>1. /\ queue # <<>> /\ ~writing /\ Head(queue).op \in {"select", "record"} /\ writing' = TRUE
      /\ UNCHANGED <<file, queue, broken, calls, timer, month>>
  BY DEF Select, Record, Serving
<1>2. PICK a \in Alerts \union {NoAlert}, st \in AlertStates :
        /\ memory' = [memory EXCEPT ![a[1]].alerts[a[2]] = st] \/ memory' = memory
        /\ flush' = flush \/ flush' = [flush EXCEPT !.alert = a]
  <2>1. CASE Select
    <3>1. Pending # {} => NextAlert \in Alerts BY NextIsAlert DEF Pending
    <3> QED BY <2>1, <3>1 DEF Select, AlertStates
  <2>2. CASE Record
    <3>1. flush.alert \in Alerts \union {NoAlert} BY <1>t DEF LedgerTypes
    <3> QED BY <2>2, <3>1 DEF Record, AlertStates
  <2> QED BY <2>1, <2>2
<1>3. flush' \in [phase : FlushPhases, alert : Alerts \union {NoAlert}, accepted : BOOLEAN]
  BY <1>2, <1>t DEF LedgerTypes
<1>4. /\ memory' \in [Months -> Records]
      /\ \A m \in Months : memory'[m].spent = memory[m].spent /\ memory'[m].units = memory[m].units
  <2>1. \A m \in Months : memory[m] \in Records BY <1>t DEF LedgerTypes
  <2>2. \A r \in Records : /\ [r EXCEPT !.alerts[a[2]] = st] \in Records
                           /\ [r EXCEPT !.alerts[a[2]] = st].spent = r.spent
                           /\ [r EXCEPT !.alerts[a[2]] = st].units = r.units
    BY DEF Records
  <2>3. CASE memory' = memory BY <2>3, <1>t DEF LedgerTypes
  <2>4. CASE memory' = [memory EXCEPT ![a[1]].alerts[a[2]] = st]
    <3>1. memory' = [m \in Months |-> IF m = a[1] THEN [memory[m] EXCEPT !.alerts[a[2]] = st] ELSE memory[m]]
      BY <2>4, <1>t DEF LedgerTypes
    <3> QED BY <3>1, <2>1, <2>2
  <2> QED BY <1>2, <2>3, <2>4
<1>5. LedgerTypes' BY <1>1, <1>3, <1>4, <1>t DEF LedgerTypes
<1>6. QueueOK' BY <1>1, <1>t DEF QueueOK
<1>7. \A c \in Calls : /\ ~BookedNow(c)' /\ ~SettledNow(c)' /\ ~BookedNow(c) /\ ~SettledNow(c)
  BY <1>1 DEF BookedNow, SettledNow, Busy, SelectOp
<1>8. CallsOK' BY <1>1, <1>7, <1>t DEF CallsOK
<1>9. \A c \in Calls : InMemory(c)' = InMemory(c) /\ OnFile(c)' = OnFile(c)
  BY <1>1, <1>7 DEF InMemory, OnFile
<1>10. \A c \in Calls : InMemory(c) \in Nat /\ OnFile(c) \in Nat
  BY <1>t DEF InMemory, OnFile, CallRecords, LedgerTypes
<1>11. LimitsOK' BY <1>1, <1>4 DEF LimitsOK, LedgerInv, Within
<1> QED BY <1>1, <1>4, <1>5, <1>6, <1>8, <1>9, <1>10, <1>11, Quiet

\* What a reservation does to the record of the month.
LEMMA Reserved ==
  ASSUME LedgerTypes, CallsOK, LimitsOK, NEW c \in Calls, WithinBudget(c)
  PROVE  /\ Booked(c) \in [Months -> Records]
         /\ \A m \in Months : m # month => Booked(c)[m] = memory[m]
         /\ Booked(c)[month].spent[Provider(c)] = memory[month].spent[Provider(c)] + Added(c)
         /\ \A p \in Providers : p # Provider(c) => Booked(c)[month].spent[p] = memory[month].spent[p]
         /\ Booked(c)[month].units = IF c \in GoogleCalls THEN memory[month].units + calls[c].want ELSE memory[month].units
         /\ Added(c) \in Nat /\ (c \in PricedCalls => Added(c) = calls[c].want)
         /\ Within(Booked(c)[month])
<1>1. memory[month] \in Records /\ month \in Months /\ calls[c].want \in Nat BY DEF LedgerTypes, CallRecords
<1> DEFINE r == memory[month]
           u == IF c \in GoogleCalls THEN r.units + calls[c].want ELSE r.units
           q == [r EXCEPT !.spent[Provider(c)] = @ + Added(c), !.units = u]
<1>2. r.units \in Nat /\ r.spent \in [Providers -> Nat] /\ Provider(c) \in Providers BY <1>1 DEF Records, Provider, Providers
<1>3. Added(c) \in Nat
  <2>1. CASE c \in GoogleCalls
    <3>1. Price(r.units) \in Nat /\ Price(r.units + calls[c].want) \in Nat /\ Price(r.units) <= Price(r.units + calls[c].want)
      BY <1>1, <1>2, Prices
    <3> QED BY <2>1, <3>1 DEF Added, Provider
  <2>2. CASE c \notin GoogleCalls BY <2>2, <1>1 DEF Added, Provider
  <2> QED BY <2>1, <2>2
<1>4. Booked(c) = [memory EXCEPT ![month] = q]
  BY <1>1 DEF Booked, LedgerTypes, Records
<1>5. /\ q \in Records /\ q.units = u
      /\ q.spent = [r.spent EXCEPT ![Provider(c)] = @ + Added(c)]
  <2>1. u \in Nat BY <1>1, <1>2
  <2>2. [r.spent EXCEPT ![Provider(c)] = @ + Added(c)] \in [Providers -> Nat] BY <1>2, <1>3
  <2>3. r \in Records BY <1>1
  <2>4. q = [r EXCEPT !.spent = [r.spent EXCEPT ![Provider(c)] = @ + Added(c)], !.units = u]
    BY <2>3 DEF Records
  <2> HIDE DEF u, r, q
  <2> QED BY <2>1, <2>2, <2>3, <2>4 DEF Records
<1>6. q.spent[Provider(c)] = r.spent[Provider(c)] + Added(c)
  BY <1>2, <1>5
<1>7. \A p \in Providers : p # Provider(c) => q.spent[p] = r.spent[p] BY <1>2, <1>5
<1>8. Within(q)
  <2>1. Within(r) BY <1>1 DEF LimitsOK
  <2>2. q.spent[Provider(c)] <= Limit(Provider(c)) BY <1>6 DEF WithinBudget
  <2>3. \A p \in Providers : q.spent[p] <= Limit(p) BY <2>1, <2>2, <1>7 DEF Within
  <2>4. Price(q.units) <= q.spent["google"]
    <3>1. CASE c \in GoogleCalls
      <4>1. q.units = r.units + calls[c].want /\ q.spent["google"] = r.spent["google"] + Price(r.units + calls[c].want) - Price(r.units)
        BY <3>1, <1>5, <1>6, <1>2, <1>1, Prices DEF Added, Provider
      <4>2. Price(r.units) \in Nat /\ Price(r.units + calls[c].want) \in Nat BY <1>1, <1>2, Prices
      <4>3. r.spent["google"] \in Nat /\ Price(r.units) <= r.spent["google"] BY <1>2, <2>1 DEF Within, Providers
      <4> HIDE DEF q, u, r
      <4> QED BY <4>1, <4>2, <4>3
    <3>2. CASE c \notin GoogleCalls
      <4>1. q.units = r.units /\ q.spent["google"] = r.spent["google"]
        BY <3>2, <1>5, <1>7 DEF Provider, Providers
      <4> QED BY <4>1, <2>1 DEF Within
    <3> QED BY <3>1, <3>2
  <2> QED BY <2>3, <2>4 DEF Within
<1>9. c \in PricedCalls => Added(c) = calls[c].want
  BY LedgerParameters DEF LedgerParameters, Added, Provider
<1> HIDE DEF q
<1>10. Booked(c)[month] = q /\ \A m \in Months : m # month => Booked(c)[m] = memory[m]
  BY <1>1, <1>4 DEF LedgerTypes
<1>11. Booked(c) \in [Months -> Records] BY <1>4, <1>5 DEF LedgerTypes
<1> QED BY <1>3, <1>5, <1>6, <1>7, <1>8, <1>9, <1>10, <1>11

\* What call c weighs in month m.
Weight(c, m) == IF calls[c].month = m THEN InMemory(c) ELSE 0

\* One call changes its weight in memory, by what its record changes at least.
LEMMA OneMoves ==
  ASSUME LedgerTypes, LedgerTypes', SumsOK, NEW c \in Calls, NEW m \in Months,
         \A d \in Calls : d # c => Weight(d, m)' = Weight(d, m),
         c \in PricedCalls =>
           memory[m].spent["openai"] - Weight(c, m) + Weight(c, m)' <= memory'[m].spent["openai"],
         c \notin PricedCalls => memory'[m].spent["openai"] = memory[m].spent["openai"],
         c \in GoogleCalls => memory[m].units - Weight(c, m) + Weight(c, m)' <= memory'[m].units,
         c \notin GoogleCalls => memory'[m].units = memory[m].units
  PROVE  /\ SumOf(MemoryOf(PricedCalls, m)', PricedCalls) <= memory'[m].spent["openai"]
         /\ SumOf(MemoryOf(GoogleCalls, m)', GoogleCalls) <= memory'[m].units
<1>1. \A cs \in {PricedCalls, GoogleCalls} : cs \subseteq Calls /\ IsFiniteSet(cs) /\ MemoryOf(cs, m) \in [cs -> Int]
  BY WeightsTyped
<1>2. \A cs \in {PricedCalls, GoogleCalls} : MemoryOf(cs, m)' \in [cs -> Int]
  <2>1. \A d \in Calls : calls'[d].want \in Nat /\ calls'[d].cost \in Nat BY DEF LedgerTypes, CallRecords
  <2>2. \A d \in Calls : InMemory(d)' \in Nat BY <2>1 DEF InMemory
  <2> QED BY <2>2, <1>1 DEF MemoryOf
<1>3. /\ memory[m].spent["openai"] \in Int /\ memory[m].units \in Int
      /\ memory'[m].spent["openai"] \in Int /\ memory'[m].units \in Int
  <2>1. memory[m] \in Records /\ memory'[m] \in Records BY DEF LedgerTypes
  <2> QED BY <2>1 DEF Records, Providers
<1>4. /\ SumOf(MemoryOf(PricedCalls, m), PricedCalls) <= memory[m].spent["openai"]
      /\ SumOf(MemoryOf(GoogleCalls, m), GoogleCalls) <= memory[m].units
  BY DEF SumsOK
<1>5. \A cs \in {PricedCalls, GoogleCalls} : \A d \in cs : MemoryOf(cs, m)[d] = Weight(d, m)
  BY DEF MemoryOf, Weight
<1>6. \A cs \in {PricedCalls, GoogleCalls} : \A d \in cs : MemoryOf(cs, m)'[d] = Weight(d, m)'
  BY DEF MemoryOf, Weight
<1>7. ASSUME NEW cs \in {PricedCalls, GoogleCalls}, NEW n \in Int, NEW k \in Int,
             SumOf(MemoryOf(cs, m), cs) <= n,
             c \in cs => n - Weight(c, m) + Weight(c, m)' <= k,
             c \notin cs => n = k
      PROVE  SumOf(MemoryOf(cs, m)', cs) <= k
  <2> DEFINE v == MemoryOf(cs, m)'
             w == MemoryOf(cs, m)
  <2>1. /\ v \in [cs -> Int] /\ w \in [cs -> Int] /\ IsFiniteSet(cs) /\ SumOf(w, cs) <= n
        /\ \A d \in cs : d # c => v[d] = w[d]
        /\ c \in cs => n - w[c] + v[c] <= k
    BY <1>1, <1>2, <1>5, <1>6, <1>7
  <2> HIDE DEF v, w
  <2>2. CASE c \in cs
    <3>1. n - w[c] + v[c] <= k /\ \A d \in cs \ {c} : v[d] = w[d] BY <2>1, <2>2
    <3>2. SumOf(v, cs) <= k BY <2>1, <2>2, <3>1, SumMoves
    <3> QED BY <3>2 DEF v
  <2>3. CASE c \notin cs
    <3>1. \A d \in cs : v[d] <= w[d] BY <2>1, <2>3
    <3>2. SumOf(v, cs) <= n BY <2>1, <3>1, SumFalls
    <3> QED BY <1>7, <2>3, <3>2 DEF v
  <2> QED BY <2>2, <2>3
<1> QED BY <1>3, <1>4, <1>7

\* No call gets more weight on file.
LEMMA FileKept ==
  ASSUME LedgerTypes, LedgerTypes', SumsOK, NEW m \in Months, file' = file,
         \A c \in Calls : OnFile(c)' <= OnFile(c) /\ (OnFile(c)' = 0 \/ calls'[c].month = calls[c].month)
  PROVE  /\ SumOf(FileOf(PricedCalls, m)', PricedCalls) <= file'[m].spent["openai"]
         /\ SumOf(FileOf(GoogleCalls, m)', GoogleCalls) <= file'[m].units
<1>1. \A cs \in {PricedCalls, GoogleCalls} : /\ cs \subseteq Calls /\ IsFiniteSet(cs) /\ FileOf(cs, m) \in [cs -> Int]
                                            /\ \A c \in cs : FileOf(cs, m)[c] >= 0
  BY WeightsTyped
<1>2. \A cs \in {PricedCalls, GoogleCalls} : FileOf(cs, m)' \in [cs -> Int]
  <2>1. \A d \in Calls : calls'[d].want \in Nat /\ calls'[d].cost \in Nat BY DEF LedgerTypes, CallRecords
  <2>2. \A d \in Calls : OnFile(d)' \in Nat BY <2>1 DEF OnFile
  <2> QED BY <2>2, <1>1 DEF FileOf
<1>3. file[m].spent["openai"] \in Int /\ file[m].units \in Int
  <2>1. file[m] \in Records BY DEF LedgerTypes
  <2> QED BY <2>1 DEF Records, Providers
<1>4. /\ SumOf(FileOf(PricedCalls, m), PricedCalls) <= file[m].spent["openai"]
      /\ SumOf(FileOf(GoogleCalls, m), GoogleCalls) <= file[m].units
  BY DEF SumsOK
<1>5. \A cs \in {PricedCalls, GoogleCalls} : \A c \in cs : FileOf(cs, m)'[c] <= FileOf(cs, m)[c]
  <2> SUFFICES ASSUME NEW cs \in {PricedCalls, GoogleCalls}, NEW c \in cs PROVE FileOf(cs, m)'[c] <= FileOf(cs, m)[c]
    OBVIOUS
  <2>1. c \in Calls /\ FileOf(cs, m)[c] >= 0 /\ FileOf(cs, m)[c] \in Int BY <1>1
  <2>2. OnFile(c)' <= OnFile(c) /\ (OnFile(c)' = 0 \/ calls'[c].month = calls[c].month) BY <2>1
  <2>3. /\ FileOf(cs, m)[c] = IF calls[c].month = m THEN OnFile(c) ELSE 0
        /\ FileOf(cs, m)'[c] = IF calls'[c].month = m THEN OnFile(c)' ELSE 0
    BY DEF FileOf
  <2> QED BY <2>1, <2>2, <2>3
<1> QED BY <1>1, <1>2, <1>3, <1>4, <1>5, SumFalls

LEMMA ReserveSafe ==
  ASSUME LedgerInv, ReserveCost
  PROVE  LedgerInv'
<1>t. LedgerTypes /\ QueueOK /\ CallsOK /\ SumsOK /\ LimitsOK BY DEF LedgerInv
<1>0. PICK c \in Calls : c = Head(queue).call
  BY <1>t, HeadIs DEF ReserveCost, Serving, Books
<1>1. /\ queue # <<>> /\ ~writing /\ Head(queue).op = "reserve" /\ WithinBudget(c) /\ memory' = Booked(c)
      /\ calls' = [calls EXCEPT ![c].month = month, ![c].held = Added(c)]
      /\ writing' = TRUE /\ UNCHANGED <<file, queue, broken, flush, timer, month>>
  BY <1>0 DEF ReserveCost, Serving
<1>2. c \in Calls /\ calls[c].phase = "asking" BY <1>0, <1>1, <1>t, HeadIs DEF Books
<1>c. calls \in [Calls -> CallRecords] /\ month \in Months BY <1>t DEF LedgerTypes
<1>3. /\ memory' \in [Months -> Records]
      /\ \A m \in Months : m # month => memory'[m] = memory[m]
      /\ memory'[month].spent[Provider(c)] = memory[month].spent[Provider(c)] + Added(c)
      /\ \A p \in Providers : p # Provider(c) => memory'[month].spent[p] = memory[month].spent[p]
      /\ memory'[month].units = IF c \in GoogleCalls THEN memory[month].units + calls[c].want ELSE memory[month].units
      /\ Added(c) \in Nat /\ (c \in PricedCalls => Added(c) = calls[c].want)
      /\ Within(memory'[month])
  BY <1>1, <1>2, <1>t, Reserved
<1>4. /\ calls' \in [Calls -> CallRecords]
      /\ calls'[c].phase = "asking" /\ calls'[c].want = calls[c].want /\ calls'[c].cost = calls[c].cost
      /\ calls'[c].month = month /\ calls'[c].held = Added(c)
      /\ \A d \in Calls : d # c => calls'[d] = calls[d]
  BY <1>1, <1>2, <1>3, <1>c, LedgerValues DEF CallRecords
<1>5. LedgerTypes' BY <1>1, <1>3, <1>4, <1>t DEF LedgerTypes
<1>6. QueueOK'
  <2>1. ChainOf(queue, calls')
    <3>1. \A d \in Calls : calls'[d].phase = calls[d].phase /\ calls'[d].cost = calls[d].cost BY <1>2, <1>4
    <3> QED BY <3>1, <1>t DEF QueueOK, ChainOf, Books
  <2> QED BY <2>1, <1>1 DEF QueueOK
<1>7. \A d : /\ ~BookedNow(d) /\ ~SettledNow(d) /\ ~SettledNow(d)'
             /\ BookedNow(d)' <=> d = c
  BY <1>0, <1>1 DEF BookedNow, SettledNow, Busy, SelectOp
<1>8. CallsOK' BY <1>2, <1>3, <1>4, <1>7, <1>c, <1>t DEF CallsOK
<1>9. LimitsOK' BY <1>1, <1>3, <1>c, <1>t DEF LimitsOK
<1>10. /\ InMemory(c) = 0 /\ OnFile(c) = 0 /\ InMemory(c)' = calls[c].want /\ OnFile(c)' = 0
       /\ \A d \in Calls : d # c => InMemory(d)' = InMemory(d) /\ OnFile(d)' = OnFile(d)
  <2>1. ~BookedNow(c) /\ BookedNow(c)' BY <1>7
  <2>2. InMemory(c) = 0 /\ OnFile(c) = 0 BY <1>2, <2>1 DEF InMemory, OnFile
  <2>3. InMemory(c)' = calls'[c].want BY <2>1 DEF InMemory
  <2>4. OnFile(c)' = 0 BY <1>4 DEF OnFile
  <2>5. ASSUME NEW d \in Calls, d # c PROVE InMemory(d)' = InMemory(d) /\ OnFile(d)' = OnFile(d)
    <3>1. ~BookedNow(d) /\ ~BookedNow(d)' /\ ~SettledNow(d) /\ ~SettledNow(d)' BY <1>7, <2>5
    <3>2. calls'[d] = calls[d] BY <1>4, <2>5
    <3> QED BY <3>1, <3>2 DEF InMemory, OnFile
  <2> QED BY <2>2, <2>3, <2>4, <2>5, <1>4
<1>v. calls[c] \in CallRecords /\ calls[c].want \in Nat BY <1>2, <1>c DEF CallRecords
<1>11. ASSUME NEW m \in Months
       PROVE /\ SumOf(MemoryOf(PricedCalls, m)', PricedCalls) <= memory'[m].spent["openai"]
             /\ SumOf(MemoryOf(GoogleCalls, m)', GoogleCalls) <= memory'[m].units
             /\ SumOf(FileOf(PricedCalls, m)', PricedCalls) <= file'[m].spent["openai"]
             /\ SumOf(FileOf(GoogleCalls, m)', GoogleCalls) <= file'[m].units
  <2>1. \A d \in Calls : OnFile(d)' <= OnFile(d) /\ (OnFile(d)' = 0 \/ calls'[d].month = calls[d].month)
    <3>1. \A d \in Calls : OnFile(d) \in Nat BY <1>c DEF OnFile, CallRecords
    <3> QED BY <3>1, <1>4, <1>10
  <2>2. \A d \in Calls : d # c => Weight(d, m)' = Weight(d, m) BY <1>4, <1>10 DEF Weight
  <2>3. Weight(c, m) = 0 /\ Weight(c, m)' = IF m = month THEN calls[c].want ELSE 0
    BY <1>4, <1>10 DEF Weight
  <2>4. memory[m].spent \in [Providers -> Nat] /\ memory[m].units \in Nat
    <3>1. memory[m] \in Records BY <1>t DEF LedgerTypes
    <3> QED BY <3>1 DEF Records
  <2>5. c \in PricedCalls =>
          memory[m].spent["openai"] - Weight(c, m) + Weight(c, m)' <= memory'[m].spent["openai"]
    <3>1. c \in PricedCalls => Provider(c) = "openai" BY LedgerParameters DEF LedgerParameters, Provider
    <3> QED BY <3>1, <2>3, <2>4, <1>3, <1>v DEF Providers
  <2>6. c \notin PricedCalls => memory'[m].spent["openai"] = memory[m].spent["openai"]
    BY <1>2, <1>3 DEF Provider, Calls, Providers
  <2>7. /\ c \in GoogleCalls => memory[m].units - Weight(c, m) + Weight(c, m)' <= memory'[m].units
        /\ c \notin GoogleCalls => memory'[m].units = memory[m].units
    BY <2>3, <2>4, <1>3, <1>v
  <2>8. /\ SumOf(MemoryOf(PricedCalls, m)', PricedCalls) <= memory'[m].spent["openai"]
        /\ SumOf(MemoryOf(GoogleCalls, m)', GoogleCalls) <= memory'[m].units
    BY <1>t, <1>5, <2>2, <2>5, <2>6, <2>7, OneMoves
  <2>9. /\ SumOf(FileOf(PricedCalls, m)', PricedCalls) <= file'[m].spent["openai"]
        /\ SumOf(FileOf(GoogleCalls, m)', GoogleCalls) <= file'[m].units
    BY <1>t, <1>1, <1>5, <2>1, FileKept
  <2> QED BY <2>8, <2>9
<1>12. SumsOK' BY <1>11 DEF SumsOK
<1> QED BY <1>5, <1>6, <1>8, <1>9, <1>12 DEF LedgerInv

\* What a settlement does to the record of the call's month.
LEMMA SettledWell ==
  ASSUME LedgerTypes, CallsOK, SumsOK, LimitsOK, NEW c \in Calls, calls[c].phase = "settling", ~SettledNow(c),
         ~BookedNow(c)
  PROVE  LET m == calls[c].month
             q == SettledRecord(c, calls[c].cost)
         IN /\ m \in Months /\ q \in Records /\ Within(q)
            /\ q.spent["openai"] >= memory[m].spent["openai"] -
                 IF c \in PricedCalls THEN calls[c].want - calls[c].cost ELSE 0
            /\ c \notin PricedCalls => q.spent["openai"] = memory[m].spent["openai"]
            /\ c \in GoogleCalls => q.units >= memory[m].units - (calls[c].want - calls[c].cost)
            /\ c \notin GoogleCalls => q.units = memory[m].units
<1> DEFINE m == calls[c].month
           r == memory[m]
           k == calls[c].cost
           w == calls[c].want
           h == calls[c].held
<1>c. calls[c] \in CallRecords BY DEF LedgerTypes
<1>1. /\ m \in Months /\ k <= w /\ (c \in PricedCalls => h = w)
      /\ k \in Nat /\ w \in Nat /\ h \in Nat
  BY <1>c DEF CallsOK, CallRecords
<1>2. r \in Records BY <1>1 DEF LedgerTypes
<1>3. r.units \in Nat /\ r.spent \in [Providers -> Nat] /\ r.alerts \in [Thresholds -> AlertStates]
      /\ r.spent["openai"] \in Nat /\ r.spent["google"] \in Nat
  BY <1>2 DEF Records, Providers
<1>4. Within(r) BY <1>1 DEF LimitsOK
<1>5. CASE c \in GoogleCalls
  <2> DEFINE after == Most(0, r.units - (w - k))
             back == Returnable(c, r.units, after)
             al == [t \in Thresholds |-> IF t \in Raised(r, after) THEN "pending" ELSE r.alerts[t]]
             q == SettledRecord(c, k)
  <2>1. after \in Nat /\ after <= r.units /\ after >= r.units - (w - k) BY <1>1, <1>3 DEF Most
  <2>2. Price(after) \in Nat /\ Price(r.units) \in Nat /\ Price(after) <= Price(r.units)
    BY <1>3, <2>1, Prices
  <2>3. back \in Int /\ 0 <= back /\ back <= Price(r.units) - Price(after)
    <3> HIDE DEF after
    <3> QED BY <1>1, <2>2 DEF Returnable, Fewest
  <2>4. al \in [Thresholds -> AlertStates] BY <1>3 DEF AlertStates
  <2> DEFINE sp == [r.spent EXCEPT !["google"] = Most(0, @ - back)]
  <2>5. /\ sp \in [Providers -> Nat] /\ sp["openai"] = r.spent["openai"]
        /\ sp["google"] <= r.spent["google"] /\ sp["google"] >= r.spent["google"] - back
    <3> HIDE DEF back
    <3>1. Most(0, r.spent["google"] - back) \in Nat BY <1>3, <2>3 DEF Most
    <3>2. /\ Most(0, r.spent["google"] - back) <= r.spent["google"]
          /\ Most(0, r.spent["google"] - back) >= r.spent["google"] - back
      BY <1>3, <2>3 DEF Most
    <3>3. "google" \in Providers /\ "openai" \in Providers BY DEF Providers
    <3> QED BY <1>3, <3>1, <3>2, <3>3
  <2>6. q = [r EXCEPT !.units = after, !.spent = sp, !.alerts = al]
    BY <1>5, <1>2 DEF SettledRecord, SettledGoogle, SettlingMonth, Records
  <2>7. q \in Records /\ q.units = after /\ q.spent = sp
    <3> HIDE DEF after, sp, al, r, q
    <3> QED BY <1>2, <2>1, <2>4, <2>5, <2>6 DEF Records
  <2>8. Within(q)
    <3>1. Price(r.units) <= r.spent["google"] /\ \A p \in Providers : r.spent[p] <= Limit(p) BY <1>4 DEF Within
    <3>2. sp["google"] \in Nat /\ sp["openai"] \in Nat BY <2>5 DEF Providers
    <3>3. Price(after) <= sp["google"]
      <4> HIDE DEF after, sp, back
      <4> QED BY <2>2, <2>3, <2>5, <3>1, <3>2, <1>3
    <3>4. Limit("google") \in Nat /\ Limit("openai") \in Nat BY LedgerValues DEF Limit
    <3>5. \A p \in Providers : sp[p] <= Limit(p)
      <4> HIDE DEF sp
      <4>1. sp["google"] <= Limit("google") BY <2>5, <3>1, <3>2, <3>4, <1>3 DEF Providers
      <4>2. sp["openai"] <= Limit("openai") BY <2>5, <3>1 DEF Providers
      <4> QED BY <4>1, <4>2 DEF Providers
    <3> QED BY <2>7, <3>3, <3>5 DEF Within
  <2>9. c \notin PricedCalls BY <1>5, LedgerParameters DEF LedgerParameters
  <2> HIDE DEF after, sp, q
  <2>10. q.spent["openai"] >= r.spent["openai"] - 0 BY <2>5, <2>7, <1>3
  <2> QED BY <1>1, <1>5, <2>1, <2>5, <2>7, <2>8, <2>9, <2>10 DEF q
<1>6. CASE c \notin GoogleCalls
  <2> DEFINE x == Most(0, r.spent["openai"] - h + k)
             sp == [r.spent EXCEPT !["openai"] = x]
             q == SettledRecord(c, k)
  <2>1. c \in PricedCalls /\ h = w BY <1>1, <1>6 DEF Calls
  <2>2. x \in Nat /\ x <= r.spent["openai"] /\ x >= r.spent["openai"] - (w - k)
    BY <1>1, <1>3, <2>1 DEF Most
  <2>3. q = [r EXCEPT !.spent = sp] BY <1>6, <1>2 DEF SettledRecord, SettledPriced, SettlingMonth, Records
  <2>4. sp \in [Providers -> Nat] /\ sp["openai"] = x /\ sp["google"] = r.spent["google"]
    <3> HIDE DEF x
    <3>1. "google" \in Providers /\ "openai" \in Providers BY DEF Providers
    <3> QED BY <1>3, <2>2, <3>1
  <2>5. q \in Records /\ q.units = r.units /\ q.spent = sp
    <3> HIDE DEF sp, r, q
    <3> QED BY <1>2, <2>3, <2>4 DEF Records
  <2>6. Within(q)
    <3>1. Price(r.units) <= r.spent["google"] /\ \A p \in Providers : r.spent[p] <= Limit(p) BY <1>4 DEF Within
    <3>2. Limit("google") \in Nat /\ Limit("openai") \in Nat BY LedgerValues DEF Limit
    <3>3. \A p \in Providers : sp[p] <= Limit(p)
      <4> HIDE DEF sp, x
      <4> QED BY <2>2, <2>4, <3>1, <3>2, <1>3 DEF Providers
    <3> QED BY <2>4, <2>5, <3>1, <3>3 DEF Within
  <2> HIDE DEF x, sp, q
  <2> QED BY <1>1, <1>6, <2>1, <2>2, <2>4, <2>5, <2>6 DEF q
<1> QED BY <1>5, <1>6

LEMMA SettleSafe ==
  ASSUME LedgerInv, Settle
  PROVE  LedgerInv'
<1>t. LedgerTypes /\ QueueOK /\ CallsOK /\ SumsOK /\ LimitsOK BY DEF LedgerInv
<1>0. PICK c \in Calls : c = Head(queue).call
  BY <1>t, HeadIs DEF Settle, Serving, Books
<1>1. /\ queue # <<>> /\ ~writing /\ Head(queue).op = "settle" /\ calls[c].phase = "settling"
      /\ Head(queue).actual = calls[c].cost
      /\ writing' = TRUE /\ UNCHANGED <<file, queue, broken, calls, flush, timer, month>>
  BY <1>0, <1>t, HeadIs DEF Settle, Serving
<1>2. /\ \A d : ~BookedNow(d) /\ ~SettledNow(d) /\ ~BookedNow(d)'
      /\ \A d : SettledNow(d)' <=> d = c
  BY <1>0, <1>1 DEF BookedNow, SettledNow, Busy, SelectOp
<1>3. PICK M, q : M = calls[c].month /\ q = SettledRecord(c, calls[c].cost) OBVIOUS
<1>4. memory' = [memory EXCEPT ![M] = q] BY <1>0, <1>1, <1>3 DEF Settle, Serving, SettlingMonth
<1>5. /\ M \in Months /\ q \in Records /\ Within(q)
      /\ q.spent["openai"] >= memory[M].spent["openai"] -
           IF c \in PricedCalls THEN calls[c].want - calls[c].cost ELSE 0
      /\ c \notin PricedCalls => q.spent["openai"] = memory[M].spent["openai"]
      /\ c \in GoogleCalls => q.units >= memory[M].units - (calls[c].want - calls[c].cost)
      /\ c \notin GoogleCalls => q.units = memory[M].units
  BY <1>t, <1>1, <1>2, <1>3, SettledWell
<1>6. memory' \in [Months -> Records] /\ memory'[M] = q /\ \A m \in Months : m # M => memory'[m] = memory[m]
  BY <1>4, <1>5, <1>t DEF LedgerTypes
<1>7. LedgerTypes' BY <1>1, <1>6, <1>t DEF LedgerTypes
<1>8. QueueOK' BY <1>1, <1>t DEF QueueOK
<1>9. CallsOK' BY <1>1, <1>2, <1>t DEF CallsOK
<1>10. LimitsOK' BY <1>1, <1>5, <1>6, <1>t DEF LimitsOK
<1>11. /\ InMemory(c) = calls[c].want /\ InMemory(c)' = calls[c].cost
       /\ \A d \in Calls : OnFile(d)' = OnFile(d)
       /\ \A d \in Calls : d # c => InMemory(d)' = InMemory(d)
  <2>1. ~BookedNow(c) /\ ~BookedNow(c)' /\ ~SettledNow(c) /\ SettledNow(c)' BY <1>2
  <2>2. \A d \in Calls : d # c => ~BookedNow(d) /\ ~BookedNow(d)' /\ ~SettledNow(d) /\ ~SettledNow(d)' BY <1>2
  <2>3. InMemory(c) = calls[c].want /\ InMemory(c)' = calls[c].cost BY <1>1, <2>1 DEF InMemory
  <2>4. \A d \in Calls : OnFile(d)' = OnFile(d) BY <1>1 DEF OnFile
  <2>5. \A d \in Calls : d # c => InMemory(d)' = InMemory(d) BY <1>1, <2>2 DEF InMemory
  <2> QED BY <2>3, <2>4, <2>5
<1>12. calls[c].want \in Nat /\ calls[c].cost \in Nat /\ \A d \in Calls : OnFile(d) \in Nat
  BY <1>t DEF LedgerTypes, CallRecords, OnFile
<1>13. ASSUME NEW m \in Months
       PROVE /\ SumOf(MemoryOf(PricedCalls, m)', PricedCalls) <= memory'[m].spent["openai"]
             /\ SumOf(MemoryOf(GoogleCalls, m)', GoogleCalls) <= memory'[m].units
             /\ SumOf(FileOf(PricedCalls, m)', PricedCalls) <= file'[m].spent["openai"]
             /\ SumOf(FileOf(GoogleCalls, m)', GoogleCalls) <= file'[m].units
  <2>1. \A d \in Calls : OnFile(d)' <= OnFile(d) /\ (OnFile(d)' = 0 \/ calls'[d].month = calls[d].month)
    BY <1>1, <1>11, <1>12
  <2>2. \A d \in Calls : d # c => Weight(d, m)' = Weight(d, m) BY <1>1, <1>11 DEF Weight
  <2>3. /\ Weight(c, m) = IF m = M THEN calls[c].want ELSE 0
        /\ Weight(c, m)' = IF m = M THEN calls[c].cost ELSE 0
    BY <1>1, <1>3, <1>11 DEF Weight
  <2>4. /\ memory[m].spent["openai"] \in Nat /\ memory[m].units \in Nat
        /\ memory'[m].spent["openai"] \in Nat /\ memory'[m].units \in Nat
    <3>1. memory[m] \in Records /\ memory'[m] \in Records BY <1>t, <1>6 DEF LedgerTypes
    <3> QED BY <3>1 DEF Records, Providers
  <2>5. c \in PricedCalls =>
          memory[m].spent["openai"] - Weight(c, m) + Weight(c, m)' <= memory'[m].spent["openai"]
    BY <2>3, <2>4, <1>5, <1>6, <1>12
  <2>6. c \notin PricedCalls => memory'[m].spent["openai"] = memory[m].spent["openai"] BY <1>5, <1>6
  <2>7. /\ c \in GoogleCalls => memory[m].units - Weight(c, m) + Weight(c, m)' <= memory'[m].units
        /\ c \notin GoogleCalls => memory'[m].units = memory[m].units
    BY <2>3, <2>4, <1>5, <1>6, <1>12
  <2>8. /\ SumOf(MemoryOf(PricedCalls, m)', PricedCalls) <= memory'[m].spent["openai"]
        /\ SumOf(MemoryOf(GoogleCalls, m)', GoogleCalls) <= memory'[m].units
    BY <1>t, <1>7, <2>2, <2>5, <2>6, <2>7, OneMoves
  <2>9. /\ SumOf(FileOf(PricedCalls, m)', PricedCalls) <= file'[m].spent["openai"]
        /\ SumOf(FileOf(GoogleCalls, m)', GoogleCalls) <= file'[m].units
    BY <1>t, <1>1, <1>7, <2>1, FileKept
  <2> QED BY <2>8, <2>9
<1>14. SumsOK' BY <1>13 DEF SumsOK
<1> QED BY <1>7, <1>8, <1>9, <1>10, <1>14 DEF LedgerInv

\* Every weight in memory and on file fits what is then in both.
LEMMA Carried ==
  ASSUME LedgerTypes', NEW w \in [Calls -> Int], NEW m \in Months,
         \A c \in Calls : /\ (IF calls'[c].month = m THEN InMemory(c)' ELSE 0) <= w[c]
                          /\ (IF calls'[c].month = m THEN OnFile(c)' ELSE 0) <= w[c],
         NEW a \in Int, SumOf([c \in PricedCalls |-> w[c]], PricedCalls) <= a,
         NEW b \in Int, SumOf([c \in GoogleCalls |-> w[c]], GoogleCalls) <= b
  PROVE  /\ SumOf(MemoryOf(PricedCalls, m)', PricedCalls) <= a
         /\ SumOf(MemoryOf(GoogleCalls, m)', GoogleCalls) <= b
         /\ SumOf(FileOf(PricedCalls, m)', PricedCalls) <= a
         /\ SumOf(FileOf(GoogleCalls, m)', GoogleCalls) <= b
<1>1. \A c \in Calls : InMemory(c)' \in Nat /\ OnFile(c)' \in Nat
  <2>1. \A c \in Calls : calls'[c].want \in Nat /\ calls'[c].cost \in Nat BY DEF LedgerTypes, CallRecords
  <2> QED BY <2>1 DEF InMemory, OnFile
<1>2. ASSUME NEW cs \in {PricedCalls, GoogleCalls}, NEW n \in Int, SumOf([c \in cs |-> w[c]], cs) <= n
      PROVE  SumOf(MemoryOf(cs, m)', cs) <= n /\ SumOf(FileOf(cs, m)', cs) <= n
  <2> DEFINE x == MemoryOf(cs, m)'
             y == FileOf(cs, m)'
             z == [c \in cs |-> w[c]]
  <2>1. cs \subseteq Calls /\ IsFiniteSet(cs) BY LedgerValues DEF Calls
  <2>2. x \in [cs -> Int] /\ y \in [cs -> Int] BY <1>1, <2>1 DEF MemoryOf, FileOf
  <2>3. z \in [cs -> Int] BY <2>1
  <2>4. \A c \in cs : x[c] <= z[c] /\ y[c] <= z[c] BY <2>1 DEF MemoryOf, FileOf
  <2>5. SumOf(z, cs) <= n BY <1>2
  <2> HIDE DEF x, y, z
  <2>6. SumOf(x, cs) <= n /\ SumOf(y, cs) <= n BY <2>1, <2>2, <2>3, <2>4, <2>5, SumFalls
  <2> QED BY <2>6 DEF x, y
<1> QED BY <1>2

\* The write is done: what was in memory is on file, and the head's caller goes on.
LEMMA WrittenSafe ==
  ASSUME LedgerInv, Written
  PROVE  LedgerInv'
<1>t. LedgerTypes /\ QueueOK /\ CallsOK /\ SumsOK /\ LimitsOK BY DEF LedgerInv
<1>0. PICK o \in Ops : o = Head(queue) BY <1>t, HeadIs DEF Written, QueueOK
<1>1. /\ writing /\ queue # <<>> /\ file' = memory /\ memory' = memory /\ writing' = FALSE
      /\ broken' = broken /\ month' = month
  BY <1>t DEF Written, QueueOK
<1>c. calls \in [Calls -> CallRecords] /\ queue \in Seq(Ops) /\ Tail(queue) \in Seq(Ops)
  BY <1>t, <1>1, HeadIs DEF LedgerTypes
<1>h. /\ o.op \in Books => o.call \in Calls
      /\ o.op = "reserve" => calls[o.call].phase = "asking"
      /\ o.op = "settle" => calls[o.call].phase = "settling"
  BY <1>0, <1>1, <1>t, HeadIs
<1>2. \A d : /\ BookedNow(d) <=> o.op = "reserve" /\ d = o.call
             /\ SettledNow(d) <=> o.op = "settle" /\ d = o.call
             /\ ~BookedNow(d)' /\ ~SettledNow(d)'
  BY <1>0, <1>1 DEF BookedNow, SettledNow, Busy, SelectOp
\* What became of the call at the head.
<1>3. /\ calls' \in [Calls -> CallRecords]
      /\ \A d \in Calls : o.op \notin Books \/ d # o.call => calls'[d] = calls[d]
      /\ o.op \in Books =>
           /\ calls'[o.call].month = calls[o.call].month /\ calls'[o.call].want = calls[o.call].want
           /\ calls'[o.call].held = calls[o.call].held
      /\ o.op = "reserve" => calls'[o.call].phase = "calling" /\ calls'[o.call].cost <= calls[o.call].want
      /\ o.op = "settle" => calls'[o.call].phase = "over" /\ calls'[o.call].cost = calls[o.call].cost
  <2>1. CASE o.op = "reserve"
    <3>1. PICK n \in 0..calls[o.call].want :
            calls' = [calls EXCEPT ![o.call].phase = "calling", ![o.call].cost = n]
      BY <2>1, <1>0 DEF Written, AfterWrite, Serving
    <3>2. o.call \in Calls BY <2>1, <1>h DEF Books
    <3>3. calls[o.call] \in CallRecords /\ calls[o.call].want \in Nat BY <3>2, <1>c DEF CallRecords
    <3>4. n \in Nat /\ n <= calls[o.call].want BY <3>3
    <3> DEFINE r == [calls[o.call] EXCEPT !.phase = "calling", !.cost = n]
    <3>5. r \in CallRecords /\ r.phase = "calling" /\ r.cost = n /\ r.month = calls[o.call].month
          /\ r.want = calls[o.call].want /\ r.held = calls[o.call].held
      BY <3>3, <3>4 DEF CallRecords, CallPhases
    <3>6. calls' = [calls EXCEPT ![o.call] = r] BY <3>1
    <3> HIDE DEF r
    <3>7. calls'[o.call] = r /\ calls' \in [Calls -> CallRecords] /\ \A d \in Calls : d # o.call => calls'[d] = calls[d]
      BY <3>2, <3>5, <3>6, <1>c
    <3> QED BY <2>1, <3>4, <3>5, <3>7 DEF Books
  <2>2. CASE o.op = "settle"
    <3>1. calls' = [calls EXCEPT ![o.call].phase = "over"] BY <2>2, <1>0 DEF Written, AfterWrite, Serving
    <3>2. o.call \in Calls BY <2>2, <1>h DEF Books
    <3>3. calls[o.call] \in CallRecords BY <3>2, <1>c
    <3> DEFINE r == [calls[o.call] EXCEPT !.phase = "over"]
    <3>5. r \in CallRecords /\ r.phase = "over" /\ r.cost = calls[o.call].cost /\ r.month = calls[o.call].month
          /\ r.want = calls[o.call].want /\ r.held = calls[o.call].held
      BY <3>3 DEF CallRecords, CallPhases
    <3>6. calls' = [calls EXCEPT ![o.call] = r] BY <3>1
    <3> HIDE DEF r
    <3>7. calls'[o.call] = r /\ calls' \in [Calls -> CallRecords] /\ \A d \in Calls : d # o.call => calls'[d] = calls[d]
      BY <3>2, <3>5, <3>6, <1>c
    <3> QED BY <2>2, <3>5, <3>7 DEF Books
  <2>3. CASE o.op \notin Books
    <3>1. calls' = calls BY <2>3, <1>0 DEF Written, AfterWrite, Serving, Books
    <3> QED BY <2>3, <3>1, <1>c DEF Books
  <2> QED BY <2>1, <2>2, <2>3 DEF Books
<1>4. /\ queue' = Tail(queue) \/ queue' = Append(Tail(queue), SelectOp)
      /\ flush' \in [phase : FlushPhases, alert : Alerts \union {NoAlert}, accepted : BOOLEAN]
      /\ timer' \in BOOLEAN
  <2>1. /\ flush \in [phase : FlushPhases, alert : Alerts \union {NoAlert}, accepted : BOOLEAN]
        /\ timer \in BOOLEAN
    BY <1>t DEF LedgerTypes
  <2>2. /\ queue' = Tail(queue) \/ queue' = Append(Tail(queue), SelectOp)
        /\ \/ flush' = flush
           \/ flush' = [flush EXCEPT !.phase = IF flush.alert = NoAlert THEN "idle" ELSE "sending"]
           \/ \E ph \in FlushPhases : flush' = [phase |-> ph, alert |-> NoAlert, accepted |-> FALSE]
        /\ timer' = timer \/ timer' = FALSE \/ timer' = RetryLater
    BY DEF Written, AfterWrite, Flushed, FlushPhases
  <2>3. RetryLater \in BOOLEAN BY DEF RetryLater
  <2>4. [flush EXCEPT !.phase = IF flush.alert = NoAlert THEN "idle" ELSE "sending"]
          \in [phase : FlushPhases, alert : Alerts \union {NoAlert}, accepted : BOOLEAN]
    BY <2>1 DEF FlushPhases
  <2>5. \A ph \in FlushPhases : [phase |-> ph, alert |-> NoAlert, accepted |-> FALSE]
          \in [phase : FlushPhases, alert : Alerts \union {NoAlert}, accepted : BOOLEAN]
    OBVIOUS
  <2> QED BY <2>1, <2>2, <2>3, <2>4, <2>5
<1>5. queue' \in Seq(Ops) /\ ChainOf(queue', calls')
  <2>1. ChainOf(Tail(queue), calls') BY <1>0, <1>1, <1>3, <1>c, <1>t, ChainServed DEF QueueOK
  <2>2. SelectOp \in Ops /\ SelectOp.op \notin Books BY DEF SelectOp, Ops, Books
  <2>3. Append(Tail(queue), SelectOp) \in Seq(Ops) /\ ChainOf(Append(Tail(queue), SelectOp), calls')
    <3> HIDE DEF SelectOp
    <3>1. PICK q, cl : q = Tail(queue) /\ cl = calls' OBVIOUS
    <3> QED BY <3>1, <2>1, <2>2, <1>c, ChainGrows
  <2> QED BY <2>1, <2>3, <1>4, <1>c
<1>6. LedgerTypes' BY <1>1, <1>3, <1>4, <1>5, <1>t DEF LedgerTypes
<1>7. QueueOK' BY <1>1, <1>5 DEF QueueOK
<1>8. CallsOK'
  <2> SUFFICES ASSUME NEW d \in Calls
               PROVE /\ calls'[d].phase \in {"calling", "settling", "over"} =>
                          calls'[d].month \in Months /\ calls'[d].cost <= calls'[d].want
                     /\ calls'[d].phase \in {"calling", "settling"} =>
                          calls'[d].month \in Months /\ (d \in PricedCalls => calls'[d].held = calls'[d].want)
    BY <1>2 DEF CallsOK
  <2>1. CASE o.op = "reserve" /\ d = o.call
    <3>1. calls[d].month \in Months /\ (d \in PricedCalls => calls[d].held = calls[d].want)
      BY <2>1, <1>2, <1>t DEF CallsOK
    <3> QED BY <2>1, <3>1, <1>3 DEF Books
  <2>2. CASE o.op = "settle" /\ d = o.call
    <3>1. calls[d].month \in Months /\ calls[d].cost <= calls[d].want BY <2>2, <1>h, <1>t DEF CallsOK, Books
    <3> QED BY <2>2, <3>1, <1>3 DEF Books
  <2>3. CASE o.op \notin Books \/ d # o.call
    <3>1. calls'[d] = calls[d] BY <2>3, <1>3
    <3> QED BY <3>1, <1>t DEF CallsOK
  <2> QED BY <2>1, <2>2, <2>3 DEF Books
<1>9. LimitsOK' BY <1>1, <1>t DEF LimitsOK
<1>10. \A d \in Calls : InMemory(d)' <= InMemory(d) /\ OnFile(d)' <= InMemory(d) /\ calls'[d].month = calls[d].month
  <2> SUFFICES ASSUME NEW d \in Calls
               PROVE InMemory(d)' <= InMemory(d) /\ OnFile(d)' <= InMemory(d) /\ calls'[d].month = calls[d].month
    OBVIOUS
  <2>0. calls[d].want \in Nat /\ calls[d].cost \in Nat BY <1>c DEF CallRecords
  <2>i. /\ InMemory(d)' = OnFile(d)'
        /\ OnFile(d)' = IF calls'[d].phase \in {"calling", "settling"} THEN calls'[d].want
                        ELSE IF calls'[d].phase = "over" THEN calls'[d].cost ELSE 0
    BY <1>2 DEF InMemory, OnFile
  <2>1. CASE o.op = "reserve" /\ d = o.call
    <3>1. InMemory(d) = calls[d].want BY <2>1, <1>2 DEF InMemory
    <3>2. OnFile(d)' = calls[d].want /\ calls'[d].month = calls[d].month BY <2>1, <2>i, <1>3 DEF Books
    <3> QED BY <2>0, <2>i, <3>1, <3>2
  <2>2. CASE o.op = "settle" /\ d = o.call
    <3>1. InMemory(d) = calls[d].cost BY <2>2, <1>2, <1>h DEF InMemory, Books
    <3>2. OnFile(d)' = calls[d].cost /\ calls'[d].month = calls[d].month BY <2>2, <2>i, <1>3 DEF Books
    <3> QED BY <2>0, <2>i, <3>1, <3>2
  <2>3. CASE o.op \notin Books \/ d # o.call
    <3>1. calls'[d] = calls[d] /\ ~BookedNow(d) /\ ~SettledNow(d) BY <2>3, <1>2, <1>3 DEF Books
    <3>2. InMemory(d) = OnFile(d)' BY <3>1, <2>i DEF InMemory
    <3>3. InMemory(d) \in Nat BY <2>0 DEF InMemory
    <3> QED BY <3>1, <3>2, <3>3, <2>i
  <2> QED BY <2>1, <2>2, <2>3 DEF Books
<1>11. SumsOK'
  <2> SUFFICES ASSUME NEW m \in Months
               PROVE /\ SumOf(MemoryOf(PricedCalls, m)', PricedCalls) <= memory[m].spent["openai"]
                     /\ SumOf(MemoryOf(GoogleCalls, m)', GoogleCalls) <= memory[m].units
                     /\ SumOf(FileOf(PricedCalls, m)', PricedCalls) <= memory[m].spent["openai"]
                     /\ SumOf(FileOf(GoogleCalls, m)', GoogleCalls) <= memory[m].units
    BY <1>1 DEF SumsOK
  <2>1. PICK w : w = [c \in Calls |-> IF calls[c].month = m THEN InMemory(c) ELSE 0] OBVIOUS
  <2>2. \A c \in Calls : InMemory(c) \in Nat BY <1>c DEF InMemory, CallRecords
  <2>3. w \in [Calls -> Int] BY <2>1, <2>2
  <2>4. /\ [c \in PricedCalls |-> w[c]] = MemoryOf(PricedCalls, m)
        /\ [c \in GoogleCalls |-> w[c]] = MemoryOf(GoogleCalls, m)
    BY <2>1 DEF MemoryOf, Calls
  <2>5. /\ SumOf([c \in PricedCalls |-> w[c]], PricedCalls) <= memory[m].spent["openai"]
        /\ SumOf([c \in GoogleCalls |-> w[c]], GoogleCalls) <= memory[m].units
    BY <2>4, <1>t DEF SumsOK
  <2>6. memory[m].spent["openai"] \in Int /\ memory[m].units \in Int
    <3>1. memory[m] \in Records BY <1>t DEF LedgerTypes
    <3> QED BY <3>1 DEF Records, Providers
  <2>7. \A c \in Calls : /\ (IF calls'[c].month = m THEN InMemory(c)' ELSE 0) <= w[c]
                         /\ (IF calls'[c].month = m THEN OnFile(c)' ELSE 0) <= w[c]
    BY <2>1, <1>10
  <2> QED BY <2>3, <2>5, <2>6, <2>7, <1>6, Carried
<1> QED BY <1>6, <1>7, <1>8, <1>9, <1>11 DEF LedgerInv

\* The process ends, and the next one starts with what is on file.
LEMMA RestartSafe ==
  ASSUME LedgerInv, Restart
  PROVE  LedgerInv'
<1>t. LedgerTypes /\ QueueOK /\ CallsOK /\ SumsOK /\ LimitsOK BY DEF LedgerInv
<1>c. calls \in [Calls -> CallRecords] BY <1>t DEF LedgerTypes
<1>1. /\ memory' = Loaded /\ file' = Loaded /\ queue' = <<SelectOp>> /\ writing' = FALSE /\ broken' = FALSE
      /\ timer' = FALSE /\ flush' = [phase |-> "selecting", alert |-> NoAlert, accepted |-> FALSE]
      /\ month' = month
      /\ calls' = [c \in Calls |->
           IF calls[c].phase \in {"calling", "settling"} THEN [calls[c] EXCEPT !.phase = "over"]
           ELSE IF calls[c].phase = "asking" THEN [calls[c] EXCEPT !.phase = "refused"]
           ELSE calls[c]]
  BY DEF Restart
<1>2. /\ Loaded \in [Months -> Records]
      /\ \A m \in Months : Loaded[m].spent = file[m].spent /\ Loaded[m].units = file[m].units
  <2> SUFFICES ASSUME NEW m \in Months
               PROVE /\ Loaded[m] \in Records
                     /\ Loaded[m].spent = file[m].spent /\ Loaded[m].units = file[m].units
    BY DEF Loaded
  <2>1. file[m] \in Records BY <1>t DEF LedgerTypes
  <2> DEFINE al == [t \in Thresholds |-> IF file[m].alerts[t] = "sending" THEN "pending" ELSE file[m].alerts[t]]
  <2>2. al \in [Thresholds -> AlertStates] BY <2>1 DEF Records, AlertStates
  <2>3. Loaded[m] = [file[m] EXCEPT !.alerts = al] BY <2>1 DEF Loaded, Records
  <2> HIDE DEF al
  <2> QED BY <2>1, <2>2, <2>3 DEF Records
<1>3. ASSUME NEW c \in Calls
      PROVE /\ calls'[c] \in CallRecords /\ calls'[c].month = calls[c].month
            /\ calls'[c].want = calls[c].want /\ calls'[c].cost = calls[c].cost
            /\ calls'[c].phase = IF calls[c].phase \in {"calling", "settling"} THEN "over"
                                 ELSE IF calls[c].phase = "asking" THEN "refused" ELSE calls[c].phase
            /\ calls'[c].phase \notin {"calling", "settling"}
  <2>1. calls[c] \in CallRecords BY <1>c
  <2>2. calls'[c] = IF calls[c].phase \in {"calling", "settling"} THEN [calls[c] EXCEPT !.phase = "over"]
                    ELSE IF calls[c].phase = "asking" THEN [calls[c] EXCEPT !.phase = "refused"]
                    ELSE calls[c]
    BY <1>1
  <2> QED BY <2>1, <2>2 DEF CallRecords, CallPhases
<1>4. LedgerTypes'
  <2>1. calls' \in [Calls -> CallRecords] BY <1>1, <1>3
  <2>2. queue' \in Seq(Ops) BY <1>1, LedgerValues
  <2>3. flush' \in [phase : FlushPhases, alert : Alerts \union {NoAlert}, accepted : BOOLEAN]
    BY <1>1 DEF FlushPhases
  <2> QED BY <1>1, <1>2, <1>t, <2>1, <2>2, <2>3 DEF LedgerTypes
<1>5. QueueOK'
  <2>1. \A i \in 1..Len(<<SelectOp>>) : <<SelectOp>>[i].op = "select" BY DEF SelectOp
  <2> QED BY <1>1, <2>1 DEF QueueOK, ChainOf, Books
<1>6. \A c : ~BookedNow(c)' /\ ~SettledNow(c)' BY <1>1 DEF BookedNow, SettledNow, Busy, SelectOp
<1>7. CallsOK' BY <1>3, <1>6, <1>t DEF CallsOK
<1>8. LimitsOK'
  <2> SUFFICES ASSUME NEW m \in Months PROVE Within(Loaded[m]) BY <1>1 DEF LimitsOK
  <2> QED BY <1>2, <1>t DEF LimitsOK, Within
<1>9. \A c \in Calls : InMemory(c)' <= OnFile(c) /\ OnFile(c)' <= OnFile(c) /\ OnFile(c) \in Nat
  <2> SUFFICES ASSUME NEW c \in Calls
               PROVE InMemory(c)' <= OnFile(c) /\ OnFile(c)' <= OnFile(c) /\ OnFile(c) \in Nat
    OBVIOUS
  <2>1. calls[c].want \in Nat /\ calls[c].cost \in Nat BY <1>c DEF CallRecords
  <2>2. calls[c].phase \in {"calling", "settling", "over"} => calls[c].cost <= calls[c].want BY <1>t DEF CallsOK
  <2> QED BY <2>1, <2>2, <1>3, <1>6 DEF InMemory, OnFile
<1>10. SumsOK'
  <2> SUFFICES ASSUME NEW m \in Months
               PROVE /\ SumOf(MemoryOf(PricedCalls, m)', PricedCalls) <= Loaded[m].spent["openai"]
                     /\ SumOf(MemoryOf(GoogleCalls, m)', GoogleCalls) <= Loaded[m].units
                     /\ SumOf(FileOf(PricedCalls, m)', PricedCalls) <= Loaded[m].spent["openai"]
                     /\ SumOf(FileOf(GoogleCalls, m)', GoogleCalls) <= Loaded[m].units
    BY <1>1 DEF SumsOK
  <2>1. PICK w : w = [c \in Calls |-> IF calls[c].month = m THEN OnFile(c) ELSE 0] OBVIOUS
  <2>3. w \in [Calls -> Int] BY <2>1, <1>9
  <2>4. /\ [c \in PricedCalls |-> w[c]] = FileOf(PricedCalls, m)
        /\ [c \in GoogleCalls |-> w[c]] = FileOf(GoogleCalls, m)
    BY <2>1 DEF FileOf, Calls
  <2>5. /\ SumOf([c \in PricedCalls |-> w[c]], PricedCalls) <= file[m].spent["openai"]
        /\ SumOf([c \in GoogleCalls |-> w[c]], GoogleCalls) <= file[m].units
    BY <2>4, <1>t DEF SumsOK
  <2>6. file[m].spent["openai"] \in Int /\ file[m].units \in Int
    <3>1. file[m] \in Records BY <1>t DEF LedgerTypes
    <3> QED BY <3>1 DEF Records, Providers
  <2>7. \A c \in Calls : /\ (IF calls'[c].month = m THEN InMemory(c)' ELSE 0) <= w[c]
                         /\ (IF calls'[c].month = m THEN OnFile(c)' ELSE 0) <= w[c]
    BY <2>1, <1>3, <1>9
  <2>8. /\ SumOf(MemoryOf(PricedCalls, m)', PricedCalls) <= file[m].spent["openai"]
        /\ SumOf(MemoryOf(GoogleCalls, m)', GoogleCalls) <= file[m].units
        /\ SumOf(FileOf(PricedCalls, m)', PricedCalls) <= file[m].spent["openai"]
        /\ SumOf(FileOf(GoogleCalls, m)', GoogleCalls) <= file[m].units
    BY <2>3, <2>5, <2>6, <2>7, <1>4, Carried
  <2> QED BY <2>8, <1>2
<1> QED BY <1>4, <1>5, <1>7, <1>8, <1>10 DEF LedgerInv

LEMMA LedgerBegins == LedgerInit => LedgerInv
<1> SUFFICES ASSUME LedgerInit PROVE LedgerInv
  OBVIOUS
<1>1. /\ memory = [m \in Months |-> Blank] /\ file = memory /\ queue = <<>> /\ writing = FALSE
      /\ broken = FALSE /\ calls = [c \in Calls |-> NewCall] /\ timer = FALSE /\ month = 1
      /\ flush = [phase |-> "idle", alert |-> NoAlert, accepted |-> FALSE]
  BY DEF LedgerInit
<1>2. Blank \in Records /\ Blank.units = 0 /\ \A p \in Providers : Blank.spent[p] = 0
  BY DEF Blank, Records, AlertStates
<1>3. NewCall \in CallRecords BY LedgerValues DEF NewCall, CallRecords, CallPhases
<1>4. LedgerTypes
  <2>1. flush \in [phase : FlushPhases, alert : Alerts \union {NoAlert}, accepted : BOOLEAN]
    BY <1>1 DEF FlushPhases
  <2>2. queue \in Seq(Ops) BY <1>1
  <2>3. memory \in [Months -> Records] /\ calls \in [Calls -> CallRecords] BY <1>1, <1>2, <1>3
  <2> QED BY <1>1, <2>1, <2>2, <2>3, LedgerValues DEF LedgerTypes
<1>5. QueueOK BY <1>1 DEF QueueOK, ChainOf
<1>6. \A c \in Calls : calls[c].phase = "new" /\ ~BookedNow(c) /\ ~SettledNow(c)
  BY <1>1 DEF NewCall, BookedNow, SettledNow, Busy, SelectOp
<1>7. CallsOK BY <1>6 DEF CallsOK
<1>8. LimitsOK
  <2>1. Price(0) = 0
    <3>1. Most(0, 0 - FreeUnits) = 0 BY LedgerValues DEF Most
    <3> QED BY <3>1, LedgerValues DEF Price
  <2>2. \A p \in Providers : 0 <= Limit(p) BY LedgerValues DEF Limit
  <2>3. Within(Blank) BY <1>2, <2>1, <2>2 DEF Within, Providers
  <2> QED BY <1>1, <2>3 DEF LimitsOK
<1>9. SumsOK
  <2> SUFFICES ASSUME NEW m \in Months, NEW cs \in {PricedCalls, GoogleCalls}
               PROVE SumOf(MemoryOf(cs, m), cs) <= 0 /\ SumOf(FileOf(cs, m), cs) <= 0
    <3>1. \A m \in Months : memory[m].spent["openai"] = 0 /\ memory[m].units = 0 /\ file[m] = memory[m]
      BY <1>1, <1>2 DEF Providers
    <3> QED BY <3>1 DEF SumsOK
  <2>1. cs \subseteq Calls /\ IsFiniteSet(cs) BY LedgerValues DEF Calls
  <2>2. \A c \in cs : InMemory(c) = 0 /\ OnFile(c) = 0 BY <2>1, <1>6 DEF InMemory, OnFile
  <2> DEFINE z == [c \in cs |-> 0]
  <2>3. MemoryOf(cs, m) = z /\ FileOf(cs, m) = z BY <2>2 DEF MemoryOf, FileOf
  <2>4. z \in [cs -> Int] /\ \A c \in cs : z[c] = 0 OBVIOUS
  <2>5. SumOf(z, cs) = 0
    <3> HIDE DEF z
    <3> QED BY <2>1, <2>4, SumZero
  <2> HIDE DEF z
  <2> QED BY <2>3, <2>5
<1> QED BY <1>4, <1>5, <1>7, <1>8, <1>9 DEF LedgerInv

LEMMA LedgerStep == LedgerInv /\ [LedgerNext]_ledgerVars => LedgerInv'
<1> SUFFICES ASSUME LedgerInv, [LedgerNext]_ledgerVars PROVE LedgerInv'
  OBVIOUS
<1>b. broken \in BOOLEAN BY DEF LedgerInv, LedgerTypes
<1>1. CASE Unavailable \/ ReserveRefused
  <2>1. queue # <<>> /\ Rejects /\ broken' = broken /\ UNCHANGED <<memory, file, month>>
    BY <1>1 DEF Unavailable, ReserveRefused
  <2> QED BY <2>1, <1>b, RejectsSafe
<1>2. CASE WriteFails
  <2>1. queue # <<>> /\ Rejects /\ broken' = TRUE /\ UNCHANGED <<memory, file, month>>
    BY <1>2 DEF WriteFails, LedgerInv, QueueOK
  <2> QED BY <2>1, RejectsSafe
<1>3. CASE ReserveCost BY <1>3, ReserveSafe
<1>4. CASE Settle BY <1>4, SettleSafe
<1>5. CASE Select \/ Record BY <1>5, AlertWorkSafe
<1>6. CASE Written BY <1>6, WrittenSafe
<1>7. CASE Restart BY <1>7, RestartSafe
<1>8. CASE \E c \in Calls : Ask(c) \/ CallAnswered(c) \/ NotKnown(c) BY <1>8, CallerSafe
<1>9. CASE AlertTimer \/ MonthTurns \/ (\E accepted \in BOOLEAN : AlertAnswered(accepted)) \/ UNCHANGED ledgerVars
  BY <1>9, OutsideSafe
<1> QED BY <1>1, <1>2, <1>3, <1>4, <1>5, <1>6, <1>7, <1>8, <1>9 DEF LedgerNext, Chain

\* What a call was billed is not more than the file has for it.
LEMMA BilledHas ==
  ASSUME LedgerInv, NEW m \in Months, NEW cs \in {PricedCalls, GoogleCalls}
  PROVE  Billed(m, cs) \in Int /\ Billed(m, cs) <= SumOf(FileOf(cs, m), cs)
<1>1. cs \subseteq Calls /\ IsFiniteSet(cs) /\ FileOf(cs, m) \in [cs -> Int]
  BY WeightsTyped DEF LedgerInv
<1>2. PICK v : v = [c \in cs |-> calls[c].cost] OBVIOUS
<1>3. \A c \in cs : calls[c].cost \in Nat /\ calls[c].want \in Nat BY <1>1 DEF LedgerInv, LedgerTypes, CallRecords
<1>4. PICK S : S = BilledCalls(m, cs) OBVIOUS
<1>5. S \in SUBSET cs BY <1>4 DEF BilledCalls
<1>6. Billed(m, cs) = SumOf(v, S)
  <2>1. \A s \in SUBSET S : s # {} => v[Pick(s)] = calls[Pick(s)].cost BY <1>2, <1>5, Picked
  <2>2. \A f : [s \in SUBSET S |-> IF s = {} THEN 0 ELSE v[Pick(s)] + f[s \ {Pick(s)}]]
             = [s \in SUBSET S |-> IF s = {} THEN 0 ELSE calls[Pick(s)].cost + f[s \ {Pick(s)}]]
    BY <2>1
  <2>3. SumOf(v, S) = (CHOOSE f : f = [s \in SUBSET S |-> IF s = {} THEN 0 ELSE v[Pick(s)] + f[s \ {Pick(s)}]])[S]
    BY DEF SumOf, MapThenSumSet, MapThenFoldSet, Pick
  <2>4. Billed(m, cs) = (CHOOSE f : f = [s \in SUBSET S |-> IF s = {} THEN 0 ELSE calls[Pick(s)].cost + f[s \ {Pick(s)}]])[S]
    BY <1>4 DEF Billed, MapThenSumSet, MapThenFoldSet, Pick
  <2>5. (CHOOSE f : f = [s \in SUBSET S |-> IF s = {} THEN 0 ELSE v[Pick(s)] + f[s \ {Pick(s)}]])
      = (CHOOSE f : f = [s \in SUBSET S |-> IF s = {} THEN 0 ELSE calls[Pick(s)].cost + f[s \ {Pick(s)}]])
    BY <2>2
  <2> QED BY <2>3, <2>4, <2>5
<1>7. v \in [cs -> Int] BY <1>2, <1>3
<1>8. \A c \in S : v[c] <= FileOf(cs, m)[c]
  <2> SUFFICES ASSUME NEW c \in S PROVE v[c] <= FileOf(cs, m)[c]
    OBVIOUS
  <2>1. c \in cs /\ c \in Calls BY <1>1, <1>5
  <2>2. calls[c].month = m /\ calls[c].phase \in {"calling", "settling", "over"} BY <1>4 DEF BilledCalls
  <2>3. calls[c].cost <= calls[c].want BY <2>1, <2>2 DEF LedgerInv, CallsOK
  <2>4. FileOf(cs, m)[c] = OnFile(c) BY <2>1, <2>2 DEF FileOf
  <2> QED BY <2>1, <2>2, <2>3, <2>4, <1>2, <1>3 DEF OnFile
<1>9. \A c \in cs \ S : 0 <= FileOf(cs, m)[c] BY <1>1, WeightsTyped DEF LedgerInv
<1>10. PICK w : w = FileOf(cs, m) OBVIOUS
<1>11. SumOf(v, S) <= SumOf(w, cs) BY <1>1, <1>5, <1>7, <1>8, <1>9, <1>10, SumMono
<1>12. SumOf(v, S) \in Int BY <1>1, <1>5, <1>7, SumValue
<1> QED BY <1>6, <1>10, <1>11, <1>12

LEMMA LedgerHolds == LedgerInv => BilledIsOnFile
<1> SUFFICES ASSUME LedgerInv PROVE BilledIsOnFile
  OBVIOUS
<1>1. \A m \in Months : memory[m] \in Records /\ file[m] \in Records BY DEF LedgerInv, LedgerTypes
<1>2. LedgerTypeOK
  <2>1. \A r \in Records : /\ r.units \in Nat /\ (\A p \in Providers : r.spent[p] \in Nat)
                           /\ \A t \in Thresholds : r.alerts[t] \in AlertStates
    BY DEF Records
  <2>2. \A c \in Calls : calls[c].phase \in CallPhases BY DEF LedgerInv, LedgerTypes, CallRecords
  <2>3. flush.phase \in FlushPhases /\ flush.alert \in Alerts \union {NoAlert} BY DEF LedgerInv, LedgerTypes
  <2>4. {writing, broken, timer} \subseteq BOOLEAN /\ month \in Months BY DEF LedgerInv, LedgerTypes
  <2> QED BY <1>1, <2>1, <2>2, <2>3, <2>4 DEF LedgerTypeOK, CallPhases, FlushPhases
<1>3. ASSUME NEW m \in Months
      PROVE Billed(m, PricedCalls) <= file[m].spent["openai"] /\ Billed(m, GoogleCalls) <= file[m].units
  <2>1. /\ SumOf(FileOf(PricedCalls, m), PricedCalls) <= file[m].spent["openai"]
        /\ SumOf(FileOf(GoogleCalls, m), GoogleCalls) <= file[m].units
    BY DEF LedgerInv, SumsOK
  <2>2. /\ Billed(m, PricedCalls) <= SumOf(FileOf(PricedCalls, m), PricedCalls)
        /\ Billed(m, GoogleCalls) <= SumOf(FileOf(GoogleCalls, m), GoogleCalls)
    BY BilledHas
  <2>3. file[m].spent["openai"] \in Int /\ file[m].units \in Int BY <1>1 DEF Records, Providers
  <2>4. SumOf(FileOf(PricedCalls, m), PricedCalls) \in Int /\ SumOf(FileOf(GoogleCalls, m), GoogleCalls) \in Int
    <3>1. \A cs \in {PricedCalls, GoogleCalls} : IsFiniteSet(cs) /\ FileOf(cs, m) \in [cs -> Int]
      BY WeightsTyped DEF LedgerInv
    <3> QED BY <3>1, SumValue
  <2>5. Billed(m, PricedCalls) \in Int /\ Billed(m, GoogleCalls) \in Int BY BilledHas
  <2> QED BY <2>1, <2>2, <2>3, <2>4, <2>5
<1>4. \A m \in Months : Within(memory[m]) /\ Within(file[m]) BY DEF LedgerInv, LimitsOK
<1> QED BY <1>2, <1>3, <1>4 DEF BilledIsOnFile, Within

\* What the providers billed is on file at any moment, through lost answers,
\* failed writes, crashes and the turn of the month; units keep their price and
\* no provider passes its limit (cost-ledger.ts:137-217).
THEOREM BilledIsOnFileAlways == LedgerSpec => []BilledIsOnFile
<1> QED BY LedgerBegins, LedgerStep, LedgerHolds, PTL DEF LedgerSpec

-----------------------------------------------------------------------------
(* The search quota.  What a call may yet search, or has searched, is        *)
(* charged to its day and its month from the write of its reservation on,    *)
(* and to its session from the moment its request goes out.                  *)

Ledgers == [days : [Days -> Nat], months : [QuotaMonths -> Nat]]
SearchPhases == {"new", "asking", "calling", "settling", "over"}
SearchRecords == [phase : SearchPhases, session : Sessions, day : Days, want : Nat, limit : Nat,
                  used : Nat, actual : Nat, aborted : BOOLEAN]

QuotaTypes ==
  /\ quotaFile \in Ledgers
  /\ read \in [call : Searches \union {"none"}, ledger : Ledgers, day : Days]
  /\ search \in [Searches -> SearchRecords]
  /\ reserved \in [Sessions -> Int] /\ currentSession \in Sessions /\ day \in Days

\* The file has not changed since the operation under way has read it.
ReadOK == read.call # "none" => read.ledger = quotaFile /\ search[read.call].phase \in {"asking", "settling"}

SearchesOK ==
  \A c \in Searches :
    /\ search[c].used <= search[c].limit
    /\ search[c].phase \in {"new", "asking"} => search[c].used = 0 /\ search[c].actual = 0
    /\ search[c].phase = "settling" => search[c].actual = search[c].used

Live(c) == search[c].phase \in Waiting /\ ~search[c].aborted
AloneOK == \A c, d \in Searches : Live(c) /\ Live(d) => c = d

\* What the ledger, and the session, must hold for a call.
Charge(c) ==
  IF search[c].phase \in {"calling", "settling"} THEN search[c].limit
  ELSE IF search[c].phase = "over" THEN search[c].used ELSE 0
Share(c) ==
  IF search[c].phase = "calling" THEN search[c].limit
  ELSE IF search[c].phase \in {"settling", "over"} THEN search[c].used ELSE 0
DayCharges(d) == [c \in Searches |-> IF search[c].day = d THEN Charge(c) ELSE 0]
MonthCharges(m) == [c \in Searches |-> IF MonthOf(search[c].day) = m THEN Charge(c) ELSE 0]
Shares(s) == [c \in Searches |-> IF search[c].session = s THEN Share(c) ELSE 0]

ChargesOK ==
  /\ \A d \in Days : /\ SumOf(DayCharges(d), Searches) <= quotaFile.days[d]
                     /\ quotaFile.days[d] <= DailyLimit
  /\ \A m \in QuotaMonths : /\ SumOf(MonthCharges(m), Searches) <= quotaFile.months[m]
                            /\ quotaFile.months[m] <= MonthlyLimit

\* A call that asks and is not aborted has room in its session for all it wants.
SharesOK ==
  /\ \A s \in Sessions : /\ SumOf(Shares(s), Searches) <= reserved[s]
                         /\ SumOf(Shares(s), Searches) <= SessionCap
  /\ \A c \in Searches : search[c].phase = "asking" /\ ~search[c].aborted =>
       SumOf(Shares(search[c].session), Searches) + search[c].want <= SessionCap

QuotaInv == QuotaTypes /\ ReadOK /\ SearchesOK /\ AloneOK /\ ChargesOK /\ SharesOK

LEMMA QuotaValues ==
  /\ IsFiniteSet(Searches) /\ "none" \notin Searches
  /\ MaxCalls \in Nat /\ SessionCap \in Nat /\ DailyLimit \in Nat /\ MonthlyLimit \in Nat
  /\ LastDay \in Nat /\ LastSession \in Nat
  /\ 1 \in Days /\ 1 \in Sessions /\ \A d \in Days : MonthOf(d) \in QuotaMonths
<1>1. /\ {MaxCalls, SessionCap, DailyLimit, MonthlyLimit, LastDay, LastSession} \subseteq Nat \ {0}
      /\ IsFiniteSet(Replies) /\ IsFiniteSet(Checks) /\ "none" \notin Replies \union Checks
  BY QuotaParameters DEF QuotaParameters
<1>2. IsFiniteSet(Searches) BY <1>1, FS_Union DEF Searches
<1> QED BY <1>1, <1>2 DEF Searches, Days, Sessions, QuotaMonths

LEMMA LeastOf ==
  ASSUME NEW a \in Int, NEW b \in Int
  PROVE  Least({a, b}) \in {a, b} /\ Least({a, b}) <= a /\ Least({a, b}) <= b
<1>1. \E x \in {a, b} : \A y \in {a, b} : x <= y
  <2>1. CASE a <= b BY <2>1
  <2>2. CASE b <= a BY <2>2
  <2> QED BY <2>1, <2>2
<1>2. Least({a, b}) = CHOOSE x \in {a, b} : \A y \in {a, b} : x <= y BY DEF Least, Min
<1> QED BY <1>1, <1>2

LEMMA ChargesTyped ==
  ASSUME QuotaTypes
  PROVE  /\ \A c \in Searches : Charge(c) \in Nat /\ Share(c) \in Nat
         /\ \A k : /\ DayCharges(k) \in [Searches -> Int] /\ MonthCharges(k) \in [Searches -> Int]
                   /\ Shares(k) \in [Searches -> Int]
<1>1. \A c \in Searches : search[c].limit \in Nat /\ search[c].used \in Nat BY DEF QuotaTypes, SearchRecords
<1>2. \A c \in Searches : Charge(c) \in Nat /\ Share(c) \in Nat BY <1>1 DEF Charge, Share
<1> QED BY <1>2 DEF DayCharges, MonthCharges, Shares

LEMMA ChargesTypedNext ==
  ASSUME QuotaTypes'
  PROVE  /\ \A c \in Searches : Charge(c)' \in Nat /\ Share(c)' \in Nat
         /\ \A k : /\ DayCharges(k)' \in [Searches -> Int] /\ MonthCharges(k)' \in [Searches -> Int]
                   /\ Shares(k)' \in [Searches -> Int]
<1>1. \A c \in Searches : search'[c].limit \in Nat /\ search'[c].used \in Nat BY DEF QuotaTypes, SearchRecords
<1>2. \A c \in Searches : Charge(c)' \in Nat /\ Share(c)' \in Nat BY <1>1 DEF Charge, Share
<1> QED BY <1>2 DEF DayCharges, MonthCharges, Shares

\* The sums that the invariant bounds.
LEMMA ChargesSum ==
  ASSUME QuotaTypes
  PROVE  /\ \A d \in Days : SumOf(DayCharges(d), Searches) \in Int /\ quotaFile.days[d] \in Int
         /\ \A m \in QuotaMonths : SumOf(MonthCharges(m), Searches) \in Int /\ quotaFile.months[m] \in Int
         /\ \A s \in Sessions : SumOf(Shares(s), Searches) \in Int /\ reserved[s] \in Int
<1>1. \A v \in [Searches -> Int] : SumOf(v, Searches) \in Int BY QuotaValues, SumValue
<1> QED BY <1>1, ChargesTyped DEF QuotaTypes, Ledgers

\* A step that gives no call a greater charge on its day.
LEMMA ChargesQuiet ==
  ASSUME QuotaInv, QuotaTypes', quotaFile' = quotaFile,
         \A c \in Searches : /\ Charge(c)' <= Charge(c)
                             /\ Charge(c)' = 0 \/ search'[c].day = search[c].day
  PROVE  ChargesOK'
<1>t. QuotaTypes /\ ChargesOK BY DEF QuotaInv
<1>1. \A c \in Searches : Charge(c) \in Nat /\ Charge(c)' \in Nat BY <1>t, ChargesTyped, ChargesTypedNext
<1>2. ASSUME NEW d \in Days PROVE SumOf(DayCharges(d)', Searches) <= quotaFile.days[d]
  <2> DEFINE v == DayCharges(d)'
             w == DayCharges(d)
             n == quotaFile.days[d]
  <2>1. v \in [Searches -> Int] /\ w \in [Searches -> Int] BY <1>t, ChargesTyped, ChargesTypedNext
  <2>2. \A c \in Searches : v[c] <= w[c] BY <1>1 DEF DayCharges
  <2>3. SumOf(w, Searches) <= n /\ n \in Int BY <1>t, ChargesSum DEF ChargesOK
  <2> HIDE DEF v, w, n
  <2>4. SumOf(v, Searches) <= n BY <2>1, <2>2, <2>3, QuotaValues, SumFalls
  <2> QED BY <2>4 DEF v, n
<1>3. ASSUME NEW m \in QuotaMonths PROVE SumOf(MonthCharges(m)', Searches) <= quotaFile.months[m]
  <2> DEFINE v == MonthCharges(m)'
             w == MonthCharges(m)
             n == quotaFile.months[m]
  <2>1. v \in [Searches -> Int] /\ w \in [Searches -> Int] BY <1>t, ChargesTyped, ChargesTypedNext
  <2>2. \A c \in Searches : v[c] <= w[c]
    <3> SUFFICES ASSUME NEW c \in Searches PROVE v[c] <= w[c]
      OBVIOUS
    <3>1. /\ v[c] = IF MonthOf(search'[c].day) = m THEN Charge(c)' ELSE 0
          /\ w[c] = IF MonthOf(search[c].day) = m THEN Charge(c) ELSE 0
      BY DEF MonthCharges, MonthOf
    <3> QED BY <3>1, <1>1
  <2>3. SumOf(w, Searches) <= n /\ n \in Int BY <1>t, ChargesSum DEF ChargesOK
  <2> HIDE DEF v, w, n
  <2>4. SumOf(v, Searches) <= n BY <2>1, <2>2, <2>3, QuotaValues, SumFalls
  <2> QED BY <2>4 DEF v, n
<1> QED BY <1>2, <1>3, <1>t DEF ChargesOK

\* A step that gives no call a greater share of its session.
LEMMA SharesFall ==
  ASSUME QuotaInv, QuotaTypes', NEW s \in Sessions,
         \A c \in Searches : /\ Share(c)' <= Share(c)
                             /\ Share(c)' = 0 \/ search'[c].session = search[c].session
  PROVE  SumOf(Shares(s)', Searches) \in Int /\ SumOf(Shares(s)', Searches) <= SumOf(Shares(s), Searches)
<1>t. QuotaTypes BY DEF QuotaInv
<1>1. \A c \in Searches : Share(c) \in Nat /\ Share(c)' \in Nat BY <1>t, ChargesTyped, ChargesTypedNext
<1> DEFINE v == Shares(s)'
           w == Shares(s)
<1>2. v \in [Searches -> Int] /\ w \in [Searches -> Int] BY <1>t, ChargesTyped, ChargesTypedNext
<1>3. \A c \in Searches : v[c] <= w[c] BY <1>1 DEF Shares
<1> HIDE DEF v, w
<1>4. SumOf(v, Searches) <= SumOf(w, Searches) /\ SumOf(v, Searches) \in Int
  BY <1>2, <1>3, QuotaValues, SumMono, SumValue
<1> QED BY <1>4 DEF v, w

LEMMA SharesQuiet ==
  ASSUME QuotaInv, QuotaTypes', reserved' = reserved,
         \A c \in Searches : /\ Share(c)' <= Share(c)
                             /\ Share(c)' = 0 \/ search'[c].session = search[c].session,
         \A c \in Searches : search'[c].phase = "asking" /\ ~search'[c].aborted =>
           SumOf(Shares(search'[c].session), Searches) + search'[c].want <= SessionCap
  PROVE  SharesOK'
<1>t. QuotaTypes /\ SharesOK BY DEF QuotaInv
<1>1. ASSUME NEW s \in Sessions
      PROVE /\ SumOf(Shares(s)', Searches) <= SumOf(Shares(s), Searches)
            /\ SumOf(Shares(s)', Searches) \in Int /\ SumOf(Shares(s), Searches) \in Int /\ reserved[s] \in Int
            /\ SumOf(Shares(s), Searches) <= reserved[s] /\ SumOf(Shares(s), Searches) <= SessionCap
  BY <1>t, SharesFall, ChargesSum DEF SharesOK
<1>2. SessionCap \in Int BY QuotaValues
<1>3. \A s \in Sessions : SumOf(Shares(s)', Searches) <= reserved'[s] /\ SumOf(Shares(s)', Searches) <= SessionCap
  <2> SUFFICES ASSUME NEW s \in Sessions
               PROVE SumOf(Shares(s)', Searches) <= reserved'[s] /\ SumOf(Shares(s)', Searches) <= SessionCap
    OBVIOUS
  <2> DEFINE a == SumOf(Shares(s)', Searches)
             b == SumOf(Shares(s), Searches)
  <2>1. a <= b /\ a \in Int /\ b \in Int /\ b <= reserved[s] /\ b <= SessionCap /\ reserved[s] \in Int BY <1>1
  <2> HIDE DEF a, b
  <2>2. a <= reserved[s] /\ a <= SessionCap BY <2>1, <1>2
  <2> QED BY <2>2 DEF a
<1>4. ASSUME NEW c \in Searches, search'[c].phase = "asking", ~search'[c].aborted
      PROVE  SumOf(Shares(search[c].session)', Searches) + search'[c].want <= SessionCap
  <2>1. PICK s \in Sessions, k \in Nat : s = search'[c].session /\ k = search'[c].want
    BY DEF QuotaTypes, SearchRecords
  <2>2. SumOf(Shares(s), Searches) + k <= SessionCap BY <1>4, <2>1
  <2> DEFINE a == SumOf(Shares(s)', Searches)
             b == SumOf(Shares(s), Searches)
  <2>3. a <= b /\ a \in Int /\ b \in Int /\ b + k <= SessionCap BY <2>2, <1>1
  <2> HIDE DEF a, b
  <2>4. a + k <= SessionCap BY <2>3, <1>2
  <2>6. Shares(search[c].session)' = Shares(s)' BY <2>1 DEF Shares
  <2> QED BY <2>1, <2>4, <2>6 DEF a
<1> QED BY <1>3, <1>4 DEF SharesOK

LEMMA QuietStep ==
  ASSUME QuotaInv, QuotaTypes', ReadOK', SearchesOK', AloneOK', quotaFile' = quotaFile, reserved' = reserved,
         \A c \in Searches : /\ Charge(c)' <= Charge(c) /\ Share(c)' <= Share(c)
                             /\ Charge(c)' = 0 \/ search'[c].day = search[c].day
                             /\ Share(c)' = 0 \/ search'[c].session = search[c].session,
         \A c \in Searches : search'[c].phase = "asking" /\ ~search'[c].aborted =>
           SumOf(Shares(search'[c].session), Searches) + search'[c].want <= SessionCap
  PROVE  QuotaInv'
<1>1. ChargesOK' BY ChargesQuiet
<1>2. SharesOK' BY SharesQuiet
<1> QED BY <1>1, <1>2 DEF QuotaInv

\* The record of one call changes.
LEMMA OneSearch ==
  ASSUME QuotaTypes, NEW c \in Searches, NEW r \in SearchRecords, search' = [search EXCEPT ![c] = r]
  PROVE  /\ search' \in [Searches -> SearchRecords] /\ search'[c] = r
         /\ \A d \in Searches : d # c => search'[d] = search[d] /\ Charge(d)' = Charge(d) /\ Share(d)' = Share(d)
<1>1. search \in [Searches -> SearchRecords] BY DEF QuotaTypes
<1>2. search' \in [Searches -> SearchRecords] /\ search'[c] = r
      /\ \A d \in Searches : d # c => search'[d] = search[d]
  BY <1>1
<1> QED BY <1>2 DEF Charge, Share

LEMMA NothingIs == NoRead \in [call : Searches \union {"none"}, ledger : Ledgers, day : Days] /\ NoRead.call = "none"
  BY QuotaValues DEF NoRead, Nothing, Ledger, Ledgers

\* The current session has room for what a call wants.
LEMMA AllowedHasRoom ==
  ASSUME QuotaInv, NEW c \in Searches, reserved[currentSession] < SessionCap
  PROVE  Allowed(c) \in Nat /\ SumOf(Shares(currentSession), Searches) + Allowed(c) <= SessionCap
<1>1. /\ reserved[currentSession] \in Int /\ SumOf(Shares(currentSession), Searches) \in Int
      /\ SumOf(Shares(currentSession), Searches) <= reserved[currentSession]
  BY ChargesSum DEF QuotaInv, QuotaTypes, SharesOK
<1>2. MaxCalls \in Nat /\ SessionCap \in Nat BY QuotaValues
<1>3. Allowed(c) \in Nat /\ Allowed(c) <= SessionCap - reserved[currentSession]
  <2>1. CASE c \in Checks BY <2>1, <1>1, <1>2 DEF Allowed
  <2>2. CASE c \notin Checks
    <3>1. SessionCap - reserved[currentSession] \in Nat BY <1>1, <1>2
    <3>2. Allowed(c) = Least({MaxCalls, SessionCap - reserved[currentSession]}) BY <2>2 DEF Allowed
    <3>3. PICK b \in Nat : b = SessionCap - reserved[currentSession] BY <3>1
    <3>4. Least({MaxCalls, b}) \in {MaxCalls, b} /\ Least({MaxCalls, b}) <= b BY <1>2, LeastOf
    <3> QED BY <3>2, <3>3, <3>4, <1>2
  <2> QED BY <2>1, <2>2
<1> QED BY <1>1, <1>2, <1>3

LEMMA BeginSafe ==
  ASSUME QuotaInv, NEW c \in Searches, Begin(c)
  PROVE  QuotaInv'
<1>t. QuotaTypes /\ ReadOK /\ SearchesOK /\ AloneOK /\ SharesOK BY DEF QuotaInv
<1>c. search[c] \in SearchRecords /\ currentSession \in Sessions BY <1>t DEF QuotaTypes
<1>1. PICK k \in Nat : k = Allowed(c) /\ SumOf(Shares(currentSession), Searches) + k <= SessionCap
  BY AllowedHasRoom DEF Begin
<1> DEFINE r == [search[c] EXCEPT !.phase = "asking", !.session = currentSession, !.want = k]
<1>2. /\ r \in SearchRecords /\ r.phase = "asking" /\ r.session = currentSession /\ r.want = k
      /\ r.used = search[c].used /\ r.actual = search[c].actual /\ r.limit = search[c].limit
  BY <1>c DEF SearchRecords, SearchPhases
<1>3. search' = [search EXCEPT ![c] = r] BY <1>1 DEF Begin
<1> HIDE DEF r
<1>4. /\ search' \in [Searches -> SearchRecords] /\ search'[c] = r
      /\ \A d \in Searches : d # c => search'[d] = search[d] /\ Charge(d)' = Charge(d) /\ Share(d)' = Share(d)
  BY <1>t, <1>2, <1>3, OneSearch
<1>5. QuotaTypes' BY <1>4, <1>t DEF Begin, QuotaTypes
<1>6. ReadOK' BY <1>4, <1>t DEF Begin, ReadOK, QuotaTypes
<1>7. SearchesOK' BY <1>2, <1>4, <1>t DEF Begin, SearchesOK
<1>8. AloneOK' BY <1>4, <1>t DEF Begin, AloneOK, Live
<1>9. \A d \in Searches : /\ Charge(d)' <= Charge(d) /\ Share(d)' <= Share(d)
                          /\ Charge(d)' = 0 \/ search'[d].day = search[d].day
                          /\ Share(d)' = 0 \/ search'[d].session = search[d].session
  <2>1. Charge(c)' = 0 /\ Share(c)' = 0 BY <1>2, <1>4 DEF Charge, Share
  <2>2. Charge(c) = 0 /\ Share(c) = 0 BY DEF Begin, Charge, Share
  <2> QED BY <2>1, <2>2, <1>4, <1>t, ChargesTyped
<1>10. \A d \in Searches : search'[d].phase = "asking" /\ ~search'[d].aborted =>
         SumOf(Shares(search'[d].session), Searches) + search'[d].want <= SessionCap
  BY <1>1, <1>2, <1>4, <1>t DEF SharesOK
<1>11. quotaFile' = quotaFile /\ reserved' = reserved BY DEF Begin
<1> QED BY <1>5, <1>6, <1>7, <1>8, <1>9, <1>10, <1>11, QuietStep

\* A call is aborted, or never learns what became of its request, or does not
\* get what it asks the ledger for.
LEMMA GivenUpSafe ==
  ASSUME QuotaInv, NEW c \in Searches, Abort(c) \/ SearchUnknown(c) \/ Fails(c)
  PROVE  QuotaInv'
<1>t. QuotaTypes /\ ReadOK /\ SearchesOK /\ AloneOK /\ SharesOK BY DEF QuotaInv
<1>c. search[c] \in SearchRecords BY <1>t DEF QuotaTypes
<1>1. PICK r \in SearchRecords :
        /\ search' = [search EXCEPT ![c] = r]
        /\ \/ r.phase = search[c].phase /\ r.aborted /\ read' = read
           \/ r.phase = "over" /\ read' = read /\ search[c].phase = "calling"
           \/ r.phase = "over" /\ read' = NoRead /\ search[c].phase \in {"asking", "settling"}
        /\ r.used = search[c].used /\ r.limit = search[c].limit /\ r.actual = search[c].actual
        /\ r.day = search[c].day /\ r.session = search[c].session
  <2>1. CASE Abort(c)
    <3> DEFINE r == [search[c] EXCEPT !.aborted = TRUE]
    <3>1. r \in SearchRecords /\ r.phase = search[c].phase /\ r.aborted
          /\ r.used = search[c].used /\ r.limit = search[c].limit /\ r.actual = search[c].actual
          /\ r.day = search[c].day /\ r.session = search[c].session
      BY <1>c DEF SearchRecords
    <3>2. search' = [search EXCEPT ![c] = r] /\ read' = read BY <2>1 DEF Abort
    <3> HIDE DEF r
    <3> QED BY <3>1, <3>2
  <2>2. CASE SearchUnknown(c) \/ Fails(c)
    <3> DEFINE r == [search[c] EXCEPT !.phase = "over"]
    <3>1. r \in SearchRecords /\ r.phase = "over"
          /\ r.used = search[c].used /\ r.limit = search[c].limit /\ r.actual = search[c].actual
          /\ r.day = search[c].day /\ r.session = search[c].session
      BY <1>c DEF SearchRecords, SearchPhases
    <3>2. search' = [search EXCEPT ![c] = r] BY <2>2 DEF SearchUnknown, Fails
    <3>3. \/ read' = read /\ search[c].phase = "calling"
          \/ read' = NoRead /\ search[c].phase \in {"asking", "settling"}
      BY <2>2, <1>t, QuotaValues DEF SearchUnknown, Fails, ReadOK
    <3> HIDE DEF r
    <3> QED BY <3>1, <3>2, <3>3
  <2> QED BY <2>1, <2>2
<1>2. UNCHANGED <<quotaFile, reserved, currentSession, day>> BY DEF Abort, SearchUnknown, Fails
<1>3. read' = read \/ read' = NoRead BY <1>1
<1>4. /\ search' \in [Searches -> SearchRecords] /\ search'[c] = r
      /\ \A d \in Searches : d # c => search'[d] = search[d] /\ Charge(d)' = Charge(d) /\ Share(d)' = Share(d)
  BY <1>t, <1>1, OneSearch
<1>5. QuotaTypes' BY <1>2, <1>3, <1>4, <1>t, NothingIs DEF QuotaTypes
<1>6. ReadOK'
  <2>1. CASE read' = NoRead BY <2>1, NothingIs DEF ReadOK
  <2>2. CASE read' = read /\ read.call # "none"
    <3>1. read.call \in Searches /\ read.ledger = quotaFile /\ search[read.call].phase \in {"asking", "settling"}
      BY <2>2, <1>t DEF ReadOK, QuotaTypes
    <3>2. search'[read.call].phase \in {"asking", "settling"}
      <4>1. CASE read.call = c /\ r.phase = search[c].phase BY <4>1, <3>1, <1>4
      <4>2. CASE read.call = c /\ r.phase # search[c].phase
        <5>1. read' = NoRead BY <4>2, <3>1, <1>1
        <5> QED BY <5>1, <2>2, NothingIs
      <4>3. CASE read.call # c BY <4>3, <3>1, <1>4
      <4> QED BY <4>1, <4>2, <4>3
    <3> QED BY <2>2, <3>1, <3>2, <1>2 DEF ReadOK
  <2>3. CASE read' = read /\ read.call = "none" BY <2>3 DEF ReadOK
  <2> QED BY <1>3, <2>1, <2>2, <2>3
<1>7. SearchesOK' BY <1>1, <1>4, <1>t DEF SearchesOK
<1>8. AloneOK'
  <2>1. \A d \in Searches : Live(d)' => Live(d)
    BY <1>1, <1>4 DEF Live, Waiting
  <2> QED BY <2>1, <1>t DEF AloneOK
<1>9. \A d \in Searches : /\ Charge(d)' <= Charge(d) /\ Share(d)' <= Share(d)
                          /\ Charge(d)' = 0 \/ search'[d].day = search[d].day
                          /\ Share(d)' = 0 \/ search'[d].session = search[d].session
  <2>0. search[c].limit \in Nat /\ search[c].used \in Nat /\ search[c].used <= search[c].limit
    BY <1>c, <1>t DEF SearchRecords, SearchesOK
  <2>1. Charge(c)' <= Charge(c) /\ Share(c)' <= Share(c)
    <3>1. CASE r.phase = search[c].phase
      <4>1. Charge(c)' = Charge(c) /\ Share(c)' = Share(c) BY <3>1, <1>1, <1>4 DEF Charge, Share
      <4> QED BY <4>1, <1>t, ChargesTyped
    <3>2. CASE r.phase # search[c].phase
      <4>1. Charge(c)' = search[c].used /\ Share(c)' = search[c].used BY <3>2, <1>1, <1>4 DEF Charge, Share
      <4>2. search[c].phase \in {"asking", "settling", "calling"} BY <3>2, <1>1
      <4>3. search[c].phase = "asking" => search[c].used = 0 BY <1>t DEF SearchesOK
      <4> QED BY <4>1, <4>2, <4>3, <2>0 DEF Charge, Share
    <3> QED BY <3>1, <3>2
  <2> QED BY <2>1, <1>1, <1>4, <1>t, ChargesTyped
<1>10. \A d \in Searches : search'[d].phase = "asking" /\ ~search'[d].aborted =>
         SumOf(Shares(search'[d].session), Searches) + search'[d].want <= SessionCap
  BY <1>1, <1>4, <1>t DEF SharesOK
<1> QED BY <1>2, <1>5, <1>6, <1>7, <1>8, <1>9, <1>10, QuietStep

LEMMA ReadSafe ==
  ASSUME QuotaInv, (\E c \in Searches : Read(c)) \/ DayTurns \/ UNCHANGED quotaVars
  PROVE  QuotaInv'
<1>t. QuotaTypes /\ ReadOK /\ SearchesOK /\ AloneOK /\ SharesOK BY DEF QuotaInv
<1>1. UNCHANGED <<quotaFile, search, reserved, currentSession>> BY DEF Read, DayTurns, quotaVars
<1>2. /\ read' \in [call : Searches \union {"none"}, ledger : Ledgers, day : Days] /\ day' \in Days
      /\ ReadOK'
  <2>1. CASE \E c \in Searches : Read(c)
    <3>1. PICK c \in Searches : Read(c) BY <2>1
    <3>2. read' = [call |-> c, ledger |-> quotaFile, day |-> day] /\ day' = day
          /\ search[c].phase \in {"asking", "settling"}
      BY <3>1 DEF Read
    <3> QED BY <3>2, <1>1, <1>t DEF QuotaTypes, ReadOK
  <2>2. CASE DayTurns
    <3>1. read' = read /\ day' \in Days BY <2>2, <1>t, QuotaValues DEF DayTurns, Days, QuotaTypes
    <3> QED BY <3>1, <1>1, <1>t DEF QuotaTypes, ReadOK
  <2>3. CASE UNCHANGED quotaVars
    <3>1. read' = read /\ day' = day BY <2>3 DEF quotaVars
    <3> QED BY <3>1, <1>1, <1>t DEF QuotaTypes, ReadOK
  <2> QED BY <2>1, <2>2, <2>3
<1>3. QuotaTypes' BY <1>1, <1>2, <1>t DEF QuotaTypes
<1>4. SearchesOK' /\ AloneOK' BY <1>1, <1>t DEF SearchesOK, AloneOK, Live
<1>5. \A c \in Searches : Charge(c)' = Charge(c) /\ Share(c)' = Share(c) BY <1>1 DEF Charge, Share
<1>6. \A c \in Searches : Charge(c) \in Nat /\ Share(c) \in Nat BY <1>t, ChargesTyped
<1>7. \A c \in Searches : search'[c].phase = "asking" /\ ~search'[c].aborted =>
         SumOf(Shares(search'[c].session), Searches) + search'[c].want <= SessionCap
  BY <1>1, <1>t DEF SharesOK
<1> QED BY <1>1, <1>2, <1>3, <1>4, <1>5, <1>6, <1>7, QuietStep

LEMMA SessionsSafe ==
  ASSUME QuotaInv, NewSession \/ QuotaRestart
  PROVE  QuotaInv'
<1>t. QuotaTypes /\ ReadOK /\ SearchesOK /\ AloneOK /\ SharesOK BY DEF QuotaInv
<1>0. currentSession' \in Sessions /\ UNCHANGED <<quotaFile, reserved, day>>
  BY <1>t, QuotaValues DEF NewSession, QuotaRestart, Sessions, QuotaTypes
<1>1. ASSUME NEW c \in Searches
      PROVE /\ search'[c] \in SearchRecords
            /\ search'[c].used = search[c].used /\ search'[c].limit = search[c].limit
            /\ search'[c].actual = search[c].actual
            /\ search'[c].day = search[c].day /\ search'[c].session = search[c].session
            /\ search'[c].phase = search[c].phase \/ (search'[c].phase = "over" /\ search[c].phase # "new" /\ read' = NoRead)
            /\ search'[c].phase \in Waiting => search'[c].aborted
  <2>0. search[c] \in SearchRecords BY <1>t DEF QuotaTypes
  <2>1. CASE NewSession
    <3>1. search'[c] = IF search[c].phase \in Waiting THEN [search[c] EXCEPT !.aborted = TRUE] ELSE search[c]
      BY <2>1 DEF NewSession
    <3> QED BY <3>1, <2>0 DEF SearchRecords
  <2>2. CASE QuotaRestart
    <3>1. search'[c] = IF search[c].phase = "new" THEN search[c] ELSE [search[c] EXCEPT !.phase = "over"]
      BY <2>2 DEF QuotaRestart
    <3>2. read' = NoRead BY <2>2 DEF QuotaRestart
    <3>3. search'[c].phase \notin Waiting BY <3>1, <2>0 DEF SearchRecords, Waiting
    <3>4. CASE search[c].phase = "new" BY <3>1, <3>3, <3>4, <2>0
    <3>5. CASE search[c].phase # "new"
      <4>1. search'[c] = [search[c] EXCEPT !.phase = "over"] BY <3>1, <3>5
      <4> QED BY <4>1, <3>2, <3>3, <3>5, <2>0 DEF SearchRecords, SearchPhases
    <3> QED BY <3>4, <3>5
  <2> QED BY <2>1, <2>2
<1>2. search' \in [Searches -> SearchRecords]
  <2>1. \E f \in [Searches -> SearchRecords] : search' = f
    <3>1. search' = [c \in Searches |-> search'[c]] BY DEF NewSession, QuotaRestart
    <3> QED BY <3>1, <1>1
  <2> QED BY <2>1
<1>3. read' = read \/ read' = NoRead BY DEF NewSession, QuotaRestart
<1>4. QuotaTypes' BY <1>0, <1>2, <1>3, <1>t, NothingIs DEF QuotaTypes
<1>5. ReadOK'
  <2>1. CASE read' = NoRead BY <2>1, NothingIs DEF ReadOK
  <2>2. CASE read' # NoRead
    <3>1. read' = read /\ \A c \in Searches : search'[c].phase = search[c].phase BY <2>2, <1>1, <1>3
    <3> QED BY <3>1, <1>0, <1>t DEF ReadOK, QuotaTypes
  <2> QED BY <2>1, <2>2
<1>6. SearchesOK'
  <2> SUFFICES ASSUME NEW c \in Searches
               PROVE /\ search'[c].used <= search'[c].limit
                     /\ search'[c].phase \in {"new", "asking"} => search'[c].used = 0 /\ search'[c].actual = 0
                     /\ search'[c].phase = "settling" => search'[c].actual = search'[c].used
    BY DEF SearchesOK
  <2> QED BY <1>1, <1>t DEF SearchesOK
<1>7. AloneOK' BY <1>1 DEF AloneOK, Live
<1>8. \A c \in Searches : Charge(c)' <= Charge(c) /\ Share(c)' <= Share(c)
  <2> SUFFICES ASSUME NEW c \in Searches PROVE Charge(c)' <= Charge(c) /\ Share(c)' <= Share(c)
    OBVIOUS
  <2>0. /\ search[c].limit \in Nat /\ search[c].used \in Nat /\ search[c].used <= search[c].limit
        /\ search[c].phase \in SearchPhases
    BY <1>t DEF QuotaTypes, SearchRecords, SearchesOK
  <2>1. CASE search'[c].phase = search[c].phase
    <3>1. Charge(c)' = Charge(c) /\ Share(c)' = Share(c) BY <2>1, <1>1 DEF Charge, Share
    <3> QED BY <3>1, <1>t, ChargesTyped
  <2>2. CASE search'[c].phase # search[c].phase
    <3>1. Charge(c)' = search[c].used /\ Share(c)' = search[c].used BY <2>2, <1>1 DEF Charge, Share
    <3>2. search[c].phase = "asking" => search[c].used = 0 BY <1>t DEF SearchesOK
    <3>3. search[c].phase # "new" BY <2>2, <1>1
    <3> QED BY <3>1, <3>2, <3>3, <2>0 DEF Charge, Share, SearchPhases
  <2> QED BY <2>1, <2>2
<1>9. \A c \in Searches : ~(search'[c].phase = "asking" /\ ~search'[c].aborted) BY <1>1 DEF Waiting
<1> QED BY <1>0, <1>1, <1>4, <1>5, <1>6, <1>7, <1>8, <1>9, QuietStep

-----------------------------------------------------------------------------
(* The steps that charge *)

\* The charge of one call changes with the ledger, on one day.
LEMMA ChargesMove ==
  ASSUME QuotaInv, QuotaTypes', NEW c \in Searches, \A d \in Searches : d # c => search'[d] = search[d],
         NEW e \in Days, NEW k \in Int, quotaFile' = Charged(quotaFile, e, k),
         search'[c].day = e, search[c].day = e \/ Charge(c) = 0, Charge(c)' <= Charge(c) + k,
         quotaFile.days[e] + k <= DailyLimit, quotaFile.months[MonthOf(e)] + k <= MonthlyLimit
  PROVE  ChargesOK'
<1>t. QuotaTypes /\ ChargesOK BY DEF QuotaInv
<1>1. Charge(c) \in Nat /\ Charge(c)' \in Nat BY <1>t, ChargesTyped, ChargesTypedNext
<1>2. \A d \in Searches : d # c => Charge(d)' = Charge(d) BY DEF Charge
<1>3. /\ \A d \in Days : quotaFile'.days[d] = IF d = e THEN quotaFile.days[d] + k ELSE quotaFile.days[d]
      /\ \A m \in QuotaMonths : quotaFile'.months[m] = IF m = MonthOf(e) THEN quotaFile.months[m] + k ELSE quotaFile.months[m]
  <2>1. quotaFile.days \in [Days -> Nat] /\ quotaFile.months \in [QuotaMonths -> Nat] BY <1>t DEF QuotaTypes, Ledgers
  <2>2. /\ quotaFile'.days = [quotaFile.days EXCEPT ![e] = @ + k]
        /\ quotaFile'.months = [quotaFile.months EXCEPT ![MonthOf(e)] = @ + k]
    BY DEF Charged, Ledger
  <2> HIDE DEF MonthOf
  <2> QED BY <2>1, <2>2
<1>4. ASSUME NEW d \in Days
      PROVE SumOf(DayCharges(d)', Searches) <= quotaFile'.days[d] /\ quotaFile'.days[d] <= DailyLimit
  <2> DEFINE v == DayCharges(d)'
             w == DayCharges(d)
             n == quotaFile.days[d]
             n2 == quotaFile'.days[d]
  <2>1. v \in [Searches -> Int] /\ w \in [Searches -> Int] BY <1>t, ChargesTyped, ChargesTypedNext
  <2>2. \A o \in Searches \ {c} : v[o] = w[o] BY <1>2 DEF DayCharges
  <2>3. SumOf(w, Searches) <= n /\ n \in Int /\ n <= DailyLimit BY <1>t, ChargesSum DEF ChargesOK
  <2>4. n2 = (IF d = e THEN n + k ELSE n) BY <1>3
  <2>5. /\ w[c] = IF search[c].day = d THEN Charge(c) ELSE 0
        /\ v[c] = IF d = e THEN Charge(c)' ELSE 0
    BY DEF DayCharges
  <2>6. d = e => n + k <= DailyLimit OBVIOUS
  <2> HIDE DEF v, w, n, n2
  <2>7. n - w[c] + v[c] <= n2 /\ n2 \in Int /\ n2 <= DailyLimit BY <1>1, <2>3, <2>4, <2>5, <2>6
  <2>8. SumOf(v, Searches) <= n2 BY <2>1, <2>2, <2>3, <2>7, QuotaValues, SumMoves
  <2> QED BY <2>7, <2>8 DEF v, n2
<1>5. ASSUME NEW m \in QuotaMonths
      PROVE SumOf(MonthCharges(m)', Searches) <= quotaFile'.months[m] /\ quotaFile'.months[m] <= MonthlyLimit
  <2> DEFINE v == MonthCharges(m)'
             w == MonthCharges(m)
             n == quotaFile.months[m]
             n2 == quotaFile'.months[m]
  <2>1. v \in [Searches -> Int] /\ w \in [Searches -> Int] BY <1>t, ChargesTyped, ChargesTypedNext
  <2>w. \A o \in Searches : /\ w[o] = IF MonthOf(search[o].day) = m THEN Charge(o) ELSE 0
                            /\ v[o] = IF MonthOf(search'[o].day) = m THEN Charge(o)' ELSE 0
    BY DEF MonthCharges, MonthOf
  <2>2. \A o \in Searches \ {c} : v[o] = w[o]
    <3> HIDE DEF v, w
    <3> QED BY <1>2, <2>w
  <2>3. SumOf(w, Searches) <= n /\ n \in Int /\ n <= MonthlyLimit BY <1>t, ChargesSum DEF ChargesOK
  <2>4. n2 = (IF m = MonthOf(e) THEN n + k ELSE n) BY <1>3
  <2>5. /\ w[c] = IF MonthOf(search[c].day) = m THEN Charge(c) ELSE 0
        /\ v[c] = IF m = MonthOf(e) THEN Charge(c)' ELSE 0
    <3> HIDE DEF v, w
    <3> QED BY <2>w
  <2>6. m = MonthOf(e) => n + k <= MonthlyLimit OBVIOUS
  <2> HIDE DEF v, w, n, n2
  <2>7. n - w[c] + v[c] <= n2 /\ n2 \in Int /\ n2 <= MonthlyLimit BY <1>1, <2>3, <2>4, <2>5, <2>6
  <2>8. SumOf(v, Searches) <= n2 BY <2>1, <2>2, <2>3, <2>7, QuotaValues, SumMoves
  <2> QED BY <2>7, <2>8 DEF v, n2
<1> QED BY <1>4, <1>5 DEF ChargesOK

\* One call's share of its session changes, and the session's counter by as much.
LEMMA SharesMove ==
  ASSUME QuotaInv, QuotaTypes', NEW c \in Searches, \A d \in Searches : d # c => search'[d] = search[d],
         NEW e \in Sessions, e = search[c].session, search'[c].session = e, search'[c].phase # "asking",
         \A s \in Sessions : reserved'[s] >= reserved[s] + (IF s = e THEN Share(c)' - Share(c) ELSE 0),
         \/ Share(c)' <= Share(c)
         \/ /\ search[c].phase = "asking" /\ ~search[c].aborted
            /\ Share(c)' <= Share(c) + search[c].want
  PROVE  SharesOK'
<1>t. QuotaTypes /\ SharesOK /\ AloneOK BY DEF QuotaInv
<1>0. Share(c) \in Nat /\ Share(c)' \in Nat /\ search[c].want \in Nat /\ SessionCap \in Nat
  BY <1>t, ChargesTyped, ChargesTypedNext, QuotaValues DEF QuotaTypes, SearchRecords
<1>1. \A d \in Searches : d # c => Share(d)' = Share(d) BY DEF Share
<1>2. ASSUME NEW s \in Sessions
      PROVE /\ SumOf(Shares(s)', Searches) = SumOf(Shares(s), Searches) + (IF s = e THEN Share(c)' - Share(c) ELSE 0)
            /\ SumOf(Shares(s), Searches) \in Int
  <2> DEFINE v == Shares(s)'
             w == Shares(s)
  <2>1. v \in [Searches -> Int] /\ w \in [Searches -> Int] BY <1>t, ChargesTyped, ChargesTypedNext
  <2>2. \A o \in Searches \ {c} : v[o] = w[o] BY <1>1 DEF Shares
  <2>3. w[c] = (IF s = e THEN Share(c) ELSE 0) /\ v[c] = (IF s = e THEN Share(c)' ELSE 0) BY DEF Shares
  <2>4. SumOf(w, Searches) \in Int BY <1>t, ChargesSum
  <2> HIDE DEF v, w
  <2>5. SumOf(v, Searches) = SumOf(w, Searches) - w[c] + v[c] BY <2>1, <2>2, QuotaValues, SumChange
  <2>6. SumOf(v, Searches) = SumOf(w, Searches) + (IF s = e THEN Share(c)' - Share(c) ELSE 0)
    BY <2>3, <2>4, <2>5, <1>0
  <2> QED BY <2>4, <2>6 DEF v, w
<1>3. ASSUME NEW s \in Sessions
      PROVE SumOf(Shares(s)', Searches) <= reserved'[s] /\ SumOf(Shares(s)', Searches) <= SessionCap
  <2> DEFINE a == SumOf(Shares(s)', Searches)
             b == SumOf(Shares(s), Searches)
             k == IF s = e THEN Share(c)' - Share(c) ELSE 0
  <2>1. a = b + k /\ b \in Int /\ k \in Int BY <1>0, <1>2
  <2>2. b <= reserved[s] /\ b <= SessionCap BY <1>t DEF SharesOK
  <2>3. reserved[s] \in Int /\ reserved'[s] \in Int /\ reserved'[s] >= reserved[s] + k BY <1>t DEF QuotaTypes
  <2>4. k <= 0 \/ (s = e /\ b + search[c].want <= SessionCap /\ k <= search[c].want)
    BY <1>0, <1>t DEF SharesOK
  <2> HIDE DEF a, b, k
  <2>5. a <= reserved'[s] /\ a <= SessionCap BY <1>0, <2>1, <2>2, <2>3, <2>4
  <2> QED BY <2>5 DEF a
<1>4. ASSUME NEW d \in Searches, search'[d].phase = "asking", ~search'[d].aborted
      PROVE  SumOf(Shares(search[d].session)', Searches) + search'[d].want <= SessionCap
  <2>1. d # c /\ search'[d] = search[d] BY <1>4
  <2>2. PICK s \in Sessions, k \in Nat : s = search[d].session /\ k = search[d].want
    BY <1>t DEF QuotaTypes, SearchRecords
  <2>3. SumOf(Shares(s), Searches) + k <= SessionCap BY <1>4, <2>1, <2>2, <1>t DEF SharesOK
  <2>4. Share(c)' <= Share(c) BY <1>4, <2>1, <1>t DEF AloneOK, Live, Waiting
  <2> DEFINE a == SumOf(Shares(s)', Searches)
             b == SumOf(Shares(s), Searches)
  <2>5. a <= b /\ a \in Int /\ b \in Int /\ b + k <= SessionCap BY <1>0, <1>2, <2>3, <2>4
  <2>6. Shares(search[d].session)' = Shares(s)' BY <2>1, <2>2 DEF Shares
  <2> HIDE DEF a, b
  <2>7. a + k <= SessionCap BY <2>5, <1>0
  <2> QED BY <2>1, <2>2, <2>6, <2>7 DEF a
<1> QED BY <1>3, <1>4 DEF SharesOK

LEMMA SearchAnsweredSafe ==
  ASSUME QuotaInv, NEW c \in Searches, SearchAnswered(c)
  PROVE  QuotaInv'
<1>t. QuotaTypes /\ ReadOK /\ SearchesOK /\ AloneOK BY DEF QuotaInv
<1>c. search[c] \in SearchRecords BY <1>t DEF QuotaTypes
<1> DEFINE r == [search[c] EXCEPT !.phase = "settling", !.actual = search[c].used]
<1>1. /\ r \in SearchRecords /\ r.phase = "settling" /\ r.used = search[c].used /\ r.limit = search[c].limit
      /\ r.actual = search[c].used /\ r.day = search[c].day /\ r.session = search[c].session
  BY <1>c DEF SearchRecords, SearchPhases
<1>2. search' = [search EXCEPT ![c] = r] BY DEF SearchAnswered
<1> HIDE DEF r
<1>3. /\ search' \in [Searches -> SearchRecords] /\ search'[c] = r
      /\ \A d \in Searches : d # c => search'[d] = search[d] /\ Charge(d)' = Charge(d) /\ Share(d)' = Share(d)
  BY <1>t, <1>1, <1>2, OneSearch
<1>4. PICK e \in Sessions : e = search[c].session BY <1>c DEF SearchRecords
<1>5. /\ search[c].phase = "calling" /\ UNCHANGED <<quotaFile, read, currentSession, day>>
      /\ reserved' = [reserved EXCEPT ![e] = @ + (search[c].used - search[c].limit)]
  BY <1>4 DEF SearchAnswered, Counted
<1>6. search[c].used \in Nat /\ search[c].limit \in Nat /\ search[c].used <= search[c].limit
  BY <1>c, <1>t DEF SearchRecords, SearchesOK
<1>7. /\ reserved' \in [Sessions -> Int]
      /\ \A s \in Sessions : reserved[s] \in Int
      /\ \A s \in Sessions : reserved'[s] = IF s = e THEN reserved[s] + (search[c].used - search[c].limit) ELSE reserved[s]
  BY <1>5, <1>6, <1>t DEF QuotaTypes
<1>8. QuotaTypes' BY <1>3, <1>5, <1>7, <1>t DEF QuotaTypes
<1>9. ReadOK' BY <1>3, <1>5, <1>t DEF ReadOK, QuotaTypes
<1>10. SearchesOK' BY <1>1, <1>3, <1>t DEF SearchesOK
<1>11. AloneOK'
  <2>1. \A d \in Searches : Live(d)' => Live(d) BY <1>1, <1>3 DEF Live, Waiting
  <2> QED BY <2>1, <1>t DEF AloneOK
<1>12. Charge(c) = search[c].limit /\ Charge(c)' = search[c].limit /\ Share(c) = search[c].limit /\ Share(c)' = search[c].used
  BY <1>1, <1>3, <1>5 DEF Charge, Share
<1>13. ChargesOK'
  <2>1. \A d \in Searches : Charge(d)' <= Charge(d) /\ (Charge(d)' = 0 \/ search'[d].day = search[d].day)
    BY <1>1, <1>3, <1>12, <1>t, ChargesTyped
  <2> QED BY <1>5, <1>8, <2>1, ChargesQuiet
<1>14. SharesOK'
  <2>1. \A s \in Sessions : reserved'[s] >= reserved[s] + (IF s = e THEN Share(c)' - Share(c) ELSE 0)
    BY <1>6, <1>7, <1>12
  <2>2. Share(c)' <= Share(c) BY <1>6, <1>12
  <2>3. search'[c].session = e /\ search'[c].phase # "asking" BY <1>1, <1>3, <1>4
  <2> QED BY <1>3, <1>4, <1>8, <2>1, <2>2, <2>3, SharesMove
<1> QED BY <1>8, <1>9, <1>10, <1>11, <1>13, <1>14 DEF QuotaInv

LEMMA ReserveSearchesSafe ==
  ASSUME QuotaInv, NEW c \in Searches, ReserveSearches(c)
  PROVE  QuotaInv'
<1>t. QuotaTypes /\ ReadOK /\ SearchesOK /\ AloneOK BY DEF QuotaInv
<1>c. search[c] \in SearchRecords BY <1>t DEF QuotaTypes
<1>0. /\ read.call = c /\ search[c].phase = "asking" /\ read.ledger = quotaFile
      /\ search[c].used = 0 /\ search[c].actual = 0
  BY <1>t, QuotaValues DEF ReserveSearches, ReadOK, SearchesOK
<1>1. PICK e \in Days, s0 \in Sessions : e = read.day /\ s0 = search[c].session
  BY <1>c, <1>t DEF QuotaTypes, SearchRecords
<1>2. /\ quotaFile.days \in [Days -> Nat] /\ quotaFile.months \in [QuotaMonths -> Nat]
      /\ MonthOf(e) \in QuotaMonths /\ search[c].want \in Nat /\ DailyLimit \in Nat /\ MonthlyLimit \in Nat
  BY <1>c, <1>t, QuotaValues DEF QuotaTypes, Ledgers, SearchRecords
<1>3. PICK n \in Nat : /\ n = Least({search[c].want, Left(read.ledger, read.day)})
                       /\ n <= search[c].want
                       /\ quotaFile.days[e] + n <= DailyLimit /\ quotaFile.months[MonthOf(e)] + n <= MonthlyLimit
  <2>1. PICK a \in Int, b \in Int : a = DailyLimit - quotaFile.days[e] /\ b = MonthlyLimit - quotaFile.months[MonthOf(e)]
    BY <1>2
  <2>2. Left(read.ledger, read.day) = Least({a, b}) BY <2>1, <1>0, <1>1 DEF Left
  <2>3. PICK l \in Int : l = Left(read.ledger, read.day) /\ l <= a /\ l <= b
    BY <2>2, LeastOf
  <2>4. PICK n \in Int : n = Least({search[c].want, l}) /\ n <= search[c].want /\ n <= l
    <3>1. PICK v \in Int : v = search[c].want BY <1>2
    <3>2. Least({v, l}) \in {v, l} /\ Least({v, l}) <= v /\ Least({v, l}) <= l BY LeastOf
    <3> QED BY <3>1, <3>2
  <2>5. n > 0 BY <2>3, <2>4 DEF ReserveSearches
  <2>6. n \in Nat /\ quotaFile.days[e] + n <= DailyLimit /\ quotaFile.months[MonthOf(e)] + n <= MonthlyLimit
    BY <2>1, <2>3, <2>4, <2>5, <1>2
  <2> QED BY <2>3, <2>4, <2>6
<1>4. /\ quotaFile' = Charged(quotaFile, e, n) /\ read' = NoRead /\ UNCHANGED <<currentSession, day>>
      /\ Granted(c, n)
  BY <1>0, <1>1, <1>3 DEF ReserveSearches
<1>5. PICK r \in SearchRecords :
        /\ search' = [search EXCEPT ![c] = r]
        /\ r.limit = n /\ r.day = e /\ r.session = s0 /\ r.actual = 0 /\ r.used <= n
        /\ r.aborted = search[c].aborted
        /\ \/ r.phase \in {"settling", "over"} /\ r.used = 0 /\ reserved' \in {reserved, Counted(c, n)}
           \/ r.phase = "calling" /\ ~search[c].aborted /\ reserved' = Counted(c, n)
  <2>d. /\ n >= 0
        /\ \/ search' = [search EXCEPT ![c].phase = "settling", ![c].limit = n, ![c].day = e] /\ reserved' = reserved
           \/ search' = [search EXCEPT ![c].phase = "over", ![c].limit = n, ![c].day = e] /\ reserved' = Counted(c, n)
           \/ ~search[c].aborted
    BY <1>1, <1>4 DEF Granted
  <2>1. CASE search' = [search EXCEPT ![c].phase = "settling", ![c].limit = n, ![c].day = e] /\ reserved' = reserved
    <3> DEFINE r == [search[c] EXCEPT !.phase = "settling", !.limit = n, !.day = e]
    <3>1. /\ r \in SearchRecords /\ r.phase = "settling" /\ r.limit = n /\ r.day = e /\ r.session = s0
          /\ r.actual = 0 /\ r.used = 0 /\ r.aborted = search[c].aborted
      BY <1>c, <1>0, <1>1 DEF SearchRecords, SearchPhases
    <3>2. search' = [search EXCEPT ![c] = r] /\ reserved' \in {reserved, Counted(c, n)} BY <2>1
    <3> HIDE DEF r
    <3> QED BY <2>d, <3>1, <3>2
  <2>2. CASE search' = [search EXCEPT ![c].phase = "over", ![c].limit = n, ![c].day = e] /\ reserved' = Counted(c, n)
    <3> DEFINE r == [search[c] EXCEPT !.phase = "over", !.limit = n, !.day = e]
    <3>1. /\ r \in SearchRecords /\ r.phase = "over" /\ r.limit = n /\ r.day = e /\ r.session = s0
          /\ r.actual = 0 /\ r.used = 0 /\ r.aborted = search[c].aborted
      BY <1>c, <1>0, <1>1 DEF SearchRecords, SearchPhases
    <3>2. search' = [search EXCEPT ![c] = r] /\ reserved' \in {reserved, Counted(c, n)} BY <2>2
    <3> HIDE DEF r
    <3> QED BY <2>d, <3>1, <3>2
  <2>3. CASE ~search[c].aborted
    <3>1. PICK used \in 0..n :
            /\ search' = [search EXCEPT ![c].phase = "calling", ![c].limit = n, ![c].day = e, ![c].used = used]
            /\ reserved' = Counted(c, n)
      BY <2>3, <1>1, <1>4 DEF Granted
    <3>2. used \in Nat /\ used <= n OBVIOUS
    <3> DEFINE r == [search[c] EXCEPT !.phase = "calling", !.limit = n, !.day = e, !.used = used]
    <3>3. /\ r \in SearchRecords /\ r.phase = "calling" /\ r.limit = n /\ r.day = e /\ r.session = s0
          /\ r.actual = 0 /\ r.used = used /\ r.aborted = search[c].aborted
      BY <3>2, <1>c, <1>0, <1>1 DEF SearchRecords, SearchPhases
    <3>4. search' = [search EXCEPT ![c] = r] BY <3>1
    <3> HIDE DEF r
    <3> QED BY <2>3, <3>1, <3>2, <3>3, <3>4
  <2> QED BY <2>d, <2>1, <2>2, <2>3
<1>6. /\ search' \in [Searches -> SearchRecords] /\ search'[c] = r
      /\ \A d \in Searches : d # c => search'[d] = search[d] /\ Charge(d)' = Charge(d) /\ Share(d)' = Share(d)
  BY <1>t, <1>5, OneSearch
<1>7. quotaFile' \in Ledgers
  <2>1. quotaFile' = [days |-> [quotaFile.days EXCEPT ![e] = @ + n],
                      months |-> [quotaFile.months EXCEPT ![MonthOf(e)] = @ + n]]
    BY <1>4 DEF Charged, Ledger
  <2> HIDE DEF MonthOf
  <2>2. [quotaFile.days EXCEPT ![e] = @ + n] \in [Days -> Nat] BY <1>2
  <2>3. [quotaFile.months EXCEPT ![MonthOf(e)] = @ + n] \in [QuotaMonths -> Nat] BY <1>2
  <2> QED BY <2>1, <2>2, <2>3 DEF Ledgers
<1>8. /\ reserved' \in [Sessions -> Int] /\ reserved \in [Sessions -> Int]
      /\ \A s \in Sessions : reserved'[s] >= reserved[s]
      /\ r.phase = "calling" => reserved'[s0] = reserved[s0] + n
  <2>1. reserved \in [Sessions -> Int] BY <1>t DEF QuotaTypes
  <2>2. Counted(c, n) = [reserved EXCEPT ![s0] = @ + n] BY <1>1 DEF Counted
  <2> QED BY <2>1, <2>2, <1>5
<1>9. QuotaTypes' BY <1>4, <1>6, <1>7, <1>8, <1>t, NothingIs DEF QuotaTypes
<1>10. ReadOK' BY <1>4, NothingIs DEF ReadOK
<1>11. SearchesOK' BY <1>5, <1>6, <1>t DEF SearchesOK
<1>12. AloneOK'
  <2>1. \A d \in Searches : Live(d)' => Live(d) BY <1>0, <1>5, <1>6 DEF Live, Waiting
  <2> QED BY <2>1, <1>t DEF AloneOK
<1>13. /\ Charge(c) = 0 /\ Share(c) = 0 /\ Charge(c)' <= n
       /\ r.phase = "calling" => Share(c)' = n
       /\ r.phase # "calling" => Share(c)' = 0
  BY <1>0, <1>5, <1>6 DEF Charge, Share
<1>14. ChargesOK'
  <2>1. search'[c].day = e /\ Charge(c)' <= Charge(c) + n BY <1>5, <1>6, <1>13
  <2>2. quotaFile.days[e] + n <= DailyLimit /\ quotaFile.months[MonthOf(e)] + n <= MonthlyLimit BY <1>3
  <2>3. quotaFile' = Charged(quotaFile, e, n) BY <1>4
  <2>4. n \in Int /\ (search[c].day = e \/ Charge(c) = 0) BY <1>13
  <2>5. \A d \in Searches : d # c => search'[d] = search[d] BY <1>6
  <2> QED BY <1>9, <2>1, <2>2, <2>3, <2>4, <2>5, ChargesMove
<1>15. SharesOK'
  <2>1. \A s \in Sessions : reserved'[s] >= reserved[s] + (IF s = s0 THEN Share(c)' - Share(c) ELSE 0)
    BY <1>8, <1>13
  <2>2. \/ Share(c)' <= Share(c)
        \/ /\ search[c].phase = "asking" /\ ~search[c].aborted
           /\ Share(c)' <= Share(c) + search[c].want
    BY <1>0, <1>2, <1>3, <1>5, <1>13
  <2>3. search'[c].session = s0 /\ search'[c].phase # "asking" BY <1>5, <1>6
  <2> QED BY <1>1, <1>6, <1>9, <2>1, <2>2, <2>3, SharesMove
<1> QED BY <1>9, <1>10, <1>11, <1>12, <1>14, <1>15 DEF QuotaInv

LEMMA SettleSearchesSafe ==
  ASSUME QuotaInv, NEW c \in Searches, SettleSearches(c)
  PROVE  QuotaInv'
<1>t. QuotaTypes /\ ReadOK /\ SearchesOK /\ AloneOK /\ ChargesOK BY DEF QuotaInv
<1>c. search[c] \in SearchRecords BY <1>t DEF QuotaTypes
<1>0. /\ read.call = c /\ search[c].phase = "settling" /\ read.ledger = quotaFile
      /\ search[c].actual = search[c].used /\ search[c].used <= search[c].limit
  BY <1>t, QuotaValues DEF SettleSearches, ReadOK, SearchesOK
<1>1. PICK e \in Days, s0 \in Sessions, k \in Int :
        /\ e = search[c].day /\ s0 = search[c].session /\ k = search[c].used - search[c].limit
        /\ search[c].used \in Nat /\ search[c].limit \in Nat
  BY <1>c DEF SearchRecords
<1>2. /\ quotaFile.days \in [Days -> Nat] /\ quotaFile.months \in [QuotaMonths -> Nat]
      /\ MonthOf(e) \in QuotaMonths /\ DailyLimit \in Nat /\ MonthlyLimit \in Nat
  BY <1>t, QuotaValues DEF QuotaTypes, Ledgers
<1>3. /\ quotaFile' = Charged(quotaFile, e, k) /\ read' = NoRead /\ UNCHANGED <<reserved, currentSession, day>>
      /\ quotaFile.days[e] >= search[c].limit /\ quotaFile.months[MonthOf(e)] >= search[c].limit
      /\ search' = [search EXCEPT ![c].phase = "over"]
  BY <1>0, <1>1 DEF SettleSearches
<1> DEFINE r == [search[c] EXCEPT !.phase = "over"]
<1>4. /\ r \in SearchRecords /\ r.phase = "over" /\ r.used = search[c].used /\ r.limit = search[c].limit
      /\ r.actual = search[c].actual /\ r.day = e /\ r.session = s0
  BY <1>c, <1>1 DEF SearchRecords, SearchPhases
<1>5. search' = [search EXCEPT ![c] = r] BY <1>3
<1> HIDE DEF r
<1>6. /\ search' \in [Searches -> SearchRecords] /\ search'[c] = r
      /\ \A d \in Searches : d # c => search'[d] = search[d] /\ Charge(d)' = Charge(d) /\ Share(d)' = Share(d)
  BY <1>t, <1>4, <1>5, OneSearch
<1>7. quotaFile' \in Ledgers
  <2>1. quotaFile' = [days |-> [quotaFile.days EXCEPT ![e] = @ + k],
                      months |-> [quotaFile.months EXCEPT ![MonthOf(e)] = @ + k]]
    BY <1>3 DEF Charged, Ledger
  <2> HIDE DEF MonthOf
  <2>2. quotaFile.days[e] + k \in Nat /\ quotaFile.months[MonthOf(e)] + k \in Nat BY <1>1, <1>2, <1>3
  <2>3. [quotaFile.days EXCEPT ![e] = @ + k] \in [Days -> Nat] BY <1>2, <2>2
  <2>4. [quotaFile.months EXCEPT ![MonthOf(e)] = @ + k] \in [QuotaMonths -> Nat] BY <1>2, <2>2
  <2> QED BY <2>1, <2>3, <2>4 DEF Ledgers
<1>8. QuotaTypes' BY <1>3, <1>6, <1>7, <1>t, NothingIs DEF QuotaTypes
<1>9. ReadOK' BY <1>3, NothingIs DEF ReadOK
<1>10. SearchesOK' BY <1>4, <1>6, <1>t DEF SearchesOK
<1>11. AloneOK'
  <2>1. \A d \in Searches : Live(d)' => Live(d) BY <1>4, <1>6 DEF Live, Waiting
  <2> QED BY <2>1, <1>t DEF AloneOK
<1>12. /\ Charge(c) = search[c].limit /\ Charge(c)' = search[c].used
       /\ Share(c) = search[c].used /\ Share(c)' = search[c].used
  BY <1>0, <1>4, <1>6 DEF Charge, Share
<1>13. ChargesOK'
  <2>1. search'[c].day = e /\ search[c].day = e /\ Charge(c)' <= Charge(c) + k BY <1>1, <1>4, <1>6, <1>12
  <2>2. quotaFile.days[e] <= DailyLimit /\ quotaFile.months[MonthOf(e)] <= MonthlyLimit
    BY <1>2, <1>t DEF ChargesOK
  <2>3. quotaFile.days[e] + k <= DailyLimit /\ quotaFile.months[MonthOf(e)] + k <= MonthlyLimit
    BY <2>2, <1>0, <1>1, <1>2
  <2> QED BY <1>3, <1>6, <1>8, <2>1, <2>3, ChargesMove
<1>14. SharesOK'
  <2>1. \A s \in Sessions : reserved[s] \in Int BY <1>t DEF QuotaTypes
  <2>2. \A s \in Sessions : reserved'[s] >= reserved[s] + (IF s = s0 THEN Share(c)' - Share(c) ELSE 0)
    BY <2>1, <1>1, <1>3, <1>12
  <2>3. Share(c)' <= Share(c) /\ search'[c].session = s0 /\ search'[c].phase # "asking"
    BY <1>1, <1>4, <1>6, <1>12
  <2> QED BY <1>1, <1>6, <1>8, <2>2, <2>3, SharesMove
<1> QED BY <1>8, <1>9, <1>10, <1>11, <1>13, <1>14 DEF QuotaInv

LEMMA QuotaBegins == QuotaInit => QuotaInv
<1> SUFFICES ASSUME QuotaInit PROVE QuotaInv
  OBVIOUS
<1>1. /\ quotaFile = Nothing /\ read = NoRead /\ search = [c \in Searches |-> NewSearch]
      /\ reserved = [s \in Sessions |-> 0] /\ currentSession = 1 /\ day = 1
  BY DEF QuotaInit
<1>2. Nothing \in Ledgers /\ (\A d \in Days : Nothing.days[d] = 0) /\ \A m \in QuotaMonths : Nothing.months[m] = 0
  BY DEF Nothing, Ledger, Ledgers
<1>3. NewSearch \in SearchRecords /\ NewSearch.phase = "new" /\ NewSearch.used = 0 /\ NewSearch.limit = 0 /\ NewSearch.actual = 0
  BY QuotaValues DEF NewSearch, SearchRecords, SearchPhases
<1>4. QuotaTypes BY <1>1, <1>2, <1>3, NothingIs, QuotaValues DEF QuotaTypes
<1>5. ReadOK BY <1>1, NothingIs DEF ReadOK
<1>6. SearchesOK BY <1>1, <1>3 DEF SearchesOK
<1>7. AloneOK BY <1>1, <1>3 DEF AloneOK, Live, Waiting
<1>8. \A c \in Searches : search[c].phase = "new" /\ Charge(c) = 0 /\ Share(c) = 0 BY <1>1, <1>3 DEF Charge, Share
<1>9. \A k : /\ SumOf(DayCharges(k), Searches) = 0 /\ SumOf(MonthCharges(k), Searches) = 0
             /\ SumOf(Shares(k), Searches) = 0
  <2>1. \A v \in [Searches -> Int] : (\A c \in Searches : v[c] = 0) => SumOf(v, Searches) = 0
    BY QuotaValues, SumZero
  <2>2. \A k : \A c \in Searches : DayCharges(k)[c] = 0 /\ MonthCharges(k)[c] = 0 /\ Shares(k)[c] = 0
    BY <1>8 DEF DayCharges, MonthCharges, Shares
  <2> QED BY <2>1, <2>2, <1>4, ChargesTyped
<1>10. ChargesOK BY <1>1, <1>2, <1>9, QuotaValues DEF ChargesOK
<1>11. SharesOK BY <1>1, <1>8, <1>9, QuotaValues DEF SharesOK
<1> QED BY <1>4, <1>5, <1>6, <1>7, <1>10, <1>11 DEF QuotaInv

LEMMA QuotaStep == QuotaInv /\ [QuotaNext]_quotaVars => QuotaInv'
<1> SUFFICES ASSUME QuotaInv, [QuotaNext]_quotaVars PROVE QuotaInv'
  OBVIOUS
<1>1. ASSUME NEW c \in Searches, Begin(c) PROVE QuotaInv' BY <1>1, BeginSafe
<1>2. ASSUME NEW c \in Searches, Abort(c) \/ SearchUnknown(c) \/ Fails(c) PROVE QuotaInv' BY <1>2, GivenUpSafe
<1>3. ASSUME NEW c \in Searches, SearchAnswered(c) PROVE QuotaInv' BY <1>3, SearchAnsweredSafe
<1>4. ASSUME NEW c \in Searches, ReserveSearches(c) PROVE QuotaInv' BY <1>4, ReserveSearchesSafe
<1>5. ASSUME NEW c \in Searches, SettleSearches(c) PROVE QuotaInv' BY <1>5, SettleSearchesSafe
<1>6. CASE (\E c \in Searches : Read(c)) \/ DayTurns \/ UNCHANGED quotaVars BY <1>6, ReadSafe
<1>7. CASE NewSession \/ QuotaRestart BY <1>7, SessionsSafe
<1> QED BY <1>1, <1>2, <1>3, <1>4, <1>5, <1>6, <1>7 DEF QuotaNext

\* What the calls of a set searched, as a sum over all calls.
LEMMA UsedHas ==
  ASSUME QuotaInv, NEW S \in SUBSET Searches, NEW w \in [Searches -> Int],
         \A c \in S : search[c].used <= w[c], \A c \in Searches : 0 <= w[c]
  PROVE  Used(S) \in Int /\ Used(S) <= SumOf(w, Searches)
<1>1. PICK v : v = [c \in Searches |-> search[c].used] OBVIOUS
<1>2. v \in [Searches -> Int] BY <1>1 DEF QuotaInv, QuotaTypes, SearchRecords
<1>3. Used(S) = SumOf(v, S)
  <2>1. \A s \in SUBSET S : s # {} => v[Pick(s)] = search[Pick(s)].used BY <1>1, Picked
  <2>2. \A f : [s \in SUBSET S |-> IF s = {} THEN 0 ELSE v[Pick(s)] + f[s \ {Pick(s)}]]
             = [s \in SUBSET S |-> IF s = {} THEN 0 ELSE search[Pick(s)].used + f[s \ {Pick(s)}]]
    BY <2>1
  <2>3. SumOf(v, S) = (CHOOSE f : f = [s \in SUBSET S |-> IF s = {} THEN 0 ELSE v[Pick(s)] + f[s \ {Pick(s)}]])[S]
    BY DEF SumOf, MapThenSumSet, MapThenFoldSet, Pick
  <2>4. Used(S) = (CHOOSE f : f = [s \in SUBSET S |-> IF s = {} THEN 0 ELSE search[Pick(s)].used + f[s \ {Pick(s)}]])[S]
    BY DEF Used, MapThenSumSet, MapThenFoldSet, Pick
  <2>5. (CHOOSE f : f = [s \in SUBSET S |-> IF s = {} THEN 0 ELSE v[Pick(s)] + f[s \ {Pick(s)}]])
      = (CHOOSE f : f = [s \in SUBSET S |-> IF s = {} THEN 0 ELSE search[Pick(s)].used + f[s \ {Pick(s)}]])
    BY <2>2
  <2> QED BY <2>3, <2>4, <2>5
<1>4. \A c \in S : v[c] <= w[c] BY <1>1
<1>5. SumOf(v, S) <= SumOf(w, Searches) BY <1>2, <1>4, QuotaValues, SumMono
<1>6. SumOf(v, S) \in Int BY <1>2, QuotaValues, SumValue
<1> QED BY <1>3, <1>5, <1>6

LEMMA QuotaHolds == QuotaInv => SearchesAreCharged
<1> SUFFICES ASSUME QuotaInv PROVE SearchesAreCharged
  OBVIOUS
<1>t. QuotaTypes /\ SearchesOK /\ ChargesOK /\ SharesOK BY DEF QuotaInv
<1>1. \A c \in Searches : /\ search[c].phase \in SearchPhases /\ search[c].used \in Nat /\ search[c].limit \in Nat
  BY <1>t DEF QuotaTypes, SearchRecords
<1>2. QuotaTypeOK BY <1>1, <1>t DEF QuotaTypes, Ledgers, QuotaTypeOK, SearchPhases
<1>3. \A c \in Searches : search[c].used <= Charge(c) /\ search[c].used <= Share(c)
  <2> SUFFICES ASSUME NEW c \in Searches PROVE search[c].used <= Charge(c) /\ search[c].used <= Share(c)
    OBVIOUS
  <2>1. search[c].used <= search[c].limit BY <1>t DEF SearchesOK
  <2>2. search[c].phase \in {"new", "asking"} => search[c].used = 0 BY <1>t DEF SearchesOK
  <2> QED BY <2>1, <2>2, <1>1 DEF Charge, Share, SearchPhases
<1>4. \A c \in Searches : Charge(c) \in Nat /\ Share(c) \in Nat BY <1>t, ChargesTyped
<1>5. ASSUME NEW d \in Days
      PROVE Used({c \in Searches : search[c].day = d}) <= quotaFile.days[d] /\ quotaFile.days[d] <= DailyLimit
  <2> DEFINE S == {c \in Searches : search[c].day = d}
             w == DayCharges(d)
  <2>1. /\ \A c \in S : search[c].used <= w[c]
        /\ \A c \in Searches : 0 <= w[c]
    BY <1>3, <1>4 DEF DayCharges
  <2>2. w \in [Searches -> Int] /\ S \in SUBSET Searches BY <1>t, ChargesTyped
  <2>3. SumOf(w, Searches) \in Int /\ quotaFile.days[d] \in Int /\ SumOf(w, Searches) <= quotaFile.days[d]
        /\ quotaFile.days[d] <= DailyLimit
    BY <1>t, ChargesSum DEF ChargesOK
  <2> HIDE DEF S, w
  <2>4. PICK x : x = w OBVIOUS
  <2>5. Used(S) \in Int /\ Used(S) <= SumOf(x, Searches) BY <2>1, <2>2, <2>4, UsedHas
  <2>6. Used(S) <= quotaFile.days[d] BY <2>3, <2>4, <2>5
  <2> QED BY <2>3, <2>6 DEF S
<1>6. ASSUME NEW m \in QuotaMonths
      PROVE /\ Used({c \in Searches : MonthOf(search[c].day) = m}) <= quotaFile.months[m]
            /\ quotaFile.months[m] <= MonthlyLimit
  <2> DEFINE S == {c \in Searches : MonthOf(search[c].day) = m}
             w == MonthCharges(m)
  <2>1. /\ \A c \in S : search[c].used <= w[c]
        /\ \A c \in Searches : 0 <= w[c]
    BY <1>3, <1>4 DEF MonthCharges
  <2>2. w \in [Searches -> Int] /\ S \in SUBSET Searches BY <1>t, ChargesTyped
  <2>3. SumOf(w, Searches) \in Int /\ quotaFile.months[m] \in Int /\ SumOf(w, Searches) <= quotaFile.months[m]
        /\ quotaFile.months[m] <= MonthlyLimit
    BY <1>t, ChargesSum DEF ChargesOK
  <2> HIDE DEF S, w
  <2>4. PICK x : x = w OBVIOUS
  <2>5. Used(S) \in Int /\ Used(S) <= SumOf(x, Searches) BY <2>1, <2>2, <2>4, UsedHas
  <2>6. Used(S) <= quotaFile.months[m] BY <2>3, <2>4, <2>5
  <2> QED BY <2>3, <2>6 DEF S
<1>7. ASSUME NEW s \in Sessions
      PROVE Used({c \in Searches : search[c].session = s}) <= SessionCap
  <2> DEFINE S == {c \in Searches : search[c].session = s}
             w == Shares(s)
  <2>1. /\ \A c \in S : search[c].used <= w[c]
        /\ \A c \in Searches : 0 <= w[c]
    BY <1>3, <1>4 DEF Shares
  <2>2. w \in [Searches -> Int] /\ S \in SUBSET Searches BY <1>t, ChargesTyped
  <2>3. SumOf(w, Searches) \in Int /\ SumOf(w, Searches) <= SessionCap BY <1>t, ChargesSum DEF SharesOK
  <2> HIDE DEF S, w
  <2>4. PICK x : x = w OBVIOUS
  <2>5. Used(S) \in Int /\ Used(S) <= SumOf(x, Searches) BY <2>1, <2>2, <2>4, UsedHas
  <2>6. Used(S) <= SessionCap BY <2>3, <2>4, <2>5, QuotaValues
  <2> QED BY <2>6 DEF S
<1> QED BY <1>2, <1>5, <1>6, <1>7 DEF SearchesAreCharged

\* Every search the provider made is charged to the day that granted it, and no
\* day, month or session searches more than it may: through aborted calls, lost
\* answers, refused writes and restarts (search-quota.ts:119-175).
THEOREM SearchesAreChargedAlways == QuotaSpec => []SearchesAreCharged
<1> QED BY QuotaBegins, QuotaStep, QuotaHolds, PTL DEF QuotaSpec

-----------------------------------------------------------------------------
(* Speech (SpeechCapture): what is submitted is what was said.             *)

JobRecords ==
  [stage : Stages, epoch : Nat, speech : BOOLEAN, queued : Nat, pending : Nat,
   sent : Nat, finished : BOOLEAN, ended : BOOLEAN, cancelled : BOOLEAN]
SlotRecords == [segment : Segments, text : Nat \union {Unknown}]
SpokenRecords == [segment : Segments, text : Nat \ {0}]

InOrder(q) == \A i, k \in DOMAIN q : i < k => q[i].segment < q[k].segment

\* Where the audio of a job may be at each of its stages.
StreamOK(j) ==
  /\ j.stage = "reserving" => ~j.ended
  /\ Streaming(j) => j.queued = 0
  /\ j.stage = "ready" /\ j.ended => j.pending = 0
  /\ j.stage = "done" => j.queued = 0 /\ j.pending = 0

\* The job that receives audio has not been told that its segment ended.
OpenOK(j) == ~j.finished /\ ~j.ended /\ ~j.cancelled /\ j.stage # "done"

Answering(j) == j.stage \in {"reserving", "connecting", "ready", "done"}
Received(j) == j.queued + j.pending + j.sent

\* The speech of segment s amounts to n chunks if anything was said in it.
Said(s, sp) == \E k \in DOMAIN sp : sp[k].segment = s
Amounts(s, n, sp) == \A k \in DOMAIN sp : sp[k].segment = s => sp[k].text = n

\* A text that has come is what was said; one to come is what its job received.
Truthful(slot, j, sp) ==
  /\ ~j.cancelled
  /\ slot.text # Unknown =>
       /\ j.stage = "reported"
       /\ slot.text # 0 <=> Said(slot.segment, sp)
       /\ Amounts(slot.segment, slot.text, sp)
  /\ slot.text = Unknown /\ Answering(j) =>
       /\ j.speech <=> Said(slot.segment, sp)
       /\ Amounts(slot.segment, Received(j), sp)

Collected(ss, sp, jb, cur) ==
  /\ ss \in Seq(SlotRecords) /\ InOrder(ss)
  /\ sp \in Seq(SpokenRecords) /\ InOrder(sp)
  /\ \A k \in DOMAIN sp : \E i \in DOMAIN ss : ss[i].segment = sp[k].segment
  /\ \A i \in DOMAIN ss : /\ Truthful(ss[i], jb[ss[i].segment], sp)
                          /\ ss[i].segment = cur => ss[i].text = Unknown

JobsOK(jb, cur) ==
  /\ jb \in [Segments -> JobRecords]
  /\ \A s \in Segments : StreamOK(jb[s])
  /\ cur \in 0 .. MaxSegments
  /\ cur # 0 => OpenOK(jb[cur])

\* The inductive invariant.
CaptureInv ==
  /\ generation \in Nat /\ segmentId \in 0 .. MaxSegments
  /\ \A i \in DOMAIN slots : slots[i].segment <= segmentId
  /\ JobsOK(jobs, current)
  /\ Collected(slots, spoken, jobs, current)

-----------------------------------------------------------------------------
(* The jobs.                                                               *)

\* What is read of a changed record.
LEMMA FlushAudioKeeps ==
  ASSUME NEW j \in JobRecords
  PROVE  LET k == FlushAudio(j) IN
         /\ k \in JobRecords /\ Received(k) = Received(j)
         /\ k.stage = j.stage /\ k.speech = j.speech /\ k.queued = j.queued
         /\ k.finished = j.finished /\ k.ended = j.ended /\ k.cancelled = j.cancelled
         /\ k.stage = "ready" /\ k.ended => k.pending = 0
<1> DEFINE rest == IF j.ended \/ j.pending = 0 THEN 0 ELSE 1
           k == FlushAudio(j)
<1>t. /\ j.stage \in Stages /\ j.epoch \in Nat /\ j.speech \in BOOLEAN /\ j.queued \in Nat
      /\ j.pending \in Nat /\ j.sent \in Nat
      /\ j.finished \in BOOLEAN /\ j.ended \in BOOLEAN /\ j.cancelled \in BOOLEAN
  BY DEF JobRecords
<1>1. CASE j.stage # "ready" BY <1>1 DEF FlushAudio
<1>2. CASE j.stage = "ready"
  <2>1. /\ rest \in Nat /\ rest <= j.pending
        /\ j.ended => rest = 0
        /\ j.sent + j.pending - rest \in Nat
    BY <1>t
  <2>2. k = [j EXCEPT !.sent = j.sent + j.pending - rest, !.pending = rest]
    BY <1>2 DEF FlushAudio
  <2> HIDE DEF k, rest
  <2>3. /\ k.sent = j.sent + j.pending - rest /\ k.pending = rest
        /\ k.epoch = j.epoch /\ k.stage = j.stage /\ k.speech = j.speech /\ k.queued = j.queued
        /\ k.finished = j.finished /\ k.ended = j.ended /\ k.cancelled = j.cancelled
    BY <2>2 DEF JobRecords
  <2>4. k \in JobRecords
    <3>1. PICK n \in Nat : n = j.sent + j.pending - rest BY <2>1
    <3>2. k = [j EXCEPT !.sent = n, !.pending = rest] BY <2>2, <3>1
    <3> QED BY <3>1, <3>2, <2>1 DEF JobRecords
  <2>5. Received(k) = Received(j)
    <3>1. Received(k) = j.queued + rest + (j.sent + j.pending - rest) BY <2>3 DEF Received
    <3> QED BY <3>1, <2>1, <1>t DEF Received
  <2> QED BY <2>1, <2>3, <2>4, <2>5 DEF k
<1> QED BY <1>1, <1>2

\* A chunk more for a job: the open one receives it.
LEMMA PushKeeps ==
  ASSUME NEW j \in JobRecords, StreamOK(j)
  PROVE  /\ Push(j) \in JobRecords /\ StreamOK(Push(j))
         /\ Push(j).stage = j.stage /\ Push(j).speech = j.speech
         /\ Push(j).cancelled = j.cancelled
         /\ OpenOK(j) => OpenOK(Push(j))
         /\ OpenOK(j) /\ Answering(j) => Received(Push(j)) = Received(j) + 1
<1>t. /\ j.stage \in Stages /\ j.queued \in Nat /\ j.pending \in Nat /\ j.sent \in Nat
      /\ j.finished \in BOOLEAN /\ j.ended \in BOOLEAN /\ j.cancelled \in BOOLEAN
  BY DEF JobRecords
<1>1. CASE j.finished \/ j.cancelled BY <1>1 DEF Push, OpenOK
<1>2. CASE ~(j.finished \/ j.cancelled) /\ j.stage = "reserving"
  <2>1. PICK k : k = [j EXCEPT !.queued = j.queued + 1] OBVIOUS
  <2>2. Push(j) = k BY <1>2, <2>1 DEF Push
  <2>3. k \in JobRecords BY <2>1, <1>t DEF JobRecords
  <2>4. /\ k.queued = j.queued + 1 /\ k.pending = j.pending /\ k.sent = j.sent
        /\ k.stage = j.stage /\ k.speech = j.speech /\ k.finished = j.finished
        /\ k.ended = j.ended /\ k.cancelled = j.cancelled
    BY <2>1 DEF JobRecords
  <2>5. Received(k) = Received(j) + 1 BY <2>4, <1>t DEF Received
  <2>6. StreamOK(k) BY <2>4, <1>2 DEF StreamOK, Streaming
  <2> QED BY <2>2, <2>3, <2>4, <2>5, <2>6 DEF OpenOK
<1>3. CASE ~(j.finished \/ j.cancelled) /\ j.stage # "reserving" /\ (j.ended \/ ~Streaming(j))
  <2>1. Push(j) = j BY <1>3 DEF Push, InnerPush
  <2> QED BY <2>1, <1>3 DEF OpenOK, Answering, Streaming
<1>4. CASE ~(j.finished \/ j.cancelled) /\ j.stage # "reserving" /\ ~j.ended /\ Streaming(j)
  <2>1. PICK k : k = [j EXCEPT !.pending = j.pending + 1] OBVIOUS
  <2>2. Push(j) = FlushAudio(k) BY <1>4, <2>1 DEF Push, InnerPush
  <2>3. k \in JobRecords BY <2>1, <1>t DEF JobRecords
  <2>4. /\ k.queued = j.queued /\ k.pending = j.pending + 1 /\ k.sent = j.sent
        /\ k.stage = j.stage /\ k.speech = j.speech /\ k.finished = j.finished
        /\ k.ended = j.ended /\ k.cancelled = j.cancelled
    BY <2>1 DEF JobRecords
  <2>5. Received(k) = Received(j) + 1 BY <2>4, <1>t DEF Received
  <2>6. PICK m : m = FlushAudio(k) OBVIOUS
  <2>7. /\ m \in JobRecords /\ Received(m) = Received(k)
        /\ m.stage = k.stage /\ m.speech = k.speech /\ m.queued = k.queued
        /\ m.finished = k.finished /\ m.ended = k.ended /\ m.cancelled = k.cancelled
        /\ m.stage = "ready" /\ m.ended => m.pending = 0
    BY <2>3, <2>6, FlushAudioKeeps
  <2>8. StreamOK(m) BY <2>4, <2>7, <1>4 DEF StreamOK, Streaming
  <2> QED BY <2>2, <2>4, <2>5, <2>6, <2>7, <2>8 DEF OpenOK
<1> QED BY <1>1, <1>2, <1>3, <1>4

\* The end of its segment changes nothing of what a job received.
LEMMA FinishKeeps ==
  ASSUME NEW j \in JobRecords, StreamOK(j)
  PROVE  /\ Finish(j) \in JobRecords /\ StreamOK(Finish(j))
         /\ Finish(j).stage = j.stage /\ Finish(j).speech = j.speech
         /\ Finish(j).cancelled = j.cancelled /\ Received(Finish(j)) = Received(j)
<1>t. /\ j.stage \in Stages /\ j.queued \in Nat /\ j.pending \in Nat /\ j.sent \in Nat
      /\ j.finished \in BOOLEAN /\ j.ended \in BOOLEAN /\ j.cancelled \in BOOLEAN
  BY DEF JobRecords
<1>1. CASE j.finished \/ j.cancelled BY <1>1 DEF Finish
<1>2. CASE ~(j.finished \/ j.cancelled)
  <2>1. PICK k : k = [j EXCEPT !.finished = TRUE] OBVIOUS
  <2>3. k \in JobRecords BY <2>1 DEF JobRecords
  <2>4. /\ k.queued = j.queued /\ k.pending = j.pending /\ k.sent = j.sent
        /\ k.stage = j.stage /\ k.speech = j.speech
        /\ k.ended = j.ended /\ k.cancelled = j.cancelled
    BY <2>1 DEF JobRecords
  <2>5. Received(k) = Received(j) BY <2>4 DEF Received
  <2>6. Finish(j) = InnerFinish(k) BY <1>2, <2>1 DEF Finish
  <2>7. CASE k.ended \/ ~Streaming(k)
    <3>1. Finish(j) = k BY <2>6, <2>7 DEF InnerFinish
    <3>2. StreamOK(k) BY <2>4 DEF StreamOK, Streaming
    <3> QED BY <3>1, <3>2, <2>3, <2>4, <2>5
  <2>8. CASE ~k.ended /\ Streaming(k)
    <3>1. PICK e : e = [k EXCEPT !.ended = TRUE] OBVIOUS
    <3>2. e \in JobRecords BY <3>1, <2>3 DEF JobRecords
    <3>3. /\ e.queued = k.queued /\ e.pending = k.pending /\ e.sent = k.sent
          /\ e.stage = k.stage /\ e.speech = k.speech /\ e.cancelled = k.cancelled
      BY <3>1, <2>3 DEF JobRecords
    <3>4. Received(e) = Received(k) BY <3>3 DEF Received
    <3>5. PICK m : m = FlushAudio(e) OBVIOUS
    <3>6. /\ m \in JobRecords /\ Received(m) = Received(e)
          /\ m.stage = e.stage /\ m.speech = e.speech /\ m.queued = e.queued
          /\ m.cancelled = e.cancelled
          /\ m.stage = "ready" /\ m.ended => m.pending = 0
      BY <3>2, <3>5, FlushAudioKeeps
    <3>7. Finish(j) = m BY <2>6, <2>8, <3>1, <3>5 DEF InnerFinish
    <3>8. StreamOK(m) BY <2>4, <2>8, <3>3, <3>6 DEF StreamOK, Streaming
    <3> QED BY <2>4, <2>5, <3>3, <3>4, <3>6, <3>7, <3>8
  <2> QED BY <2>7, <2>8
<1> QED BY <1>1, <1>2

\* The stream exists: what was queued goes to it, and perhaps the end.
LEMMA OpenedKeeps ==
  ASSUME NEW j \in JobRecords, StreamOK(j), j.stage = "reserving"
  PROVE  /\ Opened(j) \in JobRecords /\ StreamOK(Opened(j))
         /\ Opened(j).stage = "connecting" /\ Opened(j).speech = j.speech
         /\ Opened(j).cancelled = j.cancelled /\ Received(Opened(j)) = Received(j)
         /\ OpenOK(j) => OpenOK(Opened(j))
<1>t. /\ j.stage \in Stages /\ j.queued \in Nat /\ j.pending \in Nat /\ j.sent \in Nat
      /\ j.finished \in BOOLEAN /\ j.ended = FALSE /\ j.cancelled \in BOOLEAN
  BY DEF JobRecords, StreamOK
<1>1. PICK k : k = [j EXCEPT !.stage = "connecting", !.queued = 0] OBVIOUS
<1>2. k \in JobRecords BY <1>1 DEF JobRecords, Stages
<1>3. /\ k.queued = 0 /\ k.pending = j.pending /\ k.sent = j.sent
      /\ k.stage = "connecting" /\ k.speech = j.speech /\ k.finished = j.finished
      /\ k.ended = FALSE /\ k.cancelled = j.cancelled
  BY <1>1, <1>t DEF JobRecords
<1>4. PICK p : p = [k EXCEPT !.pending = j.pending + j.queued] OBVIOUS
<1>5. p \in JobRecords BY <1>2, <1>4, <1>t DEF JobRecords
<1>6. /\ p.queued = 0 /\ p.pending = j.pending + j.queued /\ p.sent = j.sent
      /\ p.stage = "connecting" /\ p.speech = j.speech /\ p.finished = j.finished
      /\ p.ended = FALSE /\ p.cancelled = j.cancelled
  BY <1>2, <1>3, <1>4 DEF JobRecords
<1>7. Received(p) = Received(j) BY <1>6, <1>t DEF Received
<1>8. InnerPush(k, j.queued) = p
  <2>1. InnerPush(k, j.queued) = FlushAudio([k EXCEPT !.pending = @ + j.queued])
    BY <1>3 DEF InnerPush, Streaming
  <2>2. FlushAudio(p) = p BY <1>6 DEF FlushAudio
  <2>3. [k EXCEPT !.pending = @ + j.queued] = p BY <1>3, <1>4
  <2> QED BY <2>1, <2>2, <2>3
<1>9. Opened(j) = IF j.finished THEN InnerFinish(p) ELSE p BY <1>1, <1>8 DEF Opened
<1>10. CASE ~j.finished
  <2>1. Opened(j) = p BY <1>9, <1>10
  <2>2. StreamOK(p) BY <1>6 DEF StreamOK, Streaming
  <2> QED BY <2>1, <2>2, <1>5, <1>6, <1>7, <1>10 DEF OpenOK
<1>11. CASE j.finished
  <2>1. PICK e : e = [p EXCEPT !.ended = TRUE] OBVIOUS
  <2>2. e \in JobRecords BY <2>1, <1>5 DEF JobRecords
  <2>3. /\ e.queued = 0 /\ e.pending = p.pending /\ e.sent = p.sent
        /\ e.stage = "connecting" /\ e.speech = p.speech /\ e.cancelled = p.cancelled
    BY <2>1, <1>5, <1>6 DEF JobRecords
  <2>4. Opened(j) = e
    <3>1. InnerFinish(p) = FlushAudio(e) BY <1>6, <2>1 DEF InnerFinish, Streaming
    <3>2. FlushAudio(e) = e BY <2>3 DEF FlushAudio
    <3> QED BY <1>9, <1>11, <3>1, <3>2
  <2>5. StreamOK(e) BY <2>3 DEF StreamOK, Streaming
  <2>6. Received(e) = Received(j) BY <2>3, <1>6, <1>7 DEF Received
  <2> QED BY <2>2, <2>3, <2>4, <2>5, <2>6, <1>6, <1>11 DEF OpenOK
<1> QED BY <1>10, <1>11

\* The handshake is over: what was kept during it is sent.
LEMMA ReadyKeeps ==
  ASSUME NEW j \in JobRecords, StreamOK(j), j.stage = "connecting",
         NEW m, m = FlushAudio([j EXCEPT !.stage = "ready"])
  PROVE  /\ m \in JobRecords /\ StreamOK(m)
         /\ m.stage = "ready" /\ m.speech = j.speech
         /\ m.cancelled = j.cancelled /\ Received(m) = Received(j)
         /\ OpenOK(j) => OpenOK(m)
<1>1. PICK k : k = [j EXCEPT !.stage = "ready"] OBVIOUS
<1>2. k \in JobRecords BY <1>1 DEF JobRecords, Stages
<1>3. /\ k.queued = j.queued /\ k.pending = j.pending /\ k.sent = j.sent
      /\ k.stage = "ready" /\ k.speech = j.speech /\ k.finished = j.finished
      /\ k.ended = j.ended /\ k.cancelled = j.cancelled
  BY <1>1 DEF JobRecords
<1>4. Received(k) = Received(j) BY <1>3 DEF Received
<1>5. /\ m \in JobRecords /\ Received(m) = Received(k)
      /\ m.stage = k.stage /\ m.speech = k.speech /\ m.queued = k.queued
      /\ m.finished = k.finished /\ m.ended = k.ended /\ m.cancelled = k.cancelled
      /\ m.stage = "ready" /\ m.ended => m.pending = 0
  BY <1>1, <1>2, FlushAudioKeeps
<1>6. StreamOK(m) BY <1>3, <1>5 DEF StreamOK, Streaming
<1> QED BY <1>3, <1>4, <1>5, <1>6 DEF OpenOK

\* A job that has ended.
LEMMA SettledIs ==
  ASSUME NEW j \in JobRecords, NEW stage \in {"done", "failed"}, NEW m, m = Settled(j, stage)
  PROVE  /\ m \in JobRecords /\ StreamOK(m) /\ m.stage = stage /\ m.speech = j.speech
         /\ m.sent = j.sent /\ ~m.cancelled /\ Received(m) = j.sent
         /\ stage = "failed" => OpenOK(m)
<1>t. j.epoch \in Nat /\ j.speech \in BOOLEAN /\ j.sent \in Nat BY DEF JobRecords
<1>1. m = [stage |-> stage, epoch |-> j.epoch, speech |-> j.speech, queued |-> 0, pending |-> 0,
           sent |-> j.sent, finished |-> FALSE, ended |-> FALSE, cancelled |-> FALSE]
  BY DEF Settled, NoJob
<1>2. m \in JobRecords BY <1>1, <1>t DEF JobRecords, Stages
<1>3. StreamOK(m) BY <1>1 DEF StreamOK, Streaming
<1>4. Received(m) = j.sent BY <1>1, <1>t DEF Received
<1> QED BY <1>1, <1>2, <1>3, <1>4 DEF OpenOK

LEMMA ReportedIs ==
  /\ Reported \in JobRecords /\ StreamOK(Reported) /\ OpenOK(Reported)
  /\ Reported.stage = "reported" /\ ~Reported.cancelled
<1>1. Reported = [stage |-> "reported", epoch |-> 0, speech |-> FALSE, queued |-> 0, pending |-> 0,
                  sent |-> 0, finished |-> FALSE, ended |-> FALSE, cancelled |-> FALSE]
  <2>1. PICK n : n = [stage |-> "none", epoch |-> 0, speech |-> FALSE, queued |-> 0, pending |-> 0,
                      sent |-> 0, finished |-> FALSE, ended |-> FALSE, cancelled |-> FALSE]
    OBVIOUS
  <2>2. Reported = [n EXCEPT !.stage = "reported"] BY <2>1 DEF Reported, NoJob
  <2> QED BY <2>1, <2>2
<1>2. Reported \in JobRecords BY <1>1 DEF JobRecords, Stages
<1> QED BY <1>1, <1>2 DEF StreamOK, Streaming, OpenOK

-----------------------------------------------------------------------------
(* Steps of the jobs.                                                      *)

\* One job moves and its slot, if it has one, does not see it.
LEMMA OneJobMoves ==
  ASSUME CaptureInv, NEW s \in Segments, NEW j \in JobRecords, StreamOK(j),
         ~jobs[s].cancelled => ~j.cancelled,
         jobs[s].stage = "reported" => j.stage = "reported",
         Answering(j) => /\ Answering(jobs[s]) /\ j.speech = jobs[s].speech
                         /\ Received(j) = Received(jobs[s]),
         jobs' = [jobs EXCEPT ![s] = j],
         UNCHANGED <<generation, segmentId, slots, spoken>>,
         current' \in {0, current},
         current' = s => OpenOK(j)
  PROVE  CaptureInv'
<1>1. /\ generation \in Nat /\ segmentId \in 0 .. MaxSegments
      /\ \A i \in DOMAIN slots : slots[i].segment <= segmentId
      /\ JobsOK(jobs, current) /\ Collected(slots, spoken, jobs, current)
  BY DEF CaptureInv
<1>2. /\ \A x \in Segments : jobs'[x] = IF x = s THEN j ELSE jobs[x]
      /\ jobs' \in [Segments -> JobRecords]
  BY <1>1 DEF JobsOK
<1>3. JobsOK(jobs', current')
  <2>1. \A x \in Segments : StreamOK(jobs'[x]) BY <1>1, <1>2 DEF JobsOK
  <2>2. current' \in 0 .. MaxSegments BY <1>1, SpeechAssumption DEF JobsOK
  <2>3. ASSUME current' # 0 PROVE OpenOK(jobs'[current'])
    <3>1. current' = current /\ current' \in Segments BY <2>2, <2>3, SpeechAssumption DEF Segments
    <3> QED BY <1>1, <1>2, <2>3, <3>1 DEF JobsOK
  <2> QED BY <1>2, <2>1, <2>2, <2>3 DEF JobsOK
<1>4. Collected(slots, spoken, jobs', current')
  <2>1. ASSUME NEW i \in DOMAIN slots
        PROVE  /\ Truthful(slots[i], jobs'[slots[i].segment], spoken)
               /\ slots[i].segment = current' => slots[i].text = Unknown
    <3>s. slots[i] \in SlotRecords BY <1>1 DEF Collected
    <3>1. /\ slots[i].segment \in Segments
          /\ Truthful(slots[i], jobs[slots[i].segment], spoken)
          /\ slots[i].segment = current => slots[i].text = Unknown
      BY <1>1, <3>s DEF Collected, SlotRecords
    <3>2. slots[i].segment # 0 BY <3>1 DEF Segments
    <3>3. CASE slots[i].segment # s BY <1>2, <3>1, <3>2, <3>3
    <3>4. CASE slots[i].segment = s
      <4>1. jobs'[slots[i].segment] = j BY <1>2, <3>4
      <4>2. Truthful(slots[i], j, spoken) BY <3>1, <3>4 DEF Truthful
      <4> QED BY <3>1, <3>2, <4>1, <4>2
    <3> QED BY <3>3, <3>4
  <2> QED BY <1>1, <2>1 DEF Collected
<1> QED BY <1>1, <1>3, <1>4 DEF CaptureInv

LEMMA ReserveKeeps ==
  ASSUME CaptureInv, NEW s \in Segments, Reserve(s)
  PROVE  CaptureInv'
<1>t. /\ jobs[s] \in JobRecords /\ StreamOK(jobs[s])
      /\ current = s => OpenOK(jobs[s])
      /\ s # 0
  BY DEF CaptureInv, JobsOK, Segments
<1>1. jobs[s].stage = "reserving" /\ UNCHANGED capture BY DEF Reserve
<1>2. UNCHANGED <<generation, segmentId, slots, spoken>> /\ current' = current
  BY <1>1 DEF capture, detector
<1>3. CASE jobs[s].cancelled
  <2>1. PICK m : m = Settled(jobs[s], "failed") OBVIOUS
  <2>2. jobs' = [jobs EXCEPT ![s] = m] BY <2>1, <1>3 DEF Reserve
  <2>3. m \in JobRecords /\ StreamOK(m) /\ m.stage = "failed" /\ ~m.cancelled /\ OpenOK(m)
    BY <2>1, <1>t, SettledIs
  <2>4. ~Answering(m) BY <2>3 DEF Answering
  <2> QED BY <2>2, <2>3, <2>4, <1>1, <1>2, OneJobMoves
<1>4. CASE ~jobs[s].cancelled
  <2>1. PICK m : m = Opened(jobs[s]) OBVIOUS
  <2>2. jobs' = [jobs EXCEPT ![s] = m] BY <2>1, <1>4 DEF Reserve
  <2>3. /\ m \in JobRecords /\ StreamOK(m) /\ m.speech = jobs[s].speech
        /\ m.cancelled = jobs[s].cancelled /\ Received(m) = Received(jobs[s])
        /\ OpenOK(jobs[s]) => OpenOK(m)
    BY <2>1, <1>1, <1>t, OpenedKeeps
  <2>4. Answering(jobs[s]) BY <1>1 DEF Answering
  <2> QED BY <2>2, <2>3, <2>4, <1>1, <1>2, <1>t, OneJobMoves
<1> QED BY <1>3, <1>4

LEMMA ReadyStep ==
  ASSUME CaptureInv, NEW s \in Segments, Ready(s)
  PROVE  CaptureInv'
<1>t. /\ jobs[s] \in JobRecords /\ StreamOK(jobs[s])
      /\ current = s => OpenOK(jobs[s])
      /\ jobs \in [Segments -> JobRecords] /\ s # 0
  BY DEF CaptureInv, JobsOK, Segments
<1>1. jobs[s].stage = "connecting" /\ UNCHANGED capture BY DEF Ready
<1>2. UNCHANGED <<generation, segmentId, slots, spoken>> /\ current' = current
  BY <1>1 DEF capture, detector
<1>3. PICK m : m = FlushAudio([jobs[s] EXCEPT !.stage = "ready"]) OBVIOUS
<1>4. jobs' = [jobs EXCEPT ![s] = m] BY <1>3 DEF Ready
<1>5. /\ m \in JobRecords /\ StreamOK(m) /\ m.speech = jobs[s].speech
      /\ m.cancelled = jobs[s].cancelled /\ Received(m) = Received(jobs[s])
      /\ OpenOK(jobs[s]) => OpenOK(m)
  BY <1>1, <1>3, <1>t, ReadyKeeps
<1>6. Answering(jobs[s]) BY <1>1 DEF Answering
<1> QED BY <1>1, <1>2, <1>4, <1>5, <1>6, <1>t, OneJobMoves

LEMMA CompleteStep ==
  ASSUME CaptureInv, NEW s \in Segments, Complete(s)
  PROVE  CaptureInv'
<1>t. /\ jobs[s] \in JobRecords /\ StreamOK(jobs[s])
      /\ current = s => OpenOK(jobs[s])
      /\ s # 0
  BY DEF CaptureInv, JobsOK, Segments
<1>1. jobs[s].stage = "ready" /\ jobs[s].ended /\ UNCHANGED capture BY DEF Complete
<1>2. UNCHANGED <<generation, segmentId, slots, spoken>> /\ current' = current
  BY <1>1 DEF capture, detector
<1>3. PICK m : m = Settled(jobs[s], "done") OBVIOUS
<1>4. jobs' = [jobs EXCEPT ![s] = m] BY <1>3 DEF Complete
<1>5. /\ m \in JobRecords /\ StreamOK(m) /\ m.speech = jobs[s].speech
      /\ ~m.cancelled /\ Received(m) = jobs[s].sent
  BY <1>3, <1>t, SettledIs
<1>6. Received(jobs[s]) = jobs[s].sent
  <2>1. jobs[s].queued = 0 /\ jobs[s].pending = 0 BY <1>1, <1>t DEF StreamOK, Streaming
  <2>2. jobs[s].sent \in Nat BY <1>t DEF JobRecords
  <2> QED BY <2>1, <2>2 DEF Received
<1>7. current # s BY <1>1, <1>t DEF OpenOK
<1>8. Answering(jobs[s]) BY <1>1 DEF Answering
<1> QED BY <1>1, <1>2, <1>4, <1>5, <1>6, <1>7, <1>8, OneJobMoves

LEMMA JobFailsStep ==
  ASSUME CaptureInv, NEW s \in Segments, JobFails(s)
  PROVE  CaptureInv'
<1>t. jobs[s] \in JobRecords BY DEF CaptureInv, JobsOK
<1>1. jobs[s].stage # "reported" /\ UNCHANGED capture BY DEF JobFails
<1>2. UNCHANGED <<generation, segmentId, slots, spoken>> /\ current' = current
  BY <1>1 DEF capture, detector
<1>3. PICK m : m = Settled(jobs[s], "failed") OBVIOUS
<1>4. jobs' = [jobs EXCEPT ![s] = m] BY <1>3 DEF JobFails
<1>5. m \in JobRecords /\ StreamOK(m) /\ m.stage = "failed" /\ ~m.cancelled /\ OpenOK(m)
  BY <1>3, <1>t, SettledIs
<1>6. ~Answering(m) BY <1>5 DEF Answering
<1> QED BY <1>1, <1>2, <1>4, <1>5, <1>6, OneJobMoves

LEMMA ReportStep ==
  ASSUME CaptureInv, NEW s \in Segments, Report(s)
  PROVE  CaptureInv'
<1>1. /\ jobs' = [jobs EXCEPT ![s] = Reported]
      /\ UNCHANGED <<generation, segmentId, slots, spoken>> /\ current' = current
  BY DEF Report, detector
<1>2. ~Answering(Reported) BY ReportedIs DEF Answering
<1> QED BY <1>1, <1>2, ReportedIs, OneJobMoves

-----------------------------------------------------------------------------
(* Steps of the capture.                                                   *)

LEMMA CancelKeeps ==
  ASSUME NEW j \in JobRecords, StreamOK(j)
  PROVE  Cancel(j) \in JobRecords /\ StreamOK(Cancel(j))
<1>1. CASE Streaming(j) BY <1>1, SettledIs DEF Cancel
<1>2. CASE ~Streaming(j) /\ j.stage = "reserving"
  <2>1. PICK k : k = [j EXCEPT !.cancelled = TRUE, !.queued = 0] OBVIOUS
  <2>2. Cancel(j) = k BY <1>2, <2>1 DEF Cancel
  <2>3. k \in JobRecords /\ k.stage = "reserving" /\ k.ended = j.ended
    BY <1>2, <2>1 DEF JobRecords
  <2> QED BY <1>2, <2>2, <2>3 DEF StreamOK, Streaming
<1>3. CASE ~Streaming(j) /\ j.stage # "reserving" BY <1>3 DEF Cancel
<1> QED BY <1>1, <1>2, <1>3

\* Nothing of the capture is left.
LEMMA EmptyKeeps ==
  ASSUME CaptureInv, JobsOK(jobs', current'), generation' \in Nat, segmentId' = segmentId,
         slots' = <<>>, spoken' = <<>>
  PROVE  CaptureInv'
<1>1. Collected(slots', spoken', jobs', current') BY DEF Collected, InOrder
<1>2. segmentId \in 0 .. MaxSegments BY DEF CaptureInv
<1> QED BY <1>1, <1>2 DEF CaptureInv

LEMMA ClearCaptureKeeps ==
  ASSUME CaptureInv, ClearCapture
  PROVE  CaptureInv' /\ generation' # generation
<1>1. /\ generation \in Nat /\ jobs \in [Segments -> JobRecords]
      /\ \A s \in Segments : StreamOK(jobs[s])
  BY DEF CaptureInv, JobsOK
<1>2. generation' \in Nat /\ generation' # generation BY <1>1 DEF ClearCapture
<1>3. jobs' \in [Segments -> JobRecords] /\ \A s \in Segments : StreamOK(jobs'[s])
  BY <1>1, CancelKeeps DEF ClearCapture
<1>4. JobsOK(jobs', current')
  <2>1. current' = 0 /\ 0 \in 0 .. MaxSegments BY SpeechAssumption DEF ClearCapture
  <2> QED BY <1>3, <2>1 DEF JobsOK
<1>5. segmentId' = segmentId /\ slots' = <<>> /\ spoken' = <<>> BY DEF ClearCapture
<1> QED BY <1>2, <1>4, <1>5, EmptyKeeps

LEMMA RestKeeps ==
  ASSUME CaptureInv, UNCHANGED <<generation, segmentId, slots, spoken, jobs, current>>
  PROVE  CaptureInv'
BY DEF CaptureInv

LEMMA EndSegmentKeeps ==
  ASSUME CaptureInv, EndSegment, UNCHANGED <<generation, segmentId, slots, spoken>>
  PROVE  CaptureInv'
<1>1. current' = 0 BY DEF EndSegment
<1>2. CASE current = 0
  <2>1. jobs' = jobs BY <1>2 DEF EndSegment
  <2> QED BY <1>1, <1>2, <2>1, RestKeeps
<1>3. CASE current # 0
  <2>1. PICK m : m = Finish(jobs[current]) OBVIOUS
  <2>2. jobs' = [jobs EXCEPT ![current] = m] BY <1>3, <2>1 DEF EndSegment
  <2>3. current \in Segments BY <1>3, SpeechAssumption DEF CaptureInv, JobsOK, Segments
  <2>4. jobs[current] \in JobRecords /\ StreamOK(jobs[current])
    BY <2>3 DEF CaptureInv, JobsOK
  <2>5. /\ m \in JobRecords /\ StreamOK(m) /\ m.stage = jobs[current].stage
        /\ m.speech = jobs[current].speech /\ m.cancelled = jobs[current].cancelled
        /\ Received(m) = Received(jobs[current])
    BY <2>1, <2>4, FinishKeeps
  <2>6. Answering(m) => Answering(jobs[current]) BY <2>5 DEF Answering
  <2> QED BY <1>1, <1>3, <2>2, <2>3, <2>5, <2>6, OneJobMoves
<1> QED BY <1>2, <1>3

LEMMA NextChunkKeeps ==
  ASSUME CaptureInv, NextChunk
  PROVE  CaptureInv'
<1>1. /\ generation \in Nat /\ segmentId \in 0 .. MaxSegments
      /\ \A i \in DOMAIN slots : slots[i].segment <= segmentId
      /\ JobsOK(jobs, current) /\ Collected(slots, spoken, jobs, current)
  BY DEF CaptureInv
<1>2. /\ UNCHANGED <<generation, segmentId, slots>>
      /\ spoken' = [i \in DOMAIN spoken |-> IF spoken[i].segment = current
                      THEN [spoken[i] EXCEPT !.text = @ + 1] ELSE spoken[i]]
  BY DEF NextChunk
<1>3. /\ spoken \in Seq(SpokenRecords)
      /\ \A k \in DOMAIN spoken : spoken[k] \in SpokenRecords
  BY <1>1 DEF Collected
<1>4. \A k \in DOMAIN spoken : spoken[k].segment \in Segments /\ spoken[k].text \in Nat \ {0}
  BY <1>3 DEF SpokenRecords
<1>5. CASE current = 0
  <2>1. \A k \in DOMAIN spoken : spoken[k].segment # current BY <1>4, <1>5 DEF Segments
  <2>2. spoken' = [i \in DOMAIN spoken |-> spoken[i]] BY <1>2, <2>1
  <2>3. spoken' = spoken BY <2>2, <1>3
  <2>4. jobs' = jobs /\ current' = current BY <1>5 DEF NextChunk
  <2> QED BY <1>2, <2>3, <2>4, RestKeeps
<1>6. CASE current # 0
  <2>1. current \in Segments BY <1>1, <1>6, SpeechAssumption DEF JobsOK, Segments
  <2>2. /\ jobs \in [Segments -> JobRecords] /\ jobs[current] \in JobRecords
        /\ StreamOK(jobs[current]) /\ OpenOK(jobs[current])
    BY <1>1, <1>6, <2>1 DEF JobsOK
  <2>3. PICK p : p = Push(jobs[current]) OBVIOUS
  <2>4. /\ p \in JobRecords /\ StreamOK(p) /\ p.stage = jobs[current].stage
        /\ p.speech = jobs[current].speech /\ p.cancelled = jobs[current].cancelled
        /\ OpenOK(p)
        /\ Answering(jobs[current]) => Received(p) = Received(jobs[current]) + 1
    BY <2>2, <2>3, PushKeeps
  <2>5. PICK m : /\ jobs' = [jobs EXCEPT ![current] = m] /\ m \in JobRecords /\ StreamOK(m)
                 /\ m.stage = p.stage /\ m.speech = p.speech /\ m.cancelled = p.cancelled
                 /\ Received(m) = Received(p)
                 /\ current' \in {0, current}
                 /\ current' # 0 => OpenOK(m)
    <3>1. CASE duration + 1 < MaxChunks
      <4>1. jobs' = [jobs EXCEPT ![current] = p] /\ current' = current
        BY <1>6, <2>3, <3>1 DEF NextChunk
      <4> QED BY <4>1, <2>4
    <3>2. CASE ~(duration + 1 < MaxChunks)
      <4>1. /\ jobs' = [[jobs EXCEPT ![current] = p] EXCEPT ![current] = Finish(@)]
            /\ current' = 0
        BY <1>6, <2>3, <3>2 DEF NextChunk
      <4>2. jobs' = [jobs EXCEPT ![current] = Finish(p)] BY <4>1, <2>1, <2>2
      <4> QED BY <4>1, <4>2, <2>4, FinishKeeps
    <3> QED BY <3>1, <3>2
  <2>6. \A x \in Segments : jobs'[x] = IF x = current THEN m ELSE jobs[x] BY <2>2, <2>5
  <2>7. JobsOK(jobs', current')
    <3>1. jobs' \in [Segments -> JobRecords] BY <2>2, <2>5
    <3>2. \A x \in Segments : StreamOK(jobs'[x]) BY <1>1, <2>5, <2>6 DEF JobsOK
    <3>3. current' \in 0 .. MaxSegments BY <1>1, <2>5, SpeechAssumption DEF JobsOK
    <3>4. current' # 0 => OpenOK(jobs'[current']) BY <2>1, <2>5, <2>6
    <3> QED BY <3>1, <3>2, <3>3, <3>4 DEF JobsOK
  <2>8. /\ DOMAIN spoken' = DOMAIN spoken
        /\ \A k \in DOMAIN spoken :
             /\ spoken'[k] \in SpokenRecords /\ spoken'[k].segment = spoken[k].segment
             /\ spoken'[k].text = IF spoken[k].segment = current THEN spoken[k].text + 1
                                  ELSE spoken[k].text
    <3>1. DOMAIN spoken' = DOMAIN spoken BY <1>2
    <3>2. ASSUME NEW k \in DOMAIN spoken
          PROVE  /\ spoken'[k] \in SpokenRecords /\ spoken'[k].segment = spoken[k].segment
                 /\ spoken'[k].text = IF spoken[k].segment = current THEN spoken[k].text + 1
                                      ELSE spoken[k].text
      <4>1. PICK r \in SpokenRecords : r = spoken[k] BY <1>3
      <4>2. spoken'[k] = IF r.segment = current THEN [r EXCEPT !.text = @ + 1] ELSE r
        BY <1>2, <4>1
      <4> QED BY <4>1, <4>2 DEF SpokenRecords
    <3> QED BY <3>1, <3>2
  <2>9. spoken' \in Seq(SpokenRecords) /\ InOrder(spoken')
    <3>1. DOMAIN spoken = 1 .. Len(spoken) /\ Len(spoken) \in Nat BY <1>3
    <3>2. spoken' \in [1 .. Len(spoken) -> SpokenRecords] BY <1>2, <2>8, <3>1
    <3>3. spoken' \in Seq(SpokenRecords) BY <3>1, <3>2
    <3>4. InOrder(spoken') BY <1>1, <2>8 DEF Collected, InOrder
    <3> QED BY <3>3, <3>4
  <2>10. ASSUME NEW i \in DOMAIN slots
         PROVE  /\ Truthful(slots[i], jobs'[slots[i].segment], spoken')
                /\ slots[i].segment = current' => slots[i].text = Unknown
    <3>s. slots[i] \in SlotRecords BY <1>1 DEF Collected
    <3>1. /\ slots[i].segment \in Segments
          /\ Truthful(slots[i], jobs[slots[i].segment], spoken)
          /\ slots[i].segment = current => slots[i].text = Unknown
      BY <1>1, <3>s DEF Collected, SlotRecords
    <3>2. slots[i].segment # 0 BY <3>1 DEF Segments
    <3>3. Said(slots[i].segment, spoken') <=> Said(slots[i].segment, spoken)
      BY <2>8 DEF Said
    <3>4. slots[i].segment = current' => slots[i].text = Unknown BY <2>5, <3>1, <3>2
    <3>5. CASE slots[i].segment # current
      <4>1. \A n : Amounts(slots[i].segment, n, spoken) => Amounts(slots[i].segment, n, spoken')
        BY <2>8, <3>5 DEF Amounts
      <4>2. jobs'[slots[i].segment] = jobs[slots[i].segment] BY <2>6, <3>1, <3>5
      <4> QED BY <3>1, <3>3, <3>4, <4>1, <4>2 DEF Truthful
    <3>6. CASE slots[i].segment = current
      <4>1. slots[i].text = Unknown /\ jobs'[slots[i].segment] = m BY <2>1, <2>6, <3>1, <3>6
      <4>2. ~m.cancelled BY <2>2, <2>4, <2>5 DEF OpenOK
      <4>3. ASSUME Answering(m)
            PROVE  /\ m.speech <=> Said(current, spoken')
                   /\ Amounts(current, Received(m), spoken')
        <5>1. Answering(jobs[current]) BY <2>4, <2>5, <4>3 DEF Answering
        <5>2. /\ jobs[current].speech <=> Said(current, spoken)
              /\ Amounts(current, Received(jobs[current]), spoken)
          BY <3>1, <3>6, <4>1, <5>1 DEF Truthful
        <5>3. Received(m) = Received(jobs[current]) + 1 BY <2>4, <2>5, <5>1
        <5>4. Amounts(current, Received(m), spoken') BY <2>8, <5>2, <5>3 DEF Amounts
        <5> QED BY <2>4, <2>5, <3>3, <3>6, <5>2, <5>4
      <4> QED BY <3>4, <3>6, <4>1, <4>2, <4>3 DEF Truthful
    <3> QED BY <3>5, <3>6
  <2>11. \A k \in DOMAIN spoken' : \E i \in DOMAIN slots : slots[i].segment = spoken'[k].segment
    BY <1>1, <2>8 DEF Collected
  <2>12. Collected(slots, spoken', jobs', current')
    BY <1>1, <2>9, <2>10, <2>11 DEF Collected
  <2> QED BY <1>1, <1>2, <2>7, <2>12 DEF CaptureInv
<1> QED BY <1>5, <1>6

LEMMA StartSegmentKeeps ==
  ASSUME CaptureInv, NEW speech \in BOOLEAN, StartSegment(speech)
  PROVE  CaptureInv'
<1>1. /\ generation \in Nat /\ segmentId \in 0 .. MaxSegments
      /\ \A i \in DOMAIN slots : slots[i].segment <= segmentId
      /\ JobsOK(jobs, current) /\ Collected(slots, spoken, jobs, current)
  BY DEF CaptureInv
<1>2. PICK s : s = segmentId + 1 OBVIOUS
<1>3. /\ s \in Segments /\ s # 0 /\ s \in 0 .. MaxSegments
      /\ segmentId \in Int /\ segmentId < s
  BY <1>1, <1>2, SpeechAssumption DEF StartSegment, Segments
<1>4. PICK j : j = [NoJob EXCEPT !.stage = "reserving", !.epoch = generation, !.speech = speech]
  OBVIOUS
<1>5. j = [stage |-> "reserving", epoch |-> generation, speech |-> speech, queued |-> 0,
           pending |-> 0, sent |-> 0, finished |-> FALSE, ended |-> FALSE, cancelled |-> FALSE]
  BY <1>4 DEF NoJob
<1>6. j \in JobRecords BY <1>1, <1>5 DEF JobRecords, Stages
<1>7. StreamOK(j) /\ OpenOK(j) /\ Answering(j) /\ Received(j) = 0
  BY <1>5 DEF StreamOK, Streaming, OpenOK, Answering, Received
<1>8. PICK m : m = Push(j) OBVIOUS
<1>9. /\ m \in JobRecords /\ StreamOK(m) /\ OpenOK(m) /\ Received(m) = 1
      /\ m.stage = "reserving" /\ m.speech = speech
  <2>1. Received(m) = Received(j) + 1 BY <1>6, <1>7, <1>8, PushKeeps
  <2>2. Received(m) = 1 BY <2>1, <1>7
  <2> QED BY <1>5, <1>6, <1>7, <1>8, <2>2, PushKeeps
<1>10. PICK slot : slot = [segment |-> s, text |-> Unknown] OBVIOUS
<1>11. slot \in SlotRecords /\ slot.segment = s /\ slot.text = Unknown
  BY <1>3, <1>10 DEF SlotRecords
<1>12. PICK w : w = [segment |-> s, text |-> 1] OBVIOUS
<1>13. w \in SpokenRecords /\ w.segment = s /\ w.text = 1 BY <1>3, <1>12 DEF SpokenRecords
<1>14. /\ jobs' = [jobs EXCEPT ![s] = m] /\ slots' = Append(slots, slot)
       /\ spoken' = IF speech THEN Append(spoken, w) ELSE spoken
       /\ current' = s /\ segmentId' = s /\ generation' = generation
  BY <1>2, <1>4, <1>8, <1>10, <1>12 DEF StartSegment
<1>15. PICK n \in Nat : n = Len(slots) /\ DOMAIN slots = 1 .. n BY <1>1 DEF Collected
<1>16. /\ slots' \in Seq(SlotRecords) /\ DOMAIN slots' = 1 .. n + 1 /\ slots'[n+1] = slot
       /\ \A i \in 1 .. n : slots'[i] = slots[i]
  BY <1>1, <1>11, <1>14, <1>15 DEF Collected
<1>17. InOrder(slots')
  <2>1. \A i \in 1 .. n : slots[i].segment \in Int /\ slots[i].segment < s
    <3>1. ASSUME NEW i \in 1 .. n PROVE slots[i].segment \in Int /\ slots[i].segment < s
      <4>1. slots[i] \in SlotRecords /\ slots[i].segment <= segmentId
        BY <1>1, <1>15 DEF Collected
      <4>2. slots[i].segment \in Int BY <4>1 DEF SlotRecords, Segments
      <4> QED BY <4>1, <4>2, <1>3
    <3> QED BY <3>1
  <2>2. ASSUME NEW i \in 1 .. n + 1, NEW k \in 1 .. n + 1, i < k
        PROVE  slots'[i].segment < slots'[k].segment
    <3>1. i \in 1 .. n /\ slots'[i] = slots[i] BY <2>2, <1>16
    <3>2. CASE k = n + 1 BY <3>1, <3>2, <2>1, <1>11, <1>16
    <3>3. CASE k # n + 1
      <4>1. k \in 1 .. n /\ slots'[k] = slots[k] BY <3>3, <1>16
      <4> QED BY <1>1, <1>15, <2>2, <3>1, <4>1 DEF Collected, InOrder
    <3> QED BY <3>2, <3>3
  <2> QED BY <1>16, <2>2 DEF InOrder
<1>18. \A k \in DOMAIN spoken : spoken[k].segment \in Int /\ spoken[k].segment < s
  <2>1. ASSUME NEW k \in DOMAIN spoken
        PROVE  spoken[k].segment \in Int /\ spoken[k].segment < s
    <3>1. PICK i \in DOMAIN slots : slots[i].segment = spoken[k].segment
      BY <1>1 DEF Collected
    <3>2. slots[i] \in SlotRecords /\ slots[i].segment <= segmentId BY <1>1 DEF Collected
    <3>3. slots[i].segment \in Int BY <3>2 DEF SlotRecords, Segments
    <3> QED BY <3>1, <3>2, <3>3, <1>3
  <2> QED BY <2>1
<1>19. PICK l \in Nat : l = Len(spoken) /\ DOMAIN spoken = 1 .. l BY <1>1 DEF Collected
<1>20. /\ spoken' \in Seq(SpokenRecords)
       /\ DOMAIN spoken' = 1 .. IF speech THEN l + 1 ELSE l
       /\ \A k \in 1 .. l : spoken'[k] = spoken[k]
       /\ speech => spoken'[l+1] = w
  BY <1>1, <1>13, <1>14, <1>19 DEF Collected
<1>21. InOrder(spoken')
  <2>1. CASE ~speech
    <3>1. spoken' = spoken BY <1>14, <2>1
    <3> QED BY <1>1, <3>1 DEF Collected
  <2>2. CASE speech
    <3>1. ASSUME NEW i \in 1 .. l + 1, NEW k \in 1 .. l + 1, i < k
          PROVE  spoken'[i].segment < spoken'[k].segment
      <4>1. i \in 1 .. l /\ spoken'[i] = spoken[i] BY <3>1, <1>20
      <4>2. CASE k = l + 1 BY <2>2, <4>1, <4>2, <1>13, <1>18, <1>19, <1>20
      <4>3. CASE k # l + 1
        <5>1. k \in 1 .. l /\ spoken'[k] = spoken[k] BY <4>3, <1>20
        <5> QED BY <1>1, <1>19, <3>1, <4>1, <5>1 DEF Collected, InOrder
      <4> QED BY <4>2, <4>3
    <3>2. DOMAIN spoken' = 1 .. l + 1 BY <1>20, <2>2
    <3> QED BY <3>1, <3>2 DEF InOrder
  <2> QED BY <2>1, <2>2
<1>22. \A k \in DOMAIN spoken' : \E i \in DOMAIN slots' : slots'[i].segment = spoken'[k].segment
  <2>1. ASSUME NEW k \in DOMAIN spoken'
        PROVE  \E i \in 1 .. n + 1 : slots'[i].segment = spoken'[k].segment
    <3>1. CASE k \in 1 .. l
      <4>1. PICK i \in 1 .. n : slots[i].segment = spoken[k].segment
        BY <1>1, <1>15, <1>19, <3>1 DEF Collected
      <4>2. i \in 1 .. n + 1 /\ slots'[i] = slots[i] /\ spoken'[k] = spoken[k]
        BY <1>16, <1>20, <3>1
      <4> QED BY <4>1, <4>2
    <3>2. CASE k \notin 1 .. l
      <4>1. speech /\ k = l + 1 BY <3>2, <1>20
      <4>2. spoken'[k].segment = s BY <4>1, <1>13, <1>20
      <4>3. n + 1 \in 1 .. n + 1 /\ slots'[n+1].segment = s BY <1>11, <1>16
      <4> QED BY <4>2, <4>3
    <3> QED BY <3>1, <3>2
  <2> QED BY <2>1, <1>16
<1>23. /\ \A x \in Segments : jobs'[x] = IF x = s THEN m ELSE jobs[x]
       /\ jobs' \in [Segments -> JobRecords]
  BY <1>1, <1>9, <1>14 DEF JobsOK
<1>24. JobsOK(jobs', current')
  <2>1. \A x \in Segments : StreamOK(jobs'[x]) BY <1>1, <1>9, <1>23 DEF JobsOK
  <2>2. current' \in 0 .. MaxSegments /\ OpenOK(jobs'[current']) BY <1>3, <1>9, <1>14, <1>23
  <2> QED BY <1>23, <2>1, <2>2 DEF JobsOK
<1>25. ASSUME NEW i \in DOMAIN slots'
       PROVE  /\ Truthful(slots'[i], jobs'[slots'[i].segment], spoken')
              /\ slots'[i].segment = current' => slots'[i].text = Unknown
              /\ slots'[i].segment <= segmentId'
  <2>1. CASE i = n + 1
    <3>1. /\ slots'[i].segment = s /\ slots'[i].text = Unknown
          /\ jobs'[slots'[i].segment] = m
      BY <2>1, <1>3, <1>11, <1>16, <1>23
    <3>2. speech <=> Said(s, spoken')
      <4>1. ASSUME speech PROVE Said(s, spoken')
        <5>1. l + 1 \in DOMAIN spoken' /\ spoken'[l+1].segment = s BY <4>1, <1>13, <1>20
        <5> QED BY <5>1 DEF Said
      <4>2. ASSUME ~speech PROVE ~Said(s, spoken')
        <5>1. spoken' = spoken BY <4>2, <1>14
        <5> QED BY <5>1, <1>3, <1>18 DEF Said
      <4> QED BY <4>1, <4>2
    <3>3. Amounts(s, Received(m), spoken')
      <4>1. ASSUME NEW k \in DOMAIN spoken', spoken'[k].segment = s PROVE spoken'[k].text = 1
        <5>1. k \notin 1 .. l BY <4>1, <1>3, <1>18, <1>19, <1>20
        <5>2. speech /\ k = l + 1 BY <5>1, <1>20
        <5> QED BY <5>2, <1>13, <1>20
      <4> QED BY <4>1, <1>9 DEF Amounts
    <3>4. ~m.cancelled /\ m.speech = speech BY <1>9 DEF OpenOK
    <3>5. Truthful(slots'[i], m, spoken') BY <3>1, <3>2, <3>3, <3>4 DEF Truthful
    <3>6. s <= segmentId' BY <1>3, <1>14, <1>2
    <3> QED BY <3>1, <3>5, <3>6
  <2>2. CASE i # n + 1
    <3>1. i \in 1 .. n /\ slots'[i] = slots[i] BY <2>2, <1>16
    <3>2. /\ slots[i] \in SlotRecords /\ slots[i].segment <= segmentId
          /\ Truthful(slots[i], jobs[slots[i].segment], spoken)
      BY <3>1, <1>1, <1>15 DEF Collected
    <3>3. slots[i].segment \in Segments /\ slots[i].segment \in Int
      BY <3>2 DEF SlotRecords, Segments
    <3>4. slots[i].segment # s /\ slots[i].segment <= s BY <3>2, <3>3, <1>3
    <3>5. jobs'[slots[i].segment] = jobs[slots[i].segment] BY <3>3, <3>4, <1>23
    <3>6. ASSUME NEW k \in DOMAIN spoken', spoken'[k].segment = slots[i].segment
          PROVE  k \in DOMAIN spoken /\ spoken'[k] = spoken[k]
      <4>1. CASE k \in 1 .. l BY <4>1, <1>19, <1>20
      <4>2. CASE k \notin 1 .. l
        <5>1. speech /\ k = l + 1 BY <4>2, <1>20
        <5> QED BY <5>1, <3>4, <3>6, <1>13, <1>20
      <4> QED BY <4>1, <4>2
    <3>7. Said(slots[i].segment, spoken') <=> Said(slots[i].segment, spoken)
      <4>1. \A k \in DOMAIN spoken : k \in DOMAIN spoken' /\ spoken'[k] = spoken[k]
        BY <1>19, <1>20
      <4> QED BY <3>6, <4>1 DEF Said
    <3>8. \A t : Amounts(slots[i].segment, t, spoken) => Amounts(slots[i].segment, t, spoken')
      BY <3>6 DEF Amounts
    <3>9. Truthful(slots[i], jobs[slots[i].segment], spoken') BY <3>2, <3>7, <3>8 DEF Truthful
    <3> QED BY <3>1, <3>4, <3>5, <3>9, <1>14
  <2> QED BY <2>1, <2>2
<1>26. Collected(slots', spoken', jobs', current')
  BY <1>16, <1>17, <1>20, <1>21, <1>22, <1>25 DEF Collected
<1>27. segmentId' \in 0 .. MaxSegments /\ generation' \in Nat BY <1>1, <1>3, <1>14
<1> QED BY <1>24, <1>25, <1>26, <1>27 DEF CaptureInv

-----------------------------------------------------------------------------
(* What is submitted.                                                      *)

\* One place more in the list of the texts that are kept.
KeptNext(ss, f, i) ==
  IF i = 0 THEN <<>> ELSE IF ss[i].text = 0 THEN f[i-1] ELSE Append(f[i-1], ss[i])

\* The recursion in Joined has a solution.
LEMMA JoinedKeeps ==
  ASSUME NEW ss \in Seq(SlotRecords)
  PROVE  \E f : /\ f = [i \in 0 .. Len(ss) |-> KeptNext(ss, f, i)]
                /\ Joined(ss) = f[Len(ss)]
<1>1. PICK n \in Nat : n = Len(ss) OBVIOUS
<1>2. \A m \in Nat : \E f : f = [i \in 0 .. m |-> KeptNext(ss, f, i)]
  <2> DEFINE T == {m \in Nat : \E f : f = [i \in 0 .. m |-> KeptNext(ss, f, i)]}
  <2>1. 0 \in T
    <3>1. PICK f : f = [i \in 0 .. 0 |-> <<>>] OBVIOUS
    <3>2. \A i \in 0 .. 0 : KeptNext(ss, f, i) = <<>> BY DEF KeptNext
    <3>3. f = [i \in 0 .. 0 |-> KeptNext(ss, f, i)] BY <3>1, <3>2
    <3> QED BY <3>3
  <2>2. ASSUME NEW m \in Nat, m \in T PROVE m + 1 \in T
    <3>1. PICK f : f = [i \in 0 .. m |-> KeptNext(ss, f, i)] BY <2>2
    <3>2. PICK g : g = [i \in 0 .. m + 1 |-> IF i \in 0 .. m THEN f[i] ELSE KeptNext(ss, f, i)]
      OBVIOUS
    <3>3. \A i \in 0 .. m : g[i] = f[i] BY <3>2
    <3>4. ASSUME NEW i \in 0 .. m + 1 PROVE g[i] = KeptNext(ss, g, i)
      <4>1. i # 0 => i - 1 \in 0 .. m OBVIOUS
      <4>2. KeptNext(ss, g, i) = KeptNext(ss, f, i) BY <3>3, <4>1 DEF KeptNext
      <4>3. CASE i \in 0 .. m
        <5>1. f[i] = KeptNext(ss, f, i) BY <3>1, <4>3
        <5> QED BY <3>3, <4>2, <4>3, <5>1
      <4>4. CASE i \notin 0 .. m BY <3>2, <4>2, <4>4
      <4> QED BY <4>3, <4>4
    <3>5. g = [i \in 0 .. m + 1 |-> g[i]] BY <3>2
    <3>6. g = [i \in 0 .. m + 1 |-> KeptNext(ss, g, i)] BY <3>4, <3>5
    <3>7. m + 1 \in Nat OBVIOUS
    <3> QED BY <3>6, <3>7
  <2> HIDE DEF T
  <2>3. \A m \in Nat : m \in T BY <2>1, <2>2, Counting
  <2> QED BY <2>3 DEF T
<1>3. PICK f : f = [i \in 0 .. n |-> KeptNext(ss, f, i)] BY <1>2
<1> DEFINE c == CHOOSE g : g = [i \in 0 .. Len(ss) |-> KeptNext(ss, g, i)]
<1>4. c = [i \in 0 .. Len(ss) |-> KeptNext(ss, c, i)] BY <1>1, <1>3
<1>5. Joined(ss) = c[Len(ss)] BY DEF Joined, KeptNext
<1> HIDE DEF c
<1> QED BY <1>4, <1>5

\* The texts of the slots, in order, are the speech if each slot with a text
\* holds a segment of the speech and each segment is held.
LEMMA JoinedIs ==
  ASSUME NEW ss \in Seq(SlotRecords), InOrder(ss), NEW sp \in Seq(SpokenRecords), InOrder(sp),
         \A k \in DOMAIN sp : \E i \in DOMAIN ss : ss[i] = sp[k],
         \A i \in DOMAIN ss : ss[i].text # 0 => \E k \in DOMAIN sp : sp[k] = ss[i]
  PROVE  Joined(ss) = sp
<1>1. PICK n \in Nat : n = Len(ss) /\ DOMAIN ss = 1 .. n OBVIOUS
<1>2. PICK l \in Nat : l = Len(sp) /\ DOMAIN sp = 1 .. l OBVIOUS
<1>3. PICK f : /\ f = [i \in 0 .. n |-> KeptNext(ss, f, i)]
               /\ Joined(ss) = f[n]
  BY <1>1, JoinedKeeps
<1>4. \A i \in 1 .. n : ss[i].segment \in Int
  <2>1. \A i \in 1 .. n : ss[i] \in SlotRecords BY <1>1
  <2> QED BY <2>1 DEF SlotRecords, Segments
<1>5. \A k \in 1 .. l : sp[k].segment \in Int /\ sp[k].text # 0
  <2>1. \A k \in 1 .. l : sp[k] \in SpokenRecords BY <1>2
  <2> QED BY <2>1 DEF SpokenRecords, Segments
<1>6. \A i, k \in 1 .. n : i < k => ss[i].segment < ss[k].segment BY <1>1 DEF InOrder
<1>7. \A i, k \in 1 .. l : i < k => sp[i].segment < sp[k].segment BY <1>2 DEF InOrder
\* After i slots the first m segments of the speech are kept: those are the
\* segments found in these slots.
<1> DEFINE Good(i, m) ==
             /\ f[i] = SubSeq(sp, 1, m)
             /\ \A k \in 1 .. m : \E j \in 1 .. i : ss[j] = sp[k]
             /\ \A j \in 1 .. i : ss[j].text # 0 => \E k \in 1 .. m : sp[k] = ss[j]
           T == {i \in Nat : i <= n => \E m \in 0 .. l : Good(i, m)}
<1>8. 0 \in T
  <2>1. f[0] = <<>> BY <1>3 DEF KeptNext
  <2>2. SubSeq(sp, 1, 0) = <<>> OBVIOUS
  <2>3. Good(0, 0) BY <2>1, <2>2
  <2>4. 0 \in 0 .. l OBVIOUS
  <2> HIDE DEF Good
  <2> QED BY <2>3, <2>4
<1>9. ASSUME NEW i \in Nat, i \in T PROVE i + 1 \in T
  <2>1. SUFFICES ASSUME i + 1 <= n PROVE \E m \in 0 .. l : Good(i + 1, m)
    <3> HIDE DEF Good
    <3> QED OBVIOUS
  <2>2. PICK m \in 0 .. l : Good(i, m)
    <3>1. i <= n BY <2>1, <1>1
    <3> HIDE DEF Good
    <3> QED BY <1>9, <3>1
  <2>3. /\ f[i] = SubSeq(sp, 1, m)
        /\ \A k \in 1 .. m : \E j \in 1 .. i : ss[j] = sp[k]
        /\ \A j \in 1 .. i : ss[j].text # 0 => \E k \in 1 .. m : sp[k] = ss[j]
    BY <2>2
  <2>4. /\ i + 1 \in 1 .. n /\ i + 1 \in 0 .. n /\ i + 1 # 0 /\ (i + 1) - 1 = i
        /\ 1 .. i \subseteq 1 .. i + 1 /\ 1 .. i \subseteq 1 .. n
        /\ \A j \in 1 .. i + 1 : j \in 1 .. i \/ j = i + 1
    BY <1>1, <2>1
  <2>5. f[i+1] = IF ss[i+1].text = 0 THEN f[i] ELSE Append(f[i], ss[i+1])
    <3>1. f[i+1] = KeptNext(ss, f, i+1) BY <1>3, <2>4
    <3> QED BY <2>4, <3>1 DEF KeptNext
  <2>6. CASE ss[i+1].text = 0
    <3>1. Good(i + 1, m) BY <2>3, <2>4, <2>5, <2>6
    <3> HIDE DEF Good
    <3> QED BY <3>1
  <2>7. CASE ss[i+1].text # 0
    <3>1. PICK k \in 1 .. l : sp[k] = ss[i+1] BY <1>1, <1>2, <2>4, <2>7
    <3>2. k > m
      <4>1. SUFFICES ASSUME k \in 1 .. m PROVE FALSE BY <1>2, <2>2
      <4>2. PICK j \in 1 .. i : ss[j] = sp[k] BY <2>3, <4>1
      <4>3. ss[j].segment < ss[i+1].segment BY <1>6, <2>4
      <4> QED BY <1>4, <2>4, <3>1, <4>2, <4>3
    <3>3. m + 1 \in 1 .. l BY <3>1, <3>2
    <3>4. k = m + 1
      <4>1. SUFFICES ASSUME m + 1 < k PROVE FALSE BY <3>1, <3>2
      <4>2. sp[m+1].segment < sp[k].segment BY <1>7, <3>1, <3>3, <4>1
      <4>3. PICK j \in 1 .. n : ss[j] = sp[m+1] BY <1>1, <1>2, <3>3
      <4>4. j \in 1 .. i
        <5>1. ~(j >= i + 1)
          <6>1. SUFFICES ASSUME j >= i + 1 PROVE FALSE OBVIOUS
          <6>2. j = i + 1 \/ i + 1 < j BY <6>1
          <6>3. ss[i+1].segment <= ss[j].segment BY <6>2, <1>4, <1>6, <2>4
          <6> QED BY <6>3, <4>2, <4>3, <3>1, <1>4, <2>4
        <5> QED BY <5>1
      <4>5. ss[j].text # 0 BY <1>5, <3>3, <4>3
      <4>6. PICK q \in 1 .. m : sp[q] = ss[j] BY <2>3, <4>4, <4>5
      <4>7. q \in 1 .. l /\ q < m + 1 BY <2>2
      <4>8. sp[q].segment < sp[m+1].segment BY <1>7, <3>3, <4>7
      <4> QED BY <1>5, <3>3, <4>3, <4>6, <4>7, <4>8
    <3>5. f[i+1] = SubSeq(sp, 1, m + 1)
      <4>1. f[i+1] = Append(SubSeq(sp, 1, m), sp[m+1]) BY <2>3, <2>5, <2>7, <3>1, <3>4
      <4>2. SubSeq(sp, 1, m + 1) = Append(SubSeq(sp, 1, m), sp[m+1])
        BY <1>2, <2>2, <3>3
      <4> QED BY <4>1, <4>2
    <3>6. \A q \in 1 .. m + 1 : q \in 1 .. m \/ q = m + 1 BY <2>2
    <3>7. \A q \in 1 .. m + 1 : \E j \in 1 .. i + 1 : ss[j] = sp[q]
      <4>1. i + 1 \in 1 .. i + 1 BY <2>4
      <4> QED BY <2>3, <2>4, <3>1, <3>4, <3>6, <4>1
    <3>8. \A j \in 1 .. i + 1 : ss[j].text # 0 => \E q \in 1 .. m + 1 : sp[q] = ss[j]
      <4>1. m + 1 \in 1 .. m + 1 /\ 1 .. m \subseteq 1 .. m + 1 BY <2>2
      <4> QED BY <2>3, <2>4, <3>1, <3>4, <4>1
    <3>9. Good(i + 1, m + 1) BY <3>5, <3>7, <3>8
    <3>10. m + 1 \in 0 .. l BY <3>3
    <3> HIDE DEF Good
    <3> QED BY <3>9, <3>10
  <2> QED BY <2>6, <2>7
<1>10. n \in T
  <2> HIDE DEF T
  <2> QED BY <1>8, <1>9, Counting
<1>11. PICK m \in 0 .. l : Good(n, m)
  <2> HIDE DEF Good
  <2> QED BY <1>10
<1>12. m = l
  <2>1. SUFFICES ASSUME m < l PROVE FALSE OBVIOUS
  <2>2. m + 1 \in 1 .. l BY <2>1
  <2>3. PICK j \in 1 .. n : ss[j] = sp[m+1] BY <1>1, <1>2, <2>2
  <2>4. ss[j].text # 0 BY <1>5, <2>2, <2>3
  <2>5. PICK q \in 1 .. m : sp[q] = ss[j] BY <1>11, <2>4
  <2>6. q \in 1 .. l /\ q < m + 1 OBVIOUS
  <2>7. sp[q].segment < sp[m+1].segment BY <1>7, <2>2, <2>6
  <2> QED BY <1>5, <2>2, <2>3, <2>5, <2>6, <2>7
<1>13. SubSeq(sp, 1, l) = sp BY <1>2
<1> QED BY <1>3, <1>11, <1>12, <1>13

\* If no text is missing, what is collected is the speech.
LEMMA CollectedIs ==
  ASSUME NEW ss, NEW sp, NEW jb, NEW cur, Collected(ss, sp, jb, cur), ~TextMissing(ss)
  PROVE  Joined(ss) = sp
<1>1. /\ ss \in Seq(SlotRecords) /\ InOrder(ss) /\ sp \in Seq(SpokenRecords) /\ InOrder(sp)
      /\ \A k \in DOMAIN sp : \E i \in DOMAIN ss : ss[i].segment = sp[k].segment
      /\ \A i \in DOMAIN ss : ss[i] \in SlotRecords
      /\ \A k \in DOMAIN sp : sp[k] \in SpokenRecords
  BY DEF Collected
<1>2. \A i \in DOMAIN ss : /\ ss[i].text # 0 <=> Said(ss[i].segment, sp)
                           /\ Amounts(ss[i].segment, ss[i].text, sp)
  BY DEF Collected, TextMissing, Truthful
<1>3. \A r \in SlotRecords, w \in SpokenRecords :
        r.segment = w.segment /\ r.text = w.text => r = w
  BY DEF SlotRecords, SpokenRecords
<1>4. \A i \in DOMAIN ss, k \in DOMAIN sp : ss[i].segment = sp[k].segment => ss[i] = sp[k]
  BY <1>1, <1>2, <1>3 DEF Amounts
<1>5. \A k \in DOMAIN sp : \E i \in DOMAIN ss : ss[i] = sp[k] BY <1>1, <1>4
<1>6. \A i \in DOMAIN ss : ss[i].text # 0 => \E k \in DOMAIN sp : sp[k] = ss[i]
  BY <1>2, <1>4 DEF Said
<1> QED BY <1>1, <1>5, <1>6, JoinedIs

LEMMA FlushKeeps ==
  ASSUME CaptureInv, NEW ss, NEW f, Flush(ss, f),
         JobsOK(jobs', current'), Collected(ss, spoken, jobs', current'),
         \A i \in DOMAIN ss : ss[i].segment <= segmentId,
         UNCHANGED <<generation, segmentId>>
  PROVE  CaptureInv' /\ (slots' # ss => submitted' = spoken)
<1>1. generation' \in Nat /\ segmentId' = segmentId /\ segmentId' \in 0 .. MaxSegments
  BY DEF CaptureInv
<1>2. CASE held' \/ active' \/ ~accepts' \/ TextMissing(ss)
  <2>1. slots' = ss /\ spoken' = spoken BY <1>2 DEF Flush
  <2>2. Collected(slots', spoken', jobs', current') BY <2>1
  <2>3. \A i \in DOMAIN slots' : slots'[i].segment <= segmentId' BY <1>1, <2>1
  <2> QED BY <1>1, <2>1, <2>2, <2>3 DEF CaptureInv
<1>3. CASE ~(held' \/ active' \/ ~accepts' \/ TextMissing(ss))
  <2>1. slots' = <<>> /\ spoken' = <<>> /\ submitted' = Joined(ss) BY <1>3 DEF Flush
  <2>2. Joined(ss) = spoken BY <1>3, CollectedIs
  <2>3. CaptureInv' BY <1>1, <2>1, EmptyKeeps
  <2> QED BY <2>1, <2>2, <2>3
<1> QED BY <1>2, <1>3

\* The text that comes is what was said in its segment.
LEMMA FilledIs ==
  ASSUME CaptureInv, NEW s \in Segments, jobs[s].stage = "done",
         jobs' = [jobs EXCEPT ![s] = Reported], current' = current
  PROVE  /\ JobsOK(jobs', current') /\ Collected(Filled(s), spoken, jobs', current')
         /\ \A i \in DOMAIN Filled(s) : Filled(s)[i].segment <= segmentId
         /\ Len(Filled(s)) = Len(slots)
<1>1. /\ \A i \in DOMAIN slots : slots[i].segment <= segmentId
      /\ JobsOK(jobs, current) /\ Collected(slots, spoken, jobs, current)
  BY DEF CaptureInv
<1>2. PICK j : j = jobs[s] OBVIOUS
<1>3. j \in JobRecords /\ StreamOK(j) /\ j.stage = "done" /\ s # 0
  BY <1>1, <1>2 DEF JobsOK, Segments
<1>4. /\ \A x \in Segments : jobs'[x] = IF x = s THEN Reported ELSE jobs[x]
      /\ jobs' \in [Segments -> JobRecords]
  BY <1>1, ReportedIs DEF JobsOK
<1>5. current # s BY <1>1, <1>2, <1>3 DEF JobsOK, OpenOK
<1>6. JobsOK(jobs', current')
  <2>1. \A x \in Segments : StreamOK(jobs'[x]) BY <1>1, <1>4, ReportedIs DEF JobsOK
  <2>2. current' \in 0 .. MaxSegments BY <1>1 DEF JobsOK
  <2>3. ASSUME current' # 0 PROVE OpenOK(jobs'[current'])
    <3>1. current \in Segments BY <2>2, <2>3, SpeechAssumption DEF Segments
    <3> QED BY <1>1, <1>4, <1>5, <2>3, <3>1 DEF JobsOK
  <2> QED BY <1>4, <2>1, <2>2, <2>3 DEF JobsOK
<1>7. PICK t : t = TextOf(j) OBVIOUS
<1>8. Received(j) = j.sent /\ j.sent \in Nat /\ j.speech \in BOOLEAN /\ t \in Nat
      /\ t = IF j.speech THEN j.sent ELSE 0
  <2>1. j.queued = 0 /\ j.pending = 0 /\ j.sent \in Nat /\ j.speech \in BOOLEAN
    BY <1>3 DEF StreamOK, JobRecords
  <2> QED BY <1>7, <2>1 DEF Received, TextOf
<1>9. PICK ss : ss = Filled(s) OBVIOUS
<1>10. ss = [i \in DOMAIN slots |-> IF slots[i].segment = s THEN [slots[i] EXCEPT !.text = t]
                                    ELSE slots[i]]
  BY <1>2, <1>7, <1>9 DEF Filled
<1>11. slots \in Seq(SlotRecords) /\ \A i \in DOMAIN slots : slots[i] \in SlotRecords
  BY <1>1 DEF Collected
<1>12. /\ DOMAIN ss = DOMAIN slots
       /\ \A i \in DOMAIN slots :
            /\ ss[i] \in SlotRecords /\ ss[i].segment = slots[i].segment
            /\ ss[i].text = IF slots[i].segment = s THEN t ELSE slots[i].text
  <2>1. ASSUME NEW i \in DOMAIN slots
        PROVE  /\ ss[i] \in SlotRecords /\ ss[i].segment = slots[i].segment
               /\ ss[i].text = IF slots[i].segment = s THEN t ELSE slots[i].text
    <3>1. PICK r \in SlotRecords : r = slots[i] BY <1>11
    <3>2. ss[i] = IF r.segment = s THEN [r EXCEPT !.text = t] ELSE r BY <1>10, <3>1
    <3> QED BY <1>8, <3>1, <3>2 DEF SlotRecords
  <2> QED BY <1>10, <2>1
<1>13. ss \in Seq(SlotRecords) /\ InOrder(ss) /\ Len(ss) = Len(slots)
  <2>1. DOMAIN slots = 1 .. Len(slots) /\ Len(slots) \in Nat BY <1>11
  <2>2. ss \in [1 .. Len(slots) -> SlotRecords] BY <1>10, <1>12, <2>1
  <2>3. ss \in Seq(SlotRecords) /\ Len(ss) = Len(slots) BY <2>1, <2>2
  <2>4. InOrder(ss) BY <1>1, <1>12 DEF Collected, InOrder
  <2> QED BY <2>3, <2>4
<1>14. ASSUME NEW i \in DOMAIN slots
       PROVE  /\ Truthful(ss[i], jobs'[ss[i].segment], spoken)
              /\ ss[i].segment = current' => ss[i].text = Unknown
  <2>1. /\ slots[i].segment \in Segments
        /\ Truthful(slots[i], jobs[slots[i].segment], spoken)
        /\ slots[i].segment = current => slots[i].text = Unknown
    BY <1>1, <1>11 DEF Collected, SlotRecords
  <2>2. CASE slots[i].segment # s
    <3>1. jobs'[ss[i].segment] = jobs[slots[i].segment] BY <1>4, <1>12, <2>1, <2>2
    <3>2. ss[i].text = slots[i].text /\ ss[i].segment = slots[i].segment BY <1>12, <2>2
    <3> QED BY <2>1, <3>1, <3>2 DEF Truthful
  <2>3. CASE slots[i].segment = s
    <3>1. /\ jobs'[ss[i].segment] = Reported /\ ss[i].segment = s /\ ss[i].text = t
      BY <1>4, <1>12, <2>3
    <3>2. Truthful(slots[i], j, spoken) BY <1>2, <2>1, <2>3
    <3>3. slots[i].text = Unknown BY <1>3, <3>2 DEF Truthful
    <3>4. Answering(j) BY <1>3 DEF Answering
    <3>5. (j.speech <=> Said(s, spoken)) /\ Amounts(s, j.sent, spoken)
      BY <1>8, <2>3, <3>2, <3>3, <3>4 DEF Truthful
    <3>6. \A k \in DOMAIN spoken : spoken[k].text # 0
      <4>1. \A k \in DOMAIN spoken : spoken[k] \in SpokenRecords BY <1>1 DEF Collected
      <4> QED BY <4>1 DEF SpokenRecords
    <3>7. t # 0 <=> Said(s, spoken)
      <4>1. CASE j.speech
        <5>1. PICK k \in DOMAIN spoken : spoken[k].segment = s BY <3>5, <4>1 DEF Said
        <5>2. spoken[k].text = j.sent BY <3>5, <5>1 DEF Amounts
        <5> QED BY <1>8, <3>5, <3>6, <4>1, <5>1, <5>2
      <4>2. CASE ~j.speech BY <1>8, <3>5, <4>2
      <4> QED BY <4>1, <4>2
    <3>8. Amounts(s, t, spoken)
      <4>1. CASE j.speech BY <1>8, <3>5, <4>1
      <4>2. CASE ~j.speech BY <3>5, <4>2 DEF Amounts, Said
      <4> QED BY <4>1, <4>2
    <3>9. Truthful(ss[i], Reported, spoken)
      BY <3>1, <3>7, <3>8, <1>8, ReportedIs DEF Truthful, Unknown
    <3> QED BY <1>5, <3>1, <3>9
  <2> QED BY <2>2, <2>3
<1>15. \A k \in DOMAIN spoken : \E i \in DOMAIN ss : ss[i].segment = spoken[k].segment
  BY <1>1, <1>12 DEF Collected
<1>16. Collected(ss, spoken, jobs', current')
  BY <1>1, <1>12, <1>13, <1>14, <1>15 DEF Collected
<1>17. \A i \in DOMAIN ss : ss[i].segment <= segmentId BY <1>1, <1>12
<1> QED BY <1>6, <1>9, <1>13, <1>16, <1>17

\* What the theorem says of one step.
WholeStep == slots # <<>> /\ slots' = <<>> /\ generation' = generation => submitted' = spoken

LEMMA DeliverKeeps ==
  ASSUME CaptureInv, NEW s \in Segments, Deliver(s)
  PROVE  CaptureInv' /\ WholeStep
<1>1. /\ jobs[s].stage = "done" /\ jobs' = [jobs EXCEPT ![s] = Reported]
      /\ UNCHANGED <<generation, segmentId>> /\ current' = current
  BY DEF Deliver, detector
<1>2. CASE jobs[s].epoch = generation
  <2>1. Flush(Filled(s), forced) BY <1>2 DEF Deliver
  <2>2. /\ JobsOK(jobs', current') /\ Collected(Filled(s), spoken, jobs', current')
        /\ \A i \in DOMAIN Filled(s) : Filled(s)[i].segment <= segmentId
        /\ Len(Filled(s)) = Len(slots)
    BY <1>1, FilledIs
  <2>3. CaptureInv' /\ (slots' # Filled(s) => submitted' = spoken)
    BY <1>1, <2>1, <2>2, FlushKeeps
  <2>4. slots # <<>> => Filled(s) # <<>>
    <3>1. slots \in Seq(SlotRecords) BY DEF CaptureInv, Collected
    <3>2. slots # <<>> => Len(slots) # 0 BY <3>1
    <3>3. Len(Filled(s)) # 0 => Filled(s) # <<>> OBVIOUS
    <3> QED BY <2>2, <3>2, <3>3
  <2> QED BY <2>3, <2>4 DEF WholeStep
<1>3. CASE jobs[s].epoch # generation
  <2>1. UNCHANGED <<slots, spoken>> BY <1>3 DEF Deliver
  <2>2. ~Answering(Reported) BY ReportedIs DEF Answering
  <2>3. CaptureInv' BY <1>1, <2>1, <2>2, ReportedIs, OneJobMoves
  <2> QED BY <2>1, <2>3 DEF WholeStep
<1> QED BY <1>2, <1>3

LEMMA TurnSubmitKeeps ==
  ASSUME CaptureInv, TurnSubmit
  PROVE  CaptureInv' /\ WholeStep
<1>1. CASE manual /\ slots = <<>>
  <2>1. ClearCapture BY <1>1 DEF TurnSubmit
  <2> QED BY <1>1, <2>1, ClearCaptureKeeps DEF WholeStep
<1>2. CASE ~(manual /\ slots = <<>>) /\ active
  <2>1. EndSegment /\ UNCHANGED <<generation, segmentId, slots, spoken>>
    BY <1>2 DEF TurnSubmit
  <2> QED BY <2>1, EndSegmentKeeps DEF WholeStep
<1>3. CASE ~(manual /\ slots = <<>>) /\ ~active
  <2>1. Flush(slots, TRUE) /\ UNCHANGED <<generation, segmentId, jobs, current>>
    BY <1>3 DEF TurnSubmit, detector
  <2>2. /\ JobsOK(jobs', current') /\ Collected(slots, spoken, jobs', current')
        /\ \A i \in DOMAIN slots : slots[i].segment <= segmentId
    BY <2>1 DEF CaptureInv
  <2>3. CaptureInv' /\ (slots' # slots => submitted' = spoken) BY <2>1, <2>2, FlushKeeps
  <2> QED BY <2>3 DEF WholeStep
<1> QED BY <1>1, <1>2, <1>3

LEMMA SpeechStarts ==
  ASSUME SpeechInit
  PROVE  CaptureInv
<1>1. NoJob \in JobRecords /\ StreamOK(NoJob)
  BY DEF NoJob, JobRecords, Stages, StreamOK, Streaming
<1>2. JobsOK(jobs, current)
  <2>1. 0 \in 0 .. MaxSegments BY SpeechAssumption
  <2> QED BY <1>1, <2>1 DEF SpeechInit, JobsOK
<1>3. Collected(slots, spoken, jobs, current) BY DEF SpeechInit, Collected, InOrder
<1>4. /\ generation \in Nat /\ segmentId \in 0 .. MaxSegments
      /\ \A i \in DOMAIN slots : slots[i].segment <= segmentId
  BY SpeechAssumption DEF SpeechInit
<1> QED BY <1>2, <1>3, <1>4 DEF CaptureInv

LEMMA SpeechSteps ==
  ASSUME CaptureInv, [SpeechNext]_speechVars
  PROVE  CaptureInv' /\ WholeStep
<1>1. ASSUME NEW speech \in BOOLEAN, StartSegment(speech) PROVE CaptureInv' /\ WholeStep
  <2>1. slots \in Seq(SlotRecords) BY DEF CaptureInv, Collected
  <2>2. slots' # <<>>
    <3>1. PICK slot : slots' = Append(slots, slot) BY <1>1 DEF StartSegment
    <3> QED BY <2>1, <3>1
  <2> QED BY <1>1, <2>2, StartSegmentKeeps DEF WholeStep
<1>2. CASE Backlog \/ Pause \/ Resume
  <2>1. UNCHANGED <<generation, segmentId, slots, spoken, jobs, current>>
    BY <1>2 DEF Backlog, Pause, Resume, detector
  <2> QED BY <2>1, RestKeeps DEF WholeStep
<1>3. CASE NextChunk
  <2>1. slots' = slots BY <1>3 DEF NextChunk
  <2> QED BY <1>3, <2>1, NextChunkKeeps DEF WholeStep
<1>4. CASE Silence
  <2>1. EndSegment /\ UNCHANGED <<generation, segmentId, slots, spoken>> BY <1>4 DEF Silence
  <2> QED BY <2>1, EndSegmentKeeps DEF WholeStep
<1>5. CASE TurnBegin \/ OtherTurn \/ HoldTimeout
  <2>1. ClearCapture BY <1>5 DEF TurnBegin, OtherTurn, HoldTimeout
  <2> QED BY <2>1, ClearCaptureKeeps DEF WholeStep
<1>6. CASE TurnSubmit BY <1>6, TurnSubmitKeeps
<1>7. ASSUME NEW s \in Segments, JobStep(s) PROVE CaptureInv' /\ WholeStep
  <2>1. CASE Deliver(s) BY <2>1, DeliverKeeps
  <2>2. CASE Reserve(s) \/ Ready(s) \/ Complete(s) \/ JobFails(s) \/ Report(s)
    <3>1. CaptureInv'
      BY <2>2, ReserveKeeps, ReadyStep, CompleteStep, JobFailsStep, ReportStep
    <3>2. slots' = slots BY <2>2 DEF Reserve, Ready, Complete, JobFails, Report, capture
    <3> QED BY <3>1, <3>2 DEF WholeStep
  <2> QED BY <1>7, <2>1, <2>2 DEF JobStep
<1>8. CASE UNCHANGED speechVars
  <2>1. UNCHANGED <<generation, segmentId, slots, spoken, jobs, current>>
    BY <1>8 DEF speechVars, detector
  <2> QED BY <2>1, RestKeeps DEF WholeStep
<1> QED BY <1>1, <1>2, <1>3, <1>4, <1>5, <1>6, <1>7, <1>8 DEF SpeechNext

\* Every text that has come amounts to what was said in its segment, and every
\* text still to come will: whatever of it is queued by the wrapper, kept during
\* the handshake, held back as less than a packet or sent.
THEOREM CaptureInductive == SpeechSpec => []CaptureInv
<1>1. SpeechInit => CaptureInv BY SpeechStarts
<1>2. CaptureInv /\ [SpeechNext]_speechVars => CaptureInv' BY SpeechSteps
<1> QED BY <1>1, <1>2, PTL DEF SpeechSpec

\* SubmittedWhole: a turn holds exactly the speech captured since the last one.
THEOREM SubmittedWholeAlways == SpeechSpec => SubmittedWhole
<1>1. CaptureInv /\ [SpeechNext]_speechVars
        => [slots # <<>> /\ slots' = <<>> /\ generation' = generation => submitted' = spoken]_speechVars
  BY SpeechSteps DEF WholeStep
<1> QED BY <1>1, CaptureInductive, PTL DEF SpeechSpec, SubmittedWhole
=============================================================================
