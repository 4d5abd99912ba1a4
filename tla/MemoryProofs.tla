---------------------------- MODULE MemoryProofs ----------------------------
(***************************************************************************)
(* Proofs about what is remembered (internal/memory): about ProfileMemory, *)
(* for any candidates, models, batches and attempts, and any number of     *)
(* stops, crashes and failures; and about Conversation, for conversations  *)
(* of any length, with any number of retries, restarts and calls.          *)
(***************************************************************************)
EXTENDS ProfileMemory, Conversation, SequenceTheorems, FiniteSetTheorems, WellFoundedInduction,
        TLAPS

-----------------------------------------------------------------------------
(* Selections from sequences.  Chosen is a function that is defined        *)
(* recursively: that it exists, and what its stages are, follow from the   *)
(* least counterexample, without an induction over an operator.            *)

\* A set of numbers that is not empty has a least one.
LEMMA Least ==
  ASSUME NEW T \in SUBSET Nat, T # {}
  PROVE  \E n \in T : \A k \in T : n <= k
<1>1. PICK n \in T : \A k \in T : ~(<<k, n>> \in OpToRel(<, Nat))
  BY NatLessThanWellFounded, WFMin
<1>2. \A k \in T : ~(k < n)
  BY <1>1 DEF OpToRel
<1>3. QED
  BY <1>2

\* f is what Chosen computes, for the first n rows.
Chooses(f, s, some, n) ==
  f = [i \in 0 .. n |-> IF i = 0 THEN <<>>
                        ELSE IF s[i] \in some THEN Append(f[i - 1], s[i]) ELSE f[i - 1]]

\* Chosen is such a function, at the end.
LEMMA ChosenIsLast ==
  ASSUME NEW s, NEW some
  PROVE  Chosen(s, some) = (CHOOSE f : Chooses(f, s, some, Len(s)))[Len(s)]
BY DEF Chosen, Chooses

\* There is such a function: the least n without one would have a predecessor with one.
LEMMA ChoosesExists ==
  ASSUME NEW S, NEW s \in Seq(S), NEW some, NEW n \in 0 .. Len(s)
  PROVE  \E f \in [0 .. n -> Seq(S)] : Chooses(f, s, some, n)
<1> DEFINE Has(k) == \E f \in [0 .. k -> Seq(S)] : Chooses(f, s, some, k)
           T == {k \in 0 .. Len(s) : ~Has(k)}
<1> HIDE DEF Has
<1>1. SUFFICES ASSUME T # {} PROVE FALSE
  BY DEF Has
<1>2. PICK k \in T : \A i \in T : k <= i
  <2>1. T \in SUBSET Nat
    OBVIOUS
  <2> HIDE DEF T
  <2> QED
    BY <1>1, <2>1, Least
<1>3. k \in 0 .. Len(s) /\ Len(s) \in Nat
  OBVIOUS
<1>4. k # 0
  <2>1. SUFFICES ASSUME k = 0 PROVE FALSE
    OBVIOUS
  <2> DEFINE z == [i \in 0 .. 0 |-> <<>>]
  <2>2. z \in [0 .. 0 -> Seq(S)]
    OBVIOUS
  <2>3. Chooses(z, s, some, 0)
    BY DEF Chooses
  <2> HIDE DEF z
  <2> QED
    BY <1>2, <2>1, <2>2, <2>3 DEF Has
<1>5. k - 1 \in 0 .. Len(s) /\ k - 1 \notin T
  BY <1>2, <1>3, <1>4
<1>6. PICK g \in [0 .. k - 1 -> Seq(S)] : Chooses(g, s, some, k - 1)
  BY <1>5 DEF Has
<1> DEFINE f == [i \in 0 .. k |-> IF i = 0 THEN <<>>
                    ELSE IF s[i] \in some THEN Append(g[i - 1], s[i]) ELSE g[i - 1]]
<1>7. \A i \in 1 .. k : i - 1 \in 0 .. k - 1 /\ s[i] \in S /\ g[i - 1] \in Seq(S)
  BY <1>3, <1>6
<1>8. f \in [0 .. k -> Seq(S)]
  BY <1>7, AppendProperties
<1>9. \A i \in 0 .. k - 1 : g[i] = IF i = 0 THEN <<>>
                    ELSE IF s[i] \in some THEN Append(g[i - 1], s[i]) ELSE g[i - 1]
  BY <1>6 DEF Chooses
<1>10. \A i \in 1 .. k : f[i - 1] = g[i - 1]
  <2> SUFFICES ASSUME NEW i \in 1 .. k PROVE f[i - 1] = g[i - 1]
    OBVIOUS
  <2>1. i - 1 \in 0 .. k - 1 /\ i - 1 \in 0 .. k
    BY <1>3, <1>7
  <2>2. f[i - 1] = IF i - 1 = 0 THEN <<>>
                   ELSE IF s[i - 1] \in some THEN Append(g[i - 1 - 1], s[i - 1]) ELSE g[i - 1 - 1]
    BY <2>1
  <2> HIDE DEF f
  <2> QED
    BY <1>9, <2>1, <2>2
<1>11. Chooses(f, s, some, k)
  <2>1. \A i \in 0 .. k : i # 0 => i \in 1 .. k
    BY <1>3
  <2>2. \A i \in 0 .. k : f[i] = IF i = 0 THEN <<>>
                   ELSE IF s[i] \in some THEN Append(f[i - 1], s[i]) ELSE f[i - 1]
    BY <1>10, <2>1
  <2> DEFINE h == [i \in 0 .. k |-> IF i = 0 THEN <<>>
                   ELSE IF s[i] \in some THEN Append(f[i - 1], s[i]) ELSE f[i - 1]]
  <2>3. f \in [0 .. k -> Seq(S)] /\ DOMAIN h = 0 .. k /\ \A i \in 0 .. k : h[i] = f[i]
    BY <1>8, <2>2
  <2>4. h = [i \in DOMAIN h |-> h[i]] /\ f = [i \in DOMAIN f |-> f[i]]
    BY <2>3
  <2>5. f = h
    <3> HIDE DEF f, h
    <3> QED BY <2>3, <2>4
  <2> HIDE DEF f
  <2> QED
    BY <2>5 DEF Chooses
<1> HIDE DEF f
<1> QED
  BY <1>2, <1>8, <1>11 DEF Has

\* c holds those of the first n rows that are among some, in order: p tells where each came from.
Picks(c, p, s, some, n) ==
  /\ p \in [1 .. Len(c) -> 1 .. n]
  /\ \A i \in 1 .. Len(c) : c[i] = s[p[i]] /\ c[i] \in some
  /\ \A i, j \in 1 .. Len(c) : i < j => p[i] < p[j]
  /\ \A j \in 1 .. n : s[j] \in some => \E i \in 1 .. Len(c) : p[i] = j

\* One more row.
LEMMA PicksNext ==
  ASSUME NEW S, NEW s \in Seq(S), NEW some, NEW n \in 1 .. Len(s),
         NEW c \in Seq(S), NEW p, Picks(c, p, s, some, n - 1)
  PROVE  \E q : Picks(IF s[n] \in some THEN Append(c, s[n]) ELSE c, q, s, some, n)
<1>1. s[n] \in S /\ n \in Nat /\ Len(c) \in Nat
  OBVIOUS
<1>2. CASE s[n] \notin some
  <2>1. Picks(c, p, s, some, n)
    BY <1>1, <1>2 DEF Picks
  <2> QED
    BY <1>2, <2>1
<1>3. CASE s[n] \in some
  <2> DEFINE d == Append(c, s[n])
             q == [i \in 1 .. Len(c) + 1 |-> IF i = Len(c) + 1 THEN n ELSE p[i]]
  <2>1. /\ Len(d) = Len(c) + 1 /\ d[Len(c) + 1] = s[n]
        /\ \A i \in 1 .. Len(c) : d[i] = c[i]
    BY <1>1, AppendProperties
  <2>2. q[Len(c) + 1] = n /\ \A i \in 1 .. Len(c) : q[i] = p[i] /\ p[i] \in 1 .. n - 1
    BY <1>1 DEF Picks
  <2>3. q \in [1 .. Len(d) -> 1 .. n]
    <3>1. \A i \in 1 .. Len(c) + 1 : i = Len(c) + 1 \/ i \in 1 .. Len(c)
      BY <1>1
    <3>2. \A i \in 1 .. Len(c) + 1 : q[i] \in 1 .. n
      <4> HIDE DEF q
      <4> QED BY <1>1, <2>2, <3>1
    <3>3. q \in [1 .. Len(c) + 1 -> 1 .. n]
      BY <3>2
    <3> QED BY <2>1, <3>3
  <2> HIDE DEF d, q
  <2>4. \A i \in 1 .. Len(d) : d[i] = s[q[i]] /\ d[i] \in some
    <3> SUFFICES ASSUME NEW i \in 1 .. Len(d) PROVE d[i] = s[q[i]] /\ d[i] \in some
      OBVIOUS
    <3>1. CASE i = Len(c) + 1
      BY <1>3, <2>1, <2>2, <3>1
    <3>2. CASE i \in 1 .. Len(c)
      BY <2>1, <2>2, <3>2 DEF Picks
    <3> QED
      BY <1>1, <2>1, <3>1, <3>2
  <2>5. \A i, j \in 1 .. Len(d) : i < j => q[i] < q[j]
    <3> SUFFICES ASSUME NEW i \in 1 .. Len(d), NEW j \in 1 .. Len(d), i < j PROVE q[i] < q[j]
      OBVIOUS
    <3>1. i \in 1 .. Len(c)
      BY <1>1, <2>1
    <3>2. CASE j = Len(c) + 1
      BY <2>2, <3>1, <3>2
    <3>3. CASE j \in 1 .. Len(c)
      BY <2>2, <3>1, <3>3 DEF Picks
    <3> QED
      BY <1>1, <2>1, <3>2, <3>3
  <2>6. \A j \in 1 .. n : s[j] \in some => \E i \in 1 .. Len(d) : q[i] = j
    <3> SUFFICES ASSUME NEW j \in 1 .. n, s[j] \in some PROVE \E i \in 1 .. Len(d) : q[i] = j
      OBVIOUS
    <3>1. CASE j = n
      BY <1>1, <2>1, <2>2, <3>1
    <3>2. CASE j \in 1 .. n - 1
      <4>1. PICK i \in 1 .. Len(c) : p[i] = j
        BY <3>2 DEF Picks
      <4> QED
        BY <1>1, <2>1, <2>2, <4>1
    <3> QED
      BY <1>1, <3>1, <3>2
  <2>7. Picks(d, q, s, some, n)
    BY <2>3, <2>4, <2>5, <2>6 DEF Picks
  <2> QED
    BY <1>3, <2>7 DEF d
<1> QED
  BY <1>2, <1>3

\* Every stage of the recursion picks: the least one that does not would have a predecessor
\* that does.
LEMMA ChoosesPicks ==
  ASSUME NEW S, NEW s \in Seq(S), NEW some, NEW f, Chooses(f, s, some, Len(s)),
         NEW n \in 0 .. Len(s)
  PROVE  f[n] \in Seq(S) /\ \E p : Picks(f[n], p, s, some, n)
<1> DEFINE Good(k) == f[k] \in Seq(S) /\ \E p : Picks(f[k], p, s, some, k)
           T == {k \in 0 .. Len(s) : ~Good(k)}
<1>1. SUFFICES ASSUME T # {} PROVE FALSE
  OBVIOUS
<1>2. PICK k \in T : \A i \in T : k <= i
  <2> HIDE DEF Good
  <2>1. T \in SUBSET Nat
    OBVIOUS
  <2> HIDE DEF T
  <2> QED
    BY <1>1, <2>1, Least
<1>3. k \in 0 .. Len(s) /\ Len(s) \in Nat /\ ~Good(k)
  <2> HIDE DEF Good
  <2> QED OBVIOUS
<1>4. k # 0
  <2>1. f[0] = <<>>
    BY <1>3 DEF Chooses
  <2>2. Picks(<<>>, <<>>, s, some, 0)
    <3>1. Len(<<>>) = 0 /\ 1 .. 0 = {} /\ <<>> \in [{} -> {}]
      OBVIOUS
    <3> QED BY <3>1 DEF Picks
  <2>3. Good(0)
    <3>1. f[0] \in Seq(S) BY <2>1
    <3>2. Picks(f[0], <<>>, s, some, 0) BY <2>1, <2>2
    <3> QED BY <3>1, <3>2
  <2> HIDE DEF Good
  <2> QED
    BY <1>3, <2>3
<1>5. k \in 1 .. Len(s) /\ k - 1 \in 0 .. Len(s) /\ k - 1 \notin T
  <2> HIDE DEF Good
  <2> QED
    BY <1>2, <1>3, <1>4
<1>6. Good(k - 1)
  <2> HIDE DEF Good
  <2> QED
    BY <1>5
<1>7. PICK p : Picks(f[k - 1], p, s, some, k - 1)
  BY <1>6
<1>8. f[k] = IF s[k] \in some THEN Append(f[k - 1], s[k]) ELSE f[k - 1]
  BY <1>3, <1>4 DEF Chooses
<1>9. f[k] \in Seq(S)
  BY <1>5, <1>6, <1>8, AppendProperties
<1>10. \E q : Picks(f[k], q, s, some, k)
  <2> HIDE DEF T
  <2> QED BY <1>5, <1>6, <1>7, <1>8, PicksNext
<1> QED
  BY <1>3, <1>9, <1>10

\* What Chosen gives: a sequence of those rows that are among some, in their order.
LEMMA ChosenPicks ==
  ASSUME NEW S, NEW s \in Seq(S), NEW some
  PROVE  /\ Chosen(s, some) \in Seq(S)
         /\ \E p : Picks(Chosen(s, some), p, s, some, Len(s))
<1>1. Len(s) \in 0 .. Len(s)
  OBVIOUS
<1>2. \E f : Chooses(f, s, some, Len(s))
  BY <1>1, ChoosesExists
<1>3. PICK f : f = (CHOOSE g : Chooses(g, s, some, Len(s)))
  OBVIOUS
<1>4. Chooses(f, s, some, Len(s))
  BY <1>2, <1>3
<1>5. f[Len(s)] \in Seq(S) /\ \E p : Picks(f[Len(s)], p, s, some, Len(s))
  BY <1>1, <1>4, ChoosesPicks
<1> QED
  BY <1>3, <1>5, ChosenIsLast
-----------------------------------------------------------------------------
(* The inductive invariant.                                                *)

\* What may have become of a candidate, and what the worker may hold.
Fates == {"new", "pending", "merged", "dropped"}
Work == [pc : {"idle", "next", "asking", "answered", "failed", "gone"}, rest : Seq(Row),
         batch : SUBSET Candidates, ref : Models \cup {NoRef},
         shown : SUBSET Candidates, list : SUBSET Candidates]

\* The variables' types; the bounds are not needed.
Types ==
  /\ queue \in Seq(Row) /\ profile \in SUBSET Candidates
  /\ daemon \in {"down", "up", "stopping"} /\ closed \in BOOLEAN /\ signal \in BOOLEAN
  /\ telling \in Nat /\ worker \in Work /\ stops \in Nat /\ faults \in Nat
  /\ fate \in [Candidates -> Fates] /\ loads \in [Candidates -> Nat]
  /\ removed \in SUBSET Candidates

\* No candidate twice.
Distinct(rows) == \A i, j \in DOMAIN rows : rows[i].id = rows[j].id => i = j

\* A row of the candidate is among them; with this model, if there is one.
Carries(rows, c, ref) == \E i \in DOMAIN rows : rows[i].id = c /\ (ref # NoRef => rows[i].ref = ref)

\* What the worker has loaded and not yet settled.
InHand == Ids(worker.rest) \cup worker.batch

\* The table holds the pending candidates, each once.
Kept ==
  /\ Distinct(queue)
  /\ \A c \in Candidates : fate[c] = "pending" <=> \E i \in DOMAIN queue : queue[i].id = c

\* What the worker has in hand is in the table, apart from each other, and what it asks
\* about carries the model it asks.
Held ==
  /\ worker.pc \in {"idle", "gone"} => worker.rest = <<>>
  /\ worker.pc \in {"idle", "gone", "next"} => worker.batch = {}
  /\ worker.pc \in {"asking", "answered"} => worker.ref # NoRef
  /\ Distinct(worker.rest)
  /\ \A i \in DOMAIN worker.rest : worker.rest[i].id \notin worker.batch
  /\ \A i \in DOMAIN worker.rest : Carries(queue, worker.rest[i].id, worker.rest[i].ref)
  /\ \A c \in worker.batch :
       Carries(queue, c, IF worker.pc \in {"asking", "answered"} THEN worker.ref ELSE NoRef)

\* Every attempt that a row counts was a batch it was in, and the one it is in comes on top.
Counted ==
  \A i \in DOMAIN queue :
    queue[i].attempts + (IF queue[i].id \in InHand THEN 1 ELSE 0) <= loads[queue[i].id]

\* What was merged; what was deleted is not there, nor in what the worker was shown or
\* answered, unless it is merged anew.
Merged == {c \in Candidates : fate[c] = "merged"}
Deleted ==
  /\ profile \subseteq Merged /\ removed \subseteq Merged /\ removed \cap profile = {}
  /\ worker.pc = "asking" => worker.shown \subseteq Merged \ removed
  /\ worker.pc = "answered" => worker.list \subseteq (Merged \cup worker.batch) \ removed

\* There is a worker only in a process.
Alive == worker.pc # "gone" => daemon # "down"

\* The inductive invariant.
Inv == Types /\ Kept /\ Held /\ Counted /\ Deleted /\ Alive

-----------------------------------------------------------------------------
(* Rows and selections of them.                                            *)

\* What is chosen is there, what is there is chosen, and identities stay distinct.
LEMMA ChosenFacts ==
  ASSUME NEW S, NEW s \in Seq(S), NEW some
  PROVE  /\ Chosen(s, some) \in Seq(S)
         /\ \A i \in DOMAIN Chosen(s, some) :
              \E j \in DOMAIN s : Chosen(s, some)[i] = s[j] /\ s[j] \in some
         /\ \A j \in DOMAIN s : s[j] \in some =>
              \E i \in DOMAIN Chosen(s, some) : Chosen(s, some)[i] = s[j]
         /\ Distinct(s) => Distinct(Chosen(s, some))
<1> DEFINE c == Chosen(s, some)
<1>1. c \in Seq(S) /\ \E p : Picks(c, p, s, some, Len(s))
  BY ChosenPicks
<1> HIDE DEF c
<1>2. PICK p : Picks(c, p, s, some, Len(s))
  BY <1>1
<1>3. DOMAIN c = 1 .. Len(c) /\ DOMAIN s = 1 .. Len(s) /\ Len(c) \in Nat /\ Len(s) \in Nat
  BY <1>1
<1>4. \A i \in DOMAIN c : \E j \in DOMAIN s : c[i] = s[j] /\ s[j] \in some
  BY <1>2, <1>3 DEF Picks
<1>5. \A j \in DOMAIN s : s[j] \in some => \E i \in DOMAIN c : c[i] = s[j]
  BY <1>2, <1>3 DEF Picks
<1>6. ASSUME Distinct(s) PROVE Distinct(c)
  <2> SUFFICES ASSUME NEW i \in DOMAIN c, NEW j \in DOMAIN c, c[i].id = c[j].id PROVE i = j
    BY DEF Distinct
  <2>1. p[i] \in DOMAIN s /\ p[j] \in DOMAIN s /\ c[i] = s[p[i]] /\ c[j] = s[p[j]]
    BY <1>2, <1>3 DEF Picks
  <2>2. p[i] = p[j]
    BY <1>6, <2>1 DEF Distinct
  <2>3. ~(i < j) /\ ~(j < i)
    BY <1>2, <1>3, <2>1, <2>2 DEF Picks
  <2> QED
    BY <1>3, <2>3
<1> QED
  BY <1>1, <1>4, <1>5, <1>6 DEF c

\* A sequence of rows.
LEMMA RowFacts ==
  ASSUME NEW s \in Seq(Row)
  PROVE  /\ DOMAIN s = 1 .. Len(s) /\ Len(s) \in Nat
         /\ \A i \in DOMAIN s : /\ s[i] \in Row /\ s[i].id \in Candidates
                                 /\ s[i].ref \in Models \cup {NoRef} /\ s[i].attempts \in Nat
         /\ Ids(s) \subseteq Candidates
         /\ s = <<>> <=> DOMAIN s = {}
<1>1. DOMAIN s = 1 .. Len(s) /\ Len(s) \in Nat
  OBVIOUS
<1>2. \A i \in DOMAIN s : s[i] \in Row
  OBVIOUS
<1>3. 0 .. MaxAttempts - 1 \subseteq Nat
  OBVIOUS
<1>4. s = <<>> <=> Len(s) = 0
  BY EmptySeq
<1>5. \A i \in DOMAIN s : /\ s[i] \in Row /\ s[i].id \in Candidates
                          /\ s[i].ref \in Models \cup {NoRef} /\ s[i].attempts \in Nat
  BY <1>2, <1>3 DEF Row
<1> QED
  BY <1>1, <1>4, <1>5 DEF Ids

\* The same of c, and of rows.
LEMMA ChosenIs ==
  ASSUME NEW s \in Seq(Row), NEW some, NEW c, c = Chosen(s, some)
  PROVE  /\ c \in Seq(Row)
         /\ \A i \in DOMAIN c : \E j \in DOMAIN s : c[i] = s[j] /\ s[j] \in some
         /\ \A j \in DOMAIN s : s[j] \in some => \E i \in DOMAIN c : c[i] = s[j]
         /\ Distinct(s) => Distinct(c)
BY ChosenFacts

\* Nothing moved but, perhaps, models given to rows without one, and delays.
Same(q, r) ==
  /\ DOMAIN r = DOMAIN q
  /\ \A i \in DOMAIN q : /\ r[i].id = q[i].id /\ r[i].attempts = q[i].attempts
                         /\ q[i].ref # NoRef => r[i].ref = q[i].ref

\* That keeps everything about the table, if the worker does nothing.
LEMMA SameStep ==
  ASSUME Kept, Held, Counted, Same(queue, queue'), UNCHANGED <<worker, fate, loads>>
  PROVE  Kept' /\ Held' /\ Counted'
<1>1. \A c, ref : Carries(queue, c, ref) => Carries(queue', c, ref)
  BY DEF Same, Carries
<1>2. Kept'
  BY DEF Kept, Distinct, Same
<1>3. Held'
  BY <1>1 DEF Held, Distinct
<1>4. Counted'
  BY DEF Counted, Same, InHand, Ids
<1> QED
  BY <1>2, <1>3, <1>4

\* The worker has nothing in hand.
LEMMA FreeStep ==
  ASSUME Types, Kept, Held, Counted, UNCHANGED <<queue, fate, loads>>,
         worker'.pc \in {"idle", "gone"}, worker'.rest = <<>>, worker'.batch = {}
  PROVE  Kept' /\ Held' /\ Counted'
<1>1. Kept'
  BY DEF Kept, Distinct
<1>2. Held'
  BY DEF Held, Distinct
<1>3. InHand' = {}
  BY DEF InHand, Ids
<1>4. \A i \in DOMAIN queue : queue[i].attempts \in Nat /\ loads[queue[i].id] \in Nat
  BY RowFacts DEF Types
<1>5. Counted'
  BY <1>3, <1>4 DEF Counted
<1> QED
  BY <1>1, <1>2, <1>5

-----------------------------------------------------------------------------
(* The steps, and the part of the invariant that is about the table.       *)

\* A row stays of its type, whatever model or delay it gets.
LEMMA RowType ==
  ASSUME NEW r \in Row, NEW m \in Models \cup {NoRef}, NEW b \in BOOLEAN,
         NEW n \in 0 .. MaxAttempts - 1
  PROVE  /\ [r EXCEPT !.ref = m] \in Row /\ [r EXCEPT !.later = b] \in Row
         /\ [r EXCEPT !.attempts = n, !.later = b] \in Row
BY DEF Row

\* A sequence that has been mapped row by row.
LEMMA MapType ==
  ASSUME NEW s \in Seq(Row), NEW r, r = [i \in DOMAIN s |-> r[i]], \A i \in DOMAIN s : r[i] \in Row
  PROVE  r \in Seq(Row)
<1>1. DOMAIN s = 1 .. Len(s) /\ Len(s) \in Nat
  OBVIOUS
<1>2. r \in [1 .. Len(s) -> Row]
  BY <1>1
<1> QED
  BY <1>1, <1>2, SeqDef

\* The worker's record, field by field.
LEMMA WorkFacts ==
  ASSUME worker \in Work
  PROVE  /\ worker.pc \in {"idle", "next", "asking", "answered", "failed", "gone"}
         /\ worker.rest \in Seq(Row) /\ worker.batch \in SUBSET Candidates
         /\ worker.ref \in Models \cup {NoRef}
         /\ worker.shown \in SUBSET Candidates /\ worker.list \in SUBSET Candidates
BY DEF Work

\* Nothing in hand.
LEMMA NoWorkType == NoWork \in Work /\ Gone \in Work /\ NoWork.rest = <<>> /\ NoWork.batch = {}
                    /\ Gone.pc = "gone" /\ Gone.rest = <<>> /\ Gone.batch = {} /\ NoWork.pc = "idle"
<1>1. <<>> \in Seq(Row)
  OBVIOUS
<1> QED
  BY <1>1 DEF NoWork, Gone, Work

\* The daemon's steps.
LEMMA DaemonStep ==
  ASSUME Inv, Start \/ Stop \/ CloseQueue \/ CloseStore \/ Crash \/ Signal
  PROVE  Inv'
<1>0. Types /\ Kept /\ Held /\ Counted /\ Deleted /\ Alive
  BY DEF Inv
<1>1. UNCHANGED <<queue, profile, fate, loads, removed>>
  BY DEF Start, Stop, CloseQueue, CloseStore, Crash, Signal, durable, history
<1>2. worker' = worker \/ worker' = NoWork \/ worker' = Gone
  BY DEF Start, Stop, CloseQueue, CloseStore, Crash, Signal
<1>3. Types'
  <2>1. worker' \in Work
    BY <1>0, <1>2, NoWorkType DEF Types
  <2>2. /\ daemon' \in {"down", "up", "stopping"} /\ closed' \in BOOLEAN /\ signal' \in BOOLEAN
        /\ telling' \in Nat /\ stops' \in Nat /\ faults' \in Nat
    <3>0. /\ daemon \in {"down", "up", "stopping"} /\ closed \in BOOLEAN /\ signal \in BOOLEAN
          /\ telling \in Nat /\ stops \in Nat /\ faults \in Nat
      BY <1>0 DEF Types
    <3>1. CASE Start BY <3>0, <3>1 DEF Start
    <3>2. CASE Stop BY <3>0, <3>2 DEF Stop
    <3>3. CASE CloseQueue BY <3>0, <3>3 DEF CloseQueue
    <3>4. CASE CloseStore BY <3>0, <3>4 DEF CloseStore
    <3>5. CASE Crash
      <4>1. stops' \in Nat BY <3>0, <3>5 DEF Crash
      <4> QED BY <3>0, <3>5, <4>1 DEF Crash
    <3>6. CASE Signal
      <4>1. telling' \in Nat BY <3>0, <3>6 DEF Signal
      <4> QED BY <3>0, <3>6, <4>1 DEF Signal
    <3> QED BY <3>1, <3>2, <3>3, <3>4, <3>5, <3>6
  <2> QED
    BY <1>0, <1>1, <2>1, <2>2 DEF Types
<1>4. Kept' /\ Held' /\ Counted'
  <2>1. CASE worker' = worker
    BY <1>0, <1>1, <2>1, SameStep DEF Same
  <2>2. CASE worker' \in {NoWork, Gone}
    BY <1>0, <1>1, <2>2, FreeStep, NoWorkType
  <2> QED
    BY <1>2, <2>1, <2>2
<1>5. Deleted'
  BY <1>0, <1>1, <1>2, NoWorkType DEF Deleted, Merged
<1>6. Alive'
  BY <1>0, NoWorkType DEF Alive, Start, Stop, CloseQueue, CloseStore, WorkerEnded, Crash, Signal
<1> QED
  BY <1>3, <1>4, <1>5, <1>6 DEF Inv

\* A new candidate's row is the last.
LEMMA PushStep ==
  ASSUME MemoryAssumption, Inv, NEW c \in Candidates, Push(c)
  PROVE  Inv'
<1>0. Types /\ Kept /\ Held /\ Counted /\ Deleted /\ Alive
  BY DEF Inv
<1>1. PICK r \in Models, h \in BOOLEAN :
        queue' = Append(queue, [id |-> c, ref |-> r, high |-> h, attempts |-> 0, later |-> FALSE])
  BY DEF Push
<1> DEFINE row == [id |-> c, ref |-> r, high |-> h, attempts |-> 0, later |-> FALSE]
<1>2. UNCHANGED <<profile, daemon, closed, signal, worker, stops, faults, loads, removed>>
      /\ telling' = telling + 1 /\ fate[c] = "new" /\ fate' = [fate EXCEPT ![c] = "pending"]
  BY DEF Push
<1>3. row \in Row
  BY MemoryAssumption DEF Row
<1>4. row.id = c /\ row.attempts = 0
  OBVIOUS
<1> HIDE DEF row
<1>5. /\ queue \in Seq(Row) /\ Len(queue) \in Nat /\ DOMAIN queue = 1 .. Len(queue)
      /\ queue' \in Seq(Row) /\ DOMAIN queue' = 1 .. Len(queue) + 1
      /\ queue'[Len(queue) + 1] = row /\ \A i \in DOMAIN queue : queue'[i] = queue[i]
  BY <1>0, <1>1, <1>3, AppendProperties DEF Types, row
<1>6. \A i \in DOMAIN queue : queue[i].id # c
  BY <1>0, <1>2 DEF Kept
<1>7. \A i \in DOMAIN queue' : i \in DOMAIN queue \/ i = Len(queue) + 1
  BY <1>5
<1>8. Types'
  <2>1. fate' \in [Candidates -> Fates]
    BY <1>0, <1>2 DEF Types, Fates
  <2> QED
    BY <1>0, <1>2, <1>5, <2>1 DEF Types
<1>9. Kept'
  <2>1. Distinct(queue')
    BY <1>0, <1>4, <1>5, <1>6, <1>7 DEF Kept, Distinct
  <2>2. ASSUME NEW d \in Candidates
        PROVE  fate'[d] = "pending" <=> \E i \in DOMAIN queue' : queue'[i].id = d
    <3>1. Len(queue) + 1 \in DOMAIN queue' /\ \A i \in DOMAIN queue : i \in DOMAIN queue'
      BY <1>5
    <3>2. CASE d = c
      BY <1>0, <1>2, <1>4, <1>5, <3>1, <3>2 DEF Types
    <3>3. CASE d # c
      <4>1. fate'[d] = fate[d]
        BY <1>0, <1>2, <3>3 DEF Types
      <4> QED
        BY <1>0, <1>4, <1>5, <1>7, <3>1, <3>3, <4>1 DEF Kept
    <3> QED
      BY <3>2, <3>3
  <2> QED
    BY <2>1, <2>2 DEF Kept
<1>10. Held'
  <2>1. \A d, ref : Carries(queue, d, ref) => Carries(queue', d, ref)
    BY <1>5 DEF Carries
  <2> QED
    BY <1>0, <1>2, <2>1 DEF Held
<1>11. Counted'
  <2>1. c \notin InHand
    BY <1>0, <1>6 DEF InHand, Ids, Held, Carries
  <2>2. InHand' = InHand
    BY <1>2 DEF InHand, Ids
  <2>3. loads' = loads /\ loads[c] \in Nat
    BY <1>0, <1>2 DEF Types
  <2> SUFFICES ASSUME NEW i \in DOMAIN queue'
               PROVE  queue'[i].attempts + (IF queue'[i].id \in InHand THEN 1 ELSE 0)
                        <= loads[queue'[i].id]
    BY <2>2, <2>3 DEF Counted
  <2>4. CASE i \in DOMAIN queue
    BY <1>0, <1>5, <2>4 DEF Counted
  <2>5. CASE i = Len(queue) + 1
    BY <1>4, <1>5, <2>1, <2>3, <2>5
  <2> QED
    BY <1>7, <2>4, <2>5
<1>12. Deleted'
  <2>1. Merged' = Merged
    <3>1. \A d \in Candidates : fate'[d] = "merged" <=> fate[d] = "merged"
      BY <1>0, <1>2 DEF Types
    <3> QED BY <3>1 DEF Merged
  <2> QED
    BY <1>0, <1>2, <2>1 DEF Deleted
<1> QED
  BY <1>0, <1>2, <1>8, <1>9, <1>10, <1>11, <1>12 DEF Inv, Alive

\* Models for rows without one, and the end of a delay.
LEMMA RewordStep ==
  ASSUME Inv, (\E m \in Models : Materialize(m)) \/ (\E i \in DOMAIN queue : DelayEnds(i))
  PROVE  Inv'
<1>0. Types /\ Kept /\ Held /\ Counted /\ Deleted /\ Alive
  BY DEF Inv
<1>1. /\ UNCHANGED <<profile, fate, loads, removed, daemon, closed, signal, worker, stops, faults>>
      /\ telling' \in {telling, telling + 1}
  BY DEF Materialize, DelayEnds, history
<1>2. /\ queue \in Seq(Row) /\ DOMAIN queue = 1 .. Len(queue)
      /\ \A i \in DOMAIN queue : queue[i] \in Row
  BY <1>0, RowFacts DEF Types
<1>3. Same(queue, queue') /\ queue' \in Seq(Row)
  <2>1. CASE \E m \in Models : Materialize(m)
    <3>1. PICK m \in Models : queue' = Materialized(queue, m)
      BY <2>1 DEF Materialize
    <3>2. /\ DOMAIN queue' = DOMAIN queue /\ queue' = [i \in DOMAIN queue |-> queue'[i]]
          /\ \A i \in DOMAIN queue : /\ queue'[i].id = queue[i].id
                                     /\ queue'[i].attempts = queue[i].attempts
                                     /\ queue[i].ref # NoRef => queue'[i].ref = queue[i].ref
                                     /\ queue'[i] \in Row
      BY <1>2, <3>1 DEF Materialized, Row
    <3> QED
      BY <1>2, <3>2, MapType DEF Same
  <2>2. CASE \E i \in DOMAIN queue : DelayEnds(i)
    <3>1. PICK k \in DOMAIN queue : queue' = [queue EXCEPT ![k].later = FALSE]
      BY <2>2 DEF DelayEnds
    <3>2. DOMAIN queue' = DOMAIN queue /\ queue' = [i \in DOMAIN queue |-> queue'[i]]
      BY <1>2, <3>1
    <3>3. \A i \in DOMAIN queue : /\ queue'[i].id = queue[i].id
                                  /\ queue'[i].attempts = queue[i].attempts
                                  /\ queue[i].ref # NoRef => queue'[i].ref = queue[i].ref
      BY <1>2, <3>1 DEF Row
    <3>4. queue' \in Seq(Row)
      <4> DEFINE row == [queue[k] EXCEPT !.later = FALSE]
      <4>1. row \in Row
        BY <1>2 DEF Row
      <4>2. queue' = [queue EXCEPT ![k] = row]
        BY <3>1
      <4> HIDE DEF row
      <4> QED
        BY <1>2, <4>1, <4>2
    <3>5. Same(queue, queue')
      <4>1. DOMAIN queue' = DOMAIN queue
        BY <3>2
      <4> QED
        BY <3>3, <4>1 DEF Same
    <3> QED
      BY <3>4, <3>5
  <2> QED
    BY <2>1, <2>2
<1>4. Types'
  BY <1>0, <1>1, <1>3 DEF Types
<1>5. Kept' /\ Held' /\ Counted'
  BY <1>0, <1>1, <1>3, SameStep
<1> QED
  BY <1>0, <1>1, <1>4, <1>5 DEF Inv, Deleted, Merged, Alive

\* The user deletes memories.
LEMMA ForgetStep ==
  ASSUME Inv, NEW some \in SUBSET profile, Forget(some)
  PROVE  Inv'
<1>0. Types /\ Kept /\ Held /\ Counted /\ Deleted /\ Alive
  BY DEF Inv
<1>1. /\ UNCHANGED <<queue, daemon, closed, signal, telling, worker, stops, faults, fate, loads>>
      /\ profile' = profile \ some
      /\ removed' = IF worker.pc \in {"asking", "answered"} THEN removed ELSE removed \cup some
  BY DEF Forget
<1>2. Types'
  BY <1>0, <1>1 DEF Types
<1>3. Kept' /\ Held' /\ Counted'
  BY <1>0, <1>1, SameStep DEF Same
<1>4. Deleted'
  BY <1>0, <1>1 DEF Deleted, Merged
<1> QED
  BY <1>0, <1>1, <1>2, <1>3, <1>4 DEF Inv, Alive

\* The worker ends, or has done all.
LEMMA RestStep ==
  ASSUME Inv, WorkerStops \/ Rest
  PROVE  Inv'
<1>0. Types /\ Kept /\ Held /\ Counted /\ Deleted /\ Alive
  BY DEF Inv
<1>1. /\ UNCHANGED <<queue, profile, fate, loads, removed, daemon, closed, signal, telling, stops,
                     faults>>
      /\ worker' \in {NoWork, Gone} /\ worker.pc \in {"idle", "next"}
  BY DEF WorkerStops, Rest, durable, history
<1>2. Types'
  BY <1>0, <1>1, NoWorkType DEF Types
<1>3. Kept' /\ Held' /\ Counted'
  BY <1>0, <1>1, NoWorkType, FreeStep
<1> QED
  BY <1>0, <1>1, <1>2, <1>3, NoWorkType DEF Inv, Alive, Deleted, Merged

\* What is loaded are rows of the table.
LEMMA LoadedFacts ==
  ASSUME Types, Kept
  PROVE  /\ Loaded \in Seq(Row) /\ Distinct(Loaded)
         /\ \A i \in DOMAIN Loaded : \E j \in DOMAIN queue : Loaded[i] = queue[j]
<1>1. queue \in Seq(Row) /\ Distinct(queue)
  BY DEF Types, Kept
<1>2. CASE daemon = "up"
  <2> DEFINE keep == {r \in ToSet(queue) : r.attempts < MaxAttempts /\ ~r.later}
  <2>1. Loaded = Chosen(queue, keep)
    BY <1>2 DEF Loaded, Due
  <2> HIDE DEF keep
  <2>2. /\ Loaded \in Seq(Row)
        /\ \A i \in DOMAIN Loaded :
             \E j \in DOMAIN queue : Loaded[i] = queue[j] /\ queue[j] \in keep
        /\ Distinct(queue) => Distinct(Loaded)
    BY <1>1, <2>1, ChosenIs
  <2> QED
    BY <1>1, <2>2
<1>3. CASE daemon # "up"
  <2>1. Loaded = <<>> /\ DOMAIN Loaded = {}
    BY <1>3 DEF Loaded
  <2> QED
    BY <2>1 DEF Distinct
<1> QED
  BY <1>2, <1>3

\* A batch of due rows is loaded, or nothing.
LEMMA ProcessStep ==
  ASSUME Inv, WakeUp \/ TimerFires
  PROVE  Inv'
<1>0. Types /\ Kept /\ Held /\ Counted /\ Deleted /\ Alive
  BY DEF Inv
<1>1. /\ UNCHANGED <<queue, profile, fate, removed, daemon, closed, telling, stops, faults>>
      /\ signal' \in BOOLEAN /\ worker.pc = "idle" /\ (UNCHANGED <<worker, loads>> \/ Process)
  BY <1>0 DEF WakeUp, TimerFires, durable, Types
<1>2. CASE UNCHANGED <<worker, loads>>
  <2>1. Types'
    BY <1>0, <1>1, <1>2 DEF Types
  <2>2. Kept' /\ Held' /\ Counted'
    BY <1>0, <1>1, <1>2, SameStep DEF Same
  <2> QED
    BY <1>0, <1>1, <1>2, <2>1, <2>2 DEF Inv, Deleted, Merged, Alive
<1>3. CASE Process
  <2>1. /\ queue \in Seq(Row) /\ DOMAIN queue = 1 .. Len(queue)
        /\ \A i \in DOMAIN queue :
             queue[i] \in Row /\ queue[i].id \in Candidates /\ queue[i].attempts \in Nat
    BY <1>0, RowFacts DEF Types
  <2>2. /\ Loaded \in Seq(Row) /\ Distinct(Loaded)
        /\ \A i \in DOMAIN Loaded : \E j \in DOMAIN queue : Loaded[i] = queue[j]
    BY <1>0, LoadedFacts
  <2>3. /\ worker' = [NoWork EXCEPT !.pc = IF Loaded = <<>> THEN "idle" ELSE "next",
                                    !.rest = Loaded]
        /\ loads' = [c \in Candidates |-> loads[c] + (IF c \in Ids(Loaded) THEN 1 ELSE 0)]
    BY <1>3 DEF Process
  <2>4. /\ worker'.pc = (IF Loaded = <<>> THEN "idle" ELSE "next") /\ worker'.rest = Loaded
        /\ worker'.batch = {} /\ worker' \in Work
    BY <2>2, <2>3 DEF NoWork, Work
  <2>5. /\ loads' \in [Candidates -> Nat]
        /\ \A c \in Candidates : /\ loads[c] \in Nat
                                 /\ loads'[c] = loads[c] + (IF c \in Ids(Loaded) THEN 1 ELSE 0)
    BY <1>0, <2>3 DEF Types
  <2>6. Types'
    BY <1>0, <1>1, <2>4, <2>5 DEF Types
  <2>7. Kept'
    BY <1>0, <1>1 DEF Kept
  <2>8. Held'
    <3>1. \A i \in DOMAIN Loaded : Carries(queue', Loaded[i].id, Loaded[i].ref)
      BY <1>1, <2>2 DEF Carries
    <3> QED
      BY <2>2, <2>4, <3>1 DEF Held
  <2>9. Counted'
    <3>1. InHand' = Ids(Loaded)
      BY <2>4 DEF InHand, Ids
    <3>2. InHand = {}
      BY <1>0, <1>1 DEF Held, InHand, Ids
    <3> SUFFICES ASSUME NEW i \in DOMAIN queue
                 PROVE  queue[i].attempts + (IF queue[i].id \in Ids(Loaded) THEN 1 ELSE 0)
                          <= loads'[queue[i].id]
      BY <1>1, <3>1 DEF Counted
    <3>3. queue[i].attempts <= loads[queue[i].id]
      BY <1>0, <2>1, <3>2 DEF Counted
    <3> QED
      BY <2>1, <2>5, <3>3
  <2> QED
    BY <1>0, <1>1, <2>4, <2>6, <2>7, <2>8, <2>9 DEF Inv, Deleted, Merged, Alive
<1> QED
  BY <1>1, <1>2, <1>3

\* What a group and what is left after it are, together.
LEMMA GroupFacts ==
  ASSUME NEW s \in Seq(Row), s # <<>>, Distinct(s)
  PROVE  /\ Together(s) \in Seq(Row) /\ Others(s) \in Seq(Row) /\ Distinct(Others(s))
         /\ Together(s)[1].ref = s[1].ref
         /\ \A i \in DOMAIN Together(s) :
              \E j \in DOMAIN s : Together(s)[i] = s[j] /\ s[j].ref = s[1].ref
         /\ \A i \in DOMAIN Others(s) : \E j \in DOMAIN s : Others(s)[i] = s[j]
         /\ Ids(Together(s)) \cup Ids(Others(s)) = Ids(s)
         /\ \A i \in DOMAIN Others(s) : Others(s)[i].id \notin Ids(Together(s))
<1> DEFINE t == Together(s)
           o == Others(s)
<1>1. 1 \in DOMAIN s /\ DOMAIN s = 1 .. Len(s)
  BY RowFacts
<1>2. \A j \in DOMAIN s : s[j] \in ToSet(s)
  BY DEF ToSet
<1>3. /\ t \in Seq(Row)
      /\ \A i \in DOMAIN t : \E j \in DOMAIN s : t[i] = s[j] /\ s[j].ref = s[1].ref
      /\ \A j \in DOMAIN s : s[j].ref = s[1].ref => \E i \in DOMAIN t : t[i] = s[j]
  <2> DEFINE keep == {r \in ToSet(s) : r.ref = s[1].ref}
  <2>1. t = Chosen(s, keep)
    BY DEF Together
  <2>2. \A j \in DOMAIN s : s[j] \in keep <=> s[j].ref = s[1].ref
    BY <1>2
  <2> HIDE DEF t, keep
  <2>3. /\ t \in Seq(Row)
        /\ \A i \in DOMAIN t : \E j \in DOMAIN s : t[i] = s[j] /\ s[j] \in keep
        /\ \A j \in DOMAIN s : s[j] \in keep => \E i \in DOMAIN t : t[i] = s[j]
    BY <2>1, ChosenIs
  <2> QED
    BY <2>2, <2>3
<1> HIDE DEF t
<1>4. /\ o \in Seq(Row) /\ Distinct(o)
      /\ \A i \in DOMAIN o : \E j \in DOMAIN s : o[i] = s[j] /\ s[j] \notin ToSet(t)
      /\ \A j \in DOMAIN s : s[j] \notin ToSet(t) => \E i \in DOMAIN o : o[i] = s[j]
  <2> DEFINE keep == ToSet(s) \ ToSet(t)
  <2>1. o = Chosen(s, keep)
    BY DEF Others, t
  <2>2. \A j \in DOMAIN s : s[j] \in keep <=> s[j] \notin ToSet(t)
    BY <1>2
  <2> HIDE DEF o, keep
  <2>3. /\ o \in Seq(Row) /\ Distinct(o)
        /\ \A i \in DOMAIN o : \E j \in DOMAIN s : o[i] = s[j] /\ s[j] \in keep
        /\ \A j \in DOMAIN s : s[j] \in keep => \E i \in DOMAIN o : o[i] = s[j]
    BY <2>1, ChosenIs
  <2> QED
    BY <2>2, <2>3
<1> HIDE DEF o
<1>5. t[1].ref = s[1].ref
  <2>1. DOMAIN t # {} /\ DOMAIN t = 1 .. Len(t) /\ Len(t) \in Nat
    BY <1>1, <1>3
  <2>2. 1 \in DOMAIN t
    BY <2>1
  <2> QED
    BY <1>3, <2>2
<1>6. Ids(t) \cup Ids(o) = Ids(s)
  <2>1. \A j \in DOMAIN s : s[j].id \in Ids(t) \cup Ids(o)
    <3> SUFFICES ASSUME NEW j \in DOMAIN s PROVE s[j].id \in Ids(t) \cup Ids(o)
      OBVIOUS
    <3>1. CASE s[j] \in ToSet(t)
      BY <3>1 DEF ToSet, Ids
    <3>2. CASE s[j] \notin ToSet(t)
      BY <1>4, <3>2 DEF Ids
    <3> QED BY <3>1, <3>2
  <2>2. Ids(t) \subseteq Ids(s) /\ Ids(o) \subseteq Ids(s)
    BY <1>3, <1>4 DEF Ids
  <2>3. Ids(s) \subseteq Ids(t) \cup Ids(o)
    BY <2>1 DEF Ids
  <2> QED
    BY <2>2, <2>3
<1>7. \A i \in DOMAIN o : o[i].id \notin Ids(t)
  <2> SUFFICES ASSUME NEW i \in DOMAIN o, NEW k \in DOMAIN t, o[i].id = t[k].id PROVE FALSE
    BY DEF Ids
  <2>1. PICK j \in DOMAIN s : o[i] = s[j] /\ s[j] \notin ToSet(t)
    BY <1>4
  <2>2. PICK l \in DOMAIN s : t[k] = s[l]
    BY <1>3
  <2>3. j = l
    BY <2>1, <2>2 DEF Distinct
  <2> QED
    BY <2>1, <2>2, <2>3 DEF ToSet
<1> QED
  BY <1>3, <1>4, <1>5, <1>6, <1>7 DEF t, o

\* The next group, asked about or put off.
LEMMA GroupStep ==
  ASSUME Inv, BeginGroup
  PROVE  Inv'
<1>0. Types /\ Kept /\ Held /\ Counted /\ Deleted /\ Alive
  BY DEF Inv
<1>1. /\ UNCHANGED <<queue, profile, fate, loads, removed, daemon, closed, signal, telling, stops>>
      /\ worker.pc = "next" /\ worker.rest # <<>> /\ faults' \in {faults, faults + 1}
  BY DEF BeginGroup, durable, history, Fault
<1> DEFINE s == worker.rest
           t == Together(s)
           o == Others(s)
<1>2. /\ worker \in Work /\ s \in Seq(Row) /\ Distinct(s) /\ worker.batch = {}
      /\ \A i \in DOMAIN s : Carries(queue, s[i].id, s[i].ref)
  BY <1>0, <1>1, WorkFacts DEF Types, Held
<1>3. /\ worker'.batch = Ids(t) /\ worker'.ref = t[1].ref /\ worker'.rest = o
      /\ \/ worker'.pc = "failed" /\ worker'.shown = worker.shown
         \/ worker'.pc = "asking" /\ worker'.shown = profile /\ t[1].ref # NoRef
      /\ worker'.list = worker.list
      /\ worker' = [pc |-> worker'.pc, rest |-> o, batch |-> Ids(t), ref |-> t[1].ref,
                    shown |-> worker'.shown, list |-> worker.list]
  BY <1>2 DEF BeginGroup, Work, Shown
<1>4. /\ t \in Seq(Row) /\ o \in Seq(Row) /\ Distinct(o)
      /\ t[1].ref = s[1].ref
      /\ \A i \in DOMAIN t : \E j \in DOMAIN s : t[i] = s[j] /\ s[j].ref = s[1].ref
      /\ \A i \in DOMAIN o : \E j \in DOMAIN s : o[i] = s[j]
      /\ Ids(t) \cup Ids(o) = Ids(s)
      /\ \A i \in DOMAIN o : o[i].id \notin Ids(t)
  BY <1>1, <1>2, GroupFacts
<1> HIDE DEF s, t, o
<1>5. Types'
  <2>1. Ids(t) \in SUBSET Candidates
    BY <1>4, RowFacts
  <2>2. s[1].ref \in Models \cup {NoRef}
    <3>1. 1 \in DOMAIN s
      BY <1>1, <1>2, RowFacts DEF s
    <3> QED BY <1>2, <3>1, RowFacts
  <2>3. worker' \in Work
    <3>1. worker'.pc \in {"asking", "failed"} /\ worker'.shown \in SUBSET Candidates
          /\ worker.list \in SUBSET Candidates
      BY <1>0, <1>2, <1>3, WorkFacts DEF Types
    <3> QED
      BY <1>3, <1>4, <2>1, <2>2, <3>1 DEF Work
  <2>4. faults' \in Nat
    BY <1>0, <1>1 DEF Types
  <2> QED
    BY <1>0, <1>1, <2>3, <2>4 DEF Types
<1>6. Kept'
  BY <1>0, <1>1 DEF Kept
<1>7. Held'
  <2>1. \A i \in DOMAIN o : Carries(queue, o[i].id, o[i].ref)
    BY <1>2, <1>4
  <2>2. \A c \in Ids(t) : Carries(queue, c, t[1].ref) /\ Carries(queue, c, NoRef)
    <3> SUFFICES ASSUME NEW i \in DOMAIN t
                 PROVE  Carries(queue, t[i].id, t[1].ref) /\ Carries(queue, t[i].id, NoRef)
      BY DEF Ids
    <3>1. Carries(queue, t[i].id, t[1].ref)
      BY <1>2, <1>4
    <3> QED BY <3>1 DEF Carries
  <2> QED
    BY <1>1, <1>3, <1>4, <2>1, <2>2 DEF Held
<1>8. Counted'
  <2>1. InHand' = InHand
    <3>1. InHand = Ids(s) /\ InHand' = Ids(o) \cup Ids(t)
      BY <1>2, <1>3 DEF InHand, Ids, s
    <3> QED BY <1>4, <3>1
  <2> QED
    BY <1>0, <1>1, <2>1 DEF Counted
<1>9. Deleted'
  BY <1>0, <1>1, <1>3 DEF Deleted, Merged
<1> QED
  BY <1>0, <1>1, <1>3, <1>5, <1>6, <1>7, <1>8, <1>9 DEF Inv, Alive

\* The model answers or fails.
LEMMA AnswerStep ==
  ASSUME Inv, Answer
  PROVE  Inv'
<1>0. Types /\ Kept /\ Held /\ Counted /\ Deleted /\ Alive
  BY DEF Inv
<1>1. /\ UNCHANGED <<queue, profile, fate, loads, removed, daemon, closed, signal, telling, stops>>
      /\ worker.pc = "asking" /\ faults' \in {faults, faults + 1}
  BY DEF Answer, durable, history, Fault
<1>2. worker \in Work
  BY <1>0 DEF Types
<1>3. /\ worker'.batch = worker.batch /\ worker'.ref = worker.ref /\ worker'.rest = worker.rest
      /\ \/ worker'.pc = "failed"
         \/ worker'.pc = "answered" /\ worker'.list \subseteq worker.shown \cup worker.batch
      /\ worker' \in Work
  BY <1>2 DEF Answer, Work
<1>5. Types'
  <2>1. faults' \in Nat
    BY <1>0, <1>1 DEF Types
  <2> QED
    BY <1>0, <1>1, <1>3, <2>1 DEF Types
<1>6. Kept'
  BY <1>0, <1>1 DEF Kept
<1>7. Held'
  <2>1. \A c, ref : Carries(queue, c, ref) => Carries(queue, c, NoRef)
    BY DEF Carries
  <2> QED
    BY <1>0, <1>1, <1>3, <2>1 DEF Held
<1>8. Counted'
  BY <1>0, <1>1, <1>3 DEF Counted, InHand, Ids
<1>9. Deleted'
  <2>1. worker.batch \cap Merged = {} 
    BY <1>0 DEF Held, Carries, Kept, Merged
  <2> QED
    BY <1>0, <1>1, <1>3, <2>1 DEF Deleted, Merged
<1> QED
  BY <1>0, <1>1, <1>3, <1>5, <1>6, <1>7, <1>8, <1>9 DEF Inv, Alive

\* What is left without the rows of some candidates.
LEMMA WithoutFacts ==
  ASSUME NEW s \in Seq(Row), NEW some, NEW q, q = Without(s, some)
  PROVE  /\ q \in Seq(Row)
         /\ \A i \in DOMAIN q : \E j \in DOMAIN s : q[i] = s[j] /\ s[j].id \notin some
         /\ \A j \in DOMAIN s : s[j].id \notin some => \E i \in DOMAIN q : q[i] = s[j]
         /\ Distinct(s) => Distinct(q)
<1> DEFINE keep == {r \in ToSet(s) : r.id \notin some}
<1>1. q = Chosen(s, keep)
  BY DEF Without
<1>2. \A j \in DOMAIN s : s[j] \in keep <=> s[j].id \notin some
  BY DEF ToSet
<1> HIDE DEF keep
<1>3. /\ q \in Seq(Row)
      /\ \A i \in DOMAIN q : \E j \in DOMAIN s : q[i] = s[j] /\ s[j] \in keep
      /\ \A j \in DOMAIN s : s[j] \in keep => \E i \in DOMAIN q : q[i] = s[j]
      /\ Distinct(s) => Distinct(q)
  BY <1>1, ChosenIs
<1> QED
  BY <1>2, <1>3

\* The worker goes on to the next group.
LEMMA NextGroupFacts ==
  ASSUME worker \in Work, worker' = NextGroup
  PROVE  /\ worker' \in Work /\ worker'.pc = "next" /\ worker'.batch = {}
         /\ worker'.rest = worker.rest
BY DEF Work, NextGroup

\* The answer is committed, or is not.
LEMMA CommitStep ==
  ASSUME Inv, Commit
  PROVE  Inv'
<1>0. Types /\ Kept /\ Held /\ Counted /\ Deleted /\ Alive
  BY DEF Inv
<1>1. /\ UNCHANGED <<loads, removed, daemon, closed, signal, telling, stops>>
      /\ worker.pc = "answered" /\ faults' \in {faults, faults + 1}
  BY DEF Commit, Fault
<1>2. faults' \in Nat
  BY <1>0, <1>1 DEF Types
<1>3. worker \in Work /\ queue \in Seq(Row)
  BY <1>0 DEF Types
<1>4. CASE UNCHANGED <<queue, profile, fate>> /\ worker' = [worker EXCEPT !.pc = "failed"]
  <2>1. /\ worker'.batch = worker.batch /\ worker'.rest = worker.rest /\ worker'.pc = "failed"
        /\ worker' \in Work
    BY <1>3, <1>4 DEF Work
  <2>2. Types'
    BY <1>0, <1>1, <1>2, <1>4, <2>1 DEF Types
  <2>3. Held'
    <3>1. \A c, ref : Carries(queue, c, ref) => Carries(queue, c, NoRef)
      BY DEF Carries
    <3> QED
      BY <1>0, <1>1, <1>4, <2>1, <3>1 DEF Held
  <2>4. Kept' /\ Counted'
    BY <1>0, <1>1, <1>4, <2>1 DEF Kept, Counted, InHand, Ids
  <2>5. Deleted' /\ Alive'
    BY <1>0, <1>1, <1>4, <2>1 DEF Deleted, Merged, Alive
  <2> QED
    BY <2>2, <2>3, <2>4, <2>5 DEF Inv
<1>5. CASE /\ profile' = worker.list /\ queue' = Without(queue, worker.batch)
           /\ fate' = [c \in Candidates |-> IF c \in worker.batch THEN "merged" ELSE fate[c]]
           /\ worker' = NextGroup
  <2>1. /\ worker' \in Work /\ worker'.pc = "next" /\ worker'.batch = {}
        /\ worker'.rest = worker.rest
    BY <1>3, <1>5, NextGroupFacts
  <2>2. /\ queue' \in Seq(Row)
        /\ \A i \in DOMAIN queue' :
             \E j \in DOMAIN queue : queue'[i] = queue[j] /\ queue[j].id \notin worker.batch
        /\ \A j \in DOMAIN queue : queue[j].id \notin worker.batch =>
             \E i \in DOMAIN queue' : queue'[i] = queue[j]
        /\ Distinct(queue')
    BY <1>0, <1>3, <1>5, WithoutFacts DEF Kept
  <2>3. fate' \in [Candidates -> Fates]
        /\ \A c \in Candidates : fate'[c] = IF c \in worker.batch THEN "merged" ELSE fate[c]
    BY <1>0, <1>5 DEF Types, Fates
  <2>4. worker.list \in SUBSET Candidates /\ worker.batch \in SUBSET Candidates
    BY <1>3, WorkFacts
  <2>5. Types'
    BY <1>0, <1>1, <1>2, <1>5, <2>1, <2>2, <2>3, <2>4 DEF Types
  <2>6. Kept'
    <3> SUFFICES ASSUME NEW c \in Candidates
                 PROVE  fate'[c] = "pending" <=> \E i \in DOMAIN queue' : queue'[i].id = c
      BY <2>2 DEF Kept
    <3>1. fate[c] = "pending" <=> \E i \in DOMAIN queue : queue[i].id = c
      BY <1>0 DEF Kept
    <3> QED
      BY <2>2, <2>3, <3>1
  <2>7. Held'
    <3>1. \A c, ref : c \notin worker.batch /\ Carries(queue, c, ref) => Carries(queue', c, ref)
      BY <2>2 DEF Carries
    <3> QED
      BY <1>0, <2>1, <3>1 DEF Held, Distinct
  <2>8. Counted'
    <3>1. InHand' = Ids(worker.rest) /\ InHand = Ids(worker.rest) \cup worker.batch
      BY <2>1 DEF InHand, Ids
    <3> SUFFICES ASSUME NEW i \in DOMAIN queue'
                 PROVE  queue'[i].attempts + (IF queue'[i].id \in InHand' THEN 1 ELSE 0)
                          <= loads[queue'[i].id]
      BY <1>1 DEF Counted
    <3>2. PICK j \in DOMAIN queue : queue'[i] = queue[j] /\ queue[j].id \notin worker.batch
      BY <2>2
    <3>3. queue[j].attempts + (IF queue[j].id \in InHand THEN 1 ELSE 0) <= loads[queue[j].id]
      BY <1>0 DEF Counted
    <3> QED
      BY <3>1, <3>2, <3>3
  <2>9. Deleted'
    <3>1. Merged' = Merged \cup worker.batch
      BY <2>3, <2>4 DEF Merged
    <3> QED
      BY <1>0, <1>1, <1>5, <2>1, <3>1 DEF Deleted
  <2> QED
    BY <1>0, <1>1, <2>1, <2>5, <2>6, <2>7, <2>8, <2>9 DEF Inv, Alive
<1> QED
  BY <1>4, <1>5 DEF Commit, durable

\* The rows that a failure has exhausted, by candidate.
Given == {r.id : r \in {r \in ToSet(queue) : r.id \in worker.batch /\ Exhausted(r)}}

\* What the other rows of the batch become.
Later(r) == IF r.id \in worker.batch THEN [r EXCEPT !.attempts = @ + 1, !.later = TRUE] ELSE r

\* A failed group's rows are put off or given up, or that fails as well.
LEMMA RetryStep ==
  ASSUME MemoryAssumption, Inv, Retry
  PROVE  Inv'
<1>0. Types /\ Kept /\ Held /\ Counted /\ Deleted /\ Alive
  BY DEF Inv
<1>1. /\ UNCHANGED <<profile, loads, removed, daemon, closed, signal, telling, stops>>
      /\ worker.pc = "failed" /\ faults' \in {faults, faults + 1} /\ worker' = NextGroup
  BY DEF Retry, Fault
<1>2. faults' \in Nat
  BY <1>0, <1>1 DEF Types
<1>3. /\ worker \in Work /\ queue \in Seq(Row) /\ worker.batch \in SUBSET Candidates
      /\ \A i \in DOMAIN queue : queue[i].attempts \in Nat /\ queue[i] \in Row
  BY <1>0, WorkFacts, RowFacts DEF Types
<1>4. /\ worker' \in Work /\ worker'.pc = "next" /\ worker'.batch = {} /\ worker'.rest = worker.rest
  BY <1>1, <1>3, NextGroupFacts
<1>5. InHand' = Ids(worker.rest) /\ InHand = Ids(worker.rest) \cup worker.batch
  BY <1>4 DEF InHand, Ids
<1>6. \A i \in DOMAIN worker.rest : worker.rest[i].id \notin worker.batch
  BY <1>0 DEF Held
<1>7. \A i \in DOMAIN queue : loads[queue[i].id] \in Nat
  BY <1>0, RowFacts DEF Types
<1>8. CASE UNCHANGED <<queue, fate>>
  <2>1. Types'
    BY <1>0, <1>1, <1>2, <1>4, <1>8 DEF Types
  <2>2. Kept' /\ Held'
    BY <1>0, <1>4, <1>8 DEF Kept, Held, Distinct
  <2>3. Counted'
    <3> SUFFICES ASSUME NEW i \in DOMAIN queue
                 PROVE  queue[i].attempts + (IF queue[i].id \in InHand' THEN 1 ELSE 0)
                          <= loads[queue[i].id]
      BY <1>1, <1>8 DEF Counted
    <3>1. queue[i].attempts + (IF queue[i].id \in InHand THEN 1 ELSE 0) <= loads[queue[i].id]
      BY <1>0 DEF Counted
    <3> QED
      BY <1>3, <1>5, <1>7, <3>1
  <2> QED
    BY <1>0, <1>1, <1>4, <1>8, <2>1, <2>2, <2>3 DEF Inv, Deleted, Merged, Alive
<1>9. CASE ~UNCHANGED <<queue, fate>>
  <2> DEFINE kept == Without(queue, Given)
  <2>1. /\ queue' = [i \in DOMAIN kept |-> Later(kept[i])]
        /\ fate' = [c \in Candidates |-> IF c \in Given THEN "dropped" ELSE fate[c]]
    BY <1>9 DEF Retry, Later, Given
  <2>2. /\ kept \in Seq(Row)
        /\ \A i \in DOMAIN kept :
             \E j \in DOMAIN queue : kept[i] = queue[j] /\ queue[j].id \notin Given
        /\ \A j \in DOMAIN queue : queue[j].id \notin Given =>
             \E i \in DOMAIN kept : kept[i] = queue[j]
        /\ Distinct(kept)
    <3>1. kept = Without(queue, Given)
      OBVIOUS
    <3> HIDE DEF kept
    <3>2. queue \in Seq(Row) /\ Distinct(queue)
      BY <1>0, <1>3 DEF Kept
    <3> QED BY <3>1, <3>2, WithoutFacts
  <2> HIDE DEF kept
  <2>3. \A c : c \in Given <=>
          c \in worker.batch /\ \E j \in DOMAIN queue : queue[j].id = c /\ Exhausted(queue[j])
    BY DEF Given, ToSet
  <2>4. DOMAIN queue' = DOMAIN kept /\ \A i \in DOMAIN kept : queue'[i] = Later(kept[i])
    BY <2>1
  <2>5. ASSUME NEW i \in DOMAIN kept, NEW j \in DOMAIN queue,
               kept[i] = queue[j], queue[j].id \notin Given
        PROVE  /\ queue'[i] \in Row /\ queue'[i].id = queue[j].id /\ queue'[i].ref = queue[j].ref
               /\ queue'[i].attempts
                    = queue[j].attempts + IF queue[j].id \in worker.batch THEN 1 ELSE 0
    <3>1. queue'[i] = Later(queue[j]) /\ queue[j] \in Row
      BY <1>3, <2>4, <2>5
    <3>2. CASE queue[j].id \in worker.batch
      <4>1. ~Exhausted(queue[j])
        BY <2>3, <2>5, <3>2
      <4>2. queue[j].attempts + 1 \in 0 .. MaxAttempts - 1
        BY <1>3, <4>1, MemoryAssumption DEF Exhausted
      <4>3. queue'[i] = [queue[j] EXCEPT !.attempts = queue[j].attempts + 1, !.later = TRUE]
        BY <3>1, <3>2 DEF Later
      <4> QED
        BY <3>1, <3>2, <4>2, <4>3 DEF Row
    <3>3. CASE queue[j].id \notin worker.batch
      BY <1>3, <3>1, <3>3 DEF Later
    <3> QED
      BY <3>2, <3>3
  <2>6. queue' \in Seq(Row)
    <3>1. \A i \in DOMAIN kept : Later(kept[i]) \in Row
      BY <2>2, <2>4, <2>5
    <3>2. DOMAIN kept = 1 .. Len(kept) /\ Len(kept) \in Nat
      BY <2>2
    <3>3. queue' \in [1 .. Len(kept) -> Row]
      BY <2>1, <3>1, <3>2
    <3> QED
      BY <3>2, <3>3, SeqDef
  <2>7. fate' \in [Candidates -> Fates]
        /\ \A c \in Candidates : fate'[c] = IF c \in Given THEN "dropped" ELSE fate[c]
    BY <1>0, <2>1 DEF Types, Fates
  <2>8. Types'
    BY <1>0, <1>1, <1>2, <1>4, <2>6, <2>7 DEF Types
  <2>9. Kept'
    <3>1. \A i \in DOMAIN kept : queue'[i].id = kept[i].id
      BY <2>2, <2>5
    <3>2. Distinct(queue')
      BY <2>2, <2>4, <3>1 DEF Distinct
    <3> SUFFICES ASSUME NEW c \in Candidates
                 PROVE  fate'[c] = "pending" <=> \E i \in DOMAIN queue' : queue'[i].id = c
      BY <3>2 DEF Kept
    <3>3. fate[c] = "pending" <=> \E i \in DOMAIN queue : queue[i].id = c
      BY <1>0 DEF Kept
    <3>4. (\E i \in DOMAIN kept : kept[i].id = c)
            <=> c \notin Given /\ \E j \in DOMAIN queue : queue[j].id = c
      BY <2>2
    <3> QED
      BY <2>4, <2>7, <3>1, <3>3, <3>4
  <2>10. Held'
    <3>1. \A c, ref : c \notin worker.batch /\ Carries(queue, c, ref) => Carries(queue', c, ref)
      <4> SUFFICES ASSUME NEW c, NEW ref, c \notin worker.batch, NEW j \in DOMAIN queue,
                          queue[j].id = c, ref # NoRef => queue[j].ref = ref
                   PROVE  Carries(queue', c, ref)
        BY DEF Carries
      <4>1. PICK i \in DOMAIN kept : kept[i] = queue[j]
        BY <2>2, <2>3
      <4>2. queue'[i].id = queue[j].id /\ queue'[i].ref = queue[j].ref
        BY <2>3, <2>5, <4>1
      <4> QED
        BY <2>4, <4>2 DEF Carries
    <3> QED
      BY <1>0, <1>4, <3>1 DEF Held, Distinct
  <2>11. Counted'
    <3> SUFFICES ASSUME NEW i \in DOMAIN kept
                 PROVE  queue'[i].attempts + (IF queue'[i].id \in InHand' THEN 1 ELSE 0)
                          <= loads[queue'[i].id]
      BY <1>1, <2>4 DEF Counted
    <3>1. PICK j \in DOMAIN queue : kept[i] = queue[j] /\ queue[j].id \notin Given
      BY <2>2
    <3>2. queue[j].attempts + (IF queue[j].id \in InHand THEN 1 ELSE 0) <= loads[queue[j].id]
      BY <1>0 DEF Counted
    <3>3. /\ queue'[i].id = queue[j].id
          /\ queue'[i].attempts = queue[j].attempts + IF queue[j].id \in worker.batch THEN 1 ELSE 0
      BY <2>5, <3>1
    <3>4. queue[j].id \in worker.batch => queue[j].id \notin InHand' /\ queue[j].id \in InHand
      BY <1>5, <1>6 DEF Ids
    <3>5. queue[j].id \notin worker.batch => (queue[j].id \in InHand' <=> queue[j].id \in InHand)
      BY <1>5
    <3>6. queue[j].attempts \in Nat /\ loads[queue[j].id] \in Nat
      BY <1>3, <1>7
    <3> QED
      BY <3>2, <3>3, <3>4, <3>5, <3>6
  <2>12. Deleted'
    <3>1. \A c \in Given : fate[c] # "merged"
      <4> SUFFICES ASSUME NEW c \in Given PROVE fate[c] = "pending"
        OBVIOUS
      <4> QED
        BY <1>0, <1>3, <2>3 DEF Kept
    <3>2. Merged' = Merged
      BY <2>7, <3>1 DEF Merged
    <3> QED
      BY <1>0, <1>1, <1>4, <3>2 DEF Deleted
  <2> QED
    BY <1>0, <1>1, <1>4, <2>8, <2>9, <2>10, <2>11, <2>12 DEF Inv, Alive
<1> QED
  BY <1>8, <1>9

-----------------------------------------------------------------------------
(* The theorems.                                                           *)

\* A set of at most one row, as a sequence.
LEMMA OneRow ==
  ASSUME NEW S, IsFiniteSet(S), Cardinality(S) <= 1
  PROVE  \/ S = {} /\ SetToSeq(S) = <<>>
         \/ \E x : S = {x} /\ SetToSeq(S) = <<x>>
<1>1. CASE S = {}
  <2>1. Cardinality(S) = 0
    BY <1>1, FS_EmptySet
  <2>2. \E f \in [1 .. 0 -> S] : IsInjective(f)
    <3>1. <<>> \in [1 .. 0 -> S] /\ IsInjective(<<>>)
      BY DEF IsInjective
    <3> QED BY <3>1
  <2>3. SetToSeq(S) \in [1 .. 0 -> S]
    BY <2>1, <2>2 DEF SetToSeq
  <2>4. SetToSeq(S) = <<>>
    BY <2>3
  <2> QED
    BY <1>1, <2>4
<1>2. CASE S # {}
  <2>1. PICK x : x \in S
    BY <1>2
  <2>2. IsFiniteSet(S \ {x}) /\ Cardinality(S \ {x}) = Cardinality(S) - 1
        /\ Cardinality(S) \in Nat /\ Cardinality(S \ {x}) \in Nat
    BY <2>1, FS_RemoveElement, FS_CardinalityType
  <2>3. Cardinality(S \ {x}) = 0 /\ Cardinality(S) = 1
    BY <2>2
  <2>4. S \ {x} = {}
    BY <2>2, <2>3, FS_EmptySet
  <2>5. S = {x}
    BY <2>1, <2>4
  <2>6. \E f \in [1 .. 1 -> S] : IsInjective(f)
    <3>1. [i \in 1 .. 1 |-> x] \in [1 .. 1 -> S] /\ IsInjective([i \in 1 .. 1 |-> x])
      BY <2>1 DEF IsInjective
    <3> QED BY <3>1
  <2>7. SetToSeq(S) \in [1 .. 1 -> S]
    BY <2>3, <2>6 DEF SetToSeq
  <2>8. SetToSeq(S) = <<x>>
    BY <2>5, <2>7
  <2> QED
    BY <2>5, <2>8
<1> QED
  BY <1>1, <1>2

\* The invariant holds at first: at most one row is there.
LEMMA InitInv ==
  ASSUME MemoryAssumption, Init
  PROVE  Inv
<1>1. PICK old \in SUBSET Candidates, r \in Models \cup {NoRef} :
        /\ Cardinality(old) <= 1
        /\ queue = SetToSeq({[id |-> c, ref |-> r, high |-> FALSE,
                             attempts |-> 0, later |-> FALSE] : c \in old})
        /\ fate = [c \in Candidates |-> IF c \in old THEN "pending" ELSE "new"]
  BY DEF Init
<1> DEFINE row(c) == [id |-> c, ref |-> r, high |-> FALSE, attempts |-> 0, later |-> FALSE]
           S == {row(c) : c \in old}
<1>2. \A c \in old : row(c) \in Row /\ row(c).id = c /\ row(c).attempts = 0
  BY MemoryAssumption DEF Row
<1>3. IsFiniteSet(old) /\ IsFiniteSet(S) /\ Cardinality(S) <= 1
  <2>1. IsFiniteSet(old) /\ Cardinality(old) \in Nat
    BY MemoryAssumption, FS_Subset, FS_CardinalityType DEF MemoryAssumption
  <2>2. \/ old = {} 
        \/ \E c : old = {c}
    <3>1. CASE old # {}
      <4>1. PICK c : c \in old
        BY <3>1
      <4>2. IsFiniteSet(old \ {c}) /\ Cardinality(old \ {c}) = Cardinality(old) - 1
            /\ Cardinality(old \ {c}) \in Nat
        BY <2>1, <4>1, FS_RemoveElement, FS_CardinalityType
      <4>3. old \ {c} = {}
        BY <1>1, <2>1, <4>2, FS_EmptySet
      <4> QED
        BY <4>1, <4>3
    <3> QED BY <3>1
  <2>3. S = {} \/ \E x : S = {x}
    <3>1. CASE old = {}
      BY <3>1
    <3>2. CASE \E c : old = {c}
      <4>1. PICK c : old = {c}
        BY <3>2
      <4>2. S = {row(c)}
        BY <4>1
      <4> QED
        BY <4>2
    <3> QED
      BY <2>2, <3>1, <3>2
  <2> HIDE DEF S
  <2>4. IsFiniteSet(S) /\ Cardinality(S) <= 1
    <3>1. CASE S = {}
      <4>1. IsFiniteSet(S) /\ Cardinality(S) = 0
        BY <3>1, FS_EmptySet
      <4> QED
        BY <4>1
    <3>2. CASE \E x : S = {x}
      <4>1. PICK x : S = {x}
        BY <3>2
      <4>2. IsFiniteSet(S) /\ Cardinality(S) = 1
        BY <4>1, FS_Singleton
      <4> QED
        BY <4>2
    <3> QED
      BY <2>3, <3>1, <3>2
  <2> QED
    BY <2>1, <2>4
<1>4. /\ queue \in Seq(Row) /\ Distinct(queue)
      /\ \A i \in DOMAIN queue : queue[i] \in S
      /\ \A x \in S : \E i \in DOMAIN queue : queue[i] = x
  <2>1. queue = SetToSeq(S) /\ S \subseteq Row
    BY <1>1, <1>2
  <2> HIDE DEF S
  <2>2. CASE S = {} /\ SetToSeq(S) = <<>>
    <3>1. queue = <<>> /\ DOMAIN queue = {} /\ queue \in Seq(Row)
      <4>1. queue = <<>>
        BY <2>1, <2>2
      <4>2. \A q : q = <<>> => DOMAIN q = {} /\ q \in Seq(Row)
        OBVIOUS
      <4> QED
        BY <4>1, <4>2
    <3> QED
      BY <2>2, <3>1 DEF Distinct
  <2>3. CASE \E x : S = {x} /\ SetToSeq(S) = <<x>>
    <3>1. PICK x : S = {x} /\ queue = <<x>>
      BY <2>1, <2>3
    <3>2. x \in Row
      BY <2>1, <3>1
    <3>3. DOMAIN queue = {1} /\ queue[1] = x /\ queue \in Seq(Row)
      BY <3>1, <3>2
    <3> QED
      BY <3>1, <3>3 DEF Distinct
  <2> QED
    BY <1>3, <2>2, <2>3, OneRow
<1>5. \A i \in DOMAIN queue : queue[i].id \in old /\ queue[i].attempts = 0
  BY <1>2, <1>4
<1>6. \A c \in old : \E i \in DOMAIN queue : queue[i].id = c
  <2>1. \A c \in old : row(c) \in S
    OBVIOUS
  <2> HIDE DEF S, row
  <2> QED
    BY <1>2, <1>4, <2>1
<1> HIDE DEF S, row
<1>7. /\ profile = {} /\ daemon = "down" /\ closed = FALSE /\ signal = FALSE
      /\ telling = 0 /\ worker = Gone /\ stops = 0 /\ faults = 0
      /\ loads = [c \in Candidates |-> 0] /\ removed = {}
  BY DEF Init
<1>8. \A c \in Candidates : fate[c] = IF c \in old THEN "pending" ELSE "new"
  BY <1>1
<1>9. Types
  <2>1. fate \in [Candidates -> Fates]
    BY <1>1 DEF Fates
  <2> QED
    BY <1>4, <1>7, <2>1, NoWorkType DEF Types
<1>10. Kept
  BY <1>4, <1>5, <1>6, <1>8 DEF Kept
<1>11. Held
  <2>1. worker.pc = "gone" /\ worker.rest = <<>> /\ worker.batch = {}
    BY <1>7, NoWorkType
  <2> QED
    BY <2>1 DEF Held, Distinct
<1>12. Counted
  <2>1. InHand = {}
    BY <1>7, NoWorkType DEF InHand, Ids
  <2>2. \A i \in DOMAIN queue : queue[i].attempts = 0 /\ loads[queue[i].id] = 0
    BY <1>5, <1>7
  <2> QED
    BY <2>1, <2>2 DEF Counted
<1>13. Deleted /\ Alive
  BY <1>7, NoWorkType DEF Deleted, Alive
<1> QED
  BY <1>9, <1>10, <1>11, <1>12, <1>13 DEF Inv

\* Every step keeps it.
LEMMA NextInv ==
  ASSUME MemoryAssumption, Inv, [Next]_vars
  PROVE  Inv'
<1>1. CASE Next
  BY <1>1, DaemonStep, PushStep, RewordStep, ForgetStep, RestStep, ProcessStep, GroupStep,
     AnswerStep, CommitStep, RetryStep DEF Next, WorkerNext
<1>2. CASE UNCHANGED vars
  <2>0. Types /\ Kept /\ Held /\ Counted /\ Deleted /\ Alive
    BY DEF Inv
  <2>1. Types' /\ Deleted' /\ Alive'
    BY <1>2, <2>0 DEF vars, Types, Deleted, Merged, Alive
  <2>2. Kept' /\ Held' /\ Counted'
    BY <1>2, <2>0, SameStep DEF vars, Same
  <2> QED
    BY <2>1, <2>2 DEF Inv
<1> QED
  BY <1>1, <1>2

\* The table, what the worker holds of it, the attempts, and what is left of deleted memories
\* fit together, at whatever step the daemon stops or dies.
THEOREM InvCorrect == Spec => []Inv
<1>1. Init => Inv
  BY MemoryAssumption, InitInv
<1>2. Inv /\ [Next]_vars => Inv'
  BY MemoryAssumption, NextInv
<1> QED
  BY <1>1, <1>2, PTL DEF Spec

\* The variables keep their types, for any number of candidates, rows and batches.
THEOREM TypeCorrect == Spec => []Types
<1>1. Inv => Types
  BY DEF Inv
<1> QED
  BY <1>1, InvCorrect, PTL

\* A candidate has its one row exactly until it is merged or given up; the worker asks each
\* row's own model about rows that are still there; and it has ended before its store closes
\* (queue.go, worker.go processModelGroup, management.go Close).
THEOREM TableCorrect == Spec => []TableIsKept
<1>1. Inv => TableIsKept
  <2> SUFFICES ASSUME Inv PROVE TableIsKept
    OBVIOUS
  <2>0. Types /\ Kept /\ Held /\ Alive
    BY DEF Inv
  <2>1. \A i \in DOMAIN queue : queue[i].id \in Candidates
    BY <2>0, RowFacts DEF Types
  <2>2. NothingLost
    <3>1. IsInjective([i \in DOMAIN queue |-> queue[i].id])
      BY <2>0 DEF Kept, Distinct, IsInjective
    <3>2. Queued = {c \in Candidates : fate[c] = "pending"}
      BY <2>0, <2>1 DEF Kept, Queued, Ids
    <3> QED BY <3>1, <3>2 DEF NothingLost
  <2>3. AskedByOwnModel
    BY <2>0 DEF Held, Carries, AskedByOwnModel
  <2>4. WorkerHasStore
    BY <2>0 DEF Alive, WorkerHasStore
  <2> QED
    BY <2>2, <2>3, <2>4 DEF TableIsKept
<1> QED
  BY <1>1, InvCorrect, PTL

\* A memory that the user deletes while no request is open stays deleted: no later group
\* brings it back (worker.go processModelGroup, active.go MemoryStore.Delete).
THEOREM RemovedCorrect == Spec => []RemovedStays
<1>1. Inv => RemovedStays
  BY DEF Inv, Deleted, RemovedStays
<1> QED
  BY <1>1, InvCorrect, PTL

\* Every step is one of CandidateFate, or none of its.
LEMMA FateStep ==
  ASSUME Inv, [Next]_vars
  PROVE  [Promise!Next]_(Promise!vars)
<1>0. Types /\ Kept /\ Held /\ Counted
  BY DEF Inv
<1> USE DEF Promise!vars
<1>1. ASSUME NEW c \in Candidates, Push(c)
      PROVE  Promise!Next
  <2>1. /\ fate[c] = "new" /\ fate' = [fate EXCEPT ![c] = "pending"] /\ loads' = loads
    BY <1>1 DEF Push
  <2>2. fate' = [d \in Candidates |-> IF d \in {c} THEN "pending" ELSE fate[d]]
    BY <1>0, <2>1 DEF Types
  <2>3. Promise!Accept(c)
    BY <2>1, <2>2 DEF Promise!Accept, Promise!Become
  <2> QED
    BY <2>3 DEF Promise!Next
<1>2. ASSUME Process, UNCHANGED fate
      PROVE  Promise!Next
  <2>1. Ids(Loaded) \in SUBSET Candidates /\ \A c \in Ids(Loaded) : fate[c] = "pending"
    <3>1. \A i \in DOMAIN queue : queue[i].id \in Candidates /\ fate[queue[i].id] = "pending"
      BY <1>0, RowFacts DEF Types, Kept
    <3>2. \A i \in DOMAIN Loaded : \E j \in DOMAIN queue : Loaded[i] = queue[j]
      BY <1>0, LoadedFacts
    <3> QED
      BY <3>1, <3>2 DEF Ids
  <2>2. loads' = [c \in Candidates |-> loads[c] + (IF c \in Ids(Loaded) THEN 1 ELSE 0)]
    BY <1>2 DEF Process
  <2>3. Promise!Try(Ids(Loaded))
    BY <1>2, <2>1, <2>2 DEF Promise!Try, Promise!Pending
  <2> QED
    BY <2>1, <2>3 DEF Promise!Next
<1>3. ASSUME NEW c \in worker.batch
      PROVE  /\ c \in Candidates /\ fate[c] = "pending" /\ loads[c] \in Nat
             /\ \E j \in DOMAIN queue : queue[j].id = c /\ queue[j].attempts + 1 <= loads[c]
                                        /\ queue[j].attempts \in Nat
             /\ \A j \in DOMAIN queue : queue[j].id = c => queue[j].attempts + 1 <= loads[c]
  <2>1. c \in Candidates /\ loads[c] \in Nat
    BY <1>0, <1>3, WorkFacts DEF Types
  <2>2. PICK i \in DOMAIN queue : queue[i].id = c
    BY <1>0, <1>3 DEF Held, Carries
  <2>3. c \in InHand
    BY <1>3 DEF InHand
  <2>4. \A j \in DOMAIN queue : queue[j].id = c => queue[j].attempts + 1 <= loads[c]
    BY <1>0, <2>3 DEF Counted
  <2>5. queue[i].attempts \in Nat
    BY <1>0, RowFacts DEF Types
  <2> QED
    BY <1>0, <2>1, <2>2, <2>4, <2>5 DEF Kept
<1>4. worker.batch \in SUBSET Candidates
  BY <1>3
<1>5. ASSUME Commit
      PROVE  Promise!Next \/ UNCHANGED <<fate, loads>>
  <2>1. CASE UNCHANGED fate
    BY <1>5, <2>1 DEF Commit
  <2>2. CASE ~UNCHANGED fate
    <3>1. /\ fate' = [c \in Candidates |-> IF c \in worker.batch THEN "merged" ELSE fate[c]]
          /\ loads' = loads
      BY <1>5, <2>2 DEF Commit
    <3>2. \A c \in worker.batch : fate[c] = "pending" /\ loads[c] > 0
      BY <1>3
    <3>3. Promise!Merge(worker.batch)
      BY <3>1, <3>2 DEF Promise!Merge, Promise!Pending, Promise!Become
    <3> QED
      BY <1>4, <3>3 DEF Promise!Next
  <2> QED
    BY <2>1, <2>2
<1>6. ASSUME Retry
      PROVE  Promise!Next \/ UNCHANGED <<fate, loads>>
  <2>1. CASE UNCHANGED fate
    BY <1>6, <2>1 DEF Retry
  <2>2. CASE ~UNCHANGED fate
    <3>1. /\ fate' = [c \in Candidates |-> IF c \in Given THEN "dropped" ELSE fate[c]]
          /\ loads' = loads
      BY <1>6, <2>2 DEF Retry, Given
    <3>2. ASSUME NEW c \in Given
          PROVE  c \in worker.batch /\ fate[c] = "pending" /\ loads[c] >= MaxAttempts
      <4>1. PICK j \in DOMAIN queue : queue[j].id = c /\ c \in worker.batch /\ Exhausted(queue[j])
        BY DEF Given, ToSet
      <4>2. queue[j].attempts + 1 <= loads[c] /\ loads[c] \in Nat /\ fate[c] = "pending"
        BY <1>3, <4>1
      <4>3. queue[j].attempts \in Nat
        BY <1>0, RowFacts DEF Types
      <4> QED
        BY <4>1, <4>2, <4>3, MemoryAssumption DEF Exhausted
    <3>3. Promise!GiveUp(Given)
      BY <3>1, <3>2 DEF Promise!GiveUp, Promise!Pending, Promise!Become
    <3>4. Given \in SUBSET Candidates
      BY <1>4, <3>2
    <3> QED
      BY <3>3, <3>4 DEF Promise!Next
  <2> QED
    BY <2>1, <2>2
<1>7. ASSUME Start \/ Stop \/ CloseQueue \/ CloseStore \/ Crash \/ Signal
             \/ WorkerStops \/ BeginGroup \/ Answer \/ Rest
             \/ (\E m \in Models : Materialize(m)) \/ (\E some \in SUBSET profile : Forget(some))
             \/ (\E i \in DOMAIN queue : DelayEnds(i)) \/ UNCHANGED vars
      PROVE  UNCHANGED <<fate, loads>>
  BY <1>7 DEF Start, Stop, CloseQueue, CloseStore, Crash, Signal, WorkerStops, BeginGroup, Answer,
     Rest, Materialize, Forget, DelayEnds, history, vars
<1>8. ASSUME WakeUp \/ TimerFires
      PROVE  Promise!Next \/ UNCHANGED <<fate, loads>>
  BY <1>2, <1>8 DEF WakeUp, TimerFires
<1> QED
  BY <1>1, <1>5, <1>6, <1>7, <1>8 DEF Next, WorkerNext

\* ProfileMemory implements CandidateFate: merged once, after at least one attempt, or given
\* up after all of them (CommitQueueCompaction, RetryQueueItems).
THEOREM PromiseKept == Spec => KeepsItsPromise
<1>1. Init => Promise!Init
  <2> SUFFICES ASSUME Init PROVE Promise!Init
    OBVIOUS
  <2>1. fate \in [Candidates -> {"new", "pending"}] /\ loads = [c \in Candidates |-> 0]
    BY DEF Init
  <2> QED
    BY <2>1 DEF Promise!Init
<1>2. Inv /\ [Next]_vars => [Promise!Next]_(Promise!vars)
  BY FateStep
<1> QED
  BY <1>1, <1>2, InvCorrect, PTL DEF Spec, KeepsItsPromise, Promise!Spec

-----------------------------------------------------------------------------
(* Conversation.  The messages in the window, in the state and in the row  *)
(* are told apart by their numbers; a round's calls carry the number of    *)
(* their message.                                                          *)

\* A call's name, and a message.
Name == Nat \X Nat
Message == [n : Nat, role : {"user", "assistant", "tool"}, text : BOOLEAN, image : BOOLEAN,
            calls : Seq(Name), of : {<<>>} \cup Name]
Places == {"idle", "top", "compress", "commit", "recheck", "steer", "request", "stream", "backoff",
           "tools", "end"}
CallState == [at : {"check", "asking", "decided", "running", "done"},
              verdict : {"none", "confirm", "approve", "reject"}, image : BOOLEAN]

\* The types of the conversation's state.
TalkTypes ==
  /\ working \in Seq(Message) /\ state \in SUBSET Nat /\ fresh \in SUBSET Nat
  /\ disk \in [state : SUBSET Nat, msgs : Seq(Message)]
  /\ pc \in Places /\ mode \in {"run", "resume", "compact"} /\ cancelled \in BOOLEAN
  /\ mail \in Nat /\ sealed \in BOOLEAN /\ attempt \in Nat /\ shown \in SUBSET Nat
  /\ call \in Seq(CallState) /\ told \in Nat /\ said \in SUBSET Nat /\ saved \in BOOLEAN
  /\ restarts \in Nat

\* No message twice; none that has not been told; calls carry their message's number.
Apart(s) == \A i, j \in DOMAIN s : s[i].n = s[j].n => i = j
Upto(s, n) == \A i \in DOMAIN s : s[i].n <= n
Made(s) == \A i \in DOMAIN s : \A x \in DOMAIN s[i].calls :
             s[i].calls[x] = CallId(s[i].n, x)

\* Messages, the state and the row are numbered that way.
Numbered ==
  /\ Apart(working) /\ Upto(working, told) /\ Made(working)
  /\ Apart(disk.msgs) /\ Upto(disk.msgs, told)
  /\ \A n \in state \cup fresh \cup disk.state \cup said : n <= told

\* Everything that was said has one place, and is still a text.
Whole ==
  /\ said \subseteq fresh \cup Nums(working)
  /\ fresh \cap Nums(working) = {}
  /\ \A i \in DOMAIN working :
       working[i].n \in said => working[i].text /\ working[i].role # "tool"

\* The row has texts, each once, and everything that was said up to its newest.
Saved == disk.state \cup Nums(disk.msgs)
Stored ==
  /\ \A i \in DOMAIN disk.msgs : /\ disk.msgs[i].text /\ disk.msgs[i].role # "tool"
                                 /\ disk.msgs[i].calls = <<>>
  /\ disk.state \cap Nums(disk.msgs) = {}
  /\ \A n \in said : (\E k \in Saved : n <= k) => n \in Saved

\* The run's state differs from the session's while a compaction is being committed;
\* and when a save went well, the row has everything as long as nothing is said.
Timely ==
  /\ pc # "commit" => fresh = state
  /\ mode = "compact" => pc \in {"idle", "compress", "commit"}
  /\ saved /\ (pc = "idle" \/ mode = "compact") => said \subseteq Saved

\* While calls execute, they are those of the last message.
Calling ==
  pc = "tools" => working # <<>> /\ DOMAIN working[Len(working)].calls = DOMAIN call

\* The strengthening that is inductive.
TalkInv == TalkTypes /\ Numbered /\ Whole /\ Stored /\ Timely /\ Calling

\* Results follow their call's message at once, in order.
Answered(s, i) ==
  \A x \in DOMAIN s[i].calls :
    i + x <= Len(s) /\ s[i + x].role = "tool" /\ s[i + x].of = s[i].calls[x]
Asked(s, j) ==
  s[j].role = "tool" =>
    \E i \in 1 .. j - 1 : j - i \in DOMAIN s[i].calls /\ s[j].of = s[i].calls[j - i]
Closed(s) == \A i \in DOMAIN s : Answered(s, i) /\ Asked(s, i)
Open(s) == \A i \in DOMAIN s : (i # Len(s) => Answered(s, i)) /\ Asked(s, i)

\* Only while calls execute is the end open.
Pairs == IF pc = "tools" THEN Open(working) ELSE Closed(working)

-----------------------------------------------------------------------------
(* Sequences of messages.                                                  *)

\* One sequence after the other.
LEMMA Joined ==
  ASSUME NEW S, NEW s \in Seq(S), NEW t \in Seq(S)
  PROVE  /\ s \o t \in Seq(S) /\ Len(s \o t) = Len(s) + Len(t)
         /\ DOMAIN s = 1 .. Len(s) /\ DOMAIN t = 1 .. Len(t)
         /\ DOMAIN (s \o t) = 1 .. Len(s) + Len(t)
         /\ Len(s) \in Nat /\ Len(t) \in Nat
         /\ \A i \in DOMAIN s : (s \o t)[i] = s[i]
         /\ \A i \in DOMAIN t : (s \o t)[Len(s) + i] = t[i]
         /\ \A i \in DOMAIN (s \o t) :
              \/ i \in DOMAIN s
              \/ i - Len(s) \in DOMAIN t /\ i = Len(s) + (i - Len(s))
<1>1. s \o t \in Seq(S) /\ Len(s \o t) = Len(s) + Len(t)
      /\ \A i \in 1 .. Len(s) + Len(t) : (s \o t)[i] = IF i <= Len(s) THEN s[i] ELSE t[i - Len(s)]
  BY ConcatProperties
<1>2. DOMAIN s = 1 .. Len(s) /\ DOMAIN t = 1 .. Len(t) /\ DOMAIN (s \o t) = 1 .. Len(s) + Len(t)
      /\ Len(s) \in Nat /\ Len(t) \in Nat
  BY <1>1
<1>3. \A i \in DOMAIN s : (s \o t)[i] = s[i]
  BY <1>1, <1>2
<1>4. \A i \in DOMAIN t : (s \o t)[Len(s) + i] = t[i]
  <2> SUFFICES ASSUME NEW i \in DOMAIN t PROVE (s \o t)[Len(s) + i] = t[i]
    OBVIOUS
  <2>1. /\ i \in Nat /\ Len(s) + i \in 1 .. Len(s) + Len(t)
        /\ ~(Len(s) + i <= Len(s)) /\ Len(s) + i - Len(s) = i
    BY <1>2
  <2> QED BY <1>1, <2>1
<1>5. \A i \in 1 .. Len(s) + Len(t) :
      \/ i \in 1 .. Len(s)
      \/ i - Len(s) \in 1 .. Len(t) /\ i = Len(s) + (i - Len(s))
  BY <1>2
<1> QED BY <1>1, <1>2, <1>3, <1>4, <1>5

\* The numbers of both.
LEMMA JoinedNums ==
  ASSUME NEW S, NEW s \in Seq(S), NEW t \in Seq(S)
  PROVE  Nums(s \o t) = Nums(s) \cup Nums(t)
<1>1. /\ \A i \in DOMAIN s : i \in DOMAIN (s \o t) /\ (s \o t)[i] = s[i]
      /\ \A i \in DOMAIN t : Len(s) + i \in DOMAIN (s \o t) /\ (s \o t)[Len(s) + i] = t[i]
      /\ \A i \in DOMAIN (s \o t) :
           \/ i \in DOMAIN s
           \/ i - Len(s) \in DOMAIN t /\ i = Len(s) + (i - Len(s))
  BY Joined
<1>2. ASSUME NEW x \in Nums(s \o t) PROVE x \in Nums(s) \cup Nums(t)
  <2>1. PICK i \in DOMAIN (s \o t) : x = (s \o t)[i].n
    BY <1>2 DEF Nums
  <2>2. CASE i \in DOMAIN s
    BY <1>1, <2>1, <2>2 DEF Nums
  <2>3. CASE i - Len(s) \in DOMAIN t /\ i = Len(s) + (i - Len(s))
    <3>1. PICK j \in DOMAIN t : i = Len(s) + j
      BY <2>3
    <3>2. x = t[j].n
      BY <1>1, <2>1, <3>1
    <3> QED BY <3>2 DEF Nums
  <2> QED BY <1>1, <2>2, <2>3
<1>3. Nums(s) \subseteq Nums(s \o t)
  BY <1>1 DEF Nums
<1>4. Nums(t) \subseteq Nums(s \o t)
  BY <1>1 DEF Nums
<1> QED BY <1>2, <1>3, <1>4

\* What is saved of a sequence of messages: their texts, each once.
LEMMA VisibleFacts ==
  ASSUME NEW s \in Seq(Message), NEW v, v = VisibleMessages(s)
  PROVE  /\ v \in Seq(Message)
         /\ \A i \in DOMAIN v : v[i].text /\ v[i].role # "tool" /\ v[i].calls = <<>>
         /\ \A i \in DOMAIN v : \E j \in DOMAIN s : v[i].n = s[j].n
         /\ \A j \in DOMAIN s :
              s[j].text /\ s[j].role # "tool" => \E i \in DOMAIN v : v[i].n = s[j].n
         /\ Apart(s) => Apart(v)
<1> DEFINE some == {m \in ToSet(s) : m.role # "tool" /\ m.text}
           c == Chosen(s, some)
           Plain(m) == [m EXCEPT !.image = FALSE, !.calls = <<>>]
<1>1. /\ c \in Seq(Message) /\ \E p : Picks(c, p, s, some, Len(s))
  <2> HIDE DEF some
  <2> QED BY ChosenPicks
<1>2. v = [i \in DOMAIN c |-> Plain(c[i])]
  BY DEF VisibleMessages
<1>0. \A m \in Message : /\ Plain(m) \in Message /\ Plain(m).n = m.n /\ Plain(m).role = m.role
                         /\ Plain(m).text = m.text /\ Plain(m).calls = <<>>
  <2> SUFFICES ASSUME NEW m \in Message
               PROVE  /\ Plain(m) \in Message /\ Plain(m).n = m.n /\ Plain(m).role = m.role
                      /\ Plain(m).text = m.text /\ Plain(m).calls = <<>>
    OBVIOUS
  <2>1. <<>> \in Seq(Name)
    OBVIOUS
  <2> QED BY <2>1 DEF Message
<1>3. \A j \in DOMAIN s : s[j] \in some <=> s[j].role # "tool" /\ s[j].text
  BY DEF ToSet
<1> HIDE DEF some, c, Plain
<1>4. PICK p : Picks(c, p, s, some, Len(s))
  BY <1>1
<1>5. DOMAIN c = 1 .. Len(c) /\ DOMAIN s = 1 .. Len(s) /\ Len(c) \in Nat /\ Len(s) \in Nat
      /\ DOMAIN v = DOMAIN c
  BY <1>1, <1>2
<1>6. ASSUME NEW i \in DOMAIN c
      PROVE  /\ p[i] \in DOMAIN s /\ c[i] = s[p[i]] /\ c[i] \in some /\ c[i] \in Message
             /\ v[i] = Plain(c[i])
  BY <1>1, <1>2, <1>4, <1>5 DEF Picks
<1>7. ASSUME NEW i \in DOMAIN v
      PROVE  /\ v[i] \in Message /\ v[i].text /\ v[i].role # "tool" /\ v[i].calls = <<>>
             /\ v[i].n = s[p[i]].n
  <2>1. /\ p[i] \in DOMAIN s /\ c[i] = s[p[i]] /\ c[i] \in some /\ c[i] \in Message
        /\ v[i] = Plain(c[i])
    BY <1>5, <1>6
  <2>2. c[i].role # "tool" /\ c[i].text
    BY <1>3, <2>1
  <2> QED BY <1>0, <2>1, <2>2
<1>8. v \in Seq(Message)
  <2>1. v \in [1 .. Len(c) -> Message]
    BY <1>2, <1>5, <1>7
  <2> QED BY <1>5, <2>1
<1>9. \A j \in DOMAIN s : s[j].text /\ s[j].role # "tool" => \E i \in DOMAIN v : v[i].n = s[j].n
  <2> SUFFICES ASSUME NEW j \in DOMAIN s, s[j] \in some PROVE \E i \in DOMAIN v : v[i].n = s[j].n
    BY <1>3
  <2>1. PICK i \in 1 .. Len(c) : p[i] = j
    BY <1>4, <1>5 DEF Picks
  <2> QED BY <1>5, <1>7, <2>1
<1>10. ASSUME Apart(s) PROVE Apart(v)
  <2> SUFFICES ASSUME NEW i \in DOMAIN v, NEW j \in DOMAIN v, v[i].n = v[j].n PROVE i = j
    BY DEF Apart
  <2>1. p[i] \in DOMAIN s /\ p[j] \in DOMAIN s /\ v[i].n = s[p[i]].n /\ v[j].n = s[p[j]].n
    BY <1>5, <1>6, <1>7
  <2>2. p[i] = p[j]
    BY <1>10, <2>1 DEF Apart
  <2>3. ~(i < j) /\ ~(j < i)
    BY <1>4, <1>5, <2>1, <2>2 DEF Picks
  <2> QED BY <1>5, <2>3
<1> QED BY <1>5, <1>6, <1>7, <1>8, <1>9, <1>10

\* Images that become texts.
LEMMA SummarizedFacts ==
  ASSUME NEW s \in Seq(Message), NEW v, v = Summarized(s)
  PROVE  /\ v \in Seq(Message) /\ DOMAIN v = DOMAIN s /\ Len(v) = Len(s)
         /\ \A i \in DOMAIN s : /\ v[i].n = s[i].n /\ v[i].role = s[i].role /\ v[i].of = s[i].of
                                /\ v[i].calls = s[i].calls /\ (s[i].text => v[i].text)
<1>1. DOMAIN s = 1 .. Len(s) /\ Len(s) \in Nat /\ \A i \in DOMAIN s : s[i] \in Message
  OBVIOUS
<1>2. /\ DOMAIN v = DOMAIN s
      /\ \A i \in DOMAIN s :
           v[i] = IF s[i].image THEN [s[i] EXCEPT !.text = TRUE, !.image = FALSE] ELSE s[i]
  BY DEF Summarized
<1>3. ASSUME NEW i \in DOMAIN s
      PROVE  /\ v[i] \in Message /\ v[i].n = s[i].n /\ v[i].role = s[i].role /\ v[i].of = s[i].of
             /\ v[i].calls = s[i].calls /\ (s[i].text => v[i].text)
  BY <1>1, <1>2 DEF Message
<1>4. v = [i \in 1 .. Len(s) |-> v[i]]
  BY <1>1 DEF Summarized
<1>5. v \in [1 .. Len(s) -> Message]
  BY <1>1, <1>3, <1>4
<1>6. v \in Seq(Message) /\ Len(v) = Len(s)
  BY <1>1, <1>5
<1> QED BY <1>2, <1>3, <1>6

-----------------------------------------------------------------------------
(* What keeps the messages in order.                                       *)

\* The messages that are queued, as they will be appended after n others.
LEMMA SteeredFacts ==
  ASSUME NEW n \in Nat, mail \in Nat, NEW t, t = Steered(n)
  PROVE  /\ t \in Seq(Message) /\ Len(t) = mail /\ DOMAIN t = 1 .. mail
         /\ \A i \in DOMAIN t : /\ t[i].n = n + i /\ t[i].role = "user" /\ t[i].text
                                /\ t[i].calls = <<>>
         /\ Made(t)
<1>1. t = [i \in 1 .. mail |-> User(n + i, TRUE, FALSE)]
  BY DEF Steered
<1>2. ASSUME NEW i \in 1 .. mail
      PROVE  /\ User(n + i, TRUE, FALSE) \in Message /\ User(n + i, TRUE, FALSE).n = n + i
             /\ User(n + i, TRUE, FALSE).role = "user" /\ User(n + i, TRUE, FALSE).text
             /\ User(n + i, TRUE, FALSE).calls = <<>>
  <2>1. n + i \in Nat /\ <<>> \in Seq(Name)
    OBVIOUS
  <2> QED BY <2>1 DEF User, Message
<1> HIDE DEF Message
<1>3. t \in [1 .. mail -> Message]
  BY <1>1, <1>2
<1>4. t \in Seq(Message) /\ Len(t) = mail /\ DOMAIN t = 1 .. mail
  BY <1>3
<1>5. \A i \in DOMAIN t : t[i].calls = <<>>
  BY <1>1, <1>2, <1>4
<1>6. Made(t)
  BY <1>5 DEF Made
<1> QED BY <1>1, <1>2, <1>4, <1>6

\* One message.
LEMMA OneMessage ==
  ASSUME NEW m \in Message
  PROVE  /\ <<m>> \in Seq(Message) /\ Len(<<m>>) = 1 /\ DOMAIN <<m>> = 1 .. 1 /\ <<m>>[1] = m
OBVIOUS

\* New messages come with the next numbers; what is said of them is listed.
LEMMA GrowStep ==
  ASSUME TalkTypes, Numbered, Whole, Stored,
         NEW t \in Seq(Message), Made(t), \A i \in DOMAIN t : t[i].n = told + i,
         working' = working \o t, told' = told + Len(t), Hear(t),
         UNCHANGED <<state, fresh, disk>>
  PROVE  /\ working' \in Seq(Message) /\ told' \in Nat /\ said' \in SUBSET Nat
         /\ Numbered' /\ Whole' /\ Stored'
<1>1. /\ working \in Seq(Message) /\ told \in Nat /\ said \in SUBSET Nat
      /\ fresh \in SUBSET Nat /\ state \in SUBSET Nat /\ disk.state \in SUBSET Nat
      /\ disk.msgs \in Seq(Message)
  BY DEF TalkTypes
<1>2. /\ working' \in Seq(Message)
      /\ DOMAIN working = 1 .. Len(working) /\ DOMAIN t = 1 .. Len(t)
      /\ Len(working) \in Nat /\ Len(t) \in Nat
      /\ \A i \in DOMAIN working : i \in DOMAIN working' /\ working'[i] = working[i]
      /\ \A i \in DOMAIN t :
           Len(working) + i \in DOMAIN working' /\ working'[Len(working) + i] = t[i]
      /\ \A i \in DOMAIN working' : \/ i \in DOMAIN working
                                    \/ \E j \in DOMAIN t : i = Len(working) + j
  BY <1>1, Joined
<1>3. /\ \A i \in DOMAIN t : t[i] \in Message /\ t[i].n \in Nat /\ t[i].n > told /\ t[i].n <= told'
      /\ \A i \in DOMAIN working :
           working[i] \in Message /\ working[i].n \in Nat /\ working[i].n <= told
      /\ told' \in Nat /\ told <= told'
      /\ \A i \in DOMAIN disk.msgs : disk.msgs[i].n \in Nat /\ disk.msgs[i].n <= told
  <2>1. \A m \in Message : m.n \in Nat
    BY DEF Message
  <2>2. /\ \A i \in DOMAIN working : working[i] \in Message /\ working[i].n <= told
        /\ \A i \in DOMAIN disk.msgs : disk.msgs[i] \in Message /\ disk.msgs[i].n <= told
        /\ \A i \in DOMAIN t : t[i] \in Message
    BY <1>1 DEF Numbered, Upto
  <2>3. \A i \in DOMAIN t : t[i].n > told /\ t[i].n <= told + Len(t)
    BY <1>1, <1>2
  <2>4. told' \in Nat /\ told <= told'
    BY <1>1, <1>2
  <2> QED BY <2>1, <2>2, <2>3, <2>4
<1>4. \A x :
      x \in said' <=> \/ x \in said
                      \/ \E i \in DOMAIN t : x = t[i].n /\ t[i].text /\ t[i].role # "tool"
  BY DEF Hear, ToSet
<1>5. Nums(working') = Nums(working) \cup Nums(t)
  BY <1>1, JoinedNums
<1>10. \A x \in said' : x \in said \/ \E i \in DOMAIN t : x = t[i].n
  BY <1>4
<1>6. said' \in SUBSET Nat
  BY <1>1, <1>3, <1>10
<1>7. Numbered'
  <2>1. Apart(working')
    <3> SUFFICES ASSUME NEW i \in DOMAIN working', NEW j \in DOMAIN working',
                        working'[i].n = working'[j].n
                 PROVE  i = j
      BY DEF Apart
    <3>1. CASE i \in DOMAIN working /\ j \in DOMAIN working
      BY <1>2, <3>1 DEF Numbered, Apart
    <3>2. CASE /\ \E k \in DOMAIN t : i = Len(working) + k
               /\ \E k \in DOMAIN t : j = Len(working) + k
      <4>1. PICK k \in DOMAIN t, l \in DOMAIN t : i = Len(working) + k /\ j = Len(working) + l
        BY <3>2
      <4>2. t[k].n = told + k /\ t[l].n = told + l /\ t[k].n = t[l].n /\ k \in Nat /\ l \in Nat
        BY <1>2, <4>1
      <4> QED BY <1>1, <4>1, <4>2
    <3>3. ASSUME NEW a \in DOMAIN working, NEW b \in DOMAIN t PROVE working[a].n # t[b].n
      BY <1>1, <1>3
    <3> QED BY <1>2, <3>1, <3>2, <3>3
  <2>2. Upto(working', told')
    <3> SUFFICES ASSUME NEW i \in DOMAIN working' PROVE working'[i].n <= told'
      BY DEF Upto
    <3>1. CASE i \in DOMAIN working
      BY <1>1, <1>2, <1>3, <3>1
    <3>2. CASE \E j \in DOMAIN t : i = Len(working) + j
      BY <1>2, <1>3, <3>2
    <3> QED BY <1>2, <3>1, <3>2
  <2>3. Made(working')
    <3> SUFFICES ASSUME NEW i \in DOMAIN working', NEW x \in DOMAIN working'[i].calls
                 PROVE  working'[i].calls[x] = CallId(working'[i].n, x)
      BY DEF Made, CallId
    <3>1. CASE i \in DOMAIN working
      BY <1>2, <3>1 DEF Numbered, Made
    <3>2. CASE \E j \in DOMAIN t : i = Len(working) + j
      BY <1>2, <3>2 DEF Made
    <3> QED BY <1>2, <3>1, <3>2
  <2>4. Upto(disk.msgs, told')
    BY <1>1, <1>3 DEF Upto
  <2>5. \A n \in state \cup fresh \cup disk.state \cup said : n \in Nat /\ n <= told
    BY <1>1 DEF Numbered
  <2>6. \A n \in state \cup fresh \cup disk.state \cup said' : n <= told'
    <3>1. \A n \in state \cup fresh \cup disk.state \cup said : n <= told'
      BY <1>1, <1>3, <2>5
    <3>2. \A i \in DOMAIN t : t[i].n <= told'
      BY <1>3
    <3> QED BY <1>10, <3>1, <3>2
  <2> QED BY <2>1, <2>2, <2>3, <2>4, <2>6 DEF Numbered, Apart, Upto, Made, CallId
<1>8. Whole'
  <2>1. \A i \in DOMAIN t : t[i].n \in Nums(t)
    BY DEF Nums
  <2>2. said' \subseteq fresh' \cup Nums(working')
    BY <1>4, <1>5, <2>1 DEF Whole
  <2>3. \A x \in fresh : x \notin Nums(t)
    <3>1. \A x \in fresh : x \in Nat /\ x <= told
      BY <1>1 DEF Numbered
    <3> QED BY <1>1, <1>3, <3>1 DEF Nums
  <2>4. fresh' \cap Nums(working') = {}
    BY <1>5, <2>3 DEF Whole
  <2>5. ASSUME NEW i \in DOMAIN working', working'[i].n \in said'
        PROVE  working'[i].text /\ working'[i].role # "tool"
    <3>1. CASE i \in DOMAIN working
      <4>1. \A j \in DOMAIN t : working[i].n # t[j].n
        BY <1>1, <1>3, <3>1
      <4> QED BY <1>2, <1>4, <2>5, <3>1, <4>1 DEF Whole
    <3>2. CASE \E j \in DOMAIN t : i = Len(working) + j
      <4>1. PICK j \in DOMAIN t : i = Len(working) + j
        BY <3>2
      <4>2. t[j].n \notin said /\ working'[i] = t[j]
        <5>1. \A n \in said : n \in Nat /\ n <= told
          BY <1>1 DEF Numbered
        <5> QED BY <1>1, <1>2, <1>3, <4>1, <5>1
      <4>3. PICK k \in DOMAIN t : t[j].n = t[k].n /\ t[k].text /\ t[k].role # "tool"
        BY <1>4, <2>5, <4>2
      <4>4. j = k
        <5>1. told + j = told + k /\ j \in Nat /\ k \in Nat
          BY <1>2, <4>3
        <5> QED BY <1>1, <5>1
      <4> QED BY <4>2, <4>3, <4>4
    <3> QED BY <1>2, <3>1, <3>2
  <2> QED BY <2>2, <2>4, <2>5 DEF Whole, Nums
<1>9. Stored'
  <2>1. \A k \in Saved : k \in Nat /\ k <= told
    BY <1>1, <1>3 DEF Numbered, Saved, Nums
  <2>2. ASSUME NEW n \in said', NEW k \in Saved, n <= k PROVE n \in Saved
    <3>1. k \in Nat /\ k <= told
      BY <2>1
    <3>2. \A i \in DOMAIN t : t[i].n \in Nat /\ t[i].n > told
      BY <1>3
    <3>3. \A i \in DOMAIN t : n # t[i].n
      BY <1>1, <2>2, <3>1, <3>2
    <3>4. n \in said
      BY <1>10, <3>3
    <3> QED BY <2>2, <3>4 DEF Stored
  <2>3. Saved' = Saved
    BY DEF Saved, Nums
  <2> QED BY <2>2, <2>3 DEF Stored, Nums
<1> QED BY <1>2, <1>3, <1>6, <1>7, <1>8, <1>9

\* Nothing of it changes.
LEMMA StillStep ==
  ASSUME Numbered, Whole, Stored, UNCHANGED <<working, state, fresh, disk, told, said>>
  PROVE  Numbered' /\ Whole' /\ Stored'
<1>1. Numbered'
  BY DEF Numbered, Apart, Upto, Made, CallId
<1>2. Whole'
  BY DEF Whole, Nums
<1>3. Stored'
  BY DEF Stored, Saved, Nums
<1> QED BY <1>1, <1>2, <1>3

\* What a save writes, of a window that holds what was said beside the state.
LEMMA SavedRow ==
  ASSUME NEW s \in Seq(Message), Apart(s), Upto(s, told), NEW st \in SUBSET Nat,
         \A n \in st : n <= told, said \subseteq st \cup Nums(s), st \cap Nums(s) = {},
         \A i \in DOMAIN s : s[i].n \in said => s[i].text /\ s[i].role # "tool",
         NEW row, row = RowOf(st, s)
  PROVE  /\ row \in [state : SUBSET Nat, msgs : Seq(Message)]
         /\ row.state = st /\ Apart(row.msgs) /\ Upto(row.msgs, told)
         /\ \A i \in DOMAIN row.msgs : /\ row.msgs[i].text /\ row.msgs[i].role # "tool"
                                       /\ row.msgs[i].calls = <<>>
         /\ row.state \cap Nums(row.msgs) = {}
         /\ said \subseteq row.state \cup Nums(row.msgs)
<1> DEFINE v == VisibleMessages(s)
<1>1. row.state = st /\ row.msgs = v /\ row = [state |-> st, msgs |-> v]
  BY DEF RowOf
<1>2. /\ v \in Seq(Message)
      /\ \A i \in DOMAIN v : v[i].text /\ v[i].role # "tool" /\ v[i].calls = <<>>
      /\ \A i \in DOMAIN v : \E j \in DOMAIN s : v[i].n = s[j].n
      /\ \A j \in DOMAIN s : s[j].text /\ s[j].role # "tool" => \E i \in DOMAIN v : v[i].n = s[j].n
      /\ Apart(v)
  <2> HIDE DEF v
  <2>1. v = VisibleMessages(s)
    BY DEF v
  <2> QED BY <2>1, VisibleFacts
<1> HIDE DEF v
<1>3. Upto(v, told)
  BY <1>2 DEF Upto
<1>4. Nums(v) \subseteq Nums(s)
  BY <1>2 DEF Nums
<1>5. said \subseteq st \cup Nums(v)
  <2> SUFFICES ASSUME NEW n \in said, n \notin st PROVE n \in Nums(v)
    OBVIOUS
  <2>1. PICK j \in DOMAIN s : n = s[j].n
    BY DEF Nums
  <2>2. PICK i \in DOMAIN v : v[i].n = n
    BY <1>2, <2>1
  <2> QED BY <2>2 DEF Nums
<1> QED BY <1>1, <1>2, <1>3, <1>4, <1>5

-----------------------------------------------------------------------------
(* Steps that say nothing and save nothing.                                *)

\* One call goes on.
LEMMA PutStep ==
  ASSUME call \in Seq(CallState), NEW i \in DOMAIN call,
         NEW c \in CallState, call' = [call EXCEPT ![i] = c]
  PROVE  call' \in Seq(CallState) /\ DOMAIN call' = DOMAIN call
<1>1. DOMAIN call = 1 .. Len(call) /\ Len(call) \in Nat /\ call \in [1 .. Len(call) -> CallState]
  OBVIOUS
<1>2. call' \in [1 .. Len(call) -> CallState] /\ DOMAIN call' = DOMAIN call
  BY <1>1
<1> QED BY <1>1, <1>2

\* Everything about calls is of that kind.
LEMMA CallsStep ==
  ASSUME TalkTypes, Calls
  PROVE  /\ call' \in Seq(CallState) /\ DOMAIN call' = DOMAIN call
         /\ pc = "tools" /\ UNCHANGED <<working, state, fresh, disk, pc, mode, cancelled, mail,
                                        sealed,
                                        attempt, shown, told, said, saved, restarts>>
<1>1. PICK i \in DOMAIN call :
         \/ Check(i) \/ Confirm(i) \/ ConfirmCancelled(i) \/ Execute(i)
         \/ Executed(i)
  BY DEF Calls
<1>2. call \in Seq(CallState) /\ call[i] \in CallState
  BY DEF TalkTypes
<1>3. /\ pc = "tools"
      /\ UNCHANGED <<working, state, fresh, disk, pc, mode, cancelled, mail, sealed,
                     attempt, shown, told, said, saved, restarts>>
  BY <1>1 DEF Check, Confirm, ConfirmCancelled, Execute, Executed, Step,
     RestStays, memory
<1>4. \E c \in CallState : call' = [call EXCEPT ![i] = c]
  <2>1. ASSUME NEW at \in {"decided", "asking", "done", "running"},
               NEW v \in {"none", "confirm", "approve", "reject"}, Put(i, at, v)
        PROVE  \E c \in CallState : call' = [call EXCEPT ![i] = c]
    <3>1. call' = [call EXCEPT ![i] = [call[i] EXCEPT !.at = at, !.verdict = v]]
      BY <2>1 DEF Put
    <3>2. [call[i] EXCEPT !.at = at, !.verdict = v] \in CallState
      BY <1>2 DEF CallState
    <3> QED BY <3>1, <3>2
  <2>2. CASE Check(i)
    BY <2>1, <2>2 DEF Check
  <2>3. CASE Confirm(i) \/ ConfirmCancelled(i)
    BY <2>1, <2>3 DEF Confirm, ConfirmCancelled
  <2>4. CASE Execute(i)
    <3>1. call[i].verdict \in {"none", "confirm", "approve", "reject"}
      BY <1>2 DEF CallState
    <3>2. (IF cancelled \/ call[i].verdict # "approve" THEN "done" ELSE "running")
            \in {"done", "running"}
      OBVIOUS
    <3> QED BY <2>1, <2>4, <3>1, <3>2 DEF Execute
  <2>5. CASE Executed(i)
    <3>1. PICK image \in BOOLEAN :
             call' = [call EXCEPT ![i] = [call[i] EXCEPT !.at = "done", !.image = image]]
      BY <2>5 DEF Executed
    <3>2. [call[i] EXCEPT !.at = "done", !.image = image] \in CallState
      BY <1>2 DEF CallState
    <3> QED BY <3>1, <3>2
  <2> QED BY <1>1, <2>2, <2>3, <2>4, <2>5
<1> QED BY <1>2, <1>3, <1>4, PutStep

\* The steps that neither say nor save anything.
Quiet ==
  \/ ResumeRun \/ CompactNow \/ CompressNothing \/ CompressFails \/ Recheck
  \/ Request \/ Chunk \/ StreamFails \/ Backoff \/ Calls
  \/ Cancel \/ Enqueue \/ UNCHANGED conversationVars

\* Where it may go, and what stays.
LEMMA QuietStep ==
  ASSUME TalkInv, Quiet
  PROVE  TalkInv' /\ (Pairs => Pairs')
<1>0. TalkTypes /\ Numbered /\ Whole /\ Stored /\ Timely /\ Calling
  BY DEF TalkInv
<1>1. CASE ResumeRun \/ CompactNow
  <2>1. /\ UNCHANGED <<working, state, fresh, disk, told, said, mail, attempt, shown, call, saved,
                       restarts>>
        /\ pc = "idle" /\ pc' \in {"top", "end", "compress"} /\ mode' \in {"resume", "compact"}
        /\ cancelled' = FALSE /\ sealed' \in BOOLEAN
        /\ mode' = "compact" => pc' = "compress"
    BY <1>0, <1>1 DEF ResumeRun, CompactNow, Begin, Timely, round
  <2>2. TalkTypes'
    BY <1>0, <2>1 DEF TalkTypes, Places
  <2>3. Timely'
    BY <1>0, <2>1 DEF Timely, Saved, Nums
  <2>4. Pairs => Pairs'
    BY <2>1 DEF Pairs, Closed, Answered, Asked
  <2>5. Calling'
    BY <1>0, <2>1 DEF Calling
  <2> QED BY <1>0, <2>1, <2>2, <2>3, <2>4, <2>5, StillStep DEF TalkInv
<1>2. CASE CompressNothing \/ CompressFails \/ Recheck
  <2>1. /\ UNCHANGED <<working, state, fresh, disk, told, said, mail, attempt, shown, call, saved,
                       restarts,
                       mode, cancelled, sealed>>
        /\ pc \in {"compress", "recheck"} /\ pc' \in {"commit", "idle", "end", "steer"}
        /\ pc' = "idle" => mode = "compact"
        /\ mode = "compact" => pc' \in {"commit", "idle"}
    BY <1>0, <1>2 DEF CompressNothing, CompressFails, Recheck, SessionStays, Go, Timely,
       memory, round
  <2>2. TalkTypes'
    BY <1>0, <2>1 DEF TalkTypes, Places
  <2>3. Timely'
    BY <1>0, <2>1 DEF Timely, Saved, Nums
  <2>4. Pairs => Pairs'
    BY <2>1 DEF Pairs, Closed, Answered, Asked
  <2>5. Calling'
    BY <1>0, <2>1 DEF Calling
  <2> QED BY <1>0, <2>1, <2>2, <2>3, <2>4, <2>5, StillStep DEF TalkInv
<1>3. CASE Request \/ Chunk \/ StreamFails \/ Backoff
  <2>1. /\ UNCHANGED <<working, state, fresh, disk, told, said, mail, call, saved, restarts,
                       mode, cancelled, sealed>>
        /\ pc \in {"request", "stream", "backoff"}
        /\ pc' \in {"request", "stream", "backoff", "end"}
        /\ attempt' \in {0, attempt, attempt + 1} /\ shown' \in {{}, shown, shown \cup {attempt}}
    BY <1>3 DEF Request, Chunk, StreamFails, Backoff, Go, Leave, RestStays,
       memory, round
  <2>2. TalkTypes'
    <3>0. attempt \in Nat /\ shown \in SUBSET Nat
      BY <1>0 DEF TalkTypes
    <3>1. attempt' \in Nat /\ shown' \in SUBSET Nat
      <4>1. attempt' \in Nat
        BY <2>1, <3>0
      <4>2. {} \in SUBSET Nat /\ shown \cup {attempt} \in SUBSET Nat
        BY <3>0
      <4> QED BY <2>1, <3>0, <4>1, <4>2
    <3>2. pc' \in Places
      BY <2>1 DEF Places
    <3> QED BY <1>0, <2>1, <3>1, <3>2 DEF TalkTypes
  <2>3. Timely'
    BY <1>0, <2>1 DEF Timely, Saved, Nums
  <2>4. Pairs => Pairs'
    BY <2>1 DEF Pairs, Closed, Answered, Asked
  <2>5. Calling'
    BY <1>0, <2>1 DEF Calling
  <2> QED BY <1>0, <2>1, <2>2, <2>3, <2>4, <2>5, StillStep DEF TalkInv
<1>4. CASE Calls
  <2>1. /\ call' \in Seq(CallState) /\ DOMAIN call' = DOMAIN call
        /\ pc = "tools" /\ UNCHANGED <<working, state, fresh, disk, pc, mode, cancelled, mail,
                                       sealed,
                                       attempt, shown, told, said, saved, restarts>>
    BY <1>0, <1>4, CallsStep
  <2>2. TalkTypes'
    BY <1>0, <2>1 DEF TalkTypes
  <2>3. Timely'
    BY <1>0, <2>1 DEF Timely, Saved, Nums
  <2>4. Pairs => Pairs'
    BY <2>1 DEF Pairs, Open, Answered, Asked
  <2>5. Calling'
    BY <1>0, <2>1 DEF Calling
  <2> QED BY <1>0, <2>1, <2>2, <2>3, <2>4, <2>5, StillStep DEF TalkInv
<1>5. CASE Cancel \/ Enqueue \/ UNCHANGED conversationVars
  <2>1. /\ UNCHANGED <<working, state, fresh, disk, told, said, call, saved, restarts, pc, mode,
                       sealed,
                       attempt, shown>>
        /\ cancelled' \in {TRUE, cancelled} /\ mail' \in {mail, mail + 1}
    BY <1>5 DEF Cancel, Enqueue, conversationVars, memory, round
  <2>2. TalkTypes'
    <3>0. cancelled \in BOOLEAN /\ mail \in Nat
      BY <1>0 DEF TalkTypes
    <3>1. cancelled' \in BOOLEAN /\ mail' \in Nat
      <4>1. cancelled' = TRUE \/ cancelled' = cancelled
        BY <2>1
      <4>2. mail' \in Nat
        BY <2>1, <3>0
      <4> QED BY <3>0, <4>1, <4>2
    <3> QED BY <1>0, <2>1, <3>1 DEF TalkTypes
  <2>3. Timely'
    BY <1>0, <2>1 DEF Timely, Saved, Nums
  <2>4. Pairs => Pairs'
    BY <2>1 DEF Pairs, Open, Closed, Answered, Asked
  <2>5. Calling'
    BY <1>0, <2>1 DEF Calling
  <2> QED BY <1>0, <2>1, <2>2, <2>3, <2>4, <2>5, StillStep DEF TalkInv
<1> QED BY <1>1, <1>2, <1>3, <1>4, <1>5 DEF Quiet

-----------------------------------------------------------------------------
(* Steps that append messages.                                             *)

\* A message of the assistant names its calls.
LEMMA AssistantFacts ==
  ASSUME NEW n \in Nat, NEW text \in BOOLEAN, NEW k \in Nat, NEW m, m = Assistant(n, text, k)
  PROVE  /\ m \in Message /\ m.n = n /\ m.role = "assistant" /\ m.text = text
         /\ DOMAIN m.calls = 1 .. k /\ \A x \in 1 .. k : m.calls[x] = CallId(n, x)
         /\ k = 0 => m.calls = <<>>
<1> DEFINE calls == [i \in 1 .. k |-> CallId(n, i)]
<1>1. \A i \in 1 .. k : CallId(n, i) \in Name
  BY DEF CallId, Name
<1>2. calls \in Seq(Name) /\ DOMAIN calls = 1 .. k
  <2>1. calls \in [1 .. k -> Name]
    BY <1>1
  <2> QED BY <2>1
<1>3. \A x \in 1 .. k : calls[x] = CallId(n, x)
  OBVIOUS
<1>4. k = 0 => calls = <<>>
  OBVIOUS
<1>5. m = [n |-> n, role |-> "assistant", text |-> text, image |-> FALSE, calls |-> calls,
           of |-> <<>>]
  BY DEF Assistant
<1> HIDE DEF calls
<1>6. m \in Message
  BY <1>2, <1>5 DEF Message
<1> QED BY <1>2, <1>3, <1>4, <1>5, <1>6

\* A message of the user.
LEMMA UserFacts ==
  ASSUME NEW n \in Nat, NEW text \in BOOLEAN, NEW image \in BOOLEAN, NEW m, m = User(n, text, image)
  PROVE  /\ m \in Message /\ m.n = n /\ m.role = "user" /\ m.text = text /\ m.calls = <<>>
<1>1. <<>> \in Seq(Name)
  OBVIOUS
<1> QED BY <1>1 DEF User, Message

\* Two groups of new messages, one after the other.
LEMMA GroupsJoin ==
  ASSUME NEW n \in Nat, NEW s \in Seq(Message), NEW u \in Seq(Message), Made(s), Made(u),
         \A i \in DOMAIN s : s[i].n = n + i, \A i \in DOMAIN u : u[i].n = n + Len(s) + i
  PROVE  /\ s \o u \in Seq(Message) /\ Len(s \o u) = Len(s) + Len(u) /\ Made(s \o u)
         /\ \A i \in DOMAIN (s \o u) : (s \o u)[i].n = n + i
<1> DEFINE t == s \o u
<1>1. /\ t \in Seq(Message) /\ Len(t) = Len(s) + Len(u)
      /\ \A i \in DOMAIN s : t[i] = s[i]
      /\ \A i \in DOMAIN u : t[Len(s) + i] = u[i]
      /\ \A i \in DOMAIN t :
           \/ i \in DOMAIN s
           \/ i - Len(s) \in DOMAIN u /\ i = Len(s) + (i - Len(s))
      /\ DOMAIN u = 1 .. Len(u) /\ Len(s) \in Nat /\ Len(u) \in Nat
  BY Joined
<1> HIDE DEF t
<1>2. ASSUME NEW i \in DOMAIN t
      PROVE  t[i].n = n + i /\ \A x \in DOMAIN t[i].calls : t[i].calls[x] = CallId(t[i].n, x)
  <2>1. CASE i \in DOMAIN s
    BY <1>1, <2>1 DEF Made
  <2>2. CASE i - Len(s) \in DOMAIN u /\ i = Len(s) + (i - Len(s))
    <3>1. PICK j \in DOMAIN u : i = Len(s) + j
      BY <2>2
    <3>2. t[i] = u[j] /\ u[j].n = n + Len(s) + j
      BY <1>1, <3>1
    <3>3. n + Len(s) + j = n + i
      BY <1>1, <3>1
    <3> QED BY <3>2, <3>3 DEF Made
  <2> QED BY <1>1, <1>2, <2>1, <2>2
<1>3. Made(t)
  BY <1>2 DEF Made
<1> QED BY <1>1, <1>2, <1>3 DEF t

\* The run appends, and goes on.
LEMMA GrowInv ==
  ASSUME TalkInv, NEW t \in Seq(Message), Made(t), \A i \in DOMAIN t : t[i].n = told + i,
         working' = working \o t, told' = told + Len(t), Hear(t),
         UNCHANGED <<state, disk, saved, restarts>>, fresh' = fresh, fresh = state,
         pc' \in {"top", "end", "compress", "steer", "request", "tools"},
         mode' \in {"run", "resume"}, cancelled' \in BOOLEAN, mail' \in Nat, sealed' \in BOOLEAN,
         attempt' \in Nat, shown' \in SUBSET Nat, call' \in Seq(CallState),
         pc' = "tools" => Calling'
  PROVE  TalkInv'
<1>1. TalkTypes /\ Numbered /\ Whole /\ Stored
  BY DEF TalkInv
<1>2. /\ working' \in Seq(Message) /\ told' \in Nat /\ said' \in SUBSET Nat
      /\ Numbered' /\ Whole' /\ Stored'
  BY <1>1, GrowStep
<1>3. TalkTypes'
  BY <1>1, <1>2 DEF TalkTypes, Places
<1>4. Timely'
  BY DEF Timely
<1>5. Calling'
  BY DEF Calling
<1> QED BY <1>2, <1>3, <1>4, <1>5 DEF TalkInv

\* Agent.Run's message.
LEMMA RunStep ==
  ASSUME TalkInv, Run
  PROVE  /\ TalkInv'
         /\ pc = "idle" /\ pc' \in {"top", "end"} /\ UNCHANGED call
         /\ \E t \in Seq(Message) : /\ working' = working \o t
                                    /\ \A i \in DOMAIN t : t[i].role # "tool" /\ t[i].calls = <<>>
<1>0. TalkTypes /\ Timely
  BY DEF TalkInv
<1>1. PICK text \in BOOLEAN, image \in BOOLEAN :
        /\ working' = Append(working, User(told + 1, text, image))
        /\ said' = IF text THEN said \cup {told + 1} ELSE said
  BY DEF Run
<1> DEFINE m == User(told + 1, text, image)
           t == <<m>>
<1>2. told \in Nat /\ working \in Seq(Message)
  BY <1>0 DEF TalkTypes
<1>3. m \in Message /\ m.n = told + 1 /\ m.role = "user" /\ m.text = text /\ m.calls = <<>>
  <2>1. told + 1 \in Nat
    BY <1>2
  <2> QED BY <2>1, UserFacts
<1> HIDE DEF m
<1>4. t \in Seq(Message) /\ Len(t) = 1 /\ DOMAIN t = 1 .. 1 /\ t[1] = m
  BY <1>3, OneMessage
<1>5. working' = working \o t
  BY <1>1, <1>2, <1>3, AppendIsConcat DEF m
<1> HIDE DEF t
<1>6. \A i \in DOMAIN t : i = 1
  BY <1>4
<1>7. Made(t) /\ \A i \in DOMAIN t : t[i].n = told + i /\ t[i].role # "tool" /\ t[i].calls = <<>>
  BY <1>3, <1>4, <1>6 DEF Made
<1>8. Hear(t)
  <2>1. ToSet(t) = {m}
    BY <1>4, <1>6 DEF ToSet
  <2>2. {x \in ToSet(t) : x.text /\ x.role # "tool"} = IF text THEN {m} ELSE {}
    BY <1>3, <2>1
  <2>3. {x.n : x \in {m}} = {told + 1} /\ {x.n : x \in {}} = {}
    BY <1>3
  <2> QED BY <1>1, <2>2, <2>3 DEF Hear
<1>9. /\ UNCHANGED <<state, disk, saved, restarts, mail, attempt, shown, call>>
      /\ fresh' = fresh /\ fresh = state /\ pc = "idle" /\ pc' \in {"top", "end"} /\ mode' = "run"
      /\ cancelled' = FALSE /\ sealed' = FALSE /\ told' = told + 1
  BY <1>0 DEF Run, Begin, round, Timely
<1>10. mail \in Nat /\ attempt \in Nat /\ shown \in SUBSET Nat /\ call \in Seq(CallState)
  BY <1>0 DEF TalkTypes
<1>11. TalkInv'
  BY <1>4, <1>5, <1>7, <1>8, <1>9, <1>10, GrowInv
<1> QED BY <1>4, <1>5, <1>7, <1>9, <1>11

\* The messages queued, before the run goes on.
LEMMA SteerStep ==
  ASSUME TalkInv, Top \/ Steer
  PROVE  /\ TalkInv'
         /\ pc \in {"top", "steer"} /\ pc' # "tools" /\ UNCHANGED call
         /\ \/ UNCHANGED working
            \/ \E t \in Seq(Message) : /\ working' = working \o t
                                       /\ \A i \in DOMAIN t :
                                            t[i].role # "tool" /\ t[i].calls = <<>>
<1>0. TalkTypes /\ Numbered /\ Whole /\ Stored /\ Timely
  BY DEF TalkInv
<1>1. /\ told \in Nat /\ working \in Seq(Message) /\ mail \in Nat /\ attempt \in Nat
      /\ shown \in SUBSET Nat
      /\ call \in Seq(CallState) /\ sealed \in BOOLEAN /\ cancelled \in BOOLEAN
      /\ mode \in {"run", "resume", "compact"}
  BY <1>0 DEF TalkTypes
<1>2. CASE Top /\ cancelled
  <2>1. /\ UNCHANGED <<working, mail, sealed, told, said, state, disk, mode, cancelled, saved,
                       restarts,
                       fresh, attempt, shown, call>>
        /\ pc = "top" /\ pc' = "end"
    BY <1>2 DEF Top, Go, SessionStays, round
  <2>2. TalkTypes'
    BY <1>0, <2>1 DEF TalkTypes, Places
  <2>3. Timely'
    BY <1>0, <2>1 DEF Timely
  <2>4. Calling'
    BY <2>1 DEF Calling
  <2> QED BY <1>0, <2>1, <2>2, <2>3, <2>4, StillStep DEF TalkInv
<1>3. CASE (Top /\ ~cancelled) \/ Steer
  <2> DEFINE t == Steered(told)
  <2>1. /\ t \in Seq(Message) /\ Len(t) = mail
        /\ \A i \in DOMAIN t : /\ t[i].n = told + i /\ t[i].role = "user" /\ t[i].text
                               /\ t[i].calls = <<>>
        /\ Made(t)
    BY <1>1, SteeredFacts
  <2>2. /\ working' = working \o t /\ told' = told + mail /\ mail' = 0
        /\ sealed' = sealed /\ Hear(t)
        /\ UNCHANGED <<state, disk, mode, cancelled, saved, restarts, fresh, call>>
        /\ pc \in {"top", "steer"} /\ pc' \in {"compress", "steer", "top", "request"}
        /\ (attempt' = 1 /\ shown' = {}) \/ UNCHANGED <<attempt, shown>>
    BY <1>1, <1>3 DEF Top, Steer, ApplySteering, SessionStays, round
  <2> HIDE DEF t
  <2>3. mode' \in {"run", "resume"} /\ fresh = state
    BY <1>0, <1>1, <2>2 DEF Timely
  <2>4. attempt' \in Nat /\ shown' \in SUBSET Nat
    <3>1. CASE attempt' = 1 /\ shown' = {}
      BY <3>1
    <3>2. CASE UNCHANGED <<attempt, shown>>
      BY <1>1, <3>2
    <3> QED BY <2>2, <3>1, <3>2
  <2>5. mail' \in Nat /\ sealed' \in BOOLEAN /\ cancelled' \in BOOLEAN /\ call' \in Seq(CallState)
    BY <1>1, <2>2
  <2>6. TalkInv'
    BY <2>1, <2>2, <2>3, <2>4, <2>5, GrowInv
  <2> QED BY <2>1, <2>2, <2>6
<1> QED BY <1>2, <1>3

\* The model's last word, and what has come meanwhile.
LEMMA FinalStep ==
  ASSUME TalkInv, FinalAnswer
  PROVE  /\ TalkInv'
         /\ pc = "stream" /\ pc' \in {"top", "end"} /\ UNCHANGED call
         /\ \E t \in Seq(Message) : /\ working' = working \o t
                                    /\ \A i \in DOMAIN t : t[i].role # "tool" /\ t[i].calls = <<>>
<1>0. TalkTypes /\ Timely
  BY DEF TalkInv
<1>1. /\ told \in Nat /\ working \in Seq(Message) /\ mail \in Nat /\ call \in Seq(CallState)
      /\ sealed \in BOOLEAN /\ cancelled \in BOOLEAN /\ mode \in {"run", "resume", "compact"}
  BY <1>0 DEF TalkTypes
<1>2. PICK text \in BOOLEAN :
        /\ ModelAnswers(text, 0)
        /\ LET s == IF text THEN <<Assistant(told + 1, TRUE, 0)>> ELSE <<>>
               n == told + Len(s)
           IN ApplySteering(TRUE, working \o s, n) /\ Hear(s \o Steered(n))
  BY DEF FinalAnswer
<1> DEFINE s == IF text THEN <<Assistant(told + 1, TRUE, 0)>> ELSE <<>>
           u == Steered(told + Len(s))
           t == s \o u
<1>3. /\ s \in Seq(Message) /\ Len(s) \in {0, 1} /\ Made(s)
      /\ \A i \in DOMAIN s : s[i].n = told + i /\ s[i].role = "assistant" /\ s[i].calls = <<>>
  <2>1. CASE text
    <3> DEFINE m == Assistant(told + 1, TRUE, 0)
    <3>1. m \in Message /\ m.n = told + 1 /\ m.role = "assistant" /\ m.calls = <<>>
      <4>1. told + 1 \in Nat /\ 0 \in Nat
        BY <1>1
      <4>2. m = Assistant(told + 1, text, 0)
        <5>1. text = TRUE
          BY <2>1
        <5> QED BY <5>1
      <4> HIDE DEF m, s, u, t
      <4> QED BY <4>1, <4>2, AssistantFacts
    <3>2. s = <<m>>
      BY <2>1
    <3> HIDE DEF m, s
    <3>3. <<m>> \in Seq(Message) /\ Len(<<m>>) = 1 /\ DOMAIN <<m>> = 1 .. 1 /\ <<m>>[1] = m
      BY <3>1, OneMessage
    <3> QED BY <1>1, <3>1, <3>2, <3>3 DEF Made
  <2>2. CASE ~text
    <3>1. s = <<>>
      BY <2>2
    <3>2. <<>> \in Seq(Message) /\ Len(<<>>) = 0 /\ DOMAIN <<>> = {}
      OBVIOUS
    <3> HIDE DEF s
    <3> QED BY <3>1, <3>2 DEF Made
  <2> QED BY <2>1, <2>2
<1>4. /\ u \in Seq(Message) /\ Len(u) = mail /\ Made(u)
      /\ \A i \in DOMAIN u : /\ u[i].n = told + Len(s) + i /\ u[i].role = "user"
                             /\ u[i].calls = <<>>
  <2> HIDE DEF s
  <2>1. told + Len(s) \in Nat
    BY <1>1, <1>3
  <2>2. u = Steered(told + Len(s))
    OBVIOUS
  <2> HIDE DEF u
  <2> QED BY <1>1, <2>1, <2>2, SteeredFacts
<1>5. /\ working' = (working \o s) \o u /\ told' = told + Len(s) + mail /\ mail' = 0
      /\ sealed' = (sealed \/ mail = 0) /\ Hear(t)
  BY <1>2 DEF ApplySteering
<1>6. /\ UNCHANGED <<state, fresh, disk, mode, cancelled, saved, restarts, call>>
      /\ attempt' = 0 /\ shown' = {} /\ pc = "stream" /\ pc' \in {"top", "end"}
  BY <1>2 DEF FinalAnswer, ModelAnswers, Leave, Go
<1> HIDE DEF s, u
<1>7. /\ t \in Seq(Message) /\ Len(t) = Len(s) + Len(u) /\ Made(t)
      /\ \A i \in DOMAIN t : t[i].n = told + i
  BY <1>1, <1>3, <1>4, GroupsJoin
<1>8. working' = working \o t /\ told' = told + Len(t)
  BY <1>1, <1>3, <1>4, <1>5, <1>7, ConcatAssociative
<1>9. \A i \in DOMAIN t : t[i].role # "tool" /\ t[i].calls = <<>>
  <2>1. /\ \A i \in DOMAIN s : t[i] = s[i]
        /\ \A i \in DOMAIN u : t[Len(s) + i] = u[i]
        /\ \A i \in DOMAIN t :
             \/ i \in DOMAIN s
             \/ i - Len(s) \in DOMAIN u /\ i = Len(s) + (i - Len(s))
    BY <1>3, <1>4, Joined
  <2> HIDE DEF t
  <2>2. ASSUME NEW i \in DOMAIN t PROVE t[i].role # "tool" /\ t[i].calls = <<>>
    <3>1. CASE i \in DOMAIN s
      BY <1>3, <2>1, <3>1
    <3>2. CASE i - Len(s) \in DOMAIN u /\ i = Len(s) + (i - Len(s))
      <4>1. t[i] = u[i - Len(s)]
        BY <2>1, <3>2
      <4> QED BY <1>4, <3>2, <4>1
    <3> QED BY <2>1, <2>2, <3>1, <3>2
  <2> QED BY <2>2
<1> HIDE DEF t
<1>10. mode' \in {"run", "resume"} /\ fresh = state
  BY <1>0, <1>1, <1>6 DEF Timely
<1>11. mail' \in Nat /\ sealed' \in BOOLEAN /\ cancelled' \in BOOLEAN /\ call' \in Seq(CallState)
       /\ attempt' \in Nat /\ shown' \in SUBSET Nat
  BY <1>1, <1>5, <1>6
<1>12. TalkInv'
  BY <1>5, <1>6, <1>7, <1>8, <1>10, <1>11, GrowInv
<1> QED BY <1>6, <1>7, <1>8, <1>9, <1>12

\* The model's calls.
LEMMA CallingStep ==
  ASSUME TalkInv, CallingAnswer
  PROVE  /\ TalkInv'
         /\ pc = "stream" /\ pc' = "tools"
         /\ \E m \in Message : /\ working' = working \o <<m>> /\ m.role = "assistant"
                               /\ DOMAIN m.calls = DOMAIN call'
<1>0. TalkTypes /\ Timely
  BY DEF TalkInv
<1>1. /\ told \in Nat /\ working \in Seq(Message) /\ mail \in Nat
      /\ sealed \in BOOLEAN /\ cancelled \in BOOLEAN /\ mode \in {"run", "resume", "compact"}
  BY <1>0 DEF TalkTypes
<1>2. PICK text \in BOOLEAN, k \in 1 .. 2 :
        /\ ModelAnswers(text, k)
        /\ LET s == <<Assistant(told + 1, text, k)>> IN working' = working \o s /\ Hear(s)
        /\ call' = [i \in 1 .. k |-> [at |-> "check", verdict |-> "none", image |-> FALSE]]
  BY DEF CallingAnswer
<1> DEFINE m == Assistant(told + 1, text, k)
           t == <<m>>
<1>3. /\ m \in Message /\ m.n = told + 1 /\ m.role = "assistant" /\ DOMAIN m.calls = 1 .. k
      /\ \A x \in 1 .. k : m.calls[x] = CallId(told + 1, x)
  <2>1. told + 1 \in Nat /\ k \in Nat
    BY <1>1
  <2> QED BY <2>1, AssistantFacts
<1>4. working' = working \o t /\ Hear(t)
  BY <1>2
<1> HIDE DEF m
<1>5. t \in Seq(Message) /\ Len(t) = 1 /\ DOMAIN t = 1 .. 1 /\ t[1] = m
  BY <1>3, OneMessage
<1> HIDE DEF t
<1>6. Made(t) /\ \A i \in DOMAIN t : t[i].n = told + i
  <2>1. \A i \in DOMAIN t : i = 1
    BY <1>5
  <2> QED BY <1>3, <1>5, <2>1 DEF Made
<1>7. /\ UNCHANGED <<state, fresh, disk, mode, cancelled, saved, restarts, mail, sealed>>
      /\ attempt' = 0 /\ shown' = {} /\ pc = "stream" /\ pc' = "tools" /\ told' = told + 1
  BY <1>2 DEF CallingAnswer, ModelAnswers, Leave, Go
<1>8. call' \in Seq(CallState) /\ DOMAIN call' = 1 .. k
  <2>1. [at |-> "check", verdict |-> "none", image |-> FALSE] \in CallState
    BY DEF CallState
  <2>2. call' \in [1 .. k -> CallState] /\ k \in Nat
    BY <1>2, <2>1
  <2> QED BY <2>2
<1>9. mode' \in {"run", "resume"} /\ fresh = state
  BY <1>0, <1>1, <1>7 DEF Timely
<1>10. mail' \in Nat /\ sealed' \in BOOLEAN /\ cancelled' \in BOOLEAN
       /\ attempt' \in Nat /\ shown' \in SUBSET Nat
  BY <1>1, <1>7
<1>12. Calling'
  <2>1. /\ Len(working') = Len(working) + 1 /\ working'[Len(working) + 1] = m
        /\ Len(working) \in Nat /\ working' \in Seq(Message)
    <3>1. /\ working \o t \in Seq(Message) /\ Len(working \o t) = Len(working) + Len(t)
          /\ Len(working) \in Nat /\ \A i \in DOMAIN t : (working \o t)[Len(working) + i] = t[i]
      BY <1>1, <1>5, Joined
    <3>2. 1 \in DOMAIN t
      BY <1>5
    <3> QED BY <1>4, <1>5, <3>1, <3>2
  <2> QED BY <1>3, <1>8, <2>1 DEF Calling
<1>11. TalkInv'
  BY <1>4, <1>5, <1>6, <1>7, <1>8, <1>9, <1>10, <1>12, GrowInv
<1> QED BY <1>3, <1>4, <1>7, <1>8, <1>11 DEF t

\* The results of the round's calls, their images, and what has come meanwhile.
LEMMA ResultsStep ==
  ASSUME TalkInv, Results
  PROVE  /\ TalkInv'
         /\ pc = "tools" /\ pc' = "top"
         /\ \E r \in Seq(Message), t \in Seq(Message) :
              /\ working' = working \o (r \o t)
              /\ DOMAIN r = DOMAIN working[Len(working)].calls
              /\ \A i \in DOMAIN r : /\ r[i].role = "tool" /\ r[i].calls = <<>>
                                     /\ r[i].of = working[Len(working)].calls[i]
              /\ \A i \in DOMAIN t : t[i].role # "tool" /\ t[i].calls = <<>>
<1>0. TalkTypes /\ Timely /\ Calling
  BY DEF TalkInv
<1>1. /\ told \in Nat /\ working \in Seq(Message) /\ mail \in Nat /\ call \in Seq(CallState)
      /\ sealed \in BOOLEAN /\ cancelled \in BOOLEAN /\ mode \in {"run", "resume", "compact"}
      /\ attempt \in Nat /\ shown \in SUBSET Nat
  BY <1>0 DEF TalkTypes
<1> DEFINE last == working[Len(working)]
           r == [i \in DOMAIN call |-> ToolResult(told + i, last.calls[i])]
           g == IF \E i \in DOMAIN call : call[i].image
                THEN <<User(told + Len(call) + 1, FALSE, TRUE)>> ELSE <<>>
           s == r \o g
           u == Steered(told + Len(s))
           t == g \o u
<1>2. /\ pc = "tools" /\ pc' = "top" /\ call' = <<>>
      /\ working' = (working \o s) \o u /\ told' = told + Len(s) + mail /\ mail' = 0
      /\ sealed' = sealed /\ Hear(s \o u)
      /\ UNCHANGED <<state, fresh, disk, mode, cancelled, saved, restarts, attempt, shown>>
  <2>1. Last(working) = last
    BY DEF Last
  <2> QED BY <1>1, <2>1 DEF Results, ApplySteering, SessionStays, Go
<1>3. /\ last \in Message /\ last.calls \in Seq(Name) /\ DOMAIN last.calls = DOMAIN call
  <2>1. working # <<>> /\ DOMAIN last.calls = DOMAIN call
    BY <1>0, <1>2 DEF Calling
  <2>2. last \in Message
    BY <1>1, <2>1
  <2> HIDE DEF last
  <2> QED BY <2>1, <2>2 DEF Message
<1> HIDE DEF last
<1>4. /\ r \in Seq(Message) /\ Len(r) = Len(call) /\ DOMAIN r = DOMAIN call /\ Made(r)
      /\ \A i \in DOMAIN r : /\ r[i].n = told + i /\ r[i].role = "tool" /\ r[i].calls = <<>>
                             /\ r[i].of = last.calls[i]
  <2>1. DOMAIN call = 1 .. Len(call) /\ Len(call) \in Nat
    BY <1>1
  <2>2. ASSUME NEW i \in DOMAIN call
        PROVE  /\ ToolResult(told + i, last.calls[i]) \in Message
               /\ ToolResult(told + i, last.calls[i]).n = told + i
               /\ ToolResult(told + i, last.calls[i]).role = "tool"
               /\ ToolResult(told + i, last.calls[i]).calls = <<>>
               /\ ToolResult(told + i, last.calls[i]).of = last.calls[i]
    <3>1. last.calls[i] \in Name /\ told + i \in Nat /\ <<>> \in Seq(Name)
      BY <1>1, <1>3, <2>1
    <3> QED BY <3>1 DEF ToolResult, Message
  <2>3. r \in [1 .. Len(call) -> Message]
    BY <2>1, <2>2
  <2>4. r \in Seq(Message) /\ Len(r) = Len(call) /\ DOMAIN r = DOMAIN call
    BY <2>1, <2>3
  <2>5. \A i \in DOMAIN r : /\ r[i].n = told + i /\ r[i].role = "tool" /\ r[i].calls = <<>>
                            /\ r[i].of = last.calls[i]
    BY <2>2, <2>4
  <2> HIDE DEF r
  <2>6. Made(r)
    BY <2>5 DEF Made
  <2> QED BY <2>4, <2>5, <2>6
<1>5. /\ g \in Seq(Message) /\ Len(g) \in Nat /\ Made(g)
      /\ \A i \in DOMAIN g :
           g[i].n = told + Len(call) + i /\ g[i].role # "tool" /\ g[i].calls = <<>>
  <2>1. CASE \E i \in DOMAIN call : call[i].image
    <3> DEFINE m == User(told + Len(call) + 1, FALSE, TRUE)
    <3>1. m \in Message /\ m.n = told + Len(call) + 1 /\ m.role = "user" /\ m.calls = <<>>
      <4>1. told + Len(call) + 1 \in Nat /\ <<>> \in Seq(Name)
        BY <1>1
      <4> QED BY <4>1 DEF User, Message
    <3>2. g = <<m>>
      BY <2>1
    <3> HIDE DEF m, g
    <3>3. <<m>> \in Seq(Message) /\ Len(<<m>>) = 1 /\ DOMAIN <<m>> = 1 .. 1 /\ <<m>>[1] = m
      BY <3>1, OneMessage
    <3>4. \A i \in DOMAIN g : i = 1
      BY <3>2, <3>3
    <3> QED BY <1>1, <3>1, <3>2, <3>3, <3>4 DEF Made
  <2>2. CASE ~\E i \in DOMAIN call : call[i].image
    <3>1. g = <<>>
      BY <2>2
    <3>2. <<>> \in Seq(Message) /\ Len(<<>>) = 0 /\ DOMAIN <<>> = {}
      OBVIOUS
    <3> HIDE DEF g
    <3> QED BY <3>1, <3>2 DEF Made
  <2> QED BY <2>1, <2>2
<1> HIDE DEF r, g
<1>6. /\ s \in Seq(Message) /\ Len(s) = Len(call) + Len(g) /\ Made(s)
      /\ \A i \in DOMAIN s : s[i].n = told + i
  <2>1. /\ \A i \in DOMAIN r : r[i].n = told + i
        /\ \A i \in DOMAIN g : g[i].n = told + Len(r) + i
    BY <1>4, <1>5
  <2>2. r \in Seq(Message) /\ g \in Seq(Message) /\ Made(r) /\ Made(g) /\ Len(r) = Len(call)
    BY <1>4, <1>5
  <2>3. s = r \o g
    OBVIOUS
  <2> HIDE DEF s, u, t
  <2>4. /\ r \o g \in Seq(Message) /\ Len(r \o g) = Len(r) + Len(g) /\ Made(r \o g)
        /\ \A i \in DOMAIN (r \o g) : (r \o g)[i].n = told + i
    BY <1>1, <2>1, <2>2, GroupsJoin
  <2> QED BY <2>2, <2>3, <2>4
<1> HIDE DEF s
<1>7. /\ u \in Seq(Message) /\ Len(u) = mail /\ Made(u)
      /\ \A i \in DOMAIN u : /\ u[i].n = told + Len(s) + i /\ u[i].role = "user"
                             /\ u[i].calls = <<>>
  <2>1. told + Len(s) \in Nat
    BY <1>1, <1>6
  <2>2. u = Steered(told + Len(s))
    OBVIOUS
  <2> HIDE DEF u
  <2> QED BY <1>1, <2>1, <2>2, SteeredFacts
<1> HIDE DEF u
<1>8. /\ s \o u \in Seq(Message) /\ Len(s \o u) = Len(s) + Len(u) /\ Made(s \o u)
      /\ \A i \in DOMAIN (s \o u) : (s \o u)[i].n = told + i
  <2>1. /\ \A i \in DOMAIN s : s[i].n = told + i
        /\ \A i \in DOMAIN u : u[i].n = told + Len(s) + i
    BY <1>6, <1>7
  <2>2. s \in Seq(Message) /\ u \in Seq(Message) /\ Made(s) /\ Made(u)
    BY <1>6, <1>7
  <2> QED BY <1>1, <2>1, <2>2, GroupsJoin
<1>9. working' = working \o (s \o u) /\ told' = told + Len(s \o u)
  <2>1. (working \o s) \o u = working \o (s \o u)
    BY <1>1, <1>6, <1>7, ConcatAssociative
  <2>2. Len(s) \in Nat
    BY <1>6
  <2> QED BY <1>1, <1>2, <1>7, <1>8, <2>1, <2>2
<1>10. s \o u = r \o t
  BY <1>4, <1>5, <1>7, ConcatAssociative DEF s
<1>11. t \in Seq(Message) /\ \A i \in DOMAIN t : t[i].role # "tool" /\ t[i].calls = <<>>
  <2>1. /\ t \in Seq(Message)
        /\ \A i \in DOMAIN g : t[i] = g[i]
        /\ \A i \in DOMAIN u : t[Len(g) + i] = u[i]
        /\ \A i \in DOMAIN t :
             \/ i \in DOMAIN g
             \/ i - Len(g) \in DOMAIN u /\ i = Len(g) + (i - Len(g))
    BY <1>5, <1>7, Joined
  <2> HIDE DEF t
  <2>2. ASSUME NEW i \in DOMAIN t PROVE t[i].role # "tool" /\ t[i].calls = <<>>
    <3>1. CASE i \in DOMAIN g
      BY <1>5, <2>1, <3>1
    <3>2. CASE i - Len(g) \in DOMAIN u /\ i = Len(g) + (i - Len(g))
      <4>1. t[i] = u[i - Len(g)]
        BY <2>1, <3>2
      <4> QED BY <1>7, <3>2, <4>1
    <3> QED BY <2>1, <2>2, <3>1, <3>2
  <2> QED BY <2>1, <2>2
<1> HIDE DEF t
<1>12. mode' \in {"run", "resume"} /\ fresh = state
  BY <1>0, <1>1, <1>2 DEF Timely
<1>13. mail' \in Nat /\ sealed' \in BOOLEAN /\ cancelled' \in BOOLEAN /\ call' \in Seq(CallState)
       /\ attempt' \in Nat /\ shown' \in SUBSET Nat
  BY <1>1, <1>2
<1>14. TalkInv'
  BY <1>2, <1>8, <1>9, <1>12, <1>13, GrowInv
<1> QED BY <1>2, <1>3, <1>4, <1>9, <1>10, <1>11, <1>14 DEF last

-----------------------------------------------------------------------------
(* Where a compaction may cut.                                             *)

Latest(T) == CHOOSE i \in T : \A j \in T : j <= i
Earliest(T) == CHOOSE i \in T : \A j \in T : i <= j

\* A bounded set of places has a last one.
LEMMA LatestIn ==
  ASSUME NEW n \in Nat, NEW T \in SUBSET (1 .. n), T # {}
  PROVE  Latest(T) \in T
<1> DEFINE U == {m \in Nat : \A j \in T : j <= m}
<1>1. U \in SUBSET Nat /\ n \in U
  OBVIOUS
<1> HIDE DEF U
<1>2. PICK m \in U : \A i \in U : m <= i
  BY <1>1, Least
<1>3. m \in Nat /\ (\A j \in T : j <= m) /\ \A i \in Nat : (\A j \in T : j <= i) => m <= i
  BY <1>2 DEF U
<1>4. ASSUME m \notin T PROVE FALSE
  <2>1. PICK t \in T : TRUE
    OBVIOUS
  <2>2. t \in 1 .. n /\ t <= m
    BY <1>3, <2>1
  <2>3. m - 1 \in Nat
    BY <1>3, <2>2
  <2>4. \A j \in T : j \in Nat /\ j <= m /\ j # m
    BY <1>3, <1>4
  <2>5. \A j \in T : j <= m - 1
    BY <1>3, <2>4
  <2>6. m <= m - 1
    BY <1>3, <2>3, <2>5
  <2> QED BY <1>3, <2>6
<1>5. \E i \in T : \A j \in T : j <= i
  BY <1>3, <1>4
<1> QED BY <1>5 DEF Latest

\* And a first one.
LEMMA EarliestIn ==
  ASSUME NEW n \in Nat, NEW T \in SUBSET (1 .. n), T # {}
  PROVE  Earliest(T) \in T
<1>1. T \in SUBSET Nat
  OBVIOUS
<1>2. PICK i \in T : \A j \in T : i <= j
  BY <1>1, Least
<1> QED BY <1>2 DEF Earliest

\* The messages up to start that made the call id; the calls made after start, and
\* those answered after it that were made before.
Makers(s, start, id) == {i \in 1 .. start : id \in ToSet(s[i].calls)}
CalledLater(s, start) == UNION {ToSet(s[i].calls) : i \in start + 1 .. Len(s)}
Orphans(s, start) ==
  {o \in {s[i].of : i \in {j \in start + 1 .. Len(s) : s[j].role = "tool"}}
           \ CalledLater(s, start) :
     Makers(s, start, o) # {}}

\* What stays without its call has a parent before the cut.
LEMMA ParentsFacts ==
  ASSUME NEW s, NEW k \in Nat
  PROVE  /\ Parents(s, k) \in SUBSET (1 .. k)
         /\ Parents(s, k) = {} => Orphans(s, k) = {}
<1>1. Parents(s, k) = {Latest(Makers(s, k, id)) : id \in Orphans(s, k)}
  BY DEF Parents, Latest, Makers, Orphans, CalledLater
<1>2. \A id \in Orphans(s, k) : Makers(s, k, id) # {}
  BY DEF Orphans
<1>3. \A id : Makers(s, k, id) \in SUBSET (1 .. k)
  BY DEF Makers
<1>4. \A id \in Orphans(s, k) : Latest(Makers(s, k, id)) \in 1 .. k
  <2> SUFFICES ASSUME NEW id \in Orphans(s, k) PROVE Latest(Makers(s, k, id)) \in 1 .. k
    OBVIOUS
  <2>1. Latest(Makers(s, k, id)) \in Makers(s, k, id)
    BY <1>2, <1>3, LatestIn
  <2> QED BY <1>3, <2>1
<1> QED BY <1>1, <1>4

\* f is what ExpandRecentStart computes, up to n.
Expands(f, s, n) ==
  f = [k \in 0 .. n |-> IF k \in {0, Len(s)} \/ Parents(s, k) = {} THEN k
                        ELSE f[Earliest(Parents(s, k)) - 1]]

\* ExpandRecentStart is such a function, at its start.
LEMMA ExpandIs ==
  ASSUME NEW s, NEW k
  PROVE  ExpandRecentStart(s, k) = (CHOOSE f : Expands(f, s, Len(s)))[k]
BY DEF ExpandRecentStart, Expands, Earliest

\* The places it looks at come earlier.
LEMMA EarlierPlace ==
  ASSUME NEW s, Len(s) \in Nat, NEW k \in 0 .. Len(s), k \notin {0, Len(s)}, Parents(s, k) # {}
  PROVE  Earliest(Parents(s, k)) - 1 \in 0 .. k - 1
<1> DEFINE T == Parents(s, k)
<1>1. k \in Nat
  OBVIOUS
<1>2. T \in SUBSET (1 .. k) /\ T # {}
  BY <1>1, ParentsFacts
<1> HIDE DEF T
<1>3. Earliest(T) \in 1 .. k
  BY <1>1, <1>2, EarliestIn
<1>4. PICK e : e = Earliest(T)
  OBVIOUS
<1>5. e - 1 \in 0 .. k - 1
  BY <1>1, <1>3, <1>4
<1> QED BY <1>4, <1>5 DEF T

\* There is such a function: at the least n without one, the smaller one goes on.
LEMMA ExpandsExists ==
  ASSUME NEW s, Len(s) \in Nat
  PROVE  \E f : Expands(f, s, Len(s))
<1> DEFINE Stays(k) == k \in {0, Len(s)} \/ Parents(s, k) = {}
           Back(k) == Earliest(Parents(s, k)) - 1
           T == {n \in 0 .. Len(s) : ~\E f : Expands(f, s, n)}
<1>1. \A k \in 0 .. Len(s) : Stays(k) \/ Back(k) \in 0 .. k - 1
  <2> SUFFICES ASSUME NEW k \in 0 .. Len(s), ~Stays(k) PROVE Back(k) \in 0 .. k - 1
    OBVIOUS
  <2> QED BY EarlierPlace
<1>2. \A f, n : Expands(f, s, n) <=> f = [k \in 0 .. n |-> IF Stays(k) THEN k ELSE f[Back(k)]]
  BY DEF Expands
<1> HIDE DEF Stays, Back
<1>3. SUFFICES ASSUME T # {} PROVE FALSE
  OBVIOUS
<1>4. PICK n \in T : \A i \in T : n <= i
  <2>1. T \in SUBSET Nat
    OBVIOUS
  <2> HIDE DEF T
  <2> QED BY <1>3, <2>1, Least
<1>5. n \in 0 .. Len(s) /\ ~\E f : Expands(f, s, n)
  OBVIOUS
<1>6. \E g : n = 0 \/ Expands(g, s, n - 1)
  <2>1. CASE n = 0
    BY <2>1
  <2>2. CASE n # 0
    <3>1. n - 1 \in 0 .. Len(s) /\ ~(n <= n - 1)
      BY <1>5, <2>2
    <3>2. n - 1 \notin T
      BY <1>4, <3>1
    <3> QED BY <3>1, <3>2
  <2> QED BY <2>1, <2>2
<1> HIDE DEF T
<1>7. PICK g : n = 0 \/ Expands(g, s, n - 1)
  BY <1>6
<1> DEFINE f == [k \in 0 .. n |-> IF Stays(k) THEN k ELSE g[Back(k)]]
<1>8. ASSUME NEW k \in 0 .. n, ~Stays(k) PROVE f[Back(k)] = g[Back(k)]
  <2>1. k \in 0 .. Len(s) /\ n \in Nat
    BY <1>5
  <2>2. Back(k) \in 0 .. k - 1
    BY <1>1, <1>8, <2>1
  <2>3. PICK b : b = Back(k)
    OBVIOUS
  <2>4. b \in 0 .. n - 1 /\ b \in 0 .. n /\ n # 0
    BY <2>1, <2>2, <2>3
  <2>5. g = [i \in 0 .. n - 1 |-> IF Stays(i) THEN i ELSE g[Back(i)]]
    BY <1>2, <1>7, <2>4
  <2>6. g[b] = IF Stays(b) THEN b ELSE g[Back(b)]
    BY <2>4, <2>5
  <2>7. f[b] = IF Stays(b) THEN b ELSE g[Back(b)]
    BY <2>4
  <2> QED BY <2>3, <2>6, <2>7
<1>9. f = [k \in 0 .. n |-> IF Stays(k) THEN k ELSE f[Back(k)]]
  BY <1>8
<1>10. Expands(f, s, n)
  BY <1>2, <1>9
<1> QED BY <1>5, <1>10

\* Where it ends, no result stays without its call, or nothing is cut, or all is.
LEMMA ExpandFacts ==
  ASSUME NEW s, Len(s) \in Nat, NEW k \in 0 .. Len(s), NEW e, e = ExpandRecentStart(s, k)
  PROVE  e \in 0 .. Len(s) /\ (e \in {0, Len(s)} \/ Orphans(s, e) = {})
<1> DEFINE f == CHOOSE g : Expands(g, s, Len(s))
           Good(x) == x \in 0 .. Len(s) /\ (x \in {0, Len(s)} \/ Orphans(s, x) = {})
           T == {i \in 0 .. Len(s) : ~Good(f[i])}
<1>1. Expands(f, s, Len(s))
  BY ExpandsExists
<1>2. e = f[k]
  BY ExpandIs
<1> HIDE DEF f
<1>3. \A i \in 0 .. Len(s) :
        f[i] = IF i \in {0, Len(s)} \/ Parents(s, i) = {} THEN i
               ELSE f[Earliest(Parents(s, i)) - 1]
  BY <1>1 DEF Expands
<1>4. ASSUME T # {} PROVE FALSE
  <2>1. T \in SUBSET Nat
    OBVIOUS
  <2> HIDE DEF T
  <2>2. PICK i \in T : \A j \in T : i <= j
    BY <1>4, <2>1, Least
  <2>3. i \in 0 .. Len(s) /\ ~Good(f[i])
    BY <2>2 DEF T
  <2>4. CASE i \in {0, Len(s)} \/ Parents(s, i) = {}
    <3>1. f[i] = i
      BY <1>3, <2>3, <2>4
    <3>2. i \in {0, Len(s)} \/ Orphans(s, i) = {}
      <4>1. i \in Nat
        BY <2>3
      <4> QED BY <2>4, <4>1, ParentsFacts
    <3> QED BY <2>3, <3>1, <3>2
  <2>5. CASE ~(i \in {0, Len(s)} \/ Parents(s, i) = {})
    <3>1. PICK b : b = Earliest(Parents(s, i)) - 1
      OBVIOUS
    <3>2. b \in 0 .. i - 1
      BY <2>3, <2>5, <3>1, EarlierPlace
    <3>3. b \in 0 .. Len(s) /\ ~(i <= b)
      BY <2>3, <3>2
    <3>4. b \notin T
      BY <2>2, <3>3
    <3>5. Good(f[b])
      BY <3>3, <3>4 DEF T
    <3>6. f[i] = f[b]
      BY <1>3, <2>3, <2>5, <3>1
    <3> QED BY <2>3, <3>5, <3>6
  <2> QED BY <2>4, <2>5
<1>5. Good(f[k])
  BY <1>4
<1> QED BY <1>2, <1>5

\* What a compaction folds of a window, and what it keeps.
Folded(s, k) == SubSeq(s, 1, k)
Remaining(s, k) == SubSeq(s, k + 1, Len(s))

\* A window cut in two.
LEMMA CutFacts ==
  ASSUME NEW s \in Seq(Message), NEW k \in 0 .. Len(s),
         NEW a, a = Folded(s, k), NEW b, b = Remaining(s, k)
  PROVE  /\ a \in Seq(Message) /\ b \in Seq(Message) /\ Len(b) = Len(s) - k
         /\ DOMAIN s = 1 .. Len(s) /\ DOMAIN a = 1 .. k /\ DOMAIN b = 1 .. Len(s) - k
         /\ Len(s) \in Nat /\ k \in Nat
         /\ \A i \in DOMAIN a : i \in DOMAIN s /\ a[i] = s[i]
         /\ \A i \in DOMAIN b : k + i \in DOMAIN s /\ b[i] = s[k + i]
         /\ Nums(s) = Nums(a) \cup Nums(b)
         /\ Apart(s) => Nums(a) \cap Nums(b) = {} /\ Apart(b)
<1>1. /\ DOMAIN s = 1 .. Len(s) /\ Len(s) \in Nat /\ k \in Nat
      /\ \A i \in 1 .. Len(s) : s[i] \in Message
  OBVIOUS
<1>2. /\ a \in Seq(Message) /\ Len(a) = k /\ DOMAIN a = 1 .. k /\ \A i \in 1 .. k : a[i] = s[i]
  <2>1. \A i \in 1 .. k : s[i] \in Message
    BY <1>1
  <2>2. /\ a \in Seq(Message) /\ Len(a) = (IF 1 <= k THEN k - 1 + 1 ELSE 0)
        /\ \A i \in 1 .. k - 1 + 1 : a[i] = s[1 + i - 1]
    BY <1>1, <2>1, SubSeqProperties DEF Folded, Remaining
  <2>3. Len(a) = k
    BY <1>1, <2>2
  <2>4. \A i \in 1 .. k : i \in 1 .. k - 1 + 1 /\ 1 + i - 1 = i
    BY <1>1
  <2>5. \A i \in 1 .. k : a[i] = s[i]
    BY <2>2, <2>4
  <2> QED BY <2>2, <2>3, <2>5
<1>3. /\ b \in Seq(Message) /\ Len(b) = Len(s) - k /\ DOMAIN b = 1 .. Len(s) - k
      /\ \A i \in 1 .. Len(s) - k : b[i] = s[k + i]
  <2>1. \A i \in k + 1 .. Len(s) : s[i] \in Message
    BY <1>1
  <2>2. /\ b \in Seq(Message) /\ Len(b) = (IF k + 1 <= Len(s) THEN Len(s) - (k + 1) + 1 ELSE 0)
        /\ \A i \in 1 .. Len(s) - (k + 1) + 1 : b[i] = s[k + 1 + i - 1]
    BY <1>1, <2>1, SubSeqProperties DEF Folded, Remaining
  <2>3. Len(b) = Len(s) - k
    <3>1. PICK l \in Nat : l = Len(s)
      BY <1>1
    <3>2. k \in 0 .. l /\ Len(b) = (IF k + 1 <= l THEN l - (k + 1) + 1 ELSE 0)
      BY <2>2, <3>1
    <3>3. (IF k + 1 <= l THEN l - (k + 1) + 1 ELSE 0) = l - k
      BY <3>2
    <3> QED BY <3>1, <3>2, <3>3
  <2>4. \A i \in 1 .. Len(s) - k : i \in 1 .. Len(s) - (k + 1) + 1 /\ k + 1 + i - 1 = k + i
    BY <1>1
  <2>5. \A i \in 1 .. Len(s) - k : b[i] = s[k + i]
    BY <2>2, <2>4
  <2> QED BY <2>2, <2>3, <2>5
<1>4. /\ \A i \in DOMAIN a : i \in DOMAIN s /\ a[i] = s[i]
      /\ \A i \in DOMAIN b : k + i \in DOMAIN s /\ b[i] = s[k + i]
  <2>1. k <= Len(s)
    BY <1>1
  <2>2. \A i \in 1 .. k : i \in 1 .. Len(s)
    BY <1>1, <2>1
  <2>3. \A i \in 1 .. Len(s) - k : k + i \in 1 .. Len(s)
    BY <1>1, <2>1
  <2>4. DOMAIN s = 1 .. Len(s) /\ DOMAIN a = 1 .. k /\ DOMAIN b = 1 .. Len(s) - k
    BY <1>1, <1>2, <1>3
  <2> QED BY <1>2, <1>3, <2>2, <2>3, <2>4
<1>5. ASSUME NEW i \in DOMAIN s
      PROVE  (i \in DOMAIN a /\ a[i] = s[i]) \/ (i - k \in DOMAIN b /\ b[i - k] = s[i])
  <2>1. CASE i <= k
    BY <1>1, <1>2, <2>1
  <2>2. CASE ~(i <= k)
    <3>1. i - k \in 1 .. Len(s) - k /\ k + (i - k) = i
      BY <1>1, <2>2
    <3> QED BY <1>3, <3>1
  <2> QED BY <2>1, <2>2
<1>6. Nums(s) = Nums(a) \cup Nums(b)
  <2>1. Nums(s) \subseteq Nums(a) \cup Nums(b)
    BY <1>5 DEF Nums
  <2>2. Nums(a) \subseteq Nums(s) /\ Nums(b) \subseteq Nums(s)
    BY <1>4 DEF Nums
  <2> QED BY <2>1, <2>2
<1>7. ASSUME Apart(s) PROVE Nums(a) \cap Nums(b) = {} /\ Apart(b)
  <2>1. ASSUME NEW i \in DOMAIN a, NEW j \in DOMAIN b, a[i].n = b[j].n PROVE FALSE
    <3>1. i \in DOMAIN s /\ k + j \in DOMAIN s /\ s[i].n = s[k + j].n
      BY <1>4, <2>1
    <3>2. i = k + j
      BY <1>7, <3>1 DEF Apart
    <3>3. i \in 1 .. k /\ j \in 1 .. Len(s) - k
      BY <1>2, <1>3, <2>1
    <3> QED BY <1>1, <3>2, <3>3
  <2>2. ASSUME NEW i \in DOMAIN b, NEW j \in DOMAIN b, b[i].n = b[j].n PROVE i = j
    <3>1. k + i \in DOMAIN s /\ k + j \in DOMAIN s /\ s[k + i].n = s[k + j].n
      BY <1>4, <2>2
    <3>2. k + i = k + j
      BY <1>7, <3>1 DEF Apart
    <3>3. i \in 1 .. Len(s) - k /\ j \in 1 .. Len(s) - k
      BY <1>3, <2>2
    <3> QED BY <1>1, <3>2, <3>3
  <2>3. Nums(a) \cap Nums(b) = {}
    BY <2>1 DEF Nums
  <2> QED BY <2>2, <2>3 DEF Apart
<1> QED BY <1>1, <1>2, <1>3, <1>4, <1>6, <1>7

-----------------------------------------------------------------------------
(* What keeps results and calls together.                                  *)

\* A message that is no result and makes no call.
Plain(s) == \A i \in DOMAIN s : s[i].role # "tool" /\ s[i].calls = <<>>

\* A message's calls are a sequence of names.
LEMMA CallsAre ==
  ASSUME NEW s \in Seq(Message), NEW i \in DOMAIN s
  PROVE  s[i].calls \in Seq(Name)
<1>1. s[i] \in Message
  OBVIOUS
<1> QED BY <1>1 DEF Message

\* Such messages close, and a closed sequence stays so when they follow.
LEMMA ClosedPlain ==
  ASSUME NEW s \in Seq(Message), Closed(s), NEW t \in Seq(Message), Plain(t)
  PROVE  Closed(s \o t)
<1> DEFINE w == s \o t
<1>1. /\ Len(w) = Len(s) + Len(t) /\ Len(s) \in Nat /\ Len(t) \in Nat
      /\ DOMAIN s = 1 .. Len(s) /\ DOMAIN t = 1 .. Len(t)
      /\ \A i \in DOMAIN s : w[i] = s[i]
      /\ \A i \in DOMAIN t : w[Len(s) + i] = t[i]
      /\ \A i \in DOMAIN w :
           \/ i \in DOMAIN s
           \/ i - Len(s) \in DOMAIN t /\ i = Len(s) + (i - Len(s))
  BY Joined
<1> HIDE DEF w
<1>2. ASSUME NEW i \in DOMAIN s PROVE Answered(w, i) /\ Asked(w, i)
  <2>1. Answered(s, i) /\ Asked(s, i) /\ w[i] = s[i]
    BY <1>1 DEF Closed
  <2>2. s[i].calls \in Seq(Name)
    BY CallsAre
  <2>3. ASSUME NEW x \in DOMAIN s[i].calls
        PROVE  i + x <= Len(w) /\ w[i + x].role = "tool" /\ w[i + x].of = s[i].calls[x]
    <3>1. x \in Nat /\ x > 0
      BY <2>2
    <3>2. i + x <= Len(s) /\ s[i + x].role = "tool" /\ s[i + x].of = s[i].calls[x]
      BY <2>1 DEF Answered
    <3>3. i + x \in DOMAIN s /\ i + x <= Len(w)
      BY <1>1, <3>1, <3>2
    <3> QED BY <1>1, <3>2, <3>3
  <2>4. Answered(w, i)
    BY <2>1, <2>3 DEF Answered
  <2>5. \A j \in 1 .. i - 1 : w[j] = s[j]
    BY <1>1
  <2>6. Asked(w, i)
    BY <2>1, <2>5 DEF Asked
  <2> QED BY <2>4, <2>6
<1>3. ASSUME NEW i \in DOMAIN t PROVE Answered(w, Len(s) + i) /\ Asked(w, Len(s) + i)
  <2>1. w[Len(s) + i].role # "tool" /\ w[Len(s) + i].calls = <<>>
    BY <1>1 DEF Plain
  <2> QED BY <2>1 DEF Answered, Asked
<1>4. ASSUME NEW i \in DOMAIN w PROVE Answered(w, i) /\ Asked(w, i)
  BY <1>1, <1>2, <1>3
<1> QED BY <1>4 DEF Closed, w

\* A message with calls leaves the sequence open at its end.
LEMMA OpenAfter ==
  ASSUME NEW s \in Seq(Message), Closed(s), NEW m \in Message, m.role = "assistant"
  PROVE  Open(s \o <<m>>)
<1> DEFINE w == s \o <<m>>
<1>0. <<m>> \in Seq(Message) /\ Len(<<m>>) = 1 /\ DOMAIN <<m>> = 1 .. 1 /\ <<m>>[1] = m
  BY OneMessage
<1>1. /\ Len(w) = Len(s) + 1 /\ Len(s) \in Nat
      /\ DOMAIN s = 1 .. Len(s) /\ DOMAIN w = 1 .. Len(s) + 1
      /\ \A i \in DOMAIN s : w[i] = s[i]
      /\ w[Len(s) + 1] = m
  BY <1>0, Joined
<1> HIDE DEF w
<1>2. ASSUME NEW i \in DOMAIN s PROVE Answered(w, i) /\ Asked(w, i)
  <2>1. Answered(s, i) /\ Asked(s, i) /\ w[i] = s[i]
    BY <1>1 DEF Closed
  <2>2. s[i].calls \in Seq(Name)
    BY CallsAre
  <2>3. ASSUME NEW x \in DOMAIN s[i].calls
        PROVE  i + x <= Len(w) /\ w[i + x].role = "tool" /\ w[i + x].of = s[i].calls[x]
    <3>1. x \in Nat /\ x > 0
      BY <2>2
    <3>2. i + x <= Len(s) /\ s[i + x].role = "tool" /\ s[i + x].of = s[i].calls[x]
      BY <2>1 DEF Answered
    <3>3. i + x \in DOMAIN s /\ i + x <= Len(w)
      BY <1>1, <3>1, <3>2
    <3> QED BY <1>1, <3>2, <3>3
  <2>4. Answered(w, i)
    BY <2>1, <2>3 DEF Answered
  <2>5. \A j \in 1 .. i - 1 : w[j] = s[j]
    BY <1>1
  <2>6. Asked(w, i)
    BY <2>1, <2>5 DEF Asked
  <2> QED BY <2>4, <2>6
<1>3. Asked(w, Len(s) + 1)
  BY <1>1 DEF Asked
<1>4. ASSUME NEW i \in DOMAIN w PROVE (i # Len(w) => Answered(w, i)) /\ Asked(w, i)
  <2>1. i \in DOMAIN s \/ i = Len(s) + 1
    BY <1>1
  <2> QED BY <1>1, <1>2, <1>3, <2>1
<1> QED BY <1>4 DEF Open, w

\* The results of its calls close it.
LEMMA ClosedResults ==
  ASSUME NEW s \in Seq(Message), Open(s), s # <<>>, NEW r \in Seq(Message),
         DOMAIN r = DOMAIN s[Len(s)].calls,
         \A i \in DOMAIN r : /\ r[i].role = "tool" /\ r[i].calls = <<>>
                             /\ r[i].of = s[Len(s)].calls[i]
  PROVE  Closed(s \o r)
<1> DEFINE w == s \o r
<1>1. /\ Len(w) = Len(s) + Len(r) /\ Len(s) \in Nat /\ Len(r) \in Nat
      /\ DOMAIN s = 1 .. Len(s) /\ DOMAIN r = 1 .. Len(r)
      /\ \A i \in DOMAIN s : w[i] = s[i]
      /\ \A i \in DOMAIN r : w[Len(s) + i] = r[i]
      /\ \A i \in DOMAIN w :
           \/ i \in DOMAIN s
           \/ i - Len(s) \in DOMAIN r /\ i = Len(s) + (i - Len(s))
  BY Joined
<1>0. Len(s) \in DOMAIN s
  BY <1>1
<1> HIDE DEF w
<1>2. ASSUME NEW i \in DOMAIN s PROVE Answered(w, i) /\ Asked(w, i)
  <2>1. Asked(s, i) /\ w[i] = s[i]
    BY <1>1 DEF Open
  <2>2. s[i].calls \in Seq(Name)
    BY CallsAre
  <2>3. ASSUME i # Len(s), NEW x \in DOMAIN s[i].calls
        PROVE  i + x <= Len(w) /\ w[i + x].role = "tool" /\ w[i + x].of = s[i].calls[x]
    <3>1. x \in Nat /\ x > 0
      BY <2>2
    <3>2. i + x <= Len(s) /\ s[i + x].role = "tool" /\ s[i + x].of = s[i].calls[x]
      BY <2>3 DEF Answered, Open
    <3>3. i + x \in DOMAIN s /\ i + x <= Len(w)
      BY <1>1, <3>1, <3>2
    <3> QED BY <1>1, <3>2, <3>3
  <2>4. ASSUME i = Len(s), NEW x \in DOMAIN s[i].calls
        PROVE  i + x <= Len(w) /\ w[i + x].role = "tool" /\ w[i + x].of = s[i].calls[x]
    <3>1. x \in DOMAIN r /\ w[i + x] = r[x]
      BY <1>1, <2>4
    <3>2. i + x <= Len(w)
      BY <1>1, <2>4, <3>1
    <3> QED BY <2>4, <3>1, <3>2
  <2>5. Answered(w, i)
    BY <2>1, <2>3, <2>4 DEF Answered
  <2>6. \A j \in 1 .. i - 1 : w[j] = s[j]
    BY <1>1
  <2>7. Asked(w, i)
    BY <2>1, <2>6 DEF Asked
  <2> QED BY <2>5, <2>7
<1>3. ASSUME NEW i \in DOMAIN r PROVE Answered(w, Len(s) + i) /\ Asked(w, Len(s) + i)
  <2>1. w[Len(s) + i] = r[i]
    BY <1>1
  <2>2. Answered(w, Len(s) + i)
    BY <2>1 DEF Answered
  <2>3. /\ Len(s) \in 1 .. Len(s) + i - 1 /\ Len(s) + i - Len(s) = i
        /\ w[Len(s)] = s[Len(s)]
    BY <1>0, <1>1
  <2>4. i \in DOMAIN w[Len(s)].calls /\ w[Len(s) + i].of = w[Len(s)].calls[i]
    BY <2>1, <2>3
  <2>5. Asked(w, Len(s) + i)
    <3>1. PICK l, k : l = Len(s) /\ k = Len(s) + i
      OBVIOUS
    <3>2. l \in 1 .. k - 1 /\ k - l \in DOMAIN w[l].calls /\ w[k].of = w[l].calls[k - l]
      BY <2>3, <2>4, <3>1
    <3>3. Asked(w, k)
      BY <3>2 DEF Asked
    <3> QED BY <3>1, <3>3
  <2> QED BY <2>2, <2>5
<1>4. ASSUME NEW i \in DOMAIN w PROVE Answered(w, i) /\ Asked(w, i)
  BY <1>1, <1>2, <1>3
<1> QED BY <1>4 DEF Closed, w

\* What a save or a summary changes of a message has no part in it.
LEMMA ClosedSame ==
  ASSUME NEW s \in Seq(Message), Closed(s), NEW v, DOMAIN v = DOMAIN s, Len(v) = Len(s),
         \A i \in DOMAIN s : v[i].role = s[i].role /\ v[i].of = s[i].of /\ v[i].calls = s[i].calls
  PROVE  Closed(v)
<1>1. DOMAIN s = 1 .. Len(s) /\ Len(s) \in Nat
  OBVIOUS
<1>2. ASSUME NEW i \in DOMAIN s PROVE Answered(v, i)
  <2>1. s[i].calls \in Seq(Name)
    BY CallsAre
  <2>2. ASSUME NEW x \in DOMAIN s[i].calls
        PROVE  i + x <= Len(v) /\ v[i + x].role = "tool" /\ v[i + x].of = s[i].calls[x]
    <3>1. x \in Nat /\ x > 0
      BY <2>1
    <3>2. i + x <= Len(s) /\ s[i + x].role = "tool" /\ s[i + x].of = s[i].calls[x]
      BY DEF Answered, Closed
    <3>3. i + x \in DOMAIN s
      BY <1>1, <3>1, <3>2
    <3> QED BY <3>2, <3>3
  <2> QED BY <2>2 DEF Answered
<1>3. ASSUME NEW i \in DOMAIN s PROVE Asked(v, i)
  <2>1. \A j \in 1 .. i - 1 : j \in DOMAIN s
    BY <1>1
  <2> QED BY <2>1 DEF Asked, Closed
<1> QED BY <1>2, <1>3 DEF Closed

\* A cut that leaves no orphan leaves what it keeps closed: calls have names of their own.
LEMMA ClosedKept ==
  ASSUME UniqueIds = TRUE, NEW s \in Seq(Message), Closed(s), Apart(s), Made(s),
         NEW k \in 0 .. Len(s), k \in {0, Len(s)} \/ Orphans(s, k) = {},
         NEW b, b = Remaining(s, k)
  PROVE  Closed(b)
<1>1. /\ b \in Seq(Message) /\ Len(b) = Len(s) - k /\ DOMAIN b = 1 .. Len(s) - k
      /\ DOMAIN s = 1 .. Len(s) /\ Len(s) \in Nat /\ k \in Nat
      /\ \A i \in DOMAIN b : k + i \in DOMAIN s /\ b[i] = s[k + i]
  <2>1. PICK a : a = Folded(s, k)
    OBVIOUS
  <2> QED BY <2>1, CutFacts
<1>2. \A i \in DOMAIN s : s[i].calls \in Seq(Name)
  BY CallsAre
<1>3. ASSUME NEW i \in DOMAIN b PROVE Answered(b, i)
  <2>1. Answered(s, k + i) /\ b[i] = s[k + i] /\ b[i].calls \in Seq(Name)
    BY <1>1, <1>2 DEF Closed
  <2>2. ASSUME NEW x \in DOMAIN b[i].calls
        PROVE  i + x <= Len(b) /\ b[i + x].role = "tool" /\ b[i + x].of = b[i].calls[x]
    <3>1. x \in Nat /\ x > 0 /\ i \in Nat /\ i > 0
      BY <1>1, <2>1
    <3>2. (k + i) + x <= Len(s) /\ s[(k + i) + x].role = "tool" /\ s[(k + i) + x].of = b[i].calls[x]
      BY <2>1 DEF Answered
    <3>3. i + x \in 1 .. Len(s) - k /\ k + (i + x) = (k + i) + x /\ i + x <= Len(b)
      BY <1>1, <3>1, <3>2
    <3> QED BY <1>1, <3>2, <3>3
  <2> QED BY <2>2 DEF Answered
<1>4. ASSUME NEW j \in DOMAIN b, b[j].role = "tool"
      PROVE  \E i \in 1 .. j - 1 : j - i \in DOMAIN b[i].calls /\ b[j].of = b[i].calls[j - i]
  <2>1. k + j \in DOMAIN s /\ b[j] = s[k + j] /\ j \in Nat /\ j > 0 /\ k < Len(s)
    BY <1>1
  <2>2. PICK c \in 1 .. (k + j) - 1 :
          (k + j) - c \in DOMAIN s[c].calls /\ s[k + j].of = s[c].calls[(k + j) - c]
    BY <1>4, <2>1 DEF Closed, Asked
  <2>3. c \in DOMAIN s /\ c \in Nat /\ c > 0
    BY <1>1, <2>1
  <2>4. c > k
    <3> SUFFICES ASSUME ~(c > k) PROVE FALSE
      OBVIOUS
    <3>1. c \in 1 .. k /\ k # 0 /\ k # Len(s)
      BY <1>1, <2>1, <2>3
    <3>2. Orphans(s, k) = {}
      BY <3>1
    <3> DEFINE id == s[k + j].of
    <3>3. id \in ToSet(s[c].calls)
      BY <2>2 DEF ToSet
    <3>4. Makers(s, k, id) # {}
      BY <3>1, <3>3 DEF Makers
    <3>5. k + j \in k + 1 .. Len(s)
      BY <1>1, <2>1
    <3>6. id \in {s[i].of : i \in {l \in k + 1 .. Len(s) : s[l].role = "tool"}}
      BY <1>4, <2>1, <3>5
    <3>7. id \in CalledLater(s, k)
      BY <3>2, <3>4, <3>6 DEF Orphans
    <3>8. PICK d \in k + 1 .. Len(s) : id \in ToSet(s[d].calls)
      BY <3>7 DEF CalledLater
    <3>9. PICK x \in DOMAIN s[d].calls : id = s[d].calls[x]
      BY <3>8 DEF ToSet
    <3>10. d \in DOMAIN s
      BY <1>1, <3>8
    <3>11. id = <<s[d].n, x>>
      BY <3>9, <3>10 DEF Made, CallId
    <3>12. id = <<s[c].n, (k + j) - c>>
      BY <2>2, <2>3 DEF Made, CallId
    <3>13. s[d].n = s[c].n
      BY <3>11, <3>12
    <3>14. d = c
      BY <2>3, <3>10, <3>13 DEF Apart
    <3> QED BY <1>1, <3>1, <3>8, <3>14
  <2>5. PICK i \in Nat : c = k + i
    <3>1. k \in Nat /\ c \in Nat /\ c > k
      BY <1>1, <2>3, <2>4
    <3>2. \A m, n \in Nat : n > m => n - m \in Nat /\ n = m + (n - m)
      OBVIOUS
    <3> QED BY <3>1, <3>2
  <2>6. i \in 1 .. j - 1 /\ (k + j) - c = j - i /\ i \in DOMAIN b
    BY <1>1, <2>1, <2>2, <2>3, <2>4, <2>5
  <2>7. b[i] = s[c]
    BY <1>1, <2>5, <2>6
  <2> QED BY <2>1, <2>2, <2>6, <2>7
<1> QED BY <1>3, <1>4 DEF Closed, Asked

-----------------------------------------------------------------------------
(* Steps that fold, save and load.                                         *)

\* A compaction folds the first part.
LEMMA CompressStep ==
  ASSUME TalkInv, Compress
  PROVE  TalkInv'
<1>0. TalkTypes /\ Numbered /\ Whole /\ Stored /\ Timely
  BY DEF TalkInv
<1>1. PICK k \in 0 .. Len(working) :
        /\ working' = SubSeq(working, k + 1, Len(working))
        /\ fresh' = fresh \cup Nums(SubSeq(working, 1, k))
  BY DEF Compress
<1>2. /\ UNCHANGED <<state, disk, mode, cancelled, saved, restarts, mail, sealed, attempt, shown,
                     call, told, said>>
      /\ pc = "compress" /\ pc' = "commit"
  BY DEF Compress, SessionStays, Go, round
<1>a. PICK a : a = SubSeq(working, 1, k)
  OBVIOUS
<1>3. /\ working \in Seq(Message) /\ fresh \in SUBSET Nat /\ told \in Nat
  BY <1>0 DEF TalkTypes
<1>4. /\ a \in Seq(Message) /\ working' \in Seq(Message)
      /\ \A i \in DOMAIN a : i \in DOMAIN working /\ a[i] = working[i]
      /\ \A i \in DOMAIN working' : k + i \in DOMAIN working /\ working'[i] = working[k + i]
      /\ Nums(working) = Nums(a) \cup Nums(working')
      /\ Apart(working) => Nums(a) \cap Nums(working') = {} /\ Apart(working')
  <2>1. a = Folded(working, k) /\ working' = Remaining(working, k)
    BY <1>1, <1>a DEF Folded, Remaining
  <2>2. PICK b : b = working'
    OBVIOUS
  <2>3. k \in 0 .. Len(working) /\ b = Remaining(working, k)
    BY <2>1, <2>2
  <2>4. /\ a \in Seq(Message) /\ b \in Seq(Message)
        /\ \A i \in DOMAIN a : i \in DOMAIN working /\ a[i] = working[i]
        /\ \A i \in DOMAIN b : k + i \in DOMAIN working /\ b[i] = working[k + i]
        /\ Nums(working) = Nums(a) \cup Nums(b)
        /\ Apart(working) => Nums(a) \cap Nums(b) = {} /\ Apart(b)
    <3>1. PICK s \in Seq(Message) : s = working
      BY <1>3
    <3>2. k \in 0 .. Len(s) /\ a = Folded(s, k) /\ b = Remaining(s, k)
      BY <2>1, <2>3, <3>1
    <3>3. Nums(s) = Nums(a) \cup Nums(b)
      BY <3>2, CutFacts
    <3>4. a \in Seq(Message) /\ b \in Seq(Message)
      BY <3>2, CutFacts
    <3>5. \A i \in DOMAIN a : i \in DOMAIN s /\ a[i] = s[i]
      BY <3>2, CutFacts
    <3>6. \A i \in DOMAIN b : k + i \in DOMAIN s /\ b[i] = s[k + i]
      BY <3>2, CutFacts
    <3>7. Apart(s) => Nums(a) \cap Nums(b) = {} /\ Apart(b)
      BY <3>2, CutFacts
    <3> QED BY <3>1, <3>3, <3>4, <3>5, <3>6, <3>7
  <2> QED BY <2>2, <2>4
<1>5. fresh' = fresh \cup Nums(a)
  BY <1>1, <1>a
<1>6. \A n \in Nums(a) : n \in Nat /\ n <= told
  <2>1. \A m \in Message : m.n \in Nat
    BY DEF Message
  <2>2. \A i \in DOMAIN a : a[i] \in Message /\ a[i].n <= told
    BY <1>0, <1>3, <1>4 DEF Numbered, Upto
  <2> QED BY <2>1, <2>2 DEF Nums
<1>7. TalkTypes'
  <2>1. fresh' \in SUBSET Nat
    BY <1>3, <1>5, <1>6
  <2> QED BY <1>0, <1>2, <1>4, <2>1 DEF TalkTypes, Places
<1>8. Numbered'
  <2>1. Apart(working') /\ Upto(working', told)
    BY <1>0, <1>4 DEF Numbered, Upto
  <2>2. Made(working')
    BY <1>0, <1>4 DEF Numbered, Made
  <2>3. \A n \in state \cup fresh' \cup disk.state \cup said : n <= told
    BY <1>0, <1>5, <1>6 DEF Numbered
  <2> QED BY <1>0, <1>2, <2>1, <2>2, <2>3 DEF Numbered, Apart, Upto, Made, CallId
<1>9. Whole'
  <2>1. said \subseteq fresh' \cup Nums(working')
    BY <1>0, <1>4, <1>5 DEF Whole
  <2>2. fresh' \cap Nums(working') = {}
    BY <1>0, <1>4, <1>5 DEF Whole, Numbered
  <2>3. \A i \in DOMAIN working' :
      working'[i].n \in said => working'[i].text /\ working'[i].role # "tool"
    BY <1>0, <1>4 DEF Whole
  <2> QED BY <1>2, <2>1, <2>2, <2>3 DEF Whole, Nums
<1>10. Stored' /\ Timely' /\ Calling'
  BY <1>0, <1>2 DEF Stored, Timely, Calling, Saved, Nums
<1> QED BY <1>7, <1>8, <1>9, <1>10 DEF TalkInv

\* The state and the window, in one row.
LEMMA CommitStateStep ==
  ASSUME TalkInv, CommitState
  PROVE  TalkInv'
<1>0. TalkTypes /\ Numbered /\ Whole /\ Stored /\ Timely
  BY DEF TalkInv
<1> DEFINE row == RowOf(fresh, working)
<1>1. /\ state' = fresh /\ disk' \in {disk, row}
      /\ UNCHANGED <<working, fresh, mode, cancelled, mail, sealed, attempt, shown, call, told,
                     said, restarts>>
      /\ pc = "commit" /\ pc' \in {"idle", "recheck", "end"}
      /\ mode = "compact" => pc' = "idle" /\ (saved' = FALSE \/ (saved' = TRUE /\ disk' = row))
      /\ mode # "compact" => pc' \in {"recheck", "end"} /\ saved' = saved
  BY DEF CommitState, Go, round
<1>2. /\ working \in Seq(Message) /\ fresh \in SUBSET Nat
      /\ disk \in [state : SUBSET Nat, msgs : Seq(Message)] /\ saved \in BOOLEAN
  BY <1>0 DEF TalkTypes
<1>3. /\ row \in [state : SUBSET Nat, msgs : Seq(Message)]
      /\ row.state = fresh /\ Apart(row.msgs) /\ Upto(row.msgs, told)
      /\ \A i \in DOMAIN row.msgs : /\ row.msgs[i].text /\ row.msgs[i].role # "tool"
                                    /\ row.msgs[i].calls = <<>>
      /\ row.state \cap Nums(row.msgs) = {}
      /\ said \subseteq row.state \cup Nums(row.msgs)
  <2>1. row = RowOf(fresh, working)
    OBVIOUS
  <2> HIDE DEF row
  <2>2. \A n \in fresh : n <= told
    BY <1>0 DEF Numbered
  <2>3. Apart(working) /\ Upto(working, told)
    BY <1>0 DEF Numbered
  <2>4. /\ said \subseteq fresh \cup Nums(working) /\ fresh \cap Nums(working) = {}
        /\ \A i \in DOMAIN working :
             working[i].n \in said => working[i].text /\ working[i].role # "tool"
    BY <1>0 DEF Whole
  <2> QED BY <1>2, <2>1, <2>2, <2>3, <2>4, SavedRow
<1> HIDE DEF row
<1>4. TalkTypes'
  <2>1. disk' \in [state : SUBSET Nat, msgs : Seq(Message)]
    BY <1>1, <1>2, <1>3
  <2>2. saved' \in BOOLEAN
    BY <1>1, <1>2
  <2> QED BY <1>0, <1>1, <2>1, <2>2 DEF TalkTypes, Places
<1>5. Numbered'
  <2>1. Apart(disk'.msgs) /\ Upto(disk'.msgs, told)
    BY <1>0, <1>1, <1>3 DEF Numbered
  <2>2. disk'.state \subseteq disk.state \cup fresh
    BY <1>1, <1>3
  <2>3. \A n \in state' \cup fresh \cup disk'.state \cup said : n <= told
    BY <1>0, <1>1, <2>2 DEF Numbered
  <2> QED BY <1>0, <1>1, <2>1, <2>3 DEF Numbered, Apart, Upto, Made, CallId
<1>6. Whole'
  BY <1>0, <1>1 DEF Whole, Nums
<1>7. disk' = row => said \subseteq Saved'
  BY <1>3 DEF Saved, Nums
<1>8. Stored'
  <2>1. CASE disk' = disk
    BY <1>0, <1>1, <2>1 DEF Stored, Saved, Nums
  <2>2. CASE disk' = row
    <3>1. disk'.state \cap Nums(disk'.msgs) = {}
      BY <1>3, <2>2
    <3> QED BY <1>1, <1>3, <1>7, <2>2, <3>1 DEF Stored, Nums
  <2> QED BY <1>1, <2>1, <2>2
<1>9. Timely' /\ Calling'
  BY <1>0, <1>1, <1>7 DEF Timely, Calling
<1> QED BY <1>4, <1>5, <1>6, <1>8, <1>9 DEF TalkInv

\* What a run leaves behind.
LEMMA EndStep ==
  ASSUME TalkInv, End
  PROVE  TalkInv'
<1>0. TalkTypes /\ Numbered /\ Whole /\ Stored /\ Timely
  BY DEF TalkInv
<1> DEFINE row == RowOf(state, working')
<1>1. /\ UNCHANGED <<state, fresh, attempt, shown, call, told, said, restarts>>
      /\ pc = "end" /\ pc' = "idle" /\ mode' = "run" /\ cancelled' = FALSE /\ mail' = 0
      /\ sealed' = TRUE
      /\ (disk' = row /\ saved' = TRUE) \/ (disk' = disk /\ saved' = FALSE)
      /\ working' = Summarized(working) \/ working' = working
  BY DEF End, Go, round
<1>2. /\ working \in Seq(Message) /\ fresh \in SUBSET Nat /\ state \in SUBSET Nat
      /\ disk \in [state : SUBSET Nat, msgs : Seq(Message)] /\ fresh = state
  BY <1>0, <1>1 DEF TalkTypes, Timely
<1>3. /\ working' \in Seq(Message) /\ DOMAIN working' = DOMAIN working
      /\ \A i \in DOMAIN working : /\ working'[i].n = working[i].n
                                   /\ working'[i].role = working[i].role
                                   /\ working'[i].calls = working[i].calls
                                   /\ working[i].text => working'[i].text
  <2>1. CASE working' = working
    BY <1>2, <2>1
  <2>2. CASE working' = Summarized(working)
    BY <1>2, <2>2, SummarizedFacts
  <2> QED BY <1>1, <2>1, <2>2
<1>4. Nums(working') = Nums(working)
  BY <1>3 DEF Nums
<1>5. Apart(working') /\ Upto(working', told) /\ Made(working')
  <2>1. Apart(working')
    BY <1>0, <1>3 DEF Numbered, Apart
  <2>2. Upto(working', told)
    BY <1>0, <1>3 DEF Numbered, Upto
  <2>3. Made(working')
    BY <1>0, <1>3 DEF Numbered, Made
  <2> QED BY <2>1, <2>2, <2>3
<1>6. /\ said \subseteq state \cup Nums(working') /\ state \cap Nums(working') = {}
      /\ \A i \in DOMAIN working' :
           working'[i].n \in said => working'[i].text /\ working'[i].role # "tool"
  BY <1>0, <1>2, <1>3, <1>4 DEF Whole
<1>7. /\ row \in [state : SUBSET Nat, msgs : Seq(Message)]
      /\ row.state = state /\ Apart(row.msgs) /\ Upto(row.msgs, told)
      /\ \A i \in DOMAIN row.msgs : /\ row.msgs[i].text /\ row.msgs[i].role # "tool"
                                    /\ row.msgs[i].calls = <<>>
      /\ row.state \cap Nums(row.msgs) = {}
      /\ said \subseteq row.state \cup Nums(row.msgs)
  <2>1. row = RowOf(state, working')
    OBVIOUS
  <2> HIDE DEF row
  <2>2. \A n \in state : n <= told
    BY <1>0 DEF Numbered
  <2>3. PICK w : w = working'
    OBVIOUS
  <2> QED BY <1>2, <1>3, <1>5, <1>6, <2>1, <2>2, <2>3, SavedRow
<1> HIDE DEF row
<1>8. TalkTypes'
  <2>1. disk' \in [state : SUBSET Nat, msgs : Seq(Message)]
    BY <1>1, <1>2, <1>7
  <2>2. saved' \in BOOLEAN /\ mail' \in Nat
    BY <1>1
  <2> QED BY <1>0, <1>1, <1>3, <2>1, <2>2 DEF TalkTypes, Places
<1>9. Numbered'
  <2>1. Apart(disk'.msgs) /\ Upto(disk'.msgs, told)
    BY <1>0, <1>1, <1>7 DEF Numbered
  <2>2. disk'.state \subseteq disk.state \cup state
    BY <1>1, <1>7
  <2>3. \A n \in state \cup fresh \cup disk'.state \cup said : n <= told
    BY <1>0, <2>2 DEF Numbered
  <2> QED BY <1>1, <1>5, <2>1, <2>3 DEF Numbered, Apart, Upto, Made, CallId
<1>10. Whole'
  BY <1>1, <1>2, <1>6 DEF Whole, Nums
<1>11. disk' = row => said \subseteq Saved'
  BY <1>7 DEF Saved, Nums
<1>12. Stored'
  <2>1. CASE disk' = disk
    BY <1>0, <1>1, <2>1 DEF Stored, Saved, Nums
  <2>2. CASE disk' = row
    <3>1. disk'.state \cap Nums(disk'.msgs) = {}
      BY <1>7, <2>2
    <3> QED BY <1>1, <1>7, <1>11, <2>2, <3>1 DEF Stored, Nums
  <2> QED BY <1>1, <2>1, <2>2
<1>13. Timely' /\ Calling'
  BY <1>1, <1>2, <1>11 DEF Timely, Calling
<1> QED BY <1>8, <1>9, <1>10, <1>12, <1>13 DEF TalkInv

\* What the next process finds.
LEMMA RestartStep ==
  ASSUME TalkInv, Restart
  PROVE  TalkInv'
<1>0. TalkTypes /\ Numbered /\ Stored
  BY DEF TalkInv
<1>1. /\ working' = disk.msgs /\ state' = disk.state /\ fresh' = disk.state
      /\ said' = said \cap Saved /\ restarts' = restarts + 1
      /\ pc' = "idle" /\ mode' = "run" /\ mail' = 0 /\ sealed' = TRUE /\ cancelled' = FALSE
      /\ attempt' = 0 /\ shown' = {} /\ call' = <<>> /\ saved' = TRUE
      /\ UNCHANGED <<disk, told>>
  BY DEF Restart, Leave, Saved
<1>2. /\ disk \in [state : SUBSET Nat, msgs : Seq(Message)] /\ said \in SUBSET Nat
      /\ disk.state \in SUBSET Nat /\ disk.msgs \in Seq(Message) /\ restarts \in Nat /\ told \in Nat
  BY <1>0 DEF TalkTypes
<1>3. TalkTypes'
  <2>1. /\ <<>> \in Seq(CallState) /\ said' \in SUBSET Nat /\ {} \in SUBSET Nat /\ restarts' \in Nat
        /\ mail' \in Nat /\ attempt' \in Nat
    <3>1. said' \in SUBSET Nat
      BY <1>1, <1>2
    <3>2. restarts' \in Nat /\ mail' \in Nat /\ attempt' \in Nat
      BY <1>1, <1>2
    <3> QED BY <3>1, <3>2
  <2> QED BY <1>1, <1>2, <2>1 DEF TalkTypes, Places
<1>4. Numbered'
  <2>1. Made(disk.msgs)
    BY <1>0 DEF Stored, Made
  <2>2. \A n \in disk.state \cup said : n <= told
    BY <1>0 DEF Numbered
  <2> QED BY <1>0, <1>1, <2>1, <2>2 DEF Numbered, Apart, Upto, Made, CallId
<1>5. Saved' = Saved
  BY <1>1 DEF Saved, Nums
<1>6. Whole'
  <2>1. said' \subseteq disk.state \cup Nums(disk.msgs)
    BY <1>1 DEF Saved
  <2> QED BY <1>0, <1>1, <2>1 DEF Whole, Stored, Nums
<1>7. Stored'
  BY <1>0, <1>1, <1>5 DEF Stored, Nums
<1>8. Timely' /\ Calling'
  BY <1>1, <1>5 DEF Timely, Calling
<1> QED BY <1>3, <1>4, <1>6, <1>7, <1>8 DEF TalkInv

-----------------------------------------------------------------------------
(* Every step.                                                             *)

\* The steps, by what they do to the messages.
LEMMA TalkCases ==
  ASSUME [ConversationNext]_conversationVars
  PROVE  \/ Quiet \/ Run \/ Top \/ Steer \/ FinalAnswer \/ CallingAnswer
         \/ Results \/ Compress \/ CommitState \/ End \/ Restart
BY DEF ConversationNext, Rounds, Quiet

\* Every step keeps the invariant.
LEMMA TalkNext ==
  ASSUME TalkInv, [ConversationNext]_conversationVars
  PROVE  TalkInv'
BY TalkCases, QuietStep, RunStep, SteerStep, FinalStep, CallingStep, ResultsStep, CompressStep,
   CommitStateStep, EndStep, RestartStep

\* It holds at the beginning, when nothing has been said.
LEMMA TalkBegins ==
  ASSUME ConversationInit
  PROVE  TalkInv /\ Pairs
<1>1. /\ working = <<>> /\ state = {} /\ fresh = {} /\ disk = [state |-> {}, msgs |-> <<>>]
      /\ pc = "idle" /\ mode = "run" /\ cancelled = FALSE /\ mail = 0 /\ sealed = TRUE
      /\ attempt = 0 /\ shown = {} /\ call = <<>>
      /\ told = 0 /\ said = {} /\ saved = TRUE /\ restarts = 0
  BY DEF ConversationInit
<1>2. <<>> \in Seq(Message) /\ <<>> \in Seq(CallState) /\ {} \in SUBSET Nat /\ DOMAIN <<>> = {}
  OBVIOUS
<1>3. TalkTypes
  <2>1. disk \in [state : SUBSET Nat, msgs : Seq(Message)]
    BY <1>1, <1>2
  <2> QED BY <1>1, <1>2, <2>1 DEF TalkTypes, Places
<1>4. Numbered
  BY <1>1, <1>2 DEF Numbered, Apart, Upto, Made
<1>5. Whole /\ Stored /\ Timely /\ Calling
  BY <1>1, <1>2 DEF Whole, Stored, Timely, Calling, Saved, Nums
<1>6. Pairs
  BY <1>1, <1>2 DEF Pairs, Closed
<1> QED BY <1>3, <1>4, <1>5, <1>6 DEF TalkInv

\* A compaction keeps calls and results together.
LEMMA CompressPairs ==
  ASSUME UniqueIds = TRUE, TalkInv, Pairs, Compress
  PROVE  Pairs'
<1>1. PICK k \in 0 .. Len(working) :
        k \in KeepStarts(working, fresh) /\ working' = Remaining(working, k)
  BY DEF Compress, Remaining
<1>2. pc = "compress" /\ pc' = "commit"
  BY DEF Compress, Go
<1>3. PICK s \in Seq(Message) : s = working
  BY DEF TalkInv, TalkTypes
<1>4. Apart(s) /\ Made(s) /\ Closed(s) /\ Len(s) \in Nat
  BY <1>2, <1>3 DEF TalkInv, Numbered, Pairs
<1>5. k \in {0, Len(s)} \/ Orphans(s, k) = {}
  <2>1. k \in KeepStarts(s, fresh)
    BY <1>1, <1>3
  <2>2. CASE Len(s) = 1
    <3>1. k \in {0, 1}
      BY <2>1, <2>2 DEF KeepStarts
    <3> QED BY <2>2, <3>1
  <2>3. CASE Len(s) # 1
    <3>1. PICK i \in 1 .. Len(s) - 1 : k = ExpandRecentStart(s, i)
      BY <2>1, <2>3 DEF KeepStarts
    <3>2. i \in 0 .. Len(s)
      BY <1>4
    <3> QED BY <1>4, <3>1, <3>2, ExpandFacts
  <2> QED BY <2>2, <2>3
<1>6. k \in 0 .. Len(s)
  BY <1>1, <1>3
<1>7. PICK b : b = Remaining(s, k)
  OBVIOUS
<1>8. Closed(b)
  BY <1>4, <1>5, <1>6, <1>7, ClosedKept
<1>9. working' = b
  BY <1>1, <1>3, <1>7
<1> QED BY <1>2, <1>8, <1>9 DEF Pairs

\* So does every other step.
LEMMA PairsStep ==
  ASSUME UniqueIds = TRUE, TalkInv, Pairs, [ConversationNext]_conversationVars
  PROVE  Pairs'
<1>1. working \in Seq(Message) /\ disk.msgs \in Seq(Message)
  BY DEF TalkInv, TalkTypes
<1>2. ASSUME pc # "tools", pc' # "tools",
             \/ UNCHANGED working
             \/ \E t \in Seq(Message) : /\ working' = working \o t
                                        /\ \A i \in DOMAIN t :
                                             t[i].role # "tool" /\ t[i].calls = <<>>
      PROVE  Pairs'
  <2>1. Closed(working)
    BY <1>2 DEF Pairs
  <2>2. Closed(working')
    <3>1. CASE UNCHANGED working
      BY <2>1, <3>1
    <3>2. ASSUME NEW t \in Seq(Message), working' = working \o t,
                 \A i \in DOMAIN t : t[i].role # "tool" /\ t[i].calls = <<>>
          PROVE  Closed(working')
      BY <1>1, <2>1, <3>2, ClosedPlain DEF Plain
    <3> QED BY <1>2, <3>1, <3>2
  <2> QED BY <1>2, <2>2 DEF Pairs
<1>3. CASE Run
  BY <1>2, <1>3, RunStep
<1>4. CASE Top \/ Steer
  BY <1>2, <1>4, SteerStep
<1>5. CASE FinalAnswer
  BY <1>2, <1>5, FinalStep
<1>6. CASE CallingAnswer
  <2>1. pc = "stream" /\ pc' = "tools"
    BY <1>6, CallingStep
  <2>2. PICK m \in Message : working' = working \o <<m>> /\ m.role = "assistant"
    BY <1>6, CallingStep
  <2>3. Closed(working)
    BY <2>1 DEF Pairs
  <2>4. Open(working')
    BY <1>1, <2>2, <2>3, OpenAfter
  <2> QED BY <2>1, <2>4 DEF Pairs
<1>7. CASE Results
  <2>1. pc = "tools" /\ pc' = "top" /\ working # <<>>
    BY <1>7, ResultsStep DEF TalkInv, Calling
  <2>2. PICK r \in Seq(Message), t \in Seq(Message) :
           /\ working' = working \o (r \o t)
           /\ DOMAIN r = DOMAIN working[Len(working)].calls
           /\ \A i \in DOMAIN r : /\ r[i].role = "tool" /\ r[i].calls = <<>>
                                  /\ r[i].of = working[Len(working)].calls[i]
           /\ \A i \in DOMAIN t : t[i].role # "tool" /\ t[i].calls = <<>>
    BY <1>7, ResultsStep
  <2>3. Open(working)
    BY <2>1 DEF Pairs
  <2>4. Closed(working \o r)
    BY <1>1, <2>1, <2>2, <2>3, ClosedResults
  <2>5. working \o r \in Seq(Message) /\ working' = (working \o r) \o t
    BY <1>1, <2>2, Joined, ConcatAssociative
  <2>6. Closed((working \o r) \o t)
    BY <2>2, <2>4, <2>5, ClosedPlain DEF Plain
  <2> QED BY <2>1, <2>5, <2>6 DEF Pairs
<1>8. CASE CommitState
  <2>1. pc = "commit" /\ pc' # "tools" /\ UNCHANGED working
    BY <1>8 DEF CommitState, Go
  <2> QED BY <1>2, <2>1
<1>9. CASE End
  <2>1. /\ pc = "end" /\ pc' = "idle"
        /\ working' = Summarized(working) \/ UNCHANGED working
    BY <1>9 DEF End, Go
  <2>2. CASE UNCHANGED working
    BY <1>2, <2>1, <2>2
  <2>3. CASE working' = Summarized(working)
    <3>1. PICK v : v = Summarized(working)
      OBVIOUS
    <3>2. /\ DOMAIN v = DOMAIN working /\ Len(v) = Len(working)
          /\ \A i \in DOMAIN working : /\ v[i].role = working[i].role /\ v[i].of = working[i].of
                                       /\ v[i].calls = working[i].calls
      BY <1>1, <3>1, SummarizedFacts
    <3>3. Closed(v)
      BY <1>1, <2>1, <3>2, ClosedSame DEF Pairs
    <3> QED BY <2>1, <2>3, <3>1, <3>3 DEF Pairs
  <2> QED BY <2>1, <2>2, <2>3
<1>10. CASE Restart
  <2>1. pc' = "idle" /\ working' = disk.msgs
    BY <1>10 DEF Restart
  <2>2. \A i \in DOMAIN disk.msgs : disk.msgs[i].role # "tool" /\ disk.msgs[i].calls = <<>>
    BY DEF TalkInv, Stored
  <2>3. Closed(disk.msgs)
    BY <2>2 DEF Closed, Answered, Asked
  <2> QED BY <2>1, <2>3 DEF Pairs
<1> QED BY <1>3, <1>4, <1>5, <1>6, <1>7, <1>8, <1>9, <1>10, TalkCases, QuietStep, CompressPairs

-----------------------------------------------------------------------------
(* What holds of every conversation.                                       *)

\* The invariant: types; messages told apart by their numbers; what was said in the
\* state or the window; a row without a hole; the session's state and the run's agree
\* outside of a commit; calls are those of the last message.
THEOREM TalkCorrect == ConversationSpec => []TalkInv
<1>1. ConversationInit => TalkInv
  BY TalkBegins
<1>2. TalkInv /\ [ConversationNext]_conversationVars => TalkInv'
  BY TalkNext
<1> QED BY <1>1, <1>2, PTL DEF ConversationSpec

\* The model is told everything that was said, once, in the state or in the window,
\* whatever a compaction, a save or a restart does.
THEOREM ForgottenCorrect == ConversationSpec => []NothingForgotten
<1>1. TalkInv => NothingForgotten
  BY DEF TalkInv, Whole, Timely, NothingForgotten, Current
<1> QED BY <1>1, TalkCorrect, PTL

\* Whenever the process may end, the row it would be restored from has no hole, and
\* after a save that went well it has everything.
THEOREM RowCorrect == ConversationSpec => []RowHasNoHole
<1>1. TalkInv => RowHasNoHole
  BY DEF TalkInv, Stored, Timely, Saved, RowHasNoHole
<1> QED BY <1>1, TalkCorrect, PTL

\* When the provider names every call, each request keeps every result behind its call
\* and every call before all of its results.  Without names it fails: a second round's
\* first call has the name of the first round's.
THEOREM PairedCorrect == ASSUME UniqueIds = TRUE PROVE ConversationSpec => []RequestIsPaired
<1>1. ConversationInit => TalkInv /\ Pairs
  BY TalkBegins
<1>2. TalkInv /\ Pairs /\ [ConversationNext]_conversationVars => TalkInv' /\ Pairs'
  BY TalkNext, PairsStep
<1>3. TalkInv /\ Pairs => RequestIsPaired
  <2> SUFFICES ASSUME TalkInv, Pairs, pc = "stream" PROVE RequestIsPaired
    BY DEF RequestIsPaired
  <2>1. PICK s \in Seq(Message) : s = working
    BY DEF TalkInv, TalkTypes
  <2>2. Closed(s) /\ DOMAIN s = 1 .. Len(s) /\ Len(s) \in Nat
    BY <2>1 DEF Pairs
  <2>3. ASSUME NEW j \in DOMAIN s, s[j].role = "tool"
        PROVE  \E i \in 1 .. j - 1 : /\ s[j].of \in ToSet(s[i].calls)
                                     /\ \A m \in i + 1 .. j : s[m].role = "tool"
    <3>1. PICK i \in 1 .. j - 1 : j - i \in DOMAIN s[i].calls /\ s[j].of = s[i].calls[j - i]
      BY <2>2, <2>3 DEF Closed, Asked
    <3>2. i \in DOMAIN s
      BY <2>2
    <3>3. s[i].calls \in Seq(Name)
      BY <3>2, CallsAre
    <3>4. ASSUME NEW m \in i + 1 .. j PROVE s[m].role = "tool"
      <4>1. m - i \in DOMAIN s[i].calls
        <5>1. m - i \in 1 .. j - i
          BY <2>2
        <5>2. PICK l \in Nat : l = Len(s[i].calls) /\ DOMAIN s[i].calls = 1 .. l
          BY <3>3
        <5>3. j - i <= l
          BY <3>1, <5>2
        <5> QED BY <2>2, <5>1, <5>2, <5>3
      <4>2. s[i + (m - i)].role = "tool"
        BY <2>2, <3>2, <4>1 DEF Closed, Answered
      <4>3. i + (m - i) = m
        BY <2>2
      <4> QED BY <4>2, <4>3
    <3>5. s[j].of \in ToSet(s[i].calls)
      BY <3>1 DEF ToSet
    <3> QED BY <3>4, <3>5
  <2>4. ASSUME NEW i \in DOMAIN s, NEW x \in DOMAIN s[i].calls
        PROVE  i + x <= Len(s) /\ s[i + x].of = s[i].calls[x]
    BY <2>2 DEF Closed, Answered
  <2> QED BY <2>1, <2>3, <2>4 DEF RequestIsPaired
<1> QED BY <1>1, <1>2, <1>3, PTL DEF ConversationSpec

=============================================================================
