--------------------------- MODULE SteeringProofs ---------------------------
(***************************************************************************)
(* Proofs about Steering, for any number of connections, runs, messages    *)
(* and tools: the mailbox decides every message of a run that ends, in     *)
(* order and once (it implements MessageFate), a request never reaches the *)
(* mailbox of another run, and the types.                                  *)
(***************************************************************************)
EXTENDS Steering, SequenceTheorems, FiniteSetTheorems, WellFoundedInduction, TLAPS

-----------------------------------------------------------------------------
(* The mailbox as a record.                                                *)

\* The messages of the queue are distinct, queued, and in order.
Sorted(b) == \A i, j \in 1 .. Len(b.items) : i < j => b.number[b.items[i]] < b.number[b.items[j]]
Holding(b) == \A i \in 1 .. Len(b.items) : b.state[b.items[i]] = "queued"
Complete(b) == \A m \in Msgs : b.state[m] = "queued" => \E i \in 1 .. Len(b.items) : b.items[i] = m

MailOK(b) ==
  /\ b \in Mailboxes
  /\ Holding(b) /\ Complete(b) /\ Sorted(b)
  /\ \A m \in Msgs : b.number[m] <= b.next
  /\ b.sealed => b.items = <<>>

\* No two places of the queue hold the same message.
LEMMA DistinctItems ==
  ASSUME NEW b, MailOK(b), NEW i \in 1 .. Len(b.items), NEW j \in 1 .. Len(b.items),
         b.items[i] = b.items[j]
  PROVE  i = j
<1> DEFINE k == b.number[b.items[i]]
<1>1. b.items \in Seq(Msgs) /\ b.number \in [Msgs -> Nat]
  BY DEF MailOK, Mailboxes
<1>2. Len(b.items) \in Nat /\ b.items[i] \in Msgs
  BY <1>1, LenProperties, ElementOfSeq
<1>3. k \in Nat
  BY <1>1, <1>2
<1>4. ~(k < k)
  BY <1>3
<1>5. (i < j => k < k) /\ (j < i => k < k)
  BY DEF MailOK, Sorted
<1>6. i \in Int /\ j \in Int
  BY <1>2
<1> QED BY <1>4, <1>5, <1>6

\* A new mailbox is in order.
LEMMA NewMailboxOK == MailOK(NewMailbox)
<1>1. <<>> \in Seq(Msgs) /\ Len(<<>>) = 0
  BY EmptySeq
<1>2. NewMailbox \in Mailboxes
  BY <1>1 DEF NewMailbox, Mailboxes
<1> QED BY <1>1, <1>2 DEF MailOK, NewMailbox, Holding, Complete, Sorted

\* RemoveAt takes one element out and keeps the others in order.
LEMMA RemoveAtProperties ==
  ASSUME NEW S, NEW s \in Seq(S), NEW i \in 1 .. Len(s)
  PROVE  /\ RemoveAt(s, i) \in Seq(S)
         /\ Len(RemoveAt(s, i)) = Len(s) - 1
         /\ \A k \in 1 .. Len(s) - 1 : RemoveAt(s, i)[k] = IF k < i THEN s[k] ELSE s[k + 1]
<1> DEFINE front == SubSeq(s, 1, i - 1)
           back == SubSeq(s, i + 1, Len(s))
<1>1. Len(s) \in Nat /\ i \in Nat /\ 1 <= i /\ i <= Len(s) /\ \A k \in 1 .. Len(s) : s[k] \in S
  BY LenProperties, ElementOfSeq
<1>2. front \in Seq(S) /\ Len(front) = i - 1 /\ \A k \in 1 .. i - 1 : front[k] = s[k]
  <2>1. 1 \in Int /\ i - 1 \in Int /\ \A k \in 1 .. i - 1 : s[k] \in S
    BY <1>1
  <2>2. /\ front \in Seq(S) /\ Len(front) = IF 1 <= i - 1 THEN i - 1 - 1 + 1 ELSE 0
        /\ \A k \in 1 .. i - 1 - 1 + 1 : front[k] = s[1 + k - 1]
    BY <2>1, SubSeqProperties
  <2> HIDE DEF front
  <2> QED BY <1>1, <2>2
<1>3. /\ back \in Seq(S) /\ Len(back) = Len(s) - i
      /\ \A k \in 1 .. Len(s) - i : back[k] = s[i + k]
  <2>1. i + 1 \in Int /\ Len(s) \in Int /\ \A k \in i + 1 .. Len(s) : s[k] \in S
    BY <1>1
  <2>2. /\ back \in Seq(S) /\ Len(back) = IF i + 1 <= Len(s) THEN Len(s) - (i + 1) + 1 ELSE 0
        /\ \A k \in 1 .. Len(s) - (i + 1) + 1 : back[k] = s[i + 1 + k - 1]
    BY <2>1, SubSeqProperties
  <2> HIDE DEF back
  <2> QED BY <1>1, <2>2
<1>4. RemoveAt(s, i) = front \o back
  BY DEF RemoveAt
<1> HIDE DEF front, back
<1>5. /\ front \o back \in Seq(S) /\ Len(front \o back) = Len(front) + Len(back)
      /\ \A k \in 1 .. Len(front) + Len(back) :
           (front \o back)[k] = IF k <= Len(front) THEN front[k] ELSE back[k - Len(front)]
  BY <1>2, <1>3, ConcatProperties
<1>6. Len(front) + Len(back) = Len(s) - 1
  BY <1>1, <1>2, <1>3
<1>7. ASSUME NEW k \in 1 .. Len(s) - 1
      PROVE  (front \o back)[k] = IF k < i THEN s[k] ELSE s[k + 1]
  <2>1. CASE k < i
    BY <1>1, <1>2, <1>5, <1>6, <2>1
  <2>2. CASE ~(k < i)
    <3>1. k - (i - 1) \in 1 .. Len(s) - i /\ ~(k <= i - 1) /\ i + (k - (i - 1)) = k + 1
      BY <1>1, <2>2
    <3> QED BY <1>2, <1>3, <1>5, <1>6, <2>2, <3>1
  <2> QED BY <2>1, <2>2
<1> QED BY <1>4, <1>5, <1>6, <1>7

\* Accepting a message keeps the mailbox in order: it goes behind the others, numbered above them.
LEMMA EnqueuedOK ==
  ASSUME NEW b, MailOK(b), NEW m \in Msgs, NEW s \in Nat, b.state[m] = "none", ~b.sealed
  PROVE  /\ MailOK(Enqueued(b, m, s))
         /\ Enqueued(b, m, s).interactions = b.interactions
         /\ Enqueued(b, m, s).sealed = b.sealed
         /\ Enqueued(b, m, s).state = [b.state EXCEPT ![m] = "queued"]
         /\ Enqueued(b, m, s).number = [b.number EXCEPT ![m] = b.next + 1]
<1> DEFINE q == b.items
           e == Enqueued(b, m, s)
           n == Len(q)
<1>1. /\ q \in Seq(Msgs) /\ b.state \in [Msgs -> {"none", "queued", "applied", "removed", "rejected"}]
      /\ b.number \in [Msgs -> Nat] /\ b.size \in [Msgs -> Nat] /\ b.next \in Nat /\ b.bytes \in Nat
      /\ b.sealed \in BOOLEAN /\ b.interactions \in Nat
  BY DEF MailOK, Mailboxes
<1>2. /\ e.sealed = b.sealed /\ e.interactions = b.interactions
      /\ e.items = Append(q, m) /\ e.state = [b.state EXCEPT ![m] = "queued"]
      /\ e.size = [b.size EXCEPT ![m] = s] /\ e.number = [b.number EXCEPT ![m] = b.next + 1]
      /\ e.bytes = b.bytes + s /\ e.next = b.next + 1
  <2>1. b \in Mailboxes
    BY DEF MailOK
  <2>2. e.sealed = b.sealed /\ e.interactions = b.interactions
    BY <2>1 DEF Enqueued, Mailboxes
  <2>3. e.items = Append(q, m)
    BY <2>1 DEF Enqueued, Mailboxes
  <2>4. e.state = [b.state EXCEPT ![m] = "queued"]
    BY <2>1 DEF Enqueued, Mailboxes
  <2>5. e.size = [b.size EXCEPT ![m] = s]
    BY <2>1 DEF Enqueued, Mailboxes
  <2>6. e.number = [b.number EXCEPT ![m] = b.next + 1]
    BY <2>1 DEF Enqueued, Mailboxes
  <2>7. e.bytes = b.bytes + s /\ e.next = b.next + 1
    BY <2>1 DEF Enqueued, Mailboxes
  <2> QED BY <2>2, <2>3, <2>4, <2>5, <2>6, <2>7
<1>3. /\ e.items \in Seq(Msgs) /\ Len(e.items) = n + 1 /\ n \in Nat
      /\ \A i \in 1 .. n : e.items[i] = q[i] /\ q[i] \in Msgs
      /\ e.items[n + 1] = m
  <2>1. n \in Nat /\ \A i \in 1 .. n : q[i] \in Msgs
    BY <1>1, LenProperties, ElementOfSeq
  <2>2. /\ Append(q, m) \in Seq(Msgs) /\ Len(Append(q, m)) = n + 1
        /\ \A i \in 1 .. n : Append(q, m)[i] = q[i]
        /\ Append(q, m)[n + 1] = m
    BY <1>1, AppendProperties
  <2>3. e.items = Append(q, m)
    BY <1>2
  <2> HIDE DEF e, q
  <2> QED BY <2>1, <2>2, <2>3
<1>4. /\ e.state[m] = "queued" /\ e.number[m] = b.next + 1
      /\ \A k \in Msgs : k # m => e.state[k] = b.state[k] /\ e.number[k] = b.number[k]
  BY <1>1, <1>2
<1>5. e.state \in [Msgs -> {"none", "queued", "applied", "removed", "rejected"}]
  BY <1>1, <1>2
<1>6. e.number \in [Msgs -> Nat] /\ e.size \in [Msgs -> Nat] /\ e.next \in Nat /\ e.bytes \in Nat
  BY <1>1, <1>2
<1>7. e \in Mailboxes
  <2>1. b \in Mailboxes
    BY DEF MailOK
  <2>2. Append(q, m) \in Seq(Msgs)
    BY <1>1, AppendProperties
  <2>3. [b.state EXCEPT ![m] = "queued"] \in [Msgs -> {"none", "queued", "applied", "removed", "rejected"}]
    BY <1>1
  <2>4. [b.size EXCEPT ![m] = s] \in [Msgs -> Nat] /\ [b.number EXCEPT ![m] = b.next + 1] \in [Msgs -> Nat]
    BY <1>1
  <2>5. b.next + 1 \in Nat /\ b.bytes + s \in Nat
    BY <1>1
  <2> QED BY <2>1, <2>2, <2>3, <2>4, <2>5 DEF Mailboxes, Enqueued
<1>8. \A i \in 1 .. n : q[i] # m
  BY DEF MailOK, Holding
<1> HIDE DEF e
<1>9. Holding(e)
  <2> SUFFICES ASSUME NEW i \in 1 .. n + 1 PROVE e.state[e.items[i]] = "queued"
    BY <1>3 DEF Holding
  <2>1. CASE i = n + 1
    BY <1>3, <1>4, <2>1
  <2>2. CASE i # n + 1
    <3>1. i \in 1 .. n
      BY <1>3, <2>2
    <3>2. e.items[i] = q[i] /\ q[i] \in Msgs /\ q[i] # m /\ b.state[q[i]] = "queued"
      BY <1>3, <1>8, <3>1 DEF MailOK, Holding
    <3> QED BY <1>4, <3>2
  <2> QED BY <2>1, <2>2
<1>10. Complete(e)
  <2> SUFFICES ASSUME NEW k \in Msgs, e.state[k] = "queued"
               PROVE  \E i \in 1 .. Len(e.items) : e.items[i] = k
    BY DEF Complete
  <2>1. CASE k = m
    BY <1>3, <2>1
  <2>2. CASE k # m
    <3>1. PICK i \in 1 .. n : q[i] = k
      BY <1>4, <2>2 DEF MailOK, Complete
    <3> QED BY <1>3, <3>1
  <2> QED BY <2>1, <2>2
<1>11. Sorted(e)
  <2> SUFFICES ASSUME NEW i \in 1 .. n + 1, NEW j \in 1 .. n + 1, i < j
               PROVE  e.number[e.items[i]] < e.number[e.items[j]]
    BY <1>3 DEF Sorted
  <2>1. i \in 1 .. n
    BY <1>3
  <2>2. e.number[e.items[i]] = b.number[q[i]] /\ b.number[q[i]] <= b.next /\ b.number[q[i]] \in Nat
    <3>1. e.items[i] = q[i] /\ q[i] \in Msgs /\ q[i] # m
      BY <1>3, <1>8, <2>1
    <3>2. b.number[q[i]] <= b.next /\ b.number[q[i]] \in Nat
      BY <1>1, <3>1 DEF MailOK
    <3> QED BY <1>4, <3>1, <3>2
  <2>3. CASE j = n + 1
    <3>1. e.number[e.items[j]] = b.next + 1
      BY <1>3, <1>4, <2>3
    <3> QED BY <1>1, <2>2, <3>1
  <2>4. CASE j \in 1 .. n
    <3>0. e.items[j] = q[j] /\ q[j] \in Msgs /\ q[j] # m
      BY <1>3, <1>8, <2>4
    <3>1. e.number[e.items[j]] = b.number[q[j]]
      BY <1>4, <3>0
    <3>2. b.number[q[i]] < b.number[q[j]]
      BY <2>1, <2>4 DEF MailOK, Sorted
    <3> QED BY <2>2, <3>1, <3>2
  <2> QED BY <1>3, <2>3, <2>4
<1>12. \A k \in Msgs : e.number[k] <= e.next
  <2> SUFFICES ASSUME NEW k \in Msgs PROVE e.number[k] <= e.next
    OBVIOUS
  <2>1. b.number[k] <= b.next /\ b.number[k] \in Nat
    BY <1>1 DEF MailOK
  <2> QED BY <1>1, <1>2, <1>4, <2>1
<1>13. MailOK(e)
  BY <1>2, <1>7, <1>9, <1>10, <1>11, <1>12 DEF MailOK
<1> QED BY <1>2, <1>13 DEF e

\* What the queue holds is what is queued.
LEMMA QueueIsQueued ==
  ASSUME NEW b, MailOK(b)
  PROVE  \A m \in Msgs : m \in ToSet(b.items) <=> b.state[m] = "queued"
<1>1. b.items \in Seq(Msgs)
  BY DEF MailOK, Mailboxes
<1>2. ToSet(b.items) = {b.items[i] : i \in 1 .. Len(b.items)}
  BY <1>1, LenProperties DEF ToSet
<1> QED BY <1>2 DEF MailOK, Holding, Complete

\* A mailbox with a new count of interactions.
LEMMA InteractionsOK ==
  ASSUME NEW b, MailOK(b), NEW n \in Nat
  PROVE  LET e == [b EXCEPT !.interactions = n] IN
         /\ MailOK(e) /\ e.interactions = n /\ e.items = b.items /\ e.state = b.state
         /\ e.number = b.number /\ e.sealed = b.sealed
<1> DEFINE e == [b EXCEPT !.interactions = n]
<1>1. b \in Mailboxes
  BY DEF MailOK
<1>2. /\ e.interactions = n /\ e.items = b.items /\ e.state = b.state
      /\ e.number = b.number /\ e.sealed = b.sealed /\ e.next = b.next
  BY <1>1 DEF Mailboxes
<1>3. e \in Mailboxes
  BY <1>1 DEF Mailboxes
<1> HIDE DEF e
<1>4. MailOK(e)
  BY <1>2, <1>3 DEF MailOK, Holding, Complete, Sorted
<1> QED BY <1>2, <1>4 DEF e

\* An emptied mailbox whose messages all became f, sealed or not.
LEMMA EmptiedOK ==
  ASSUME NEW b, MailOK(b), NEW f \in {"applied", "rejected"}, NEW x \in BOOLEAN
  PROVE  LET e == [b EXCEPT !.items = <<>>, !.sealed = x, !.state = Decided(b, f)] IN
         /\ MailOK(e) /\ e.interactions = b.interactions /\ e.items = <<>> /\ e.sealed = x
         /\ e.number = b.number
         /\ e.state = [m \in Msgs |-> IF b.state[m] = "queued" THEN f ELSE b.state[m]]
<1> DEFINE e == [b EXCEPT !.items = <<>>, !.sealed = x, !.state = Decided(b, f)]
           st == [m \in Msgs |-> IF b.state[m] = "queued" THEN f ELSE b.state[m]]
<1>1. b \in Mailboxes
  BY DEF MailOK
<1>2. Decided(b, f) = st
  BY QueueIsQueued DEF Decided
<1>3. b.state \in [Msgs -> {"none", "queued", "applied", "removed", "rejected"}]
  BY <1>1 DEF Mailboxes
<1>4. st \in [Msgs -> {"none", "queued", "applied", "removed", "rejected"}]
  BY <1>3
<1>5. \A m \in Msgs : st[m] # "queued"
  OBVIOUS
<1> HIDE DEF st
<1>6. e = [b EXCEPT !.items = <<>>, !.sealed = x, !.state = st]
  BY <1>2
<1>7. /\ e.interactions = b.interactions /\ e.items = <<>> /\ e.sealed = x
      /\ e.number = b.number /\ e.state = st /\ e.next = b.next
  BY <1>1, <1>6 DEF Mailboxes
<1>8. <<>> \in Seq(Msgs) /\ Len(<<>>) = 0
  BY EmptySeq
<1>9. e \in Mailboxes
  BY <1>1, <1>4, <1>6, <1>8 DEF Mailboxes
<1> HIDE DEF e
<1>10. Holding(e) /\ Complete(e) /\ Sorted(e)
  BY <1>5, <1>7, <1>8 DEF Holding, Complete, Sorted
<1>11. MailOK(e)
  BY <1>7, <1>9, <1>10 DEF MailOK
<1> QED BY <1>7, <1>11 DEF e, st

\* Taking the queue keeps the mailbox in order, and applies exactly the queued messages.
LEMMA TakenOK ==
  ASSUME NEW b, MailOK(b), NEW seal \in BOOLEAN
  PROVE  /\ MailOK(Taken(b, seal)) /\ Taken(b, seal).items = <<>>
         /\ Taken(b, seal).interactions = b.interactions
         /\ Taken(b, seal).number = b.number
         /\ b.items = <<>> => /\ Taken(b, seal).state = b.state
                              /\ Taken(b, seal).sealed = (b.sealed \/ seal)
         /\ b.items # <<>> =>
              /\ Taken(b, seal).sealed = FALSE
              /\ Taken(b, seal).state = [m \in Msgs |-> IF b.state[m] = "queued" THEN "applied"
                                                          ELSE b.state[m]]
         /\ b.sealed => Taken(b, seal).sealed
<1>1. b \in Mailboxes /\ b.sealed \in BOOLEAN
  BY DEF MailOK, Mailboxes
<1>2. CASE b.items = <<>>
  <2> DEFINE x == b.sealed \/ seal
             e == [b EXCEPT !.sealed = x]
  <2>1. Taken(b, seal) = e
    BY <1>1, <1>2 DEF Taken, Mailboxes
  <2>2. x \in BOOLEAN
    BY <1>1
  <2> HIDE DEF x
  <2>3. /\ e.items = <<>> /\ e.interactions = b.interactions /\ e.number = b.number
        /\ e.state = b.state /\ e.sealed = x /\ e.next = b.next
    BY <1>1, <1>2 DEF Mailboxes
  <2>4. e \in Mailboxes
    BY <1>1, <2>2 DEF Mailboxes
  <2> HIDE DEF e
  <2>5. MailOK(e)
    BY <1>2, <2>3, <2>4 DEF MailOK, Holding, Complete, Sorted
  <2> QED BY <1>2, <2>1, <2>3, <2>5 DEF x
<1>3. CASE b.items # <<>>
  <2>1. b.sealed = FALSE
    BY <1>1, <1>3 DEF MailOK
  <2>2. Taken(b, seal) = [b EXCEPT !.items = <<>>, !.sealed = FALSE, !.state = Decided(b, "applied")]
    BY <1>1, <1>3, <2>1 DEF Taken, Mailboxes
  <2> DEFINE e == [b EXCEPT !.items = <<>>, !.sealed = FALSE, !.state = Decided(b, "applied")]
             st == [m \in Msgs |-> IF b.state[m] = "queued" THEN "applied" ELSE b.state[m]]
  <2>3. /\ MailOK(e) /\ e.interactions = b.interactions /\ e.items = <<>> /\ e.sealed = FALSE
        /\ e.number = b.number /\ e.state = st
    BY EmptiedOK
  <2> HIDE DEF e, st
  <2>4. Taken(b, seal) = e
    BY <2>2 DEF e
  <2>5. /\ MailOK(Taken(b, seal)) /\ Taken(b, seal).items = <<>>
        /\ Taken(b, seal).interactions = b.interactions
        /\ Taken(b, seal).number = b.number
        /\ Taken(b, seal).sealed = FALSE /\ Taken(b, seal).state = st
    BY <2>3, <2>4
  <2> QED BY <1>3, <2>1, <2>5 DEF st
<1> QED BY <1>2, <1>3

\* Rejecting keeps the mailbox in order, seals it, and rejects exactly the queued messages.
LEMMA RejectedAllOK ==
  ASSUME NEW b, MailOK(b)
  PROVE  /\ MailOK(RejectedAll(b)) /\ RejectedAll(b).items = <<>>
         /\ RejectedAll(b).interactions = b.interactions
         /\ RejectedAll(b).number = b.number /\ RejectedAll(b).sealed = TRUE
         /\ RejectedAll(b).state = [m \in Msgs |-> IF b.state[m] = "queued" THEN "rejected"
                                                     ELSE b.state[m]]
BY EmptiedOK DEF RejectedAll

\* Withdrawing one message keeps the mailbox in order and changes no other message.
LEMMA RemovedOK ==
  ASSUME NEW b, MailOK(b), NEW p \in 1 .. Len(b.items)
  PROVE  /\ MailOK(Removed(b, p))
         /\ Removed(b, p).interactions = b.interactions
         /\ Removed(b, p).sealed = b.sealed
         /\ Removed(b, p).state = [b.state EXCEPT ![b.items[p]] = "removed"]
         /\ Removed(b, p).number = b.number
<1> DEFINE q == b.items
           n == Len(q)
           m == q[p]
           e == Removed(b, p)
<1>1. /\ q \in Seq(Msgs) /\ n \in Nat /\ m \in Msgs
      /\ b.state \in [Msgs -> {"none", "queued", "applied", "removed", "rejected"}]
  BY LenProperties, ElementOfSeq DEF MailOK, Mailboxes
<1>2. /\ RemoveAt(q, p) \in Seq(Msgs) /\ Len(RemoveAt(q, p)) = n - 1
      /\ \A k \in 1 .. n - 1 : RemoveAt(q, p)[k] = IF k < p THEN q[k] ELSE q[k + 1]
  BY <1>1, RemoveAtProperties
<1>3. /\ e.items = RemoveAt(q, p) /\ e.state = [b.state EXCEPT ![m] = "removed"]
      /\ e.interactions = b.interactions /\ e.sealed = b.sealed /\ e.number = b.number
      /\ e.next = b.next
  <2>1. b \in Mailboxes
    BY DEF MailOK
  <2>2. e.items = RemoveAt(q, p)
    BY <2>1 DEF Removed, Mailboxes
  <2>3. e.state = [b.state EXCEPT ![m] = "removed"]
    BY <2>1 DEF Removed, Mailboxes
  <2>4. /\ e.interactions = b.interactions /\ e.sealed = b.sealed /\ e.number = b.number
        /\ e.next = b.next
    BY <2>1 DEF Removed, Mailboxes
  <2> QED BY <2>2, <2>3, <2>4
<1>4. e \in Mailboxes
  <2>1. b \in Mailboxes
    BY DEF MailOK
  <2>2. [b.state EXCEPT ![m] = "removed"] \in [Msgs -> {"none", "queued", "applied", "removed", "rejected"}]
    BY <1>1
  <2> QED BY <1>2, <2>1, <2>2 DEF Mailboxes, Removed
<1>5. e.state[m] = "removed" /\ \A k \in Msgs : k # m => e.state[k] = b.state[k]
  BY <1>1, <1>3
\* Where the remaining messages were before.
<1>6. \A k \in 1 .. n - 1 :
        \E j \in 1 .. n : j # p /\ e.items[k] = q[j] /\ j = IF k < p THEN k ELSE k + 1
  <2> SUFFICES ASSUME NEW k \in 1 .. n - 1
               PROVE  \E j \in 1 .. n : j # p /\ e.items[k] = q[j] /\ j = IF k < p THEN k ELSE k + 1
    OBVIOUS
  <2>1. e.items[k] = IF k < p THEN q[k] ELSE q[k + 1]
    BY <1>2, <1>3
  <2> HIDE DEF e, q, m
  <2>2. k \in 1 .. n /\ k + 1 \in 1 .. n /\ p \in Nat
    BY <1>1 DEF q
  <2> QED BY <2>1, <2>2
<1>7. Len(e.items) = n - 1
  BY <1>2, <1>3
<1>8. \A j \in 1 .. n : j # p => q[j] # m /\ q[j] \in Msgs /\ b.state[q[j]] = "queued"
  BY <1>1, DistinctItems, LenProperties, ElementOfSeq DEF MailOK, Mailboxes, Holding
<1> HIDE DEF e
<1>9. Holding(e)
  <2> SUFFICES ASSUME NEW k \in 1 .. n - 1 PROVE e.state[e.items[k]] = "queued"
    BY <1>7 DEF Holding
  <2>1. PICK j \in 1 .. n : j # p /\ e.items[k] = q[j]
    BY <1>6
  <2> QED BY <1>5, <1>8, <2>1
<1>10. Complete(e)
  <2> SUFFICES ASSUME NEW k \in Msgs, e.state[k] = "queued"
               PROVE  \E i \in 1 .. n - 1 : e.items[i] = k
    BY <1>7 DEF Complete
  <2>1. k # m /\ b.state[k] = "queued"
    BY <1>5
  <2>2. PICK j \in 1 .. n : q[j] = k
    BY <2>1 DEF MailOK, Complete
  <2>3. j # p
    BY <2>1, <2>2
  <2>4. CASE j < p
    <3>1. j \in 1 .. n - 1
      BY <1>1, <2>4
    <3> QED BY <1>2, <1>3, <2>2, <2>4, <3>1
  <2>5. CASE j > p
    <3>1. j - 1 \in 1 .. n - 1 /\ ~(j - 1 < p) /\ j - 1 + 1 = j
      BY <1>1, <2>5
    <3>2. RemoveAt(q, p)[j - 1] = q[j]
      BY <1>2, <3>1
    <3> QED BY <1>3, <2>2, <3>1, <3>2
  <2> QED BY <1>1, <2>3, <2>4, <2>5
<1>11. Sorted(e)
  <2> SUFFICES ASSUME NEW i \in 1 .. n - 1, NEW j \in 1 .. n - 1, i < j
               PROVE  e.number[e.items[i]] < e.number[e.items[j]]
    BY <1>7 DEF Sorted
  <2>1. PICK i2 \in 1 .. n : e.items[i] = q[i2] /\ i2 = IF i < p THEN i ELSE i + 1
    BY <1>6
  <2>2. PICK j2 \in 1 .. n : e.items[j] = q[j2] /\ j2 = IF j < p THEN j ELSE j + 1
    BY <1>6
  <2>3. i2 < j2
    BY <1>1, <2>1, <2>2
  <2>4. b.number[q[i2]] < b.number[q[j2]]
    BY <2>3 DEF MailOK, Sorted
  <2> QED BY <1>3, <2>1, <2>2, <2>4
<1>12. e.sealed => e.items = <<>>
  <2>1. CASE b.sealed
    <3>1. q = <<>>
      BY <2>1 DEF MailOK
    <3>2. n = 0
      BY <3>1, EmptySeq
    <3> QED BY <1>1, <3>2
  <2> QED BY <1>3, <2>1
<1>13. MailOK(e)
  BY <1>3, <1>4, <1>9, <1>10, <1>11, <1>12 DEF MailOK
<1> QED BY <1>3, <1>13 DEF e

-----------------------------------------------------------------------------
(* Types of everything but the mailboxes, which need more than their type. *)

Sess == [run : Runs \cup {NoRun}, owner : Conns \cup {NoConn},
         cancelling : BOOLEAN, waiting : BOOLEAN]
Reqs == [pc : {"ready", "prepare", "start", "cancel", "load", "act"},
         op : {"steer", "remove"}, run : Runs \cup {NoRun},
         msg : Msgs \cup {NoMsg}, size : Sizes \cup {0}, pointer : Runs \cup {NoRun}]
PCs == {"none", "reserved", "refused"} \cup Working \cup Ended

TypeInv ==
  /\ session \in Sess
  /\ steering \in Runs \cup {NoRun}
  /\ runMu \in Runs \cup {NoRun}
  /\ work \in [Runs -> PCs]
  /\ slot \in [Runs -> [Slots -> {"run", "begun", "asking", "ended"}]]
  /\ stopped \subseteq Runs
  /\ batches \in [Runs -> 0 .. MaxBatches]
  /\ applied \in [Runs -> Seq(Msgs)]
  /\ seen \in [Runs -> Nat]
  /\ events \in [Runs -> Seq({"ask", "busy"})]
  /\ req \in [Conns -> Reqs]
  /\ budget \in 0 .. MaxRequests

BoxType == box \in [Runs -> Mailboxes]

\* The type invariant in two parts, for the mailboxes are proved separately.
LEMMA TypeOKParts == TypeOK <=> TypeInv /\ BoxType
BY DEF TypeOK, TypeInv, BoxType, Sess, Reqs, PCs

\* No run is numbered zero.
LEMMA NoRunNotIn == NoRun \notin Runs
BY SteeringAssumption DEF NoRun, Runs

\* The initial request record is well typed.
LEMMA ReadyType == Ready \in Reqs
BY DEF Ready, Reqs

\* The idle session record is well typed.
LEMMA IdleType == Idle \in Sess
BY DEF Idle, Sess

\* The program counters the actions use.
LEMMA GotoType ==
  ASSUME TypeInv, NEW r \in Runs, NEW pc \in PCs, Goto(r, pc)
  PROVE  work' \in [Runs -> PCs]
BY DEF TypeInv, Goto

\* Sending an event keeps the queues of events well typed.
LEMMA TellType ==
  ASSUME TypeInv, NEW r \in Runs, NEW type \in {"ask", "busy"}, Tell(r, type)
  PROVE  events' \in [Runs -> Seq({"ask", "busy"})]
<1>1. events[r] \in Seq({"ask", "busy"})
  BY DEF TypeInv
<1>2. Append(events[r], type) \in Seq({"ask", "busy"})
  BY <1>1, AppendProperties
<1> QED BY <1>2 DEF TypeInv, Tell

\* Ending a request keeps the requests well typed.
LEMMA ReturnType ==
  ASSUME TypeInv, NEW c \in Conns, Return(c)
  PROVE  req' \in [Conns -> Reqs] /\ budget' \in 0 .. MaxRequests
BY ReadyType DEF TypeInv, Return

\* Starting a request keeps the budget within its bound.
LEMMA RequestType ==
  ASSUME TypeInv, NEW c \in Conns, Request(c)
  PROVE  budget' \in 0 .. MaxRequests
BY SteeringAssumption DEF TypeInv, Request

\* Taking the queue keeps the working memories well typed.
LEMMA TakeType ==
  ASSUME TypeInv, BoxType, NEW r \in Runs, NEW seal, Take(r, seal)
  PROVE  applied' \in [Runs -> Seq(Msgs)]
<1>1. applied[r] \in Seq(Msgs) /\ box[r].items \in Seq(Msgs)
  BY DEF TypeInv, BoxType, Mailboxes
<1>2. applied[r] \o box[r].items \in Seq(Msgs)
  BY <1>1, ConcatProperties
<1> QED BY <1>2 DEF TypeInv, Take

\* Moving a request on keeps the requests well typed.
LEMMA ReqPcType ==
  ASSUME TypeInv, NEW c \in Conns,
         NEW pc \in {"ready", "prepare", "start", "cancel", "load", "act"}
  PROVE  [req EXCEPT ![c].pc = pc] \in [Conns -> Reqs]
<1>1. req \in [Conns -> Reqs] /\ req[c] \in Reqs
  BY DEF TypeInv
<1>2. [req[c] EXCEPT !.pc = pc] \in Reqs
  BY <1>1 DEF Reqs
<1>3. [req EXCEPT ![c].pc = pc] = [req EXCEPT ![c] = [req[c] EXCEPT !.pc = pc]]
  BY <1>1
<1> HIDE DEF Reqs
<1> QED BY <1>1, <1>2, <1>3

\* The clients' steps keep the types.
LEMMA ClientType ==
  ASSUME TypeInv, NEW c \in Conns, ClientStarts(c) \/ ClientContinues(c)
  PROVE  TypeInv'
<1>1. CASE BeginRun(c)
  <2>1. PICK r \in Runs :
          /\ session' = [Idle EXCEPT !.run = r, !.owner = c]
          /\ Goto(r, "reserved")
          /\ req' = [req EXCEPT ![c] = [Ready EXCEPT !.pc = "prepare", !.run = r]]
    BY <1>1 DEF BeginRun
  <2>2. [Idle EXCEPT !.run = r, !.owner = c] \in Sess
    BY DEF Idle, Sess
  <2>3. [Ready EXCEPT !.pc = "prepare", !.run = r] \in Reqs
    BY DEF Ready, Reqs
  <2>4. work' \in [Runs -> PCs]
    BY <2>1, GotoType DEF PCs
  <2>5. budget' \in 0 .. MaxRequests
    BY <1>1, RequestType DEF BeginRun
  <2> HIDE DEF Sess, Reqs, PCs
  <2> QED BY <1>1, <2>1, <2>2, <2>3, <2>4, <2>5 DEF BeginRun, TypeInv
<1>2. CASE PrepareSteering(c)
  <2>1. req[c].run \in Runs \cup {NoRun} /\ req' \in [Conns -> Reqs]
    <3>1. req[c] \in Reqs
      BY DEF TypeInv
    <3> QED BY <1>2, <3>1, ReqPcType DEF PrepareSteering, Reqs
  <2> QED BY <1>2, <2>1 DEF PrepareSteering, TypeInv, agentVars
<1>3. CASE StartAgent(c)
  <2> DEFINE r == req[c].run
  <2>1. r \in Runs \cup {NoRun}
    BY DEF TypeInv, Reqs
  <2>2. work' \in [Runs -> PCs] /\ runMu' \in Runs \cup {NoRun} /\ steering' \in Runs \cup {NoRun}
    BY <1>3, <2>1 DEF StartAgent, TypeInv, PCs, Working, Goto
  <2> QED BY <1>3, <2>2, ReturnType DEF StartAgent, TypeInv
<1>4. CASE MarkCancelling(c)
  <2>1. session' \in Sess /\ req' \in [Conns -> Reqs]
    <3>1. session \in Sess
      BY DEF TypeInv
    <3>2. [session EXCEPT !.cancelling = TRUE] \in Sess
      BY <3>1 DEF Sess
    <3> QED BY <1>4, <3>2, ReqPcType DEF MarkCancelling
  <2> QED BY <1>4, <2>1, RequestType DEF MarkCancelling, TypeInv, agentVars
<1>5. CASE CancelAgent(c)
  BY <1>5, ReturnType DEF CancelAgent, TypeInv, agentVars
<1>6. CASE HandOff(c)
  <2>1. session' \in Sess
    BY <1>6 DEF HandOff, TypeInv, Sess
  <2> QED BY <1>6, <2>1, RequestType DEF HandOff, TypeInv, agentVars
<1>7. ASSUME NEW op \in {"steer", "remove"}, SteerableRun(c, op) PROVE TypeInv'
  <2>1. PICK m \in Msgs, s \in Sizes \cup {0} :
          req' = [req EXCEPT ![c] = [pc |-> "load", op |-> op, run |-> session.run,
                                     msg |-> m, size |-> s, pointer |-> NoRun]]
    BY <1>7 DEF SteerableRun
  <2>2. session.run \in Runs \cup {NoRun}
    BY DEF TypeInv, Sess
  <2>3. req' \in [Conns -> Reqs]
    BY <2>1, <2>2 DEF TypeInv, Reqs
  <2> QED BY <1>7, <2>3, RequestType DEF SteerableRun, TypeInv, agentVars
<1>8. CASE LoadMailbox(c)
  <2>1. req' \in [Conns -> Reqs]
    <3> DEFINE e == [req[c] EXCEPT !.pc = "act", !.pointer = steering]
    <3>1. req[c] \in Reqs /\ req \in [Conns -> Reqs] /\ steering \in Runs \cup {NoRun}
      BY DEF TypeInv
    <3>2. e \in Reqs
      BY <3>1 DEF Reqs
    <3>3. req' = [req EXCEPT ![c] = e]
      BY <1>8, <3>1 DEF LoadMailbox
    <3> HIDE DEF e
    <3> QED BY <3>1, <3>2, <3>3
  <2> QED BY <1>8, <2>1 DEF LoadMailbox, TypeInv, agentVars
<1>9. CASE EnqueueSteering(c)
  BY <1>9, ReturnType DEF EnqueueSteering, TypeInv, agentVars
<1>10. CASE RemoveSteering(c)
  BY <1>10, ReturnType DEF RemoveSteering, TypeInv, agentVars
<1> QED
  BY <1>1, <1>2, <1>3, <1>4, <1>5, <1>6, <1>7, <1>8, <1>9, <1>10
  DEF ClientStarts, ClientContinues

\* The steps of a run and of its event loop keep the types.
LEMMA RunType ==
  ASSUME TypeInv, BoxType, NEW r \in Runs, AgentProceeds(r) \/ AgentChooses(r) \/ EventLoop(r)
  PROVE  TypeInv'
<1> USE DEF PCs, Working, Ended, WorkAt
<1>1. CASE TakeAtTop(r)
  BY <1>1, TakeType, GotoType DEF TakeAtTop, TypeInv
<1>2. CASE TakeBeforeRequest(r)
  BY <1>2, TakeType, GotoType DEF TakeBeforeRequest, TypeInv
<1>3. CASE CallModel(r)
  <2>1. Len(applied[r]) \in Nat
    BY LenProperties DEF TypeInv
  <2>2. seen' \in [Runs -> Nat]
    BY <1>3, <2>1 DEF CallModel, TypeInv
  <2> QED BY <1>3, <2>2, GotoType, TellType DEF CallModel, TypeInv
<1>4. CASE TakeAtEnd(r)
  BY <1>4, TakeType, GotoType DEF TakeAtEnd, TypeInv
<1>5. CASE ToolsDone(r)
  BY <1>5, TakeType, GotoType DEF ToolsDone, TypeInv
<1>6. ASSUME NEW i \in Slots, Ask(r, i) PROVE TypeInv'
  <2>1. slot' \in [Runs -> [Slots -> {"run", "begun", "asking", "ended"}]]
    BY <1>6 DEF Ask, TypeInv
  <2> QED BY <1>6, <2>1, TellType DEF Ask, TypeInv
<1>7. ASSUME NEW i \in Slots, ToolEnds(r, i) PROVE TypeInv'
  <2>1. slot' \in [Runs -> [Slots -> {"run", "begun", "asking", "ended"}]]
    BY <1>7 DEF ToolEnds, TypeInv
  <2> QED BY <1>7, <2>1 DEF ToolEnds, TypeInv
<1>8. CASE ModelAnswers(r)
  BY <1>8, GotoType DEF ModelAnswers, TypeInv
<1>9. CASE Fail(r)
  BY <1>9, GotoType DEF Fail, TypeInv
<1>10. CASE RejectPending(r)
  BY <1>10, GotoType DEF RejectPending, TypeInv
<1>11. CASE FinishRun(r)
  BY <1>11, GotoType DEF FinishRun, TypeInv
<1>12. CASE CloseEvents(r)
  BY <1>12, GotoType DEF CloseEvents, TypeInv
<1>13. CASE UnlockRun(r)
  BY <1>13, GotoType DEF UnlockRun, TypeInv
<1>14. CASE Compact(r)
  BY <1>14, GotoType, TellType DEF Compact, TypeInv
<1>15. CASE CallTools(r)
  <2>1. slot' \in [Runs -> [Slots -> {"run", "begun", "asking", "ended"}]]
    BY <1>15 DEF CallTools, TypeInv
  <2>2. batches' \in [Runs -> 0 .. MaxBatches]
    BY <1>15, SteeringAssumption DEF CallTools, TypeInv
  <2> QED BY <1>15, <2>1, <2>2, GotoType DEF CallTools, TypeInv
<1>16. ASSUME NEW i \in Slots, BeginInteraction(r, i) PROVE TypeInv'
  <2>1. slot' \in [Runs -> [Slots -> {"run", "begun", "asking", "ended"}]]
    BY <1>16 DEF BeginInteraction, TypeInv
  <2> QED BY <1>16, <2>1 DEF BeginInteraction, TypeInv
<1>17. ASSUME NEW i \in Slots, FinishInteraction(r, i) PROVE TypeInv'
  <2>1. slot' \in [Runs -> [Slots -> {"run", "begun", "asking", "ended"}]]
    BY <1>17 DEF FinishInteraction, TypeInv
  <2> QED BY <1>17, <2>1 DEF FinishInteraction, TypeInv
<1>18. CASE Receive(r)
  <2>1. events[r] \in Seq({"ask", "busy"}) /\ events[r] # <<>>
    BY <1>18 DEF Receive, TypeInv
  <2>2. Tail(events[r]) \in Seq({"ask", "busy"})
    BY <2>1, HeadTailProperties
  <2>3. events' \in [Runs -> Seq({"ask", "busy"})]
    BY <1>18, <2>2 DEF Receive, TypeInv
  <2>4. session' \in Sess
    <3> DEFINE w == Head(events[r]) = "ask"
    <3>1. session \in Sess /\ w \in BOOLEAN /\ session' = [session EXCEPT !.waiting = w]
      BY <1>18 DEF Receive, TypeInv
    <3> HIDE DEF w
    <3>2. [session EXCEPT !.waiting = w] \in Sess
      BY <3>1 DEF Sess
    <3> QED BY <3>1, <3>2
  <2> QED BY <1>18, <2>3, <2>4 DEF Receive, TypeInv
<1>19. CASE SetIdle(r)
  BY <1>19, IdleType DEF SetIdle, TypeInv, agentVars
<1> QED
  BY <1>1, <1>2, <1>3, <1>4, <1>5, <1>6, <1>7, <1>8, <1>9, <1>10, <1>11, <1>12, <1>13, <1>14,
     <1>15, <1>16, <1>17, <1>18, <1>19
  DEF AgentProceeds, AgentChooses, EventLoop

\* Every step keeps the types.
LEMMA TypeStep == TypeInv /\ BoxType /\ [Next]_vars => TypeInv'
<1>1. TypeInv /\ UNCHANGED vars => TypeInv'
  BY DEF TypeInv, vars
<1> QED BY <1>1, ClientType, RunType DEF Next

-----------------------------------------------------------------------------
(* Who is in charge: the request that begins a run, the run that works.    *)

Busy == Working \cup {"done", "failed"}

\* A run that is begun is reserved for the one request that begins it, which
\* owns the session; the mailbox pointer is that run's once it is prepared.
Turn ==
  /\ session.run # NoRun => work[session.run] # "none"
  /\ \A c \in Conns :
       /\ req[c].pc \in {"prepare", "start"} =>
            /\ req[c].run \in Runs /\ session.run = req[c].run /\ session.owner = c
            /\ work[req[c].run] = "reserved"
       /\ req[c].pc = "start" => steering = req[c].run

\* A run that works is the session's, and the agent points at its mailbox.
Points == \A r \in Runs : work[r] \in Busy => steering = r /\ session.run = r

\* A request for a mailbox names a run that was prepared before.
Late ==
  \A c \in Conns : req[c].pc \in {"load", "act"} =>
    /\ req[c].run \in Runs /\ work[req[c].run] # "none" /\ req[c].msg \in Msgs
    /\ \A d \in Conns : req[d].pc = "prepare" => req[d].run # req[c].run

Control == Turn /\ Points /\ Late

\* What the steps of a run's goroutine do to the rest.
AgentEffect(r) ==
  /\ UNCHANGED <<session, req>>
  /\ \/ work' = work
     \/ \E pc \in Busy \cup Ended :
          /\ work' = [work EXCEPT ![r] = pc] /\ work[r] \in Busy \cup Ended
          /\ pc \in Busy => work[r] \in Busy
  /\ steering' = steering \/ (steering = r /\ work'[r] = "close")

\* What a step of a run's goroutine may do to the rest of the state.
LEMMA AgentSteps ==
  ASSUME TypeInv, NEW r \in Runs, AgentProceeds(r) \/ AgentChooses(r)
  PROVE  AgentEffect(r)
<1> USE DEF AgentEffect, Goto, WorkAt, Busy, Working, Ended
<1>1. CASE TakeAtTop(r)
  BY <1>1 DEF TakeAtTop
<1>2. CASE TakeBeforeRequest(r)
  BY <1>2 DEF TakeBeforeRequest
<1>3. CASE CallModel(r)
  BY <1>3 DEF CallModel
<1>4. CASE TakeAtEnd(r)
  BY <1>4 DEF TakeAtEnd
<1>5. CASE ToolsDone(r)
  BY <1>5 DEF ToolsDone
<1>6. ASSUME NEW i \in Slots,
             Ask(r, i) \/ ToolEnds(r, i) \/ BeginInteraction(r, i) \/ FinishInteraction(r, i)
      PROVE  AgentEffect(r)
  BY <1>6 DEF Ask, ToolEnds, BeginInteraction, FinishInteraction
<1>7. CASE ModelAnswers(r)
  BY <1>7 DEF ModelAnswers
<1>8. CASE Fail(r)
  BY <1>8 DEF Fail
<1>9. CASE RejectPending(r)
  BY <1>9 DEF RejectPending
<1>10. CASE FinishRun(r)
  BY <1>10 DEF FinishRun, Found, TypeInv
<1>11. CASE CloseEvents(r)
  BY <1>11 DEF CloseEvents
<1>12. CASE UnlockRun(r)
  BY <1>12 DEF UnlockRun
<1>13. CASE Compact(r)
  BY <1>13 DEF Compact
<1>14. CASE CallTools(r)
  BY <1>14 DEF CallTools
<1> QED
  BY <1>1, <1>2, <1>3, <1>4, <1>5, <1>6, <1>7, <1>8, <1>9, <1>10, <1>11, <1>12, <1>13, <1>14
  DEF AgentProceeds, AgentChooses

\* The steps of a run's goroutine keep Control.
LEMMA AgentControl ==
  ASSUME TypeInv, Control, NEW r \in Runs, AgentEffect(r)
  PROVE  Control'
<1> USE DEF AgentEffect, Busy, Working, Ended
<1>1. session' = session /\ req' = req
  OBVIOUS
<1>2. \A k \in Runs : (work[k] \in {"none", "reserved"} \/ work'[k] \in {"none", "reserved"})
                        => work'[k] = work[k]
  BY DEF TypeInv
<1>3. \A k \in Runs : work'[k] \in Busy => work[k] \in Busy
  BY DEF TypeInv
<1>4. session.run \in Runs \cup {NoRun}
  BY DEF TypeInv, Sess
<1>5. ASSUME steering' # steering
      PROVE  /\ \A k \in Runs : work'[k] \notin Busy
             /\ \A c \in Conns : req[c].pc # "start"
  <2>1. steering = r /\ work'[r] = "close" /\ work[r] \notin {"none", "reserved"}
    BY <1>2, <1>5
  <2>2. \A k \in Runs : work'[k] \in Busy => k = r
    BY <1>3, <2>1 DEF Control, Points
  <2>3. \A c \in Conns : req[c].pc = "start" => req[c].run = r
    BY <2>1 DEF Control, Turn
  <2> QED BY <2>1, <2>2, <2>3 DEF Control, Turn
<1>6. Turn'
  BY <1>1, <1>2, <1>4, <1>5 DEF Control, Turn
<1>7. Points'
  BY <1>1, <1>3, <1>5 DEF Control, Points
<1>8. Late'
  BY <1>1, <1>2 DEF Control, Late
<1> QED BY <1>6, <1>7, <1>8 DEF Control

\* The steps of the event loop keep Control.
LEMMA LoopControl ==
  ASSUME TypeInv, Control, NEW r \in Runs, EventLoop(r)
  PROVE  Control'
<1>1. CASE Receive(r)
  <2>1. session'.run = session.run /\ session'.owner = session.owner
    BY <1>1 DEF Receive, TypeInv, Sess
  <2> QED BY <1>1, <2>1 DEF Receive, Control, Turn, Points, Late
<1>2. CASE SetIdle(r)
  <2>1. session'.run = NoRun
    BY <1>2 DEF SetIdle, Idle
  <2>2. /\ \A c \in Conns : req[c].pc \notin {"prepare", "start"}
        /\ \A k \in Runs : work[k] \notin Busy
    BY <1>2 DEF SetIdle, Control, Turn, Points, Busy, Working
  <2> QED BY <1>2, <2>1, <2>2 DEF SetIdle, Control, Turn, Points, Late, agentVars
<1> QED BY <1>1, <1>2 DEF EventLoop

\* The clients' steps keep Control.
LEMMA ClientControl ==
  ASSUME TypeInv, Control, NEW c \in Conns, ClientStarts(c) \/ ClientContinues(c)
  PROVE  Control'
<1> USE NoRunNotIn
<1>0. req \in [Conns -> Reqs]
  BY DEF TypeInv
<1>1. CASE BeginRun(c)
  <2>1. PICK r \in Runs :
          /\ work[r] = "none"
          /\ session' = [Idle EXCEPT !.run = r, !.owner = c]
          /\ work' = [work EXCEPT ![r] = "reserved"]
          /\ req' = [req EXCEPT ![c] = [Ready EXCEPT !.pc = "prepare", !.run = r]]
    BY <1>1 DEF BeginRun, Goto, WorkAt
  <2>2. session'.run = r /\ session'.owner = c /\ session.run = NoRun /\ steering' = steering
    BY <1>1, <2>1 DEF Idle, BeginRun
  <2>3. /\ req'[c].pc = "prepare" /\ req'[c].run = r
        /\ \A d \in Conns : d # c => req'[d] = req[d]
    BY <1>0, <2>1 DEF Ready
  <2>4. work'[r] = "reserved" /\ \A k \in Runs : k # r => work'[k] = work[k]
    BY <2>1 DEF TypeInv
  <2>5. /\ \A d \in Conns : req[d].pc \notin {"prepare", "start"}
        /\ \A k \in Runs : work[k] \notin Busy
    BY <2>2 DEF Control, Turn, Points
  <2>6. Turn'
    BY <2>2, <2>3, <2>4, <2>5 DEF Turn
  <2>7. Points'
    BY <2>4, <2>5 DEF Points, Busy, Working
  <2>8. Late'
    BY <2>1, <2>3, <2>4, <2>5 DEF Control, Late
  <2> QED BY <2>6, <2>7, <2>8 DEF Control
<1>2. CASE PrepareSteering(c)
  <2>1. /\ req'[c].pc = "start" /\ req'[c].run = req[c].run
        /\ \A d \in Conns : d # c => req'[d] = req[d]
        /\ steering' = req[c].run /\ session' = session /\ work' = work
    BY <1>0, <1>2 DEF PrepareSteering, agentVars, Reqs
  <2>2. /\ req[c].run \in Runs /\ session.run = req[c].run /\ session.owner = c
        /\ work[req[c].run] = "reserved"
    BY <1>2 DEF PrepareSteering, Control, Turn
  <2>3. \A d \in Conns : d # c => req[d].pc \notin {"prepare", "start"}
    BY <2>2 DEF Control, Turn
  <2>4. \A k \in Runs : work[k] \notin Busy
    BY <2>2 DEF Control, Points, Busy, Working
  <2>5. Turn'
    BY <2>1, <2>2, <2>3, NoRunNotIn DEF Control, Turn
  <2>6. Points'
    BY <2>1, <2>4 DEF Points
  <2>7. Late'
    BY <2>1, <2>3 DEF Control, Late
  <2> QED BY <2>5, <2>6, <2>7 DEF Control
<1>3. CASE StartAgent(c)
  <2> DEFINE r == req[c].run
  <2>1. r \in Runs /\ session.run = r /\ session.owner = c /\ work[r] = "reserved" /\ steering = r
    BY <1>3 DEF StartAgent, Control, Turn
  <2>2. /\ req'[c].pc = "ready" /\ \A d \in Conns : d # c => req'[d] = req[d]
        /\ session' = session /\ steering' = r
    BY <1>0, <1>3, <2>1 DEF StartAgent, Return, Ready
  <2>3. PICK pc \in {"top", "failing", "refused"} : work' = [work EXCEPT ![r] = pc]
    BY <1>3 DEF StartAgent, Goto
  <2>4. work'[r] = pc /\ \A k \in Runs : k # r => work'[k] = work[k]
    BY <2>1, <2>3 DEF TypeInv
  <2>5. \A d \in Conns : d # c => req[d].pc \notin {"prepare", "start"}
    BY <2>1 DEF Control, Turn
  <2> HIDE DEF r
  <2>6. Turn'
    BY <2>1, <2>2, <2>4, <2>5 DEF Turn
  <2>7. Points'
    BY <2>1, <2>2, <2>4 DEF Control, Points
  <2>8. Late'
    BY <2>2, <2>4, <2>5 DEF Control, Late
  <2> QED BY <2>6, <2>7, <2>8 DEF Control
<1>4. CASE MarkCancelling(c)
  <2>1. /\ req'[c].pc = "cancel" /\ \A d \in Conns : d # c => req'[d] = req[d]
        /\ steering' = steering /\ work' = work
    BY <1>0, <1>4 DEF MarkCancelling, agentVars, Reqs
  <2>2. session'.run = session.run /\ session'.owner = session.owner
    BY <1>4 DEF MarkCancelling, TypeInv, Sess
  <2> QED BY <2>1, <2>2 DEF Control, Turn, Points, Late
<1>5. CASE CancelAgent(c)
  <2>1. /\ req'[c].pc = "ready" /\ \A d \in Conns : d # c => req'[d] = req[d]
        /\ steering' = steering /\ work' = work /\ session' = session
    BY <1>0, <1>5 DEF CancelAgent, Return, Ready, agentVars
  <2> QED BY <2>1 DEF Control, Turn, Points, Late
<1>6. CASE HandOff(c)
  <2>1. session'.run = session.run /\ req' = req /\ steering' = steering /\ work' = work
    BY <1>6 DEF HandOff, agentVars, TypeInv, Sess
  <2>2. \A d \in Conns : req[d].pc \notin {"prepare", "start"}
    BY <1>6 DEF HandOff, Control, Turn
  <2> QED BY <2>1, <2>2 DEF Control, Turn, Points, Late
<1>7. ASSUME NEW op \in {"steer", "remove"}, SteerableRun(c, op) PROVE Control'
  <2>1. PICK m \in Msgs, s \in Sizes \cup {0} :
          req' = [req EXCEPT ![c] = [pc |-> "load", op |-> op, run |-> session.run,
                                     msg |-> m, size |-> s, pointer |-> NoRun]]
    BY <1>7 DEF SteerableRun
  <2>2. /\ req'[c].pc = "load" /\ req'[c].run = session.run /\ req'[c].msg \in Msgs
        /\ \A d \in Conns : d # c => req'[d] = req[d]
        /\ session' = session /\ steering' = steering /\ work' = work
    BY <1>0, <1>7, <2>1 DEF SteerableRun, agentVars
  <2>3. session.run \in Runs /\ session.owner = c /\ req[c].pc = "ready"
    BY <1>7 DEF SteerableRun, Request, TypeInv, Sess
  <2>4. \A d \in Conns : req[d].pc # "prepare"
    BY <2>3 DEF Control, Turn
  <2> QED BY <2>2, <2>3, <2>4 DEF Control, Turn, Points, Late
<1>8. CASE LoadMailbox(c)
  <2>1. req[c] \in Reqs
    BY <1>0
  <2>2. /\ req'[c].pc = "act" /\ req'[c].run = req[c].run /\ req'[c].msg = req[c].msg
        /\ \A d \in Conns : d # c => req'[d] = req[d]
        /\ session' = session /\ steering' = steering /\ work' = work
    BY <1>0, <1>8, <2>1 DEF LoadMailbox, agentVars, Reqs
  <2>3. req[c].pc = "load"
    BY <1>8 DEF LoadMailbox
  <2>4. Turn'
    BY <2>2, <2>3 DEF Control, Turn
  <2>5. Points'
    BY <2>2 DEF Control, Points
  <2>6. \A d \in Conns :
          /\ req'[d].run = req[d].run /\ req'[d].msg = req[d].msg
          /\ req'[d].pc \in {"load", "act"} => req[d].pc \in {"load", "act"}
          /\ req'[d].pc = "prepare" => req[d].pc = "prepare"
    BY <2>2, <2>3
  <2>7. work' = work /\ Late
    BY <2>2 DEF Control
  <2>8. Late'
    <3> SUFFICES ASSUME NEW d \in Conns, req'[d].pc \in {"load", "act"}
                 PROVE  /\ req[d].run \in Runs /\ work[req[d].run] # "none" /\ req[d].msg \in Msgs
                        /\ \A f \in Conns : req[f].pc = "prepare" => req[f].run # req[d].run
      BY ONLY <2>6, <2>7 DEF Late
    <3>1. req[d].pc \in {"load", "act"}
      BY <2>6
    <3> QED BY <2>7, <3>1 DEF Late
  <2> QED BY <2>4, <2>5, <2>8 DEF Control
<1>9. CASE EnqueueSteering(c) \/ RemoveSteering(c)
  <2>1. /\ req'[c].pc = "ready" /\ \A d \in Conns : d # c => req'[d] = req[d]
        /\ steering' = steering /\ work' = work /\ session' = session
    BY <1>0, <1>9 DEF EnqueueSteering, RemoveSteering, Return, Ready, agentVars
  <2> QED BY <2>1 DEF Control, Turn, Points, Late
<1> QED
  BY <1>1, <1>2, <1>3, <1>4, <1>5, <1>6, <1>7, <1>8, <1>9 DEF ClientStarts, ClientContinues

\* Every step keeps Control.
LEMMA ControlStep == TypeInv /\ Control /\ [Next]_vars => Control'
<1>1. TypeInv /\ Control /\ UNCHANGED vars => Control'
  BY DEF Control, Turn, Points, Late, vars, agentVars
<1> QED BY <1>1, AgentSteps, AgentControl, LoopControl, ClientControl DEF Next

-----------------------------------------------------------------------------
(* What a step does to the mailboxes.                                      *)

\* The mailbox of a run that is not prepared yet was never used.
Fresh ==
  /\ \A r \in Runs : work[r] = "none" => box[r] = NewMailbox
  /\ \A c \in Conns : req[c].pc = "prepare" => box[req[c].run] = NewMailbox

\* Tool calls are only open in a batch, and the mailbox counts those that ask.
Open(r) == {i \in Slots : slot[r][i] \in {"begun", "asking"}}
AllEnded(r) == \A i \in Slots : slot[r][i] = "ended"
Counted ==
  \A r \in Runs :
    /\ work[r] # "tools" => AllEnded(r)
    /\ box[r].interactions = Cardinality(Open(r))

Mail == \A r \in Runs : MailOK(box[r])

\* A message of s bytes is within the limits.
Room(b, s) == Cardinality(Accepted(b)) < MaxMessages /\ b.bytes + s <= MaxBytes

\* The mailbox of run r becomes e: a client's message or withdrawal, or the
\* run's own look at the queue.
Begun(r) == work[r] # "none" /\ \A d \in Conns : req[d].pc = "prepare" => req[d].run # r
ClientMail(r, e) ==
  /\ Begun(r) /\ box[r].interactions = 0 /\ applied' = applied
  /\ \/ \E m \in Msgs, s \in Nat :
          /\ box[r].state[m] = "none" /\ ~box[r].sealed /\ Room(box[r], s)
          /\ e = Enqueued(box[r], m, s)
     \/ \E p \in 1 .. Len(box[r].items) : e = Removed(box[r], p)
RunMail(r, e) ==
  /\ work[r] \in Busy /\ AllEnded(r)
  /\ \/ \E seal \in BOOLEAN :
          /\ e = Taken(box[r], seal)
          /\ applied' = [applied EXCEPT ![r] = @ \o box[r].items]
     \/ e = RejectedAll(box[r]) /\ applied' = applied /\ work'[r] = "failed"
AskMail(r, e) ==
  /\ applied' = applied /\ work[r] = "tools"
  /\ \E n \in Nat : e = [box[r] EXCEPT !.interactions = n]

Quiescent == box' = box /\ applied' = applied
Changes(r, e) == box' = [box EXCEPT ![r] = e]

\* A client's step changes no mailbox, or one of them by a message or a withdrawal.
LEMMA ClientMails ==
  ASSUME TypeInv, BoxType, Control, Fresh, NEW c \in Conns, ClientStarts(c) \/ ClientContinues(c)
  PROVE  Quiescent \/ \E r \in Runs : \E e : Changes(r, e) /\ ClientMail(r, e)
<1>1. CASE PrepareSteering(c)
  <2>1. box[req[c].run] = NewMailbox /\ req[c].run \in Runs
    BY <1>1 DEF PrepareSteering, Fresh, Control, Turn
  <2>2. box' = box
    BY <1>1, <2>1 DEF PrepareSteering, BoxType
  <2> QED BY <1>1, <2>2 DEF PrepareSteering, agentVars, Quiescent
<1>2. CASE StartAgent(c)
  <2>1. steering = req[c].run
    BY <1>2 DEF StartAgent, Control, Turn
  <2> QED BY <1>2, <2>1 DEF StartAgent, Found, Quiescent
<1>3. CASE EnqueueSteering(c)
  <2> DEFINE r == req[c].pointer
             m == req[c].msg
             s == req[c].size
  <2>1. CASE Meant(c) /\ box[r].state[m] = "none" /\ Accepts(box[r], s)
    <3>1. r \in Runs
      <4>1. req[c] \in Reqs
        BY DEF TypeInv
      <4>2. r \in Runs \cup {NoRun}
        BY <4>1 DEF Reqs
      <4>3. r # NoRun
        BY <2>1 DEF Meant
      <4> QED BY <4>2, <4>3
    <3>2. s \in Nat
      <4>1. req[c] \in Reqs
        BY DEF TypeInv
      <4>2. s \in Sizes \cup {0}
        BY <4>1 DEF Reqs
      <4>3. \A x \in Sizes : x \in Nat
        BY SteeringAssumption
      <4> HIDE DEF s
      <4> QED BY <4>2, <4>3
    <3>3. box[r].state \in [Msgs -> {"none", "queued", "applied", "removed", "rejected"}]
      BY <3>1 DEF BoxType, Mailboxes
    <3>4. m \in Msgs
      BY <1>3 DEF EnqueueSteering, Control, Late
    <3>5. box' = [box EXCEPT ![r] = Enqueued(box[r], m, s)] /\ applied' = applied
      BY <1>3, <2>1 DEF EnqueueSteering, agentVars
    <3>6. box[r].interactions = 0 /\ ~box[r].sealed /\ Room(box[r], s)
      BY <2>1 DEF Accepts, Room
    <3>7. r = req[c].run
      BY <2>1 DEF Meant, Found
    <3>8. Begun(r)
      BY <1>3, <3>7 DEF EnqueueSteering, Control, Late, Begun
    <3> HIDE DEF r, m, s
    <3>9. ClientMail(r, Enqueued(box[r], m, s))
      BY <2>1, <3>2, <3>4, <3>5, <3>6, <3>8 DEF ClientMail
    <3> QED BY <3>1, <3>5, <3>9 DEF Changes
  <2>2. CASE ~(Meant(c) /\ box[r].state[m] = "none" /\ Accepts(box[r], s))
    BY <1>3, <2>2 DEF EnqueueSteering, agentVars, Quiescent
  <2> QED BY <2>1, <2>2
<1>4. CASE RemoveSteering(c)
  <2> DEFINE r == req[c].pointer
  <2>1. CASE /\ Meant(c) /\ box[r].interactions = 0
             /\ \E i \in 1 .. Len(box[r].items) : box' = [box EXCEPT ![r] = Removed(box[r], i)]
    <3>1. r \in Runs
      BY <2>1 DEF Meant, TypeInv, Reqs
    <3>2. applied' = applied
      BY <1>4 DEF RemoveSteering, agentVars
    <3>3. PICK i \in 1 .. Len(box[r].items) : box' = [box EXCEPT ![r] = Removed(box[r], i)]
      BY <2>1
    <3>4. r = req[c].run
      BY <2>1 DEF Meant, Found
    <3>5. Begun(r)
      BY <1>4, <3>4 DEF RemoveSteering, Control, Late, Begun
    <3> HIDE DEF r
    <3>6. ClientMail(r, Removed(box[r], i))
      BY <2>1, <3>2, <3>3, <3>5 DEF ClientMail
    <3> QED BY <3>1, <3>3, <3>6 DEF Changes
  <2>2. CASE box' = box
    BY <1>4, <2>2 DEF RemoveSteering, agentVars, Quiescent
  <2> QED BY <1>4, <2>1, <2>2 DEF RemoveSteering
<1>5. CASE BeginRun(c)
  BY <1>5 DEF BeginRun, Quiescent
<1>6. CASE MarkCancelling(c) \/ CancelAgent(c) \/ HandOff(c) \/ LoadMailbox(c)
  BY <1>6 DEF MarkCancelling, CancelAgent, HandOff, LoadMailbox, agentVars, Quiescent
<1>7. CASE \E op \in {"steer", "remove"} : SteerableRun(c, op)
  BY <1>7 DEF SteerableRun, agentVars, Quiescent
<1> QED BY <1>1, <1>2, <1>3, <1>4, <1>5, <1>6, <1>7 DEF ClientStarts, ClientContinues

\* A run that takes its queue finds its own mailbox.
LEMMA TakeMail ==
  ASSUME TypeInv, BoxType, Control, NEW r \in Runs, work[r] \in Busy, AllEnded(r),
         NEW seal \in BOOLEAN, Take(r, seal)
  PROVE  Changes(r, Taken(box[r], seal)) /\ RunMail(r, Taken(box[r], seal))
<1>1. Found(steering, r)
  BY DEF Control, Points, Found
<1> QED BY <1>1 DEF Take, Changes, RunMail

\* A run's step changes no mailbox, or its own by taking, rejecting or counting interactions.
LEMMA RunMails ==
  ASSUME TypeInv, BoxType, Control, Counted, NEW r \in Runs,
         AgentProceeds(r) \/ AgentChooses(r) \/ EventLoop(r)
  PROVE  Quiescent \/ \E e : Changes(r, e) /\ (RunMail(r, e) \/ AskMail(r, e))
<1> DEFINE Goal == Quiescent \/ \E e : Changes(r, e) /\ (RunMail(r, e) \/ AskMail(r, e))
<1>0. work[r] # "tools" => AllEnded(r)
  BY DEF Counted
<1>1. ASSUME NEW seal \in BOOLEAN, Take(r, seal), work[r] \in Busy, AllEnded(r)
      PROVE  Goal
  BY <1>1, TakeMail
<1> SUFFICES Goal
  OBVIOUS
<1> HIDE DEF Goal
<1> USE DEF WorkAt
<1>2. CASE TakeAtTop(r)
  <2>1. Take(r, FALSE) /\ work[r] = "top"
    BY <1>2 DEF TakeAtTop
  <2> QED BY <1>0, <1>1, <2>1 DEF Busy, Working
<1>3. CASE TakeBeforeRequest(r)
  <2>1. Take(r, FALSE) /\ work[r] \in {"prepared", "compact"}
    BY <1>3 DEF TakeBeforeRequest
  <2> QED BY <1>0, <1>1, <2>1 DEF Busy, Working
<1>4. CASE TakeAtEnd(r)
  <2>1. Take(r, TRUE) /\ work[r] = "answered"
    BY <1>4 DEF TakeAtEnd
  <2> QED BY <1>0, <1>1, <2>1 DEF Busy, Working
<1>5. CASE ToolsDone(r)
  <2>1. Take(r, FALSE) /\ work[r] = "tools" /\ AllEnded(r)
    BY <1>5 DEF ToolsDone, AllEnded
  <2> QED BY <1>1, <2>1 DEF Busy, Working
<1>6. CASE RejectPending(r)
  <2>1. work[r] = "failing"
    BY <1>6 DEF RejectPending
  <2>2. Found(steering, r)
    BY <2>1 DEF Control, Points, Found, Busy, Working
  <2>3. Changes(r, RejectedAll(box[r])) /\ RunMail(r, RejectedAll(box[r]))
    BY <1>0, <1>6, <2>1, <2>2
    DEF RejectPending, Changes, RunMail, Busy, Working, Goto, TypeInv
  <2> QED BY <2>3 DEF Goal
<1>7. ASSUME NEW i \in Slots, BeginInteraction(r, i) PROVE Goal
  <2>1. Found(steering, r) /\ work[r] = "tools"
    BY <1>7 DEF BeginInteraction, Control, Points, Found, Busy, Working
  <2>2. box[r].interactions \in Nat
    BY DEF BoxType, Mailboxes
  <2> DEFINE e == [box[r] EXCEPT !.interactions = box[r].interactions + 1]
  <2>3. Changes(r, e)
    BY <1>7, <2>1 DEF BeginInteraction, Changes, BoxType
  <2>4. AskMail(r, e)
    BY <1>7, <2>1, <2>2 DEF BeginInteraction, AskMail
  <2> HIDE DEF e
  <2> QED BY <2>3, <2>4 DEF Goal
<1>8. ASSUME NEW i \in Slots, FinishInteraction(r, i) PROVE Goal
  <2>1. slot[r][i] = "asking" /\ work[r] = "tools"
    BY <1>8, <1>0 DEF FinishInteraction, AllEnded
  <2>2. box[r].interactions \in Nat /\ box[r].interactions = Cardinality(Open(r))
    BY DEF BoxType, Mailboxes, Counted
  <2>3. box[r].interactions # 0
    <3>1. IsFiniteSet(Open(r)) /\ Open(r) # {}
      BY <2>1, SteeringAssumption, FS_Subset DEF Open
    <3> QED BY <2>2, <3>1, FS_EmptySet
  <2> DEFINE e == [box[r] EXCEPT !.interactions = box[r].interactions - 1]
  <2>4. Changes(r, e)
    BY <1>8 DEF FinishInteraction, Changes, BoxType
  <2>5. box[r].interactions - 1 \in Nat
    BY <2>2, <2>3
  <2>6. AskMail(r, e)
    BY <1>8, <2>1, <2>5 DEF FinishInteraction, AskMail
  <2> HIDE DEF e
  <2> QED BY <2>4, <2>6 DEF Goal
<1>9. ASSUME NEW i \in Slots, Ask(r, i) \/ ToolEnds(r, i) PROVE Goal
  BY <1>9 DEF Ask, ToolEnds, Goal, Quiescent
<1>10. CASE CallModel(r) \/ ModelAnswers(r) \/ Fail(r) \/ FinishRun(r) \/ CloseEvents(r)
            \/ UnlockRun(r) \/ Compact(r) \/ CallTools(r) \/ EventLoop(r)
  BY <1>10
  DEF CallModel, ModelAnswers, Fail, FinishRun, CloseEvents, UnlockRun, Compact, CallTools,
      EventLoop, Receive, SetIdle, agentVars, Goal, Quiescent
<1> QED
  BY <1>2, <1>3, <1>4, <1>5, <1>6, <1>7, <1>8, <1>9, <1>10
  DEF AgentProceeds, AgentChooses

-----------------------------------------------------------------------------
(* The invariant.                                                          *)

SealedAtEnd == \A r \in Runs : work[r] \in Ended => box[r].sealed

IInv ==
  /\ TypeInv /\ BoxType /\ Control
  /\ Fresh /\ Counted /\ Mail /\ SealedAtEnd

\* What the messages of the mailbox become in a step.
MailStep(b, e) ==
  /\ MailOK(e) /\ e \in Mailboxes
  /\ b.sealed => e.sealed

\* A message or a withdrawal keeps the mailbox in order and no interaction is touched.
LEMMA ClientMailStep ==
  ASSUME NEW r \in Runs, MailOK(box[r]), NEW e, ClientMail(r, e)
  PROVE  MailStep(box[r], e) /\ e.interactions = box[r].interactions
<1>1. ASSUME NEW m \in Msgs, NEW s \in Nat, box[r].state[m] = "none", ~box[r].sealed,
             e = Enqueued(box[r], m, s)
      PROVE  MailStep(box[r], e) /\ e.interactions = box[r].interactions
  <2> DEFINE b == box[r]
  <2>0. MailOK(b) /\ m \in Msgs /\ s \in Nat /\ b.state[m] = "none" /\ ~b.sealed
    BY <1>1
  <2> HIDE DEF b
  <2>1. /\ MailOK(Enqueued(b, m, s))
        /\ Enqueued(b, m, s).interactions = b.interactions
        /\ Enqueued(b, m, s).sealed = b.sealed
    BY <2>0, EnqueuedOK, ZenonT(30)
  <2> USE DEF b
  <2> QED BY <1>1, <2>1 DEF MailStep, MailOK
<1>2. ASSUME NEW p \in 1 .. Len(box[r].items), e = Removed(box[r], p)
      PROVE  MailStep(box[r], e) /\ e.interactions = box[r].interactions
  BY <1>2, RemovedOK DEF MailStep, MailOK
<1> QED BY <1>1, <1>2 DEF ClientMail

\* Taking and rejecting keep the mailbox in order and no interaction is touched.
LEMMA RunMailStep ==
  ASSUME NEW r \in Runs, MailOK(box[r]), NEW e, RunMail(r, e)
  PROVE  MailStep(box[r], e) /\ e.interactions = box[r].interactions
<1>1. ASSUME NEW seal \in BOOLEAN, e = Taken(box[r], seal)
      PROVE  MailStep(box[r], e) /\ e.interactions = box[r].interactions
  <2> DEFINE b == box[r]
  <2>0. MailOK(b) /\ e = Taken(b, seal)
    BY <1>1
  <2> HIDE DEF b
  <2>1. /\ MailOK(Taken(b, seal)) /\ Taken(b, seal).interactions = b.interactions
        /\ b.sealed => Taken(b, seal).sealed
    BY <2>0, TakenOK
  <2> QED BY <2>0, <2>1 DEF b, MailStep, MailOK
<1>2. ASSUME e = RejectedAll(box[r])
      PROVE  MailStep(box[r], e) /\ e.interactions = box[r].interactions
  BY <1>2, RejectedAllOK DEF MailStep, MailOK
<1> QED BY <1>1, <1>2 DEF RunMail

\* Counting interactions leaves the messages alone.
LEMMA AskMailStep ==
  ASSUME NEW r \in Runs, MailOK(box[r]), NEW e, AskMail(r, e)
  PROVE  MailStep(box[r], e) /\ e.items = box[r].items /\ e.state = box[r].state
         /\ e.number = box[r].number /\ e.sealed = box[r].sealed
<1>1. PICK n \in Nat : e = [box[r] EXCEPT !.interactions = n]
  BY DEF AskMail
<1> QED BY <1>1, InteractionsOK DEF MailStep, MailOK

\* One lemma for all steps: at most one mailbox changes, lawfully.
LEMMA MailChanges ==
  ASSUME IInv, [Next]_vars
  PROVE  \/ Quiescent
         \/ \E r \in Runs : \E e :
              /\ Changes(r, e) /\ MailStep(box[r], e)
              /\ ClientMail(r, e) \/ RunMail(r, e) \/ AskMail(r, e)
<1>1. \A r \in Runs : MailOK(box[r])
  BY DEF IInv, Mail
<1>2. ASSUME NEW r \in Runs, NEW e, ClientMail(r, e) \/ RunMail(r, e) \/ AskMail(r, e)
      PROVE  MailStep(box[r], e)
  BY <1>1, <1>2, ClientMailStep, RunMailStep, AskMailStep
<1>3. CASE UNCHANGED vars
  BY <1>3 DEF vars, agentVars, Quiescent
<1>4. ASSUME NEW c \in Conns, ClientStarts(c) \/ ClientContinues(c)
      PROVE  Quiescent \/ \E r \in Runs : \E e : Changes(r, e) /\ ClientMail(r, e)
  BY <1>4, ClientMails DEF IInv
<1>5. ASSUME NEW r \in Runs, AgentProceeds(r) \/ AgentChooses(r) \/ EventLoop(r)
      PROVE  Quiescent \/ \E e : Changes(r, e) /\ (RunMail(r, e) \/ AskMail(r, e))
  BY <1>5, RunMails DEF IInv
<1> QED BY <1>2, <1>3, <1>4, <1>5 DEF Next

\* Every step keeps the mailboxes in order, and a sealed one sealed.
LEMMA MailPreserved ==
  ASSUME IInv, [Next]_vars
  PROVE  /\ BoxType' /\ Mail'
         /\ \A r \in Runs : box[r].sealed => box'[r].sealed
<1>1. box \in [Runs -> Mailboxes] /\ \A r \in Runs : MailOK(box[r])
  BY DEF IInv, Mail, BoxType
<1>2. CASE Quiescent
  BY <1>1, <1>2 DEF Quiescent, BoxType, Mail
<1>3. ASSUME NEW r \in Runs, NEW e, Changes(r, e), MailStep(box[r], e)
      PROVE  /\ BoxType' /\ Mail'
             /\ \A k \in Runs : box[k].sealed => box'[k].sealed
  <2>1. box'[r] = e /\ (\A k \in Runs : k # r => box'[k] = box[k]) /\ box' \in [Runs -> Mailboxes]
    BY <1>1, <1>3 DEF Changes, MailStep
  <2>2. \A k \in Runs : MailOK(box'[k])
    BY <1>1, <1>3, <2>1 DEF MailStep
  <2>3. Mail'
    BY <2>2 DEF Mail
  <2> QED BY <1>3, <2>1, <2>3 DEF BoxType, MailStep
<1> QED BY <1>2, <1>3, MailChanges

\* A run only ends with a sealed mailbox.
LEMMA SealedPreserved ==
  ASSUME IInv, [Next]_vars
  PROVE  SealedAtEnd'
<1>1. \A r \in Runs : (box[r].sealed => box'[r].sealed) /\ (work[r] \in Ended => box[r].sealed)
  BY MailPreserved DEF IInv, SealedAtEnd
<1>2. TypeInv /\ BoxType /\ Control
  BY DEF IInv
<1>3. CASE \A r \in Runs : work'[r] \in Ended => work[r] \in Ended
  BY <1>1, <1>3 DEF SealedAtEnd
<1>4. CASE UNCHANGED vars
  BY <1>3, <1>4 DEF vars, agentVars
<1>5. ASSUME NEW c \in Conns, ClientStarts(c) \/ ClientContinues(c)
      PROVE  \A r \in Runs : work'[r] \in Ended => work[r] \in Ended
  <2>1. CASE \E r \in Runs, pc \in {"reserved", "top", "failing", "refused"} : Goto(r, pc)
    BY <1>2, <2>1 DEF Goto, Ended, TypeInv
  <2>2. CASE work' = work
    BY <2>2
  <2>3. CASE BeginRun(c)
    BY <2>1, <2>3 DEF BeginRun
  <2>4. CASE StartAgent(c)
    <3>1. req[c].run \in Runs
      BY <1>2, <2>4 DEF StartAgent, Control, Turn
    <3> QED BY <2>1, <2>4, <3>1 DEF StartAgent
  <2>5. CASE PrepareSteering(c) \/ MarkCancelling(c) \/ CancelAgent(c) \/ HandOff(c)
             \/ LoadMailbox(c) \/ EnqueueSteering(c) \/ RemoveSteering(c)
             \/ \E op \in {"steer", "remove"} : SteerableRun(c, op)
    BY <2>2, <2>5
    DEF PrepareSteering, MarkCancelling, CancelAgent, HandOff, LoadMailbox, EnqueueSteering,
        RemoveSteering, SteerableRun, agentVars
  <2> QED BY <1>5, <2>3, <2>4, <2>5 DEF ClientStarts, ClientContinues
<1>6. ASSUME NEW r \in Runs, AgentProceeds(r) \/ AgentChooses(r) \/ EventLoop(r)
      PROVE  SealedAtEnd'
  <2> USE DEF WorkAt, Goto
  <2>1. CASE TakeAtEnd(r) /\ work'[r] = "done"
    <3>1. steering = r
      BY <1>2, <2>1 DEF TakeAtEnd, Control, Points, Busy, Working
    <3>2. box[r].items = <<>>
      BY <1>2, <2>1, <3>1 DEF TakeAtEnd, Takes, Found, TypeInv
    <3>3. box'[r] = Taken(box[r], TRUE)
      BY <1>2, <2>1, <3>1 DEF TakeAtEnd, Take, Found, BoxType
    <3>4. MailOK(box[r])
      BY DEF IInv, Mail
    <3>5. Taken(box[r], TRUE).sealed = (box[r].sealed \/ TRUE)
      BY <3>2, <3>4, TakenOK
    <3>6. \A k \in Runs : k # r => work'[k] = work[k]
      BY <1>2, <2>1 DEF TakeAtEnd, TypeInv
    <3> QED BY <1>1, <3>3, <3>5, <3>6 DEF SealedAtEnd
  <2>2. CASE RejectPending(r)
    <3>1. steering = r
      BY <1>2, <2>2 DEF RejectPending, Control, Points, Busy, Working
    <3>2. box'[r] = RejectedAll(box[r])
      BY <1>2, <2>2, <3>1 DEF RejectPending, Found, BoxType
    <3>3. RejectedAll(box[r]).sealed = TRUE
      BY RejectedAllOK DEF IInv, Mail
    <3>4. \A k \in Runs : k # r => work'[k] = work[k]
      BY <1>2, <2>2 DEF RejectPending, TypeInv
    <3> QED BY <1>1, <3>2, <3>3, <3>4 DEF SealedAtEnd
  <2>3. CASE ~(TakeAtEnd(r) /\ work'[r] = "done") /\ ~RejectPending(r)
    <3>1. \A k \in Runs : work'[k] \in Ended => work[k] \in Ended
      <4>1. CASE \E pc \in Working : work' = [work EXCEPT ![r] = pc]
        BY <1>2, <4>1 DEF Working, Ended, TypeInv
      <4>2. CASE work[r] \in Ended /\ \E pc \in Ended : work' = [work EXCEPT ![r] = pc]
        BY <1>2, <4>2 DEF TypeInv
      <4>3. CASE work' = work
        BY <4>3
      <4>4. CASE TakeAtTop(r) \/ TakeBeforeRequest(r) \/ CallModel(r) \/ ToolsDone(r)
                 \/ ModelAnswers(r) \/ Fail(r) \/ Compact(r) \/ CallTools(r)
        BY <4>1, <4>4
        DEF TakeAtTop, TakeBeforeRequest, CallModel, ToolsDone, ModelAnswers, Fail, Compact,
            CallTools, Working
      <4>5. CASE TakeAtEnd(r)
        <5>1. work' = [work EXCEPT ![r] = IF Takes(r) THEN "top" ELSE "done"]
          BY <4>5 DEF TakeAtEnd
        <5>2. work' = [work EXCEPT ![r] = "top"]
          BY <1>2, <2>3, <4>5, <5>1 DEF TypeInv
        <5> QED BY <4>1, <5>2 DEF Working
      <4>6. CASE FinishRun(r) \/ CloseEvents(r) \/ UnlockRun(r)
        BY <4>2, <4>6 DEF FinishRun, CloseEvents, UnlockRun, Ended
      <4>7. CASE EventLoop(r) \/ \E i \in Slots : \/ Ask(r, i) \/ ToolEnds(r, i)
                                                  \/ BeginInteraction(r, i)
                                                  \/ FinishInteraction(r, i)
        BY <4>3, <4>7
        DEF EventLoop, Receive, SetIdle, agentVars, Ask, ToolEnds, BeginInteraction,
            FinishInteraction
      <4> QED BY <1>6, <2>3, <4>4, <4>5, <4>6, <4>7 DEF AgentProceeds, AgentChooses
    <3> QED BY <1>3, <3>1
  <2> QED BY <2>1, <2>2, <2>3
<1> QED BY <1>3, <1>4, <1>5, <1>6 DEF Next

\* The mailbox of a run that has not been prepared is a new one.
LEMMA FreshPreserved ==
  ASSUME IInv, [Next]_vars
  PROVE  Fresh'
<1>0. TypeInv /\ BoxType /\ Control /\ Fresh
  BY DEF IInv
<1>1. ASSUME NEW r \in Runs,
             work[r] = "none" \/ \E c \in Conns : req[c].pc = "prepare" /\ req[c].run = r
      PROVE  box'[r] = box[r] /\ box[r] = NewMailbox
  <2>1. box[r] = NewMailbox
    BY <1>0, <1>1 DEF Fresh
  <2>2. ~Begun(r) /\ work[r] \in {"none", "reserved"}
    BY <1>0, <1>1 DEF Begun, Control, Turn
  <2>3. ASSUME NEW k \in Runs, NEW e, Changes(k, e),
               ClientMail(k, e) \/ RunMail(k, e) \/ AskMail(k, e)
        PROVE  box'[r] = box[r]
    <3>1. k # r
      BY <2>2, <2>3 DEF ClientMail, RunMail, AskMail, Busy, Working
    <3> QED BY <1>0, <2>3, <3>1 DEF Changes, BoxType
  <2>4. box'[r] = box[r]
    BY <2>3, MailChanges DEF Quiescent
  <2> QED BY <2>1, <2>4
<1>2. (\A r \in Runs : work'[r] = "none" => work[r] = "none") =>
        \A r \in Runs : work'[r] = "none" => box'[r] = NewMailbox
  BY <1>1
<1>3. (\A c \in Conns : req'[c].pc = "prepare" => req'[c] = req[c]) =>
        \A c \in Conns : req'[c].pc = "prepare" => box'[req'[c].run] = NewMailbox
  BY <1>0, <1>1 DEF Control, Turn
<1>4. CASE UNCHANGED vars
  BY <1>2, <1>3, <1>4 DEF vars, agentVars, Fresh
<1>5. ASSUME NEW r \in Runs, AgentProceeds(r) \/ AgentChooses(r)
      PROVE  Fresh'
  <2>1. AgentEffect(r)
    BY <1>0, <1>5, AgentSteps
  <2>2. \A k \in Runs : work'[k] = "none" => work[k] = "none"
    BY <1>0, <2>1 DEF AgentEffect, TypeInv, Busy, Working, Ended
  <2> QED BY <1>2, <1>3, <2>1, <2>2 DEF AgentEffect, Fresh
<1>6. ASSUME NEW r \in Runs, EventLoop(r) PROVE Fresh'
  BY <1>2, <1>3, <1>6 DEF EventLoop, Receive, SetIdle, agentVars, Fresh
<1>7. ASSUME NEW c \in Conns, BeginRun(c) PROVE Fresh'
  <2>1. PICK r \in Runs :
          /\ work[r] = "none" /\ work' = [work EXCEPT ![r] = "reserved"]
          /\ req' = [req EXCEPT ![c] = [Ready EXCEPT !.pc = "prepare", !.run = r]]
    BY <1>7 DEF BeginRun, Goto, WorkAt
  <2>2. box'[r] = NewMailbox
    BY <1>1, <2>1
  <2>3. req'[c].run = r /\ \A d \in Conns : d # c => req'[d] = req[d]
    BY <1>0, <2>1 DEF TypeInv, Ready
  <2>4. \A d \in Conns : req'[d].pc = "prepare" => box'[req'[d].run] = NewMailbox
    BY <1>0, <1>1, <2>2, <2>3 DEF Control, Turn
  <2>5. \A k \in Runs : work'[k] = "none" => work[k] = "none"
    BY <1>0, <2>1 DEF TypeInv
  <2> QED BY <1>2, <2>4, <2>5 DEF Fresh
<1>8. ASSUME NEW c \in Conns, ClientStarts(c) \/ ClientContinues(c), ~BeginRun(c)
      PROVE  Fresh'
  <2>1. \A d \in Conns : d # c => req'[d] = req[d]
    BY <1>0, <1>8
    DEF ClientStarts, ClientContinues, PrepareSteering, StartAgent, MarkCancelling, CancelAgent,
        HandOff, SteerableRun, LoadMailbox, EnqueueSteering, RemoveSteering, Return, TypeInv
  <2>2. CASE HandOff(c)
    BY <1>2, <1>3, <2>2 DEF HandOff, agentVars, Fresh
  <2>3. CASE ~HandOff(c)
    <3>1. req'[c].pc # "prepare"
      <4>1. req[c] \in Reqs
        BY <1>0 DEF TypeInv
      <4>2. CASE PrepareSteering(c) \/ MarkCancelling(c) \/ LoadMailbox(c)
        BY <1>0, <4>1, <4>2 DEF PrepareSteering, MarkCancelling, LoadMailbox, TypeInv, Reqs
      <4>3. CASE Return(c)
        BY <1>0, <4>3 DEF Return, Ready, TypeInv
      <4>4. CASE StartAgent(c) \/ CancelAgent(c) \/ EnqueueSteering(c) \/ RemoveSteering(c)
        BY <4>3, <4>4 DEF StartAgent, CancelAgent, EnqueueSteering, RemoveSteering
      <4>5. CASE \E op \in {"steer", "remove"} : SteerableRun(c, op)
        BY <1>0, <4>5 DEF SteerableRun, TypeInv
      <4> QED BY <1>8, <2>3, <4>2, <4>4, <4>5 DEF ClientStarts, ClientContinues
    <3>2. \A k \in Runs : work'[k] = "none" => work[k] = "none"
      <4>1. CASE StartAgent(c)
        <5>1. PICK pc \in {"top", "failing", "refused"} : Goto(req[c].run, pc)
          BY <4>1 DEF StartAgent
        <5> QED BY <1>0, <5>1 DEF Goto, TypeInv
      <4>2. CASE work' = work
        BY <4>2
      <4> QED BY <1>8, <4>1, <4>2
        DEF ClientStarts, ClientContinues, PrepareSteering, MarkCancelling, CancelAgent, HandOff,
            SteerableRun, LoadMailbox, EnqueueSteering, RemoveSteering, agentVars
    <3> QED BY <1>2, <1>3, <2>1, <3>1, <3>2 DEF Fresh
  <2> QED BY <2>2, <2>3
<1> QED BY <1>4, <1>5, <1>6, <1>7, <1>8 DEF Next

\* What Counted says of one run.
CountedAt(r) ==
  /\ work[r] # "tools" => AllEnded(r)
  /\ box[r].interactions = Cardinality(Open(r))

\* The open tool calls are finitely many.
LEMMA OpenFinite == \A r \in Runs : IsFiniteSet(Open(r))
BY SteeringAssumption, FS_Subset DEF Open

\* The mailbox keeps counting the tool calls that ask.
LEMMA CountedPreserved ==
  ASSUME IInv, [Next]_vars
  PROVE  Counted'
<1>0. TypeInv /\ BoxType /\ Control /\ Counted
  BY DEF IInv
<1> SUFFICES ASSUME NEW r \in Runs PROVE CountedAt(r)'
  BY DEF Counted, CountedAt
<1>1. work[r] # "tools" => AllEnded(r)
  BY <1>0 DEF Counted
<1>2. box[r].interactions = Cardinality(Open(r)) /\ IsFiniteSet(Open(r))
  BY <1>0, OpenFinite DEF Counted
<1>3. ASSUME slot'[r] = slot[r]
      PROVE  Open(r)' = Open(r) /\ (AllEnded(r) => AllEnded(r)')
  BY <1>3 DEF Open, AllEnded
<1>4. ASSUME NEW e, Changes(r, e), RunMail(r, e)
      PROVE  box'[r].interactions = box[r].interactions
  <2>1. e.interactions = box[r].interactions
    BY <1>4, RunMailStep DEF IInv, Mail
  <2> QED BY <1>0, <1>4, <2>1 DEF Changes, BoxType
<1>5. CASE UNCHANGED vars
  <2>1. slot' = slot /\ work' = work /\ box' = box
    BY <1>5 DEF vars, agentVars
  <2> QED BY <1>1, <1>2, <1>3, <2>1 DEF CountedAt
<1>6. ASSUME NEW c \in Conns, ClientStarts(c) \/ ClientContinues(c)
      PROVE  CountedAt(r)'
  <2>1. slot' = slot
    BY <1>6
    DEF ClientStarts, ClientContinues, BeginRun, PrepareSteering, StartAgent, MarkCancelling,
        CancelAgent, HandOff, SteerableRun, LoadMailbox, EnqueueSteering, RemoveSteering, agentVars
  <2>2. work'[r] # "tools" => work[r] # "tools"
    <3>1. CASE BeginRun(c)
      <4>1. PICK k \in Runs : WorkAt(k, "none") /\ Goto(k, "reserved")
        BY <3>1 DEF BeginRun
      <4> QED BY <1>0, <4>1 DEF WorkAt, Goto, TypeInv
    <3>2. CASE StartAgent(c)
      <4>1. work[req[c].run] = "reserved" /\ req[c].run \in Runs
        BY <1>0, <3>2 DEF StartAgent, Control, Turn
      <4>2. PICK pc : Goto(req[c].run, pc)
        BY <3>2 DEF StartAgent
      <4> QED BY <1>0, <4>1, <4>2 DEF Goto, TypeInv
    <3>3. CASE work' = work
      BY <3>3
    <3> QED BY <1>6, <3>1, <3>2, <3>3
      DEF ClientStarts, ClientContinues, PrepareSteering, MarkCancelling, CancelAgent, HandOff,
          SteerableRun, LoadMailbox, EnqueueSteering, RemoveSteering, agentVars
  <2>3. box'[r].interactions = box[r].interactions
    <3>1. Quiescent \/ \E k \in Runs : \E e : Changes(k, e) /\ ClientMail(k, e)
      BY <1>0, <1>6, ClientMails DEF IInv
    <3>2. ASSUME NEW k \in Runs, NEW e, Changes(k, e), ClientMail(k, e)
          PROVE  box'[r].interactions = box[r].interactions
      <4>1. MailOK(box[k]) /\ e.interactions = box[k].interactions
        BY <3>2, ClientMailStep DEF IInv, Mail
      <4> QED BY <1>0, <3>2, <4>1 DEF Changes, BoxType
    <3> QED BY <3>1, <3>2 DEF Quiescent
  <2> QED BY <1>1, <1>2, <1>3, <2>1, <2>2, <2>3 DEF CountedAt
<1>7. ASSUME NEW k \in Runs, AgentProceeds(k) \/ AgentChooses(k) \/ EventLoop(k), k # r
      PROVE  CountedAt(r)'
  <2>1. slot'[r] = slot[r]
    BY <1>0, <1>7
    DEF AgentProceeds, AgentChooses, EventLoop, TakeAtTop, TakeBeforeRequest, CallModel,
        TakeAtEnd, ToolsDone, Ask, ToolEnds, ModelAnswers, Fail, RejectPending, FinishRun,
        CloseEvents, UnlockRun, Compact, CallTools, BeginInteraction, FinishInteraction,
        Receive, SetIdle, agentVars, TypeInv
  <2>2. work'[r] = work[r]
    <3>1. CASE EventLoop(k)
      BY <3>1 DEF EventLoop, Receive, SetIdle, agentVars
    <3>2. CASE AgentProceeds(k) \/ AgentChooses(k)
      BY <1>0, <1>7, <3>2, AgentSteps DEF AgentEffect, TypeInv
    <3> QED BY <1>7, <3>1, <3>2
  <2>3. box'[r] = box[r]
    <3>1. Quiescent \/ \E e : Changes(k, e)
      BY <1>0, <1>7, RunMails
    <3> QED BY <1>0, <1>7, <3>1 DEF Quiescent, Changes, BoxType
  <2> QED BY <1>1, <1>2, <1>3, <2>1, <2>2, <2>3 DEF CountedAt
<1>8. ASSUME AgentProceeds(r) \/ AgentChooses(r) \/ EventLoop(r),
             work[r] # "tools" \/ ToolsDone(r), ~CallTools(r),
             \A i \in Slots : ~ToolEnds(r, i) /\ ~Ask(r, i) /\ ~FinishInteraction(r, i)
      PROVE  CountedAt(r)'
  <2>1. slot' = slot /\ AllEnded(r)
    BY <1>1, <1>8
    DEF AgentProceeds, AgentChooses, EventLoop, TakeAtTop, TakeBeforeRequest, CallModel,
        TakeAtEnd, ToolsDone, ModelAnswers, Fail, RejectPending, FinishRun,
        CloseEvents, UnlockRun, Compact, BeginInteraction, Receive, SetIdle, agentVars, WorkAt,
        AllEnded
  <2>2. box'[r].interactions = box[r].interactions
    <3>1. CASE ToolsDone(r)
      <4>1. Take(r, FALSE) /\ work[r] \in Busy
        BY <3>1 DEF ToolsDone, WorkAt, Busy, Working
      <4> QED BY <1>0, <1>4, <2>1, <4>1, TakeMail
    <3>2. CASE work[r] # "tools"
      <4>1. Quiescent \/ \E e : Changes(r, e) /\ RunMail(r, e)
        BY <1>0, <1>8, <3>2, RunMails DEF AskMail
      <4> QED BY <1>4, <4>1 DEF Quiescent
    <3> QED BY <1>8, <3>1, <3>2
  <2> QED BY <1>2, <1>3, <2>1, <2>2 DEF CountedAt
<1>9. ASSUME CallTools(r) PROVE CountedAt(r)'
  <2>1. /\ work' = [work EXCEPT ![r] = "tools"] /\ box' = box
        /\ slot' = [slot EXCEPT ![r] = [i \in Slots |-> "run"]]
        /\ AllEnded(r)
    BY <1>1, <1>9 DEF CallTools, Goto, WorkAt
  <2>2. work'[r] = "tools" /\ slot'[r] = [i \in Slots |-> "run"]
    BY <1>0, <2>1 DEF TypeInv
  <2>3. Open(r) = {} /\ Open(r)' = {}
    BY <2>1, <2>2 DEF Open, AllEnded
  <2> QED BY <1>2, <2>1, <2>2, <2>3 DEF CountedAt
<1>10. ASSUME NEW i \in Slots, Ask(r, i) \/ ToolEnds(r, i) PROVE CountedAt(r)'
  <2>1. /\ work' = work /\ box' = box /\ slot[r][i] # "ended"
        /\ \A k \in Slots : k # i => slot'[r][k] = slot[r][k]
        /\ i \in Open(r)' <=> i \in Open(r)
    BY <1>0, <1>10 DEF Ask, ToolEnds, TypeInv, Open
  <2>2. work[r] = "tools"
    BY <1>1, <2>1 DEF AllEnded
  <2>3. Open(r)' = Open(r)
    BY <2>1 DEF Open
  <2> QED BY <1>2, <2>1, <2>2, <2>3 DEF CountedAt
<1>11. ASSUME NEW i \in Slots, BeginInteraction(r, i) PROVE CountedAt(r)'
  <2>1. /\ work' = work /\ slot[r][i] = "run" /\ slot'[r][i] = "begun" /\ work[r] = "tools"
        /\ \A k \in Slots : k # i => slot'[r][k] = slot[r][k]
    BY <1>0, <1>11 DEF BeginInteraction, TypeInv, WorkAt
  <2>2. Open(r)' = Open(r) \cup {i} /\ i \notin Open(r)
    BY <2>1 DEF Open
  <2>3. box'[r].interactions = box[r].interactions + 1
    <3>1. steering = r
      BY <1>0, <2>1 DEF Control, Points, Busy, Working
    <3>2. box' = [box EXCEPT ![r].interactions = @ + 1]
      BY <1>11, <3>1 DEF BeginInteraction, Found
    <3> QED BY <1>0, <3>2 DEF BoxType, Mailboxes
  <2>4. Cardinality(Open(r)') = Cardinality(Open(r)) + 1
    BY <1>2, <2>2, FS_AddElement
  <2> QED BY <1>2, <2>1, <2>3, <2>4 DEF CountedAt
<1>12. ASSUME NEW i \in Slots, FinishInteraction(r, i) PROVE CountedAt(r)'
  <2>1. /\ work' = work /\ slot[r][i] = "asking" /\ slot'[r][i] = "ended"
        /\ \A k \in Slots : k # i => slot'[r][k] = slot[r][k]
    BY <1>0, <1>12 DEF FinishInteraction, TypeInv
  <2>2. work[r] = "tools"
    BY <1>1, <2>1 DEF AllEnded
  <2>3. Open(r)' = Open(r) \ {i} /\ i \in Open(r)
    BY <2>1 DEF Open
  <2>4. box'[r].interactions = box[r].interactions - 1
    BY <1>0, <1>12 DEF FinishInteraction, BoxType, Mailboxes
  <2>5. Cardinality(Open(r)') = Cardinality(Open(r)) - 1
    BY <1>2, <2>3, FS_RemoveElement
  <2> QED BY <1>2, <2>1, <2>2, <2>4, <2>5 DEF CountedAt
<1>13. ASSUME AgentProceeds(r) \/ AgentChooses(r) \/ EventLoop(r) PROVE CountedAt(r)'
  <2>1. CASE work[r] # "tools" \/ ToolsDone(r)
    BY <1>8, <1>9, <1>10, <1>12, <1>13, <2>1
  <2>2. CASE work[r] = "tools" /\ EventLoop(r)
    <3>1. slot' = slot /\ work' = work /\ box' = box
      BY <2>2 DEF EventLoop, Receive, SetIdle, agentVars
    <3> QED BY <1>1, <1>2, <1>3, <3>1 DEF CountedAt
  <2>3. CASE work[r] = "tools" /\ ~ToolsDone(r) /\ ~EventLoop(r)
    <3>1. \E i \in Slots : Ask(r, i) \/ ToolEnds(r, i) \/ BeginInteraction(r, i)
                             \/ FinishInteraction(r, i)
      BY <1>13, <2>3
      DEF AgentProceeds, AgentChooses, TakeAtTop, TakeBeforeRequest, CallModel,
          TakeAtEnd, ModelAnswers, Fail, RejectPending, FinishRun,
          CloseEvents, UnlockRun, Compact, CallTools, WorkAt
    <3> QED BY <1>10, <1>11, <1>12, <3>1
  <2> QED BY <2>1, <2>2, <2>3
<1> QED BY <1>5, <1>6, <1>7, <1>13 DEF Next

\* The invariant holds initially.
LEMMA InitIInv == Init => IInv
<1> SUFFICES ASSUME Init PROVE IInv
  OBVIOUS
<1>1. <<>> \in Seq(Msgs) /\ <<>> \in Seq({"ask", "busy"})
  BY EmptySeq
<1>2. TypeInv
  <2>1. work \in [Runs -> PCs]
    BY DEF Init, PCs
  <2>2. 0 \in 0 .. MaxBatches /\ MaxRequests \in 0 .. MaxRequests
    BY SteeringAssumption
  <2> HIDE DEF Sess, Reqs, PCs
  <2> QED BY <1>1, <2>1, <2>2, IdleType, ReadyType DEF Init, TypeInv
<1>3. Mail /\ BoxType
  BY NewMailboxOK DEF Init, Mail, BoxType, MailOK
<1>4. Control
  BY DEF Init, Control, Turn, Points, Late, Ready, Idle, Busy, Working
<1>5. Fresh
  BY DEF Init, Fresh, Ready
<1>6. Counted
  <2> SUFFICES ASSUME NEW r \in Runs
               PROVE  AllEnded(r) /\ box[r].interactions = Cardinality(Open(r))
    BY DEF Counted
  <2>1. AllEnded(r) /\ Open(r) = {} /\ box[r].interactions = 0
    BY DEF Init, AllEnded, Open, NewMailbox
  <2> QED BY <2>1, FS_EmptySet
<1>7. SealedAtEnd
  BY DEF Init, SealedAtEnd, Ended
<1> QED BY <1>2, <1>3, <1>4, <1>5, <1>6, <1>7 DEF IInv

\* The invariant is inductive.
THEOREM StepIInv == IInv /\ [Next]_vars => IInv'
<1> SUFFICES ASSUME IInv, [Next]_vars PROVE IInv'
  OBVIOUS
<1>1. TypeInv' /\ Control'
  BY TypeStep, ControlStep DEF IInv
<1> QED
  BY <1>1, MailPreserved, FreshPreserved, CountedPreserved, SealedPreserved DEF IInv

\* The invariant holds in every reachable state.
THEOREM Invariance == Spec => []IInv
BY InitIInv, StepIInv, PTL DEF Spec

-----------------------------------------------------------------------------
(* The results.                                                            *)

\* Every variable keeps its type; no interaction is given back twice.
THEOREM TypeCorrect == Spec => []TypeOK
<1>1. IInv => TypeOK
  BY TypeOKParts DEF IInv
<1> QED BY <1>1, Invariance, PTL

\* A run that ended has decided every message it accepted and accepts no more.
THEOREM DecidedCorrect == Spec => []DecidedAtEnd
<1>1. ASSUME IInv PROVE DecidedAtEnd
  <2> SUFFICES ASSUME NEW r \in Runs, work[r] \in Ended
               PROVE  box[r].sealed /\ \A m \in Msgs : box[r].state[m] # "queued"
    BY DEF DecidedAtEnd
  <2>1. box[r].sealed /\ MailOK(box[r])
    BY <1>1 DEF IInv, SealedAtEnd, Mail
  <2>2. box[r].items = <<>>
    BY <2>1 DEF MailOK
  <2>3. Len(box[r].items) = 0
    BY <2>2, EmptySeq
  <2> QED BY <2>1, <2>3 DEF MailOK, Complete
<1> QED BY <1>1, Invariance, PTL

\* While a question is open, nothing enters or leaves the run's queue.
THEOREM QuietCorrect == Spec => QuietWhileAsking
<1>1. ASSUME IInv, [Next]_vars, NEW r \in Runs, NEW i \in Slots, slot[r][i] = "asking"
      PROVE  box'[r].items = box[r].items
  <2>1. box \in [Runs -> Mailboxes] /\ MailOK(box[r])
    BY <1>1 DEF IInv, BoxType, Mail
  <2>2. ~AllEnded(r)
    BY <1>1 DEF AllEnded
  <2>3. box[r].interactions # 0
    <3>1. Open(r) # {} /\ IsFiniteSet(Open(r)) /\ box[r].interactions = Cardinality(Open(r))
      BY <1>1, OpenFinite DEF Open, IInv, Counted
    <3> QED BY <3>1, FS_EmptySet
  <2>4. ASSUME NEW k \in Runs, NEW e, Changes(k, e),
               ClientMail(k, e) \/ RunMail(k, e) \/ AskMail(k, e)
        PROVE  box'[r].items = box[r].items
    <3>1. CASE k # r
      BY <2>1, <2>4, <3>1 DEF Changes
    <3>2. CASE k = r
      <4>1. AskMail(r, e)
        BY <2>2, <2>3, <2>4, <3>2 DEF ClientMail, RunMail
      <4>2. e.items = box[r].items
        BY <2>1, <4>1, AskMailStep
      <4> QED BY <2>1, <2>4, <3>2, <4>2 DEF Changes
    <3> QED BY <3>1, <3>2
  <2> QED BY <1>1, <2>4, MailChanges DEF Quiescent
<1>2. IInv /\ [Next]_vars => [\A r \in Runs : (\E i \in Slots : slot[r][i] = "asking")
                                => box'[r].items = box[r].items]_vars
  BY <1>1
<1> QED BY <1>2, Invariance, PTL DEF Spec, QuietWhileAsking

\* However slow a request is, it only changes the mailbox of the run it names.
THEOREM RequestCorrect == Spec => RequestKeepsToItsRun
<1>1. ASSUME IInv, Next, NEW c \in Conns, NEW r \in Runs,
             req[c].pc = "act", req'[c].pc = "ready", req[c].run # r
      PROVE  box'[r] = box[r]
  <2>0. req \in [Conns -> Reqs] /\ box \in [Runs -> Mailboxes]
    BY <1>1 DEF IInv, TypeInv, BoxType
  <2>1. req' # req
    BY <1>1
  <2>2. PICK d \in Conns : ClientStarts(d) \/ ClientContinues(d)
    <3>1. ASSUME NEW k \in Runs, AgentProceeds(k) \/ AgentChooses(k) PROVE FALSE
      BY <1>1, <2>1, <3>1, AgentSteps DEF AgentEffect, IInv
    <3>2. ASSUME NEW k \in Runs, EventLoop(k) PROVE FALSE
      BY <2>1, <3>2 DEF EventLoop, Receive, SetIdle
    <3> QED BY <1>1, <3>1, <3>2 DEF Next
  <2>3. d = c
    <3>1. \A f \in Conns : f # d => req'[f] = req[f]
      BY <2>0, <2>2
      DEF ClientStarts, ClientContinues, BeginRun, PrepareSteering, StartAgent, MarkCancelling,
          CancelAgent, HandOff, SteerableRun, LoadMailbox, EnqueueSteering, RemoveSteering, Return
    <3> QED BY <1>1, <3>1
  <2>4. EnqueueSteering(c) \/ RemoveSteering(c)
    BY <1>1, <2>1, <2>2, <2>3
    DEF ClientStarts, ClientContinues, BeginRun, PrepareSteering, StartAgent, MarkCancelling,
        CancelAgent, HandOff, SteerableRun, LoadMailbox, Request
  <2>5. CASE Meant(c)
    <3>1. req[c].pointer = req[c].run
      BY <2>5 DEF Meant, Found
    <3>2. box' = box \/ \E e : box' = [box EXCEPT ![req[c].pointer] = e]
      BY <2>4 DEF EnqueueSteering, RemoveSteering
    <3> QED BY <1>1, <2>0, <3>1, <3>2
  <2>6. CASE ~Meant(c)
    <3>1. box' = box
      BY <2>4, <2>6 DEF EnqueueSteering, RemoveSteering
    <3> QED BY <3>1
  <2> QED BY <2>5, <2>6
<1>2. IInv /\ [Next]_vars =>
        [\A c \in Conns, r \in Runs :
           req[c].pc = "act" /\ req'[c].pc = "ready" /\ req[c].run # r => box'[r] = box[r]]_vars
  BY <1>1
<1> QED BY <1>2, Invariance, PTL DEF Spec, RequestKeepsToItsRun

-----------------------------------------------------------------------------
(* The refinement of MessageFate.                                          *)

\* The instance's Cardinality is the one of this module.
LEMMA FateCardinality == \A S : Fate!Cardinality(S) = Cardinality(S)
BY DEF Fate!Cardinality, Cardinality

\* The mailbox's queue is the order that MessageFate speaks of.
LEMMA QueueInOrder ==
  ASSUME BoxType, NEW r \in Runs, MailOK(box[r])
  PROVE  /\ box[r].items \in Fate!InOrder(r)
         /\ box[r].items = <<>> <=> Fate!Queued(r) = {}
<1> DEFINE q == box[r].items
           n == Len(q)
           S == {m \in Msgs : box[r].state[m] = "queued"}
<1>1. Fate!Queued(r) = S
  BY DEF Fate!Queued
<1>2. q \in Seq(Msgs) /\ n \in Nat /\ DOMAIN q = 1 .. n /\ \A i \in 1 .. n : q[i] \in Msgs
  BY LenProperties, ElementOfSeq DEF MailOK, Mailboxes
<1>3. \A i \in 1 .. n : q[i] \in S
  BY <1>2 DEF MailOK, Holding
<1>4. \A m \in S : \E i \in 1 .. n : q[i] = m
  BY DEF MailOK, Complete
<1>5. \A i, j \in 1 .. n : q[i] = q[j] => i = j
  BY DistinctItems
<1>6. q \in [1 .. n -> Msgs]
  BY <1>2, LenProperties
<1> HIDE DEF S, q
<1>7. q \in [1 .. n -> S]
  BY <1>3, <1>6
<1>8. q \in Bijection(1 .. n, S)
  BY <1>4, <1>5, <1>7 DEF Bijection, Injection, Surjection, IsInjective
<1>9. Cardinality(S) = n
  <2>1. IsFiniteSet(1 .. n) /\ Cardinality(1 .. n) = n
    BY <1>2, FS_Interval
  <2>2. ExistsBijection(1 .. n, S)
    BY <1>8 DEF ExistsBijection
  <2> QED BY <2>1, <2>2, FS_Bijection
<1>10. \A i, j \in 1 .. n : i < j => box[r].number[q[i]] < box[r].number[q[j]]
  BY DEF MailOK, Sorted, q
<1>11. q \in Fate!InOrder(r)
  BY <1>1, <1>7, <1>9, <1>10, FateCardinality DEF Fate!InOrder
<1>12. q = <<>> <=> S = {}
  <2>1. q = <<>> <=> n = 0
    BY <1>2, EmptySeq
  <2>2. n = 0 => S = {}
    BY <1>4
  <2>3. n # 0 => S # {}
    <3>1. n # 0 => 1 \in 1 .. n
      BY <1>2
    <3> QED BY <1>3, <3>1
  <2> QED BY <2>1, <2>2, <2>3
<1> QED BY <1>1, <1>11, <1>12 DEF q

\* What one changed mailbox means for the abstract variables.
LEMMA FateVars ==
  ASSUME BoxType, BoxType', NEW r \in Runs, NEW e, Changes(r, e)
  PROVE  /\ [k \in Runs |-> box'[k].state] = [[k \in Runs |-> box[k].state] EXCEPT ![r] = e.state]
         /\ [k \in Runs |-> box'[k].number] = [[k \in Runs |-> box[k].number] EXCEPT ![r] = e.number]
         /\ e.state = box[r].state =>
              [k \in Runs |-> box'[k].state] = [k \in Runs |-> box[k].state]
         /\ e.number = box[r].number =>
              [k \in Runs |-> box'[k].number] = [k \in Runs |-> box[k].number]
         /\ {k \in Runs : box'[k].sealed} =
              IF e.sealed THEN {k \in Runs : box[k].sealed} \cup {r}
                ELSE {k \in Runs : box[k].sealed} \ {r}
BY DEF BoxType, Changes

\* A client's message or withdrawal is a step of MessageFate.
LEMMA ClientFate ==
  ASSUME IInv, [Next]_vars, NEW r \in Runs, NEW e, Changes(r, e), ClientMail(r, e)
  PROVE  Fate!Next
<1>0. BoxType /\ BoxType' /\ MailOK(box[r]) /\ applied' = applied
  BY MailPreserved DEF IInv, Mail, ClientMail
<1>1. ASSUME NEW m \in Msgs, NEW s \in Nat, box[r].state[m] = "none", ~box[r].sealed,
             e = Enqueued(box[r], m, s)
      PROVE  Fate!Accept(r, m)
  <2>1. /\ e.sealed = FALSE /\ e.state = [box[r].state EXCEPT ![m] = "queued"]
        /\ e.number = [box[r].number EXCEPT ![m] = box[r].next + 1]
    BY <1>0, <1>1, EnqueuedOK
  <2>2. /\ box'[r] = e
        /\ box[r].number \in [Msgs -> Nat] /\ box[r].next \in Nat
        /\ \A k \in Msgs : box[r].number[k] <= box[r].next
    BY <1>0, <1>1 DEF Changes, BoxType, Mailboxes, MailOK
  <2>3. e.number[m] = box[r].next + 1
    BY <2>1, <2>2
  <2>4. \A k \in Msgs : box[r].number[k] < e.number[m]
    BY <2>2, <2>3
  <2>5. {k \in Runs : box'[k].sealed} = {k \in Runs : box[k].sealed}
    BY <1>0, <1>1, <2>1, FateVars
  <2>6. [k \in Runs |-> box'[k].state] = [[k \in Runs |-> box[k].state] EXCEPT ![r][m] = "queued"]
    <3>1. [k \in Runs |-> box'[k].state] = [[k \in Runs |-> box[k].state] EXCEPT ![r] = e.state]
      BY <1>0, FateVars
    <3> QED BY <2>1, <3>1
  <2>7. [k \in Runs |-> box'[k].number] =
          [[k \in Runs |-> box[k].number] EXCEPT ![r][m] = box'[r].number[m]]
    <3>1. [k \in Runs |-> box'[k].number] = [[k \in Runs |-> box[k].number] EXCEPT ![r] = e.number]
      BY <1>0, FateVars
    <3> QED BY <2>1, <2>2, <2>3, <3>1
  <2> QED BY <1>0, <1>1, <2>2, <2>4, <2>5, <2>6, <2>7 DEF Fate!Accept
<1>2. ASSUME NEW p \in 1 .. Len(box[r].items), e = Removed(box[r], p)
      PROVE  \E m \in Msgs : Fate!Withdraw(r, m)
  <2>0. box[r].items[p] \in Msgs
    BY <1>0, LenProperties, ElementOfSeq DEF MailOK, Mailboxes
  <2> PICK m \in Msgs : m = box[r].items[p]
    BY <2>0
  <2>1. /\ e.sealed = box[r].sealed /\ e.state = [box[r].state EXCEPT ![m] = "removed"]
        /\ e.number = box[r].number
    BY <1>0, <1>2, RemovedOK
  <2>2. box[r].state[m] = "queued"
    BY <1>0 DEF MailOK, Holding
  <2>3. ~box[r].sealed
    <3>1. box[r].items # <<>>
      BY EmptySeq
    <3> QED BY <1>0, <3>1 DEF MailOK
  <2>4. {k \in Runs : box'[k].sealed} = {k \in Runs : box[k].sealed}
    BY <1>0, <2>1, <2>3, FateVars
  <2>5. [k \in Runs |-> box'[k].number] = [k \in Runs |-> box[k].number]
    BY <1>0, <2>1, FateVars
  <2>6. [k \in Runs |-> box'[k].state] = [[k \in Runs |-> box[k].state] EXCEPT ![r][m] = "removed"]
    <3>1. [k \in Runs |-> box'[k].state] = [[k \in Runs |-> box[k].state] EXCEPT ![r] = e.state]
      BY <1>0, FateVars
    <3> QED BY <2>1, <3>1
  <2>7. Fate!Withdraw(r, m)
    BY <1>0, <2>2, <2>3, <2>4, <2>5, <2>6 DEF Fate!Withdraw
  <2> QED BY <2>7
<1> QED BY <1>1, <1>2 DEF ClientMail, Fate!Next

\* Taking, rejecting and sealing are steps of MessageFate.
LEMMA RunFate ==
  ASSUME IInv, [Next]_vars, NEW r \in Runs, NEW e, Changes(r, e), RunMail(r, e)
  PROVE  [Fate!Next]_(Fate!vars)
<1>0. BoxType /\ BoxType' /\ MailOK(box[r]) /\ box[r].state \in [Msgs -> Fate!Fates]
  BY MailPreserved DEF IInv, Mail, MailOK, Mailboxes, Fate!Fates
<1>1. ASSUME NEW f \in {"applied", "rejected"},
             e.state = [m \in Msgs |-> IF box[r].state[m] = "queued" THEN f ELSE box[r].state[m]]
      PROVE  Fate!Decide(r, f)
  <2>1. [k \in Runs |-> box'[k].state] = [[k \in Runs |-> box[k].state] EXCEPT ![r] = e.state]
    BY <1>0, FateVars
  <2> QED BY <1>1, <2>1 DEF Fate!Decide
<1>2. ASSUME NEW seal \in BOOLEAN, e = Taken(box[r], seal),
             applied' = [applied EXCEPT ![r] = @ \o box[r].items], box[r].items # <<>>
      PROVE  Fate!Apply(r)
  <2>1. /\ e.sealed = FALSE /\ e.number = box[r].number
        /\ e.state = [m \in Msgs |-> IF box[r].state[m] = "queued" THEN "applied"
                                       ELSE box[r].state[m]]
    <3>1. /\ Taken(box[r], seal).sealed = FALSE /\ Taken(box[r], seal).number = box[r].number
          /\ Taken(box[r], seal).state = [m \in Msgs |-> IF box[r].state[m] = "queued"
                                                           THEN "applied" ELSE box[r].state[m]]
      <4>1. MailOK(box[r]) /\ box[r].items # <<>>
        BY <1>0, <1>2
      <4>2. CASE seal = TRUE
        BY <4>1, <4>2, TakenOK
      <4>3. CASE seal = FALSE
        BY <4>1, <4>3, TakenOK
      <4> QED BY <4>2, <4>3
    <3> QED BY <1>2, <3>1
  <2>2. ~box[r].sealed
    BY <1>0, <1>2 DEF MailOK
  <2>3. /\ {k \in Runs : box'[k].sealed} = {k \in Runs : box[k].sealed}
        /\ [k \in Runs |-> box'[k].number] = [k \in Runs |-> box[k].number]
    BY <1>0, <2>1, <2>2, FateVars
  <2>4. box[r].items \in Fate!InOrder(r) /\ Fate!Queued(r) # {}
    BY <1>0, <1>2, QueueInOrder
  <2>5. Fate!Decide(r, "applied")
    BY <1>1, <2>1
  <2> QED BY <1>2, <2>2, <2>3, <2>4, <2>5 DEF Fate!Apply
<1>3. ASSUME NEW seal \in BOOLEAN, e = Taken(box[r], seal),
             applied' = [applied EXCEPT ![r] = @ \o box[r].items], box[r].items = <<>>
      PROVE  Fate!End(r) \/ UNCHANGED Fate!vars
  <2>1. /\ e.sealed = (box[r].sealed \/ seal) /\ e.number = box[r].number
        /\ e.state = box[r].state
    <3>1. /\ Taken(box[r], seal).sealed = (box[r].sealed \/ seal)
          /\ Taken(box[r], seal).number = box[r].number
          /\ Taken(box[r], seal).state = box[r].state
      <4>1. MailOK(box[r]) /\ box[r].items = <<>>
        BY <1>0, <1>3
      <4>2. CASE seal = TRUE
        BY <4>1, <4>2, TakenOK
      <4>3. CASE seal = FALSE
        BY <4>1, <4>3, TakenOK
      <4> QED BY <4>2, <4>3
    <3> QED BY <1>3, <3>1
  <2>2. applied' = applied
    <3>1. applied \in [Runs -> Seq(Msgs)]
      BY DEF IInv, TypeInv
    <3>2. applied[r] \o <<>> = applied[r]
      BY <3>1, ConcatEmptySeq
    <3> QED BY <1>3, <3>1, <3>2
  <2>3. /\ [k \in Runs |-> box'[k].number] = [k \in Runs |-> box[k].number]
        /\ [k \in Runs |-> box'[k].state] = [k \in Runs |-> box[k].state]
    BY <1>0, <2>1, FateVars
  <2>4. CASE ~e.sealed
    <3>1. {k \in Runs : box'[k].sealed} = {k \in Runs : box[k].sealed}
      BY <1>0, <2>1, <2>4, FateVars
    <3> QED BY <2>2, <2>3, <3>1 DEF Fate!vars
  <2>5. CASE e.sealed
    <3>1. {k \in Runs : box'[k].sealed} = {k \in Runs : box[k].sealed} \cup {r}
      BY <1>0, <2>5, FateVars
    <3>2. Fate!Queued(r) = {}
      BY <1>0, <1>3, QueueInOrder
    <3>3. \A m \in Msgs : box[r].state[m] # "queued"
      BY <3>2 DEF Fate!Queued
    <3>4. e.state = [m \in Msgs |-> IF box[r].state[m] = "queued" THEN "rejected"
                                      ELSE box[r].state[m]]
      BY <1>0, <2>1, <3>3
    <3>5. Fate!Decide(r, "rejected")
      BY <1>1, <3>4
    <3> QED BY <2>2, <2>3, <3>1, <3>5 DEF Fate!End
  <2> QED BY <2>4, <2>5
<1>4. ASSUME e = RejectedAll(box[r]), applied' = applied
      PROVE  Fate!End(r)
  <2>1. /\ e.sealed = TRUE /\ e.number = box[r].number
        /\ e.state = [m \in Msgs |-> IF box[r].state[m] = "queued" THEN "rejected"
                                       ELSE box[r].state[m]]
    BY <1>0, <1>4, RejectedAllOK
  <2>2. /\ {k \in Runs : box'[k].sealed} = {k \in Runs : box[k].sealed} \cup {r}
        /\ [k \in Runs |-> box'[k].number] = [k \in Runs |-> box[k].number]
    BY <1>0, <2>1, FateVars
  <2>3. Fate!Decide(r, "rejected")
    BY <1>1, <2>1
  <2> QED BY <1>4, <2>2, <2>3 DEF Fate!End
<1> QED BY <1>2, <1>3, <1>4 DEF RunMail, Fate!Next

\* Every step of the program is a step of MessageFate or changes nothing of it.
LEMMA FateStep == IInv /\ [Next]_vars => [Fate!Next]_(Fate!vars)
<1> SUFFICES ASSUME IInv, [Next]_vars PROVE [Fate!Next]_(Fate!vars)
  OBVIOUS
<1>1. CASE Quiescent
  BY <1>1 DEF Quiescent, Fate!vars
<1>2. ASSUME NEW r \in Runs, NEW e, Changes(r, e), AskMail(r, e)
      PROVE  UNCHANGED Fate!vars
  <2>1. BoxType /\ BoxType' /\ MailOK(box[r]) /\ applied' = applied
    BY <1>2, MailPreserved DEF IInv, Mail, AskMail
  <2>2. e.state = box[r].state /\ e.number = box[r].number /\ e.sealed = box[r].sealed
    BY <1>2, <2>1, AskMailStep
  <2>3. {k \in Runs : box'[k].sealed} = {k \in Runs : box[k].sealed}
    BY <1>2, <2>1, <2>2, FateVars
  <2>4. /\ [k \in Runs |-> box'[k].number] = [k \in Runs |-> box[k].number]
        /\ [k \in Runs |-> box'[k].state] = [k \in Runs |-> box[k].state]
    BY <1>2, <2>1, <2>2, FateVars
  <2> QED BY <2>1, <2>3, <2>4 DEF Fate!vars
<1> QED BY <1>1, <1>2, ClientFate, RunFate, MailChanges

\* The initial states map to initial states of MessageFate.
LEMMA FateInit == Init => Fate!Init
BY DEF Init, NewMailbox, Fate!Init

\* The mailboxes and the boundaries of the run keep what MessageFate promises:
\* each accepted message meets one fate, and the order of acceptance is kept.
THEOREM FateKept == Spec => KeepsItsPromise
BY FateInit, FateStep, Invariance, PTL DEF Spec, KeepsItsPromise, Fate!Spec

-----------------------------------------------------------------------------
(* The model saw every message it was to see.                              *)

Failed == {"failed", "close", "unlock", "ended"}

\* The last model request contained all that was applied.
SeenAll == \A r \in Runs : work[r] \in {"llm", "answered", "done"} => seen[r] = Len(applied[r])
\* What is called applied is in the working memory.
InContext ==
  \A r \in Runs, m \in Msgs :
    box[r].state[m] = "applied" => \E i \in 1 .. Len(applied[r]) : applied[r][i] = m
\* Nothing is rejected before the run failed.
RejectedLate ==
  \A r \in Runs, m \in Msgs : box[r].state[m] = "rejected" => work[r] \in Failed

Shown == SeenAll /\ InContext /\ RejectedLate

\* What is called applied is, and stays, in the working memory.
LEMMA InContextStep ==
  ASSUME IInv, InContext, [Next]_vars
  PROVE  InContext'
<1>0. /\ applied \in [Runs -> Seq(Msgs)] /\ box \in [Runs -> Mailboxes]
      /\ \A r \in Runs : MailOK(box[r])
  BY DEF IInv, TypeInv, BoxType, Mail
<1>1. CASE Quiescent
  BY <1>1 DEF Quiescent, InContext
<1>2. ASSUME NEW r \in Runs, NEW e, Changes(r, e), applied' = applied,
             \A m \in Msgs : e.state[m] = "applied" => box[r].state[m] = "applied"
      PROVE  InContext'
  <2>1. \A k \in Runs, m \in Msgs : box'[k].state[m] = "applied" => box[k].state[m] = "applied"
    BY <1>0, <1>2 DEF Changes
  <2> QED BY <1>2, <2>1 DEF InContext
<1>3. ASSUME NEW r \in Runs, NEW e, Changes(r, e), ClientMail(r, e)
      PROVE  InContext'
  <2>1. ASSUME NEW m \in Msgs, NEW s \in Nat, box[r].state[m] = "none", ~box[r].sealed,
               e = Enqueued(box[r], m, s)
        PROVE  \A k \in Msgs : e.state[k] = "applied" => box[r].state[k] = "applied"
    <3>1. e.state = [box[r].state EXCEPT ![m] = "queued"]
      BY <1>0, <2>1, EnqueuedOK
    <3> QED BY <1>0, <3>1 DEF Mailboxes
  <2>2. ASSUME NEW p \in 1 .. Len(box[r].items), e = Removed(box[r], p)
        PROVE  \A k \in Msgs : e.state[k] = "applied" => box[r].state[k] = "applied"
    <3>1. e.state = [box[r].state EXCEPT ![box[r].items[p]] = "removed"]
      BY <1>0, <2>2, RemovedOK
    <3> QED BY <1>0, <3>1 DEF Mailboxes
  <2> QED BY <1>2, <1>3, <2>1, <2>2 DEF ClientMail
<1>4. ASSUME NEW r \in Runs, NEW e, Changes(r, e), AskMail(r, e)
      PROVE  InContext'
  <2>1. e.state = box[r].state /\ applied' = applied
    BY <1>0, <1>4, AskMailStep DEF AskMail
  <2> QED BY <1>2, <1>4, <2>1
<1>5. ASSUME NEW r \in Runs, NEW e, Changes(r, e), e = RejectedAll(box[r]), applied' = applied
      PROVE  InContext'
  <2>1. e.state = [m \in Msgs |-> IF box[r].state[m] = "queued" THEN "rejected"
                                    ELSE box[r].state[m]]
    BY <1>0, <1>5, RejectedAllOK
  <2> QED BY <1>2, <1>5, <2>1
<1>6. ASSUME NEW r \in Runs, NEW e, Changes(r, e), NEW seal \in BOOLEAN, e = Taken(box[r], seal),
             applied' = [applied EXCEPT ![r] = @ \o box[r].items]
      PROVE  InContext'
  <2> DEFINE a == applied[r]
             q == box[r].items
  <2>1. a \in Seq(Msgs) /\ q \in Seq(Msgs) /\ Len(a) \in Nat /\ Len(q) \in Nat
    BY <1>0, LenProperties DEF Mailboxes
  <2>2. /\ Len(a \o q) = Len(a) + Len(q)
        /\ \A i \in 1 .. Len(a) + Len(q) : (a \o q)[i] = IF i <= Len(a) THEN a[i]
                                                                          ELSE q[i - Len(a)]
    BY <2>1, ConcatProperties
  <2>3. applied'[r] = a \o q /\ \A k \in Runs : k # r => applied'[k] = applied[k]
    BY <1>0, <1>6
  <2>4. box'[r] = e /\ \A k \in Runs : k # r => box'[k] = box[k]
    BY <1>0, <1>6 DEF Changes
  <2>5. \A m \in Msgs : e.state[m] = "applied" => box[r].state[m] \in {"applied", "queued"}
    <3>1. CASE box[r].items = <<>>
      <4>1. CASE seal = TRUE
        BY <1>0, <1>6, <3>1, <4>1, TakenOK
      <4>2. CASE seal = FALSE
        BY <1>0, <1>6, <3>1, <4>2, TakenOK
      <4> QED BY <4>1, <4>2
    <3>2. CASE box[r].items # <<>>
      <4>1. e.state = [m \in Msgs |-> IF box[r].state[m] = "queued" THEN "applied"
                                        ELSE box[r].state[m]]
        <5>1. CASE seal = TRUE
          BY <1>0, <1>6, <3>2, <5>1, TakenOK
        <5>2. CASE seal = FALSE
          BY <1>0, <1>6, <3>2, <5>2, TakenOK
        <5> QED BY <5>1, <5>2
      <4> QED BY <4>1
    <3> QED BY <3>1, <3>2
  <2>6. \A m \in Msgs : box[r].state[m] = "queued" => \E i \in 1 .. Len(q) : q[i] = m
    BY <1>0 DEF MailOK, Complete
  <2>7. \A m \in Msgs : box[r].state[m] = "applied" => \E i \in 1 .. Len(a) : a[i] = m
    BY DEF InContext
  <2> HIDE DEF a, q
  <2>8. ASSUME NEW m \in Msgs, e.state[m] = "applied"
        PROVE  \E i \in 1 .. Len(a \o q) : (a \o q)[i] = m
    <3>1. CASE box[r].state[m] = "applied"
      <4>1. PICK i \in 1 .. Len(a) : a[i] = m
        BY <2>7, <3>1
      <4>2. i \in 1 .. Len(a \o q) /\ i <= Len(a)
        BY <2>1, <2>2
      <4> QED BY <2>2, <4>1, <4>2
    <3>2. CASE box[r].state[m] = "queued"
      <4>1. PICK i \in 1 .. Len(q) : q[i] = m
        BY <2>6, <3>2
      <4>2. Len(a) + i \in 1 .. Len(a) + Len(q) /\ ~(Len(a) + i <= Len(a)) /\ Len(a) + i - Len(a) = i
        BY <2>1
      <4>3. (a \o q)[Len(a) + i] = m
        BY <2>2, <4>1, <4>2
      <4> QED BY <2>2, <4>2, <4>3
    <3> QED BY <2>5, <2>8, <3>1, <3>2
  <2> QED BY <2>3, <2>4, <2>8 DEF InContext
<1> QED BY <1>1, <1>3, <1>4, <1>5, <1>6, MailChanges DEF RunMail

\* What a step does to the run of the step, and what it leaves of the others.
Asked == {"llm", "answered", "done"}
Shows(r) ==
  /\ work[r] \in Failed => work'[r] \in Failed
  /\ work'[r] \in Asked => seen'[r] = Len(applied'[r])

\* A run's own step: only a model request shows messages, and a failed run stays failed.
LEMMA RunShows ==
  ASSUME IInv, SeenAll, NEW r \in Runs, AgentProceeds(r) \/ AgentChooses(r) \/ EventLoop(r)
  PROVE  Shows(r) /\ \A k \in Runs : k # r => /\ work'[k] = work[k] /\ seen'[k] = seen[k]
                                              /\ applied'[k] = applied[k]
<1>0. /\ work \in [Runs -> PCs] /\ applied \in [Runs -> Seq(Msgs)] /\ seen \in [Runs -> Nat]
      /\ box[r].items \in Seq(Msgs)
  BY DEF IInv, TypeInv, BoxType, Mailboxes
<1>1. work[r] \in Asked => seen[r] = Len(applied[r])
  BY DEF SeenAll, Asked
<1> DEFINE Rest == \A k \in Runs : k # r => /\ work'[k] = work[k] /\ seen'[k] = seen[k]
                                            /\ applied'[k] = applied[k]
<1>2. ASSUME NEW seal \in BOOLEAN, Take(r, seal)
      PROVE  \/ applied' = applied
             \/ applied' = [applied EXCEPT ![r] = @ \o box[r].items]
  BY <1>2 DEF Take
<1>3. ASSUME NEW seal \in BOOLEAN, Take(r, seal), seen' = seen, work[r] \notin Failed,
             NEW pc \in PCs \ Asked, work' = [work EXCEPT ![r] = pc]
      PROVE  Shows(r) /\ Rest
  BY <1>0, <1>2, <1>3 DEF Shows
<1>4. ASSUME seen' = seen, applied' = applied, work[r] \notin Failed,
             NEW pc \in PCs, pc \in Asked => work[r] \in Asked, work' = [work EXCEPT ![r] = pc]
      PROVE  Shows(r) /\ Rest
  BY <1>0, <1>1, <1>4 DEF Shows
<1>5. ASSUME seen' = seen, applied' = applied,
             NEW pc \in Failed, work' = [work EXCEPT ![r] = pc]
      PROVE  Shows(r) /\ Rest
  BY <1>0, <1>5 DEF Shows, Asked, Failed
<1>6. ASSUME seen' = seen, applied' = applied, work' = work PROVE Shows(r) /\ Rest
  BY <1>1, <1>6 DEF Shows
<1> USE DEF WorkAt, Goto
<1>7. CASE TakeAtTop(r) \/ TakeBeforeRequest(r) \/ ToolsDone(r)
  <2>1. /\ work[r] \in {"top", "prepared", "compact", "tools"} /\ seen' = seen
        /\ Take(r, FALSE)
        /\ \E pc \in {"prepared", "call", "top"} : work' = [work EXCEPT ![r] = pc]
    BY <1>7 DEF TakeAtTop, TakeBeforeRequest, ToolsDone
  <2>2. /\ work[r] \notin Failed
        /\ {"prepared", "call", "top"} \subseteq PCs \ Asked
    BY <2>1 DEF Failed, PCs, Working, Asked
  <2> QED BY <1>3, <2>1, <2>2
<1>8. CASE TakeAtEnd(r)
  <2>1. work[r] = "answered" /\ seen' = seen /\ Take(r, TRUE)
    BY <1>8 DEF TakeAtEnd
  <2>2. work[r] \notin Failed /\ "top" \in PCs \ Asked /\ "done" \in PCs
    BY <2>1 DEF Failed, PCs, Working, Ended, Asked
  <2>3. CASE Takes(r)
    <3>1. work' = [work EXCEPT ![r] = "top"]
      BY <1>8, <2>3 DEF TakeAtEnd
    <3> QED BY <1>3, <2>1, <2>2, <3>1
  <2>4. CASE ~Takes(r)
    <3>1. work' = [work EXCEPT ![r] = "done"]
      BY <1>8, <2>4 DEF TakeAtEnd
    <3>2. applied' = applied
      <4>1. CASE Found(steering, r)
        <5>1. box[r].items = <<>> /\ applied' = [applied EXCEPT ![r] = @ \o box[r].items]
          BY <2>1, <2>4, <4>1 DEF Take, Takes
        <5>2. applied[r] \o <<>> = applied[r]
          BY <1>0, EmptySeq, ConcatEmptySeq
        <5> QED BY <1>0, <5>1, <5>2
      <4>2. CASE ~Found(steering, r)
        BY <2>1, <4>2 DEF Take
      <4> QED BY <4>1, <4>2
    <3>3. "done" \in Asked => work[r] \in Asked
      BY <2>1 DEF Asked
    <3> QED BY <1>4, <2>1, <2>2, <3>1, <3>2, <3>3
  <2> QED BY <2>3, <2>4
<1>9. CASE CallModel(r)
  <2>1. /\ work[r] = "call" /\ seen' = [seen EXCEPT ![r] = Len(applied[r])]
        /\ work' = [work EXCEPT ![r] = "llm"] /\ applied' = applied
    BY <1>9 DEF CallModel
  <2> QED BY <1>0, <2>1 DEF Shows, Failed
<1>10. CASE Compact(r) \/ ModelAnswers(r) \/ CallTools(r) \/ Fail(r)
  <2>1. /\ work[r] \in {"top", "prepared", "compact", "llm"} /\ seen' = seen
        /\ applied' = applied
        /\ \E pc \in {"compact", "answered", "tools", "failing"} :
             /\ work' = [work EXCEPT ![r] = pc]
             /\ pc = "answered" => work[r] = "llm"
    BY <1>10 DEF Compact, ModelAnswers, CallTools, Fail
  <2>2. work[r] \notin Failed /\ {"compact", "answered", "tools", "failing"} \subseteq PCs
    BY <2>1 DEF Failed, PCs, Working
  <2>3. PICK pc \in {"compact", "answered", "tools", "failing"} :
             /\ work' = [work EXCEPT ![r] = pc]
             /\ pc = "answered" => work[r] = "llm"
    BY <2>1
  <2>4. pc \in Asked => work[r] \in Asked
    BY <2>3 DEF Asked
  <2> QED BY <1>4, <2>1, <2>2, <2>3, <2>4
<1>11. CASE RejectPending(r) \/ FinishRun(r) \/ CloseEvents(r) \/ UnlockRun(r)
  <2>1. /\ seen' = seen /\ applied' = applied
        /\ \E pc \in {"failed", "close", "unlock", "ended"} : work' = [work EXCEPT ![r] = pc]
    BY <1>11 DEF RejectPending, FinishRun, CloseEvents, UnlockRun
  <2> QED BY <1>5, <2>1 DEF Failed
<1>12. CASE EventLoop(r) \/ \E i \in Slots : \/ Ask(r, i) \/ ToolEnds(r, i)
                                             \/ BeginInteraction(r, i)
                                             \/ FinishInteraction(r, i)
  <2>1. seen' = seen /\ applied' = applied /\ work' = work
    BY <1>12
    DEF EventLoop, Receive, SetIdle, agentVars, Ask, ToolEnds, BeginInteraction,
        FinishInteraction
  <2> QED BY <1>6, <2>1
<1> QED
  BY <1>7, <1>8, <1>9, <1>10, <1>11, <1>12 DEF AgentProceeds, AgentChooses

\* A client's step shows the model nothing and ends no run.
LEMMA ClientShows ==
  ASSUME IInv, SeenAll, NEW c \in Conns, ClientStarts(c) \/ ClientContinues(c)
  PROVE  /\ applied' = applied /\ seen' = seen
         /\ \A r \in Runs : \/ work'[r] = work[r]
                            \/ work[r] \notin Failed /\ work'[r] \notin Asked
<1>0. work \in [Runs -> PCs] /\ Control
  BY DEF IInv, TypeInv
<1>1. CASE BeginRun(c)
  BY <1>0, <1>1 DEF BeginRun, WorkAt, Goto, Failed, Asked
<1>2. CASE StartAgent(c)
  <2>1. req[c].run \in Runs /\ work[req[c].run] = "reserved"
    BY <1>0, <1>2 DEF StartAgent, Control, Turn
  <2>2. /\ applied' = applied /\ seen' = seen
        /\ \E pc \in {"refused", "top", "failing"} : work' = [work EXCEPT ![req[c].run] = pc]
    BY <1>2 DEF StartAgent, Goto
  <2> QED BY <1>0, <2>1, <2>2 DEF Failed, Asked
<1>3. CASE PrepareSteering(c) \/ MarkCancelling(c) \/ CancelAgent(c) \/ HandOff(c)
           \/ LoadMailbox(c) \/ EnqueueSteering(c) \/ RemoveSteering(c)
           \/ \E op \in {"steer", "remove"} : SteerableRun(c, op)
  BY <1>3
  DEF PrepareSteering, MarkCancelling, CancelAgent, HandOff, LoadMailbox, EnqueueSteering,
      RemoveSteering, SteerableRun, agentVars
<1> QED BY <1>1, <1>2, <1>3 DEF ClientStarts, ClientContinues

\* Shown is kept by every step, relative to the invariant.
LEMMA ShownStep ==
  ASSUME IInv, Shown, [Next]_vars
  PROVE  Shown'
<1>1. SeenAll' /\ \A r \in Runs : work[r] \in Failed => work'[r] \in Failed
  <2>1. CASE UNCHANGED vars
    BY <2>1 DEF Shown, SeenAll, vars, agentVars
  <2>2. ASSUME NEW r \in Runs, AgentProceeds(r) \/ AgentChooses(r) \/ EventLoop(r)
        PROVE  SeenAll' /\ \A k \in Runs : work[k] \in Failed => work'[k] \in Failed
    BY <2>2, RunShows DEF Shown, SeenAll, Shows, Asked
  <2>3. ASSUME NEW c \in Conns, ClientStarts(c) \/ ClientContinues(c)
        PROVE  SeenAll' /\ \A k \in Runs : work[k] \in Failed => work'[k] \in Failed
    BY <2>3, ClientShows DEF Shown, SeenAll, Asked
  <2> QED BY <2>1, <2>2, <2>3 DEF Next
<1>2. RejectedLate'
  <2>0. /\ box \in [Runs -> Mailboxes]
        /\ \A r \in Runs : MailOK(box[r])
        /\ \A r \in Runs, m \in Msgs : box[r].state[m] = "rejected" => work'[r] \in Failed
    BY <1>1 DEF IInv, BoxType, Mail, Shown, RejectedLate
  <2>1. CASE Quiescent
    BY <2>0, <2>1 DEF Quiescent, RejectedLate
  <2>2. ASSUME NEW r \in Runs, NEW e, Changes(r, e),
               \A m \in Msgs : e.state[m] = "rejected" =>
                 box[r].state[m] = "rejected" \/ work'[r] = "failed"
        PROVE  RejectedLate'
    <3>1. box'[r] = e /\ \A k \in Runs : k # r => box'[k] = box[k]
      BY <2>0, <2>2 DEF Changes
    <3> QED BY <2>0, <2>2, <3>1 DEF RejectedLate, Failed
  <2>3. ASSUME NEW r \in Runs, NEW e, Changes(r, e), NEW m \in Msgs, NEW s \in Nat,
               box[r].state[m] = "none", ~box[r].sealed, e = Enqueued(box[r], m, s)
        PROVE  RejectedLate'
    <3>1. e.state = [box[r].state EXCEPT ![m] = "queued"]
      BY <2>0, <2>3, EnqueuedOK
    <3>2. \A k \in Msgs : e.state[k] = "rejected" => box[r].state[k] = "rejected"
      BY <2>0, <3>1 DEF Mailboxes
    <3> QED BY <2>2, <2>3, <3>2
  <2>4. ASSUME NEW r \in Runs, NEW e, Changes(r, e), NEW p \in 1 .. Len(box[r].items),
               e = Removed(box[r], p)
        PROVE  RejectedLate'
    <3>1. e.state = [box[r].state EXCEPT ![box[r].items[p]] = "removed"]
      BY <2>0, <2>4, RemovedOK
    <3>2. \A k \in Msgs : e.state[k] = "rejected" => box[r].state[k] = "rejected"
      BY <2>0, <3>1 DEF Mailboxes
    <3> QED BY <2>2, <2>4, <3>2
  <2>5. ASSUME NEW r \in Runs, NEW e, Changes(r, e), AskMail(r, e) PROVE RejectedLate'
    <3>1. e.state = box[r].state
      BY <2>0, <2>5, AskMailStep
    <3> QED BY <2>2, <2>5, <3>1
  <2>6. ASSUME NEW r \in Runs, NEW e, Changes(r, e), NEW seal \in BOOLEAN,
               e = Taken(box[r], seal)
        PROVE  RejectedLate'
    <3>1. \A m \in Msgs : Decided(box[r], "applied")[m] \in {"applied", box[r].state[m]}
      BY DEF Decided
    <3>2. e.state = box[r].state \/ e.state = Decided(box[r], "applied")
      BY <2>0, <2>6 DEF Taken, Mailboxes
    <3>3. \A m \in Msgs : e.state[m] = "rejected" => box[r].state[m] = "rejected"
      BY <3>1, <3>2
    <3> QED BY <2>2, <2>6, <3>3
  <2>7. ASSUME NEW r \in Runs, NEW e, Changes(r, e), e = RejectedAll(box[r]),
               work'[r] = "failed"
        PROVE  RejectedLate'
    BY <2>2, <2>7
  <2> QED
    BY <2>1, <2>3, <2>4, <2>5, <2>6, <2>7, MailChanges DEF ClientMail, RunMail
<1> QED BY <1>1, <1>2, InContextStep DEF Shown

\* Shown holds initially.
LEMMA ShownInit == Init => Shown
BY DEF Init, Shown, SeenAll, InContext, RejectedLate, NewMailbox

\* A run that ends with an answer has shown the model every message that it
\* accepted and that was not withdrawn.
THEOREM AnswerCorrect == Spec => []AnswerSawAll
<1>1. ASSUME IInv, Shown, DecidedAtEnd, NEW r \in Runs, NEW m \in Msgs, work[r] = "done",
             box[r].state[m] \notin {"none", "removed"}
      PROVE  \E i \in 1 .. seen[r] : applied[r][i] = m
  <2>1. box[r].state[m] \in {"none", "queued", "applied", "removed", "rejected"}
    BY <1>1 DEF IInv, BoxType, Mailboxes
  <2>2. box[r].state[m] # "queued"
    BY <1>1 DEF DecidedAtEnd, Ended
  <2>3. box[r].state[m] # "rejected"
    BY <1>1 DEF Shown, RejectedLate, Failed
  <2>4. box[r].state[m] = "applied" /\ seen[r] = Len(applied[r])
    BY <1>1, <2>1, <2>2, <2>3 DEF Shown, SeenAll
  <2> QED BY <1>1, <2>4 DEF Shown, InContext
<1>2. IInv /\ Shown /\ DecidedAtEnd => AnswerSawAll
  BY <1>1 DEF AnswerSawAll, WorkAt
<1>3. IInv /\ Shown /\ [Next]_vars => Shown'
  BY ShownStep
<1> QED BY <1>2, <1>3, ShownInit, Invariance, DecidedCorrect, PTL DEF Spec

\* However a run ends, each message that it accepted is settled.
THEOREM EndCorrect == Spec => []EndSettlesAll
BY DecidedCorrect, AnswerCorrect, PTL DEF EndSettlesAll

-----------------------------------------------------------------------------
(* Sums over finite sets.  The library's sum is a function that it defines  *)
(* recursively; its existence, and that the order does not matter, follow   *)
(* from the least counterexample, without an induction over an operator.    *)

\* The sum of z over S, as the library computes it.
Total(z, S) == MapThenSumSet(LAMBDA m : z[m], S)
\* The element that the library's sum takes first.
First(s) == CHOOSE x \in s : TRUE
\* f gives each member of D its sum of z, taken in the order of First.
Adds(f, z, D) ==
  f = [s \in D |-> IF s = {} THEN 0 ELSE z[First(s)] + f[s \ {First(s)}]]


\* The same for all subsets of S.
Sums(f, z, S) == Adds(f, z, SUBSET S)
Within(s, S) == s \subseteq S

\* The library's sum is such a function, at S.
LEMMA TotalIsFold ==
  ASSUME NEW z, NEW S
  PROVE  Total(z, S) = (CHOOSE f : Sums(f, z, S))[S]
BY DEF Total, MapThenSumSet, MapThenFoldSet, Sums, Adds, First

\* A set of numbers that is not empty has a least one.
LEMMA Least ==
  ASSUME NEW T \in SUBSET Nat, T # {}
  PROVE  \E n \in T : \A k \in T : n <= k
<1>1. PICK n \in T : \A k \in T : ~(<<k, n>> \in OpToRel(<, Nat))
  BY NatLessThanWellFounded, WFMin
<1>2. \A k \in T : ~(k < n)
  BY <1>1 DEF OpToRel
<1>3. QED
  BY <1>2

\* First is an element.
LEMMA FirstIn == ASSUME NEW s, s # {} PROVE First(s) \in s
BY DEF First

\* The subsets of at most n elements.
Small(S, n) == {s \in SUBSET S : Cardinality(s) <= n}

\* A subset without one of its elements is a smaller one.
LEMMA SmallLess ==
  ASSUME NEW S, IsFiniteSet(S), NEW s \in SUBSET S, NEW m \in s
  PROVE  /\ IsFiniteSet(s) /\ Cardinality(s) \in Nat
         /\ s \ {m} \in SUBSET S /\ IsFiniteSet(s \ {m})
         /\ Cardinality(s \ {m}) \in Nat /\ Cardinality(s \ {m}) = Cardinality(s) - 1
<1>1. IsFiniteSet(s)
  BY FS_Subset
<1>2. /\ IsFiniteSet(s \ {m}) /\ Cardinality(s \ {m}) = Cardinality(s) - 1
  BY <1>1, FS_RemoveElement
<1>3. QED
  BY <1>1, <1>2, FS_CardinalityType

\* There is a sum for all subsets of at most n elements: the least n without one
\* would have a predecessor with one, from which it can be made.
LEMMA AddsSmall ==
  ASSUME NEW S, IsFiniteSet(S), NEW z \in [S -> Nat], NEW n \in Nat
  PROVE  \E f \in [Small(S, n) -> Nat] : Adds(f, z, Small(S, n))
<1> DEFINE T == {k \in Nat : ~ \E f \in [Small(S, k) -> Nat] : Adds(f, z, Small(S, k))}
<1>1. SUFFICES ASSUME T # {} PROVE FALSE
  OBVIOUS
<1>2. PICK k \in T : \A i \in T : k <= i
  BY <1>1, Least
<1>3. k # 0
  <2>1. SUFFICES ASSUME k = 0 PROVE FALSE
    OBVIOUS
  <2>2. Small(S, 0) = {{}}
    <3>1. ASSUME NEW s \in SUBSET S, Cardinality(s) <= 0 PROVE s = {}
      <4>1. IsFiniteSet(s)
        BY FS_Subset
      <4>2. QED
        BY <3>1, <4>1, FS_CardinalityType, FS_EmptySet
    <3>2. Cardinality({}) = 0
      BY FS_EmptySet
    <3>3. QED
      BY <3>1, <3>2 DEF Small
  <2>3. [s \in {{}} |-> 0] \in [Small(S, 0) -> Nat]
    BY <2>2
  <2>4. Adds([s \in {{}} |-> 0], z, Small(S, 0))
    BY <2>2 DEF Adds
  <2>5. QED
    BY <2>1, <2>3, <2>4
<1>4. k - 1 \in Nat /\ k - 1 \notin T
  BY <1>2, <1>3
<1>5. PICK g \in [Small(S, k - 1) -> Nat] : Adds(g, z, Small(S, k - 1))
  BY <1>4
<1> DEFINE f == [s \in Small(S, k) |-> IF s = {} THEN 0 ELSE z[First(s)] + g[s \ {First(s)}]]
<1>6. ASSUME NEW s \in Small(S, k), s # {}
      PROVE  First(s) \in S /\ s \ {First(s)} \in Small(S, k - 1) /\ s \ {First(s)} \in Small(S, k)
  <2>1. s \in SUBSET S /\ Cardinality(s) <= k
    BY DEF Small
  <2>2. First(s) \in s
    BY <1>6, FirstIn
  <2>3. /\ s \ {First(s)} \in SUBSET S /\ Cardinality(s) \in Nat
        /\ Cardinality(s \ {First(s)}) = Cardinality(s) - 1
    <3> HIDE DEF T, f
    <3>1. QED
      BY <2>1, <2>2, SmallLess
  <2>4. k \in Nat
    BY <1>2
  <2>5. Cardinality(s \ {First(s)}) <= k - 1 /\ Cardinality(s \ {First(s)}) <= k
    BY <2>1, <2>3, <2>4
  <2>6. QED
    BY <2>1, <2>2, <2>3, <2>5 DEF Small
<1>7. f \in [Small(S, k) -> Nat]
  BY <1>5, <1>6
<1>8. ASSUME NEW s \in Small(S, k - 1) PROVE s \in Small(S, k) /\ f[s] = g[s]
  <2>1. s \in Small(S, k)
    <3>1. s \in SUBSET S /\ Cardinality(s) <= k - 1
      BY DEF Small
    <3>2. Cardinality(s) \in Nat
      BY <3>1, FS_Subset, FS_CardinalityType
    <3>3. QED
      BY <1>2, <3>1, <3>2 DEF Small
  <2>2. g[s] = IF s = {} THEN 0 ELSE z[First(s)] + g[s \ {First(s)}]
    BY <1>5 DEF Adds
  <2>3. QED
    BY <2>1, <2>2
<1>9. Adds(f, z, Small(S, k))
  <2>1. ASSUME NEW s \in Small(S, k), s # {} PROVE g[s \ {First(s)}] = f[s \ {First(s)}]
    BY <1>6, <1>8, <2>1
  <2>2. QED
    BY <2>1 DEF Adds
<1>10. QED
  BY <1>2, <1>7, <1>9

\* There is a sum for all subsets.
LEMMA AddsExists ==
  ASSUME NEW S, IsFiniteSet(S), NEW z \in [S -> Nat]
  PROVE  \E f \in [SUBSET S -> Nat] : Sums(f, z, S)
<1>1. Cardinality(S) \in Nat
  BY FS_CardinalityType
<1>2. Small(S, Cardinality(S)) = SUBSET S
  BY FS_Subset DEF Small
<1>3. PICK f \in [Small(S, Cardinality(S)) -> Nat] : Adds(f, z, Small(S, Cardinality(S)))
  BY <1>1, AddsSmall
<1>4. QED
  BY <1>2, <1>3 DEF Sums

\* y and z are the same on S.
Same(y, z, S) == \A m \in S : y[m] = z[m]

\* Sums of the same values are the same, whatever else they range over: the
\* smallest set on which they differ would have a smaller one.
LEMMA AddsAgree ==
  ASSUME NEW S, IsFiniteSet(S), NEW R, NEW y, NEW z, NEW f, NEW g,
         Sums(f, y, S), Sums(g, z, R),
         NEW s, Within(s, S), Within(s, R), Same(y, z, s)
  PROVE  f[s] = g[s]
<1>0. s \subseteq S /\ s \subseteq R
  BY DEF Within
<1> DEFINE D == {d \in SUBSET s : f[d] # g[d]}
           T == {Cardinality(d) : d \in D}
<1>1. SUFFICES ASSUME s \in D PROVE FALSE
  OBVIOUS
<1>2. \A d \in D : IsFiniteSet(d) /\ Cardinality(d) \in Nat
  BY <1>0, FS_Subset, FS_CardinalityType
<1>3. T \in SUBSET Nat /\ T # {}
  BY <1>1, <1>2
<1>4. PICK d \in D : \A e \in D : Cardinality(d) <= Cardinality(e)
  <2> HIDE DEF D
  <2>1. PICK n \in T : \A k \in T : n <= k
    BY <1>3, Least
  <2>2. QED
    BY <2>1
<1>5. /\ f[d] = IF d = {} THEN 0 ELSE y[First(d)] + f[d \ {First(d)}]
      /\ g[d] = IF d = {} THEN 0 ELSE z[First(d)] + g[d \ {First(d)}]
  BY <1>0 DEF Sums, Adds
<1>6. d # {}
  BY <1>5
<1>7. First(d) \in d
  BY <1>6, FirstIn
<1>8. d \ {First(d)} \notin D
  <2> d \in SUBSET S
    BY <1>0
  <2> HIDE DEF D
  <2>1. Cardinality(d \ {First(d)}) = Cardinality(d) - 1 /\ Cardinality(d) \in Nat
    BY <1>7, SmallLess
  <2>2. QED
    BY <1>4, <2>1
<1>9. f[d \ {First(d)}] = g[d \ {First(d)}]
  BY <1>8
<1>10. QED
  BY <1>5, <1>6, <1>7, <1>9 DEF Same, Within

\* m's part of the sum over s.
Splits(f, z, s, m) == f[s] = z[m] + f[s \ {m}]

\* Which element is taken first does not matter.
LEMMA AddsAnyFirst ==
  ASSUME NEW S, IsFiniteSet(S), NEW z, z \in [S -> Nat], NEW f, f \in [SUBSET S -> Nat],
         Sums(f, z, S), NEW s, Within(s, S), NEW m, m \in s
  PROVE  Splits(f, z, s, m)
<1> DEFINE D == {d \in SUBSET S : \E x \in d : f[d] # z[x] + f[d \ {x}]}
           T == {Cardinality(d) : d \in D}
<1>1. SUFFICES ASSUME s \in D PROVE FALSE
  BY DEF Within, Splits
<1>2. \A d \in D : IsFiniteSet(d) /\ Cardinality(d) \in Nat
  BY FS_Subset, FS_CardinalityType
<1>3. T \in SUBSET Nat /\ T # {}
  BY <1>1, <1>2
<1>4. PICK d \in D : \A e \in D : Cardinality(d) <= Cardinality(e)
  <2> HIDE DEF D
  <2>1. PICK n \in T : \A k \in T : n <= k
    BY <1>3, Least
  <2>2. QED
    BY <2>1
<1>5. PICK x \in d : f[d] # z[x] + f[d \ {x}]
  OBVIOUS
<1>6. d \in SUBSET S
  OBVIOUS
<1>7. First(d) \in d
  BY <1>5, FirstIn
<1>8. f[d] = z[First(d)] + f[d \ {First(d)}]
  BY <1>5, <1>6 DEF Sums, Adds
<1>9. ASSUME NEW u \in d, NEW v \in d, u # v
      PROVE  f[d \ {u}] = z[v] + f[(d \ {u}) \ {v}]
  <2> HIDE DEF D
  <2>1. /\ Cardinality(d \ {u}) = Cardinality(d) - 1 /\ Cardinality(d) \in Nat
        /\ d \ {u} \in SUBSET S
    BY <1>6, SmallLess
  <2>2. d \ {u} \notin D
    BY <1>4, <2>1
  <2>3. QED
    BY <2>1, <2>2, <1>9 DEF D
<1>10. x # First(d)
  BY <1>5, <1>8
<1> DEFINE p == First(d)
       a == f[(d \ {x}) \ {p}]
<1>11. (d \ {p}) \ {x} = (d \ {x}) \ {p}
  OBVIOUS
<1>12. f[d \ {p}] = z[x] + a /\ f[d \ {x}] = z[p] + a
  BY <1>7, <1>9, <1>10, <1>11
<1>13. z[x] \in Nat /\ z[p] \in Nat /\ a \in Nat
  <2>1. (d \ {x}) \ {p} \in SUBSET S /\ x \in S /\ p \in S
    BY <1>6, <1>7
  <2>2. QED
    BY <2>1
<1>14. f[d] = z[p] + f[d \ {p}]
  BY <1>8
<1> HIDE DEF p, D, a
<1>15. QED
  BY <1>5, <1>12, <1>13, <1>14

\* The library's sum over a part of R is any sum over R, at that part.
LEMMA TotalIs ==
  ASSUME NEW R, IsFiniteSet(R), NEW z \in [R -> Nat], NEW h, Sums(h, z, R),
         NEW S \in SUBSET R
  PROVE  Total(z, S) = h[S]
<1> DEFINE f == [s \in SUBSET S |-> h[s]]
           g == CHOOSE e : Sums(e, z, S)
<1>1. Sums(f, z, S)
  <2>1. ASSUME NEW s \in SUBSET S
        PROVE  f[s] = IF s = {} THEN 0 ELSE z[First(s)] + f[s \ {First(s)}]
    <3>1. s \in SUBSET R
      OBVIOUS
    <3>2. h[s] = IF s = {} THEN 0 ELSE z[First(s)] + h[s \ {First(s)}]
      BY <3>1 DEF Sums, Adds
    <3>3. s \ {First(s)} \in SUBSET S
      OBVIOUS
    <3>4. QED
      BY <3>2, <3>3
  <2>2. f = [s \in SUBSET S |-> f[s]]
    OBVIOUS
  <2> HIDE DEF f
  <2>3. QED
    BY <2>1, <2>2 DEF Sums, Adds
<1> HIDE DEF f
<1>2. Sums(g, z, S)
  BY <1>1
<1>3. Total(z, S) = g[S]
  BY TotalIsFold
<1> HIDE DEF g
<1>4. IsFiniteSet(S) /\ Within(S, S) /\ Within(S, R) /\ Same(z, z, S)
  BY FS_Subset DEF Same, Within
<1>5. g[S] = h[S]
  BY <1>2, <1>4, AddsAgree
<1>6. QED
  BY <1>3, <1>5

\* The sum only depends on the values of the elements.
LEMMA TotalSame ==
  ASSUME NEW R, IsFiniteSet(R), NEW y \in [R -> Nat], NEW z \in [R -> Nat],
         NEW S \in SUBSET R, Same(y, z, S)
  PROVE  Total(z, S) = Total(y, S)
<1>1. PICK f \in [SUBSET R -> Nat] : Sums(f, y, R)
  BY AddsExists
<1>2. PICK h \in [SUBSET R -> Nat] : Sums(h, z, R)
  BY AddsExists
<1>3. Total(y, S) = f[S] /\ Total(z, S) = h[S]
  BY <1>1, <1>2, TotalIs
<1>4. Within(S, R)
  BY DEF Within
<1>5. f[S] = h[S]
  BY <1>1, <1>2, <1>4, AddsAgree
<1>6. QED
  BY <1>3, <1>5

\* One element more adds its value.
LEMMA TotalGrows ==
  ASSUME NEW R, IsFiniteSet(R), NEW y \in [R -> Nat], NEW z \in [R -> Nat],
         NEW S \in SUBSET R, NEW m \in R, m \notin S, Same(y, z, S)
  PROVE  Total(z, S \cup {m}) = Total(y, S) + z[m]
<1>1. PICK h \in [SUBSET R -> Nat] : Sums(h, z, R)
  BY AddsExists
<1> DEFINE Q == S \cup {m}
<1>2. Q \in SUBSET R /\ m \in Q /\ Q \ {m} = S
  OBVIOUS
<1> HIDE DEF Q
<1>3. h[Q] = z[m] + h[S]
  <2>1. h[Q] = z[m] + h[Q \ {m}]
    <3>1. Within(Q, R) /\ m \in Q
      BY <1>2 DEF Within
    <3>2. Splits(h, z, Q, m)
      BY <1>1, <3>1, AddsAnyFirst
    <3>3. QED
      BY <3>2 DEF Splits
  <2>2. QED
    BY <1>2, <2>1
<1>4. Total(z, Q) = h[Q] /\ Total(z, S) = h[S]
  BY <1>1, <1>2, TotalIs
<1>5. Total(z, S) = Total(y, S)
  BY TotalSame
<1>6. z[m] \in Nat /\ h[S] \in Nat
  BY <1>1
<1>7. QED
  BY <1>3, <1>4, <1>5, <1>6 DEF Q

\* Nothing adds up to nothing.
LEMMA TotalOfNone ==
  ASSUME NEW R, IsFiniteSet(R), NEW z \in [R -> Nat]
  PROVE  Total(z, {}) = 0
<1>1. PICK h \in [SUBSET R -> Nat] : Sums(h, z, R)
  BY AddsExists
<1>2. Total(z, {}) = h[{}]
  BY <1>1, TotalIs
<1>3. h[{}] = 0
  BY <1>1 DEF Sums, Adds
<1>4. QED
  BY <1>2, <1>3

-----------------------------------------------------------------------------
(* The limits of a mailbox.                                                *)

Limits(b) ==
  /\ Cardinality(Accepted(b)) <= MaxMessages
  /\ b.bytes = Total(b.size, Accepted(b)) /\ b.bytes <= MaxBytes
Limited == \A r \in Runs : Limits(box[r])

\* What the limits are about stays as it is.
Unmoved(b, e) == e.bytes = b.bytes /\ e.size = b.size /\ Accepted(e) = Accepted(b)

\* A new mailbox is within the limits.
LEMMA NewLimits == Limits(NewMailbox)
<1>1. Accepted(NewMailbox) = {} /\ NewMailbox.bytes = 0 /\ NewMailbox.size = [m \in Msgs |-> 0]
  BY DEF Accepted, NewMailbox
<1>2. IsFiniteSet(Msgs) /\ [m \in Msgs |-> 0] \in [Msgs -> Nat]
  BY SteeringAssumption
<1> DEFINE z == [m \in Msgs |-> 0]
<1> HIDE DEF z
<1>3. Total(z, {}) = 0
  BY <1>2, TotalOfNone DEF z
<1>4. Cardinality({}) = 0
  BY FS_EmptySet
<1> QED BY <1>1, <1>3, <1>4, SteeringAssumption DEF Limits, z

\* An accepted message counts once, with its size.
LEMMA EnqueuedLimits ==
  ASSUME NEW b, MailOK(b), Limits(b), NEW m \in Msgs, NEW s \in Nat,
         b.state[m] = "none", Room(b, s)
  PROVE  Limits(Enqueued(b, m, s))
<1> DEFINE e == Enqueued(b, m, s)
           A == Accepted(b)
           y == b.size
           z == e.size
<1>1. b \in Mailboxes
  BY DEF MailOK
<1>2. /\ y \in [Msgs -> Nat] /\ b.bytes \in Nat
      /\ b.state \in [Msgs -> {"none", "queued", "applied", "removed", "rejected"}]
  BY <1>1 DEF Mailboxes
<1>3. /\ z = [y EXCEPT ![m] = s] /\ e.bytes = b.bytes + s
      /\ e.state = [b.state EXCEPT ![m] = "queued"]
  BY <1>1 DEF Enqueued, Mailboxes
<1>4. m \notin A /\ A \in SUBSET Msgs
  BY DEF Accepted
<1>5. Accepted(e) = A \cup {m}
  BY <1>2, <1>3 DEF Accepted
<1>6. z \in [Msgs -> Nat] /\ z[m] = s /\ Same(y, z, A)
  BY <1>2, <1>3, <1>4 DEF Same
<1> HIDE DEF e, A, y, z
<1>7. IsFiniteSet(Msgs)
  BY SteeringAssumption
<1>8. Total(z, A \cup {m}) = Total(y, A) + z[m]
  BY <1>2, <1>4, <1>6, <1>7, TotalGrows
<1>9. IsFiniteSet(A) /\ Cardinality(A) \in Nat
  BY <1>4, <1>7, FS_Subset, FS_CardinalityType
<1>10. Cardinality(A \cup {m}) = Cardinality(A) + 1
  BY <1>4, <1>9, FS_AddElement
<1>11. b.bytes = Total(y, A) /\ Cardinality(A) < MaxMessages /\ b.bytes + s <= MaxBytes
  BY DEF Limits, Room, A, y
<1>12. Cardinality(A) + 1 <= MaxMessages
  BY <1>9, <1>11, SteeringAssumption
<1>13. Limits(e)
  BY <1>3, <1>5, <1>6, <1>8, <1>10, <1>11, <1>12 DEF Limits, z
<1> QED BY <1>13 DEF e

\* A withdrawal, taking and rejecting forget nothing that was accepted.
LEMMA RemovedUnmoved ==
  ASSUME NEW b, MailOK(b), NEW p \in 1 .. Len(b.items)
  PROVE  Unmoved(b, Removed(b, p))
<1>1. b \in Mailboxes /\ b.state[b.items[p]] = "queued"
  BY DEF MailOK, Holding
<1>2. b.items[p] \in Msgs
  BY <1>1, LenProperties, ElementOfSeq DEF Mailboxes
<1> DEFINE m == b.items[p]
           e == Removed(b, p)
<1>3. e.bytes = b.bytes /\ e.size = b.size /\ e.state = [b.state EXCEPT ![m] = "removed"]
  BY <1>1 DEF Removed, Mailboxes
<1>4. b.state \in [Msgs -> {"none", "queued", "applied", "removed", "rejected"}]
  BY <1>1 DEF Mailboxes
<1> HIDE DEF e
<1>5. Accepted(e) = Accepted(b)
  BY <1>1, <1>2, <1>3, <1>4 DEF Accepted
<1> QED BY <1>3, <1>5 DEF Unmoved, e

\* Deciding the queued messages forgets none of them.
LEMMA DecidedUnmoved ==
  ASSUME NEW b, MailOK(b), NEW f \in {"applied", "rejected"}, NEW e,
         e.bytes = b.bytes, e.size = b.size, e.state = Decided(b, f)
  PROVE  Unmoved(b, e)
<1>1. \A m \in Msgs : m \in ToSet(b.items) => b.state[m] = "queued"
  BY QueueIsQueued
<1>2. \A m \in Msgs : e.state[m] # "none" <=> b.state[m] # "none"
  BY <1>1 DEF Decided
<1> QED BY <1>2 DEF Unmoved, Accepted

\* Taking the queue.
LEMMA TakenUnmoved ==
  ASSUME NEW b, MailOK(b), NEW seal \in BOOLEAN
  PROVE  Unmoved(b, Taken(b, seal))
<1> DEFINE e == Taken(b, seal)
<1>1. b \in Mailboxes
  BY DEF MailOK
<1>2. CASE b.items = <<>>
  <2>1. e.bytes = b.bytes /\ e.size = b.size /\ e.state = b.state
    BY <1>1, <1>2 DEF Taken, Mailboxes
  <2> QED BY <2>1 DEF Unmoved, Accepted
<1>3. CASE b.items # <<>>
  <2>1. e.bytes = b.bytes /\ e.size = b.size /\ e.state = Decided(b, "applied")
    BY <1>1, <1>3 DEF Taken, Mailboxes
  <2> HIDE DEF e
  <2>2. Unmoved(b, e)
    BY <2>1, DecidedUnmoved
  <2> QED BY <2>2 DEF e
<1> QED BY <1>2, <1>3

\* Rejecting the queue.
LEMMA RejectedUnmoved ==
  ASSUME NEW b, MailOK(b)
  PROVE  Unmoved(b, RejectedAll(b))
<1> DEFINE e == RejectedAll(b)
<1>1. b \in Mailboxes
  BY DEF MailOK
<1>2. e.bytes = b.bytes /\ e.size = b.size /\ e.state = Decided(b, "rejected")
  BY <1>1 DEF RejectedAll, Mailboxes
<1> HIDE DEF e
<1>3. Unmoved(b, e)
  BY <1>2, DecidedUnmoved
<1> QED BY <1>3 DEF e

\* Counting interactions.
LEMMA AskUnmoved ==
  ASSUME NEW b, MailOK(b), NEW n \in Nat
  PROVE  Unmoved(b, [b EXCEPT !.interactions = n])
<1>1. b \in Mailboxes
  BY DEF MailOK
<1> QED BY <1>1 DEF Mailboxes, Unmoved, Accepted

\* A change that keeps what the limits are about keeps the limits.
LEMMA UnmovedLimits ==
  ASSUME NEW b, Limits(b), NEW e, Unmoved(b, e)
  PROVE  Limits(e)
BY DEF Limits, Unmoved

\* Every change of a mailbox keeps it within the limits.
LEMMA ChangeLimits ==
  ASSUME NEW r \in Runs, MailOK(box[r]), Limits(box[r]), NEW e,
         ClientMail(r, e) \/ RunMail(r, e) \/ AskMail(r, e)
  PROVE  Limits(e)
<1> DEFINE b == box[r]
<1>1. MailOK(b) /\ Limits(b)
  OBVIOUS
<1>2. CASE ClientMail(r, e)
  <2>1. ASSUME NEW m \in Msgs, NEW s \in Nat, b.state[m] = "none", Room(b, s),
               e = Enqueued(b, m, s)
        PROVE  Limits(e)
    <3> HIDE DEF b
    <3> QED BY <1>1, <2>1, EnqueuedLimits
  <2>2. ASSUME NEW p \in 1 .. Len(b.items), e = Removed(b, p) PROVE Limits(e)
    <3> HIDE DEF b
    <3> QED BY <1>1, <2>2, RemovedUnmoved, UnmovedLimits
  <2> QED BY <1>2, <2>1, <2>2 DEF ClientMail
<1>3. CASE RunMail(r, e)
  <2>1. ASSUME NEW seal \in BOOLEAN, e = Taken(b, seal) PROVE Limits(e)
    <3> HIDE DEF b
    <3> QED BY <1>1, <2>1, TakenUnmoved, UnmovedLimits
  <2>2. ASSUME e = RejectedAll(b) PROVE Limits(e)
    <3> HIDE DEF b
    <3> QED BY <1>1, <2>2, RejectedUnmoved, UnmovedLimits
  <2> QED BY <1>3, <2>1, <2>2 DEF RunMail
<1>4. CASE AskMail(r, e)
  <2>1. PICK n \in Nat : e = [b EXCEPT !.interactions = n]
    BY <1>4 DEF AskMail
  <2> HIDE DEF b
  <2> QED BY <1>1, <2>1, AskUnmoved, UnmovedLimits
<1> QED BY <1>2, <1>3, <1>4

\* Every step keeps every mailbox within the limits.
LEMMA LimitedStep == IInv /\ Limited /\ [Next]_vars => Limited'
<1> SUFFICES ASSUME IInv, Limited, [Next]_vars PROVE Limited'
  OBVIOUS
<1>1. box \in [Runs -> Mailboxes] /\ \A r \in Runs : MailOK(box[r]) /\ Limits(box[r])
  BY DEF IInv, Mail, BoxType, Limited
<1>2. CASE Quiescent
  BY <1>1, <1>2 DEF Quiescent, Limited
<1>3. ASSUME NEW r \in Runs, NEW e, Changes(r, e),
             ClientMail(r, e) \/ RunMail(r, e) \/ AskMail(r, e)
      PROVE  Limited'
  <2>1. box'[r] = e /\ (\A k \in Runs : k # r => box'[k] = box[k])
    BY <1>1, <1>3 DEF Changes
  <2>2. Limits(e)
    BY <1>1, <1>3, ChangeLimits
  <2>3. \A k \in Runs : Limits(box'[k])
    BY <1>1, <2>1, <2>2
  <2> QED BY <2>3 DEF Limited
<1> QED BY <1>2, <1>3, MailChanges

\* The queue holds exactly what is queued, in the order of acceptance, and the
\* limits hold for all that a run ever accepted: the number of its messages, and
\* the exact sum of their sizes.
THEOREM MailboxCorrect == Spec => []MailboxConsistent
<1>1. Init => Limited
  BY NewLimits DEF Init, Limited
<1>2. ASSUME IInv, Limited PROVE MailboxConsistent
  <2> SUFFICES ASSUME NEW r \in Runs
               PROVE  LET b == box[r] IN
                      /\ ToSet(b.items) = {m \in Msgs : b.state[m] = "queued"}
                      /\ \A i, j \in 1 .. Len(b.items) :
                           i < j => b.number[b.items[i]] < b.number[b.items[j]]
                      /\ Cardinality(Accepted(b)) <= MaxMessages
                      /\ b.bytes = MapThenSumSet(LAMBDA m : b.size[m], Accepted(b))
                      /\ b.bytes <= MaxBytes
    BY DEF MailboxConsistent
  <2> DEFINE b == box[r]
  <2>1. MailOK(b) /\ Limits(b)
    BY <1>2 DEF IInv, Mail, Limited
  <2> HIDE DEF b
  <2>2. b.items \in Seq(Msgs)
    BY <2>1 DEF MailOK, Mailboxes
  <2>3. ToSet(b.items) \subseteq Msgs
    BY <2>2, LenProperties DEF ToSet
  <2>4. ToSet(b.items) = {m \in Msgs : b.state[m] = "queued"}
    BY <2>1, <2>3, QueueIsQueued
  <2>5. \A i, j \in 1 .. Len(b.items) : i < j => b.number[b.items[i]] < b.number[b.items[j]]
    BY <2>1 DEF MailOK, Sorted
  <2>6. b.bytes = MapThenSumSet(LAMBDA m : b.size[m], Accepted(b))
    BY <2>1 DEF Limits, Total
  <2> QED BY <2>1, <2>4, <2>5, <2>6 DEF Limits, b
<1> QED BY <1>1, <1>2, LimitedStep, Invariance, PTL DEF Spec

=============================================================================
