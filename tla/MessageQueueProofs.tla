------------------------- MODULE MessageQueueProofs -------------------------
(* Proofs about MessageQueue: what removing, counting and scanning do to a  *)
(* queue, and the four invariants of the run, for every set of messages and *)
(* callers, every batch and any number of receipts.                         *)
EXTENDS MessageQueue, SequenceLemmas, SequenceTheorems

\* The records of Queue.messages, and the queues that hold a message at most once.
Record == [id : Msg, count : Nat, delay : Int]
Queues == {q \in Seq(Record) : \A i, j \in DOMAIN q : q[i].id = q[j].id => i = j}

\* A queue without its order and its receive counts, which no invariant is about.
Slots(q) == {[id |-> q[i].id, delay |-> q[i].delay] : i \in DOMAIN q}

-----------------------------------------------------------------------------
(* Operators on the queue. *)

\* What removeByID returns: the same queue without one message.
LEMMA WithoutSlots ==
    ASSUME NEW q \in Queues, NEW m
    PROVE  /\ Without(q, m) \in Queues
           /\ Slots(Without(q, m)) = {s \in Slots(q) : s.id # m}
<1>1. CASE \A i \in DOMAIN q : q[i].id # m
  <2>1. Without(q, m) = q
    BY <1>1, Zenon DEF Without
  <2> QED BY <1>1, <2>1 DEF Slots
<1>2. CASE \E i \in DOMAIN q : q[i].id = m
  <2> DEFINE k == CHOOSE i \in DOMAIN q : q[i].id = m
             r == [q EXCEPT ![k] = q[1]]
             w == Tail(r)
  <2>1. k \in DOMAIN q /\ q[k].id = m
    BY <1>2
  <2>2. Without(q, m) = w
    BY <1>2, Zenon DEF Without
  <2>3. q \in Seq(Record) /\ Len(q) \in Nat /\ DOMAIN q = 1..Len(q) /\ 1 \in DOMAIN q
    BY <2>1 DEF Queues
  <2> HIDE DEF k
  <2>4. r \in Seq(Record) /\ Len(r) = Len(q) /\ r # <<>>
    BY <2>1, <2>3, ExceptSeq
  <2>5. /\ w \in Seq(Record) /\ Len(w) = Len(q) - 1
        /\ \A i \in 1..Len(w) : w[i] = r[i + 1]
    <3> HIDE DEF r
    <3> QED BY <2>4, HeadTailProperties
  <2> DEFINE at(i) == IF i + 1 = k THEN 1 ELSE i + 1
  <2>6. DOMAIN w = 1..(Len(q) - 1) /\ \A i \in DOMAIN w : w[i] = q[at(i)]
    BY <2>1, <2>3, <2>4, <2>5
  <2>7. /\ \A i \in DOMAIN w : at(i) \in DOMAIN q /\ at(i) # k
        /\ \A i, j \in DOMAIN w : at(i) = at(j) => i = j
    BY <2>1, <2>3, <2>6
  <2> HIDE DEF w, r, at
  <2>8. \A i, j \in DOMAIN q : q[i].id = q[j].id => i = j
    BY DEF Queues
  <2>9. w \in Queues
    <3>1. \A i, j \in DOMAIN w : w[i].id = w[j].id => i = j
      BY <2>6, <2>7, <2>8
    <3> QED BY <2>5, <3>1 DEF Queues
  <2>10. \A i \in DOMAIN w : w[i].id # m /\ \E j \in DOMAIN q : w[i] = q[j]
    BY <2>1, <2>6, <2>7, <2>8
  <2>11. \A j \in DOMAIN q : q[j].id # m => \E i \in DOMAIN w : w[i] = q[j]
    <3> SUFFICES ASSUME NEW j \in DOMAIN q, q[j].id # m
                 PROVE  \E i \in DOMAIN w : w[i] = q[j]
      OBVIOUS
    <3>1. CASE j = 1
      <4>1. k - 1 \in DOMAIN w /\ w[k - 1] = q[1]
        BY <2>1, <2>3, <2>6, <3>1 DEF at
      <4> QED BY <3>1, <4>1
    <3>2. CASE j # 1
      <4>1. j - 1 \in DOMAIN w /\ w[j - 1] = q[j]
        BY <2>1, <2>3, <2>6, <3>2 DEF at
      <4> QED BY <4>1
    <3> QED BY <3>1, <3>2
  <2>12. Slots(w) = {s \in Slots(q) : s.id # m}
    BY <2>10, <2>11 DEF Slots
  <2> QED BY <2>2, <2>9, <2>12
<1> QED BY <1>1, <1>2

\* Removing a batch removes its messages, whatever order they come in.
LEMMA WithoutAllSlots ==
    ASSUME NEW q \in Queues, NEW ids \in Seq(Msg)
    PROVE  /\ WithoutAll(q, ids) \in Queues
           /\ Slots(WithoutAll(q, ids)) = {s \in Slots(q) : s.id \notin ToSet(ids)}
<1> DEFINE N == Len(ids)
           iter == CHOOSE g : g = [s \in SUBSET (1..N) |->
                      IF s = {} THEN q ELSE Without(g[s \ {Max(s)}], ids[Max(s)])]
           done(k) == {ids[i] : i \in 1..k}
           Good(k) == /\ iter[1..k] \in Queues
                      /\ Slots(iter[1..k]) = {s \in Slots(q) : s.id \notin done(k)}
<1>1. N \in Nat /\ DOMAIN ids = 1..N
  OBVIOUS
<1>2. WithoutAll(q, ids) = iter[1..N]
  <2> HIDE DEF N
  <2> QED BY <1>1 DEF WithoutAll, FoldLeft, MapThenFoldSet
<1>3. iter = [s \in SUBSET (1..N) |->
                IF s = {} THEN q ELSE Without(iter[s \ {Max(s)}], ids[Max(s)])]
  <2> DEFINE step == [x \in Queues \X Msg |-> Without(x[1], x[2])]
  <2>1. step \in [Queues \X Msg -> Queues]
    BY WithoutSlots
  <2> HIDE DEF step, iter
  <2>2. PICK g : Folds(g, Queues, step, q, ids)
    BY <2>1, FoldHasSolution
  <2>3. ASSUME NEW s \in SUBSET (1..N), s # {}
        PROVE  g[s] = Without(g[s \ {Max(s)}], ids[Max(s)])
    <3>1. Max(s) \in 1..N /\ s \ {Max(s)} \in SUBSET (1..N)
      BY <2>2, <2>3 DEF Folds
    <3>2. g[s \ {Max(s)}] \in Queues /\ ids[Max(s)] \in Msg
      BY <2>2, <3>1 DEF Folds
    <3>3. step[<<g[s \ {Max(s)}], ids[Max(s)]>>] = Without(g[s \ {Max(s)}], ids[Max(s)])
      BY <3>2 DEF step
    <3> QED BY <2>2, <2>3, <3>3 DEF Folds
  <2>4. g = [s \in SUBSET (1..N) |->
               IF s = {} THEN q ELSE Without(g[s \ {Max(s)}], ids[Max(s)])]
    BY <2>2, <2>3 DEF Folds
  <2> HIDE DEF N
  <2> QED BY <2>4 DEF iter
<1> HIDE DEF iter, N
<1>4. iter[1..0] = q
  BY <1>1, <1>3
<1>5. ASSUME NEW k \in 1..N PROVE iter[1..k] = Without(iter[1..(k - 1)], ids[k])
  <2>1. /\ 1..k # {} /\ 1..k \in SUBSET (1..N) /\ Max(1..k) = k
        /\ (1..k) \ {k} = 1..(k - 1)
    BY <1>1, FirstPositions
  <2>2. iter[1..k] = Without(iter[(1..k) \ {Max(1..k)}], ids[Max(1..k)])
    BY <1>3, <2>1
  <2> QED BY <2>1, <2>2
<1> DEFINE P == {k \in Nat : k <= N => Good(k)}
<1>6. 0 \in P
  BY <1>4
<1>7. ASSUME NEW k \in Nat, k \in P PROVE k + 1 \in P
  <2> SUFFICES ASSUME k + 1 <= N PROVE Good(k + 1)
    OBVIOUS
  <2>1. k + 1 \in 1..N /\ Good(k)
    BY <1>1, <1>7
  <2>2. iter[1..(k + 1)] = Without(iter[1..k], ids[k + 1])
    BY <1>1, <1>5, <2>1
  <2>3. /\ iter[1..(k + 1)] \in Queues
        /\ Slots(iter[1..(k + 1)]) = {s \in Slots(iter[1..k]) : s.id # ids[k + 1]}
    BY <2>1, <2>2, WithoutSlots
  <2>4. done(k + 1) = done(k) \cup {ids[k + 1]}
    OBVIOUS
  <2> QED BY <2>1, <2>3, <2>4
<1>8. Good(N)
  <2>1. \A k \in Nat : k \in P
    <3> HIDE DEF P
    <3> QED BY <1>6, <1>7, SetInduction
  <2> QED BY <1>1, <2>1
<1>9. done(N) = ToSet(ids)
  BY <1>1 DEF ToSet
<1> QED BY <1>2, <1>8, <1>9

\* The entries of Queue.inflight that a step can meet, the records of the DLQ,
\* and the two queues the scanner's loop works on.
Entry == [handle : Nat, id : Msg, count : Nat, left : Int]
DeadLetter == [id : Msg, count : Nat]
Pairs == [queue : Queues, dlq : Seq(DeadLetter)]

\* One pass of the scanner's loop moves the message of a dead entry to the DLQ,
\* and only sets the receive count of another.
LEMMA ScannedPair ==
    ASSUME NEW s \in Pairs, NEW e \in Entry
    PROVE  /\ Scanned(s, e) \in Pairs
           /\ Slots(Scanned(s, e).queue) = {x \in Slots(s.queue) : ~ (Dead(e) /\ x.id = e.id)}
           /\ Ids(Scanned(s, e).dlq) = Ids(s.dlq) \cup {x \in {e.id} : Dead(e)}
<1>1. CASE Dead(e)
  <2> DEFINE r == [queue |-> Without(s.queue, e.id),
                   dlq   |-> Append(s.dlq, [id |-> e.id, count |-> e.count])]
  <2>1. Scanned(s, e) = r
    BY <1>1 DEF Scanned
  <2>2. s.queue \in Queues /\ s.dlq \in Seq(DeadLetter) /\ [id |-> e.id, count |-> e.count] \in DeadLetter
    BY DEF Pairs, Entry, DeadLetter
  <2>3. /\ Without(s.queue, e.id) \in Queues
        /\ Slots(Without(s.queue, e.id)) = {x \in Slots(s.queue) : x.id # e.id}
    BY <2>2, WithoutSlots
  <2> DEFINE d == Append(s.dlq, [id |-> e.id, count |-> e.count])
  <2>4. /\ d \in Seq(DeadLetter) /\ Len(d) = Len(s.dlq) + 1
        /\ \A i \in 1..Len(s.dlq) : d[i] = s.dlq[i]
        /\ d[Len(s.dlq) + 1] = [id |-> e.id, count |-> e.count]
    BY <2>2, AppendProperties
  <2>5. /\ DOMAIN d = 1..(Len(s.dlq) + 1) /\ DOMAIN s.dlq = 1..Len(s.dlq) /\ Len(s.dlq) \in Nat
    BY <2>2, <2>4
  <2> HIDE DEF d
  <2>6. Ids(d) = Ids(s.dlq) \cup {e.id}
    BY <2>4, <2>5 DEF Ids
  <2>7. r \in Pairs /\ r.queue = Without(s.queue, e.id) /\ r.dlq = d
    BY <2>3, <2>4 DEF Pairs, d
  <2> HIDE DEF r
  <2>8. {x \in {e.id} : Dead(e)} = {e.id}
    BY <1>1
  <2> QED BY <1>1, <2>1, <2>3, <2>6, <2>7, <2>8
<1>2. CASE ~Dead(e)
  <2> DEFINE q == s.queue
             w == [i \in DOMAIN q |-> IF q[i].id = e.id THEN [q[i] EXCEPT !.count = e.count] ELSE q[i]]
             r == [s EXCEPT !.queue = w]
  <2>1. Scanned(s, e) = r
    BY <1>2 DEF Scanned
  <2>2. /\ q \in Seq(Record) /\ Len(q) \in Nat /\ DOMAIN q = 1..Len(q)
        /\ \A i, j \in DOMAIN q : q[i].id = q[j].id => i = j
    BY DEF Pairs, Queues
  <2>3. /\ \A i \in DOMAIN q : q[i] \in Record
        /\ e.count \in Nat
    BY <2>2 DEF Entry
  <2>4. \A i \in DOMAIN q : w[i] \in Record /\ w[i].id = q[i].id /\ w[i].delay = q[i].delay
    BY <2>3 DEF Record
  <2>5. w \in Seq(Record) /\ DOMAIN w = DOMAIN q
    <3>1. w \in [1..Len(q) -> Record]
      BY <2>2, <2>4
    <3> HIDE DEF w, q
    <3> QED BY <2>2, <3>1
  <2> HIDE DEF w
  <2>6. w \in Queues
    BY <2>2, <2>4, <2>5 DEF Queues
  <2>7. Slots(w) = Slots(q)
    BY <2>4, <2>5 DEF Slots
  <2>8. r \in Pairs /\ r.queue = w /\ r.dlq = s.dlq
    BY <2>6 DEF Pairs
  <2> HIDE DEF r, q
  <2> QED BY <1>2, <2>1, <2>7, <2>8 DEF q
<1> QED BY <1>1, <1>2

\* The scanner's loop: the queue loses the messages of the dead entries, and the
\* DLQ gains them, whatever order the entries come in.
LEMMA ScannedAllSlots ==
    ASSUME messages \in Queues, dlq \in Seq(DeadLetter), NEW order \in Seq(Entry)
    PROVE  LET dead == {e.id : e \in {x \in ToSet(order) : Dead(x)}}
               r == ScannedAll(order)
           IN  /\ r \in Pairs
               /\ Slots(r.queue) = {s \in Slots(messages) : s.id \notin dead}
               /\ Ids(r.dlq) = Ids(dlq) \cup dead
<1> DEFINE N == Len(order)
           base == [queue |-> messages, dlq |-> dlq]
           iter == CHOOSE g : g = [s \in SUBSET (1..N) |->
                      IF s = {} THEN base ELSE Scanned(g[s \ {Max(s)}], order[Max(s)])]
           dead(k) == {order[i].id : i \in {j \in 1..k : Dead(order[j])}}
           Good(k) == /\ iter[1..k] \in Pairs
                      /\ Slots(iter[1..k].queue) = {s \in Slots(messages) : s.id \notin dead(k)}
                      /\ Ids(iter[1..k].dlq) = Ids(dlq) \cup dead(k)
<1>1. N \in Nat /\ DOMAIN order = 1..N /\ \A i \in 1..N : order[i] \in Entry
  OBVIOUS
<1>2. ScannedAll(order) = iter[1..N]
  <2> HIDE DEF N
  <2> QED BY <1>1 DEF ScannedAll, FoldLeft, MapThenFoldSet
<1>3. base \in Pairs /\ base.queue = messages /\ base.dlq = dlq
  BY DEF Pairs
<1> HIDE DEF base
<1>4. iter = [s \in SUBSET (1..N) |->
                IF s = {} THEN base ELSE Scanned(iter[s \ {Max(s)}], order[Max(s)])]
  <2> DEFINE step == [x \in Pairs \X Entry |-> Scanned(x[1], x[2])]
  <2>1. step \in [Pairs \X Entry -> Pairs]
    BY ScannedPair
  <2> HIDE DEF step, iter
  <2>2. PICK g : Folds(g, Pairs, step, base, order)
    BY <1>3, <2>1, FoldHasSolution
  <2>3. ASSUME NEW s \in SUBSET (1..N), s # {}
        PROVE  g[s] = Scanned(g[s \ {Max(s)}], order[Max(s)])
    <3>1. Max(s) \in 1..N /\ s \ {Max(s)} \in SUBSET (1..N)
      BY <2>2, <2>3 DEF Folds
    <3>2. g[s \ {Max(s)}] \in Pairs /\ order[Max(s)] \in Entry
      BY <2>2, <3>1 DEF Folds
    <3>3. step[<<g[s \ {Max(s)}], order[Max(s)]>>] = Scanned(g[s \ {Max(s)}], order[Max(s)])
      BY <3>2 DEF step
    <3> QED BY <2>2, <2>3, <3>3 DEF Folds
  <2>4. g = [s \in SUBSET (1..N) |->
               IF s = {} THEN base ELSE Scanned(g[s \ {Max(s)}], order[Max(s)])]
    BY <2>2, <2>3 DEF Folds
  <2> HIDE DEF N
  <2> QED BY <2>4 DEF iter
<1> HIDE DEF iter, N
<1>5. iter[1..0] = base
  BY <1>1, <1>4
<1>6. ASSUME NEW k \in 1..N PROVE iter[1..k] = Scanned(iter[1..(k - 1)], order[k])
  <2>1. /\ 1..k # {} /\ 1..k \in SUBSET (1..N) /\ Max(1..k) = k
        /\ (1..k) \ {k} = 1..(k - 1)
    BY <1>1, FirstPositions
  <2>2. iter[1..k] = Scanned(iter[(1..k) \ {Max(1..k)}], order[Max(1..k)])
    BY <1>4, <2>1
  <2> QED BY <2>1, <2>2
<1> DEFINE P == {k \in Nat : k <= N => Good(k)}
<1>7. 0 \in P
  BY <1>3, <1>5
<1>8. ASSUME NEW k \in Nat, k \in P PROVE k + 1 \in P
  <2> SUFFICES ASSUME k + 1 <= N PROVE Good(k + 1)
    OBVIOUS
  <2> DEFINE e == order[k + 1]
  <2>1. k + 1 \in 1..N /\ Good(k)
    BY <1>1, <1>8
  <2>2. iter[1..(k + 1)] = Scanned(iter[1..k], e)
    BY <1>1, <1>6, <2>1
  <2>3. e \in Entry
    BY <1>1, <2>1
  <2>4. dead(k + 1) = dead(k) \cup {x \in {e.id} : Dead(e)}
    OBVIOUS
  <2> HIDE DEF e, dead
  <2>5. /\ iter[1..(k + 1)] \in Pairs
        /\ Slots(iter[1..(k + 1)].queue)
              = {x \in Slots(iter[1..k].queue) : ~ (Dead(e) /\ x.id = e.id)}
        /\ Ids(iter[1..(k + 1)].dlq) = Ids(iter[1..k].dlq) \cup {x \in {e.id} : Dead(e)}
    BY <2>1, <2>2, <2>3, ScannedPair, ZenonT(30)
  <2>6. Slots(iter[1..(k + 1)].queue) = {s \in Slots(messages) : s.id \notin dead(k + 1)}
    BY <2>1, <2>4, <2>5
  <2>7. Ids(iter[1..(k + 1)].dlq) = Ids(dlq) \cup dead(k + 1)
    BY <2>1, <2>4, <2>5
  <2> QED BY <2>5, <2>6, <2>7
<1>9. Good(N)
  <2>1. \A k \in Nat : k \in P
    <3> HIDE DEF P
    <3> QED BY <1>7, <1>8, SetInduction
  <2> HIDE DEF Good
  <2> QED BY <1>1, <2>1
<1>10. dead(N) = {e.id : e \in {x \in ToSet(order) : Dead(x)}}
  BY <1>1 DEF ToSet
<1> HIDE DEF dead
<1> QED BY <1>2, <1>9, <1>10

-----------------------------------------------------------------------------
(* The inductive invariant. *)

\* Whatever is in the queue or in flight was sent.
Known ==
    /\ \A s \in Slots(messages) : s.id \in sent
    /\ \A e \in inflight : e.id \in sent

\* A message that has been received, or announced to the polls, has no delay left.
Ready ==
    \A s \in Slots(messages) :
        s.id \in due \/ (\E e \in inflight : e.id = s.id) => s.delay <= 0

\* While a poll is parked, or holds the mutex on its way there, every message
\* that was announced has a receipt out.
Asleep ==
    \A p \in Poller, s \in Slots(messages) :
        poll[p].pc \in {"committed", "parked"} /\ s.id \in due
            => \E e \in inflight : e.id = s.id

IInv ==
    /\ TypeOK /\ IsFiniteSet(inflight)
    /\ Known /\ Ready /\ Asleep
    /\ NotLost /\ AloneUnlessLate

-----------------------------------------------------------------------------
(* Receiving. *)

\* The image of a finite set is finite.
LEMMA FiniteImage ==
    ASSUME NEW S, IsFiniteSet(S), NEW T, NEW f \in [S -> T]
    PROVE  IsFiniteSet({f[x] : x \in S})
<1> DEFINE R == {f[x] : x \in S}
<1>1. f \in Surjection(S, R)
  BY DEF Surjection
<1> HIDE DEF R
<1>2. IsFiniteSet(R)
  BY <1>1, FS_Surjection
<1> QED BY <1>2 DEF R

\* The typing of the queue, in the terms of the lemmas above.
LEMMA TypedQueue ==
    ASSUME TypeOK
    PROVE  /\ messages \in Queues /\ dlq \in Seq(DeadLetter) /\ receipts \in Nat
           /\ Len(messages) \in Nat /\ DOMAIN messages = 1..Len(messages)
           /\ \A i \in DOMAIN messages : messages[i] \in Record
           /\ \A e \in inflight : e \in Entry
<1>1. messages \in Seq(Record) /\ dlq \in Seq(DeadLetter) /\ receipts \in Nat
  BY DEF TypeOK, Record, DeadLetter
<1>2. \A i, j \in DOMAIN messages : messages[i].id = messages[j].id => i = j
  BY DEF TypeOK
<1>3. \A e \in inflight : e \in Entry
  BY DEF TypeOK, Entry
<1> QED BY <1>1, <1>2, <1>3 DEF Queues

\* The ranks of the messages a receive returns number them from 1 on.
LEMMA TakenRanks ==
    ASSUME TypeOK, NEW max \in Nat
    PROVE  /\ IsFiniteSet(Taken(max)) /\ Cardinality(Taken(max)) \in Nat
           /\ \A i \in Taken(max) : Rank(i) \in 1..Cardinality(Taken(max))
           /\ \A i, j \in Taken(max) : Rank(i) = Rank(j) => i = j
<1> DEFINE upTo(i) == {j \in 1..i : Visible(j)}
<1>1. Len(messages) \in Nat /\ DOMAIN messages = 1..Len(messages)
  BY TypedQueue
<1>2. IsFiniteSet(Taken(max)) /\ Cardinality(Taken(max)) \in Nat
  <2>1. Taken(max) \in SUBSET (1..Len(messages))
    BY <1>1 DEF Taken
  <2>2. IsFiniteSet(1..Len(messages))
    BY <1>1, FS_Interval
  <2> QED BY <2>1, <2>2, FS_Subset, FS_CardinalityType
<1>3. ASSUME NEW i \in Taken(max)
      PROVE  /\ i \in Nat /\ i \in DOMAIN messages /\ Visible(i)
             /\ IsFiniteSet(upTo(i)) /\ Rank(i) = Cardinality(upTo(i)) /\ Rank(i) \in Nat
             /\ Rank(i) <= max /\ i \in upTo(i)
  <2>1. i \in DOMAIN messages /\ Visible(i) /\ Rank(i) <= max
    BY DEF Taken
  <2>2. i \in Nat /\ i \in 1..i
    BY <1>1, <2>1
  <2>3. IsFiniteSet(upTo(i)) /\ Cardinality(upTo(i)) \in Nat
    <3>1. IsFiniteSet(1..i)
      BY <2>2, FS_Interval
    <3>2. upTo(i) \in SUBSET (1..i)
      OBVIOUS
    <3> QED BY <3>1, <3>2, FS_Subset, FS_CardinalityType
  <2> QED BY <2>1, <2>2, <2>3 DEF Rank
<1>4. ASSUME NEW i \in Taken(max), NEW j \in upTo(i)
      PROVE  j \in Taken(max) /\ upTo(j) \in SUBSET upTo(i)
  <2>0. i \in Nat /\ j \in 1..i /\ Visible(j)
    BY <1>3
  <2>1. upTo(j) \in SUBSET upTo(i)
    BY <2>0
  <2>2. Cardinality(upTo(j)) <= Cardinality(upTo(i)) /\ Cardinality(upTo(j)) \in Nat
    BY <1>3, <2>1, FS_Subset, FS_CardinalityType
  <2>3. j \in DOMAIN messages /\ Visible(j)
    <3>1. i \in 1..Len(messages)
      BY <1>1, <1>3
    <3> QED BY <1>1, <2>0, <3>1
  <2>4. Rank(j) <= max
    BY <1>3, <2>2 DEF Rank
  <2> QED BY <2>1, <2>3, <2>4 DEF Taken
<1>5. ASSUME NEW i \in Taken(max) PROVE Rank(i) \in 1..Cardinality(Taken(max))
  <2>1. upTo(i) \in SUBSET Taken(max) /\ upTo(i) # {}
    BY <1>3, <1>4
  <2>2. Cardinality(upTo(i)) <= Cardinality(Taken(max)) /\ Cardinality(upTo(i)) # 0
    BY <1>2, <1>3, <2>1, FS_Subset, FS_EmptySet
  <2> QED BY <1>2, <1>3, <2>2
<1>6. ASSUME NEW i \in Taken(max), NEW j \in Taken(max), Rank(i) = Rank(j) PROVE i = j
  <2>1. ASSUME NEW k \in Taken(max), NEW l \in Taken(max), Rank(k) = Rank(l), k < l PROVE FALSE
    <3>0. k \in Nat /\ l \in Nat /\ Visible(k) /\ Visible(l) /\ k >= 1 /\ l >= 1
      <4>1. k \in 1..Len(messages) /\ l \in 1..Len(messages) /\ Visible(k) /\ Visible(l)
        BY <1>1, <1>3
      <4> QED BY <1>1, <4>1
    <3>1. k \in upTo(l)
      BY <2>1, <3>0
    <3>2. upTo(k) \in SUBSET upTo(l)
      BY <1>4, <3>1
    <3>3. upTo(k) = upTo(l)
      BY <1>3, <2>1, <3>2, FS_Subset
    <3>4. l \in upTo(l) /\ l \notin upTo(k)
      BY <2>1, <3>0
    <3> QED BY <3>3, <3>4
  <2>2. i \in Nat /\ j \in Nat
    BY <1>3
  <2>3. ~ (i < j) /\ ~ (j < i)
    BY <1>6, <2>1
  <2> QED BY <2>2, <2>3
<1> QED BY <1>2, <1>5, <1>6

\* A receive that finds nothing has no visible message before it.
LEMMA NothingVisible ==
    ASSUME TypeOK, Taken(1) = {}
    PROVE  \A i \in DOMAIN messages : ~ Visible(i)
<1> DEFINE S == {n \in Nat : \A i \in 1..n : i \in DOMAIN messages => ~ Visible(i)}
<1>1. DOMAIN messages = 1..Len(messages) /\ Len(messages) \in Nat
  BY TypedQueue
<1>2. 0 \in S
  OBVIOUS
<1>3. ASSUME NEW n \in Nat, n \in S PROVE n + 1 \in S
  <2> SUFFICES ASSUME n + 1 \in DOMAIN messages, Visible(n + 1) PROVE FALSE
    BY <1>3
  <2>1. {j \in 1..(n + 1) : Visible(j)} = {n + 1}
    BY <1>1, <1>3
  <2>2. Rank(n + 1) = 1
    BY <2>1, FS_Singleton DEF Rank
  <2>3. n + 1 \in Taken(1)
    BY <2>2 DEF Taken
  <2> QED BY <2>3
<1>4. \A n \in Nat : n \in S
  <2> HIDE DEF S
  <2> QED BY <1>2, <1>3, SetInduction
<1>5. Len(messages) \in S
  BY <1>1, <1>4
<1> QED BY <1>1, <1>5

\* Counting a receive in place changes neither the messages nor their delays.
LEMMA CountedSlots ==
    ASSUME TypeOK, NEW max
    PROVE  Counted(max) \in Queues /\ Slots(Counted(max)) = Slots(messages)
<1> DEFINE w == [i \in DOMAIN messages |->
                   IF i \in Taken(max) THEN [messages[i] EXCEPT !.count = @ + 1] ELSE messages[i]]
<1>1. /\ Len(messages) \in Nat /\ DOMAIN messages = 1..Len(messages)
      /\ \A i \in DOMAIN messages : messages[i] \in Record
      /\ \A i, j \in DOMAIN messages : messages[i].id = messages[j].id => i = j
  BY TypedQueue DEF Queues
<1>2. \A i \in DOMAIN messages :
         w[i] \in Record /\ w[i].id = messages[i].id /\ w[i].delay = messages[i].delay
  BY <1>1 DEF Record
<1>3. w \in Seq(Record) /\ DOMAIN w = DOMAIN messages
  <2>1. w \in [1..Len(messages) -> Record]
    BY <1>1, <1>2
  <2> HIDE DEF w
  <2> QED BY <1>1, <2>1
<1> HIDE DEF w
<1>4. w \in Queues /\ Slots(w) = Slots(messages)
  BY <1>1, <1>2, <1>3 DEF Queues, Slots
<1> QED BY <1>4 DEF w, Counted

\* The entries a receive adds: new handles, one for each message returned, each
\* a message in the queue, ready, and not held by an earlier receipt.
LEMMA NewEntries ==
    ASSUME TypeOK, NEW max \in Nat, NEW timeout \in Int
    PROVE  LET new == Entries(max, timeout)
               after == receipts + Cardinality(Taken(max))
           IN  /\ IsFiniteSet(new) /\ after \in Nat /\ receipts <= after
               /\ new \subseteq [handle : (receipts + 1)..after, id : Msg,
                                 count : Nat \ {0}, left : Int]
               /\ \A e, f \in new : e.handle = f.handle \/ e.id = f.id => e = f
               /\ \A e \in new : ~ IsInFlight(e.id)
               /\ \A e \in new : \E s \in Slots(messages) : s.id = e.id /\ s.delay <= 0
<1> DEFINE entry(i) == [handle |-> receipts + Rank(i), id |-> messages[i].id,
                        count |-> messages[i].count + 1, left |-> timeout]
           after == receipts + Cardinality(Taken(max))
<1>1. /\ messages \in Queues /\ receipts \in Nat
      /\ \A i \in DOMAIN messages : messages[i] \in Record
      /\ \A i, j \in DOMAIN messages : messages[i].id = messages[j].id => i = j
  BY TypedQueue DEF Queues
<1>2. /\ IsFiniteSet(Taken(max)) /\ Cardinality(Taken(max)) \in Nat
      /\ \A i \in Taken(max) : Rank(i) \in 1..Cardinality(Taken(max))
      /\ \A i, j \in Taken(max) : Rank(i) = Rank(j) => i = j
  BY TakenRanks
<1>3. \A i \in Taken(max) : i \in DOMAIN messages /\ Visible(i)
  BY DEF Taken
<1>4. Entries(max, timeout) = {entry(i) : i \in Taken(max)}
  BY DEF Entries
<1>5. after \in Nat /\ receipts <= after
  BY <1>1, <1>2
<1>6. ASSUME NEW i \in Taken(max)
      PROVE  /\ entry(i) \in [handle : (receipts + 1)..after, id : Msg,
                              count : Nat \ {0}, left : Int]
             /\ entry(i).handle = receipts + Rank(i) /\ entry(i).id = messages[i].id
             /\ ~ IsInFlight(messages[i].id)
             /\ [id |-> messages[i].id, delay |-> messages[i].delay] \in Slots(messages)
             /\ messages[i].delay <= 0
  <2>1. messages[i].id \in Msg /\ messages[i].count + 1 \in Nat \ {0}
    BY <1>1, <1>3 DEF Record
  <2>2. receipts + Rank(i) \in (receipts + 1)..after
    BY <1>1, <1>2
  <2>3. ~ IsInFlight(messages[i].id) /\ messages[i].delay <= 0
    BY <1>3 DEF Visible
  <2>4. [id |-> messages[i].id, delay |-> messages[i].delay] \in Slots(messages)
    BY <1>3 DEF Slots
  <2> QED BY <2>1, <2>2, <2>3, <2>4
<1>7. IsFiniteSet(Entries(max, timeout))
  <2> DEFINE f == [i \in Taken(max) |-> entry(i)]
             T == {entry(i) : i \in Taken(max)}
  <2>1. f \in [Taken(max) -> T] /\ {f[i] : i \in Taken(max)} = T
    OBVIOUS
  <2> HIDE DEF f, T
  <2>2. IsFiniteSet(T)
    BY <1>2, <2>1, FiniteImage
  <2> QED BY <1>4, <2>2 DEF T
<1>8. ASSUME NEW e \in Entries(max, timeout), NEW f \in Entries(max, timeout),
             e.handle = f.handle \/ e.id = f.id
      PROVE  e = f
  <2>1. PICK i \in Taken(max) : e = entry(i)
    BY <1>4
  <2>2. PICK j \in Taken(max) : f = entry(j)
    BY <1>4
  <2> HIDE DEF entry
  <2>3. i = j
    <3>1. CASE e.handle = f.handle
      <4>0. entry(i).handle = receipts + Rank(i) /\ entry(j).handle = receipts + Rank(j)
        BY <1>6
      <4>1. receipts + Rank(i) = receipts + Rank(j)
        BY <2>1, <2>2, <3>1, <4>0
      <4>2. Rank(i) \in Nat /\ Rank(j) \in Nat
        BY <1>2
      <4>3. Rank(i) = Rank(j)
        BY <1>1, <4>1, <4>2
      <4> QED BY <1>2, <4>3
    <3>2. CASE e.id = f.id
      <4>1. messages[i].id = messages[j].id /\ i \in DOMAIN messages /\ j \in DOMAIN messages
        BY <1>3, <1>6, <2>1, <2>2, <3>2
      <4> QED BY <1>1, <4>1
    <3> QED BY <1>8, <3>1, <3>2
  <2> QED BY <2>1, <2>2, <2>3
<1>9. ASSUME NEW e \in Entries(max, timeout)
      PROVE  /\ e \in [handle : (receipts + 1)..after, id : Msg, count : Nat \ {0}, left : Int]
             /\ ~ IsInFlight(e.id)
             /\ \E s \in Slots(messages) : s.id = e.id /\ s.delay <= 0
  <2>1. PICK i \in Taken(max) : e = entry(i)
    BY <1>4
  <2>2. [id |-> messages[i].id, delay |-> messages[i].delay].id = e.id
    BY <2>1
  <2>3. [id |-> messages[i].id, delay |-> messages[i].delay].delay <= 0
    BY <1>6
  <2> HIDE DEF entry
  <2> QED BY <1>6, <2>1, <2>2, <2>3
<1> QED BY <1>5, <1>7, <1>8, <1>9

-----------------------------------------------------------------------------
(* The steps. *)

Polls == [Poller -> [pc : {"idle", "trying", "committed", "parked"},
                     remaining : Int, armed : BOOLEAN]]

\* After a broadcast by a holder of the mutex no poll sleeps or is about to.
LEMMA BroadcastWakes ==
    ASSUME TypeOK
    PROVE  /\ Broadcast \in Polls
           /\ \A p \in Poller : /\ Broadcast[p].pc # "parked"
                                /\ Broadcast[p].pc = "committed" => poll[p].pc = "committed"
<1>1. poll \in Polls
  BY DEF TypeOK, Polls
<1>2. ASSUME NEW p \in Poller
      PROVE  /\ Broadcast[p] \in [pc : {"idle", "trying", "committed", "parked"},
                                  remaining : Int, armed : BOOLEAN]
             /\ Broadcast[p].pc # "parked"
             /\ Broadcast[p].pc = "committed" => poll[p].pc = "committed"
  <2>1. poll[p] \in [pc : {"idle", "trying", "committed", "parked"}, remaining : Int, armed : BOOLEAN]
    BY <1>1 DEF Polls
  <2>2. Broadcast[p] = IF poll[p].pc = "parked" THEN [poll[p] EXCEPT !.pc = "trying"] ELSE poll[p]
    BY DEF Broadcast
  <2> QED BY <2>1, <2>2
<1>3. DOMAIN Broadcast = Poller /\ Broadcast = [p \in Poller |-> Broadcast[p]]
  BY DEF Broadcast
<1> QED BY <1>2, <1>3 DEF Polls

\* What a send appends.
LEMMA AppendedSlots ==
    ASSUME TypeOK, Known, NEW ids \in Seq(Msg), IsInjective(ids),
           ToSet(ids) \cap sent = {}, NEW delay \in Nat
    PROVE  /\ Appended(ids, delay) \in Queues
           /\ Slots(Appended(ids, delay))
                = Slots(messages) \cup {[id |-> m, delay |-> delay] : m \in ToSet(ids)}
<1> DEFINE r == [i \in DOMAIN ids |-> [id |-> ids[i], count |-> 0, delay |-> delay]]
           w == messages \o r
           N == Len(messages)
<1>1. /\ messages \in Seq(Record) /\ N \in Nat /\ DOMAIN messages = 1..N
      /\ \A i, j \in DOMAIN messages : messages[i].id = messages[j].id => i = j
      /\ \A i \in DOMAIN messages : messages[i].id \in sent
  <2>1. \A i \in DOMAIN messages :
           [id |-> messages[i].id, delay |-> messages[i].delay] \in Slots(messages)
    BY DEF Slots
  <2>2. \A i \in DOMAIN messages :
           [id |-> messages[i].id, delay |-> messages[i].delay].id = messages[i].id
    OBVIOUS
  <2>3. \A i \in DOMAIN messages : messages[i].id \in sent
    BY <2>1, <2>2 DEF Known
  <2> QED BY <2>3, TypedQueue DEF Queues
<1>2. /\ DOMAIN ids = 1..Len(ids) /\ Len(ids) \in Nat
      /\ \A i \in DOMAIN ids : ids[i] \in Msg /\ ids[i] \notin sent
      /\ \A i, j \in DOMAIN ids : ids[i] = ids[j] => i = j
  BY DEF IsInjective, ToSet
<1>3. r \in Seq(Record) /\ Len(r) = Len(ids) /\ DOMAIN r = DOMAIN ids
  <2>1. \A i \in DOMAIN ids : r[i] \in Record
    BY <1>2 DEF Record
  <2>2. r \in [1..Len(ids) -> Record]
    BY <1>2, <2>1
  <2> HIDE DEF r
  <2> QED BY <1>2, <2>2
<1>4. \A i \in DOMAIN ids : r[i].id = ids[i] /\ r[i].delay = delay
  OBVIOUS
<1> HIDE DEF r
<1>5. /\ w \in Seq(Record) /\ Len(w) = N + Len(ids)
      /\ \A i \in 1..(N + Len(ids)) : w[i] = IF i <= N THEN messages[i] ELSE r[i - N]
  <2>1. /\ w \in Seq(Record) /\ Len(w) = N + Len(r)
        /\ \A i \in 1..(N + Len(r)) : w[i] = IF i <= N THEN messages[i] ELSE r[i - N]
    <3>1. messages \in Seq(Record) /\ r \in Seq(Record)
      BY <1>1, <1>3
    <3>2. messages \o r \in Seq(Record)
      BY <3>1, ConcatProperties
    <3>3. Len(messages \o r) = Len(messages) + Len(r)
      BY <3>1, ConcatProperties
    <3>4. \A i \in 1..(Len(messages) + Len(r)) :
             (messages \o r)[i] = IF i <= Len(messages) THEN messages[i] ELSE r[i - Len(messages)]
      BY <3>1, ConcatProperties
    <3> QED BY <3>2, <3>3, <3>4
  <2> HIDE DEF w, N
  <2> QED BY <1>3, <2>1
<1> HIDE DEF w
<1>6. DOMAIN w = 1..(N + Len(ids))
  BY <1>5
<1>7. ASSUME NEW i \in DOMAIN w
      PROVE  \/ i \in DOMAIN messages /\ w[i] = messages[i]
             \/ i > N /\ i - N \in DOMAIN ids /\ w[i] = r[i - N]
  BY <1>1, <1>2, <1>5, <1>6
<1>8. /\ \A i \in DOMAIN messages : i \in DOMAIN w /\ w[i] = messages[i]
      /\ \A i \in DOMAIN ids : N + i \in DOMAIN w /\ w[N + i] = r[i]
  BY <1>1, <1>2, <1>5, <1>6
<1>9. w \in Queues
  <2>1. ASSUME NEW i \in DOMAIN w, NEW j \in DOMAIN w, w[i].id = w[j].id PROVE i = j
    <3>1. CASE i \in DOMAIN messages /\ w[i] = messages[i]
      BY <1>1, <1>2, <1>4, <1>7, <2>1, <3>1
    <3>2. CASE i > N /\ i - N \in DOMAIN ids /\ w[i] = r[i - N]
      <4>1. ~ (j \in DOMAIN messages /\ w[j] = messages[j])
        BY <1>1, <1>2, <1>4, <2>1, <3>2
      <4>2. j > N /\ j - N \in DOMAIN ids /\ w[j] = r[j - N]
        BY <1>7, <4>1
      <4>3. i - N = j - N
        BY <1>2, <1>4, <2>1, <3>2, <4>2
      <4> QED BY <1>1, <1>6, <4>3, <1>2
    <3> QED BY <1>7, <3>1, <3>2
  <2> QED BY <1>5, <2>1 DEF Queues
<1>10. Slots(w) = Slots(messages) \cup {[id |-> m, delay |-> delay] : m \in ToSet(ids)}
  <2>1. \A i \in DOMAIN w :
           \/ \E j \in DOMAIN messages : w[i] = messages[j]
           \/ \E j \in DOMAIN ids : w[i].id = ids[j] /\ w[i].delay = delay
    BY <1>4, <1>7
  <2>2. \A j \in DOMAIN messages : \E i \in DOMAIN w : w[i] = messages[j]
    BY <1>8
  <2>3. \A j \in DOMAIN ids : \E i \in DOMAIN w : w[i].id = ids[j] /\ w[i].delay = delay
    BY <1>4, <1>8
  <2>4. Slots(w) \subseteq Slots(messages) \cup {[id |-> m, delay |-> delay] : m \in ToSet(ids)}
    BY <2>1 DEF Slots, ToSet
  <2>5. Slots(messages) \subseteq Slots(w)
    BY <2>2 DEF Slots
  <2>6. {[id |-> m, delay |-> delay] : m \in ToSet(ids)} \subseteq Slots(w)
    BY <2>3 DEF Slots, ToSet
  <2> QED BY <2>4, <2>5, <2>6
<1> QED BY <1>9, <1>10 DEF Appended, w, r

\* The messages of a queue, read off its slots.
LEMMA IdsOfSlots ==
    ASSUME NEW q
    PROVE  Ids(q) = {s.id : s \in Slots(q)}
<1>1. \A i \in DOMAIN q : [id |-> q[i].id, delay |-> q[i].delay] \in Slots(q)
  BY DEF Slots
<1>2. \A i \in DOMAIN q : [id |-> q[i].id, delay |-> q[i].delay].id = q[i].id
  OBVIOUS
<1>3. \A s \in Slots(q) : \E i \in DOMAIN q : s.id = q[i].id
  BY DEF Slots
<1> QED BY <1>1, <1>2, <1>3, ZenonT(30) DEF Ids

\* What the three sends keep, whether they broadcast or not.
LEMMA SendStep ==
    ASSUME IInv, NEW ids \in Seq(Msg), IsInjective(ids), ToSet(ids) \cap sent = {},
           NEW delay \in Nat, messages' = Appended(ids, delay),
           sent' = sent \cup ToSet(ids), poll' \in Polls,
           \/ due' = due
           \/ delay = 0 /\ due' = due \cup ToSet(ids),
           UNCHANGED <<inflight, receipts, dlq, deleted, late>>
    PROVE  /\ TypeOK' /\ IsFiniteSet(inflight)' /\ Known' /\ Ready'
           /\ NotLost' /\ AloneUnlessLate'
<1>1. /\ messages' \in Queues
      /\ Slots(messages') = Slots(messages) \cup {[id |-> m, delay |-> delay] : m \in ToSet(ids)}
  BY AppendedSlots DEF IInv
<1>2. ToSet(ids) \subseteq Msg
  BY DEF ToSet
<1>3. TypeOK'
  <2>1. TypeOK
    BY DEF IInv
  <2>2. due' \subseteq sent' /\ deleted' \subseteq sent' /\ sent' \subseteq Msg
    BY <1>2, <2>1 DEF TypeOK
  <2> QED BY <1>1, <2>1, <2>2 DEF TypeOK, Queues, Record, Polls
<1>4. ASSUME NEW s \in Slots(messages')
      PROVE  \/ s \in Slots(messages)
             \/ s.id \in ToSet(ids) /\ s.delay = delay
  BY <1>1
<1>5. Known'
  BY <1>4 DEF IInv, Known
<1>6. Ready'
  <2> SUFFICES ASSUME NEW s \in Slots(messages'),
                      s.id \in due' \/ (\E e \in inflight' : e.id = s.id)
               PROVE  s.delay <= 0
    BY DEF Ready
  <2>1. CASE s \in Slots(messages)
    <3>1. s.id \notin ToSet(ids)
      BY <2>1 DEF IInv, Known
    <3> QED BY <2>1, <3>1 DEF IInv, Ready
  <2>2. CASE s.id \in ToSet(ids) /\ s.delay = delay
    <3>1. s.id \notin sent
      BY <2>2
    <3>2. s.id \notin due /\ ~ \E e \in inflight' : e.id = s.id
      BY <3>1 DEF IInv, TypeOK, Known
    <3> QED BY <2>2, <3>2
  <2> QED BY <1>4, <2>1, <2>2
<1>7. NotLost'
  <2>1. Ids(messages') = Ids(messages) \cup ToSet(ids)
    <3>1. \A m \in ToSet(ids) : [id |-> m, delay |-> delay].id = m
      OBVIOUS
    <3>2. Ids(messages') = {s.id : s \in Slots(messages')}
      BY IdsOfSlots
    <3>3. Ids(messages) = {s.id : s \in Slots(messages)}
      BY IdsOfSlots
    <3>4. Ids(messages') \subseteq Ids(messages) \cup ToSet(ids)
      BY <1>4, <3>2, <3>3
    <3>5. Ids(messages) \subseteq Ids(messages')
      BY <1>1, <3>2, <3>3
    <3>6. ToSet(ids) \subseteq Ids(messages')
      BY <1>1, <3>1, <3>2
    <3> QED BY <3>4, <3>5, <3>6
  <2> QED BY <2>1 DEF IInv, NotLost
<1>8. AloneUnlessLate'
  BY DEF IInv, AloneUnlessLate, Expired
<1> QED BY <1>3, <1>5, <1>6, <1>7, <1>8 DEF IInv

\* What both receives keep.
LEMMA TakeStep ==
    ASSUME IInv, NEW max \in Nat, NEW timeout \in Int, Take(max, timeout),
           poll' \in Polls, UNCHANGED <<dlq, history>>
    PROVE  /\ TypeOK' /\ IsFiniteSet(inflight)' /\ Known' /\ Ready'
           /\ NotLost' /\ AloneUnlessLate'
           /\ Slots(messages') = Slots(messages) /\ inflight \subseteq inflight'
<1> DEFINE new == Entries(max, timeout)
<1>1. messages' \in Queues /\ Slots(messages') = Slots(messages)
  BY CountedSlots DEF IInv, Take
<1>2. /\ inflight' = inflight \cup new
      /\ IsFiniteSet(new) /\ receipts' \in Nat /\ receipts <= receipts'
      /\ new \subseteq [handle : (receipts + 1)..receipts', id : Msg,
                        count : Nat \ {0}, left : Int]
      /\ \A e, f \in new : e.handle = f.handle \/ e.id = f.id => e = f
      /\ \A e \in new : ~ IsInFlight(e.id)
      /\ \A e \in new : \E s \in Slots(messages) : s.id = e.id /\ s.delay <= 0
  BY NewEntries DEF IInv, Take
<1> HIDE DEF new
<1>3. /\ TypeOK /\ receipts \in Nat
      /\ inflight \subseteq [handle : 1..receipts, id : Msg, count : Nat \ {0}, left : Int]
      /\ \A e, f \in inflight : e.handle = f.handle => e = f
      /\ UNCHANGED <<dlq, sent, deleted, due, late>>
  BY DEF IInv, TypeOK, history
<1>4. TypeOK'
  <2>1. inflight' \subseteq [handle : 1..receipts', id : Msg, count : Nat \ {0}, left : Int]
    BY <1>2, <1>3
  <2>2. \A e \in inflight, f \in new : e.handle # f.handle
    BY <1>2, <1>3
  <2>3. \A e, f \in inflight' : e.handle = f.handle => e = f
    BY <1>2, <1>3, <2>2
  <2>4. late' \subseteq 1..receipts'
    BY <1>2, <1>3 DEF TypeOK
  <2> QED BY <1>1, <1>2, <1>3, <2>1, <2>3, <2>4 DEF TypeOK, Queues, Record, Polls
<1>5. IsFiniteSet(inflight)'
  BY <1>2, FS_Union DEF IInv
<1>6. Known'
  BY <1>1, <1>2, <1>3 DEF IInv, Known
<1>7. Ready'
  <2> SUFFICES ASSUME NEW s \in Slots(messages), NEW e \in new, e.id = s.id
               PROVE  s.delay <= 0
    BY <1>1, <1>2, <1>3 DEF IInv, Ready
  <2>1. PICK t \in Slots(messages) : t.id = e.id /\ t.delay <= 0
    BY <1>2
  <2>2. \A i, j \in DOMAIN messages : messages[i].id = messages[j].id => i = j
    BY <1>3 DEF TypeOK
  <2>3. s = t
    BY <2>1, <2>2 DEF Slots
  <2> QED BY <2>1, <2>3
<1>8. NotLost'
  <2>1. Ids(messages') = Ids(messages)
    BY <1>1, IdsOfSlots
  <2> QED BY <1>3, <2>1 DEF IInv, NotLost
<1>9. AloneUnlessLate'
  <2> SUFFICES ASSUME NEW e \in inflight', NEW f \in inflight', e.id = f.id,
                      ~ Expired(e), ~ Expired(f)
               PROVE  e = f \/ {e.handle, f.handle} \cap late' # {}
    BY DEF AloneUnlessLate, Expired
  <2>1. CASE e \in inflight /\ f \in inflight
    BY <1>3, <2>1 DEF IInv, AloneUnlessLate
  <2>2. CASE e \in new /\ f \in new
    BY <1>2, <2>2
  <2>3. ~ (e \in new /\ f \in inflight) /\ ~ (f \in new /\ e \in inflight)
    BY <1>2 DEF IsInFlight
  <2> QED BY <1>2, <2>1, <2>2, <2>3
<1> QED BY <1>1, <1>2, <1>4, <1>5, <1>6, <1>7, <1>8, <1>9

\* Deleting a batch takes the messages out of the queue together with the
\* entries of their receipts; another entry of the same message may stay.
LEMMA DeleteStep ==
    ASSUME IInv, NEW handles \in HandleBatches, Delete(handles)
    PROVE  IInv'
<1> DEFINE ids == [i \in DOMAIN handles |-> EntryOf(handles[i]).id]
           gone == {EntryOf(h).id : h \in ToSet(handles)}
<1>1. /\ TypeOK /\ Unlocked
      /\ \A i \in DOMAIN handles : \E e \in inflight : e.handle = handles[i]
      /\ inflight' = {e \in inflight : e.handle \notin ToSet(handles)}
      /\ messages' = WithoutAll(messages, ids)
      /\ deleted' = deleted \cup gone
      /\ UNCHANGED <<receipts, dlq, poll, sent, due, late>>
  BY Zenon DEF IInv, Delete
<1>2. \A h \in ToSet(handles) : EntryOf(h) \in inflight /\ EntryOf(h).handle = h
  BY <1>1 DEF EntryOf, ToSet
<1>3. \A e \in inflight : e.handle \in ToSet(handles) => EntryOf(e.handle) = e
  BY <1>1, <1>2 DEF TypeOK
<1>4. ids \in Seq(Msg) /\ ToSet(ids) = gone
  <2>1. PICK n \in 1..2 : handles \in [1..n -> 1..receipts]
    BY DEF HandleBatches
  <2>2. \A i \in 1..n : EntryOf(handles[i]).id \in Msg
    <3>1. \A i \in 1..n : handles[i] \in ToSet(handles)
      BY <2>1 DEF ToSet
    <3>2. \A i \in 1..n : EntryOf(handles[i]) \in Entry
      BY <1>1, <1>2, <3>1, TypedQueue
    <3> QED BY <3>2 DEF Entry
  <2>3. ids \in [1..n -> Msg]
    BY <2>1, <2>2
  <2>4. ToSet(ids) = gone
    BY <2>1 DEF ToSet
  <2> HIDE DEF ids
  <2> QED BY <2>1, <2>3, <2>4
<1> HIDE DEF ids, gone
<1>5. messages' \in Queues /\ Slots(messages') = {s \in Slots(messages) : s.id \notin gone}
  BY <1>1, <1>4, TypedQueue, WithoutAllSlots
<1>6. gone \subseteq sent
  BY <1>2 DEF gone, IInv, Known
<1>7. TypeOK'
  <2>1. deleted' \subseteq sent'
    BY <1>1, <1>6 DEF TypeOK
  <2> QED BY <1>1, <1>5, <2>1 DEF TypeOK, Queues, Record
<1>8. IsFiniteSet(inflight)'
  BY <1>1, FS_Subset DEF IInv
<1>9. Known' /\ Ready'
  BY <1>1, <1>5 DEF IInv, Known, Ready
<1>10. Asleep'
  <2> SUFFICES ASSUME NEW p \in Poller, NEW s \in Slots(messages'),
                      poll'[p].pc \in {"committed", "parked"}, s.id \in due'
               PROVE  \E e \in inflight' : e.id = s.id
    BY DEF Asleep
  <2>1. s \in Slots(messages) /\ s.id \notin gone
    BY <1>5
  <2>2. PICK e \in inflight : e.id = s.id
    BY <1>1, <2>1 DEF IInv, Asleep
  <2>3. e.handle \notin ToSet(handles)
    BY <1>3, <2>1, <2>2 DEF gone
  <2> QED BY <1>1, <2>2, <2>3
<1>11. NotLost'
  <2>1. Ids(messages) = {s.id : s \in Slots(messages)} /\ Ids(messages') = {s.id : s \in Slots(messages')}
    BY IdsOfSlots
  <2>2. Ids(messages) \subseteq Ids(messages') \cup gone
    BY <1>5, <2>1
  <2> QED BY <1>1, <2>2 DEF IInv, NotLost
<1>12. AloneUnlessLate'
  BY <1>1 DEF IInv, AloneUnlessLate, Expired
<1> QED BY <1>7, <1>8, <1>9, <1>10, <1>11, <1>12 DEF IInv

\* A receipt that is extended after it expired goes to late.
LEMMA ChangeStep ==
    ASSUME IInv, NEW e \in inflight, NEW timeout \in Int, ChangeMessageVisibility(e, timeout)
    PROVE  IInv'
<1> DEFINE new == [e EXCEPT !.left = timeout]
<1>1. /\ TypeOK /\ inflight' = (inflight \ {e}) \cup {new}
      /\ late' = IF Expired(e) THEN late \cup {e.handle} ELSE late
      /\ UNCHANGED <<messages, receipts, dlq, poll, sent, deleted, due>>
  BY DEF IInv, ChangeMessageVisibility
<1>2. /\ inflight \subseteq [handle : 1..receipts, id : Msg, count : Nat \ {0}, left : Int]
      /\ \A f, g \in inflight : f.handle = g.handle => f = g
  BY <1>1 DEF TypeOK
<1>3. /\ new \in [handle : 1..receipts, id : Msg, count : Nat \ {0}, left : Int]
      /\ new.handle = e.handle /\ new.id = e.id
  BY <1>2
<1> HIDE DEF new
<1>4. TypeOK'
  <2>1. inflight' \subseteq [handle : 1..receipts', id : Msg, count : Nat \ {0}, left : Int]
    BY <1>1, <1>2, <1>3
  <2>2. \A f, g \in inflight' : f.handle = g.handle => f = g
    BY <1>1, <1>2, <1>3
  <2>3. late' \subseteq 1..receipts'
    BY <1>1, <1>2, ZenonT(30) DEF TypeOK
  <2> QED BY <1>1, <2>1, <2>2, <2>3 DEF TypeOK
<1>5. IsFiniteSet(inflight)'
  BY <1>1, FS_RemoveElement, FS_AddElement DEF IInv
<1>6. \A m : (\E f \in inflight : f.id = m) <=> (\E f \in inflight' : f.id = m)
  BY <1>1, <1>3
<1>7. Known' /\ Ready' /\ Asleep' /\ NotLost'
  <2>1. Known' /\ Ready'
    BY <1>1, <1>6 DEF IInv, Known, Ready
  <2>2. Asleep' /\ NotLost'
    BY <1>1, <1>6 DEF IInv, Asleep, NotLost
  <2> QED BY <2>1, <2>2
<1>8. AloneUnlessLate'
  <2> SUFFICES ASSUME NEW f \in inflight', NEW g \in inflight', f.id = g.id,
                      ~ Expired(f), ~ Expired(g), f # g
               PROVE  {f.handle, g.handle} \cap late' # {}
    BY DEF AloneUnlessLate, Expired
  <2>1. CASE f \in inflight /\ g \in inflight
    BY <1>1, <2>1 DEF IInv, AloneUnlessLate
  <2>2. ASSUME NEW h \in inflight \ {e}, h.id = e.id, ~ Expired(h)
        PROVE  {h.handle, e.handle} \cap late' # {}
    <3>1. CASE Expired(e)
      BY <1>1, <3>1
    <3>2. CASE ~ Expired(e)
      BY <1>1, <2>2, <3>2 DEF IInv, AloneUnlessLate
    <3> QED BY <3>1, <3>2
  <2>3. CASE f = new
    <3>1. g \in inflight \ {e}
      BY <1>1, <2>3
    <3> QED BY <1>3, <2>2, <2>3, <3>1
  <2>4. CASE g = new
    <3>1. f \in inflight \ {e}
      BY <1>1, <2>4
    <3> QED BY <1>3, <2>2, <2>4, <3>1
  <2> QED BY <1>1, <2>1, <2>3, <2>4
<1> QED BY <1>4, <1>5, <1>7, <1>8 DEF IInv

\* An order of the scanner's loop visits every expired entry.
LEMMA OrderCovers ==
    ASSUME NEW S \in SUBSET Entry, IsFiniteSet(S), NEW order \in SetToSeqs(S)
    PROVE  order \in Seq(Entry) /\ ToSet(order) = S
<1> DEFINE n == Cardinality(S)
           R == {order[i] : i \in 1..n}
<1>1. n \in Nat
  BY FS_CardinalityType
<1> HIDE DEF n
<1>2. order \in [1..n -> S] /\ \A i, j \in 1..n : i # j => order[i] # order[j]
  BY DEF SetToSeqs, n
<1>3. order \in Bijection(1..n, R)
  BY <1>2 DEF Bijection, Injection, Surjection, IsInjective
<1>4. IsFiniteSet(1..n) /\ Cardinality(1..n) = n
  BY <1>1, FS_Interval
<1> HIDE DEF R
<1>5. Cardinality(R) = n
  BY <1>3, <1>4, FS_Bijection DEF ExistsBijection
<1>6. R = S
  <2>1. R \in SUBSET S
    BY <1>2 DEF R
  <2> QED BY <1>5, <2>1, FS_Subset DEF n
<1>7. order \in [1..n -> Entry]
  BY <1>2
<1>8. order \in Seq(Entry) /\ DOMAIN order = 1..n
  BY <1>1, <1>7
<1> QED BY <1>6, <1>8 DEF R, ToSet

\* A scan puts back the messages of the live entries, and wakes the polls; the
\* messages of the dead ones, for which nobody is woken, are gone from the queue.
LEMMA ScanStep ==
    ASSUME IInv, NEW lag \in {0, 1}, Scan(lag)
    PROVE  IInv'
<1> DEFINE expired == {e \in inflight : Expired([e EXCEPT !.left = @ + lag])}
           alive == {e \in expired : ~ Dead(e)}
           dead == {e.id : e \in {x \in expired : Dead(x)}}
<1>1. /\ TypeOK /\ Unlocked
      /\ inflight' = inflight \ expired
      /\ poll' = IF alive # {} THEN Broadcast ELSE poll
      /\ due' = due \cup {e.id : e \in alive}
      /\ UNCHANGED <<receipts, sent, deleted, late>>
  BY DEF IInv, Scan
<1>2. PICK order \in SetToSeqs(expired) :
         messages' = ScannedAll(order).queue /\ dlq' = ScannedAll(order).dlq
  BY DEF Scan
<1>3. /\ expired \subseteq inflight /\ IsFiniteSet(expired) /\ expired \in SUBSET Entry
  BY <1>1, FS_Subset, TypedQueue DEF IInv
<1> HIDE DEF expired
<1>4. order \in Seq(Entry) /\ ToSet(order) = expired
  BY <1>2, <1>3, OrderCovers
<1>5. /\ ScannedAll(order) \in Pairs
      /\ Slots(messages') = {s \in Slots(messages) : s.id \notin dead}
      /\ Ids(dlq') = Ids(dlq) \cup dead
  BY <1>1, <1>2, <1>4, ScannedAllSlots, TypedQueue
<1>6. messages' \in Queues /\ dlq' \in Seq(DeadLetter)
  BY <1>2, <1>5 DEF Pairs
<1> HIDE DEF dead
<1>7. {e.id : e \in alive} \subseteq sent
  BY <1>3 DEF IInv, Known
<1>8. poll' \in Polls
  BY <1>1, BroadcastWakes DEF TypeOK, Polls
<1>9. TypeOK'
  <2>1. due' \subseteq sent'
    BY <1>1, <1>7 DEF TypeOK
  <2> QED BY <1>1, <1>6, <1>8, <2>1 DEF TypeOK, Queues, Record, DeadLetter, Polls
<1>10. IsFiniteSet(inflight)'
  BY <1>1, FS_Subset DEF IInv
<1>11. Known'
  BY <1>1, <1>5 DEF IInv, Known
<1>12. Ready'
  <2> SUFFICES ASSUME NEW s \in Slots(messages'),
                      s.id \in due' \/ (\E e \in inflight' : e.id = s.id)
               PROVE  s.delay <= 0
    BY DEF Ready
  <2>1. s \in Slots(messages)
    BY <1>5
  <2>2. s.id \in due \/ (\E e \in inflight : e.id = s.id)
    BY <1>1, <1>3
  <2> QED BY <2>1, <2>2 DEF IInv, Ready
<1>13. Asleep'
  <2> SUFFICES ASSUME NEW p \in Poller, NEW s \in Slots(messages'),
                      poll'[p].pc \in {"committed", "parked"}, s.id \in due'
               PROVE  \E e \in inflight' : e.id = s.id
    BY DEF Asleep
  <2>1. alive = {}
    BY <1>1, BroadcastWakes DEF Unlocked
  <2>2. PICK e \in inflight : e.id = s.id
    BY <1>1, <1>5, <2>1 DEF IInv, Asleep
  <2>3. e \notin expired
    BY <1>5, <2>1, <2>2 DEF dead
  <2> QED BY <1>1, <2>2, <2>3
<1>14. NotLost'
  <2>1. Ids(messages) = {s.id : s \in Slots(messages)} /\ Ids(messages') = {s.id : s \in Slots(messages')}
    BY IdsOfSlots
  <2>2. Ids(messages) \subseteq Ids(messages') \cup dead
    BY <1>5, <2>1
  <2> QED BY <1>1, <1>5, <2>2 DEF IInv, NotLost
<1>15. AloneUnlessLate'
  BY <1>1 DEF IInv, AloneUnlessLate, Expired
<1> QED BY <1>9, <1>10, <1>11, <1>12, <1>13, <1>14, <1>15 DEF IInv

\* The steps of a poll that touch nothing but the polls.
LEMMA PollStep ==
    ASSUME IInv, poll' \in Polls, Asleep',
           UNCHANGED <<messages, inflight, receipts, dlq, history>>
    PROVE  IInv'
<1>1. UNCHANGED <<sent, deleted, due, late>>
  BY DEF history
<1>2. TypeOK'
  BY <1>1 DEF IInv, TypeOK, Polls
<1>3. Known' /\ Ready' /\ NotLost' /\ AloneUnlessLate'
  BY <1>1 DEF IInv, Known, Ready, NotLost, AloneUnlessLate, Expired
<1> QED BY <1>2, <1>3 DEF IInv

\* The passing of time: delays and visibility timeouts run down, nothing else.
LEMMA TickStep ==
    ASSUME IInv, Tick
    PROVE  IInv'
<1> DEFINE older(e) == [e EXCEPT !.left = Elapse(@)]
           N == Len(messages)
<1>1. /\ TypeOK /\ N \in Nat /\ DOMAIN messages = 1..N
      /\ \A i \in DOMAIN messages : messages[i] \in Record
      /\ messages' = [i \in DOMAIN messages |-> [messages[i] EXCEPT !.delay = Elapse(@)]]
      /\ inflight' = {older(e) : e \in inflight}
      /\ poll' = [p \in Poller |-> [poll[p] EXCEPT !.remaining = Elapse(@)]]
      /\ UNCHANGED <<receipts, dlq, sent, deleted, due, late>>
  BY TypedQueue DEF IInv, Tick, history
<1>2. \A i \in DOMAIN messages :
         /\ messages'[i] \in Record /\ messages'[i].id = messages[i].id
         /\ messages'[i].delay = Elapse(messages[i].delay)
  BY <1>1 DEF Record, Elapse
<1>3. messages' \in Seq(Record) /\ DOMAIN messages' = DOMAIN messages
  <2>1. messages' \in [1..N -> Record]
    BY <1>1, <1>2
  <2> QED BY <1>1, <2>1
<1>4. \A s \in Slots(messages') : \E t \in Slots(messages) :
         t.id = s.id /\ s.delay = Elapse(t.delay) /\ t.delay \in Int
  <2> TAKE s \in Slots(messages')
  <2>1. PICK i \in DOMAIN messages : s = [id |-> messages'[i].id, delay |-> messages'[i].delay]
    BY <1>3 DEF Slots
  <2> DEFINE t == [id |-> messages[i].id, delay |-> messages[i].delay]
  <2>2. t \in Slots(messages)
    BY DEF Slots
  <2>3. messages[i].delay \in Int
    BY <1>1 DEF Record
  <2>4. t.id = s.id /\ s.delay = Elapse(t.delay) /\ t.delay \in Int
    BY <1>2, <2>1, <2>3
  <2> HIDE DEF t
  <2> QED BY <2>2, <2>4
<1>5. ASSUME NEW e \in inflight
      PROVE  /\ older(e) \in [handle : 1..receipts, id : Msg, count : Nat \ {0}, left : Int]
             /\ older(e).handle = e.handle /\ older(e).id = e.id
             /\ older(e).left = Elapse(e.left) /\ e.left \in Int
  <2>1. e \in [handle : 1..receipts, id : Msg, count : Nat \ {0}, left : Int]
    BY <1>1 DEF TypeOK
  <2>2. Elapse(e.left) \in Int
    BY <2>1 DEF Elapse
  <2> QED BY <2>1, <2>2
<1>6. IsFiniteSet(inflight)'
  <2> DEFINE f == [e \in inflight |-> older(e)]
  <2>1. f \in [inflight -> inflight'] /\ {f[e] : e \in inflight} = inflight'
    BY <1>1
  <2> HIDE DEF f
  <2> QED BY <2>1, FiniteImage DEF IInv
<1> HIDE DEF older
<1>7. ASSUME NEW p \in Poller
      PROVE  /\ poll'[p] \in [pc : {"idle", "trying", "committed", "parked"},
                              remaining : Int, armed : BOOLEAN]
             /\ poll'[p].pc = poll[p].pc
  <2>1. poll[p] \in [pc : {"idle", "trying", "committed", "parked"},
                     remaining : Int, armed : BOOLEAN]
    BY <1>1 DEF TypeOK
  <2>2. Elapse(poll[p].remaining) \in Int
    BY <2>1 DEF Elapse
  <2>3. poll'[p] = [poll[p] EXCEPT !.remaining = Elapse(@)]
    BY <1>1
  <2> QED BY <2>1, <2>2, <2>3
<1>8. TypeOK'
  <2>1. inflight' \subseteq [handle : 1..receipts', id : Msg, count : Nat \ {0}, left : Int]
    BY <1>1, <1>5
  <2>2. \A e, f \in inflight' : e.handle = f.handle => e = f
    BY <1>1, <1>5 DEF TypeOK
  <2>3. \A i, j \in DOMAIN messages' : messages'[i].id = messages'[j].id => i = j
    <3>1. \A i, j \in DOMAIN messages : messages[i].id = messages[j].id => i = j
      BY <1>1 DEF TypeOK
    <3>2. \A i \in DOMAIN messages' : i \in DOMAIN messages /\ messages'[i].id = messages[i].id
      BY <1>2, <1>3
    <3> QED BY <3>1, <3>2
  <2>4. poll' \in Polls
    BY <1>1, <1>7 DEF Polls
  <2> QED BY <1>1, <1>3, <2>1, <2>2, <2>3, <2>4 DEF TypeOK, Record, Polls
<1>9. \A m : (\E e \in inflight : e.id = m) <=> (\E e \in inflight' : e.id = m)
  BY <1>1, <1>5
<1>10. Known'
  BY <1>1, <1>4, <1>5 DEF IInv, Known
<1>11. Ready'
  <2> SUFFICES ASSUME NEW s \in Slots(messages'),
                      s.id \in due' \/ (\E e \in inflight' : e.id = s.id)
               PROVE  s.delay <= 0
    BY DEF Ready
  <2>1. PICK t \in Slots(messages) :
           t.id = s.id /\ s.delay = Elapse(t.delay) /\ t.delay \in Int
    BY <1>4
  <2>2. t.delay <= 0
    BY <1>1, <1>9, <2>1 DEF IInv, Ready
  <2> QED BY <2>1, <2>2 DEF Elapse
<1>12. Asleep'
  <2> SUFFICES ASSUME NEW p \in Poller, NEW s \in Slots(messages'),
                      poll'[p].pc \in {"committed", "parked"}, s.id \in due'
               PROVE  \E e \in inflight' : e.id = s.id
    BY DEF Asleep
  <2>1. PICK t \in Slots(messages) : t.id = s.id
    BY <1>4
  <2>2. poll[p].pc \in {"committed", "parked"} /\ t.id \in due
    BY <1>1, <1>7, <2>1
  <2>3. \E e \in inflight : e.id = t.id
    BY <2>2 DEF IInv, Asleep
  <2> QED BY <1>9, <2>1, <2>3
<1>13. NotLost'
  <2>1. Ids(messages') = Ids(messages)
    BY <1>2, <1>3 DEF Ids
  <2> QED BY <1>1, <2>1 DEF IInv, NotLost
<1>14. AloneUnlessLate'
  <2>1. \A e \in inflight : Expired(e) => Expired(older(e))
    BY <1>5 DEF Expired, Elapse
  <2> QED BY <1>1, <1>5, <2>1 DEF IInv, AloneUnlessLate, Expired
<1> QED BY <1>6, <1>8, <1>10, <1>11, <1>12, <1>13, <1>14 DEF IInv

\* A send of one message, as the batch it is.
LEMMA OneMessage ==
    ASSUME NEW m \in Msg
    PROVE  <<m>> \in Seq(Msg) /\ IsInjective(<<m>>) /\ ToSet(<<m>>) = {m}
  BY DEF IsInjective, ToSet

\* A batch of messages that were not sent before.
LEMMA NewBatch ==
    ASSUME NEW ids \in NewBatches
    PROVE  ids \in Seq(Msg) /\ IsInjective(ids) /\ ToSet(ids) \cap sent = {}
<1>1. PICK n \in 1..2 : ids \in [1..n -> Msg \ sent]
  BY DEF NewBatches
<1>2. ids \in [1..n -> Msg]
  BY <1>1
<1> QED BY <1>1, <1>2 DEF NewBatches, ToSet

\* Every step of the queue, the scanner, the polls and the clock.
LEMMA NextStep == IInv /\ [Next]_vars => IInv'
<1> SUFFICES ASSUME IInv, [Next]_vars PROVE IInv'
  OBVIOUS
<1> USE QueueAssumption
<1>0. TypeOK /\ Asleep /\ poll \in Polls /\ (\A p \in Poller : poll[p] \in
         [pc : {"idle", "trying", "committed", "parked"}, remaining : Int, armed : BOOLEAN])
  BY DEF IInv, TypeOK, Polls
<1>1. ASSUME NEW m \in Msg, NEW d \in Delays, Send(m, d) PROVE IInv'
  <2>1. <<m>> \in Seq(Msg) /\ IsInjective(<<m>>) /\ ToSet(<<m>>) = {m} /\ m \notin sent /\ d \in Nat
    BY <1>1, OneMessage DEF QueueAssumption, Send
  <2>2. poll' \in Polls /\ Asleep'
    BY <1>0, <1>1, BroadcastWakes DEF Send, Unlocked, Asleep
  <2>3. /\ messages' = Appended(<<m>>, d) /\ sent' = sent \cup ToSet(<<m>>)
        /\ \/ due' = due
           \/ d = 0 /\ due' = due \cup ToSet(<<m>>)
        /\ UNCHANGED <<inflight, receipts, dlq, deleted, late>>
    BY <1>1, <2>1 DEF Send
  <2> QED BY <2>1, <2>2, <2>3, SendStep DEF IInv
<1>2. ASSUME NEW ids \in NewBatches, BatchSend(ids) PROVE IInv'
  <2>1. ids \in Seq(Msg) /\ IsInjective(ids) /\ ToSet(ids) \cap sent = {}
    BY NewBatch
  <2>2. poll' \in Polls /\ Asleep'
    BY <1>0, <1>2, BroadcastWakes DEF BatchSend, Unlocked, Asleep
  <2>3. /\ messages' = Appended(ids, 0) /\ sent' = sent \cup ToSet(ids)
        /\ due' = due \cup ToSet(ids)
        /\ UNCHANGED <<inflight, receipts, dlq, deleted, late>>
    BY <1>2 DEF BatchSend
  <2> QED BY <2>1, <2>2, <2>3, SendStep DEF IInv
<1>3. ASSUME NEW ids \in NewBatches, NEW d \in Delays, BatchSendWithDelay(ids, d) PROVE IInv'
  <2>1. ids \in Seq(Msg) /\ IsInjective(ids) /\ ToSet(ids) \cap sent = {} /\ d \in Nat
    BY NewBatch DEF QueueAssumption
  <2>2. /\ messages' = Appended(ids, d) /\ sent' = sent \cup ToSet(ids)
        /\ UNCHANGED <<inflight, receipts, dlq, poll, deleted, due, late>>
    BY <1>3 DEF BatchSendWithDelay
  <2>3. Slots(messages') = Slots(messages) \cup {[id |-> m, delay |-> d] : m \in ToSet(ids)}
    BY <2>1, <2>2, AppendedSlots DEF IInv
  <2>4. \A s \in Slots(messages') : s.id \in due' => s \in Slots(messages)
    BY <2>1, <2>2, <2>3 DEF IInv, TypeOK
  <2>5. Asleep'
    BY <2>2, <2>4, <1>0 DEF Asleep
  <2> QED BY <1>0, <2>1, <2>2, <2>5, SendStep DEF IInv
<1>4. ASSUME NEW max \in 1..MaxMessages, NEW v \in Timeouts, Receive(max, v) PROVE IInv'
  <2>1. max \in Nat /\ v \in Int /\ Take(max, v) /\ UNCHANGED <<dlq, poll, history>>
    BY <1>4 DEF QueueAssumption, Receive
  <2>2. /\ TypeOK' /\ IsFiniteSet(inflight)' /\ Known' /\ Ready' /\ NotLost' /\ AloneUnlessLate'
        /\ Slots(messages') = Slots(messages) /\ inflight \subseteq inflight'
    BY <1>0, <2>1, TakeStep
  <2>3. Asleep'
    BY <1>0, <2>1, <2>2 DEF Asleep, history
  <2> QED BY <2>2, <2>3 DEF IInv
<1>5. ASSUME NEW hs \in HandleBatches, Delete(hs) PROVE IInv'
  BY <1>5, DeleteStep
<1>6. ASSUME NEW e \in inflight, NEW v \in Timeouts, ChangeMessageVisibility(e, v) PROVE IInv'
  <2>1. v \in Int
    BY DEF QueueAssumption
  <2> QED BY <1>6, <2>1, ChangeStep
<1>7. ASSUME NEW lag \in {0, 1}, Scan(lag) PROVE IInv'
  BY <1>7, ScanStep
<1>8. ASSUME NEW p \in Poller, NEW w \in WaitTimes, StartPoll(p, w) PROVE IInv'
  <2>1. /\ poll' = [poll EXCEPT ![p] = [pc |-> "trying", remaining |-> w, armed |-> TRUE]]
        /\ UNCHANGED <<messages, inflight, receipts, dlq, history>>
    BY <1>8 DEF StartPoll
  <2>2. poll' \in Polls
    BY <1>0, <2>1 DEF Polls, QueueAssumption
  <2>3. Asleep'
    BY <1>0, <2>1 DEF Asleep, Polls, history
  <2> QED BY <2>1, <2>2, <2>3, PollStep
<1>9. ASSUME NEW p \in Poller, NEW max \in 1..MaxMessages, NEW v \in Timeouts,
             PollReceives(p, max, v)
      PROVE  IInv'
  <2>1. /\ max \in Nat /\ v \in Int /\ Take(max, v) /\ UNCHANGED <<dlq, history>>
        /\ poll' = [poll EXCEPT ![p] = Idle]
    BY <1>9 DEF QueueAssumption, PollReceives
  <2>2. poll' \in Polls
    BY <1>0, <2>1 DEF Polls, Idle
  <2>3. /\ TypeOK' /\ IsFiniteSet(inflight)' /\ Known' /\ Ready' /\ NotLost' /\ AloneUnlessLate'
        /\ Slots(messages') = Slots(messages) /\ inflight \subseteq inflight'
    BY <1>0, <2>1, <2>2, TakeStep
  <2>4. \A r \in Poller : poll'[r].pc \in {"committed", "parked"} => poll'[r].pc = poll[r].pc
    BY <1>0, <2>1 DEF Polls, Idle
  <2>5. Asleep'
    BY <1>0, <2>1, <2>3, <2>4 DEF Asleep, history
  <2> QED BY <2>3, <2>5 DEF IInv
<1>10. ASSUME NEW p \in Poller, PollFindsNothing(p) PROVE IInv'
  <2>1. /\ Unlocked /\ Taken(1) = {} /\ UNCHANGED <<messages, inflight, receipts, dlq, history>>
        /\ poll' = [poll EXCEPT ![p] = IF poll[p].remaining < 0 THEN Idle
                                       ELSE [@ EXCEPT !.pc = "committed"]]
    BY <1>10 DEF PollFindsNothing
  <2>2. poll' \in Polls
    BY <1>0, <2>1 DEF Polls, Idle
  <2>3. Asleep'
    <3> SUFFICES ASSUME NEW s \in Slots(messages), s.id \in due
                 PROVE  \E e \in inflight : e.id = s.id
      BY <2>1 DEF Asleep, history
    <3>1. PICK i \in DOMAIN messages : s = [id |-> messages[i].id, delay |-> messages[i].delay]
      BY DEF Slots
    <3>2. ~ Visible(i) /\ messages[i].delay <= 0
      BY <1>0, <2>1, <3>1, NothingVisible DEF IInv, Ready
    <3> QED BY <3>1, <3>2 DEF Visible, IsInFlight
  <2> QED BY <2>1, <2>2, <2>3, PollStep
<1>11. ASSUME NEW p \in Poller, Park(p) PROVE IInv'
  <2>1. /\ poll[p].pc = "committed" /\ poll' = [poll EXCEPT ![p].pc = "parked"]
        /\ UNCHANGED <<messages, inflight, receipts, dlq, history>>
    BY <1>11 DEF Park
  <2>2. poll' \in Polls
    BY <1>0, <2>1 DEF Polls
  <2>3. \A r \in Poller : poll'[r].pc \in {"committed", "parked"} =>
                             poll[r].pc \in {"committed", "parked"}
    BY <1>0, <2>1 DEF Polls
  <2>4. Asleep'
    BY <1>0, <2>1, <2>3 DEF Asleep, history
  <2> QED BY <2>1, <2>2, <2>4, PollStep
<1>12. ASSUME NEW p \in Poller, TimerFires(p) PROVE IInv'
  <2>1. /\ poll' = [Broadcast EXCEPT ![p].armed = FALSE]
        /\ UNCHANGED <<messages, inflight, receipts, dlq, history>>
    BY <1>12 DEF TimerFires
  <2>2. /\ Broadcast \in Polls
        /\ \A r \in Poller : /\ Broadcast[r].pc # "parked"
                             /\ Broadcast[r].pc = "committed" => poll[r].pc = "committed"
    BY <1>0, BroadcastWakes
  <2> HIDE DEF Broadcast
  <2>3. poll' \in Polls
    BY <2>1, <2>2 DEF Polls
  <2>4. \A r \in Poller : poll'[r].pc = Broadcast[r].pc
    BY <2>1, <2>2 DEF Polls
  <2>5. Asleep'
    BY <1>0, <2>1, <2>2, <2>4 DEF Asleep, history
  <2> QED BY <2>1, <2>3, <2>5, PollStep
<1>13. CASE Tick
  BY <1>13, TickStep
<1>14. CASE UNCHANGED vars
  <2>1. UNCHANGED <<messages, inflight, receipts, dlq, poll, history, due>>
    BY <1>14 DEF vars, history
  <2>2. Asleep'
    BY <1>0, <2>1 DEF Asleep
  <2> QED BY <1>0, <2>1, <2>2, PollStep
<1> QED BY <1>1, <1>2, <1>3, <1>4, <1>5, <1>6, <1>7, <1>8, <1>9, <1>10, <1>11, <1>12,
           <1>13, <1>14 DEF Next

-----------------------------------------------------------------------------
(* The theorems. *)

\* The inductive invariant holds throughout.
THEOREM QueueInvariant == Spec => []IInv
<1>1. Init => IInv
  <2> SUFFICES ASSUME Init PROVE IInv
    OBVIOUS
  <2> USE DEF Init
  <2>1. TypeOK
    BY DEF TypeOK, Idle
  <2>2. Slots(messages) = {} /\ IsFiniteSet(inflight)
    BY FS_EmptySet DEF Slots
  <2> QED BY <2>1, <2>2 DEF IInv, Known, Ready, Asleep, NotLost, AloneUnlessLate
<1> QED BY <1>1, NextStep, PTL DEF Spec

\* The kinds of values the queue keeps: no message is queued twice, and no two
\* receipts share a handle, however many messages a receive returns at once.
THEOREM QueueTypeCorrect == Spec => []TypeOK
<1>1. IInv => TypeOK
  BY DEF IInv
<1> QED BY <1>1, QueueInvariant, PTL

\* At-least-once delivery: removeByID, whose hole is filled by the head, and the
\* scanner's moves to the DLQ lose no message that was not deleted.
THEOREM NoMessageIsLost == Spec => []NotLost
<1>1. IInv => NotLost
  BY DEF IInv
<1> QED BY <1>1, QueueInvariant, PTL

\* A message is held by two consumers at once only through a receipt that was
\* extended after its visibility timeout.
THEOREM OneHolderUnlessLate == Spec => []AloneUnlessLate
<1>1. IInv => AloneUnlessLate
  BY DEF IInv
<1> QED BY <1>1, QueueInvariant, PTL

\* No lost wakeup: no long poll is parked beside a message it could return and
\* that the queue has announced.
THEOREM NoLostWakeup == Spec => []NoSleepBesideMessage
<1>1. IInv => NoSleepBesideMessage
  <2> SUFFICES ASSUME IInv, NEW p \in Poller, NEW i \in DOMAIN messages,
                      poll[p].pc = "parked", messages[i].id \in due
               PROVE  \E e \in inflight : e.id = messages[i].id
    BY DEF NoSleepBesideMessage
  <2> DEFINE s == [id |-> messages[i].id, delay |-> messages[i].delay]
  <2>1. s \in Slots(messages) /\ s.id = messages[i].id
    BY DEF Slots
  <2> HIDE DEF s
  <2> QED BY <2>1 DEF IInv, Asleep
<1> QED BY <1>1, QueueInvariant, PTL
=============================================================================
