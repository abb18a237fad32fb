---------------------------- MODULE MessageQueue ----------------------------
(***************************************************************************)
(* labs/message-queue/pkg/queue: a Queue with visibility timeouts (v0), a  *)
(* dead-letter queue, delayed and batch sends (v1) and long polling (v2).  *)
(* Consumers keep every receipt handle they were given and may use it at   *)
(* any later time, or never: a consumer that crashes.                      *)
(*                                                                         *)
(* Every method holds q.mu throughout and is one action, but for           *)
(* LongPollReceive, whose timer broadcasts without the mutex and can do so *)
(* between the last test of its caller and the caller's cond.Wait.         *)
(*                                                                         *)
(* Time is relative: a message's delay, an entry's left and a poll's       *)
(* remaining are visibleAt or deadline minus now, and stop at -1.          *)
(***************************************************************************)
EXTENDS Integers, Sequences, FiniteSets, SequencesExt

CONSTANTS Msg,                \* message identifiers
          Poller,             \* callers of LongPollReceive
          Delays,             \* delays in whole seconds; 0 is none
          Timeouts,           \* visibility timeouts; 0 returns a message at once
          WaitTimes,          \* wait times of the long polls
          MaxMessages,        \* a receive's maxMessages goes from 1 to this
          MaxReceiveCount,    \* of the DLQConfig
          MaxReceipts         \* bound: receipt handles issued in a run

ASSUME QueueAssumption ==
    /\ Delays \subseteq Nat /\ Timeouts \subseteq Nat /\ WaitTimes \subseteq Nat
    /\ MaxMessages \in Nat \ {0} /\ MaxReceiveCount \in Nat \ {0} /\ MaxReceipts \in Nat

VARIABLES messages,           \* Queue.messages from head on
          inflight,           \* the entries of Queue.inflight, with their handles
          receipts,           \* receipt handles issued so far: 1..receipts
          dlq,                \* dlq.messages
          poll,               \* the state of each caller of LongPollReceive
          sent, deleted,      \* history: messages sent; those a delete reported deleted
          due,                \* history: messages whose appearance parked polls must notice
          late                \* history: handles extended after they had expired

history == <<sent, deleted, due, late>>
vars == <<messages, inflight, receipts, dlq, poll, history>>

-----------------------------------------------------------------------------
Idle == [pc |-> "idle", remaining |-> -1, armed |-> FALSE]

Init ==
    /\ messages = <<>> /\ inflight = {} /\ receipts = 0 /\ dlq = <<>>
    /\ poll = [p \in Poller |-> Idle]
    /\ sent = {} /\ deleted = {} /\ due = {} /\ late = {}

\* The mutex is free.  Only a poll about to wait is seen to hold it.
Unlocked == \A p \in Poller : poll[p].pc # "committed"

\* Mutant: Signal in place of Broadcast.
BroadcastMutant ==
    LET parked == {p \in Poller : poll[p].pc = "parked"}
    IN  IF parked = {} THEN poll
        ELSE [poll EXCEPT ![CHOOSE p \in parked : TRUE].pc = "trying"]

\* q.cond.Broadcast: every parked poll tries again once it has the mutex.
Broadcast == [p \in Poller |-> IF poll[p].pc = "parked"
                               THEN [poll[p] EXCEPT !.pc = "trying"] ELSE poll[p]]

Expired(e) == e.left <= 0

-----------------------------------------------------------------------------
\* What a send appends: the messages ids, in this order.
Appended(ids, delay) ==
    messages \o [i \in DOMAIN ids |-> [id |-> ids[i], count |-> 0, delay |-> delay]]

\* Bound: batches of one or two; maxBatchSize is 10.
NewBatches == {ids \in UNION {[1..n -> Msg \ sent] : n \in 1..2} : IsInjective(ids)}

\* SendMessage, DelayedSendMessage: broadcasts whatever the delay.
Send(m, delay) ==
    /\ Unlocked /\ m \notin sent
    /\ messages' = Appended(<<m>>, delay)
    /\ poll' = Broadcast
    /\ sent' = sent \cup {m}
    /\ due' = IF delay = 0 THEN due \cup {m} ELSE due
    /\ UNCHANGED <<inflight, receipts, dlq, deleted, late>>

BatchSend(ids) ==
    /\ Unlocked
    /\ messages' = Appended(ids, 0)
    /\ poll' = Broadcast
    /\ sent' = sent \cup ToSet(ids)
    /\ due' = due \cup ToSet(ids)
    /\ UNCHANGED <<inflight, receipts, dlq, deleted, late>>

\* BatchSendMessageWithDelay: does not broadcast, whatever the delay.
BatchSendWithDelay(ids, delay) ==
    /\ Unlocked
    /\ messages' = Appended(ids, delay)
    /\ sent' = sent \cup ToSet(ids)
    /\ UNCHANGED <<inflight, receipts, dlq, poll, deleted, due, late>>

-----------------------------------------------------------------------------
\* Mutant: the answer of the first entry met, an expired one, ends the search.
IsInFlightMutant(m) ==
    /\ \E e \in inflight : e.id = m
    /\ \A e \in inflight : e.id = m => ~Expired(e)

\* isInFlight: some entry, of the several a message can have, has not expired.
IsInFlight(m) == \E e \in inflight : e.id = m /\ ~Expired(e)

Visible(i) == messages[i].delay <= 0 /\ ~IsInFlight(messages[i].id)

\* The position of message i among the visible ones.
Rank(i) == Cardinality({j \in 1..i : Visible(j)})

\* The messages a receive returns: the first max visible ones.
Taken(max) == {i \in DOMAIN messages : Visible(i) /\ Rank(i) <= max}

\* Each message returned is counted in place...
Counted(max) ==
    [i \in DOMAIN messages |-> IF i \in Taken(max) THEN [messages[i] EXCEPT !.count = @ + 1]
                               ELSE messages[i]]

\* Mutant: one handle for the whole batch.
EntriesMutant(max, timeout) ==
    {[handle |-> receipts + 1, id |-> messages[i].id,
      count |-> messages[i].count + 1, left |-> timeout] : i \in Taken(max)}

\* ... and gets a new entry, with a new handle and a copy of the message.
Entries(max, timeout) ==
    {[handle |-> receipts + Rank(i), id |-> messages[i].id,
      count |-> messages[i].count + 1, left |-> timeout] : i \in Taken(max)}

\* The body of ReceiveMessage and of receiveUnlocked.
Take(max, timeout) ==
    /\ receipts + Cardinality(Taken(max)) <= MaxReceipts
    /\ messages' = Counted(max)
    /\ inflight' = inflight \cup Entries(max, timeout)
    /\ receipts' = receipts + Cardinality(Taken(max))

Receive(max, timeout) ==
    /\ Unlocked /\ Taken(max) # {}
    /\ Take(max, timeout)
    /\ UNCHANGED <<dlq, poll, history>>

-----------------------------------------------------------------------------
\* Mutant: the head is dropped, but not saved into the hole first.
WithoutMutant(q, m) == IF \E i \in DOMAIN q : q[i].id = m THEN Tail(q) ELSE q

\* removeByID: the head moves into the hole, which changes the order of the rest.
Without(q, m) ==
    IF \E i \in DOMAIN q : q[i].id = m
    THEN Tail([q EXCEPT ![CHOOSE i \in DOMAIN q : q[i].id = m] = q[1]])
    ELSE q

\* removeByID of each message of a batch, in the order of the batch.
WithoutAll(q, ids) == FoldLeft(Without, q, ids)

EntryOf(h) == CHOOSE e \in inflight : e.handle = h

\* DeleteMessage, BatchDeleteMessage of handles that have an entry.  An unknown
\* handle changes nothing, an expired one that the scanner has not met does.
Delete(handles) ==
    /\ Unlocked
    /\ \A i \in DOMAIN handles : \E e \in inflight : e.handle = handles[i]
    /\ inflight' = {e \in inflight : e.handle \notin ToSet(handles)}
    /\ messages' = WithoutAll(messages, [i \in DOMAIN handles |-> EntryOf(handles[i]).id])
    /\ deleted' = deleted \cup {EntryOf(h).id : h \in ToSet(handles)}
    /\ UNCHANGED <<receipts, dlq, poll, sent, due, late>>

\* Bound: one handle (DeleteMessage) or a batch of two.
HandleBatches == {hs \in UNION {[1..n -> 1..receipts] : n \in 1..2} : IsInjective(hs)}

ChangeMessageVisibility(e, timeout) ==
    /\ Unlocked
    /\ inflight' = (inflight \ {e}) \cup {[e EXCEPT !.left = timeout]}
    /\ late' = IF Expired(e) THEN late \cup {e.handle} ELSE late
    /\ UNCHANGED <<messages, receipts, dlq, poll, sent, deleted, due>>

-----------------------------------------------------------------------------
Dead(e) == e.count >= MaxReceiveCount

\* One expired entry in the scanner's loop, on the message queue and the DLQ.
Scanned(s, e) ==
    IF Dead(e)
    THEN [queue |-> Without(s.queue, e.id),
          dlq   |-> Append(s.dlq, [id |-> e.id, count |-> e.count])]
    ELSE [s EXCEPT !.queue = [i \in DOMAIN s.queue |->
             IF s.queue[i].id = e.id THEN [s.queue[i] EXCEPT !.count = e.count] ELSE s.queue[i]]]

\* The whole loop, over the expired entries in this order.
ScannedAll(order) == FoldLeft(Scanned, [queue |-> messages, dlq |-> dlq], order)

\* requeueExpired: the expired entries, in any order (a Go map).  now is read
\* before the mutex is taken, so what has just expired may be missed.
Scan(lag) ==
    LET expired == {e \in inflight : Expired([e EXCEPT !.left = @ + lag])}
        alive == {e \in expired : ~Dead(e)}
    IN
    /\ Unlocked /\ expired # {}
    /\ inflight' = inflight \ expired
    /\ \E order \in SetToSeqs(expired) :
         messages' = ScannedAll(order).queue /\ dlq' = ScannedAll(order).dlq
    /\ poll' = IF alive # {} THEN Broadcast ELSE poll
    /\ due' = due \cup {e.id : e \in alive}
    /\ UNCHANGED <<receipts, sent, deleted, late>>

-----------------------------------------------------------------------------
\* LongPollReceive, up to q.mu.Lock(): the deadline is set and the timer armed.
StartPoll(p, wait) ==
    /\ poll[p].pc = "idle"
    /\ poll' = [poll EXCEPT ![p] = [pc |-> "trying", remaining |-> wait, armed |-> TRUE]]
    /\ UNCHANGED <<messages, inflight, receipts, dlq, history>>

\* A pass of its loop that returns messages; the timer is stopped.
PollReceives(p, max, timeout) ==
    /\ Unlocked /\ poll[p].pc = "trying"
    /\ Taken(max) # {}
    /\ Take(max, timeout)
    /\ poll' = [poll EXCEPT ![p] = Idle]
    /\ UNCHANGED <<dlq, history>>

\* A pass without: it returns nil after the deadline, and otherwise goes to wait.
PollFindsNothing(p) ==
    /\ Unlocked /\ poll[p].pc = "trying"
    /\ Taken(1) = {}
    /\ poll' = [poll EXCEPT ![p] = IF poll[p].remaining < 0 THEN Idle
                                   ELSE [@ EXCEPT !.pc = "committed"]]
    /\ UNCHANGED <<messages, inflight, receipts, dlq, history>>

\* q.cond.Wait() registers the caller and gives up the mutex.
Park(p) ==
    /\ poll[p].pc = "committed"
    /\ poll' = [poll EXCEPT ![p].pc = "parked"]
    /\ UNCHANGED <<messages, inflight, receipts, dlq, history>>

\* The timer's function.  It was armed after the deadline was computed, and so
\* is taken to run after it.  It needs no mutex.
TimerFires(p) ==
    /\ poll[p].armed /\ poll[p].remaining < 0
    /\ poll' = [Broadcast EXCEPT ![p].armed = FALSE]
    /\ UNCHANGED <<messages, inflight, receipts, dlq, history>>

Elapse(t) == IF t >= 0 THEN t - 1 ELSE t

Tick ==
    /\ messages' = [i \in DOMAIN messages |-> [messages[i] EXCEPT !.delay = Elapse(@)]]
    /\ inflight' = {[e EXCEPT !.left = Elapse(@)] : e \in inflight}
    /\ poll' = [p \in Poller |-> [poll[p] EXCEPT !.remaining = Elapse(@)]]
    /\ UNCHANGED <<receipts, dlq, history>>

Next ==
    \/ \E m \in Msg, d \in Delays : Send(m, d)
    \/ \E ids \in NewBatches : BatchSend(ids) \/ \E d \in Delays : BatchSendWithDelay(ids, d)
    \/ \E max \in 1..MaxMessages, v \in Timeouts : Receive(max, v)
    \/ \E hs \in HandleBatches : Delete(hs)
    \/ \E e \in inflight, v \in Timeouts : ChangeMessageVisibility(e, v)
    \/ \E lag \in {0, 1} : Scan(lag)
    \/ \E p \in Poller :
         \/ \E w \in WaitTimes : StartPoll(p, w)
         \/ \E max \in 1..MaxMessages, v \in Timeouts : PollReceives(p, max, v)
         \/ PollFindsNothing(p) \/ Park(p) \/ TimerFires(p)
    \/ Tick

Spec == Init /\ [][Next]_vars

-----------------------------------------------------------------------------
(* Properties. *)

\* The kinds of values the queue, its dead-letter queue and its callers keep; a
\* message is at most once in the queue and a handle has at most one entry.
TypeOK ==
    /\ messages \in Seq([id : Msg, count : Nat, delay : Int])
    /\ \A i, j \in DOMAIN messages : messages[i].id = messages[j].id => i = j
    /\ inflight \subseteq [handle : 1..receipts, id : Msg, count : Nat \ {0}, left : Int]
    /\ \A e, f \in inflight : e.handle = f.handle => e = f
    /\ receipts \in Nat
    /\ dlq \in Seq([id : Msg, count : Nat])
    /\ poll \in [Poller -> [pc : {"idle", "trying", "committed", "parked"},
                            remaining : Int, armed : BOOLEAN]]
    /\ sent \subseteq Msg /\ deleted \subseteq sent /\ due \subseteq sent
    /\ late \subseteq 1..receipts

Ids(q) == {q[i].id : i \in DOMAIN q}

\* At least once: a message that no consumer has deleted is still in the queue
\* or in the dead-letter queue, whatever was removed around it.
NotLost == sent \ deleted \subseteq Ids(messages) \cup Ids(dlq)

\* Two consumers hold a message at the same time only when one of them extended
\* a receipt that had already expired.
AloneUnlessLate ==
    \A e, f \in inflight :
        e.id = f.id /\ ~Expired(e) /\ ~Expired(f) => e = f \/ {e.handle, f.handle} \cap late # {}

\* No poll sleeps beside a message it could return: one sent without delay or
\* put back by the scanner wakes it.  A receipt that has expired but was not
\* scanned yet is the scanner's to announce.
NoSleepBesideMessage ==
    \A p \in Poller, i \in DOMAIN messages :
        poll[p].pc = "parked" /\ Visible(i) /\ messages[i].id \in due
            => \E e \in inflight : e.id = messages[i].id
=============================================================================
