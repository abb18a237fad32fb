-------------------------- MODULE RaftSafetyProofs --------------------------
(***************************************************************************)
(* What labs/raft commits stays committed, proved for every set of nodes   *)
(* and every value of the bounds, until a log is compacted and if no       *)
(* append goroutine outlives its node's leadership into the next one of    *)
(* that node: later leaders have it, a majority holds it, and all state    *)
(* machines apply the same commands.                                       *)
(***************************************************************************)
EXTENDS RaftProofs

-----------------------------------------------------------------------------
(* Leader completeness and state machine safety.  Two variables remember   *)
(* what the program forgets; they look on and restrict nothing.            *)

VARIABLES termLog,  \* for each term won so far, its leader's log when last seen
          stored    \* who has stored how much of a leader's log in its term

history == <<termLog, stored>>

Leaders == {n \in Server : state[n] = "Leader"}
LeaderOf(t) == CHOOSE n \in Leaders : currentTerm[n] = t

\* The log of whoever leads after the step is the log of its term.
RecordLogs ==
    termLog' = [t \in DOMAIN termLog \cup {currentTerm'[n] : n \in Leaders'} |->
                   IF \E n \in Leaders' : currentTerm'[n] = t
                   THEN log'[LeaderOf(t)'] ELSE termLog[t]]

\* The calls the step accepts, and the leaders that append in it.
Accepted == {c \in Appends : /\ c \notin appendCalls' /\ c.term >= currentTerm[c.to]
                             /\ PrevMatches(c.to, c)}
Appending == {n \in Leaders : state'[n] = "Leader" /\ log'[n] # log[n]}

RecordStores ==
    stored' = stored
       \cup {[node |-> c.to, term |-> c.term, index |-> c.prevIndex + Len(c.entries)] :
                c \in Accepted}
       \cup {[node |-> n, term |-> currentTerm[n], index |-> Len(log'[n])] : n \in Appending}

Record == RecordLogs /\ RecordStores

History ==
    /\ termLog = [t \in {} |-> <<>>] /\ stored = {}
    /\ [][vars' # vars /\ Record]_<<vars, history>>

\* Nobody takes office while an append goroutine of an earlier leadership of its
\* own is left.
OfficeFresh ==
    \A n \in Server : state[n] # "Leader" /\ state'[n] = "Leader"
                          => \A c \in appendCalls : c.from # n
FreshStart == [][OfficeFresh]_vars

-----------------------------------------------------------------------------
(* What logs have in common, with L the logs of the terms. *)

\* a and b hold the same entries up to index k.
Agree(a, b, k) == k <= Len(a) /\ k <= Len(b) /\ \A i \in 1..k : a[i] = b[i]

\* A log of entries up to term t, in the order of their terms, each of which
\* follows what precedes it in the log of its term.
LogOK(lg, L, t) ==
    /\ lg \in Seq(Entry)
    /\ \A k \in 1..Len(lg) : /\ lg[k].term \in DOMAIN L /\ lg[k].term <= t
                             /\ Agree(lg, L[lg[k].term], k)
    /\ \A j, k \in 1..Len(lg) : j <= k => lg[j].term <= lg[k].term

\* The terms with a log are proper, and so are their logs.
TermLogsOK(L) == \A t \in DOMAIN L : t \in Nat /\ t > 0 /\ LogOK(L[t], L, t)

\* L becomes M: terms are added and logs are extended.
Extends(M, L) == \A t \in DOMAIN L : t \in DOMAIN M /\ Agree(L[t], M[t], Len(L[t]))

LEMMA LogTyped ==
    ASSUME NEW lg \in Seq(Entry)
    PROVE  Len(lg) \in Nat /\ \A k \in 1..Len(lg) : lg[k] \in Entry /\ lg[k].term \in Nat
<1>1. Len(lg) \in Nat /\ \A k \in 1..Len(lg) : lg[k] \in Entry
  OBVIOUS
<1> QED
  BY <1>1 DEF Entry

\* What a shares with b it shares with a log that begins as b.
LEMMA AgreeThrough ==
    ASSUME NEW a, NEW b, NEW c, NEW k \in Nat, Len(b) \in Nat,
           Agree(a, b, k), Agree(b, c, Len(b))
    PROVE  Agree(a, c, k)
<1>1. k <= Len(a) /\ k <= Len(b) /\ k <= Len(c)
  BY DEF Agree
<1>2. ASSUME NEW i \in 1..k PROVE a[i] = c[i]
  <2>1. i \in 1..Len(b)
    BY <1>1
  <2> QED
    BY <2>1 DEF Agree
<1> QED
  BY <1>1, <1>2 DEF Agree

\* A proper log stays proper while the logs of the terms grow.
LEMMA LogStaysOK ==
    ASSUME NEW lg, NEW L, NEW M, NEW t \in Nat, NEW u \in Nat,
           LogOK(lg, L, t), TermLogsOK(L), Extends(M, L), t <= u
    PROVE  LogOK(lg, M, u)
<1>1. lg \in Seq(Entry) /\ Len(lg) \in Nat /\ \A k \in 1..Len(lg) : lg[k].term \in Nat
  BY LogTyped DEF LogOK
<1>2. ASSUME NEW k \in 1..Len(lg)
      PROVE  lg[k].term \in DOMAIN M /\ lg[k].term <= u /\ Agree(lg, M[lg[k].term], k)
  <2> DEFINE s == lg[k].term
  <2>1. s \in DOMAIN L /\ s <= t /\ s \in Nat /\ Agree(lg, L[s], k)
    BY <1>1 DEF LogOK
  <2>2. s \in DOMAIN M /\ Agree(L[s], M[s], Len(L[s])) /\ L[s] \in Seq(Entry)
    BY <2>1 DEF Extends, TermLogsOK, LogOK
  <2>3. Len(L[s]) \in Nat
    BY <2>2
  <2> HIDE DEF s
  <2>4. Agree(lg, M[s], k)
    BY <2>1, <2>2, <2>3, AgreeThrough
  <2> QED
    BY <2>1, <2>2, <2>4 DEF s
<1> QED
  BY <1>1, <1>2 DEF LogOK

\* The front of a proper log is proper.
LEMMA FrontOK ==
    ASSUME NEW lg \in Seq(Entry), NEW full, NEW L, NEW t \in Nat,
           LogOK(full, L, t), Agree(lg, full, Len(lg))
    PROVE  LogOK(lg, L, t)
<1>1. Len(lg) \in Nat /\ full \in Seq(Entry) /\ Len(full) \in Nat
  BY LogTyped DEF LogOK
<1>2. \A k \in 1..Len(lg) : k \in 1..Len(full) /\ lg[k] = full[k]
  BY <1>1 DEF Agree
<1>3. ASSUME NEW k \in 1..Len(lg)
      PROVE  lg[k].term \in DOMAIN L /\ lg[k].term <= t /\ Agree(lg, L[lg[k].term], k)
  <2>1. /\ full[k].term \in DOMAIN L /\ full[k].term <= t
        /\ Agree(full, L[full[k].term], k)
    BY <1>2 DEF LogOK
  <2>2. \A i \in 1..k : lg[i] = full[i]
    BY <1>1, <1>2
  <2>3. Agree(lg, L[full[k].term], k)
    BY <1>1, <2>1, <2>2 DEF Agree
  <2> QED
    BY <1>2, <2>1, <2>3
<1>4. \A j, k \in 1..Len(lg) : j <= k => lg[j].term <= lg[k].term
  BY <1>2 DEF LogOK
<1> QED
  BY <1>3, <1>4 DEF LogOK

\* Logs with an entry of one term at one index agree up to it.
LEMMA SameTermAgree ==
    ASSUME NEW a, NEW b, NEW L, NEW t \in Nat, NEW u \in Nat, LogOK(a, L, t), LogOK(b, L, u),
           NEW k \in 1..Len(a), k <= Len(b), a[k].term = b[k].term
    PROVE  Agree(a, b, k)
<1>1. Len(a) \in Nat /\ Len(b) \in Nat
  BY LogTyped DEF LogOK
<1>2. Agree(a, L[a[k].term], k) /\ Agree(b, L[a[k].term], k)
  BY <1>1 DEF LogOK
<1> QED
  BY <1>1, <1>2 DEF Agree

\* A leader's log with one more entry of its own term.
LEMMA LongerOK ==
    ASSUME NEW lg, NEW L, NEW M, NEW t \in Nat, NEW e \in Entry, e.term = t,
           LogOK(lg, L, t), TermLogsOK(L), Extends(M, L), t \in DOMAIN M, M[t] = Append(lg, e)
    PROVE  /\ LogOK(Append(lg, e), M, t)
           /\ Agree(lg, Append(lg, e), Len(lg))
<1> DEFINE new == Append(lg, e)
<1>1. lg \in Seq(Entry) /\ Len(lg) \in Nat /\ \A k \in 1..Len(lg) : lg[k].term \in Nat
  BY LogTyped DEF LogOK
<1>2. /\ new \in Seq(Entry) /\ Len(new) = Len(lg) + 1 /\ new[Len(lg) + 1] = e
      /\ \A k \in 1..Len(lg) : new[k] = lg[k]
  BY <1>1
<1>3. LogOK(lg, M, t)
  BY LogStaysOK
<1> HIDE DEF new
<1>4. Agree(lg, new, Len(lg)) /\ Agree(new, new, Len(new))
  BY <1>1, <1>2 DEF Agree
<1>5. ASSUME NEW k \in 1..Len(new)
      PROVE  new[k].term \in DOMAIN M /\ new[k].term <= t /\ Agree(new, M[new[k].term], k)
  <2>1. CASE k = Len(lg) + 1
    <3>1. M[t] = new
      BY DEF new
    <3>2. new[k].term = t /\ k = Len(new)
      BY <1>2, <2>1
    <3> QED
      BY <1>4, <3>1, <3>2
  <2>2. CASE k # Len(lg) + 1
    <3>1. k \in 1..Len(lg) /\ new[k] = lg[k]
      BY <1>1, <1>2, <2>2
    <3>2. lg[k].term \in DOMAIN M /\ lg[k].term <= t /\ Agree(lg, M[lg[k].term], k)
      BY <1>3, <3>1 DEF LogOK
    <3>3. Agree(new, M[lg[k].term], k)
      BY <1>1, <1>2, <3>1, <3>2 DEF Agree
    <3> QED
      BY <3>1, <3>2, <3>3
  <2> QED
    BY <2>1, <2>2
<1>6. ASSUME NEW j \in 1..Len(new), NEW k \in 1..Len(new), j <= k
      PROVE  new[j].term <= new[k].term
  <2>1. CASE k = Len(lg) + 1
    BY <1>2, <1>5, <2>1
  <2>2. CASE k # Len(lg) + 1
    <3>1. /\ k \in 1..Len(lg) /\ new[k] = lg[k] /\ j \in 1..Len(lg) /\ new[j] = lg[j]
      BY <1>1, <1>2, <1>6, <2>2
    <3> QED
      BY <1>3, <1>6, <3>1 DEF LogOK
  <2> QED
    BY <2>1, <2>2
<1>7. LogOK(new, M, t)
  BY <1>2, <1>5, <1>6 DEF LogOK
<1> QED
  BY <1>4, <1>7 DEF new

\* What an accepted call leaves of a log: it agrees with the log tl the entries
\* come from as far as they go, and wherever it did before.
LEMMA StoreAgrees ==
    ASSUME NEW old, NEW tl, NEW L, NEW t \in Nat, NEW u \in Nat,
           LogOK(old, L, t), LogOK(tl, L, u),
           NEW entries \in Seq(Entry), NEW at \in 0..Len(old), at + Len(entries) <= Len(tl),
           \A k \in 1..Len(entries) : entries[k] = tl[at + k],
           at > 0 => old[at].term = tl[at].term
    PROVE  LET new == StoreEntries(old, at, entries) IN
           /\ new \in Seq(Entry)
           /\ new = old \/ Len(new) = at + Len(entries)
           /\ Agree(new, tl, at + Len(entries))
           /\ \A j \in Nat : Agree(old, tl, j) => Agree(new, tl, j)
<1> DEFINE new == StoreEntries(old, at, entries)
           end == at + Len(entries)
<1>1. /\ old \in Seq(Entry) /\ tl \in Seq(Entry) /\ Len(old) \in Nat /\ Len(tl) \in Nat
      /\ Len(entries) \in Nat /\ at \in Nat /\ at <= Len(old) /\ end \in Nat
  BY LogTyped DEF LogOK
<1>2. /\ new \in Seq(Entry)
      /\ \/ /\ new = old
            /\ \A i \in 1..Len(entries) :
                  at + i <= Len(old) /\ old[at + i].term = entries[i].term
         \/ \E f \in 1..Len(entries) :
              /\ at + f - 1 <= Len(old) /\ Len(new) = at + Len(entries)
              /\ \A i \in 1..(at + f - 1) : new[i] = old[i]
              /\ \A i \in f..Len(entries) : new[at + i] = entries[i]
              /\ \A i \in 1..(f - 1) : old[at + i].term = entries[i].term
              /\ at + f > Len(old) \/ old[at + f].term # entries[f].term
  BY <1>1, StoredLog, ZenonT(30)
<1> HIDE DEF new
<1>3. ASSUME NEW k \in 0..end, k <= Len(old), k >= at,
             \A i \in 1..(k - at) : old[at + i].term = entries[i].term
      PROVE  Agree(old, tl, k)
  <2>1. CASE k = 0
    BY <1>1, <2>1 DEF Agree
  <2>2. CASE k # 0
    <3>1. k \in 1..Len(old) /\ k <= Len(tl)
      BY <1>1, <1>3, <2>2
    <3>2. old[k].term = tl[k].term
      <4>1. CASE k = at
        BY <1>1, <2>2, <4>1
      <4>2. CASE k # at
        <5>1. k - at \in 1..(k - at) /\ k - at \in 1..Len(entries) /\ at + (k - at) = k
          BY <1>1, <1>3, <4>2
        <5>2. old[at + (k - at)].term = entries[k - at].term
          BY <1>3, <5>1
        <5>3. entries[k - at] = tl[at + (k - at)]
          BY <5>1
        <5> QED
          BY <5>1, <5>2, <5>3
      <4> QED
        BY <4>1, <4>2
    <3> QED
      BY <3>1, <3>2, SameTermAgree
  <2> QED
    BY <2>1, <2>2
<1>4. CASE /\ new = old
           /\ \A i \in 1..Len(entries) :
                 at + i <= Len(old) /\ old[at + i].term = entries[i].term
  <2>1. end <= Len(old)
    <3>1. CASE Len(entries) = 0
      BY <1>1, <3>1
    <3>2. CASE Len(entries) # 0
      <4>1. Len(entries) \in 1..Len(entries)
        BY <1>1, <3>2
      <4> QED
        BY <1>4, <4>1
    <3> QED
      BY <3>1, <3>2
  <2>2. end \in 0..end /\ end >= at /\ end - at = Len(entries)
    BY <1>1
  <2>3. Agree(old, tl, end)
    BY <1>3, <1>4, <2>1, <2>2
  <2> QED
    BY <1>2, <1>4, <2>3 DEF new
<1>5. ASSUME NEW f \in 1..Len(entries),
             at + f - 1 <= Len(old), Len(new) = at + Len(entries),
             \A i \in 1..(at + f - 1) : new[i] = old[i],
             \A i \in f..Len(entries) : new[at + i] = entries[i],
             \A i \in 1..(f - 1) : old[at + i].term = entries[i].term,
             at + f > Len(old) \/ old[at + f].term # entries[f].term
      PROVE  /\ new \in Seq(Entry)
             /\ new = old \/ Len(new) = at + Len(entries)
             /\ Agree(new, tl, at + Len(entries))
             /\ \A j \in Nat : Agree(old, tl, j) => Agree(new, tl, j)
  <2> DEFINE front == at + f - 1
  <2>1. front \in 0..end /\ front <= Len(old) /\ front >= at /\ front - at = f - 1
    BY <1>1, <1>5
  <2>2. Agree(old, tl, front)
    BY <1>3, <1>5, <2>1
  <2>3. ASSUME NEW i \in 1..end PROVE new[i] = tl[i]
    <3>1. CASE i <= front
      <4>1. i \in 1..front
        BY <3>1
      <4> QED
        BY <1>5, <2>2, <4>1 DEF Agree
    <3>2. CASE i > front
      <4>1. i - at \in f..Len(entries) /\ i - at \in 1..Len(entries) /\ at + (i - at) = i
        BY <1>1, <2>1, <3>2
      <4>2. new[at + (i - at)] = entries[i - at] /\ entries[i - at] = tl[at + (i - at)]
        BY <1>5, <4>1
      <4> QED
        BY <4>1, <4>2
    <3> QED
      BY <1>1, <2>1, <3>1, <3>2
  <2>4. Agree(new, tl, end)
    BY <1>1, <1>5, <2>3 DEF Agree
  <2>5. ASSUME NEW j \in Nat, Agree(old, tl, j) PROVE Agree(new, tl, j)
    <3>1. j <= front
      <4> SUFFICES ASSUME j > front PROVE FALSE
        BY <2>1
      <4>1. at + f \in 1..j /\ j <= Len(old)
        BY <1>1, <2>1, <2>5 DEF Agree
      <4>2. old[at + f] = tl[at + f]
        BY <2>5, <4>1 DEF Agree
      <4>3. entries[f] = tl[at + f]
        OBVIOUS
      <4>4. ~(at + f > Len(old))
        BY <1>1, <4>1
      <4>5. at + f > Len(old) \/ old[at + f].term # entries[f].term
        BY <1>5
      <4> QED
        BY <4>2, <4>3, <4>4, <4>5
    <3>2. j <= end /\ end \in Nat
      BY <1>1, <2>1, <3>1
    <3>3. Len(new) \in Nat /\ Len(tl) \in Nat
      BY <1>1, <1>5
    <3> HIDE DEF new, end, front
    <3> QED
      BY <2>4, <3>2, <3>3 DEF Agree
  <2> QED
    BY <1>2, <1>5, <2>4, <2>5
<1> QED
  BY <1>2, <1>4, <1>5, Zenon DEF new

\* Of two logs, the one a voter finds up to date has what the other one shares
\* with the log of an earlier term, if the logs of all later terms have it.
LEMMA UpToDate ==
    ASSUME NEW a, NEW b, NEW L, NEW t \in Nat, NEW u \in Nat, LogOK(a, L, t), LogOK(b, L, u),
           TermLogsOK(L), NEW s \in DOMAIN L, NEW j \in 1..Len(L[s]), L[s][j].term = s,
           Agree(b, L[s], j), \A v \in DOMAIN L : s < v => Agree(L[v], L[s], j),
           a # <<>>,
           \/ a[Len(a)].term > b[Len(b)].term
           \/ a[Len(a)].term = b[Len(b)].term /\ Len(a) >= Len(b)
    PROVE  Agree(a, L[s], j)
<1>1. /\ a \in Seq(Entry) /\ b \in Seq(Entry) /\ Len(a) \in Nat /\ Len(b) \in Nat
      /\ \A k \in 1..Len(a) : a[k].term \in Nat
      /\ \A k \in 1..Len(b) : b[k].term \in Nat
  BY LogTyped DEF LogOK
<1>2. /\ s \in Nat /\ L[s] \in Seq(Entry) /\ Len(L[s]) \in Nat /\ j \in Nat /\ j >= 1
      /\ LogOK(L[s], L, s)
  BY LogTyped DEF TermLogsOK, LogOK
<1>3. /\ j \in 1..Len(b) /\ b[j] = L[s][j] /\ Len(b) \in 1..Len(b) /\ Len(a) \in 1..Len(a)
  BY <1>1, <1>2 DEF Agree
<1>4. s <= b[Len(b)].term
  BY <1>1, <1>3 DEF LogOK
<1>5. CASE a[Len(a)].term = b[Len(b)].term /\ Len(a) >= Len(b)
  <2>1. Len(b) \in 1..Len(a)
    BY <1>1, <1>3, <1>5
  <2>2. /\ Agree(b, L[b[Len(b)].term], Len(b)) /\ Agree(a, L[a[Len(a)].term], Len(a))
    BY <1>3 DEF LogOK
  <2>3. Agree(a, b, Len(b))
    BY <1>1, <1>5, <2>1, <2>2 DEF Agree
  <2> QED
    BY <1>1, <1>2, <1>3, <2>3 DEF Agree
<1>6. CASE a[Len(a)].term > b[Len(b)].term
  <2> DEFINE v == a[Len(a)].term
  <2>1. /\ v \in DOMAIN L /\ v \in Nat /\ s < v /\ Agree(a, L[v], Len(a))
    BY <1>1, <1>2, <1>3, <1>4, <1>6 DEF LogOK
  <2>2. Agree(L[v], L[s], j) /\ LogOK(L[v], L, v)
    BY <2>1 DEF TermLogsOK
  <2>3. Len(L[v]) \in Nat
    BY <2>2, LogTyped DEF LogOK
  <2> HIDE DEF v
  <2>4. L[v][Len(a)] = a[Len(a)] /\ L[v][j].term = s /\ Len(a) <= Len(L[v]) /\ j <= Len(L[v])
    BY <1>1, <1>2, <1>3, <2>1, <2>2 DEF Agree
  <2>5. j <= Len(a)
    <3> SUFFICES ASSUME Len(a) < j PROVE FALSE
      BY <1>1, <1>2
    <3>1. L[v][Len(a)].term <= L[v][j].term
      BY <1>1, <1>2, <1>3, <2>2, <2>3, <2>4 DEF LogOK
    <3> QED
      BY <1>2, <2>1, <2>4, <3>1 DEF v
  <2> QED
    BY <1>1, <1>2, <2>1, <2>2, <2>5 DEF Agree
<1> QED
  BY <1>5, <1>6

-----------------------------------------------------------------------------
(* What a step does to the logs and to what is remembered of them. *)

\* The logs of the terms as they stand: no more leaders for these terms, and the
\* log of each node put together from them.
TermsOK ==
    /\ TermLogsOK(termLog)
    /\ \A t \in DOMAIN termLog : TermClosed(t)
    /\ \A n \in Server : state[n] = "Leader" =>
          currentTerm[n] \in DOMAIN termLog /\ termLog[currentTerm[n]] = log[n]
    /\ \A n \in Server : LogOK(log[n], termLog, currentTerm[n])
    /\ \A n \in Server : pc[n] = "collect" => electionTerm[n] > 0

\* The step in which n appends a command of its own.
LeaderAdds(n) == Appended(n) /\ LeaderCommand(n)

\* The step in which a follower accepts call c.
Accepts(c) ==
    /\ c \in Appends /\ HandleAppendEntries(c) /\ c.term >= currentTerm[c.to]
    /\ AdoptTerm(c.to, c.term) /\ state' = [state EXCEPT ![c.to] = "Follower"]
    /\ AcceptEntries(c.to, c)

\* While nothing is compacted, logs change in no other step.
LEMMA LogMoves ==
    ASSUME TypeInv, Next, NothingCompacted, NothingCompacted'
    PROVE  \/ log' = log
           \/ \E n \in Server : LeaderAdds(n)
           \/ \E c \in appendCalls : Accepts(c)
<1>1. ASSUME NEW n \in Server, NEW index, Cut(n, index) PROVE FALSE
  <2>1. snapshot'[n].index = index /\ snapshot[n].index \in Nat /\ index > snapshot[n].index
    BY <1>1, LastLogInfo DEF Cut, TypeInv, StoreTypeOK
  <2>2. snapshot'[n].index = 0 /\ index \in Nat
    BY <1>1 DEF NothingCompacted, NoSnapshot, Cut
  <2> QED
    BY <2>1, <2>2
<1>2. \A c \in appendCalls : c.to \in Server /\ c.from \in Server
  BY DEF TypeInv, TrafficTypeOK, CallTyped, Peers
<1>3. ASSUME NEW c \in appendCalls, Stored(c), HandleAppendEntries(c)
      PROVE  log' = log \/ Accepts(c)
  BY <1>3 DEF Stored, HandleAppendEntries, RefuseAppend, FollowAppend, RejectEntries, Accepts, Appends
<1> QED
  BY <1>1, <1>2, <1>3, LogStep DEF Compacted, logVars, LeaderAdds

\* A call goes out of the set of calls to be appended when it is handled.
LEMMA AcceptedStep ==
    ASSUME TypeInv, Next, NEW d \in Accepted
    PROVE  Accepts(d)
<1>1. d \in Appends /\ d \in appendCalls /\ d.stage = "append" /\ d \notin appendCalls'
  BY DEF Accepted, Appends
<1>2. CASE \E n \in Server : MainLoop(n) \/ Client(n)
  <2>1. appendCalls \subseteq appendCalls'
    BY <1>2 DEF MainLoop, Client, Dispatch, ElectionTimeout, StartElection, CandidateTimeout,
       ReceiveVoteReply, Broadcast, LeaderTick, LeaderCommand, Exit, Stop, Submit, callVars
  <2> QED
    BY <1>1, <2>1
<1>3. CASE \E c \in voteCalls : HandleRequestVote(c)
  BY <1>1, <1>3 DEF HandleRequestVote, callVars
<1>4. ASSUME NEW c \in appendCalls, AppendGoroutine(c) PROVE Accepts(d)
  <2>1. c = d
    <3>1. Finish(c) \/ \E f : Advance(c, f)
      <4>1. CASE AbandonCall(c) \/ SendInstallSnapshot(c) \/ SendAppendEntries(c)
                   \/ ReceiveAppendReply(c) \/ ReceiveInstallReply(c)
        BY <4>1 DEF AbandonCall, SendInstallSnapshot, SendAppendEntries, ReceiveAppendReply,
           ReceiveInstallReply
      <4>2. CASE HandleAppendEntries(c)
        BY <4>2 DEF HandleAppendEntries, RefuseAppend, FollowAppend, RejectEntries, AcceptEntries,
           AppendReply
      <4>3. CASE HandleInstallSnapshot(c)
        BY <4>3 DEF HandleInstallSnapshot, InstallReply
      <4> QED
        BY <1>4, <4>1, <4>2, <4>3 DEF AppendGoroutine
    <3> QED
      BY <1>1, <3>1 DEF Finish, Advance
  <2>2. HandleAppendEntries(d)
    BY <1>1, <1>4, <2>1 DEF AppendGoroutine, AbandonCall, SendInstallSnapshot,
       SendAppendEntries, HandleInstallSnapshot, ReceiveAppendReply, ReceiveInstallReply
  <2>3. d.to \in Server /\ d.term \in Nat /\ currentTerm[d.to] \in Nat
    BY <1>1 DEF TypeInv, TrafficTypeOK, CallTyped, Peers, ElectionInv, ElectionTypeOK
  <2>4. d.term >= currentTerm[d.to] /\ PrevMatches(d.to, d)
    BY DEF Accepted
  <2>5. ~RefuseAppend(d) /\ ~RejectEntries(d.to, d)
    <3>1. ~RejectEntries(d.to, d)
      BY <2>4, Zenon DEF RejectEntries
    <3>2. ~(d.term < currentTerm[d.to])
      BY <2>3, <2>4
    <3> QED
      BY <3>1, <3>2 DEF RefuseAppend
  <2>6. FollowAppend(d)
    BY <2>2, <2>5 DEF HandleAppendEntries
  <2> QED
    BY <1>1, <2>2, <2>4, <2>5, <2>6 DEF FollowAppend, Accepts
<1> QED
  BY <1>2, <1>3, <1>4 DEF Next

\* A leader that keeps its office changes its log only by adding to it.
LEMMA AppendingStep ==
    ASSUME TypeInv, Next, NothingCompacted, NothingCompacted', NEW n \in Appending
    PROVE  LeaderAdds(n)
<1>1. n \in Server /\ state[n] = "Leader" /\ state'[n] = "Leader" /\ log'[n] # log[n]
  BY DEF Appending, Leaders
<1>2. log \in [Server -> Seq(Entry)] /\ state \in [Server -> Role]
  BY DEF TypeInv, StoreTypeOK, ElectionInv, ElectionTypeOK
<1>3. ASSUME NEW m \in Server, LeaderAdds(m) PROVE LeaderAdds(n)
  <2>1. log'[n] # log[n] => m = n
    BY <1>1, <1>2, <1>3 DEF LeaderAdds, Appended
  <2> QED
    BY <1>1, <1>3, <2>1
<1>4. ASSUME NEW c \in appendCalls, Accepts(c) PROVE FALSE
  <2>1. c.to \in Server
    BY DEF TypeInv, TrafficTypeOK, CallTyped, Peers
  <2>2. c.to # n
    BY <1>1, <1>2, <1>4, <2>1 DEF Accepts
  <2> QED
    BY <1>1, <1>2, <1>4, <2>1, <2>2 DEF Accepts, AcceptEntries
<1> QED
  BY <1>1, <1>3, <1>4, LogMoves

\* What a step adds to stored.
LEMMA StoredStep ==
    ASSUME TypeInv, Next, NothingCompacted, NothingCompacted', RecordStores
    PROVE  /\ stored \subseteq stored'
           /\ \A s \in stored' :
                 \/ s \in stored
                 \/ \E c \in appendCalls : /\ Accepts(c) /\ s.node = c.to /\ s.term = c.term
                                           /\ s.index = c.prevIndex + Len(c.entries)
                 \/ \E n \in Server : /\ LeaderAdds(n) /\ s.node = n /\ s.term = currentTerm[n]
                                      /\ s.index = Len(log'[n])
           /\ \A c \in Accepted : \E s \in stored' : s.node = c.to /\ s.term = c.term
                                      /\ s.index = c.prevIndex + Len(c.entries)
           /\ \A n \in Appending : \E s \in stored' : s.node = n /\ s.term = currentTerm[n]
                                      /\ s.index = Len(log'[n])
<1> DEFINE A == {[node |-> c.to, term |-> c.term, index |-> c.prevIndex + Len(c.entries)] :
                    c \in Accepted}
           B == {[node |-> n, term |-> currentTerm[n], index |-> Len(log'[n])] : n \in Appending}
<1>1. stored' = stored \cup A \cup B
  BY DEF RecordStores
<1>2. /\ \A s \in A : \E c \in Accepted : s.node = c.to /\ s.term = c.term
                                      /\ s.index = c.prevIndex + Len(c.entries)
      /\ \A c \in Accepted : \E s \in A : s.node = c.to /\ s.term = c.term
                                      /\ s.index = c.prevIndex + Len(c.entries)
  <2> DEFINE R(c) == [node |-> c.to, term |-> c.term, index |-> c.prevIndex + Len(c.entries)]
  <2>1. \A c : /\ R(c).node = c.to /\ R(c).term = c.term
               /\ R(c).index = c.prevIndex + Len(c.entries)
    OBVIOUS
  <2>2. A = {R(c) : c \in Accepted}
    OBVIOUS
  <2> HIDE DEF A, R
  <2> QED
    BY <2>1, <2>2
<1>3. /\ \A s \in B : \E n \in Appending : s.node = n /\ s.term = currentTerm[n]
                                      /\ s.index = Len(log'[n])
      /\ \A n \in Appending : \E s \in B : s.node = n /\ s.term = currentTerm[n]
                                      /\ s.index = Len(log'[n])
  <2> DEFINE R(n) == [node |-> n, term |-> currentTerm[n], index |-> Len(log'[n])]
  <2>1. \A n : R(n).node = n /\ R(n).term = currentTerm[n] /\ R(n).index = Len(log'[n])
    OBVIOUS
  <2>2. B = {R(n) : n \in Appending}
    OBVIOUS
  <2> HIDE DEF B, R
  <2> QED
    BY <2>1, <2>2
<1> HIDE DEF A, B
<1>4. /\ \A c \in Accepted : c \in appendCalls /\ Accepts(c)
      /\ \A n \in Appending : n \in Server /\ LeaderAdds(n)
  BY AcceptedStep, AppendingStep DEF Accepted, Appends, Appending, Leaders
<1> QED
  BY <1>1, <1>2, <1>3, <1>4

\* A leader's log does not change except by adding to it.
LEMMA LeaderLogMoves ==
    ASSUME TypeInv, Next, NothingCompacted, NothingCompacted',
           NEW n \in Server, state[n] = "Leader", state'[n] = "Leader"
    PROVE  log'[n] = log[n] \/ LeaderAdds(n)
  BY AppendingStep DEF Appending, Leaders

\* What a step does to the logs of the terms: each is as it was, or its leader has
\* added to it; and a new one is the log of a node that wins its election.
LEMMA TermLogStep ==
    ASSUME TypeInv, Next, NothingCompacted, NothingCompacted', TermsOK, RecordLogs
    PROVE  /\ \A t \in DOMAIN termLog :
                 /\ t \in DOMAIN termLog'
                 /\ \/ termLog'[t] = termLog[t]
                    \/ \E n \in Server : /\ LeaderAdds(n) /\ t = currentTerm[n]
                                         /\ termLog[t] = log[n] /\ termLog'[t] = log'[n]
           /\ \A t \in DOMAIN termLog' \ DOMAIN termLog :
                 \E m \in Server : /\ Wins(m) /\ t = currentTerm[m] /\ currentTerm' = currentTerm
                                   /\ log' = log /\ termLog'[t] = log[m]
           /\ \A n \in Server : state'[n] = "Leader" =>
                 currentTerm'[n] \in DOMAIN termLog' /\ termLog'[currentTerm'[n]] = log'[n]
<1>1. ElectionInv /\ ElectionInv'
  BY TypeInvNext DEF TypeInv
<1>2. \A n, m \in Server : state'[n] = "Leader" /\ state'[m] = "Leader"
                              /\ currentTerm'[n] = currentTerm'[m] => n = m
  <2>1. ElectionSafety'
    BY <1>1, ElectionInvSafe, PTL
  <2> QED
    BY <2>1 DEF ElectionSafety
<1>3. Leaders' = {n \in Server : state'[n] = "Leader"}
  BY DEF Leaders
<1>4. ASSUME NEW n \in Server, state'[n] = "Leader"
      PROVE  /\ currentTerm'[n] \in DOMAIN termLog'
             /\ termLog'[currentTerm'[n]] = log'[n]
  <2> SUFFICES ASSUME NEW t, t = currentTerm'[n]
               PROVE  t \in DOMAIN termLog' /\ termLog'[t] = log'[n]
    OBVIOUS
  <2>1. n \in Leaders' /\ currentTerm'[n] = t
    BY <1>3, <1>4
  <2>2. t \in DOMAIN termLog \cup {currentTerm'[k] : k \in Leaders'}
    BY <2>1
  <2>3. LeaderOf(t)' \in Leaders' /\ currentTerm'[LeaderOf(t)'] = t
    BY <2>1 DEF LeaderOf
  <2>4. LeaderOf(t)' = n
    BY <1>2, <1>3, <1>4, <2>1, <2>3
  <2>5. termLog'[t] = log'[LeaderOf(t)'] /\ t \in DOMAIN termLog'
    BY <2>1, <2>2 DEF RecordLogs
  <2> QED
    BY <2>4, <2>5
<1>5. ASSUME NEW t \in DOMAIN termLog
      PROVE  /\ t \in DOMAIN termLog'
             /\ \/ termLog'[t] = termLog[t]
                \/ \E n \in Server : /\ LeaderAdds(n) /\ t = currentTerm[n]
                                     /\ termLog[t] = log[n] /\ termLog'[t] = log'[n]
  <2>1. t \in DOMAIN termLog'
    BY DEF RecordLogs
  <2>2. CASE ~\E n \in Leaders' : currentTerm'[n] = t
    BY <2>1, <2>2 DEF RecordLogs
  <2>3. ASSUME NEW n \in Leaders', currentTerm'[n] = t
        PROVE  \/ termLog'[t] = termLog[t]
               \/ \E k \in Server : /\ LeaderAdds(k) /\ t = currentTerm[k]
                                    /\ termLog[t] = log[k] /\ termLog'[t] = log'[k]
    <3>1. n \in Server /\ state'[n] = "Leader"
      BY <1>3
    <3>2. termLog'[t] = log'[n]
      BY <1>4, <2>3, <3>1
    <3>3. currentTerm[n] = t /\ (state[n] = "Leader" \/ Wins(n))
      BY <1>1, <2>3, <3>1, LeaderSince
    <3>4. ~Wins(n)
      BY <1>1, <3>1, <3>3, ClosedTermNotWon DEF TermsOK
    <3>5. state[n] = "Leader" /\ termLog[t] = log[n]
      BY <3>1, <3>3, <3>4 DEF TermsOK
    <3> QED
      BY <3>1, <3>2, <3>3, <3>5, LeaderLogMoves
  <2> QED
    BY <2>1, <2>2, <2>3
<1>6. ASSUME NEW t \in DOMAIN termLog' \ DOMAIN termLog
      PROVE  \E m \in Server : /\ Wins(m) /\ t = currentTerm[m] /\ currentTerm' = currentTerm
                               /\ log' = log /\ termLog'[t] = log[m]
  <2>1. PICK m \in Leaders' : currentTerm'[m] = t
    BY DEF RecordLogs
  <2>2. m \in Server /\ state'[m] = "Leader"
    BY <1>3
  <2>3. currentTerm[m] = t /\ (state[m] = "Leader" \/ Wins(m))
    BY <1>1, <2>1, <2>2, LeaderSince
  <2>4. Wins(m)
    BY <2>2, <2>3 DEF TermsOK
  <2>5. log' = log /\ currentTerm' = currentTerm
    <3>1. PICK r \in voteReplies : ReceiveVoteReply(m, r)
      BY <2>4 DEF Wins
    <3>2. log' = log
      BY <3>1 DEF ReceiveVoteReply, logVars
    <3>3. state' = [state EXCEPT ![m] = "Leader"]
      BY <2>4 DEF Wins, BecomeLeader
    <3>4. currentTerm' = currentTerm
      <4>1. state \in [Server -> Role]
        BY <1>1 DEF ElectionInv, ElectionTypeOK
      <4>2. ~StepDown(m, r.term)
        BY <2>2, <3>3, <4>1 DEF StepDown
      <4> QED
        BY <3>1, <4>2 DEF ReceiveVoteReply
    <3> QED
      BY <3>2, <3>4
  <2> QED
    BY <1>4, <2>1, <2>2, <2>3, <2>4, <2>5
<1> QED
  BY <1>4, <1>5, <1>6

-----------------------------------------------------------------------------
(* Calls on their way, and what they do to the log that takes them in. *)

\* Node p has stored the log of term t, up to index k or further, in that term.
StoredUpTo(S, p, t, k) == \E s \in S : s.node = p /\ s.term = t /\ s.index >= k

\* Entry k of the log of term t is one its leader added.
OwnEntry(L, t, k) == t \in DOMAIN L /\ k \in 1..Len(L[t]) /\ L[t][k].term = t

\* A majority has stored the entry, or still can.
Choosable(S, terms, t, k) ==
    \E Q \in SUBSET Server : /\ Cardinality(Q) >= Majority
                             /\ \A p \in Q : StoredUpTo(S, p, t, k) \/ terms[p] <= t

\* A majority has stored the entry.
Chosen(L, S, t, k) ==
    /\ OwnEntry(L, t, k)
    /\ \E Q \in SUBSET Server : /\ Cardinality(Q) >= Majority
                                /\ \A p \in Q : StoredUpTo(S, p, t, k)

\* The first k entries of the log lg lead up to one chosen in term u or earlier.
Certified(L, S, lg, k, u) ==
    \/ k = 0
    \/ \E t \in DOMAIN L : \E j \in 1..Len(L[t]) :
          t <= u /\ Chosen(L, S, t, j) /\ k <= j /\ Agree(lg, L[t], k)

\* The call starts behind the end of its leader's log, so that no log matches.
Misses(c) == c.prevIndex > 0 /\ c.prevTerm = 0

\* The call carries the log of its term from prevIndex to its end at the time,
\* and an index up to which that was committed.
Carries(c, L, S) ==
    /\ c.prevIndex + Len(c.entries) <= Len(L[c.term])
    /\ c.prevIndex > 0 => c.prevTerm = L[c.term][c.prevIndex].term
    /\ \A k \in 1..Len(c.entries) : c.entries[k] = L[c.term][c.prevIndex + k]
    /\ c.commit <= c.prevIndex + Len(c.entries)
    /\ Certified(L, S, L[c.term], c.commit, c.term)
CallOK(c, L, S) == c.term \in DOMAIN L /\ (Misses(c) \/ Carries(c, L, S))
AppendCallsOK == \A c \in Appends : CallOK(c, termLog, stored)

\* What accepting call c does to the log of its receiver.
LEMMA AcceptFacts ==
    ASSUME TypeInv, NothingCompacted, TermsOK, AppendCallsOK, NEW c \in appendCalls, Accepts(c)
    PROVE  /\ c.to \in Server /\ c.term \in DOMAIN termLog /\ Carries(c, termLog, stored)
           /\ currentTerm[c.to] <= c.term
           /\ currentTerm' = [currentTerm EXCEPT ![c.to] = c.term]
           /\ \A m \in Server \ {c.to} : log'[m] = log[m]
           /\ Agree(log'[c.to], termLog[c.term], c.prevIndex + Len(c.entries))
           /\ \A j \in Nat : Agree(log[c.to], termLog[c.term], j)
                                => Agree(log'[c.to], termLog[c.term], j)
           /\ LogOK(log'[c.to], termLog, c.term)
<1> DEFINE n == c.to
           tl == termLog[c.term]
           at == c.prevIndex
           new == StoreEntries(log[n], at, c.entries)
<1>1. /\ n \in Server /\ c \in Appends /\ at \in Nat /\ c.entries \in Seq(Entry)
      /\ c.term \in Nat /\ currentTerm \in [Server -> Nat] /\ c.prevTerm \in Nat
      /\ log \in [Server -> Seq(Entry)]
  BY DEF TypeInv, TrafficTypeOK, CallTyped, Peers, Accepts, Appends, ElectionInv, ElectionTypeOK,
     StoreTypeOK
<1>2. /\ c.term \in DOMAIN termLog /\ (Misses(c) \/ Carries(c, termLog, stored))
  BY <1>1 DEF AppendCallsOK, CallOK
<1>3. /\ LogOK(log[n], termLog, currentTerm[n]) /\ LogOK(tl, termLog, c.term)
      /\ \A t \in DOMAIN termLog : t > 0
  BY <1>1, <1>2 DEF TermsOK, TermLogsOK
<1>4. snapshot[n].index = 0 /\ snapshot[n].term = 0
  BY <1>1 DEF NothingCompacted, NoSnapshot
<1>5. at = 0 \/ (at \in 1..Len(log[n]) /\ log[n][at].term = c.prevTerm)
  <2>1. PrevMatches(n, c)
    BY DEF Accepts, AcceptEntries
  <2>2. at - snapshot[n].index = at
    BY <1>1, <1>4
  <2> QED
    BY <1>1, <2>1, <2>2 DEF PrevMatches
<1>6. at \in 0..Len(log[n])
  BY <1>1, <1>5
<1>7. ~Misses(c)
  <2> SUFFICES ASSUME Misses(c) PROVE FALSE
    OBVIOUS
  <2>1. at \in 1..Len(log[n]) /\ log[n][at].term = 0
    BY <1>1, <1>5 DEF Misses
  <2>2. log[n][at].term \in DOMAIN termLog
    BY <1>3, <2>1 DEF LogOK
  <2> QED
    BY <1>3, <2>1, <2>2
<1>8. Carries(c, termLog, stored)
  BY <1>2, <1>7
<1>9. /\ at + Len(c.entries) <= Len(tl)
      /\ \A k \in 1..Len(c.entries) : c.entries[k] = tl[at + k]
      /\ at > 0 => log[n][at].term = tl[at].term
  BY <1>1, <1>5, <1>8 DEF Carries
<1>10. currentTerm[n] \in Nat
  BY <1>1
<1>11. /\ new \in Seq(Entry)
       /\ new = log[n] \/ Len(new) = at + Len(c.entries)
       /\ Agree(new, tl, at + Len(c.entries))
       /\ \A j \in Nat : Agree(log[n], tl, j) => Agree(new, tl, j)
  BY <1>1, <1>3, <1>6, <1>9, <1>10, StoreAgrees
<1>12. AppendAt(n, c) = at
  <2>1. c.prevIndex - snapshot[n].index = at
    BY <1>1, <1>4
  <2>2. Max({0, at}) = at
    BY <1>1, MaxOfTwo
  <2> QED
    BY <2>1, <2>2 DEF AppendAt
<1>13. /\ log' = [log EXCEPT ![n] = new]
       /\ currentTerm[n] <= c.term /\ currentTerm' = [currentTerm EXCEPT ![n] = c.term]
  <2>1. log' = [log EXCEPT ![n] = new]
    BY <1>12 DEF Accepts, AcceptEntries
  <2>2. currentTerm[n] <= c.term
    BY <1>1, <1>10 DEF Accepts
  <2>3. Max({currentTerm[n], c.term}) = c.term
    BY <1>1, <1>10, <2>2, MaxOfTwo
  <2> QED
    BY <2>1, <2>2, <2>3 DEF Accepts, AdoptTerm
<1> HIDE DEF new
<1>14. log'[n] = new /\ \A m \in Server \ {n} : log'[m] = log[m]
  BY <1>1, <1>13
<1>15. LogOK(new, termLog, c.term)
  <2>1. CASE new = log[n]
    <3>1. Extends(termLog, termLog)
      <4>1. \A t \in DOMAIN termLog : Len(termLog[t]) \in Nat
        BY LogTyped DEF TermsOK, TermLogsOK, LogOK
      <4> QED
        BY <4>1 DEF Extends, Agree
    <3> QED
      BY <1>1, <1>3, <1>10, <1>13, <2>1, <3>1, LogStaysOK DEF TermsOK
  <2>2. CASE Len(new) = at + Len(c.entries)
    BY <1>1, <1>3, <1>11, <2>2, FrontOK
  <2> QED
    BY <1>11, <2>1, <2>2
<1> QED
  BY <1>1, <1>2, <1>8, <1>11, <1>13, <1>14, <1>15

-----------------------------------------------------------------------------
(* The logs of the terms stay proper. *)

LeadersClose == \A n \in Server : state[n] = "Leader" => TermClosed(currentTerm[n])

LEMMA LeadersTermsClosed == ElectionInv => LeadersClose
  BY LeaderClosesTerm DEF LeadersClose

\* What a leader's own append does.
LEMMA AddsFacts ==
    ASSUME TypeInv, TermsOK, NEW n \in Server, LeaderAdds(n)
    PROVE  /\ state[n] = "Leader" /\ currentTerm[n] \in DOMAIN termLog
           /\ termLog[currentTerm[n]] = log[n] /\ currentTerm' = currentTerm /\ state' = state
           /\ \A m \in Server \ {n} : log'[m] = log[m]
           /\ \E e \in Entry : e.term = currentTerm[n] /\ log'[n] = Append(log[n], e)
           /\ Len(log'[n]) = Len(log[n]) + 1 /\ Agree(log[n], log'[n], Len(log[n]))
<1> DEFINE e == [term |-> currentTerm[n], command |-> Head(commandCh[n])]
<1>1. /\ log \in [Server -> Seq(Entry)] /\ currentTerm \in [Server -> Nat]
      /\ commandCh[n] \in Seq(Command)
  BY DEF TypeInv, StoreTypeOK, TrafficTypeOK, ElectionInv, ElectionTypeOK
<1>2. /\ state[n] = "Leader" /\ commandCh[n] # <<>> /\ log' = [log EXCEPT ![n] = Append(log[n], e)]
      /\ currentTerm' = currentTerm /\ state' = state
  BY DEF LeaderAdds, Appended, electionVars
<1>3. e \in Entry /\ e.term = currentTerm[n]
  <2>1. Head(commandCh[n]) \in Command
    BY <1>1, <1>2, HeadTailProperties
  <2> QED
    BY <1>1, <2>1 DEF Entry
<1> HIDE DEF e
<1>4. log'[n] = Append(log[n], e) /\ \A m \in Server \ {n} : log'[m] = log[m]
  BY <1>1, <1>2
<1>5. /\ log[n] \in Seq(Entry) /\ Len(log[n]) \in Nat /\ Len(log'[n]) = Len(log[n]) + 1
      /\ \A k \in 1..Len(log[n]) : log'[n][k] = log[n][k]
  BY <1>1, <1>3, <1>4
<1>6. Agree(log[n], log'[n], Len(log[n]))
  BY <1>5 DEF Agree
<1> QED
  BY <1>2, <1>3, <1>4, <1>5, <1>6 DEF TermsOK

\* The logs of the terms only grow.
LEMMA TermLogsGrow ==
    ASSUME TypeInv, Next, NothingCompacted, NothingCompacted', TermsOK, RecordLogs
    PROVE  Extends(termLog', termLog)
<1> SUFFICES ASSUME NEW t \in DOMAIN termLog
             PROVE  t \in DOMAIN termLog' /\ Agree(termLog[t], termLog'[t], Len(termLog[t]))
  BY DEF Extends
<1>1. /\ t \in DOMAIN termLog'
      /\ \/ termLog'[t] = termLog[t]
         \/ \E n \in Server : /\ LeaderAdds(n) /\ t = currentTerm[n]
                              /\ termLog[t] = log[n] /\ termLog'[t] = log'[n]
  BY TermLogStep
<1>2. CASE termLog'[t] = termLog[t]
  <2>1. Len(termLog[t]) \in Nat
    BY LogTyped DEF TermsOK, TermLogsOK, LogOK
  <2> QED
    BY <1>1, <1>2, <2>1 DEF Agree
<1> QED
  BY <1>1, <1>2, AddsFacts

\* Terms do not decrease.
LEMMA TermsRise ==
    ASSUME TypeInv, Next
    PROVE  /\ \A n \in Server : currentTerm[n] \in Nat /\ currentTerm'[n] \in Nat
                                /\ currentTerm'[n] >= currentTerm[n]
<1>1. ElectionInv /\ ElectionInv'
  BY TypeInvNext DEF TypeInv
<1>2. /\ currentTerm \in [Server -> Nat] /\ currentTerm' \in [Server -> Nat]
  BY <1>1 DEF ElectionInv, ElectionTypeOK
<1>3. UNCHANGED vars \/ KeepsVotes
  BY <1>1, NextKeepsVotes
<1> QED
  BY <1>2, <1>3 DEF KeepsVotes, vars, electionVars

LEMMA TermLogsStayOK ==
    ASSUME TypeInv, Next, NothingCompacted, NothingCompacted', TermsOK, RecordLogs
    PROVE  TermLogsOK(termLog')
<1>1. TermLogsOK(termLog) /\ Extends(termLog', termLog)
  BY TermLogsGrow DEF TermsOK
<1>2. ASSUME NEW t \in DOMAIN termLog
      PROVE  t \in Nat /\ t > 0 /\ LogOK(termLog'[t], termLog', t)
  <2>1. t \in Nat /\ t > 0 /\ LogOK(termLog[t], termLog, t)
    BY <1>1 DEF TermLogsOK
  <2>2. CASE termLog'[t] = termLog[t]
    BY <1>1, <2>1, <2>2, LogStaysOK
  <2>3. ASSUME NEW n \in Server, LeaderAdds(n), t = currentTerm[n],
               termLog[t] = log[n], termLog'[t] = log'[n]
        PROVE  LogOK(termLog'[t], termLog', t)
    <3>1. PICK e \in Entry : e.term = t /\ log'[n] = Append(log[n], e)
      BY <2>3, AddsFacts
    <3>2. t \in DOMAIN termLog' /\ termLog'[t] = Append(termLog[t], e)
      BY <1>1, <2>3, <3>1 DEF Extends
    <3> QED
      BY <1>1, <2>1, <3>1, <3>2, LongerOK
  <2> QED
    BY <2>1, <2>2, <2>3, TermLogStep
<1>3. ASSUME NEW t \in DOMAIN termLog' \ DOMAIN termLog
      PROVE  t \in Nat /\ t > 0 /\ LogOK(termLog'[t], termLog', t)
  <2>1. PICK m \in Server : Wins(m) /\ t = currentTerm[m] /\ termLog'[t] = log[m]
    BY TermLogStep
  <2>2. t \in Nat /\ t > 0 /\ LogOK(log[m], termLog, t)
    BY <2>1, TermsRise DEF TermsOK, Wins
  <2> QED
    BY <1>1, <2>1, <2>2, LogStaysOK
<1> QED
  BY <1>2, <1>3 DEF TermLogsOK

\* Every log stays put together from the logs of the terms.
LEMMA TermsOKStep ==
    ASSUME TypeInv, Next, NothingCompacted, NothingCompacted', TermsOK, AppendCallsOK, RecordLogs
    PROVE  TermsOK'
<1>1. ElectionInv /\ ElectionInv' /\ Extends(termLog', termLog) /\ TermLogsOK(termLog)
  BY TypeInvNext, TermLogsGrow DEF TypeInv, TermsOK
<1>2. TermLogsOK(termLog')
  BY TermLogsStayOK
<1>3. \A n \in Server : state'[n] = "Leader" =>
         currentTerm'[n] \in DOMAIN termLog' /\ termLog'[currentTerm'[n]] = log'[n]
  BY TermLogStep
<1>4. ASSUME NEW t \in DOMAIN termLog' PROVE TermClosed(t)'
  <2>1. t \in Nat
    BY <1>2 DEF TermLogsOK
  <2>2. CASE t \in DOMAIN termLog
    BY <1>1, <2>1, <2>2, TermStaysClosed DEF TermsOK
  <2>3. CASE t \notin DOMAIN termLog
    <3>1. PICK m \in Server : Wins(m) /\ t = currentTerm[m] /\ currentTerm' = currentTerm
      BY <2>3, TermLogStep
    <3>2. state'[m] = "Leader" /\ currentTerm'[m] = t
      BY <1>1, <3>1 DEF Wins, BecomeLeader, ElectionInv, ElectionTypeOK
    <3>3. LeadersClose'
      BY <1>1, LeadersTermsClosed, PTL
    <3>4. \A k : k = currentTerm'[m] => TermClosed(k)'
      BY <3>2, <3>3 DEF LeadersClose, TermClosed
    <3> QED
      BY <3>2, <3>4
  <2> QED
    BY <2>2, <2>3
<1>5. ASSUME NEW n \in Server PROVE LogOK(log'[n], termLog', currentTerm'[n])
  <2>1. LogOK(log[n], termLog, currentTerm[n])
    BY DEF TermsOK
  <2>2. currentTerm[n] \in Nat /\ currentTerm'[n] \in Nat /\ currentTerm[n] <= currentTerm'[n]
    BY TermsRise
  <2>3. CASE log'[n] = log[n]
    BY <1>1, <2>1, <2>2, <2>3, LogStaysOK
  <2>4. ASSUME NEW m \in Server, LeaderAdds(m), log'[n] # log[n]
        PROVE  LogOK(log'[n], termLog', currentTerm'[n])
    <3>1. m = n /\ state'[n] = "Leader"
      BY <2>4, AddsFacts
    <3> QED
      BY <1>2, <1>3, <3>1 DEF TermLogsOK
  <2>5. ASSUME NEW c \in appendCalls, Accepts(c), log'[n] # log[n]
        PROVE  LogOK(log'[n], termLog', currentTerm'[n])
    <3>1. n = c.to /\ LogOK(log'[n], termLog, c.term) /\ c.term \in DOMAIN termLog
      BY <2>5, AcceptFacts
    <3>2. c.term = currentTerm'[n]
      <4>1. currentTerm' = [currentTerm EXCEPT ![c.to] = c.term]
        BY <2>5, AcceptFacts
      <4> QED
        BY <1>1, <3>1, <4>1 DEF ElectionInv, ElectionTypeOK
    <3> QED
      BY <1>1, <2>2, <3>1, <3>2, LogStaysOK
  <2> QED
    BY <2>3, <2>4, <2>5, LogMoves
<1>6. ASSUME NEW n \in Server, pc'[n] = "collect" PROVE electionTerm'[n] > 0
  <2>1. /\ electionTerm'[n] >= electionTerm[n]
        /\ pc[n] = "collect" \/ electionTerm'[n] > electionTerm[n]
    BY <1>1, <1>6, NextMovesElections DEF ElectionMoves
  <2>2. electionTerm[n] \in Nat /\ electionTerm'[n] \in Nat
    BY <1>1 DEF ElectionInv, ElectionTypeOK
  <2> QED
    BY <2>1, <2>2 DEF TermsOK
<1> QED
  BY <1>2, <1>3, <1>4, <1>5, <1>6 DEF TermsOK

-----------------------------------------------------------------------------
(* What has been stored. *)

\* Whoever has stored part of a leader's log has stored it in the leader's term.
StoresOK ==
    \A s \in stored : /\ s.node \in Server /\ s.term \in DOMAIN termLog /\ s.index \in Nat
                      /\ s.index <= Len(termLog[s.term]) /\ s.term <= currentTerm[s.node]

\* What the steps below start from, and a step before anything is compacted.
Base == TypeInv /\ NothingCompacted /\ TermsOK /\ AppendCallsOK /\ StoresOK
Move == Next /\ NothingCompacted' /\ Record

\* The log of p gets longer, or keeps what it shares with that of a current term.
KeepsLog(p) ==
    \/ Agree(log[p], log'[p], Len(log[p]))
    \/ \E u \in DOMAIN termLog :
          /\ currentTerm[p] <= u
          /\ \A j \in Nat : Agree(log[p], termLog[u], j) => Agree(log'[p], termLog[u], j)

\* A store of this step.
NewStore(s) ==
    /\ s.node \in Server /\ s.term \in DOMAIN termLog /\ s.index \in Nat
    /\ s.term = currentTerm'[s.node] /\ currentTerm[s.node] <= s.term
    /\ Agree(log'[s.node], termLog'[s.term], s.index)

LEMMA LogsKept ==
    ASSUME Base, Move, NEW p \in Server
    PROVE  KeepsLog(p)
<1> USE DEF Base, Move
<1>1. CASE log'[p] = log[p]
  <2>1. Len(log[p]) \in Nat
    BY LogTyped DEF TermsOK, LogOK
  <2> QED
    BY <1>1, <2>1 DEF KeepsLog, Agree
<1>2. ASSUME NEW n \in Server, LeaderAdds(n), log'[p] # log[p] PROVE KeepsLog(p)
  <2>1. p = n /\ Agree(log[n], log'[n], Len(log[n]))
    BY <1>2, AddsFacts
  <2> QED
    BY <2>1 DEF KeepsLog
<1>3. ASSUME NEW c \in appendCalls, Accepts(c), log'[p] # log[p] PROVE KeepsLog(p)
  <2>1. /\ c.term \in DOMAIN termLog /\ currentTerm[c.to] <= c.term
        /\ \A m \in Server \ {c.to} : log'[m] = log[m]
        /\ \A j \in Nat : Agree(log[c.to], termLog[c.term], j)
                             => Agree(log'[c.to], termLog[c.term], j)
    BY <1>3, AcceptFacts
  <2> QED
    BY <1>3, <2>1 DEF KeepsLog
<1> QED
  BY <1>1, <1>2, <1>3, LogMoves

LEMMA NewStores ==
    ASSUME Base, Move, NEW s \in stored', s \notin stored
    PROVE  NewStore(s)
<1> USE DEF Base, Move, Record
<1>1. Extends(termLog', termLog)
  BY TermLogsGrow
<1>2. ASSUME NEW c \in appendCalls, Accepts(c), s.node = c.to, s.term = c.term,
             s.index = c.prevIndex + Len(c.entries)
      PROVE  NewStore(s)
  <2> DEFINE end == c.prevIndex + Len(c.entries)
  <2>1. /\ c.to \in Server /\ c.term \in DOMAIN termLog /\ currentTerm[c.to] <= c.term
        /\ currentTerm' = [currentTerm EXCEPT ![c.to] = c.term]
        /\ Agree(log'[c.to], termLog[c.term], end)
    BY <1>2, AcceptFacts
  <2>2. c.prevIndex \in Nat /\ c.entries \in Seq(Entry) /\ currentTerm \in [Server -> Nat]
    BY <1>2 DEF Accepts, Appends, TypeInv, TrafficTypeOK, CallTyped, ElectionInv, ElectionTypeOK
  <2>3. end \in Nat
    BY <2>2
  <2>4. termLog[c.term] \in Seq(Entry) /\ Agree(termLog[c.term], termLog'[c.term], Len(termLog[c.term]))
    BY <1>1, <2>1 DEF Extends, TermsOK, TermLogsOK, LogOK
  <2> HIDE DEF end
  <2>5. Agree(log'[c.to], termLog'[c.term], end)
    BY <2>1, <2>3, <2>4 DEF Agree
  <2> USE DEF end
  <2>6. currentTerm'[c.to] = c.term
    BY <2>1, <2>2
  <2> QED
    BY <1>2, <2>1, <2>3, <2>5, <2>6 DEF NewStore
<1>3. ASSUME NEW n \in Server, LeaderAdds(n), s.node = n, s.term = currentTerm[n],
             s.index = Len(log'[n])
      PROVE  NewStore(s)
  <2>1. /\ state'[n] = "Leader" /\ currentTerm[n] \in DOMAIN termLog /\ currentTerm' = currentTerm
    BY <1>3, AddsFacts
  <2>2. termLog'[currentTerm[n]] = log'[n] /\ log'[n] \in Seq(Entry)
    <3>1. termLog'[currentTerm'[n]] = log'[n] /\ currentTerm'[n] \in DOMAIN termLog'
      BY <2>1, TermLogStep
    <3>2. LogOK(termLog'[currentTerm'[n]], termLog', currentTerm'[n])
      BY <3>1, TermLogsStayOK DEF TermLogsOK
    <3> QED
      BY <2>1, <3>1, <3>2 DEF LogOK
  <2>3. Len(log'[n]) \in Nat /\ currentTerm[n] \in Nat
    BY <2>2, TermsRise
  <2>4. Agree(log'[n], termLog'[currentTerm[n]], Len(log'[n]))
    BY <2>2, <2>3 DEF Agree
  <2> QED
    BY <1>3, <2>1, <2>3, <2>4 DEF NewStore
<1> QED
  BY <1>2, <1>3, StoredStep

LEMMA StoresOKStep ==
    ASSUME Base, Move
    PROVE  StoresOK'
<1> USE DEF Base, Move, Record
<1> SUFFICES ASSUME NEW s \in stored'
             PROVE  /\ s.node \in Server /\ s.term \in DOMAIN termLog' /\ s.index \in Nat
                    /\ s.index <= Len(termLog'[s.term]) /\ s.term <= currentTerm'[s.node]
  BY DEF StoresOK
<1>1. Extends(termLog', termLog) /\ TermLogsOK(termLog')
  BY TermLogsGrow, TermLogsStayOK
<1>2. CASE s \in stored
  <2>1. /\ s.node \in Server /\ s.term \in DOMAIN termLog /\ s.index \in Nat
        /\ s.index <= Len(termLog[s.term]) /\ s.term <= currentTerm[s.node]
    BY <1>2 DEF StoresOK
  <2>2. s.term \in Nat /\ Len(termLog[s.term]) \in Nat
    BY <2>1, LogTyped DEF TermsOK, TermLogsOK, LogOK
  <2>3. Len(termLog'[s.term]) \in Nat /\ s.term \in DOMAIN termLog'
    BY <1>1, <2>1, LogTyped DEF Extends, TermLogsOK, LogOK
  <2>4. Len(termLog[s.term]) <= Len(termLog'[s.term])
    BY <1>1, <2>1 DEF Extends, Agree
  <2>5. currentTerm[s.node] <= currentTerm'[s.node] /\ currentTerm[s.node] \in Nat
        /\ currentTerm'[s.node] \in Nat
    BY <2>1, TermsRise
  <2> QED
    BY <2>1, <2>2, <2>3, <2>4, <2>5
<1>3. CASE s \notin stored
  <2>1. NewStore(s)
    BY <1>3, NewStores
  <2>2. currentTerm'[s.node] \in Nat /\ s.term \in DOMAIN termLog'
    BY <1>1, <2>1, TermsRise DEF NewStore, Extends
  <2> QED
    BY <2>1, <2>2 DEF NewStore, Agree
<1> QED
  BY <1>2, <1>3

-----------------------------------------------------------------------------
(* What may still be chosen, and who has it. *)

\* What may be chosen after a step could be chosen before it.
LEMMA ChoosableShrinks ==
    ASSUME Base, Move, NEW t \in Nat, NEW k \in Nat, Choosable(stored', currentTerm', t, k)
    PROVE  Choosable(stored, currentTerm, t, k)
<1>1. PICK Q \in SUBSET Server :
        /\ Cardinality(Q) >= Majority
        /\ \A p \in Q : StoredUpTo(stored', p, t, k) \/ currentTerm'[p] <= t
  BY DEF Choosable
<1>2. ASSUME NEW p \in Q PROVE StoredUpTo(stored, p, t, k) \/ currentTerm[p] <= t
  <2>1. p \in Server /\ currentTerm[p] \in Nat /\ currentTerm'[p] \in Nat
        /\ currentTerm[p] <= currentTerm'[p]
    BY TermsRise DEF Base, Move
  <2>2. CASE currentTerm'[p] <= t
    BY <2>1, <2>2
  <2>3. ASSUME NEW s \in stored', s.node = p, s.term = t, s.index >= k
        PROVE  StoredUpTo(stored, p, t, k) \/ currentTerm[p] <= t
    <3>1. CASE s \in stored
      BY <2>3, <3>1 DEF StoredUpTo
    <3>2. CASE s \notin stored
      BY <2>3, <3>2, NewStores DEF NewStore
    <3> QED
      BY <3>1, <3>2
  <2> QED
    BY <1>1, <2>2, <2>3 DEF StoredUpTo
<1> QED
  BY <1>1, <1>2 DEF Choosable

\* Every later leader has an entry that may be chosen, and all before it.
Completeness ==
    \A u, t \in DOMAIN termLog : \A k \in 1..Len(termLog[t]) :
        t < u /\ OwnEntry(termLog, t, k) /\ Choosable(stored, currentTerm, t, k)
            => Agree(termLog[u], termLog[t], k)

\* Whoever has stored an entry that may be chosen still has it.
Persist ==
    \A s \in stored : \A j \in 1..s.index :
        OwnEntry(termLog, s.term, j) /\ Choosable(stored, currentTerm, s.term, j)
            => Agree(log[s.node], termLog[s.term], j)

\* A candidate that counts votes.
Running(m) == pc[m] = "collect" /\ state[m] = "Candidate"

\* It has every entry of an earlier term that may be chosen and that one of its
\* voters has stored.
VotesComplete ==
    \A m, v \in Server : Running(m) /\ Claim(v, m) =>
        \A s \in stored : s.node = v /\ s.term < electionTerm[m] =>
            \A j \in 1..s.index :
                OwnEntry(termLog, s.term, j) /\ Choosable(stored, currentTerm, s.term, j)
                    => Agree(log[m], termLog[s.term], j)

\* A log keeps what leads up to an entry that may be chosen.
LEMMA KeepsChoosable ==
    ASSUME Base, Move, Completeness, NEW p \in Server, NEW t \in DOMAIN termLog,
           t <= currentTerm[p], NEW j \in 1..Len(termLog[t]), OwnEntry(termLog, t, j),
           Choosable(stored, currentTerm, t, j), NEW k \in Nat, k <= j,
           Agree(log[p], termLog[t], k)
    PROVE  Agree(log'[p], termLog[t], k)
<1> USE DEF Base, Move, Record
<1>1. KeepsLog(p)
  BY LogsKept
<1>2. /\ Len(log[p]) \in Nat /\ Len(termLog[t]) \in Nat /\ t \in Nat /\ j \in Nat
      /\ currentTerm[p] \in Nat
  BY LogTyped, TermsRise DEF TermsOK, TermLogsOK, LogOK
<1>3. Len(log'[p]) \in Nat
  BY LogTyped, TermsOKStep DEF TermsOK, LogOK
<1>4. CASE Agree(log[p], log'[p], Len(log[p]))
  <2>1. Agree(termLog[t], log[p], k)
    BY DEF Agree
  <2>2. Agree(termLog[t], log'[p], k)
    BY <1>2, <1>3, <1>4, <2>1, AgreeThrough
  <2> QED
    BY <2>2 DEF Agree
<1>5. ASSUME NEW u \in DOMAIN termLog, currentTerm[p] <= u,
             \A i \in Nat : Agree(log[p], termLog[u], i) => Agree(log'[p], termLog[u], i)
      PROVE  Agree(log'[p], termLog[t], k)
  <2>1. u \in Nat /\ Len(termLog[u]) \in Nat
    BY LogTyped DEF TermsOK, TermLogsOK, LogOK
  <2>2. Agree(termLog[u], termLog[t], k)
    <3>1. CASE t = u
      BY <1>2, <3>1 DEF Agree
    <3>2. CASE t # u
      <4>1. Agree(termLog[u], termLog[t], j)
        BY <1>2, <1>5, <2>1, <3>2 DEF Completeness
      <4> QED
        BY <1>2, <2>1, <4>1 DEF Agree
    <3> QED
      BY <3>1, <3>2
  <2>3. Agree(log[p], termLog[u], k)
    BY <1>2, <2>1, <2>2 DEF Agree
  <2>4. Agree(log'[p], termLog[u], k)
    BY <1>5, <2>3
  <2> QED
    BY <1>2, <1>3, <2>1, <2>2, <2>4 DEF Agree
<1> QED
  BY <1>1, <1>4, <1>5 DEF KeepsLog

\* The logs of the terms keep what they had in common.
LEMMA AgreeGrows ==
    ASSUME NEW a, NEW b, NEW c, NEW d, a \in Seq(Entry), b \in Seq(Entry), c \in Seq(Entry),
           d \in Seq(Entry), NEW k \in Nat, Agree(a, b, k),
           Agree(a, c, Len(a)), Agree(b, d, Len(b))
    PROVE  Agree(c, d, k)
<1>1. Len(a) \in Nat /\ Len(b) \in Nat /\ Len(c) \in Nat /\ Len(d) \in Nat
  OBVIOUS
<1> QED
  BY <1>1 DEF Agree

\* An entry of an old log of a term is the same entry after the step.
LEMMA EntryOld ==
    ASSUME Base, Move, NEW t \in DOMAIN termLog
    PROVE  /\ t \in Nat /\ t \in DOMAIN termLog'
           /\ termLog[t] \in Seq(Entry) /\ Len(termLog[t]) \in Nat
           /\ termLog'[t] \in Seq(Entry) /\ Len(termLog'[t]) \in Nat
           /\ Agree(termLog[t], termLog'[t], Len(termLog[t]))
           /\ \A k \in 1..Len(termLog[t]) :
                 /\ OwnEntry(termLog', t, k) <=> OwnEntry(termLog, t, k)
                 /\ \A lg : Agree(lg, termLog'[t], k) <=> Agree(lg, termLog[t], k)
<1> USE DEF Base, Move, Record
<1>1. t \in DOMAIN termLog' /\ Agree(termLog[t], termLog'[t], Len(termLog[t]))
  BY TermLogsGrow DEF Extends
<1>2. t \in Nat /\ termLog[t] \in Seq(Entry)
  BY DEF TermsOK, TermLogsOK, LogOK
<1>3. termLog'[t] \in Seq(Entry)
  BY <1>1, TermLogsStayOK DEF TermLogsOK, LogOK
<1>4. Len(termLog[t]) \in Nat /\ Len(termLog'[t]) \in Nat
  BY <1>2, <1>3
<1>5. ASSUME NEW k \in 1..Len(termLog[t])
      PROVE  /\ OwnEntry(termLog', t, k) <=> OwnEntry(termLog, t, k)
             /\ \A lg : Agree(lg, termLog'[t], k) <=> Agree(lg, termLog[t], k)
  <2>1. k \in Nat /\ k <= Len(termLog'[t]) /\ \A i \in 1..k : termLog'[t][i] = termLog[t][i]
    BY <1>1, <1>4 DEF Agree
  <2>2. k \in 1..k /\ k \in 1..Len(termLog'[t])
    BY <1>4, <2>1
  <2>3. termLog'[t][k] = termLog[t][k]
    BY <2>1, <2>2
  <2> QED
    BY <1>1, <1>4, <2>1, <2>2, <2>3 DEF OwnEntry, Agree
<1> QED
  BY <1>1, <1>2, <1>3, <1>4, <1>5

\* The facts of a store made before the step.
LEMMA StoreOld ==
    ASSUME Base, NEW s \in stored
    PROVE  /\ s.node \in Server /\ s.term \in DOMAIN termLog /\ s.index \in Nat
           /\ s.index <= Len(termLog[s.term]) /\ s.term <= currentTerm[s.node]
           /\ \A j \in 1..s.index : j \in 1..Len(termLog[s.term])
<1>1. /\ s.node \in Server /\ s.term \in DOMAIN termLog /\ s.index \in Nat
      /\ s.index <= Len(termLog[s.term]) /\ s.term <= currentTerm[s.node]
  BY DEF Base, StoresOK
<1>2. Len(termLog[s.term]) \in Nat
  BY <1>1, LogTyped DEF Base, TermsOK, TermLogsOK, LogOK
<1> QED
  BY <1>1, <1>2

LEMMA PersistStep ==
    ASSUME Base, Move, Completeness, Persist
    PROVE  Persist'
<1> SUFFICES ASSUME NEW s \in stored', NEW j \in 1..s.index,
                    OwnEntry(termLog', s.term, j),
                    Choosable(stored', currentTerm', s.term, j)
             PROVE  Agree(log'[s.node], termLog'[s.term], j)
  BY DEF Persist
<1>1. CASE s \in stored
  <2>1. /\ s.node \in Server /\ s.term \in DOMAIN termLog /\ s.term <= currentTerm[s.node]
        /\ j \in 1..Len(termLog[s.term]) /\ j \in Nat
    BY <1>1, StoreOld
  <2>2. s.term \in Nat /\ OwnEntry(termLog, s.term, j)
    BY <2>1, EntryOld
  <2>3. Choosable(stored, currentTerm, s.term, j)
    BY <2>1, <2>2, ChoosableShrinks
  <2>4. Agree(log[s.node], termLog[s.term], j)
    BY <1>1, <2>2, <2>3 DEF Persist
  <2>5. Agree(log'[s.node], termLog[s.term], j)
    BY <2>1, <2>2, <2>3, <2>4, KeepsChoosable
  <2> QED
    BY <2>1, <2>5, EntryOld
<1>2. CASE s \notin stored
  <2>1. NewStore(s)
    BY <1>2, NewStores
  <2> QED
    BY <2>1 DEF NewStore, Agree
<1> QED
  BY <1>1, <1>2

-----------------------------------------------------------------------------
(* Every later leader has what may be chosen. *)

\* Whoever wins counted votes as a candidate.
LEMMA WinsRunning ==
    ASSUME ElectionInv, NEW m \in Server, Wins(m)
    PROVE  Running(m)
<1>1. state \in [Server -> Role] /\ pc[m] = "collect" /\ state[m] # "Leader"
  BY DEF ElectionInv, ElectionTypeOK, LeaderElected, Wins
<1>2. state'[m] = "Leader"
  BY <1>1 DEF Wins, BecomeLeader
<1>3. PICK r \in voteReplies : ReceiveVoteReply(m, r)
  BY DEF Wins
<1>4. CASE StepDown(m, r.term)
  BY <1>1, <1>2, <1>4 DEF StepDown
<1>5. CASE state' = state
  BY <1>1, <1>2, <1>5
<1>6. CASE CountVote(m, r) # votes[m]
  BY <1>1, <1>6 DEF CountVote, Running
<1> QED
  BY <1>3, <1>4, <1>5, <1>6 DEF ReceiveVoteReply

\* A majority has reached every term that has a log after the step.
LEMMA TermsMajority ==
    ASSUME Base, Move, NEW u \in DOMAIN termLog'
    PROVE  \E Q \in SUBSET Server :
              /\ Cardinality(Q) >= Majority
              /\ \A v \in Q : currentTerm[v] >= u
              /\ u \in DOMAIN termLog \/ \E m \in Server :
                    /\ Wins(m) /\ u = electionTerm[m] /\ termLog'[u] = log[m]
                    /\ \A v \in Q : Claim(v, m)
<1> USE DEF Base, Move, Record
<1>1. currentTerm \in [Server -> Nat] /\ electionTerm \in [Server -> Nat]
  BY DEF TypeInv, ElectionInv, ElectionTypeOK
<1>2. CASE u \in DOMAIN termLog
  <2>1. TermClosed(u) /\ u \in Nat
    BY <1>2 DEF TermsOK, TermLogsOK
  <2>2. PICK Q \in SUBSET Server : /\ Cardinality(Q) >= Majority
                                   /\ \A v \in Q : currentTerm[v] > u \/ currentTerm[v] = u
    BY <2>1 DEF TermClosed
  <2> QED
    BY <1>1, <1>2, <2>1, <2>2
<1>3. CASE u \notin DOMAIN termLog
  <2>1. PICK m \in Server : Wins(m) /\ u = currentTerm[m] /\ termLog'[u] = log[m]
    BY <1>3, TermLogStep
  <2>2. electionTerm[m] = currentTerm[m]
    BY <2>1 DEF Wins
  <2>3. PICK Q \in SUBSET Server : Cardinality(Q) >= Majority /\ \A v \in Q : Claim(v, m)
    BY <2>1 DEF Wins
  <2>4. \A v \in Q : currentTerm[v] > electionTerm[m] \/ currentTerm[v] = electionTerm[m]
    BY <2>3 DEF TypeInv, ElectionInv, VotesBind
  <2> QED
    BY <1>1, <2>1, <2>2, <2>3, <2>4
<1> QED
  BY <1>2, <1>3

LEMMA CompletenessStep ==
    ASSUME Base, Move, Completeness, VotesComplete
    PROVE  Completeness'
<1> SUFFICES ASSUME NEW u \in DOMAIN termLog', NEW t \in DOMAIN termLog',
                    NEW k \in 1..Len(termLog'[t]), t < u, OwnEntry(termLog', t, k),
                    Choosable(stored', currentTerm', t, k)
             PROVE  Agree(termLog'[u], termLog'[t], k)
  BY DEF Completeness
<1>1. t \in Nat /\ u \in Nat /\ k \in Nat
  BY TermLogsStayOK DEF Base, Move, Record, TermLogsOK
<1>2. Choosable(stored, currentTerm, t, k)
  BY <1>1, ChoosableShrinks
<1>3. PICK P \in SUBSET Server :
        /\ Cardinality(P) >= Majority
        /\ \A p \in P : StoredUpTo(stored, p, t, k) \/ currentTerm[p] <= t
  BY <1>2 DEF Choosable
<1>4. PICK Q \in SUBSET Server :
        /\ Cardinality(Q) >= Majority
        /\ \A v \in Q : currentTerm[v] >= u
        /\ u \in DOMAIN termLog \/ \E m \in Server :
              /\ Wins(m) /\ u = electionTerm[m] /\ termLog'[u] = log[m]
              /\ \A v \in Q : Claim(v, m)
  BY TermsMajority
<1>5. PICK v \in Server : v \in P /\ v \in Q
  BY <1>3, <1>4, MajoritiesMeet
<1>6. PICK s \in stored : s.node = v /\ s.term = t /\ s.index >= k
  <2>1. currentTerm[v] \in Nat
    BY TermsRise DEF Base, Move
  <2> QED
    BY <1>1, <1>3, <1>4, <1>5, <2>1 DEF StoredUpTo
<1>7. /\ t \in DOMAIN termLog /\ k \in 1..s.index /\ k \in 1..Len(termLog[t])
  <2>1. s.term \in DOMAIN termLog /\ s.index \in Nat
        /\ \A j \in 1..s.index : j \in 1..Len(termLog[s.term])
    BY StoreOld
  <2> QED
    BY <1>1, <1>6, <2>1
<1>8. OwnEntry(termLog, t, k)
  BY <1>7, EntryOld
<1>9. CASE u \in DOMAIN termLog
  <2>1. Agree(termLog[u], termLog[t], k)
    BY <1>2, <1>7, <1>8, <1>9 DEF Completeness
  <2> QED
    BY <1>1, <1>7, <1>9, <2>1, EntryOld, AgreeGrows
<1>10. ASSUME NEW m \in Server, Wins(m), u = electionTerm[m], termLog'[u] = log[m],
              \A w \in Q : Claim(w, m)
       PROVE  Agree(termLog'[u], termLog'[t], k)
  <2>1. Running(m) /\ Claim(v, m)
    BY <1>5, <1>10, WinsRunning DEF Base, TypeInv
  <2>2. Agree(log[m], termLog[s.term], k)
    BY <1>2, <1>6, <1>7, <1>8, <1>10, <2>1 DEF VotesComplete
  <2>3. Agree(log[m], termLog'[t], k)
    BY <1>6, <1>7, <2>2, EntryOld
  <2> QED
    BY <1>10, <2>3
<1> QED
  BY <1>4, <1>9, <1>10

-----------------------------------------------------------------------------
(* Candidates have what their voters have. *)

\* The term at the end of a log that has not been compacted.
EndTerm(lg) == IF lg = <<>> THEN 0 ELSE lg[Len(lg)].term

\* A request for votes tells what the log of its candidate holds, as long as the
\* candidate counts the votes it asks for.
VoteCallsOK ==
    \A c \in voteCalls :
        /\ c.term <= electionTerm[c.from]
        /\ Running(c.from) /\ electionTerm[c.from] = c.term =>
              c.lastLogIndex = Len(log[c.from]) /\ c.lastLogTerm = EndTerm(log[c.from])

\* v grants its vote to m in answer to c.
Grants(c, v, m) ==
    /\ c \in voteCalls /\ HandleRequestVote(c) /\ VoteGranted(v, c)
    /\ c.to = v /\ c.from = m /\ electionTerm[m] = c.term

\* How candidates, their voters and their requests move.
CandidatesMove ==
    /\ \A m \in Server : Running(m)' =>
          StartElection(m) \/ (Running(m) /\ electionTerm'[m] = electionTerm[m])
    /\ \A m, v \in Server : Running(m)' /\ Claim(v, m)' =>
          \/ StartElection(m) /\ v = m
          \/ Running(m) /\ (Claim(v, m) \/ \E c \in voteCalls : Grants(c, v, m))
    /\ \A c \in voteCalls' :
          \/ c \in voteCalls
          \/ /\ c.from \in Server /\ StartElection(c.from)
             /\ c.term = currentTerm[c.from] + 1
             /\ c.lastLogIndex = LastIndex(c.from) /\ c.lastLogTerm = LastTerm(c.from)

LEMMA CandidatesStep ==
    ASSUME ElectionInv, Next
    PROVE  CandidatesMove
<1>1. /\ state \in [Server -> Role] /\ pc \in [Server -> Loop]
      /\ votes \in [Server -> SUBSET Server] /\ electionTerm \in [Server -> Nat]
      /\ currentTerm \in [Server -> Nat]
  BY DEF ElectionInv, ElectionTypeOK
<1>2. ASSUME electionTerm' = electionTerm, voteCalls' \subseteq voteCalls,
             \A m \in Server : Running(m)' => Running(m),
             \A m, v \in Server : Claim(v, m)' => Claim(v, m)
      PROVE  CandidatesMove
  BY <1>2 DEF CandidatesMove
<1>3. ASSUME NEW n \in Server, Quiet(n) \/ \E t \in Nat : Learn(n, t)
      PROVE  CandidatesMove
  <2>1. \A v, m \in Server : Claim(v, m)' => Claim(v, m)
    BY <1>3 DEF Claim, Quiet, Learn
  <2>2. \A m \in Server : Running(m)' => Running(m)
    BY <1>1, <1>3 DEF Running, Quiet, Learn
  <2> QED
    BY <1>2, <1>3, <2>1, <2>2 DEF Quiet, Learn
<1>4. CASE \E n \in Server : MainLoop(n) \/ Client(n)
  <2>1. PICK n \in Server : MainLoop(n) \/ Client(n)
    BY <1>4
  <2>2. CASE ElectionTimeout(n)
    <3>1. \A v, m \in Server : Claim(v, m)' => Claim(v, m)
      BY <2>2 DEF ElectionTimeout, Claim, voteVars
    <3>2. \A m \in Server : Running(m)' => Running(m)
      BY <1>1, <2>2 DEF ElectionTimeout, Running
    <3> QED
      BY <1>2, <2>2, <3>1, <3>2 DEF ElectionTimeout, voteVars
  <2>3. CASE StartElection(n)
    <3>1. \A v \in Server : Claim(v, n)' => v = n
      BY <1>1, <2>3 DEF StartElection, Claim, ElectionInv, RepliesCurrent
    <3>2. \A v, m \in Server : m # n /\ Claim(v, m)' => Claim(v, m)
      BY <1>1, <2>3 DEF StartElection, Claim
    <3>3. \A m \in Server : Running(m)' =>
             m = n \/ (Running(m) /\ electionTerm'[m] = electionTerm[m])
      BY <1>1, <2>3 DEF StartElection, Running
    <3>4. ASSUME NEW c \in voteCalls', c \notin voteCalls
          PROVE  /\ c.from = n /\ c.term = currentTerm[n] + 1
                 /\ c.lastLogIndex = LastIndex(n) /\ c.lastLogTerm = LastTerm(n)
      BY <2>3, <3>4 DEF StartElection
    <3> QED
      BY <2>3, <3>1, <3>2, <3>3, <3>4 DEF CandidatesMove
  <2>4. ASSUME NEW r \in voteReplies, ReceiveVoteReply(n, r)
        PROVE  CandidatesMove
    <3>1. \A v, m \in Server : Claim(v, m)' => Claim(v, m)
      <4>1. voteReplies' \subseteq voteReplies
        BY <2>4 DEF ReceiveVoteReply, LeaveElection
      <4>2. \A m \in Server : votes'[m] = votes[m] \/ (m = n /\ votes'[m] = CountVote(n, r))
        BY <1>1, <2>4 DEF ReceiveVoteReply
      <4>3. r.to = n
        BY <2>4 DEF ReceiveVoteReply
      <4> QED
        BY <4>1, <4>2, <4>3 DEF Claim, CountVote
    <3>2. \A m \in Server : Running(m)' => Running(m)
      <4>1. pc' = pc \/ pc' = [pc EXCEPT ![n] = "top"]
        BY <2>4 DEF ReceiveVoteReply, LeaveElection
      <4>2. \/ state' = state \/ state' = [state EXCEPT ![n] = "Follower"]
            \/ state' = [state EXCEPT ![n] = "Leader"]
        BY <2>4 DEF ReceiveVoteReply, StepDown, BecomeLeader
      <4> QED
        BY <1>1, <4>1, <4>2 DEF Running
    <3> QED
      BY <1>2, <2>4, <3>1, <3>2 DEF ReceiveVoteReply
  <2> QED
    BY <1>3, <2>1, <2>2, <2>3, <2>4, MainLoopKind
<1>5. CASE \E c \in voteCalls : HandleRequestVote(c)
  <2>1. PICK c \in voteCalls : HandleRequestVote(c)
    BY <1>5
  <2>2. /\ electionTerm' = electionTerm /\ voteCalls' \subseteq voteCalls /\ pc' = pc
        /\ votes' = votes
    BY <2>1 DEF HandleRequestVote, loopVars
  <2>3. \A m \in Server : Running(m)' => Running(m)
    <3>1. state' = state \/ state' = [state EXCEPT ![c.to] = "Follower"]
      BY <2>1 DEF HandleRequestVote
    <3> QED
      BY <1>1, <2>2, <3>1 DEF Running
  <2>4. ASSUME NEW m \in Server, NEW v \in Server, Claim(v, m)'
        PROVE  Claim(v, m) \/ Grants(c, v, m)
    <3>1. CASE v \in votes'[m]
      BY <2>2, <3>1 DEF Claim
    <3>2. ASSUME NEW r \in voteReplies', r.to = m, r.from = v, r.granted
          PROVE  Claim(v, m) \/ Grants(c, v, m)
      <4>1. CASE r \in voteReplies
        BY <3>2, <4>1 DEF Claim
      <4>2. CASE r \notin voteReplies
        <5>1. /\ electionTerm[c.from] = c.term
              /\ r = [from |-> c.to, to |-> c.from, election |-> c.term,
                      term |-> currentTerm[c.to], granted |-> VoteGranted(c.to, c)]
          BY <2>1, <4>2 DEF HandleRequestVote
        <5> QED
          BY <2>1, <3>2, <5>1 DEF Grants
      <4> QED
        BY <4>1, <4>2
    <3> QED
      BY <2>4, <3>1, <3>2 DEF Claim
  <2> QED
    BY <2>2, <2>3, <2>4 DEF CandidatesMove
<1>6. CASE \E c \in appendCalls : AppendGoroutine(c)
  BY <1>3, <1>6, AppendGoroutineKind
<1> QED
  BY <1>4, <1>5, <1>6 DEF Next

\* A candidate that counts votes leaves its log alone.
LEMMA RunningKeepsLog ==
    ASSUME Base, Move, NEW m \in Server, Running(m)'
    PROVE  log'[m] = log[m]
<1> USE DEF Base, Move
<1>1. state'[m] = "Candidate"
  BY DEF Running
<1>2. ASSUME NEW n \in Server, LeaderAdds(n) PROVE log'[m] = log[m]
  BY <1>1, <1>2, AddsFacts
<1>3. ASSUME NEW c \in appendCalls, Accepts(c) PROVE log'[m] = log[m]
  <2>1. c.to \in Server /\ \A n \in Server \ {c.to} : log'[n] = log[n]
    BY <1>3, AcceptFacts
  <2>2. m # c.to
    BY <1>1, <1>3, <2>1 DEF Accepts, TypeInv, ElectionInv, ElectionTypeOK
  <2> QED
    BY <2>1, <2>2
<1> QED
  BY <1>2, <1>3, LogMoves

LEMMA VoteCallsStep ==
    ASSUME Base, Move, VoteCallsOK
    PROVE  VoteCallsOK'
<1> USE DEF Base, Move
<1>1. ElectionInv /\ ElectionInv' /\ CandidatesMove /\ ElectionMoves
  BY TypeInvNext, CandidatesStep, NextMovesElections DEF TypeInv
<1> SUFFICES ASSUME NEW c \in voteCalls'
             PROVE  /\ c.term <= electionTerm'[c.from]
                    /\ Running(c.from)' /\ electionTerm'[c.from] = c.term =>
                          c.lastLogIndex = Len(log'[c.from])
                          /\ c.lastLogTerm = EndTerm(log'[c.from])
  BY DEF VoteCallsOK, Running
<1> DEFINE m == c.from
<1>2. /\ m \in Server /\ c.term \in Nat /\ electionTerm[m] \in Nat /\ electionTerm'[m] \in Nat
      /\ currentTerm[m] \in Nat /\ electionTerm[m] <= currentTerm[m]
  BY <1>1 DEF ElectionInv, ElectionTypeOK, ElectionTermPast
<1>3. StartElection(m) => electionTerm'[m] = currentTerm[m] + 1 /\ log'[m] = log[m]
  BY <1>1, <1>2 DEF StartElection, ElectionInv, ElectionTypeOK, logVars
<1>4. CASE c \in voteCalls
  <2>1. c.term <= electionTerm'[m]
    BY <1>1, <1>2, <1>4 DEF VoteCallsOK, ElectionMoves
  <2>2. ASSUME Running(m)', electionTerm'[m] = c.term
        PROVE  c.lastLogIndex = Len(log'[m]) /\ c.lastLogTerm = EndTerm(log'[m])
    <3>1. c.term <= electionTerm[m]
      BY <1>4 DEF VoteCallsOK
    <3>2. ~StartElection(m)
      BY <1>2, <1>3, <2>2, <3>1
    <3>3. Running(m) /\ electionTerm[m] = c.term
      BY <1>1, <1>2, <2>2, <3>2 DEF CandidatesMove
    <3>4. log'[m] = log[m]
      BY <1>2, <2>2, RunningKeepsLog
    <3> QED
      BY <1>4, <3>3, <3>4 DEF VoteCallsOK
  <2> QED
    BY <2>1, <2>2
<1>5. CASE c \notin voteCalls
  <2>1. /\ StartElection(m) /\ c.term = currentTerm[m] + 1
        /\ c.lastLogIndex = LastIndex(m) /\ c.lastLogTerm = LastTerm(m)
    BY <1>1, <1>5 DEF CandidatesMove
  <2>2. snapshot[m].index = 0 /\ snapshot[m].term = 0
    BY <1>2 DEF NothingCompacted, NoSnapshot
  <2>3. LastIndex(m) = Len(log[m]) /\ LastTerm(m) = EndTerm(log[m])
    <3>1. Len(log[m]) \in Nat
      BY <1>2, LogTyped DEF TermsOK, LogOK
    <3> QED
      BY <2>2, <3>1 DEF LastIndex, LastTerm, EndTerm
  <2> QED
    BY <1>2, <1>3, <2>1, <2>3
<1> QED
  BY <1>4, <1>5

\* A vote is granted to a candidate that has what the voter has.
LEMMA GrantedComplete ==
    ASSUME Base, Completeness, Persist, VoteCallsOK, NEW m \in Server, Running(m),
           NEW v \in Server, NEW c, Grants(c, v, m), NEW s \in stored, s.node = v,
           NEW j \in 1..s.index, OwnEntry(termLog, s.term, j),
           Choosable(stored, currentTerm, s.term, j)
    PROVE  Agree(log[m], termLog[s.term], j)
<1> USE DEF Base
<1>1. /\ s.term \in DOMAIN termLog /\ j \in 1..Len(termLog[s.term]) /\ j \in Nat
  BY StoreOld
<1>2. Agree(log[v], termLog[s.term], j)
  BY DEF Persist
<1>3. c.lastLogIndex = Len(log[m]) /\ c.lastLogTerm = EndTerm(log[m])
  BY DEF VoteCallsOK, Grants
<1>4. /\ LogOK(log[m], termLog, currentTerm[m]) /\ LogOK(log[v], termLog, currentTerm[v])
      /\ TermLogsOK(termLog) /\ currentTerm[m] \in Nat /\ currentTerm[v] \in Nat
      /\ log[m] \in Seq(Entry) /\ log[v] \in Seq(Entry)
  BY DEF TermsOK, LogOK, TypeInv, ElectionInv, ElectionTypeOK
<1>5. Len(log[m]) \in Nat /\ Len(log[v]) \in Nat
  BY <1>4
<1>6. Len(log[v]) \in 1..Len(log[v]) /\ log[v] # <<>>
  BY <1>1, <1>2, <1>4, <1>5 DEF Agree
<1>7. log[v][Len(log[v])].term > 0
  BY <1>4, <1>6 DEF LogOK, TermLogsOK
<1>8. LastIndex(v) = Len(log[v]) /\ LastTerm(v) = log[v][Len(log[v])].term
  <2>1. snapshot[v].index = 0
    BY DEF NothingCompacted, NoSnapshot
  <2> QED
    BY <1>5, <1>6, <2>1 DEF LastIndex, LastTerm
<1>9. \/ c.lastLogTerm > LastTerm(v)
      \/ c.lastLogTerm = LastTerm(v) /\ c.lastLogIndex >= LastIndex(v)
  BY DEF Grants, VoteGranted
<1>10. log[m] # <<>>
  <2>1. log[v][Len(log[v])].term \in Nat
    BY <1>4, <1>6 DEF LogOK, TermLogsOK
  <2> QED
    BY <1>3, <1>7, <1>8, <1>9, <2>1 DEF EndTerm
<1>11. \/ log[m][Len(log[m])].term > log[v][Len(log[v])].term
       \/ log[m][Len(log[m])].term = log[v][Len(log[v])].term /\ Len(log[m]) >= Len(log[v])
  BY <1>3, <1>8, <1>9, <1>10 DEF EndTerm
<1>12. \A w \in DOMAIN termLog : s.term < w => Agree(termLog[w], termLog[s.term], j)
  BY <1>1 DEF Completeness
<1>13. termLog[s.term][j].term = s.term
  BY DEF OwnEntry
<1> QED
  BY <1>1, <1>2, <1>4, <1>10, <1>11, <1>12, <1>13, UpToDate

LEMMA VotesCompleteStep ==
    ASSUME Base, Move, Completeness, Persist, VotesComplete, VoteCallsOK
    PROVE  VotesComplete'
<1> USE DEF Base, Move
<1>1. ElectionInv /\ ElectionInv' /\ CandidatesMove
  BY TypeInvNext, CandidatesStep DEF TypeInv
<1> SUFFICES ASSUME NEW m \in Server, NEW v \in Server, Running(m)', Claim(v, m)',
                    NEW s \in stored', s.node = v, s.term < electionTerm'[m],
                    NEW j \in 1..s.index, OwnEntry(termLog', s.term, j),
                    Choosable(stored', currentTerm', s.term, j)
             PROVE  Agree(log'[m], termLog'[s.term], j)
  BY DEF VotesComplete, Running, Claim
<1>2. /\ electionTerm[m] \in Nat /\ electionTerm'[m] \in Nat /\ currentTerm[m] \in Nat
      /\ currentTerm'[v] \in Nat /\ electionTerm[m] <= currentTerm[m]
  BY <1>1 DEF ElectionInv, ElectionTypeOK, ElectionTermPast
<1>3. s \in stored
  <2> SUFFICES ASSUME s \notin stored PROVE FALSE
    OBVIOUS
  <2>1. s.term = currentTerm'[v]
    BY NewStores DEF NewStore
  <2>2. currentTerm'[v] > electionTerm'[m] \/ currentTerm'[v] = electionTerm'[m]
    <3>1. VotesBind'
      BY <1>1 DEF ElectionInv
    <3> QED
      BY <3>1 DEF VotesBind, Claim
  <2> QED
    BY <1>2, <2>1, <2>2
<1>4. /\ s.term \in DOMAIN termLog /\ j \in 1..Len(termLog[s.term]) /\ j \in Nat
      /\ s.term \in Nat /\ s.term <= currentTerm[v]
  BY <1>3, StoreOld, EntryOld
<1>5. OwnEntry(termLog, s.term, j) /\ Choosable(stored, currentTerm, s.term, j)
  BY <1>4, EntryOld, ChoosableShrinks
<1>6. log'[m] = log[m]
  BY RunningKeepsLog
<1>7. CASE StartElection(m) /\ v = m
  BY <1>3, <1>4, <1>5, <1>6, <1>7, EntryOld DEF Persist
<1>8. CASE Running(m) /\ (Claim(v, m) \/ \E c \in voteCalls : Grants(c, v, m)) /\ ~StartElection(m)
  <2>1. electionTerm'[m] = electionTerm[m]
    BY <1>1, <1>8 DEF CandidatesMove
  <2>2. CASE Claim(v, m)
    <3>1. Agree(log[m], termLog[s.term], j)
      BY <1>3, <1>5, <1>8, <2>1, <2>2 DEF VotesComplete
    <3> QED
      BY <1>4, <1>6, <3>1, EntryOld
  <2>3. ASSUME NEW c \in voteCalls, Grants(c, v, m)
        PROVE  Agree(log'[m], termLog'[s.term], j)
    <3>1. Agree(log[m], termLog[s.term], j)
      BY <1>3, <1>5, <1>8, <2>3, GrantedComplete
    <3> QED
      BY <1>4, <1>6, <3>1, EntryOld
  <2> QED
    BY <1>8, <2>2, <2>3
<1>9. Running(m) => pc[m] = "collect"
  BY DEF Running
<1>10. StartElection(m) => ~Running(m)
  BY <1>9 DEF StartElection
<1> QED
  BY <1>1, <1>7, <1>8, <1>10 DEF CandidatesMove

-----------------------------------------------------------------------------
(* What leaders know of their followers. *)

\* The step in which a leader counts a reply to advance its commit index.
Counts(c) ==
    LET n == c.from IN
    /\ ReceiveAppendReply(c) /\ state[n] = "Leader"
    /\ UNCHANGED <<electionVars, log>>
    /\ NewCommitIndex(n, matchIndex'[n]) > commitIndex[n]
    /\ CommitAndApply(n, log[n], 0, NewCommitIndex(n, matchIndex'[n]))

\* The step in which a follower takes over the commit index of call c.
Follows(c) ==
    /\ Accepts(c) /\ c.commit > commitIndex[c.to]
    /\ CommitAndApply(c.to, log'[c.to], 0, c.commit)

\* What an accepted call commits is in the log afterwards.
LEMMA AcceptCommits ==
    ASSUME Base, Move, NEW c \in appendCalls, Accepts(c)
    PROVE  UNCHANGED applyVars \/ Follows(c)
<1> USE DEF Base, Move
<1> DEFINE n == c.to
           new == StoreEntries(log[n], AppendAt(n, c), c.entries)
           end == c.prevIndex + Len(c.entries)
<1>1. /\ n \in Server /\ c.term \in DOMAIN termLog /\ Carries(c, termLog, stored)
      /\ Agree(log'[n], termLog[c.term], end) /\ LogOK(log'[n], termLog, c.term)
  BY AcceptFacts
<1>2. /\ c.commit \in Nat /\ c.prevIndex \in Nat /\ c.entries \in Seq(Entry)
      /\ log \in [Server -> Seq(Entry)]
  BY DEF Accepts, Appends, TypeInv, TrafficTypeOK, CallTyped, StoreTypeOK
<1>3. snapshot[n].index = 0
  BY <1>1 DEF NothingCompacted, NoSnapshot
<1>4. /\ log' = [log EXCEPT ![n] = new]
      /\ IF CommitAdvances(n, c)
         THEN CommitAndApply(n, new, snapshot[n].index,
                             Min({c.commit, snapshot[n].index + Len(new)}))
         ELSE UNCHANGED applyVars
  BY DEF Accepts, AcceptEntries
<1>5. log'[n] = new
  BY <1>1, <1>2, <1>4
<1> HIDE DEF new
<1>6. Len(log'[n]) \in Nat /\ end \in Nat /\ c.commit <= end /\ end <= Len(log'[n])
  <2>1. Len(log'[n]) \in Nat
    BY <1>1, LogTyped DEF LogOK
  <2> QED
    BY <1>1, <1>2, <2>1 DEF Carries, Agree
<1>7. Min({c.commit, 0 + Len(log'[n])}) = c.commit
  <2>1. 0 + Len(log'[n]) \in Int /\ c.commit \in Int /\ c.commit <= 0 + Len(log'[n])
    BY <1>2, <1>6
  <2> QED
    BY <2>1, MinOfTwo
<1> QED
  BY <1>3, <1>4, <1>5, <1>7 DEF CommitAdvances, Follows

\* Until something is compacted, nothing else is applied.
LEMMA CommitStep ==
    ASSUME Base, Move, NoInstalls
    PROVE  UNCHANGED applyVars \/ \E c \in appendCalls : Follows(c) \/ Counts(c)
<1> USE DEF Base, Move
<1>1. CASE \E n \in Server : MainLoop(n) \/ Client(n)
  BY <1>1 DEF MainLoop, Client, Dispatch, ElectionTimeout, StartElection, CandidateTimeout,
     ReceiveVoteReply, Broadcast, LeaderTick, LeaderCommand, Exit, Stop, Submit
<1>2. CASE \E c \in voteCalls : HandleRequestVote(c)
  BY <1>2 DEF HandleRequestVote
<1>3. ASSUME NEW c \in appendCalls, AppendGoroutine(c)
      PROVE  UNCHANGED applyVars \/ Follows(c) \/ Counts(c)
  <2>1. CASE AbandonCall(c) \/ SendInstallSnapshot(c) \/ SendAppendEntries(c)
               \/ ReceiveInstallReply(c)
    BY <2>1 DEF AbandonCall, SendInstallSnapshot, SendAppendEntries, ReceiveInstallReply
  <2>2. ~HandleInstallSnapshot(c)
    BY DEF NoInstalls, HandleInstallSnapshot
  <2>3. CASE HandleAppendEntries(c)
    <3>1. UNCHANGED applyVars \/ Accepts(c)
      BY <2>3 DEF HandleAppendEntries, RefuseAppend, FollowAppend, RejectEntries, Accepts, Appends
    <3> QED
      BY <3>1, AcceptCommits
  <2>4. CASE ReceiveAppendReply(c)
    <3> DEFINE n == c.from
               m == [matchIndex[n] EXCEPT ![c.to] = Max({@, c.match})]
    <3>1. n \in Server /\ matchIndex \in [Server -> [Server -> Nat]] /\ commitIndex[n] \in Nat
      BY DEF TypeInv, TrafficTypeOK, CallTyped, StoreTypeOK
    <3>2. snapshot[n].index = 0 /\ snapshot'[n].index = 0
      BY <3>1 DEF NothingCompacted, NoSnapshot
    <3>3. \/ UNCHANGED applyVars
          \/ /\ UNCHANGED electionVars /\ state[n] = "Leader"
             /\ matchIndex' = [matchIndex EXCEPT ![n] = m]
             /\ NewCommitIndex(n, m) > commitIndex[n]
             /\ CommitAndApply(n, log[n], snapshot[n].index, NewCommitIndex(n, m))
             /\ MaybeSnapshot(n, NewCommitIndex(n, m))
      BY <2>4 DEF ReceiveAppendReply, UseAppendReply, RecordMatch, RollBack
    <3> HIDE DEF m
    <3>4. ASSUME MaybeSnapshot(n, NewCommitIndex(n, m)), NewCommitIndex(n, m) > commitIndex[n]
          PROVE  log' = log
      <4> SUFFICES ASSUME ~(UNCHANGED logVars) PROVE FALSE
        BY DEF logVars
      <4>1. snapshot'[n].index = NewCommitIndex(n, m)
        BY <3>1, <3>4 DEF MaybeSnapshot, TypeInv, StoreTypeOK
      <4> QED
        BY <3>1, <3>2, <3>4, <4>1
    <3>5. matchIndex' = [matchIndex EXCEPT ![n] = m] => matchIndex'[n] = m
      BY <3>1
    <3> QED
      BY <2>4, <3>2, <3>3, <3>4, <3>5 DEF Counts
  <2> QED
    BY <1>3, <2>1, <2>2, <2>3, <2>4 DEF AppendGoroutine
<1> QED
  BY <1>1, <1>2, <1>3 DEF Next

\* The index advanceCommitIndex arrives at.
LEMMA NewCommitFacts ==
    ASSUME StoreTypeOK, NEW n \in Server, snapshot[n].index = 0, NEW match, NEW i,
           i = NewCommitIndex(n, match), i > commitIndex[n]
    PROVE  /\ i \in 1..Len(log[n]) /\ log[n][i].term = currentTerm[n]
           /\ Cardinality(Replicated(n, match, i)) + 1 >= Majority
<1> DEFINE ok == {k \in (commitIndex[n] + 1)..LastIndex(n) :
                    /\ k > snapshot[n].index
                    /\ log[n][k - snapshot[n].index].term = currentTerm[n]
                    /\ Cardinality(Replicated(n, match, k)) + 1 >= Majority}
<1>1. /\ commitIndex[n] \in Nat /\ LastIndex(n) \in Nat /\ LastIndex(n) = Len(log[n])
  BY LastLogInfo DEF StoreTypeOK, LastIndex
<1>2. i = IF ok = {} THEN commitIndex[n] ELSE Max(ok)
  BY DEF NewCommitIndex
<1>3. /\ ok \in SUBSET Int /\ \A y \in ok : y <= LastIndex(n)
      /\ \A k \in ok : /\ k \in 1..Len(log[n]) /\ k - snapshot[n].index = k
                       /\ log[n][k - snapshot[n].index].term = currentTerm[n]
                       /\ Cardinality(Replicated(n, match, k)) + 1 >= Majority
  BY <1>1
<1> HIDE DEF ok
<1>4. ok # {}
  BY <1>1, <1>2
<1>5. Max(ok) \in ok
  BY <1>1, <1>3, <1>4, MaxOfBounded
<1> QED
  BY <1>2, <1>3, <1>4, <1>5

\* Commit indices do not go back.
LEMMA CommitsRise ==
    ASSUME Base, Move, NoInstalls, NEW n \in Server
    PROVE  commitIndex[n] \in Nat /\ commitIndex'[n] \in Nat /\ commitIndex'[n] >= commitIndex[n]
<1> USE DEF Base, Move
<1>1. commitIndex \in [Server -> Nat] /\ commitIndex' \in [Server -> Nat]
  BY TypeInvNext DEF TypeInv, StoreTypeOK
<1>2. \A c \in appendCalls : c.from \in Server /\ c.to \in Server
  BY DEF TypeInv, TrafficTypeOK, CallTyped, Peers
<1>3. \/ commitIndex' = commitIndex
      \/ \E m \in Server : \E k : k > commitIndex[m] /\ commitIndex' = [commitIndex EXCEPT ![m] = k]
  BY <1>2, CommitStep DEF Follows, Counts, CommitAndApply, applyVars
<1> QED
  BY <1>1, <1>3

\* How a call comes to be.
NewCall(c) ==
    \/ /\ c.stage = "spawned" /\ c.term = currentTerm[c.from]
       /\ c.commit = commitIndex[c.from] /\ UNCHANGED <<applyVars, electionVars>>
    \/ /\ c.stage = "append"
       /\ \E d \in appendCalls :
             /\ SendAppendEntries(d) /\ d.stage = "spawned"
             /\ c.from = d.from /\ c.to = d.to /\ c.term = d.term /\ c.commit = d.commit
    \/ /\ c.stage = "appended"
       /\ \E d \in appendCalls :
             /\ c.from = d.from /\ c.to = d.to /\ d.stage = "append"
             /\ c.success => d \in Accepted /\ c.match = d.prevIndex + Len(d.entries)

LEMMA NewCalls ==
    ASSUME Base, Move, NoInstalls, NEW c \in appendCalls', c \notin appendCalls
    PROVE  NewCall(c)
<1> USE DEF Base, Move
<1>1. CASE \E n \in Server : MainLoop(n) \/ Client(n)
  <2>1. PICK n \in Server : MainLoop(n) \/ Client(n)
    BY <1>1
  <2>2. CASE Broadcast(n)
    BY <2>2 DEF Broadcast, NewCall
  <2>3. CASE ~Broadcast(n)
    BY <2>1, <2>3 DEF MainLoop, Client, Dispatch, ElectionTimeout, StartElection,
       CandidateTimeout, ReceiveVoteReply, LeaderTick, LeaderCommand, Exit, Stop, Submit, callVars
  <2> QED
    BY <2>2, <2>3
<1>2. CASE \E d \in voteCalls : HandleRequestVote(d)
  BY <1>2 DEF HandleRequestVote, callVars
<1>3. ASSUME NEW d \in appendCalls, AppendGoroutine(d) PROVE NewCall(c)
  <2>1. CASE AbandonCall(d) \/ ReceiveAppendReply(d) \/ ReceiveInstallReply(d)
    BY <2>1 DEF AbandonCall, ReceiveAppendReply, ReceiveInstallReply, Finish
  <2>2. ~SendInstallSnapshot(d)
    <3>1. d.from \in Server /\ d.to \in Server /\ nextIndex[d.from][d.to] \in Nat
      BY DEF TypeInv, StoreTypeOK, TrafficTypeOK, CallTyped, Peers
    <3>2. snapshot[d.from].index = 0
      BY <3>1 DEF NothingCompacted, NoSnapshot
    <3> QED
      BY <3>1, <3>2 DEF SendInstallSnapshot, NoInstalls
  <2>3. ~HandleInstallSnapshot(d)
    BY DEF NoInstalls, HandleInstallSnapshot
  <2>4. CASE SendAppendEntries(d)
    <3>1. /\ d.stage = "spawned"
          /\ \E f : /\ Advance(d, f) /\ f.stage = "append" /\ f.from = d.from /\ f.to = d.to
                    /\ f.term = d.term /\ f.commit = d.commit
      BY <2>4 DEF SendAppendEntries
    <3> QED
      BY <2>4, <3>1 DEF Advance, NewCall
  <2>5. CASE HandleAppendEntries(d)
    <3>1. d.stage = "append"
      BY <2>5 DEF HandleAppendEntries
    <3>2. ASSUME NEW ok, NEW k, AppendReply(d, ok, k)
          PROVE  /\ c.stage = "appended" /\ c.from = d.from /\ c.to = d.to /\ c.success = ok
                 /\ c.match = d.prevIndex + Len(d.entries) /\ d \notin appendCalls'
      <4> DEFINE f == [from |-> d.from, to |-> d.to, round |-> d.round, stage |-> "appended",
                       term |-> currentTerm[d.to], success |-> ok,
                       match |-> d.prevIndex + Len(d.entries), conflict |-> k]
      <4>1. appendCalls' = (appendCalls \ {d}) \cup {f}
        BY <3>2 DEF AppendReply, Advance
      <4>2. /\ f.stage = "appended" /\ f.from = d.from /\ f.to = d.to /\ f.success = ok
            /\ f.match = d.prevIndex + Len(d.entries)
        OBVIOUS
      <4> HIDE DEF f
      <4>3. c = f /\ d # f
        BY <3>1, <4>1, <4>2
      <4> QED
        BY <4>1, <4>2, <4>3
    <3>3. CASE RefuseAppend(d)
      BY <3>1, <3>2, <3>3 DEF RefuseAppend, NewCall
    <3>4. CASE FollowAppend(d)
      <4>1. CASE RejectEntries(d.to, d)
        BY <3>1, <3>2, <4>1 DEF RejectEntries, NewCall
      <4>2. CASE AcceptEntries(d.to, d)
        <5>1. AppendReply(d, TRUE, 0) /\ PrevMatches(d.to, d)
          BY <4>2 DEF AcceptEntries
        <5>2. d \in Accepted
          BY <3>1, <3>2, <3>4, <5>1 DEF Accepted, Appends, FollowAppend
        <5> QED
          BY <3>1, <3>2, <5>1, <5>2 DEF NewCall
      <4> QED
        BY <3>4, <4>1, <4>2 DEF FollowAppend
    <3> QED
      BY <2>5, <3>3, <3>4 DEF HandleAppendEntries
  <2> QED
    BY <1>3, <2>1, <2>2, <2>3, <2>4, <2>5 DEF AppendGoroutine
<1> QED
  BY <1>1, <1>2, <1>3 DEF Next

\* What a leader has sent is of its term, and what has been answered is stored.
LeaderCallsOK ==
    \A c \in appendCalls : state[c.from] = "Leader" =>
        /\ c.stage \in {"spawned", "append"} => c.term = currentTerm[c.from]
        /\ c.stage = "spawned" => c.commit <= commitIndex[c.from]
        /\ c.stage = "appended" /\ c.success =>
              StoredUpTo(stored, c.to, currentTerm[c.from], c.match)

\* matchIndex tells what a follower has stored in the term of its leader.
MatchOK ==
    \A n, p \in Server : state[n] = "Leader" /\ matchIndex[n][p] > 0 =>
        StoredUpTo(stored, p, currentTerm[n], matchIndex[n][p])

\* A leader has stored its own entries.
SelfStored ==
    \A n \in Server : state[n] = "Leader" =>
        \A k \in 1..Len(log[n]) : log[n][k].term = currentTerm[n] =>
            StoredUpTo(stored, n, currentTerm[n], k)

\* A leader without calls of an earlier leadership keeps its term; or it has just
\* won, in a step that changes nothing else.
LEMMA LeaderKeeps ==
    ASSUME Base, Move, OfficeFresh, NEW n \in Server, state'[n] = "Leader"
    PROVE  /\ currentTerm'[n] = currentTerm[n]
           /\ \/ state[n] = "Leader"
              \/ /\ Wins(n) /\ log' = log /\ appendCalls' = appendCalls
                 /\ \A c \in appendCalls : c.from # n
<1>1. ElectionInv
  BY DEF Base, TypeInv
<1>2. currentTerm'[n] = currentTerm[n] /\ (state[n] = "Leader" \/ Wins(n))
  BY <1>1, LeaderSince DEF Move
<1>3. CASE Wins(n)
  <2>1. state[n] # "Leader"
    BY <1>1, <1>3, WinsRunning DEF Running
  <2>2. log' = log /\ appendCalls' = appendCalls
    BY <1>3 DEF Wins, ReceiveVoteReply, logVars, callVars
  <2> QED
    BY <1>2, <1>3, <2>1, <2>2 DEF OfficeFresh
<1> QED
  BY <1>2, <1>3

LEMMA StoredGrows ==
    ASSUME Base, Move
    PROVE  /\ stored \subseteq stored'
           /\ \A p, t, k : StoredUpTo(stored, p, t, k) => StoredUpTo(stored', p, t, k)
<1>1. stored \subseteq stored'
  BY StoredStep DEF Base, Move, Record
<1> QED
  BY <1>1 DEF StoredUpTo

LEMMA LeaderCallsStep ==
    ASSUME Base, Move, NoInstalls, OfficeFresh, LeaderCallsOK
    PROVE  LeaderCallsOK'
<1> SUFFICES ASSUME NEW c \in appendCalls', state'[c.from] = "Leader"
             PROVE  /\ c.stage \in {"spawned", "append"} => c.term = currentTerm'[c.from]
                    /\ c.stage = "spawned" => c.commit <= commitIndex'[c.from]
                    /\ c.stage = "appended" /\ c.success =>
                          StoredUpTo(stored', c.to, currentTerm'[c.from], c.match)
  BY DEF LeaderCallsOK
<1> DEFINE n == c.from
<1>1. n \in Server /\ CallTyped(c)'
  <2>1. TypeInv'
    BY TypeInvNext DEF Base, Move
  <2> QED
    BY <2>1 DEF TypeInv, TrafficTypeOK, CallTyped
<1>2. currentTerm'[n] = currentTerm[n] /\ state[n] = "Leader"
  BY <1>1, LeaderKeeps
<1>3. commitIndex[n] \in Nat /\ commitIndex'[n] \in Nat /\ commitIndex'[n] >= commitIndex[n]
  BY <1>1, CommitsRise
<1>4. CASE c \in appendCalls
  <2>1. /\ c.stage \in {"spawned", "append"} => c.term = currentTerm[n]
        /\ c.stage = "spawned" => c.commit <= commitIndex[n] /\ c.commit \in Nat
        /\ c.stage = "appended" /\ c.success => StoredUpTo(stored, c.to, currentTerm[n], c.match)
    BY <1>1, <1>2, <1>4 DEF LeaderCallsOK, CallTyped
  <2> QED
    BY <1>2, <1>3, <2>1, StoredGrows
<1>5. CASE c \notin appendCalls
  <2>1. NewCall(c)
    BY <1>5, NewCalls
  <2>2. CASE c.stage = "spawned"
    BY <1>1, <1>2, <2>1, <2>2, <1>3 DEF NewCall, applyVars
  <2>3. CASE c.stage = "append"
    BY <1>2, <2>1, <2>3 DEF NewCall, LeaderCallsOK
  <2>4. CASE c.stage = "appended" /\ c.success
    <3>1. PICK d \in appendCalls : /\ c.from = d.from /\ c.to = d.to /\ d.stage = "append"
                                   /\ d \in Accepted /\ c.match = d.prevIndex + Len(d.entries)
      BY <2>1, <2>4 DEF NewCall
    <3>2. d.term = currentTerm[n]
      BY <1>2, <3>1 DEF LeaderCallsOK
    <3>3. PICK s \in stored' : s.node = d.to /\ s.term = d.term
                                /\ s.index = d.prevIndex + Len(d.entries)
      BY <3>1, StoredStep DEF Base, Move, Record
    <3>4. c.match \in Nat
      BY <1>1, <2>4 DEF CallTyped
    <3>5. s.index >= c.match
      BY <3>1, <3>3, <3>4
    <3> QED
      BY <1>2, <2>4, <3>1, <3>2, <3>3, <3>5 DEF StoredUpTo
  <2> QED
    BY <2>1, <2>2, <2>3, <2>4 DEF NewCall
<1> QED
  BY <1>4, <1>5

LEMMA SelfStoredStep ==
    ASSUME Base, Move, OfficeFresh, SelfStored
    PROVE  SelfStored'
<1> USE DEF Base, Move, Record
<1> SUFFICES ASSUME NEW n \in Server, state'[n] = "Leader",
                    NEW k \in 1..Len(log'[n]), log'[n][k].term = currentTerm'[n]
             PROVE  StoredUpTo(stored', n, currentTerm'[n], k)
  BY DEF SelfStored
<1>1. currentTerm'[n] = currentTerm[n]
  BY LeaderKeeps
<1>2. CASE Wins(n) /\ log' = log
  <2>1. log[n][k].term \in DOMAIN termLog
    BY <1>2 DEF TermsOK, LogOK
  <2>2. TermClosed(currentTerm[n])
    BY <1>1, <1>2, <2>1 DEF TermsOK
  <2> QED
    BY <1>2, <2>2, ClosedTermNotWon DEF TypeInv
<1>3. CASE state[n] = "Leader"
  <2>1. CASE log'[n] = log[n]
    BY <1>1, <1>3, <2>1, StoredGrows DEF SelfStored
  <2>2. CASE LeaderAdds(n)
    <3>1. Len(log[n]) \in Nat /\ Len(log'[n]) = Len(log[n]) + 1
      BY <2>2, AddsFacts, LogTyped DEF TermsOK, LogOK
    <3>2. n \in Appending
      BY <1>3, <3>1 DEF Appending, Leaders
    <3>3. PICK s \in stored' : s.node = n /\ s.term = currentTerm[n] /\ s.index = Len(log'[n])
      BY <3>2, StoredStep
    <3> QED
      BY <1>1, <3>1, <3>3 DEF StoredUpTo
  <2> QED
    BY <1>3, <2>1, <2>2, LeaderLogMoves
<1> QED
  BY <1>2, <1>3, LeaderKeeps

\* matchIndex of a leader moves only with a counted reply of its own.
LEMMA MatchMoves ==
    ASSUME TypeInv, Next, NoInstalls, NEW n \in Server, state[n] = "Leader", NEW p \in Server
    PROVE  \/ matchIndex'[n][p] = matchIndex[n][p]
           \/ \E c \in appendCalls : /\ c.from = n /\ c.to = p /\ c.stage = "appended" /\ c.success
                                     /\ matchIndex'[n][p] = c.match
<1>1. matchIndex \in [Server -> [Server -> Nat]]
  BY DEF TypeInv, StoreTypeOK
<1>2. CASE \E m \in Server : MainLoop(m) \/ Client(m)
  <2>1. PICK m \in Server : MainLoop(m) \/ Client(m)
    BY <1>2
  <2>2. ASSUME NEW r \in voteReplies, ReceiveVoteReply(m, r)
        PROVE  matchIndex'[n] = matchIndex[n]
    <3>1. m # n
      BY <2>2 DEF ReceiveVoteReply, TypeInv, ElectionInv, LeaderElected
    <3>2. matchIndex' = matchIndex \/ BecomeLeader(m)
      BY <2>2 DEF ReceiveVoteReply, leaderVars
    <3> QED
      BY <1>1, <3>1, <3>2 DEF BecomeLeader
  <2>3. CASE ~\E r \in voteReplies : ReceiveVoteReply(m, r)
    <3>1. matchIndex' = matchIndex
      BY <2>1, <2>3 DEF MainLoop, Client, Dispatch, ElectionTimeout, StartElection,
         CandidateTimeout, Broadcast, LeaderTick, LeaderCommand, Exit, Stop, Submit, leaderVars
    <3> QED
      BY <3>1
  <2> QED
    BY <2>2, <2>3
<1>3. CASE \E c \in voteCalls : HandleRequestVote(c)
  BY <1>3 DEF HandleRequestVote, leaderVars
<1>4. ASSUME NEW c \in appendCalls, AppendGoroutine(c)
      PROVE  matchIndex'[n][p] = matchIndex[n][p]
                \/ (c.from = n /\ c.to = p /\ c.stage = "appended" /\ c.success
                      /\ matchIndex'[n][p] = c.match)
  <2>1. CASE AbandonCall(c) \/ SendInstallSnapshot(c) \/ SendAppendEntries(c)
               \/ HandleAppendEntries(c) \/ HandleInstallSnapshot(c)
    BY <2>1 DEF AbandonCall, SendInstallSnapshot, SendAppendEntries, HandleAppendEntries,
       HandleInstallSnapshot, leaderVars
  <2>2. ~ReceiveInstallReply(c)
    BY DEF NoInstalls, ReceiveInstallReply
  <2>3. CASE ReceiveAppendReply(c)
    <3> DEFINE k == c.from
               m == [matchIndex[k] EXCEPT ![c.to] = Max({@, c.match})]
    <3>1. /\ k \in Server /\ c.to \in Server /\ c.stage = "appended" /\ c.match \in Nat
          /\ c.success \in BOOLEAN
      BY <2>3 DEF ReceiveAppendReply, TypeInv, TrafficTypeOK, CallTyped, Peers
    <3>2. \/ matchIndex' = matchIndex
          \/ c.success /\ matchIndex' = [matchIndex EXCEPT ![k] = m]
      BY <2>3 DEF ReceiveAppendReply, UseAppendReply, RecordMatch, RollBack, leaderVars
    <3>3. Max({matchIndex[k][c.to], c.match}) =
             IF matchIndex[k][c.to] >= c.match THEN matchIndex[k][c.to] ELSE c.match
      <4>1. matchIndex[k][c.to] \in Int /\ c.match \in Int
        BY <1>1, <3>1
      <4> QED
        BY <4>1, MaxOfTwo
    <3>4. ASSUME c.success, matchIndex' = [matchIndex EXCEPT ![k] = m],
                 matchIndex'[n][p] # matchIndex[n][p]
          PROVE  k = n /\ c.to = p /\ matchIndex'[n][p] = c.match
      <4>1. k = n /\ matchIndex'[n] = m
        BY <1>1, <3>1, <3>4
      <4>2. c.to = p
        BY <1>1, <3>1, <3>4, <4>1
      <4>3. m[p] = Max({matchIndex[k][c.to], c.match})
        BY <1>1, <3>1, <4>1, <4>2
      <4> QED
        BY <3>3, <3>4, <4>1, <4>2, <4>3
    <3> QED
      BY <3>1, <3>2, <3>4
  <2> QED
    BY <1>4, <2>1, <2>2, <2>3 DEF AppendGoroutine
<1> QED
  BY <1>2, <1>3, <1>4 DEF Next

LEMMA MatchStep ==
    ASSUME Base, Move, NoInstalls, OfficeFresh, LeaderCallsOK, MatchOK
    PROVE  MatchOK'
<1> SUFFICES ASSUME NEW n \in Server, NEW p \in Server, state'[n] = "Leader",
                    matchIndex'[n][p] > 0
             PROVE  StoredUpTo(stored', p, currentTerm'[n], matchIndex'[n][p])
  BY DEF MatchOK
<1>1. currentTerm'[n] = currentTerm[n] /\ (state[n] = "Leader" \/ Wins(n))
  BY LeaderKeeps
<1>2. ~Wins(n)
  <2> SUFFICES ASSUME Wins(n) PROVE FALSE
    OBVIOUS
  <2>1. matchIndex' = [matchIndex EXCEPT ![n] = [q \in Server |-> 0]]
    BY DEF Wins, BecomeLeader
  <2> QED
    BY <2>1 DEF Base, TypeInv, StoreTypeOK
<1>3. \/ matchIndex'[n][p] = matchIndex[n][p]
      \/ \E c \in appendCalls : /\ c.from = n /\ c.to = p /\ c.stage = "appended" /\ c.success
                                /\ matchIndex'[n][p] = c.match
  BY <1>1, <1>2, MatchMoves DEF Base, Move
<1>4. StoredUpTo(stored, p, currentTerm[n], matchIndex'[n][p])
  BY <1>1, <1>2, <1>3 DEF MatchOK, LeaderCallsOK
<1> QED
  BY <1>1, <1>4, StoredGrows

-----------------------------------------------------------------------------
(* What is committed stays committed. *)

\* A chosen entry may be chosen.
LEMMA ChosenChoosable ==
    ASSUME NEW t, NEW j, Chosen(termLog, stored, t, j)
    PROVE  OwnEntry(termLog, t, j) /\ Choosable(stored, currentTerm, t, j)
  BY DEF Chosen, Choosable

\* What is certified stays so, for less of it, in a later term, and for a log
\* that agrees as far.
LEMMA CertifiedStays ==
    ASSUME Base, Move, NEW lg \in Seq(Entry), NEW new \in Seq(Entry),
           NEW k \in Nat, NEW i \in Nat, i <= k, NEW u \in Nat, NEW w \in Nat, u <= w,
           Certified(termLog, stored, lg, k, u),
           i = 0 \/ \A t \in DOMAIN termLog : \A j \in 1..Len(termLog[t]) :
                       t <= u /\ Chosen(termLog, stored, t, j) /\ k <= j
                          /\ Agree(lg, termLog[t], k) => Agree(new, termLog[t], i)
    PROVE  Certified(termLog', stored', new, i, w)
<1>1. CASE i = 0
  BY <1>1 DEF Certified
<1>2. CASE i # 0
  <2>1. PICK t \in DOMAIN termLog : \E j \in 1..Len(termLog[t]) :
          t <= u /\ Chosen(termLog, stored, t, j) /\ k <= j /\ Agree(lg, termLog[t], k)
    BY <1>2 DEF Certified
  <2>2. PICK j \in 1..Len(termLog[t]) :
          t <= u /\ Chosen(termLog, stored, t, j) /\ k <= j /\ Agree(lg, termLog[t], k)
    BY <2>1
  <2>3. Agree(new, termLog[t], i)
    BY <1>2, <2>2
  <2>4. /\ t \in Nat /\ t \in DOMAIN termLog' /\ Len(termLog[t]) \in Nat
        /\ Len(termLog'[t]) \in Nat
        /\ Agree(termLog[t], termLog'[t], Len(termLog[t]))
        /\ \A a \in 1..Len(termLog[t]) :
              /\ OwnEntry(termLog', t, a) <=> OwnEntry(termLog, t, a)
              /\ \A b : Agree(b, termLog'[t], a) <=> Agree(b, termLog[t], a)
    BY EntryOld
  <2>5. i \in 1..Len(termLog[t]) /\ j \in 1..Len(termLog'[t]) /\ i <= j /\ t <= w
    BY <1>2, <2>2, <2>4 DEF Agree
  <2>6. Agree(new, termLog'[t], i)
    BY <2>3, <2>4, <2>5
  <2>7. Chosen(termLog', stored', t, j)
    BY <2>2, <2>4, StoredGrows DEF Chosen
  <2> QED
    BY <2>4, <2>5, <2>6, <2>7 DEF Certified
<1> QED
  BY <1>1, <1>2

\* A node's log leads up to a chosen entry as far as the node has committed.
CommitsOK ==
    \A n \in Server : /\ commitIndex[n] <= Len(log[n])
                      /\ Certified(termLog, stored, log[n], commitIndex[n], currentTerm[n])

\* The numbers and entries of a call.
SentTyped(c) == c.prevIndex \in Nat /\ c.entries \in Seq(Entry) /\ c.commit \in Nat

\* A call on its way keeps what it carries.
LEMMA CarriesStays ==
    ASSUME Base, Move, NEW c, SentTyped(c),
           NEW t \in DOMAIN termLog, c.term = t, Carries(c, termLog, stored)
    PROVE  Carries(c, termLog', stored')
<1> DEFINE end == c.prevIndex + Len(c.entries)
<1>1. /\ c.prevIndex \in Nat /\ c.entries \in Seq(Entry) /\ c.commit \in Nat
      /\ Len(c.entries) \in Nat
  BY DEF SentTyped
<1>2. /\ termLog[t] \in Seq(Entry) /\ Len(termLog[t]) \in Nat
      /\ termLog'[t] \in Seq(Entry) /\ Len(termLog'[t]) \in Nat
      /\ Agree(termLog[t], termLog'[t], Len(termLog[t]))
  BY EntryOld
<1>3. /\ end <= Len(termLog[t])
      /\ c.prevIndex > 0 => c.prevTerm = termLog[t][c.prevIndex].term
      /\ \A k \in 1..Len(c.entries) : c.entries[k] = termLog[t][c.prevIndex + k]
      /\ c.commit <= end /\ Certified(termLog, stored, termLog[t], c.commit, t)
  BY DEF Carries
<1>4. \A i \in 1..Len(termLog[t]) : termLog'[t][i] = termLog[t][i]
  BY <1>2 DEF Agree
<1>5. /\ end <= Len(termLog'[t])
      /\ c.prevIndex > 0 => c.prevTerm = termLog'[t][c.prevIndex].term
      /\ \A k \in 1..Len(c.entries) : c.entries[k] = termLog'[t][c.prevIndex + k]
  <2>1. Len(termLog[t]) <= Len(termLog'[t])
    BY <1>2 DEF Agree
  <2>2. c.prevIndex > 0 => c.prevIndex \in 1..Len(termLog[t])
    BY <1>1, <1>2, <1>3
  <2>3. \A k \in 1..Len(c.entries) : c.prevIndex + k \in 1..Len(termLog[t])
    BY <1>1, <1>2, <1>3
  <2>4. end <= Len(termLog'[t])
    BY <1>1, <1>2, <1>3, <2>1
  <2>5. c.prevIndex > 0 => c.prevTerm = termLog'[t][c.prevIndex].term
    BY <1>3, <1>4, <2>2
  <2>6. \A k \in 1..Len(c.entries) : c.entries[k] = termLog'[t][c.prevIndex + k]
    BY <1>3, <1>4, <2>3
  <2> QED
    BY <2>4, <2>5, <2>6
<1>6. Certified(termLog', stored', termLog'[t], c.commit, t)
  <2>1. ASSUME NEW s \in DOMAIN termLog, NEW j \in 1..Len(termLog[s]),
               Agree(termLog[t], termLog[s], c.commit)
        PROVE  Agree(termLog'[t], termLog[s], c.commit)
    BY <1>1, <1>2, <1>4, <2>1 DEF Agree
  <2>2. t \in Nat /\ t <= t /\ c.commit <= c.commit
    BY <1>1, EntryOld
  <2>3. Certified(termLog, stored, termLog[t], c.commit, t)
    BY <1>3
  <2> QED
    BY <1>1, <1>2, <2>1, <2>2, <2>3, CertifiedStays
<1> QED
  BY <1>1, <1>3, <1>5, <1>6 DEF Carries

\* What a leader sends.
LEMMA SentCarries ==
    ASSUME Base, Move, LeaderCallsOK, CommitsOK, NoInstalls,
           NEW d \in appendCalls, SendAppendEntries(d), d.stage = "spawned",
           NEW c \in appendCalls', c \notin appendCalls
    PROVE  CallOK(c, termLog', stored')
<1> USE DEF Base, Move
<1> DEFINE n == d.from
           ni == nextIndex[n][d.to]
           lg == log[n]
<1>1. /\ n \in Server /\ d.to \in Server /\ d.term \in Nat /\ d.commit \in Nat
      /\ ni \in Nat /\ lg \in Seq(Entry) /\ Len(lg) \in Nat
      /\ commitIndex[n] \in Nat /\ currentTerm[n] \in Nat
  <2>1. n \in Server /\ d.to \in Server /\ d.term \in Nat /\ d.commit \in Nat
    BY DEF TypeInv, TrafficTypeOK, CallTyped, Peers
  <2>2. lg \in Seq(Entry) /\ ni \in Nat /\ commitIndex[n] \in Nat /\ currentTerm[n] \in Nat
    BY <2>1 DEF TypeInv, StoreTypeOK, ElectionInv, ElectionTypeOK
  <2>3. Len(lg) \in Nat
    BY <2>2
  <2> QED
    BY <2>1, <2>2, <2>3
<1>2. state[n] = "Leader" /\ snapshot[n].index = 0 /\ snapshot[n].term = 0
  BY <1>1 DEF SendAppendEntries, NothingCompacted, NoSnapshot
<1>3. d.term = currentTerm[n] /\ d.commit <= commitIndex[n]
  BY <1>2 DEF LeaderCallsOK
<1>4. /\ d.term \in DOMAIN termLog /\ termLog[d.term] = lg
  BY <1>1, <1>2, <1>3 DEF TermsOK
<1>5. ni > 0
  BY <1>1, <1>2 DEF NoInstalls
<1>6. /\ c.stage = "append" /\ c.term = d.term /\ c.commit = d.commit /\ c.prevIndex = ni - 1
      /\ c.entries = SubSeq(lg, ni, Len(lg))
      /\ c.prevTerm = IF ni - 1 = 0 THEN 0
                      ELSE IF ni - 1 \in 1..Len(lg) THEN lg[ni - 1].term ELSE 0
  <2> DEFINE f == [from |-> n, to |-> d.to, round |-> d.round, stage |-> "append",
                   term |-> d.term, commit |-> d.commit, prevIndex |-> ni - 1,
                   prevTerm |-> IF ni - 1 = 0 THEN 0
                                ELSE IF ni - 1 \in 1..Len(lg) THEN lg[ni - 1].term ELSE 0,
                   entries |-> SubSeq(lg, ni, Len(lg))]
  <2>1. ni - 1 - snapshot[n].index = ni - 1 /\ ni - snapshot[n].index = ni
    BY <1>1, <1>2
  <2>2. EntriesFrom(n, ni) = SubSeq(lg, ni, Len(lg))
    BY <2>1 DEF EntriesFrom
  <2>3. appendCalls' = (appendCalls \ {d}) \cup {f}
    BY <1>2, <2>1, <2>2 DEF SendAppendEntries, Advance
  <2> HIDE DEF f
  <2>4. c = f
    BY <2>3
  <2> QED
    BY <2>4 DEF f
<1>7. CASE ni - 1 > Len(lg)
  <2>1. c.prevIndex > 0 /\ c.prevTerm = 0
    <3>1. ni - 1 > 0 /\ ni - 1 # 0 /\ ~(ni - 1 \in 1..Len(lg))
      BY <1>1, <1>7
    <3>2. c.prevIndex = ni - 1
      BY <1>6
    <3>3. c.prevTerm = IF ni - 1 = 0 THEN 0
                       ELSE IF ni - 1 \in 1..Len(lg) THEN lg[ni - 1].term ELSE 0
      BY <1>6
    <3> HIDE DEF ni, lg
    <3> QED
      BY <3>1, <3>2, <3>3
  <2> QED
    BY <1>4, <1>6, <2>1, EntryOld DEF CallOK, Misses
<1>8. CASE ni - 1 <= Len(lg)
  <2>1. /\ c.entries \in Seq(Entry) /\ Len(c.entries) = Len(lg) - ni + 1
        /\ \A k \in 1..Len(c.entries) : c.entries[k] = lg[(ni - 1) + k]
    <3>1. \A i \in ni..Len(lg) : lg[i] \in Entry
      BY <1>1, <1>5
    <3> HIDE DEF lg, ni
    <3>2. /\ c.entries \in Seq(Entry)
          /\ Len(c.entries) = IF ni <= Len(lg) THEN Len(lg) - ni + 1 ELSE 0
          /\ \A k \in 1..(Len(lg) - ni + 1) : c.entries[k] = lg[ni + k - 1]
      BY <1>1, <1>6, <3>1, SubSeqProperties
    <3>3. \A k \in 1..(Len(lg) - ni + 1) : ni + k - 1 = (ni - 1) + k
      BY <1>1
    <3> QED
      BY <1>1, <1>8, <3>2, <3>3
  <2> HIDE DEF lg, ni
  <2>2. /\ c.prevIndex + Len(c.entries) = Len(lg)
        /\ c.prevIndex > 0 => c.prevTerm = lg[c.prevIndex].term
        /\ \A k \in 1..Len(c.entries) : c.entries[k] = lg[c.prevIndex + k]
    BY <1>1, <1>5, <1>6, <1>8, <2>1
  <2>3. c.commit <= Len(lg)
    BY <1>1, <1>3, <1>6 DEF CommitsOK, lg
  <2>4. Certified(termLog, stored, lg, d.commit, d.term)
    <3>1. commitIndex[n] <= Len(lg)
          /\ Certified(termLog, stored, lg, commitIndex[n], currentTerm[n])
      BY <1>1 DEF CommitsOK, lg
    <3>2. CASE commitIndex[n] = 0
      BY <1>1, <1>3, <3>2 DEF Certified
    <3>3. ASSUME NEW t \in DOMAIN termLog, NEW j \in 1..Len(termLog[t]),
                 t <= currentTerm[n] /\ Chosen(termLog, stored, t, j)
                    /\ commitIndex[n] <= j /\ Agree(lg, termLog[t], commitIndex[n])
          PROVE  Certified(termLog, stored, lg, d.commit, d.term)
      <4>1. Len(termLog[t]) \in Nat
        BY EntryOld
      <4>2. d.commit <= j
        BY <1>1, <1>3, <3>3, <4>1
      <4>3. Agree(lg, termLog[t], d.commit)
        BY <1>1, <1>3, <3>3, <4>1 DEF Agree
      <4> QED
        BY <1>3, <3>3, <4>2, <4>3 DEF Certified
    <3> QED
      BY <3>1, <3>2, <3>3 DEF Certified
  <2>5. Carries(c, termLog, stored)
    <3>1. Len(lg) <= Len(lg) /\ c.commit <= c.prevIndex + Len(c.entries)
      BY <1>1, <2>2, <2>3
    <3> QED
      BY <1>4, <1>6, <2>2, <2>4, <3>1 DEF Carries
  <2>6. SentTyped(c)
    BY <1>1, <1>5, <1>6, <2>1 DEF SentTyped
  <2>7. c.term \in DOMAIN termLog
    BY <1>4, <1>6
  <2>8. Carries(c, termLog', stored')
    BY <2>5, <2>6, <2>7, CarriesStays
  <2> QED
    BY <1>4, <1>6, <2>8, EntryOld DEF CallOK
<1> QED
  BY <1>1, <1>7, <1>8

LEMMA AppendCallsStep ==
    ASSUME Base, Move, NoInstalls, LeaderCallsOK, CommitsOK
    PROVE  AppendCallsOK'
<1> SUFFICES ASSUME NEW c \in appendCalls', c.stage = "append"
             PROVE  CallOK(c, termLog', stored')
  BY DEF AppendCallsOK, Appends
<1>1. CASE c \in appendCalls
  <2>1. CallOK(c, termLog, stored)
    BY <1>1 DEF Base, AppendCallsOK, Appends
  <2>2. SentTyped(c)
    BY <1>1 DEF Base, TypeInv, TrafficTypeOK, CallTyped, SentTyped
  <2>3. c.term \in DOMAIN termLog
    BY <2>1 DEF CallOK
  <2> QED
    BY <2>1, <2>2, <2>3, CarriesStays, EntryOld DEF CallOK
<1>2. CASE c \notin appendCalls
  <2>1. PICK d \in appendCalls : SendAppendEntries(d) /\ d.stage = "spawned"
    BY <1>2, NewCalls DEF NewCall
  <2> QED
    BY <1>2, <2>1, SentCarries
<1> QED
  BY <1>1, <1>2

\* No step touches what a node has committed.
LEMMA KeepsCommitted ==
    ASSUME Base, Move, Completeness, CommitsOK, NEW n \in Server
    PROVE  /\ commitIndex[n] \in Nat /\ log[n] \in Seq(Entry) /\ log'[n] \in Seq(Entry)
           /\ Len(log'[n]) \in Nat /\ commitIndex[n] <= Len(log'[n])
           /\ \A i \in 1..commitIndex[n] : log'[n][i] = log[n][i]
           /\ \A t \in DOMAIN termLog : \A j \in 1..Len(termLog[t]) :
                 t <= currentTerm[n] /\ Chosen(termLog, stored, t, j) /\ commitIndex[n] <= j
                    /\ Agree(log[n], termLog[t], commitIndex[n])
                 => Agree(log'[n], termLog[t], commitIndex[n])
<1> DEFINE k == commitIndex[n]
<1>1. k \in Nat /\ log[n] \in Seq(Entry)
  BY DEF Base, TypeInv, StoreTypeOK
<1>2. log'[n] \in Seq(Entry)
  BY TypeInvNext DEF Base, Move, TypeInv, StoreTypeOK
<1>3. Len(log'[n]) \in Nat
  BY <1>2
<1>4. ASSUME NEW t \in DOMAIN termLog, NEW j \in 1..Len(termLog[t]), t <= currentTerm[n],
             Chosen(termLog, stored, t, j), k <= j, Agree(log[n], termLog[t], k)
      PROVE  Agree(log'[n], termLog[t], k)
  <2>1. OwnEntry(termLog, t, j) /\ Choosable(stored, currentTerm, t, j)
    BY <1>4, ChosenChoosable
  <2> HIDE DEF k
  <2> QED
    BY <1>1, <1>4, <2>1, KeepsChoosable
<1>5. k <= Len(log'[n]) /\ \A i \in 1..k : log'[n][i] = log[n][i]
  <2>1. CASE k = 0
    BY <1>1, <1>3, <2>1
  <2>2. CASE k # 0
    <3>1. PICK t \in DOMAIN termLog : \E j \in 1..Len(termLog[t]) :
            t <= currentTerm[n] /\ Chosen(termLog, stored, t, j) /\ k <= j
               /\ Agree(log[n], termLog[t], k)
      BY <2>2 DEF CommitsOK, Certified
    <3>2. Agree(log[n], termLog[t], k) /\ Agree(log'[n], termLog[t], k)
      BY <1>4, <3>1
    <3> QED
      BY <1>1, <1>3, <3>2 DEF Agree
  <2> QED
    BY <2>1, <2>2
<1> QED
  BY <1>1, <1>2, <1>3, <1>4, <1>5

\* A follower commits what its call certifies.
LEMMA FollowsCertified ==
    ASSUME Base, Move, NEW c \in appendCalls, Follows(c)
    PROVE  /\ c.to \in Server /\ c.commit \in Nat /\ c.commit <= Len(log'[c.to])
           /\ commitIndex' = [commitIndex EXCEPT ![c.to] = c.commit]
           /\ Certified(termLog', stored', log'[c.to], c.commit, currentTerm'[c.to])
<1> DEFINE n == c.to
           end == c.prevIndex + Len(c.entries)
<1>1. /\ n \in Server /\ c.term \in DOMAIN termLog /\ Carries(c, termLog, stored)
      /\ currentTerm' = [currentTerm EXCEPT ![n] = c.term]
      /\ Agree(log'[n], termLog[c.term], end)
      /\ LogOK(log'[n], termLog, c.term)
  BY AcceptFacts DEF Base, Move, Follows
<1>2. SentTyped(c) /\ currentTerm \in [Server -> Nat]
  BY DEF Base, TypeInv, TrafficTypeOK, CallTyped, SentTyped, Follows, Accepts, Appends,
     ElectionInv, ElectionTypeOK
<1>3. /\ c.commit \in Nat /\ end \in Nat /\ log'[n] \in Seq(Entry) /\ Len(log'[n]) \in Nat
      /\ c.term \in Nat /\ currentTerm'[n] = c.term /\ termLog[c.term] \in Seq(Entry)
      /\ Len(termLog[c.term]) \in Nat
  <2>1. log'[n] \in Seq(Entry)
    BY <1>1 DEF LogOK
  <2>2. c.commit \in Nat /\ end \in Nat
    BY <1>2 DEF SentTyped
  <2> QED
    BY <1>1, <1>2, <2>1, <2>2, EntryOld
<1>4. c.commit <= end /\ Certified(termLog, stored, termLog[c.term], c.commit, c.term)
  BY <1>1 DEF Carries
<1> HIDE DEF end
<1>5. c.commit <= Len(log'[n]) /\ \A i \in 1..c.commit : log'[n][i] = termLog[c.term][i]
  BY <1>1, <1>3, <1>4 DEF Agree
<1>6. ASSUME NEW t \in DOMAIN termLog, NEW j \in 1..Len(termLog[t]),
             Agree(termLog[c.term], termLog[t], c.commit)
      PROVE  Agree(log'[n], termLog[t], c.commit)
  BY <1>3, <1>5, <1>6 DEF Agree
<1>7. c.term <= c.term /\ c.commit <= c.commit
  BY <1>3
<1>8. Certified(termLog', stored', log'[n], c.commit, c.term)
  BY <1>3, <1>4, <1>6, <1>7, CertifiedStays
<1>9. commitIndex' = [commitIndex EXCEPT ![n] = c.commit]
  BY DEF Follows, CommitAndApply
<1> QED
  BY <1>1, <1>3, <1>5, <1>8, <1>9

\* A leader commits what a majority has stored in its term.
LEMMA CountsCertified ==
    ASSUME Base, Move, OfficeFresh, NoInstalls, MatchOK', SelfStored,
           NEW c \in appendCalls, Counts(c)
    PROVE  LET n == c.from
               i == NewCommitIndex(n, matchIndex'[n]) IN
           /\ n \in Server /\ i \in 1..Len(log'[n]) /\ i > commitIndex[n]
           /\ commitIndex' = [commitIndex EXCEPT ![n] = i]
           /\ Certified(termLog', stored', log'[n], i, currentTerm'[n])
<1> DEFINE n == c.from
           match == matchIndex'[n]
           i == NewCommitIndex(n, match)
           t == currentTerm[n]
           Q == Replicated(n, match, i) \cup {n}
<1>1. n \in Server /\ snapshot[n].index = 0
  BY DEF Base, TypeInv, TrafficTypeOK, CallTyped, NothingCompacted, NoSnapshot
<1>2. /\ state[n] = "Leader" /\ state'[n] = "Leader" /\ currentTerm' = currentTerm
      /\ log' = log /\ i > commitIndex[n]
      /\ commitIndex' = [commitIndex EXCEPT ![n] = i]
  BY DEF Counts, CommitAndApply, electionVars
<1>3. /\ i \in 1..Len(log[n]) /\ log[n][i].term = t
      /\ Cardinality(Replicated(n, match, i)) + 1 >= Majority
  <2> HIDE DEF match
  <2> QED
    BY <1>1, <1>2, NewCommitFacts DEF Base, TypeInv
<1> HIDE DEF i
<1>4. t \in DOMAIN termLog /\ termLog[t] = log[n]
  BY <1>1, <1>2 DEF Base, TermsOK
<1>5. /\ matchIndex' \in [Server -> [Server -> Nat]] /\ t \in Nat /\ Len(log[n]) \in Nat
      /\ log[n] \in Seq(Entry)
  BY <1>1, <1>4, EntryOld, TypeInvNext DEF Base, Move, TypeInv, StoreTypeOK
<1>6. ASSUME NEW p \in Q PROVE StoredUpTo(stored', p, t, i)
  <2>1. CASE p = n
    <3>1. StoredUpTo(stored, n, t, i)
      BY <1>1, <1>2, <1>3 DEF SelfStored
    <3> QED
      BY <2>1, <3>1, StoredGrows
  <2>2. CASE p # n
    <3>1. p \in Server /\ match[p] >= i /\ match[p] \in Nat
      BY <1>1, <1>5, <2>2 DEF Replicated, Peers
    <3>2. match[p] > 0
      BY <1>3, <1>5, <3>1
    <3>3. \A a, b \in Server : state'[a] = "Leader" /\ matchIndex'[a][b] > 0 =>
             StoredUpTo(stored', b, currentTerm'[a], matchIndex'[a][b])
      BY DEF MatchOK, StoredUpTo
    <3>4. StoredUpTo(stored', p, t, match[p])
      BY <1>1, <1>2, <3>1, <3>2, <3>3
    <3>5. PICK s \in stored' : s.node = p /\ s.term = t /\ s.index >= match[p]
      BY <3>4 DEF StoredUpTo
    <3>6. s.index \in Nat
      BY StoresOKStep DEF StoresOK
    <3>7. s.index >= i
      BY <1>3, <1>5, <3>1, <3>5, <3>6
    <3> QED
      BY <3>5, <3>7 DEF StoredUpTo
  <2> QED
    BY <2>1, <2>2
<1>7. Q \in SUBSET Server /\ Cardinality(Q) >= Majority
  <2>1. IsFiniteSet(Replicated(n, match, i)) /\ n \notin Replicated(n, match, i)
    BY ServerAssumption, FS_Subset DEF Replicated, Peers
  <2>2. Cardinality(Q) = Cardinality(Replicated(n, match, i)) + 1
    BY <2>1, FS_AddElement
  <2> QED
    BY <1>1, <1>3, <2>2 DEF Replicated, Peers
<1> HIDE DEF Q, match
<1>8. /\ t \in DOMAIN termLog' /\ OwnEntry(termLog', t, i) /\ i \in 1..Len(termLog'[t])
      /\ Agree(log[n], termLog'[t], i)
  <2>1. OwnEntry(termLog, t, i) /\ i \in 1..Len(termLog[t]) /\ Agree(log[n], termLog[t], i)
    BY <1>3, <1>4, <1>5 DEF OwnEntry, Agree
  <2> QED
    BY <1>4, <2>1, EntryOld DEF OwnEntry
<1>9. Chosen(termLog', stored', t, i)
  BY <1>6, <1>7, <1>8 DEF Chosen
<1>10. Certified(termLog', stored', log[n], i, t)
  <2>1. t <= t /\ i <= i
    BY <1>3, <1>5
  <2> QED
    BY <1>8, <1>9, <2>1 DEF Certified
<1> QED
  BY <1>1, <1>2, <1>3, <1>10 DEF i, match

LEMMA CommitsStep ==
    ASSUME Base, Move, OfficeFresh, NoInstalls, Completeness, CommitsOK, MatchOK', SelfStored
    PROVE  CommitsOK'
<1> SUFFICES ASSUME NEW n \in Server
             PROVE  /\ commitIndex'[n] <= Len(log'[n])
                    /\ Certified(termLog', stored', log'[n], commitIndex'[n], currentTerm'[n])
  BY DEF CommitsOK
<1>1. /\ commitIndex \in [Server -> Nat] /\ currentTerm[n] \in Nat /\ currentTerm'[n] \in Nat
      /\ currentTerm[n] <= currentTerm'[n]
  BY TermsRise DEF Base, Move, TypeInv, StoreTypeOK
<1>2. CASE commitIndex'[n] = commitIndex[n]
  <2> DEFINE k == commitIndex[n]
  <2>1. /\ k \in Nat /\ log[n] \in Seq(Entry) /\ log'[n] \in Seq(Entry) /\ k <= Len(log'[n])
        /\ \A t \in DOMAIN termLog : \A j \in 1..Len(termLog[t]) :
              t <= currentTerm[n] /\ Chosen(termLog, stored, t, j) /\ k <= j
                 /\ Agree(log[n], termLog[t], k) => Agree(log'[n], termLog[t], k)
    BY KeepsCommitted
  <2>2. Certified(termLog, stored, log[n], k, currentTerm[n]) /\ k <= k
    BY <2>1 DEF CommitsOK
  <2> HIDE DEF k
  <2>3. Certified(termLog', stored', log'[n], k, currentTerm'[n])
    BY <1>1, <2>1, <2>2, CertifiedStays
  <2> QED
    BY <1>2, <2>1, <2>3 DEF k
<1>3. ASSUME NEW c \in appendCalls, Follows(c), commitIndex'[n] # commitIndex[n]
      PROVE  /\ commitIndex'[n] <= Len(log'[n])
             /\ Certified(termLog', stored', log'[n], commitIndex'[n], currentTerm'[n])
  <2>1. /\ c.to \in Server /\ c.commit <= Len(log'[c.to])
        /\ commitIndex' = [commitIndex EXCEPT ![c.to] = c.commit]
        /\ Certified(termLog', stored', log'[c.to], c.commit, currentTerm'[c.to])
    BY <1>3, FollowsCertified
  <2>2. n = c.to /\ commitIndex'[n] = c.commit
    BY <1>1, <1>3, <2>1
  <2> QED
    BY <2>1, <2>2
<1>4. ASSUME NEW c \in appendCalls, Counts(c), commitIndex'[n] # commitIndex[n]
      PROVE  /\ commitIndex'[n] <= Len(log'[n])
             /\ Certified(termLog', stored', log'[n], commitIndex'[n], currentTerm'[n])
  <2> DEFINE m == c.from
             i == NewCommitIndex(m, matchIndex'[m])
  <2>1. /\ m \in Server /\ i \in 1..Len(log'[m])
        /\ commitIndex' = [commitIndex EXCEPT ![m] = i]
        /\ Certified(termLog', stored', log'[m], i, currentTerm'[m])
    BY <1>4, CountsCertified
  <2> HIDE DEF i
  <2>2. n = m /\ commitIndex'[n] = i
    BY <1>1, <1>4, <2>1
  <2> QED
    BY <2>1, <2>2
<1> QED
  BY <1>2, <1>3, <1>4, CommitStep DEF applyVars

\* The commands applyCommitted takes from a log that has not been compacted.
LEMMA CommandsApplied ==
    ASSUME NEW lg \in Seq(Entry), NEW lo \in Nat, NEW hi \in Nat, lo > 0, lo <= hi, hi <= Len(lg)
    PROVE  /\ CommandsOf(lg, 0, lo, hi) \in Seq(Command)
           /\ Len(CommandsOf(lg, 0, lo, hi)) = (hi - lo) + 1
           /\ \A k \in 1..((hi - lo) + 1) :
                 CommandsOf(lg, 0, lo, hi)[k] = lg[(lo + k) - 1].command
<1> DEFINE s == SubSeq(lg, lo, hi)
<1>1. Len(lg) \in Nat
  OBVIOUS
<1>2. CommandsOf(lg, 0, lo, hi) = [k \in 1..Len(s) |-> s[k].command]
  <2>1. Max({lo - 0, 1}) = lo
    <3>1. lo - 0 \in Int /\ lo - 0 >= 1 /\ lo - 0 = lo
      OBVIOUS
    <3> QED
      BY <3>1, MaxOfTwo
  <2>2. Min({hi - 0, Len(lg)}) = hi
    <3>1. hi - 0 \in Int /\ hi - 0 <= Len(lg) /\ hi - 0 = hi
      BY <1>1
    <3> QED
      BY <1>1, <3>1, MinOfTwo
  <2> QED
    BY <2>1, <2>2 DEF CommandsOf
<1>3. Len(s) = (hi - lo) + 1 /\ \A k \in 1..((hi - lo) + 1) : s[k] = lg[(lo + k) - 1]
  <2>1. \A i \in lo..hi : lg[i] \in Entry
    BY <1>1
  <2> QED
    BY <1>1, <2>1, SubSeqProperties
<1>4. CommandsOf(lg, 0, lo, hi) \in Seq(Command)
  BY CommandsOfLog
<1> HIDE DEF s
<1>5. (hi - lo) + 1 \in Nat
  OBVIOUS
<1>6. Len(CommandsOf(lg, 0, lo, hi)) = Len(s)
  <2>1. Len(s) \in Nat
    BY <1>3, <1>5
  <2> QED
    BY <1>2, <2>1
<1>7. \A k \in 1..Len(s) : CommandsOf(lg, 0, lo, hi)[k] = s[k].command
  BY <1>2
<1> QED
  BY <1>3, <1>4, <1>6, <1>7

\* Commands after commands.
LEMMA Joined ==
    ASSUME NEW a \in Seq(Command), NEW b \in Seq(Command)
    PROVE  /\ Len(a \o b) = Len(a) + Len(b)
           /\ \A k \in 1..(Len(a) + Len(b)) :
                 (a \o b)[k] = IF k <= Len(a) THEN a[k] ELSE b[k - Len(a)]
  BY ConcatProperties, SMTT(30)

\* The state machine has executed the commands of the committed entries.
AppliedOK ==
    \A n \in Server : /\ lastApplied[n] = commitIndex[n]
                      /\ Len(stateMachine[n]) = commitIndex[n]
                      /\ \A k \in 1..commitIndex[n] : stateMachine[n][k] = log[n][k].command

\* Applying up to a new commit index.
LEMMA AppliesLog ==
    ASSUME Base, Move, Completeness, CommitsOK, AppliedOK, NEW m \in Server, NEW i \in Nat,
           i > commitIndex[m], i <= Len(log'[m]), CommitAndApply(m, log'[m], 0, i)
    PROVE  AppliedOK'
<1> SUFFICES ASSUME NEW n \in Server
             PROVE  /\ lastApplied'[n] = commitIndex'[n]
                    /\ Len(stateMachine'[n]) = commitIndex'[n]
                    /\ \A k \in 1..commitIndex'[n] : stateMachine'[n][k] = log'[n][k].command
  BY DEF AppliedOK
<1>1. /\ commitIndex \in [Server -> Nat] /\ lastApplied \in [Server -> Nat]
      /\ stateMachine \in [Server -> Seq(Command)]
  BY DEF Base, TypeInv, StoreTypeOK
<1>2. /\ lastApplied[n] = commitIndex[n] /\ Len(stateMachine[n]) = commitIndex[n]
      /\ \A k \in 1..commitIndex[n] : stateMachine[n][k] = log'[n][k].command
  BY KeepsCommitted DEF AppliedOK
<1> DEFINE old == commitIndex[m]
           more == CommandsOf(log'[m], 0, old + 1, i)
<1>3. /\ commitIndex' = [commitIndex EXCEPT ![m] = i]
      /\ lastApplied' = [lastApplied EXCEPT ![m] = Max({old, i})]
      /\ stateMachine' = [stateMachine EXCEPT ![m] = stateMachine[m] \o more]
  BY DEF CommitAndApply, AppliedOK
<1>4. Max({old, i}) = i
  <2>1. old \in Int /\ i \in Int /\ ~(old >= i)
    BY <1>1
  <2> HIDE DEF old
  <2> QED
    BY <2>1, MaxOfTwo
<1>5. CASE n # m
  BY <1>1, <1>2, <1>3, <1>5
<1>6. CASE n = m
  <2>1. old \in Nat /\ log'[m] \in Seq(Entry) /\ old + 1 \in Nat /\ old + 1 > 0 /\ old + 1 <= i
    BY <1>1, KeepsCommitted
  <2>2. /\ more \in Seq(Command) /\ Len(more) = (i - (old + 1)) + 1
        /\ \A k \in 1..((i - (old + 1)) + 1) :
              more[k] = log'[m][((old + 1) + k) - 1].command
    BY <2>1, CommandsApplied
  <2>3. (i - (old + 1)) + 1 = i - old /\ i - old \in Nat
    BY <2>1
  <2> HIDE DEF more
  <2>4. /\ Len(more) = i - old
        /\ \A k \in 1..(i - old) : more[k] = log'[m][((old + 1) + k) - 1].command
    BY <2>2, <2>3
  <2>5. /\ stateMachine[m] \in Seq(Command) /\ Len(stateMachine[m]) = old
        /\ \A k \in 1..old : stateMachine[m][k] = log'[m][k].command
    BY <1>1, <1>2, <1>6
  <2>6. /\ Len(stateMachine[m] \o more) = i
        /\ \A k \in 1..i : (stateMachine[m] \o more)[k] =
                              IF k <= old THEN stateMachine[m][k] ELSE more[k - old]
    <3> HIDE DEF old
    <3>0. stateMachine[m] \in Seq(Command) /\ more \in Seq(Command)
      BY <2>2, <2>5
    <3>1. /\ Len(stateMachine[m] \o more) = Len(stateMachine[m]) + Len(more)
          /\ \A k \in 1..(Len(stateMachine[m]) + Len(more)) : (stateMachine[m] \o more)[k] =
                IF k <= Len(stateMachine[m]) THEN stateMachine[m][k]
                ELSE more[k - Len(stateMachine[m])]
      BY <3>0, Joined
    <3>2. old + (i - old) = i
      BY <2>1
    <3> QED
      BY <2>4, <2>5, <3>1, <3>2
  <2>7. ASSUME NEW k \in 1..i
        PROVE  (stateMachine[m] \o more)[k] = log'[m][k].command
    <3>1. CASE k <= old
      BY <2>1, <2>5, <2>6, <3>1
    <3>2. CASE ~(k <= old)
      <4>1. k - old \in 1..(i - old) /\ ((old + 1) + (k - old)) - 1 = k
        BY <2>1, <3>2
      <4>2. more[k - old] = log'[m][((old + 1) + (k - old)) - 1].command
        BY <2>4, <4>1
      <4> QED
        BY <2>6, <3>2, <4>1, <4>2
    <3> QED
      BY <3>1, <3>2
  <2>8. /\ commitIndex'[m] = i /\ lastApplied'[m] = i /\ stateMachine'[m] = stateMachine[m] \o more
    BY <1>1, <1>3, <1>4
  <2> QED
    BY <1>6, <2>6, <2>7, <2>8
<1> QED
  BY <1>5, <1>6

LEMMA AppliedStep ==
    ASSUME Base, Move, OfficeFresh, NoInstalls, Completeness, CommitsOK, AppliedOK,
           MatchOK', SelfStored
    PROVE  AppliedOK'
<1>1. CASE UNCHANGED applyVars
  <2>1. ASSUME NEW n \in Server, NEW k \in 1..commitIndex[n]
        PROVE  log'[n][k] = log[n][k]
    BY <2>1, KeepsCommitted
  <2> QED
    BY <1>1, <2>1 DEF AppliedOK, applyVars
<1>2. ASSUME NEW c \in appendCalls, Follows(c) PROVE AppliedOK'
  <2>1. /\ c.to \in Server /\ c.commit \in Nat /\ c.commit <= Len(log'[c.to])
    BY <1>2, FollowsCertified
  <2>2. c.commit > commitIndex[c.to] /\ CommitAndApply(c.to, log'[c.to], 0, c.commit)
    BY <1>2 DEF Follows
  <2> QED
    BY <2>1, <2>2, AppliesLog
<1>3. ASSUME NEW c \in appendCalls, Counts(c) PROVE AppliedOK'
  <2> DEFINE m == c.from
             i == NewCommitIndex(m, matchIndex'[m])
  <2>1. m \in Server /\ i \in 1..Len(log'[m]) /\ i > commitIndex[m]
    BY <1>3, CountsCertified
  <2>2. CommitAndApply(m, log'[m], 0, i)
    BY <1>3 DEF Counts
  <2>3. i \in Nat /\ i <= Len(log'[m])
    <3>1. log'[m] \in Seq(Entry)
      BY <2>1, KeepsCommitted
    <3> HIDE DEF i
    <3> QED
      BY <2>1, <3>1
  <2> HIDE DEF i
  <2> QED
    BY <2>1, <2>2, <2>3, AppliesLog
<1> QED
  BY <1>1, <1>2, <1>3, CommitStep

-----------------------------------------------------------------------------
(* The inductive invariant of a run that nothing has compacted yet. *)

CallsSafe == VoteCallsOK /\ LeaderCallsOK /\ AppendCallsOK
Elected == Completeness /\ Persist /\ VotesComplete
Committed == SelfStored /\ MatchOK /\ CommitsOK /\ AppliedOK
Safe == TermsOK /\ StoresOK /\ CallsSafe /\ Elected /\ Committed
SafetyInv == LogInv /\ (NothingCompacted => Safe)

LEMMA SafetyInvInit ==
    ASSUME Init, termLog = [t \in {} |-> <<>>], stored = {}
    PROVE  SafetyInv
<1>1. LogInv
  BY LogInvInit
<1>2. /\ DOMAIN termLog = {} /\ Appends = {} /\ Len(<<>>) = 0
      /\ \A n \in Server : /\ log[n] = <<>> /\ currentTerm[n] = 0 /\ state[n] = "Follower"
                           /\ pc[n] = "top" /\ commitIndex[n] = 0 /\ lastApplied[n] = 0
                           /\ stateMachine[n] = <<>>
      /\ appendCalls = {} /\ voteCalls = {}
  BY DEF Init, Appends
<1>3. TermsOK
  <2>1. TermLogsOK(termLog)
    BY <1>2 DEF TermLogsOK
  <2>2. LogOK(<<>>, termLog, 0)
    BY DEF LogOK
  <2>3. \A n \in Server : LogOK(log[n], termLog, currentTerm[n])
    BY <1>2, <2>2
  <2> QED
    BY <1>2, <2>1, <2>3 DEF TermsOK
<1>4. StoresOK /\ CallsSafe
  BY <1>2 DEF StoresOK, CallsSafe, VoteCallsOK, LeaderCallsOK, AppendCallsOK
<1>5. Elected
  BY <1>2 DEF Elected, Completeness, Persist, VotesComplete
<1>6. SelfStored /\ MatchOK
  BY <1>2 DEF SelfStored, MatchOK
<1>7. CommitsOK
  BY <1>2 DEF CommitsOK, Certified
<1>8. AppliedOK
  BY <1>2 DEF AppliedOK
<1> QED
  BY <1>1, <1>3, <1>4, <1>5, <1>6, <1>7, <1>8 DEF SafetyInv, Safe, Committed

\* A step of the cluster, with what is remembered of it.
LEMMA SafeStep ==
    ASSUME TypeInv, NoInstalls, NothingCompacted, Safe, Move, OfficeFresh
    PROVE  Safe'
<1>1. Base
  BY DEF Base, Safe, CallsSafe
<1>2. TermsOK'
  BY TermsOKStep DEF Safe, CallsSafe, Move, Record
<1>3. StoresOK'
  BY <1>1, StoresOKStep
<1>4. CallsSafe'
  <2>1. VoteCallsOK /\ LeaderCallsOK /\ CommitsOK
    BY DEF Safe, CallsSafe, Committed
  <2> QED
    BY <1>1, <2>1, VoteCallsStep, LeaderCallsStep, AppendCallsStep DEF CallsSafe
<1>5. Elected'
  <2>1. Completeness /\ Persist /\ VotesComplete /\ VoteCallsOK
    BY DEF Safe, CallsSafe, Elected
  <2> QED
    BY <1>1, <2>1, CompletenessStep, PersistStep, VotesCompleteStep DEF Elected
<1>6. Committed'
  <2>1. /\ LeaderCallsOK /\ MatchOK /\ SelfStored /\ Completeness /\ CommitsOK /\ AppliedOK
    BY DEF Safe, CallsSafe, Elected, Committed
  <2>2. MatchOK' /\ SelfStored'
    BY <1>1, <2>1, MatchStep, SelfStoredStep
  <2> QED
    BY <1>1, <2>1, <2>2, CommitsStep, AppliedStep DEF Committed
<1> QED
  BY <1>2, <1>3, <1>4, <1>5, <1>6 DEF Safe

\* Doing nothing.
LEMMA SafeStutters ==
    ASSUME Safe, vars' = vars, history' = history
    PROVE  Safe'
<1> USE DEF vars, electionVars, logVars, applyVars, leaderVars, loopVars, voteVars, callVars,
            clientVars, history
<1>1. Appends' = Appends
  BY DEF Appends
<1>2. \A m : Running(m)' <=> Running(m)
  BY DEF Running
<1>3. \A v, m : Claim(v, m)' <=> Claim(v, m)
  BY DEF Claim
<1>4. \A t : TermClosed(t)' <=> TermClosed(t)
  BY <1>3 DEF TermClosed
<1>5. TermsOK'
  BY <1>4 DEF Safe, TermsOK
<1>6. StoresOK'
  BY DEF Safe, StoresOK
<1>7. CallsSafe'
  <2>1. VoteCallsOK'
    BY <1>2 DEF Safe, CallsSafe, VoteCallsOK
  <2>2. LeaderCallsOK'
    BY DEF Safe, CallsSafe, LeaderCallsOK
  <2>3. AppendCallsOK'
    BY <1>1 DEF Safe, CallsSafe, AppendCallsOK
  <2> QED
    BY <2>1, <2>2, <2>3 DEF CallsSafe
<1>8. Elected'
  <2>1. Completeness'
    BY DEF Safe, Elected, Completeness
  <2>2. Persist'
    BY DEF Safe, Elected, Persist
  <2>3. VotesComplete'
    BY <1>2, <1>3 DEF Safe, Elected, VotesComplete
  <2> QED
    BY <2>1, <2>2, <2>3 DEF Elected
<1>9. Committed'
  <2>1. SelfStored' /\ MatchOK'
    BY DEF Safe, Committed, SelfStored, MatchOK
  <2>2. CommitsOK' /\ AppliedOK'
    BY DEF Safe, Committed, CommitsOK, AppliedOK
  <2> QED
    BY <2>1, <2>2 DEF Committed
<1> QED
  BY <1>5, <1>6, <1>7, <1>8, <1>9 DEF Safe

\* What the hypotheses of the theorems say of one step.
Watched ==
    /\ [Next]_vars
    /\ [vars' # vars /\ Record]_<<vars, history>>
    /\ [OfficeFresh]_vars

LEMMA SafetyInvNext ==
    ASSUME SafetyInv, Watched
    PROVE  SafetyInv'
<1>1. LogInv'
  BY LogInvNext DEF SafetyInv, Watched
<1>2. CASE vars' = vars
  <2>1. history' = history
    BY <1>2 DEF Watched
  <2>2. NothingCompacted' => NothingCompacted
    BY <1>2 DEF vars, logVars, NothingCompacted
  <2> QED
    BY <1>1, <1>2, <2>1, <2>2, SafeStutters DEF SafetyInv
<1>3. CASE vars' # vars
  <2>1. Next /\ Record /\ OfficeFresh
    BY <1>3 DEF Watched
  <2>2. ASSUME NothingCompacted' PROVE Safe'
    <3>1. TypeInv
      BY DEF SafetyInv, LogInv
    <3>2. NothingCompacted
      BY <2>1, <2>2, <3>1, CompactedForGood
    <3>3. Safe /\ NoInstalls
      BY <3>2 DEF SafetyInv, LogInv, LogsMatch
    <3>4. Move
      BY <2>1, <2>2 DEF Move
    <3> QED
      BY <2>1, <3>1, <3>2, <3>3, <3>4, SafeStep
  <2> QED
    BY <1>1, <2>2 DEF SafetyInv
<1> QED
  BY <1>2, <1>3

-----------------------------------------------------------------------------
(* What follows from it. *)

\* The first i entries of node n lead up to entry j of the log of term t, which
\* a majority has stored.
LeadsTo(n, i, t, j) ==
    /\ t \in DOMAIN termLog /\ t \in Nat /\ j \in 1..Len(termLog[t]) /\ t <= currentTerm[n]
    /\ Chosen(termLog, stored, t, j) /\ i <= j /\ Agree(log[n], termLog[t], i)

\* Whatever a node has committed was stored by a majority.
LEMMA CommittedLeads ==
    ASSUME TypeInv, Safe, NEW n \in Server, NEW i \in 1..commitIndex[n]
    PROVE  \E t, j : LeadsTo(n, i, t, j)
<1>1. commitIndex[n] \in Nat /\ i \in Nat /\ i > 0 /\ i <= commitIndex[n]
  BY DEF TypeInv, StoreTypeOK
<1>2. Certified(termLog, stored, log[n], commitIndex[n], currentTerm[n])
  BY DEF Safe, Committed, CommitsOK
<1>3. PICK t \in DOMAIN termLog : \E j \in 1..Len(termLog[t]) :
         /\ t <= currentTerm[n] /\ Chosen(termLog, stored, t, j) /\ commitIndex[n] <= j
         /\ Agree(log[n], termLog[t], commitIndex[n])
  BY <1>1, <1>2 DEF Certified
<1>4. PICK j \in 1..Len(termLog[t]) :
         /\ t <= currentTerm[n] /\ Chosen(termLog, stored, t, j) /\ commitIndex[n] <= j
         /\ Agree(log[n], termLog[t], commitIndex[n])
  BY <1>3
<1>5. t \in Nat /\ Len(termLog[t]) \in Nat /\ Len(log[n]) \in Nat
  BY LogTyped DEF Safe, TermsOK, TermLogsOK, LogOK
<1>6. i <= j /\ Agree(log[n], termLog[t], i)
  BY <1>1, <1>4, <1>5 DEF Agree
<1> QED
  BY <1>4, <1>5, <1>6 DEF LeadsTo

\* Logs that lead up to entries a majority has stored agree.
LEMMA LeadersAgree ==
    ASSUME Safe, NEW n, NEW m, NEW i \in Nat, i > 0,
           NEW t, NEW j, LeadsTo(n, i, t, j), NEW u, NEW k, LeadsTo(m, i, u, k), t <= u
    PROVE  log[n][i] = log[m][i]
<1>1. i \in 1..i /\ log[n][i] = termLog[t][i] /\ log[m][i] = termLog[u][i]
  BY DEF LeadsTo, Agree
<1>2. CASE t = u
  BY <1>1, <1>2
<1>3. CASE t # u
  <2>1. t < u /\ t \in DOMAIN termLog /\ u \in DOMAIN termLog /\ j \in 1..Len(termLog[t])
    BY <1>3 DEF LeadsTo
  <2>2. OwnEntry(termLog, t, j) /\ Choosable(stored, currentTerm, t, j)
    BY ChosenChoosable DEF LeadsTo
  <2>3. Agree(termLog[u], termLog[t], j)
    BY <2>1, <2>2 DEF Safe, Elected, Completeness
  <2>4. Len(termLog[t]) \in Nat
    BY <2>1, LogTyped DEF Safe, TermsOK, TermLogsOK, LogOK
  <2>5. i \in 1..j
    BY <2>1, <2>4 DEF LeadsTo
  <2> QED
    BY <1>1, <2>3, <2>5 DEF Agree
<1> QED
  BY <1>2, <1>3

LEMMA CommittedAgree ==
    ASSUME TypeInv, Safe, NEW n \in Server, NEW m \in Server,
           NEW i \in 1..commitIndex[n], i <= commitIndex[m]
    PROVE  log[n][i] = log[m][i]
<1>1. commitIndex[n] \in Nat /\ commitIndex[m] \in Nat
  BY DEF TypeInv, StoreTypeOK
<1>2. i \in Nat /\ i > 0 /\ i \in 1..commitIndex[m]
  BY <1>1
<1>3. PICK t, j : LeadsTo(n, i, t, j)
  BY CommittedLeads
<1>4. PICK u, k : LeadsTo(m, i, u, k)
  BY <1>2, CommittedLeads
<1>5. t <= u \/ u <= t
  BY <1>3, <1>4 DEF LeadsTo
<1>6. CASE t <= u
  BY <1>2, <1>3, <1>4, <1>6, LeadersAgree
<1>7. CASE u <= t
  BY <1>2, <1>3, <1>4, <1>7, LeadersAgree
<1> QED
  BY <1>5, <1>6, <1>7

LEMMA SafeStateMachines ==
    ASSUME TypeInv, Safe
    PROVE  StateMachineSafety
<1> SUFFICES ASSUME NEW n \in Server, NEW m \in Server,
                    NEW k \in 1..Min({Len(stateMachine[n]), Len(stateMachine[m])})
             PROVE  stateMachine[n][k] = stateMachine[m][k]
  BY DEF StateMachineSafety
<1>1. commitIndex[n] \in Nat /\ commitIndex[m] \in Nat
  BY DEF TypeInv, StoreTypeOK
<1>2. /\ Len(stateMachine[n]) = commitIndex[n] /\ Len(stateMachine[m]) = commitIndex[m]
      /\ \A i \in 1..commitIndex[n] : stateMachine[n][i] = log[n][i].command
      /\ \A i \in 1..commitIndex[m] : stateMachine[m][i] = log[m][i].command
  BY DEF Safe, Committed, AppliedOK
<1> DEFINE a == commitIndex[n]
           b == commitIndex[m]
<1>3. Min({a, b}) = IF a <= b THEN a ELSE b
  <2>1. a \in Int /\ b \in Int
    BY <1>1
  <2> HIDE DEF a, b
  <2> QED
    BY <2>1, MinOfTwo
<1>4. k \in 1..Min({a, b})
  BY <1>2
<1>5. k \in 1..a /\ k \in 1..b /\ k <= b
  <2> HIDE DEF a, b
  <2>1. a \in Nat /\ b \in Nat
    BY <1>1 DEF a, b
  <2> QED
    BY <1>3, <1>4, <2>1
<1>6. log[n][k] = log[m][k]
  BY <1>5, CommittedAgree
<1> QED
  BY <1>2, <1>5, <1>6

LEMMA SafeLeaders ==
    ASSUME TypeInv, NothingCompacted, Safe
    PROVE  LeaderCompleteness
<1> SUFFICES ASSUME NEW n \in Server, NEW m \in Server, state[m] = "Leader",
                    currentTerm[m] >= currentTerm[n], NEW i \in 1..commitIndex[n]
             PROVE  HasEntry(m, i) /\ EntryAt(m, i) = EntryAt(n, i)
  BY DEF LeaderCompleteness
<1> DEFINE u == currentTerm[m]
<1>1. /\ u \in DOMAIN termLog /\ u \in Nat /\ termLog[u] = log[m] /\ Len(log[m]) \in Nat
      /\ currentTerm[n] \in Nat /\ commitIndex[n] \in Nat
  BY LogTyped DEF Safe, TermsOK, LogOK, TypeInv, ElectionInv, ElectionTypeOK, StoreTypeOK
<1>2. PICK t, j : LeadsTo(n, i, t, j)
  BY CommittedLeads
<1>3. Agree(log[m], termLog[t], i)
  <2>1. CASE t = u
    <3>1. i <= Len(log[m])
      BY <1>1, <1>2, <2>1 DEF LeadsTo
    <3> QED
      BY <1>1, <2>1, <3>1 DEF Agree
  <2>2. CASE t # u
    <3>1. t < u /\ t \in DOMAIN termLog /\ j \in 1..Len(termLog[t]) /\ i <= j
      BY <1>1, <1>2, <2>2 DEF LeadsTo
    <3>2. OwnEntry(termLog, t, j) /\ Choosable(stored, currentTerm, t, j)
      BY <1>2, ChosenChoosable DEF LeadsTo
    <3>3. Agree(termLog[u], termLog[t], j)
      BY <1>1, <3>1, <3>2 DEF Safe, Elected, Completeness
    <3>4. Len(termLog[t]) \in Nat
      BY <3>1, LogTyped DEF Safe, TermsOK, TermLogsOK, LogOK
    <3> QED
      BY <1>1, <3>1, <3>3, <3>4 DEF Agree
  <2> QED
    BY <2>1, <2>2
<1>4. i \in 1..Len(log[m]) /\ log[m][i] = log[n][i]
  <2>1. Agree(log[n], termLog[t], i)
    BY <1>2 DEF LeadsTo
  <2> QED
    BY <1>1, <1>3, <2>1 DEF Agree
<1>5. snapshot[m].index = 0 /\ snapshot[n].index = 0 /\ i - 0 = i
  BY <1>1 DEF NothingCompacted, NoSnapshot
<1> QED
  BY <1>4, <1>5 DEF HasEntry, EntryAt

LEMMA SafeCommits ==
    ASSUME TypeInv, NothingCompacted, Safe
    PROVE  CommittedOnMajority
<1> SUFFICES ASSUME NEW n \in Server, NEW i \in 1..commitIndex[n]
             PROVE  Cardinality({m \in Server : HasEntry(m, i) /\ EntryAt(m, i) = EntryAt(n, i)})
                       >= Majority
  BY DEF CommittedOnMajority
<1> DEFINE have == {m \in Server : HasEntry(m, i) /\ EntryAt(m, i) = EntryAt(n, i)}
<1>1. PICK t, j : LeadsTo(n, i, t, j)
  BY CommittedLeads
<1>2. OwnEntry(termLog, t, j) /\ Choosable(stored, currentTerm, t, j)
  BY <1>1, ChosenChoosable DEF LeadsTo
<1>3. PICK Q \in SUBSET Server : /\ Cardinality(Q) >= Majority
                                 /\ \A p \in Q : StoredUpTo(stored, p, t, j)
  BY <1>1 DEF LeadsTo, Chosen
<1>4. /\ i \in Nat /\ i > 0 /\ Len(termLog[t]) \in Nat /\ j \in Nat /\ i <= j
      /\ log[n][i] = termLog[t][i]
  <2>1. Len(termLog[t]) \in Nat /\ commitIndex[n] \in Nat
    BY <1>1, LogTyped DEF LeadsTo, Safe, TermsOK, TermLogsOK, LogOK, TypeInv, StoreTypeOK
  <2> QED
    BY <1>1, <2>1 DEF LeadsTo, Agree
<1>5. ASSUME NEW p \in Q PROVE p \in have
  <2>1. PICK s \in stored : s.node = p /\ s.term = t /\ s.index >= j
    BY <1>3 DEF StoredUpTo
  <2>2. s.index \in Nat
    BY DEF Safe, StoresOK
  <2>3. j \in 1..s.index
    BY <1>4, <2>1, <2>2
  <2>4. Agree(log[p], termLog[t], j)
    BY <1>2, <2>1, <2>3 DEF Safe, Elected, Persist
  <2>5. log[p] \in Seq(Entry) /\ p \in Server
    BY <1>3 DEF TypeInv, StoreTypeOK
  <2>6. i \in 1..Len(log[p]) /\ log[p][i] = termLog[t][i]
    BY <1>4, <2>4, <2>5 DEF Agree
  <2>7. snapshot[p].index = 0 /\ snapshot[n].index = 0 /\ i - 0 = i
    BY <1>4, <2>5 DEF NothingCompacted, NoSnapshot
  <2> QED
    BY <1>4, <2>5, <2>6, <2>7 DEF HasEntry, EntryAt
<1>6. Q \in SUBSET have /\ have \in SUBSET Server
  BY <1>5
<1> HIDE DEF have
<1>7. IsFiniteSet(have)
  BY <1>6, ServerAssumption, FS_Subset
<1>8. /\ Cardinality(Q) <= Cardinality(have) /\ Cardinality(Q) \in Nat
      /\ Cardinality(have) \in Nat
  BY <1>6, <1>7, FS_Subset, FS_CardinalityType
<1>9. Majority \in Int
  BY ServerAssumption, FS_CardinalityType DEF Majority
<1> QED
  BY <1>3, <1>8, <1>9 DEF have

LEMMA SafeSnapshots ==
    ASSUME TypeInv, NothingCompacted, Safe
    PROVE  CompactedIsApplied
<1> SUFFICES ASSUME NEW n \in Server
             PROVE  snapshot[n].index <= lastApplied[n] /\ lastApplied[n] <= LastIndex(n)
  BY DEF CompactedIsApplied
<1>1. lastApplied[n] = commitIndex[n] /\ commitIndex[n] <= Len(log[n])
  BY DEF Safe, Committed, AppliedOK, CommitsOK
<1>2. commitIndex[n] \in Nat /\ log[n] \in Seq(Entry) /\ snapshot[n].index = 0
  BY DEF TypeInv, StoreTypeOK, NothingCompacted, NoSnapshot
<1>3. Len(log[n]) \in Nat
  BY <1>2
<1> QED
  BY <1>1, <1>2, <1>3 DEF LastIndex

LEMMA SafeCommitIndices ==
    ASSUME SafetyInv, Watched, NothingCompacted', NEW n \in Server
    PROVE  commitIndex'[n] >= commitIndex[n]
<1>1. TypeInv
  BY DEF SafetyInv, LogInv
<1>2. CASE vars' = vars
  BY <1>1, <1>2 DEF vars, applyVars, TypeInv, StoreTypeOK
<1>3. CASE vars' # vars
  <2>1. Next /\ Record
    BY <1>3 DEF Watched
  <2>2. NothingCompacted
    BY <1>1, <2>1, CompactedForGood
  <2>3. Base /\ Move /\ NoInstalls
    BY <1>1, <2>1, <2>2 DEF SafetyInv, LogInv, LogsMatch, Safe, CallsSafe, Base, Move
  <2> QED
    BY <2>3, CommitsRise
<1> QED
  BY <1>2, <1>3

\* The argument common to the theorems below.
LEMMA SafetyAlways == Spec /\ History /\ FreshStart => []SafetyInv
<1>1. Init /\ termLog = [t \in {} |-> <<>>] /\ stored = {} => SafetyInv
  BY SafetyInvInit
<1>2. SafetyInv /\ Watched => SafetyInv'
  BY SafetyInvNext
<1> QED
  BY <1>1, <1>2, PTL DEF Spec, History, FreshStart, Watched

\* Any two nodes have applied the same commands in the same order, through every
\* change of leader and every late, reordered or abandoned AppendEntries call, as
\* long as no log is compacted, in every run in which no append goroutine outlives
\* its node's leadership into the next one of that node.
THEOREM RaftStateMachineSafety ==
    Spec /\ History /\ FreshStart => [](NothingCompacted => StateMachineSafety)
<1>1. SafetyInv => (NothingCompacted => StateMachineSafety)
  BY SafeStateMachines DEF SafetyInv, LogInv
<1> QED
  BY <1>1, SafetyAlways, PTL

\* Under the same conditions a leader holds every entry that was committed in its
\* term or an earlier one, on whichever node.
THEOREM RaftLeaderCompleteness ==
    Spec /\ History /\ FreshStart => [](NothingCompacted => LeaderCompleteness)
<1>1. SafetyInv => (NothingCompacted => LeaderCompleteness)
  BY SafeLeaders DEF SafetyInv, LogInv
<1> QED
  BY <1>1, SafetyAlways, PTL

\* Under the same conditions a majority of the nodes holds whatever is committed
\* (the property asks it of what a leader has committed), also when logs have been
\* truncated and leaders replaced since.
THEOREM RaftCommittedOnMajority ==
    Spec /\ History /\ FreshStart => [](NothingCompacted => CommittedOnMajority)
<1>1. SafetyInv => (NothingCompacted => CommittedOnMajority)
  BY SafeCommits DEF SafetyInv, LogInv
<1> QED
  BY <1>1, SafetyAlways, PTL

\* Under the same conditions no call truncates a log below what its node has
\* applied.  (What a snapshot swallows stays with the model checker.)
THEOREM RaftAppliedInLog ==
    Spec /\ History /\ FreshStart => [](NothingCompacted => CompactedIsApplied)
<1>1. SafetyInv => (NothingCompacted => CompactedIsApplied)
  BY SafeSnapshots DEF SafetyInv, LogInv
<1> QED
  BY <1>1, SafetyAlways, PTL

\* In a run that compacts no log, and under the same condition, no commit index
\* goes back, whatever call or reply comes late.
THEOREM RaftCommitMonotonic ==
    Spec /\ History /\ FreshStart /\ []NothingCompacted => CommitMonotonic
<1> DEFINE Rises == \A n \in Server : commitIndex'[n] >= commitIndex[n]
<1>1. SafetyInv /\ Watched /\ NothingCompacted' => Rises
  BY SafeCommitIndices
<1> QED
  BY <1>1, SafetyAlways, PTL DEF Spec, History, FreshStart, Watched, CommitMonotonic
=============================================================================
