----------------------------- MODULE RaftProofs -----------------------------
(***************************************************************************)
(* Proofs about labs/raft for every set of nodes and every value of the    *)
(* bounds: at most one leader per term, at most one vote per node and      *)
(* term, every field of its kind; then about its logs: what compaction may *)
(* discard, that a leader only appends, and, until a log is compacted,     *)
(* that logs match and every index is applied once.                        *)
(***************************************************************************)
EXTENDS Raft, SequenceLemmas, SequenceTheorems

\* The part of TypeOK the elections depend on.
ElectionTypeOK ==
    /\ currentTerm \in [Server -> Nat]
    /\ votedFor \in [Server -> Server \cup {Nobody}]
    /\ state \in [Server -> Role]
    /\ pc \in [Server -> Loop]
    /\ electionTerm \in [Server -> Nat]
    /\ votes \in [Server -> SUBSET Server]
    /\ \A c \in voteCalls : c.from \in Server /\ c.to \in Server /\ c.term \in Nat
    /\ \A r \in voteReplies : r.from \in Server /\ r.to \in Server /\ r.term \in Nat
    /\ \A c \in appendCalls : c.from \in Server /\ c.to \in Server /\ c.term \in Nat

\* v has voted for n's latest election: the vote is counted or on its way.
Claim(v, n) == \/ v \in votes[n]
               \/ \E r \in voteReplies : r.to = n /\ r.from = v /\ r.granted

\* A node's latest election is not in the future.
ElectionTermPast == \A n \in Server : electionTerm[n] <= currentTerm[n]

\* A reply on voteReplyCh answers the election its reader is collecting for.
RepliesCurrent ==
    \A r \in voteReplies : r.election = electionTerm[r.to] /\ pc[r.to] = "collect"

\* A voter that backs n is still bound by that vote, or has left the term.
VotesBind ==
    \A v, n \in Server : Claim(v, n) =>
        \/ currentTerm[v] > electionTerm[n]
        \/ currentTerm[v] = electionTerm[n] /\ votedFor[v] = n

\* No node backs two elections of one term.
VotesDisjoint ==
    \A v, n, m \in Server :
        Claim(v, n) /\ Claim(v, m) /\ electionTerm[n] = electionTerm[m] => n = m

\* A leader holds a majority of its term's votes, and its main goroutine is not
\* inside runCandidate.
LeaderElected ==
    \A n \in Server : state[n] = "Leader" =>
        /\ electionTerm[n] = currentTerm[n]
        /\ Cardinality(votes[n]) >= Majority
        /\ pc[n] \in {"top", "lead", "leadLoop", "done"}

\* A node that counts votes does so in the term of its election.
CollectsInTerm ==
    \A n \in Server : pc[n] = "collect" /\ state[n] = "Candidate"
        => electionTerm[n] = currentTerm[n]

\* The inductive invariant of election safety.
ElectionInv ==
    /\ ElectionTypeOK /\ ElectionTermPast /\ RepliesCurrent /\ VotesBind
    /\ VotesDisjoint /\ LeaderElected /\ CollectsInTerm

-----------------------------------------------------------------------------
\* The larger of two terms, as the handlers compute it.
LEMMA MaxOfTwo ==
    ASSUME NEW a \in Int, NEW b \in Int
    PROVE  Max({a, b}) = IF a >= b THEN a ELSE b
<1>1. \E x \in {a, b} : \A y \in {a, b} : x >= y
  OBVIOUS
<1>2. Max({a, b}) \in {a, b} /\ \A y \in {a, b} : Max({a, b}) >= y
  BY <1>1 DEF Max
<1> QED
  BY <1>2

\* The smaller of two indices.
LEMMA MinOfTwo ==
    ASSUME NEW a \in Int, NEW b \in Int
    PROVE  Min({a, b}) = IF a <= b THEN a ELSE b
<1>1. \E x \in {a, b} : \A y \in {a, b} : x <= y
  OBVIOUS
<1>2. Min({a, b}) \in {a, b} /\ \A y \in {a, b} : Min({a, b}) <= y
  BY <1>1 DEF Min
<1> QED
  BY <1>2

\* Two majorities of the nodes have a node in common.
LEMMA MajoritiesMeet ==
    ASSUME NEW S \in SUBSET Server, NEW T \in SUBSET Server,
           Cardinality(S) >= Majority, Cardinality(T) >= Majority
    PROVE  S \cap T # {}
<1>1. IsFiniteSet(Server)
  BY ServerAssumption
<1>2. /\ IsFiniteSet(S) /\ IsFiniteSet(T) /\ IsFiniteSet(S \cup T)
      /\ Cardinality(S \cup T) <= Cardinality(Server)
  BY <1>1, FS_Subset
<1>3. Cardinality(S \cup T) = Cardinality(S) + Cardinality(T) - Cardinality(S \cap T)
  BY <1>2, FS_Union
<1>4. /\ Cardinality(S) \in Nat /\ Cardinality(T) \in Nat /\ Cardinality(Server) \in Nat
  BY <1>1, <1>2, FS_CardinalityType
<1>5. SUFFICES ASSUME S \cap T = {} PROVE FALSE
  OBVIOUS
<1>6. Cardinality(S \cap T) = 0
  BY <1>5, FS_EmptySet
<1> QED
  BY <1>2, <1>3, <1>4, <1>6 DEF Majority

\* The invariant's last step: two leaders of one term share a voter.
LEMMA ElectionInvSafe == ElectionInv => ElectionSafety
<1> SUFFICES ASSUME ElectionInv, NEW n \in Server, NEW m \in Server,
                    state[n] = "Leader", state[m] = "Leader",
                    currentTerm[n] = currentTerm[m]
             PROVE  n = m
  BY DEF ElectionSafety
<1>1. /\ Cardinality(votes[n]) >= Majority /\ Cardinality(votes[m]) >= Majority
      /\ electionTerm[n] = electionTerm[m]
  BY DEF ElectionInv, LeaderElected
<1>2. votes[n] \in SUBSET Server /\ votes[m] \in SUBSET Server
  BY DEF ElectionInv, ElectionTypeOK
<1>3. PICK v \in Server : v \in votes[n] /\ v \in votes[m]
  BY <1>1, <1>2, MajoritiesMeet
<1>4. Claim(v, n) /\ Claim(v, m)
  BY <1>3 DEF Claim
<1> QED
  BY <1>1, <1>4 DEF ElectionInv, VotesDisjoint

-----------------------------------------------------------------------------
LEMMA ElectionInvInit == Init => ElectionInv
<1> SUFFICES ASSUME Init PROVE ElectionInv
  OBVIOUS
<1>1. ElectionTypeOK
  BY DEF Init, ElectionTypeOK, Role, Loop
<1>2. \A v, n \in Server : ~Claim(v, n)
  BY DEF Init, Claim
<1> QED
  BY <1>1, <1>2 DEF Init, ElectionInv, ElectionTermPast, RepliesCurrent, VotesBind,
     VotesDisjoint, LeaderElected, CollectsInTerm

\* What an action that moves only main goroutines, append goroutines or data
\* does to the election: pc changes at n only, and not into or out of the
\* collecting loop except by dropping the replies to n.
Quiet(n) ==
    /\ UNCHANGED <<currentTerm, votedFor, state, electionTerm, votes, voteCalls>>
    /\ pc' \in [Server -> Loop]
    /\ \A m \in Server \ {n} : pc'[m] = pc[m]
    /\ \/ pc'[n] = pc[n] /\ voteReplies' = voteReplies
       \/ /\ pc'[n] # "collect"
          /\ state[n] = "Leader" => pc'[n] \in {"top", "lead", "leadLoop", "done"}
          /\ voteReplies' = {r \in voteReplies : r.to # n}

LEMMA QuietStep ==
    ASSUME ElectionInv, NEW n \in Server, Quiet(n),
           \A c \in appendCalls' : c.from \in Server /\ c.to \in Server /\ c.term \in Nat
    PROVE  ElectionInv'
<1> USE DEF ElectionInv
<1>1. ElectionTypeOK'
  BY DEF ElectionTypeOK, Quiet
<1>2. voteReplies' \subseteq voteReplies
  BY DEF Quiet
<1>3. \A v, m \in Server : Claim(v, m)' => Claim(v, m)
  BY <1>2 DEF Claim, Quiet
<1>4. ElectionTermPast' /\ VotesBind' /\ VotesDisjoint'
  BY <1>3 DEF ElectionTermPast, VotesBind, VotesDisjoint, Quiet
<1>5. RepliesCurrent'
  BY <1>2 DEF RepliesCurrent, Quiet, ElectionTypeOK
<1>6. LeaderElected'
  BY DEF LeaderElected, Quiet
<1>7. CollectsInTerm'
  BY DEF CollectsInTerm, Quiet
<1> QED
  BY <1>1, <1>4, <1>5, <1>6, <1>7

\* What the handlers of AppendEntries and InstallSnapshot and the readers of
\* their replies do to the election: node n learns term t, and with a new term
\* it clears its vote and becomes a follower.
Learn(n, t) ==
    /\ t >= currentTerm[n]
    /\ currentTerm' = [currentTerm EXCEPT ![n] = t]
    /\ votedFor' = [votedFor EXCEPT ![n] = IF t > currentTerm[n] THEN Nobody ELSE @]
    /\ state' \in {state, [state EXCEPT ![n] = "Follower"]}
    /\ t > currentTerm[n] => state'[n] = "Follower"
    /\ UNCHANGED <<pc, electionTerm, votes, voteCalls, voteReplies>>

LEMMA LearnStep ==
    ASSUME ElectionInv, NEW n \in Server, NEW t \in Nat, Learn(n, t),
           \A c \in appendCalls' : c.from \in Server /\ c.to \in Server /\ c.term \in Nat
    PROVE  ElectionInv'
<1> USE DEF ElectionInv
<1>1. ElectionTypeOK'
  BY DEF ElectionTypeOK, Learn, Role
<1>2. \A v, m \in Server : Claim(v, m)' <=> Claim(v, m)
  BY DEF Claim, Learn
<1>3. \A m \in Server : currentTerm'[m] >= currentTerm[m]
  BY DEF Learn, ElectionTypeOK
<1>4. ElectionTermPast'
  BY <1>3 DEF ElectionTermPast, Learn, ElectionTypeOK
<1>5. VotesBind'
  BY <1>2, <1>3 DEF VotesBind, Learn, ElectionTypeOK
<1>6. VotesDisjoint' /\ RepliesCurrent'
  BY <1>2 DEF VotesDisjoint, RepliesCurrent, Learn
<1>7. LeaderElected' /\ CollectsInTerm'
  BY DEF LeaderElected, CollectsInTerm, Learn, ElectionTypeOK
<1> QED
  BY <1>1, <1>4, <1>5, <1>6, <1>7

-----------------------------------------------------------------------------
(* The steps of the election itself. *)

LEMMA ElectionTimeoutStep ==
    ASSUME ElectionInv, NEW n \in Server, ElectionTimeout(n)
    PROVE  ElectionInv'
<1> USE DEF ElectionInv, ElectionTimeout, voteVars, callVars
<1>1. ElectionTypeOK'
  BY DEF ElectionTypeOK, Role, Loop
<1>2. \A v, m \in Server : Claim(v, m)' <=> Claim(v, m)
  BY DEF Claim
<1>3. ElectionTermPast' /\ VotesBind' /\ VotesDisjoint'
  BY <1>2 DEF ElectionTermPast, VotesBind, VotesDisjoint
<1>4. RepliesCurrent'
  BY DEF RepliesCurrent, ElectionTypeOK
<1>5. LeaderElected' /\ CollectsInTerm'
  BY DEF LeaderElected, CollectsInTerm, ElectionTypeOK
<1> QED
  BY <1>1, <1>3, <1>4, <1>5

LEMMA StartElectionStep ==
    ASSUME ElectionInv, NEW n \in Server, StartElection(n)
    PROVE  ElectionInv'
<1> USE DEF ElectionInv, StartElection, callVars
<1>1. ElectionTypeOK'
  BY DEF ElectionTypeOK, Role, Loop, Peers
<1>2. \A v \in Server : Claim(v, n)' <=> v = n
  BY DEF Claim, RepliesCurrent, ElectionTypeOK
<1>3. \A v, m \in Server : m # n => (Claim(v, m)' <=> Claim(v, m))
  BY DEF Claim, ElectionTypeOK
<1>4. /\ currentTerm'[n] = currentTerm[n] + 1 /\ electionTerm'[n] = currentTerm'[n]
      /\ votedFor'[n] = n
      /\ \A m \in Server \ {n} : /\ currentTerm'[m] = currentTerm[m]
                                /\ electionTerm'[m] = electionTerm[m]
                                /\ votedFor'[m] = votedFor[m]
  BY DEF ElectionTypeOK
<1>5. ElectionTermPast'
  BY <1>4 DEF ElectionTermPast, ElectionTypeOK
<1>6. VotesBind'
  BY <1>2, <1>3, <1>4 DEF VotesBind, ElectionTypeOK
<1>7. ~\E m \in Server : m # n /\ Claim(n, m) /\ electionTerm[m] = currentTerm[n] + 1
  BY DEF VotesBind, ElectionTypeOK
<1>8. VotesDisjoint'
  BY <1>2, <1>3, <1>4, <1>7 DEF VotesDisjoint, ElectionTypeOK
<1>9. RepliesCurrent'
  BY <1>4 DEF RepliesCurrent, ElectionTypeOK
<1>10. state[n] # "Leader"
  BY DEF LeaderElected
<1>11. LeaderElected' /\ CollectsInTerm'
  BY <1>4, <1>10 DEF LeaderElected, CollectsInTerm, ElectionTypeOK
<1> QED
  BY <1>1, <1>5, <1>6, <1>8, <1>9, <1>11

LEMMA ReceiveVoteReplyStep ==
    ASSUME ElectionInv, NEW n \in Server, NEW r \in voteReplies, ReceiveVoteReply(n, r)
    PROVE  ElectionInv'
<1> USE DEF ElectionInv, callVars
<1>0. /\ pc[n] = "collect" /\ r.to = n /\ r.from \in Server /\ r.term \in Nat
      /\ electionTerm' = electionTerm
      /\ voteCalls' = voteCalls /\ appendCalls' = appendCalls
  BY DEF ReceiveVoteReply, ElectionTypeOK
<1>1. CASE r.term > currentTerm[n]
  <2>1. /\ StepDown(n, r.term) /\ LeaveElection(n) /\ votes' = votes
    BY <1>1, <1>0 DEF ReceiveVoteReply, ElectionTypeOK
  <2>2. ElectionTypeOK'
    BY <1>0, <2>1 DEF ElectionTypeOK, StepDown, LeaveElection, Role, Loop
  <2>3. \A v, m \in Server : Claim(v, m)' => Claim(v, m)
    BY <2>1 DEF Claim, LeaveElection
  <2>4. ElectionTermPast' /\ VotesDisjoint'
    BY <1>0, <1>1, <2>1, <2>3 DEF ElectionTermPast, VotesDisjoint, StepDown, ElectionTypeOK
  <2>5. VotesBind'
    BY <1>0, <1>1, <2>1, <2>3 DEF VotesBind, StepDown, ElectionTypeOK
  <2>6. RepliesCurrent'
    BY <1>0, <2>1 DEF RepliesCurrent, LeaveElection, ElectionTypeOK
  <2>7. LeaderElected' /\ CollectsInTerm'
    BY <1>0, <2>1 DEF LeaderElected, CollectsInTerm, StepDown, LeaveElection, ElectionTypeOK
  <2> QED
    BY <2>2, <2>4, <2>5, <2>6, <2>7
<1>2. CASE r.term <= currentTerm[n]
  <2>1. /\ votes' = [votes EXCEPT ![n] = CountVote(n, r)]
        /\ UNCHANGED <<currentTerm, votedFor>>
        /\ IF CountVote(n, r) # votes[n] /\ Cardinality(CountVote(n, r)) >= Majority
           THEN BecomeLeader(n) /\ LeaveElection(n)
           ELSE voteReplies' = voteReplies \ {r} /\ UNCHANGED <<state, pc>>
    BY <1>0, <1>2 DEF ReceiveVoteReply, ElectionTypeOK
  <2>2. voteReplies' \subseteq voteReplies
    BY <2>1 DEF LeaveElection
  <2>3. ElectionTypeOK'
    <3>1. CountVote(n, r) \in SUBSET Server
      BY <1>0 DEF CountVote, ElectionTypeOK
    <3> QED
      BY <1>0, <2>1, <2>2, <3>1 DEF ElectionTypeOK, BecomeLeader, LeaveElection, Role, Loop
  <2>4. \A v, m \in Server : Claim(v, m)' => Claim(v, m)
    BY <1>0, <2>1, <2>2 DEF Claim, CountVote, ElectionTypeOK
  <2>5. ElectionTermPast' /\ VotesDisjoint' /\ VotesBind'
    BY <1>0, <2>1, <2>4 DEF ElectionTermPast, VotesDisjoint, VotesBind
  <2>6. RepliesCurrent'
    BY <1>0, <2>1, <2>2 DEF RepliesCurrent, BecomeLeader, LeaveElection, ElectionTypeOK
  <2>7. state[n] # "Leader"
    BY <1>0 DEF LeaderElected
  <2>8. CASE CountVote(n, r) # votes[n] /\ Cardinality(CountVote(n, r)) >= Majority
    <3>1. electionTerm[n] = currentTerm[n]
      BY <1>0, <2>8 DEF CountVote, CollectsInTerm
    <3>2. LeaderElected'
      BY <1>0, <2>1, <2>8, <3>1 DEF LeaderElected, BecomeLeader, LeaveElection, ElectionTypeOK
    <3>3. CollectsInTerm'
      BY <1>0, <2>1, <2>8 DEF CollectsInTerm, BecomeLeader, LeaveElection, ElectionTypeOK
    <3> QED
      BY <2>3, <2>5, <2>6, <3>2, <3>3
  <2>9. CASE ~(CountVote(n, r) # votes[n] /\ Cardinality(CountVote(n, r)) >= Majority)
    <3>1. LeaderElected' /\ CollectsInTerm'
      BY <1>0, <2>1, <2>7, <2>9 DEF LeaderElected, CollectsInTerm, ElectionTypeOK
    <3> QED
      BY <2>3, <2>5, <2>6, <3>1
  <2> QED
    BY <2>8, <2>9
<1> QED
  BY <1>0, <1>1, <1>2 DEF ElectionTypeOK

LEMMA HandleRequestVoteStep ==
    ASSUME ElectionInv, NEW c \in voteCalls, HandleRequestVote(c)
    PROVE  ElectionInv'
<1> DEFINE n == c.to
           granted == VoteGranted(n, c)
           newTerm == IF currentTerm[n] >= c.term THEN currentTerm[n] ELSE c.term
           read == pc[c.from] = "collect" /\ electionTerm[c.from] = c.term
           reply == [from |-> n, to |-> c.from, election |-> c.term,
                     term |-> currentTerm[n], granted |-> granted]
<1> USE DEF ElectionInv, callVars, loopVars
<1>0. n \in Server /\ c.from \in Server /\ c.term \in Nat /\ currentTerm[n] \in Nat
  BY DEF ElectionTypeOK
<1>1. /\ currentTerm' = [currentTerm EXCEPT ![n] = newTerm]
      /\ state' = IF c.term > currentTerm[n] THEN [state EXCEPT ![n] = "Follower"] ELSE state
      /\ votedFor' = [votedFor EXCEPT ![n] = IF granted THEN c.from
                        ELSE IF c.term > currentTerm[n] THEN Nobody ELSE @]
      /\ voteCalls' = voteCalls \ {c}
      /\ voteReplies' = IF read THEN voteReplies \cup {reply} ELSE voteReplies
      /\ pc' = pc /\ electionTerm' = electionTerm /\ votes' = votes
      /\ appendCalls' = appendCalls
  <2>1. newTerm = Max({currentTerm[n], c.term})
    BY <1>0, MaxOfTwo
  <2> HIDE DEF newTerm
  <2> QED
    BY <2>1, Zenon DEF HandleRequestVote
<1>2. granted => /\ newTerm = c.term
                 /\ c.term > currentTerm[n] \/ votedFor[n] \in {Nobody, c.from}
  BY <1>0 DEF VoteGranted
<1> HIDE DEF granted
<1>3. ElectionTypeOK'
  BY <1>0, <1>1 DEF ElectionTypeOK, Role
<1>4. \A v, m \in Server :
         Claim(v, m)' => Claim(v, m) \/ (v = n /\ m = c.from /\ granted /\ read)
  BY <1>0, <1>1 DEF Claim
<1>5. /\ \A m \in Server \ {n} : currentTerm'[m] = currentTerm[m] /\ votedFor'[m] = votedFor[m]
      /\ currentTerm'[n] = newTerm /\ newTerm >= currentTerm[n]
      /\ votedFor'[n] = IF granted THEN c.from
                        ELSE IF c.term > currentTerm[n] THEN Nobody ELSE votedFor[n]
  BY <1>0, <1>1 DEF ElectionTypeOK
<1>6. ElectionTermPast'
  BY <1>0, <1>1, <1>5 DEF ElectionTermPast, ElectionTypeOK
<1>7. VotesBind'
  <2> SUFFICES ASSUME NEW v \in Server, NEW m \in Server, Claim(v, m)'
               PROVE  \/ currentTerm'[v] > electionTerm[m]
                      \/ currentTerm'[v] = electionTerm[m] /\ votedFor'[v] = m
    BY <1>1 DEF VotesBind
  <2>1. CASE v # n
    BY <1>4, <1>5, <2>1 DEF VotesBind, ElectionTypeOK
  <2>2. CASE v = n /\ ~Claim(v, m)
    BY <1>0, <1>2, <1>4, <1>5, <2>2
  <2>3. CASE v = n /\ Claim(v, m)
    <3>1. \/ currentTerm[n] > electionTerm[m]
          \/ currentTerm[n] = electionTerm[m] /\ votedFor[n] = m
      BY <2>3 DEF VotesBind
    <3>2. electionTerm[m] \in Nat /\ m # Nobody
      BY ServerAssumption DEF ElectionTypeOK
    <3> QED
      BY <1>0, <1>2, <1>5, <2>3, <3>1, <3>2
  <2> QED
    BY <2>1, <2>2, <2>3
<1>8. granted /\ read => \A m \in Server :
         Claim(n, m) /\ electionTerm[m] = c.term => m = c.from
  BY <1>0, <1>2, ServerAssumption DEF VotesBind, ElectionTypeOK
<1>9. VotesDisjoint'
  <2> SUFFICES ASSUME NEW v \in Server, NEW m \in Server, NEW k \in Server,
                      Claim(v, m)', Claim(v, k)', electionTerm[m] = electionTerm[k]
               PROVE  m = k
    BY <1>1 DEF VotesDisjoint
  <2> QED
    BY <1>0, <1>4, <1>8 DEF VotesDisjoint
<1>10. RepliesCurrent'
  BY <1>0, <1>1 DEF RepliesCurrent
<1>11. LeaderElected' /\ CollectsInTerm'
  BY <1>0, <1>1, <1>5 DEF LeaderElected, CollectsInTerm, ElectionTypeOK
<1> QED
  BY <1>3, <1>6, <1>7, <1>9, <1>10, <1>11

-----------------------------------------------------------------------------
(* The other actions are Quiet or Learn steps. *)

\* The records of the append goroutines stay well formed.
CallsOK == \A c \in appendCalls : c.from \in Server /\ c.to \in Server /\ c.term \in Nat

\* A step of a main goroutine or of a client is one of the election's three or
\* it is Quiet.
LEMMA MainLoopKind ==
    ASSUME ElectionInv, NEW n \in Server, MainLoop(n) \/ Client(n)
    PROVE  \/ ElectionTimeout(n) \/ StartElection(n)
           \/ \E r \in voteReplies : ReceiveVoteReply(n, r)
           \/ Quiet(n) /\ CallsOK'
<1> USE DEF ElectionInv, electionVars, voteVars, callVars, loopVars
<1>1. /\ currentTerm[n] \in Nat /\ pc \in [Server -> Loop] /\ state[n] \in Role
      /\ CallsOK
  BY DEF ElectionTypeOK, CallsOK
<1>2. CASE Dispatch(n)
  <2>1. \A r \in voteReplies : r.to # n
    BY <1>2 DEF Dispatch, RepliesCurrent
  <2> QED
    BY <1>1, <1>2, <2>1 DEF Dispatch, Quiet, CallsOK, Role, Loop
<1>3. CASE CandidateTimeout(n) \/ Exit(n)
  <2>1. state[n] = "Leader" => pc'[n] = "top" \/ pc'[n] = "done"
    BY <1>1, <1>3 DEF CandidateTimeout, Exit, LeaveElection
  <2> QED
    BY <1>1, <1>3, <2>1 DEF CandidateTimeout, Exit, LeaveElection, Quiet, CallsOK, Loop
<1>4. CASE Broadcast(n) \/ LeaderTick(n) \/ LeaderCommand(n)
  <2>1. \A r \in voteReplies : r.to # n
    BY <1>4 DEF Broadcast, LeaderTick, LeaderCommand, RepliesCurrent
  <2>2. CallsOK'
    BY <1>1, <1>4 DEF Broadcast, LeaderTick, LeaderCommand, CallsOK, Peers
  <2>3. Quiet(n)
    BY <1>1, <1>4, <2>1 DEF Broadcast, LeaderTick, LeaderCommand, Quiet, Loop
  <2> QED
    BY <2>2, <2>3
<1>5. CASE Client(n)
  BY <1>1, <1>5 DEF Client, Stop, Submit, Quiet, CallsOK
<1> QED
  BY <1>2, <1>3, <1>4, <1>5 DEF MainLoop

\* A step of an append goroutine is Quiet, or one node learns a term.
LEMMA AppendGoroutineKind ==
    ASSUME ElectionInv, NEW c \in appendCalls, AppendGoroutine(c)
    PROVE  /\ CallsOK'
           /\ \E n \in Server : Quiet(n) \/ \E t \in Nat : Learn(n, t)
<1> USE DEF ElectionInv, electionVars, voteVars, loopVars
<1>1. /\ c.from \in Server /\ c.to \in Server /\ c.term \in Nat /\ CallsOK
      /\ currentTerm \in [Server -> Nat] /\ pc \in [Server -> Loop]
      /\ votedFor \in [Server -> Server \cup {Nobody}] /\ state \in [Server -> Role]
  BY DEF ElectionTypeOK, CallsOK
<1>2. CASE AbandonCall(c) \/ SendInstallSnapshot(c) \/ SendAppendEntries(c)
  <2>1. Quiet(c.from)
    BY <1>1, <1>2 DEF AbandonCall, SendInstallSnapshot, SendAppendEntries, Quiet
  <2>2. CASE AbandonCall(c)
    <3>1. CallsOK'
      BY <1>1, <2>2 DEF AbandonCall, Finish, CallsOK
    <3> QED
      BY <1>1, <2>1, <3>1
  <2>3. CASE SendInstallSnapshot(c)
    <3>1. \E f : Advance(c, f) /\ f.from = c.from /\ f.to = c.to /\ f.term = c.term
      BY <2>3 DEF SendInstallSnapshot
    <3>2. CallsOK'
      BY <1>1, <3>1 DEF Advance, CallsOK
    <3> QED
      BY <1>1, <2>1, <3>2
  <2>4. CASE SendAppendEntries(c)
    <3>1. \E f : Advance(c, f) /\ f.from = c.from /\ f.to = c.to /\ f.term = c.term
      BY <2>4 DEF SendAppendEntries
    <3>2. CallsOK'
      BY <1>1, <3>1 DEF Advance, CallsOK
    <3> QED
      BY <1>1, <2>1, <3>2
  <2> QED
    BY <1>2, <2>2, <2>3, <2>4
<1>3. CASE HandleAppendEntries(c)
  <2>1. CallsOK'
    BY <1>1, <1>3 DEF HandleAppendEntries, RefuseAppend, FollowAppend, RejectEntries,
       AcceptEntries, AppendReply, Advance, CallsOK
  <2>2. CASE c.term < currentTerm[c.to]
    <3>1. ~FollowAppend(c)
      BY <1>1, <2>2 DEF FollowAppend
    <3>2. Quiet(c.to)
      BY <1>1, <1>3, <3>1 DEF HandleAppendEntries, RefuseAppend, Quiet
    <3> QED
      BY <1>1, <2>1, <3>2
  <2>3. CASE c.term >= currentTerm[c.to]
    <3>1. /\ AdoptTerm(c.to, c.term)
          /\ state' = [state EXCEPT ![c.to] = "Follower"]
          /\ UNCHANGED <<pc, electionTerm, votes, voteCalls, voteReplies>>
      <4>1. ~(c.term < currentTerm[c.to])
        BY <1>1, <2>3
      <4>2. ~RefuseAppend(c)
        BY <4>1 DEF RefuseAppend
      <4> QED
        BY <1>3, <4>2 DEF HandleAppendEntries, FollowAppend
    <3>2. Max({currentTerm[c.to], c.term}) = c.term
      BY <1>1, <2>3, MaxOfTwo
    <3>3. Learn(c.to, c.term)
      BY <1>1, <2>3, <3>1, <3>2 DEF AdoptTerm, Learn
    <3> QED
      BY <1>1, <2>1, <3>3
  <2> QED
    BY <1>1, <2>2, <2>3
<1>4. CASE HandleInstallSnapshot(c)
  <2>1. CallsOK'
    BY <1>1, <1>4 DEF HandleInstallSnapshot, InstallReply, Advance, CallsOK
  <2>2. CASE c.term < currentTerm[c.to]
    <3>1. Quiet(c.to)
      BY <1>1, <1>4, <2>2 DEF HandleInstallSnapshot, Quiet
    <3> QED
      BY <1>1, <2>1, <3>1
  <2>3. CASE c.term >= currentTerm[c.to]
    <3>1. /\ AdoptTerm(c.to, c.term)
          /\ state' = IF c.term > currentTerm[c.to]
                      THEN [state EXCEPT ![c.to] = "Follower"] ELSE state
          /\ UNCHANGED <<pc, electionTerm, votes, voteCalls, voteReplies>>
      BY <1>1, <1>4, <2>3 DEF HandleInstallSnapshot
    <3>2. Max({currentTerm[c.to], c.term}) = c.term
      BY <1>1, <2>3, MaxOfTwo
    <3>3. Learn(c.to, c.term)
      BY <1>1, <2>3, <3>1, <3>2 DEF AdoptTerm, Learn
    <3> QED
      BY <1>1, <2>1, <3>3
  <2> QED
    BY <1>1, <2>2, <2>3
<1>5. CASE ReceiveAppendReply(c) \/ ReceiveInstallReply(c)
  <2>1. CallsOK'
    BY <1>1, <1>5 DEF ReceiveAppendReply, ReceiveInstallReply, Finish, CallsOK
  <2>2. CASE c.term > currentTerm[c.from]
    <3>1. StepDown(c.from, c.term) /\ UNCHANGED <<pc, electionTerm, votes, voteCalls, voteReplies>>
      BY <1>1, <1>5, <2>2 DEF ReceiveAppendReply, ReceiveInstallReply
    <3>2. Learn(c.from, c.term)
      BY <1>1, <2>2, <3>1 DEF StepDown, Learn
    <3> QED
      BY <1>1, <2>1, <3>2
  <2>3. CASE ~(c.term > currentTerm[c.from])
    <3>1. Quiet(c.from)
      BY <1>1, <1>5, <2>3 DEF ReceiveAppendReply, ReceiveInstallReply, Quiet
    <3> QED
      BY <1>1, <2>1, <3>1
  <2> QED
    BY <2>2, <2>3
<1> QED
  BY <1>2, <1>3, <1>4, <1>5 DEF AppendGoroutine

LEMMA ElectionInvNext == ElectionInv /\ [Next]_vars => ElectionInv'
<1> SUFFICES ASSUME ElectionInv, [Next]_vars PROVE ElectionInv'
  OBVIOUS
<1>1. CASE \E n \in Server : MainLoop(n) \/ Client(n)
  <2>1. PICK n \in Server : MainLoop(n) \/ Client(n)
    BY <1>1
  <2>2. CASE Quiet(n) /\ CallsOK'
    BY <2>2, QuietStep DEF CallsOK
  <2> QED
    BY <2>1, <2>2, MainLoopKind, ElectionTimeoutStep, StartElectionStep, ReceiveVoteReplyStep
<1>2. CASE \E c \in voteCalls : HandleRequestVote(c)
  BY <1>2, HandleRequestVoteStep
<1>3. CASE \E c \in appendCalls : AppendGoroutine(c)
  <2>1. PICK c \in appendCalls : AppendGoroutine(c)
    BY <1>3
  <2>2. CallsOK' /\ \E n \in Server : Quiet(n) \/ \E t \in Nat : Learn(n, t)
    BY <2>1, AppendGoroutineKind
  <2> QED
    BY <2>2, QuietStep, LearnStep DEF CallsOK
<1>4. CASE UNCHANGED vars
  <2> USE <1>4 DEF vars, electionVars, loopVars, voteVars, callVars
  <2>1. \A v, n \in Server : Claim(v, n)' <=> Claim(v, n)
    BY DEF Claim
  <2> QED
    BY <2>1 DEF ElectionInv, ElectionTypeOK, ElectionTermPast, RepliesCurrent, VotesBind,
       VotesDisjoint, LeaderElected, CollectsInTerm
<1> QED
  BY <1>1, <1>2, <1>3, <1>4 DEF Next

\* At most one node is Leader in a term, for any number of nodes and whatever the
\* order in which votes, demotions and timers are handled (runCandidate,
\* HandleRequestVote and every place that changes currentTerm).
THEOREM RaftElectionSafety == Spec => []ElectionSafety
<1>1. Init => ElectionInv
  BY ElectionInvInit
<1>2. ElectionInv /\ [Next]_vars => ElectionInv'
  BY ElectionInvNext
<1>3. ElectionInv => ElectionSafety
  BY ElectionInvSafe
<1> QED
  BY <1>1, <1>2, <1>3, PTL DEF Spec

-----------------------------------------------------------------------------
\* The step of VoteOncePerTerm.
KeepsVotes ==
    \A n \in Server :
        /\ currentTerm'[n] >= currentTerm[n]
        /\ currentTerm'[n] = currentTerm[n] /\ votedFor[n] # Nobody
               => votedFor'[n] = votedFor[n]

LEMMA NextKeepsVotes == ElectionInv /\ [Next]_vars => [KeepsVotes]_vars
<1> SUFFICES ASSUME ElectionInv, Next PROVE KeepsVotes
  OBVIOUS
<1>1. /\ currentTerm \in [Server -> Nat]
      /\ votedFor \in [Server -> Server \cup {Nobody}]
  BY DEF ElectionInv, ElectionTypeOK
<1>2. ASSUME NEW n \in Server, Quiet(n) \/ \E t \in Nat : Learn(n, t)
      PROVE  KeepsVotes
  BY <1>1, <1>2 DEF Quiet, Learn, KeepsVotes
<1>3. CASE \E n \in Server : MainLoop(n) \/ Client(n)
  <2>1. PICK n \in Server : MainLoop(n) \/ Client(n)
    BY <1>3
  <2>2. CASE ElectionTimeout(n)
    BY <1>1, <2>2 DEF ElectionTimeout, KeepsVotes
  <2>3. CASE StartElection(n)
    BY <1>1, <2>3 DEF StartElection, KeepsVotes
  <2>4. ASSUME NEW r \in voteReplies, ReceiveVoteReply(n, r)
        PROVE  KeepsVotes
    <3>1. r.term \in Nat
      BY DEF ElectionInv, ElectionTypeOK
    <3>2. CASE r.term > currentTerm[n]
      <4>1. StepDown(n, r.term)
        BY <1>1, <2>4, <3>1, <3>2 DEF ReceiveVoteReply
      <4> QED
        BY <1>1, <3>1, <3>2, <4>1 DEF StepDown, KeepsVotes
    <3>3. CASE r.term <= currentTerm[n]
      BY <1>1, <2>4, <3>1, <3>3 DEF ReceiveVoteReply, KeepsVotes
    <3> QED
      BY <1>1, <3>1, <3>2, <3>3
  <2> QED
    BY <1>2, <2>1, <2>2, <2>3, <2>4, MainLoopKind
<1>4. CASE \E c \in voteCalls : HandleRequestVote(c)
  <2>1. PICK c \in voteCalls : HandleRequestVote(c)
    BY <1>4
  <2>2. c.to \in Server /\ c.from \in Server /\ c.term \in Nat
    BY DEF ElectionInv, ElectionTypeOK
  <2>3. VoteGranted(c.to, c) => /\ c.term >= currentTerm[c.to]
                                /\ \/ c.term > currentTerm[c.to]
                                   \/ votedFor[c.to] \in {Nobody, c.from}
    BY DEF VoteGranted
  <2> DEFINE newTerm == IF currentTerm[c.to] >= c.term THEN currentTerm[c.to] ELSE c.term
  <2>4. /\ currentTerm' = [currentTerm EXCEPT ![c.to] = newTerm]
        /\ votedFor' = [votedFor EXCEPT ![c.to] =
                          IF VoteGranted(c.to, c) THEN c.from
                          ELSE IF c.term > currentTerm[c.to] THEN Nobody ELSE @]
    <3>1. currentTerm[c.to] \in Nat
      BY <1>1, <2>2 DEF ElectionInv, ElectionTypeOK
    <3>2. newTerm = Max({currentTerm[c.to], c.term})
      BY <2>2, <3>1, MaxOfTwo
    <3> HIDE DEF newTerm
    <3> QED
      BY <2>1, <3>2, Zenon DEF HandleRequestVote
  <2> QED
    BY <1>1, <2>2, <2>3, <2>4 DEF KeepsVotes
<1>5. CASE \E c \in appendCalls : AppendGoroutine(c)
  BY <1>2, <1>5, AppendGoroutineKind
<1> QED
  BY <1>3, <1>4, <1>5 DEF Next

\* A node's term never decreases, and in one term it never takes back its vote
\* or gives it to a second candidate, whichever handler, reply or timer runs.
THEOREM RaftVoteOncePerTerm == Spec => VoteOncePerTerm
<1>1. Init => ElectionInv
  BY ElectionInvInit
<1>2. ElectionInv /\ [Next]_vars => ElectionInv'
  BY ElectionInvNext
<1>3. ElectionInv /\ [Next]_vars => [KeepsVotes]_vars
  BY NextKeepsVotes
<1> QED
  BY <1>1, <1>2, <1>3, PTL DEF Spec, VoteOncePerTerm, KeepsVotes

-----------------------------------------------------------------------------
(* Operators on the log. *)

\* What applyCommitted applies: commands, one for each index of a range that
\* lies in the log.
LEMMA CommandsOfLog ==
    ASSUME NEW lg \in Seq(Entry), NEW base \in Nat, NEW lo \in Nat, NEW hi \in Int
    PROVE  /\ CommandsOf(lg, base, lo, hi) \in Seq(Command)
           /\ lo > base /\ hi <= base + Len(lg) =>
                Len(CommandsOf(lg, base, lo, hi)) = IF lo <= hi THEN hi - lo + 1 ELSE 0
<1> DEFINE a == Max({lo - base, 1})
           b == Min({hi - base, Len(lg)})
           s == SubSeq(lg, a, b)
<1>1. Len(lg) \in Nat
  OBVIOUS
<1>2. a \in Int /\ a >= 1 /\ a = IF lo - base >= 1 THEN lo - base ELSE 1
  <2>1. a = IF lo - base >= 1 THEN lo - base ELSE 1
    BY MaxOfTwo
  <2> HIDE DEF a
  <2> QED BY <2>1
<1>3. b \in Int /\ b <= Len(lg) /\ b = IF hi - base <= Len(lg) THEN hi - base ELSE Len(lg)
  <2>1. b = IF hi - base <= Len(lg) THEN hi - base ELSE Len(lg)
    BY <1>1, MinOfTwo
  <2> HIDE DEF b
  <2> QED BY <1>1, <2>1
<1> HIDE DEF a, b
<1>4. s \in Seq(Entry) /\ Len(s) = IF a <= b THEN b - a + 1 ELSE 0
  <2>1. \A i \in a..b : lg[i] \in Entry
    BY <1>1, <1>2, <1>3
  <2> QED BY <1>2, <1>3, <2>1, SubSeqProperties
<1>5. CommandsOf(lg, base, lo, hi) = [k \in 1..Len(s) |-> s[k].command]
  BY DEF CommandsOf, a, b
<1> HIDE DEF s
<1>6. \A k \in 1..Len(s) : s[k].command \in Command
  <2>1. \A k \in 1..Len(s) : s[k] \in Entry
    BY <1>4
  <2> QED BY <2>1 DEF Entry
<1>7. Len(s) \in Nat
  BY <1>4
<1>8. CommandsOf(lg, base, lo, hi) \in Seq(Command)
  BY <1>5, <1>6, <1>7
<1>9. Len(CommandsOf(lg, base, lo, hi)) = Len(s)
  BY <1>5, <1>7
<1>10. ASSUME lo > base, hi <= base + Len(lg)
       PROVE  Len(s) = IF lo <= hi THEN hi - lo + 1 ELSE 0
  <2>1. a = lo - base /\ b = hi - base
    BY <1>1, <1>2, <1>3, <1>10
  <2> QED BY <1>4, <2>1
<1> QED BY <1>8, <1>9, <1>10

\* What the loop of HandleAppendEntries leaves: the log, or the log up to the
\* first entry that is missing or of another term and the call's entries from
\* there on.
LEMMA StoredLog ==
    ASSUME NEW lg \in Seq(Entry), NEW entries \in Seq(Entry), NEW at \in 0..Len(lg)
    PROVE  LET new == StoreEntries(lg, at, entries) IN
           /\ new \in Seq(Entry)
           /\ \/ /\ new = lg
                 /\ \A i \in 1..Len(entries) :
                       at + i <= Len(lg) /\ lg[at + i].term = entries[i].term
              \/ \E f \in 1..Len(entries) :
                   /\ at + f - 1 <= Len(lg) /\ Len(new) = at + Len(entries)
                   /\ \A i \in 1..(at + f - 1) : new[i] = lg[i]
                   /\ \A i \in f..Len(entries) : new[at + i] = entries[i]
                   /\ \A i \in 1..(f - 1) : lg[at + i].term = entries[i].term
                   /\ at + f > Len(lg) \/ lg[at + f].term # entries[f].term
<1> DEFINE new == StoreEntries(lg, at, entries)
           fresh == {i \in 1..Len(entries) :
                       at + i > Len(lg) \/ lg[at + i].term # entries[i].term}
           f == Min(fresh)
           head == SubSeq(lg, 1, at + f - 1)
           tail == SubSeq(entries, f, Len(entries))
<1>1. Len(lg) \in Nat /\ Len(entries) \in Nat /\ at \in Nat /\ at <= Len(lg)
  OBVIOUS
<1>2. CASE fresh = {}
  <2>1. new = lg
    BY <1>2 DEF StoreEntries
  <2> QED BY <1>1, <1>2, <2>1
<1>3. CASE fresh # {}
  <2>1. f \in fresh /\ \A y \in fresh : f <= y
    <3>1. fresh \in SUBSET Nat
      OBVIOUS
    <3> HIDE DEF fresh
    <3> QED BY <1>3, <3>1, MinOfNaturals
  <2>2. new = head \o tail
    BY <1>3 DEF StoreEntries
  <2> HIDE DEF f
  <2>3. f \in 1..Len(entries) /\ \A i \in 1..(f - 1) : i \notin fresh
    BY <2>1
  <2>4. at + f > Len(lg) \/ lg[at + f].term # entries[f].term
    BY <2>1
  <2>5. ASSUME NEW i \in 1..(f - 1)
        PROVE  at + i <= Len(lg) /\ lg[at + i].term = entries[i].term
    <3>1. i \in 1..Len(entries) /\ i \notin fresh
      BY <1>1, <2>3
    <3> QED BY <1>1, <3>1
  <2>6. at + f - 1 <= Len(lg)
    <3>1. CASE f = 1
      BY <1>1, <3>1
    <3>2. CASE f # 1
      <4>1. f - 1 \in 1..(f - 1)
        BY <2>3, <3>2
      <4> QED BY <1>1, <2>3, <2>5, <4>1
    <3> QED BY <3>1, <3>2
  <2>7. /\ head \in Seq(Entry) /\ Len(head) = at + f - 1
        /\ \A i \in 1..(at + f - 1) : head[i] = lg[i]
    <3>1. \A i \in 1..(at + f - 1) : lg[i] \in Entry
      BY <1>1, <2>3, <2>6
    <3>2. at + f - 1 \in Nat
      BY <1>1, <2>3
    <3> QED BY <3>1, <3>2, SubSeqProperties
  <2>8. /\ tail \in Seq(Entry) /\ Len(tail) = Len(entries) - f + 1
        /\ \A i \in 1..(Len(entries) - f + 1) : tail[i] = entries[f + i - 1]
    <3>1. \A i \in f..Len(entries) : entries[i] \in Entry
      BY <1>1, <2>3
    <3> QED BY <1>1, <2>3, <3>1, SubSeqProperties
  <2> HIDE DEF head, tail
  <2> HIDE DEF new, fresh
  <2>9. new \in Seq(Entry)
    BY <2>2, <2>7, <2>8, ConcatProperties
  <2>10. Len(new) = Len(head) + Len(tail)
    BY <2>2, <2>7, <2>8, ConcatProperties
  <2>11. \A i \in 1..(Len(head) + Len(tail)) :
            new[i] = IF i <= Len(head) THEN head[i] ELSE tail[i - Len(head)]
    BY <2>2, <2>7, <2>8, ConcatProperties
  <2>12. Len(new) = at + Len(entries)
    BY <1>1, <2>3, <2>7, <2>8, <2>10
  <2>13. ASSUME NEW i \in 1..(at + f - 1) PROVE new[i] = lg[i]
    <3>1. i \in 1..(Len(head) + Len(tail)) /\ i <= Len(head)
      BY <1>1, <2>3, <2>7, <2>8
    <3> QED BY <2>7, <2>11, <3>1
  <2>14. ASSUME NEW i \in f..Len(entries) PROVE new[at + i] = entries[i]
    <3>1. at + i \in 1..(Len(head) + Len(tail)) /\ at + i > Len(head)
      BY <1>1, <2>3, <2>7, <2>8
    <3>2. new[at + i] = tail[i - f + 1]
      BY <1>1, <2>3, <2>7, <2>11, <3>1
    <3>3. i - f + 1 \in 1..(Len(entries) - f + 1)
      BY <1>1, <2>3
    <3>4. tail[i - f + 1] = entries[f + (i - f + 1) - 1]
      BY <2>8, <3>3
    <3> QED BY <2>3, <3>2, <3>4
  <2> QED BY <2>3, <2>4, <2>5, <2>6, <2>9, <2>12, <2>13, <2>14 DEF new
<1> QED BY <1>2, <1>3

-----------------------------------------------------------------------------
(* Type correctness. *)

\* What an append goroutine has read, by the critical section that comes next.
CallTyped(c) ==
    /\ c.from \in Server /\ c.to \in Peers(c.from) /\ c.round \in 1..rounds /\ c.term \in Nat
    /\ c.stage \in {"spawned", "append"} => c.commit \in Nat
    /\ c.stage = "append" =>
         c.prevIndex \in Nat /\ c.prevTerm \in Nat /\ c.entries \in Seq(Entry)
    /\ c.stage = "install" =>
         c.index \in Nat /\ c.lastTerm \in Nat /\ c.data \in Seq(Command)
    /\ c.stage = "appended" =>
         c.success \in BOOLEAN /\ c.match \in Nat /\ c.conflict \in Nat

\* Logs, snapshots and what has been applied.
StoreTypeOK ==
    /\ log \in [Server -> Seq(Entry)]
    /\ snapshot \in [Server -> [index : Nat, term : Nat, data : Seq(Command),
                                shared : BOOLEAN]]
    /\ commitIndex \in [Server -> Nat]
    /\ lastApplied \in [Server -> Nat]
    /\ stateMachine \in [Server -> Seq(Command)]
    /\ nextIndex \in [Server -> [Server -> Nat]]
    /\ matchIndex \in [Server -> [Server -> Nat]]

\* Clients and messages.
TrafficTypeOK ==
    /\ stopped \in [Server -> BOOLEAN]
    /\ commandCh \in [Server -> Seq(Command)]
    /\ submitted \subseteq Command
    /\ voteCalls \subseteq [from : Server, to : Server, term : Nat,
                            lastLogIndex : Nat, lastLogTerm : Nat]
    /\ voteReplies \subseteq [from : Server, to : Server, election : Nat,
                              term : Nat, granted : BOOLEAN]
    /\ rounds \in Nat
    /\ \A c \in appendCalls : CallTyped(c)

\* The inductive invariant of type correctness.
TypeInv == ElectionInv /\ StoreTypeOK /\ TrafficTypeOK

LEMMA TypeInvTyped == TypeInv => TypeOK
<1> SUFFICES ASSUME TypeInv PROVE TypeOK
  OBVIOUS
<1>1. \A c \in appendCalls : c.from \in Server /\ c.to \in Peers(c.from)
                              /\ c.round \in 1..rounds /\ c.term \in Nat
  BY DEF TypeInv, TrafficTypeOK, CallTyped
<1> QED
  BY <1>1 DEF TypeInv, ElectionInv, ElectionTypeOK, StoreTypeOK, TrafficTypeOK, TypeOK

LEMMA TypeInvInit == Init => TypeInv
<1> SUFFICES ASSUME Init PROVE TypeInv
  OBVIOUS
<1>1. ElectionInv
  BY ElectionInvInit
<1>2. StoreTypeOK
  BY DEF Init, StoreTypeOK, NoSnapshot
<1>3. TrafficTypeOK
  BY DEF Init, TrafficTypeOK
<1> QED
  BY <1>1, <1>2, <1>3 DEF TypeInv

\* What lastLogInfo returns.
LEMMA LastLogInfo ==
    ASSUME StoreTypeOK, NEW n \in Server
    PROVE  /\ LastIndex(n) \in Nat /\ LastTerm(n) \in Nat
           /\ snapshot[n].index \in Nat /\ snapshot[n].term \in Nat
           /\ SnapshotData(n) \in Seq(Command)
           /\ Len(log[n]) \in Nat /\ \A i \in 1..Len(log[n]) : log[n][i] \in Entry
<1>1. /\ snapshot[n] \in [index : Nat, term : Nat, data : Seq(Command), shared : BOOLEAN]
      /\ log[n] \in Seq(Entry) /\ stateMachine[n] \in Seq(Command)
  BY DEF StoreTypeOK
<1>2. Len(log[n]) \in Nat /\ \A i \in 1..Len(log[n]) : log[n][i] \in Entry
  BY <1>1
<1>3. log[n] # <<>> => Len(log[n]) \in 1..Len(log[n])
  BY <1>1
<1>4. LastTerm(n) \in Nat
  BY <1>1, <1>2, <1>3 DEF LastTerm, Entry
<1> QED
  BY <1>1, <1>2, <1>4 DEF LastIndex, SnapshotData

\* The calls stay typed when at most one of them is replaced by a typed one.
LEMMA CallReplaced ==
    ASSUME TrafficTypeOK, NEW f, CallTyped(f), rounds' = rounds,
           appendCalls' \subseteq appendCalls \cup {f}
    PROVE  \A c \in appendCalls' : CallTyped(c)'
  BY DEF TrafficTypeOK, CallTyped

\* The steps of the main goroutine and of clients.
LEMMA MainLoopTyped ==
    ASSUME TypeInv, NEW n \in Server, MainLoop(n) \/ Client(n)
    PROVE  StoreTypeOK' /\ TrafficTypeOK'
<1> USE DEF TypeInv, electionVars, logVars, applyVars, leaderVars, loopVars, clientVars,
            voteVars, callVars
<1>1. /\ currentTerm[n] \in Nat /\ LastIndex(n) \in Nat /\ LastTerm(n) \in Nat
      /\ \A p \in Peers(n) : p \in Server
  BY LastLogInfo DEF ElectionInv, ElectionTypeOK, Peers
<1>2. ASSUME UNCHANGED <<appendCalls, rounds>>
      PROVE  rounds' \in Nat /\ \A c \in appendCalls' : CallTyped(c)'
  BY <1>2 DEF TrafficTypeOK, CallTyped
<1>3. CASE \/ Dispatch(n) \/ ElectionTimeout(n) \/ CandidateTimeout(n)
           \/ LeaderTick(n) \/ Exit(n) \/ Stop(n)
  <2>1. /\ UNCHANGED <<log, snapshot, commitIndex, lastApplied, stateMachine, nextIndex,
                       matchIndex, commandCh, submitted, voteCalls, appendCalls, rounds>>
        /\ voteReplies' \subseteq voteReplies
        /\ stopped' = stopped \/ stopped' = [stopped EXCEPT ![n] = TRUE]
    BY <1>3 DEF Dispatch, ElectionTimeout, CandidateTimeout, LeaderTick, Exit, Stop,
       LeaveElection
  <2> QED
    BY <1>2, <2>1 DEF StoreTypeOK, TrafficTypeOK
<1>4. CASE StartElection(n)
  <2>1. /\ UNCHANGED <<log, snapshot, commitIndex, lastApplied, stateMachine, nextIndex,
                       matchIndex, stopped, commandCh, submitted, voteReplies,
                       appendCalls, rounds>>
        /\ voteCalls' = voteCalls \cup
              {[from |-> n, to |-> p, term |-> currentTerm[n] + 1,
                lastLogIndex |-> LastIndex(n), lastLogTerm |-> LastTerm(n)] : p \in Peers(n)}
    BY <1>4 DEF StartElection
  <2>2. voteCalls' \subseteq [from : Server, to : Server, term : Nat,
                              lastLogIndex : Nat, lastLogTerm : Nat]
    <3>1. currentTerm[n] + 1 \in Nat
      BY <1>1
    <3> QED
      BY <1>1, <2>1, <3>1 DEF TrafficTypeOK
  <2> QED
    BY <1>2, <2>1, <2>2 DEF StoreTypeOK, TrafficTypeOK
<1>5. CASE \E r \in voteReplies : ReceiveVoteReply(n, r)
  <2>1. PICK r \in voteReplies : ReceiveVoteReply(n, r)
    BY <1>5
  <2>2. UNCHANGED <<log, snapshot, commitIndex, lastApplied, stateMachine, stopped,
                    commandCh, submitted, voteCalls, appendCalls, rounds>>
    BY <2>1 DEF ReceiveVoteReply
  <2>3. voteReplies' \subseteq voteReplies
    BY <2>1 DEF ReceiveVoteReply, LeaveElection
  <2>4. UNCHANGED leaderVars \/ BecomeLeader(n)
    BY <2>1 DEF ReceiveVoteReply
  <2>5. nextIndex' \in [Server -> [Server -> Nat]] /\ matchIndex' \in [Server -> [Server -> Nat]]
    <3>1. CASE UNCHANGED leaderVars
      BY <3>1 DEF StoreTypeOK
    <3>2. CASE BecomeLeader(n)
      <4>1. /\ [p \in Server |-> LastIndex(n) + 1] \in [Server -> Nat]
            /\ [p \in Server |-> 0] \in [Server -> Nat]
        BY <1>1
      <4>2. /\ nextIndex' = [nextIndex EXCEPT ![n] = [p \in Server |-> LastIndex(n) + 1]]
            /\ matchIndex' = [matchIndex EXCEPT ![n] = [p \in Server |-> 0]]
        BY <3>2 DEF BecomeLeader
      <4>3. nextIndex' \in [Server -> [Server -> Nat]]
        BY <4>1, <4>2 DEF StoreTypeOK
      <4>4. matchIndex' \in [Server -> [Server -> Nat]]
        BY <4>1, <4>2 DEF StoreTypeOK
      <4> QED
        BY <4>3, <4>4
    <3> QED
      BY <2>4, <3>1, <3>2
  <2> QED
    BY <1>2, <2>2, <2>3, <2>5 DEF StoreTypeOK, TrafficTypeOK
<1>6. CASE Broadcast(n)
  <2>1. /\ UNCHANGED <<log, snapshot, commitIndex, lastApplied, stateMachine, nextIndex,
                       matchIndex, stopped, commandCh, submitted, voteCalls, voteReplies>>
        /\ rounds' = rounds + 1
        /\ appendCalls' = appendCalls \cup
              {[from |-> n, to |-> p, round |-> rounds + 1, stage |-> "spawned",
                term |-> currentTerm[n], commit |-> commitIndex[n]] : p \in Peers(n)}
    BY <1>6 DEF Broadcast
  <2>2. rounds \in Nat /\ commitIndex[n] \in Nat
    BY DEF StoreTypeOK, TrafficTypeOK
  <2>3. ASSUME NEW c \in appendCalls' PROVE CallTyped(c)'
    <3>1. CASE c \in appendCalls
      <4>1. CallTyped(c) /\ rounds' >= rounds
        BY <2>1, <2>2, <3>1 DEF TrafficTypeOK
      <4> QED
        BY <2>1, <2>2, <4>1 DEF CallTyped
    <3>2. CASE c \notin appendCalls
      <4>1. PICK p \in Peers(n) :
               c = [from |-> n, to |-> p, round |-> rounds + 1, stage |-> "spawned",
                    term |-> currentTerm[n], commit |-> commitIndex[n]]
        BY <2>1, <3>2
      <4> QED
        BY <1>1, <2>1, <2>2, <4>1 DEF CallTyped
    <3> QED
      BY <3>1, <3>2
  <2>4. StoreTypeOK'
    BY <2>1 DEF StoreTypeOK
  <2>5. rounds' \in Nat
    BY <2>1, <2>2
  <2>6. TrafficTypeOK'
    BY <2>1, <2>3, <2>5 DEF TrafficTypeOK
  <2> QED
    BY <2>4, <2>6
<1>7. CASE LeaderCommand(n)
  <2>1. /\ UNCHANGED <<snapshot, commitIndex, lastApplied, stateMachine, nextIndex,
                       matchIndex, stopped, submitted, voteCalls, voteReplies,
                       appendCalls, rounds>>
        /\ commandCh[n] # <<>>
        /\ commandCh' = [commandCh EXCEPT ![n] = Tail(@)]
        /\ \/ log' = log
           \/ log' = [log EXCEPT ![n] = Append(@,
                         [term |-> currentTerm[n], command |-> Head(commandCh[n])])]
    BY <1>7 DEF LeaderCommand
  <2>2. commandCh[n] \in Seq(Command) /\ log[n] \in Seq(Entry)
    BY DEF StoreTypeOK, TrafficTypeOK
  <2>3. Head(commandCh[n]) \in Command /\ Tail(commandCh[n]) \in Seq(Command)
    BY <2>1, <2>2
  <2>4. [term |-> currentTerm[n], command |-> Head(commandCh[n])] \in Entry
    BY <1>1, <2>3 DEF Entry
  <2>5. log' \in [Server -> Seq(Entry)]
    <3>1. Append(log[n], [term |-> currentTerm[n], command |-> Head(commandCh[n])])
             \in Seq(Entry)
      BY <2>2, <2>4, AppendProperties
    <3> QED
      BY <2>1, <3>1 DEF StoreTypeOK
  <2>6. commandCh' \in [Server -> Seq(Command)]
    BY <2>1, <2>3 DEF TrafficTypeOK
  <2>7. StoreTypeOK'
    BY <2>1, <2>5 DEF StoreTypeOK
  <2>8. TrafficTypeOK'
    BY <1>2, <2>1, <2>6 DEF TrafficTypeOK
  <2> QED
    BY <2>7, <2>8
<1>8. CASE \E c \in Command : Submit(n, c)
  <2>1. PICK c \in Command : Submit(n, c)
    BY <1>8
  <2>2. /\ UNCHANGED <<log, snapshot, commitIndex, lastApplied, stateMachine, nextIndex,
                       matchIndex, stopped, voteCalls, voteReplies, appendCalls, rounds>>
        /\ commandCh' = [commandCh EXCEPT ![n] = Append(@, c)]
        /\ submitted' = submitted \cup {c}
    BY <2>1 DEF Submit
  <2>3. commandCh[n] \in Seq(Command)
    BY DEF TrafficTypeOK
  <2>4. commandCh' \in [Server -> Seq(Command)]
    BY <2>2, <2>3 DEF TrafficTypeOK
  <2> QED
    BY <1>2, <2>2, <2>4 DEF StoreTypeOK, TrafficTypeOK
<1> QED
  BY <1>3, <1>4, <1>5, <1>6, <1>7, <1>8 DEF MainLoop, Client

\* A vote asked for and answered.
LEMMA HandleRequestVoteTyped ==
    ASSUME TypeInv, NEW c \in voteCalls, HandleRequestVote(c)
    PROVE  StoreTypeOK' /\ TrafficTypeOK'
<1> USE DEF TypeInv, logVars, applyVars, leaderVars, loopVars, clientVars, callVars
<1>1. /\ UNCHANGED <<log, snapshot, commitIndex, lastApplied, stateMachine, nextIndex,
                     matchIndex, stopped, commandCh, submitted, appendCalls, rounds>>
      /\ voteCalls' \subseteq voteCalls
      /\ voteReplies' \subseteq voteReplies \cup
            {[from |-> c.to, to |-> c.from, election |-> c.term,
              term |-> currentTerm[c.to], granted |-> VoteGranted(c.to, c)]}
  BY DEF HandleRequestVote
<1>2. /\ c.to \in Server /\ c.from \in Server /\ c.term \in Nat
      /\ currentTerm[c.to] \in Nat /\ VoteGranted(c.to, c) \in BOOLEAN
  <2>1. c.to \in Server /\ c.from \in Server /\ c.term \in Nat /\ currentTerm[c.to] \in Nat
    BY DEF ElectionInv, ElectionTypeOK
  <2> QED
    BY <2>1 DEF VoteGranted
<1>3. voteReplies' \subseteq [from : Server, to : Server, election : Nat,
                              term : Nat, granted : BOOLEAN]
  BY <1>1, <1>2 DEF TrafficTypeOK
<1>4. \A d \in appendCalls' : CallTyped(d)'
  BY <1>1 DEF TrafficTypeOK, CallTyped
<1> QED
  BY <1>1, <1>3, <1>4 DEF StoreTypeOK, TrafficTypeOK

\* advanceCommitIndex keeps commitIndex or moves it forward within the log.
LEMMA NewCommit ==
    ASSUME StoreTypeOK, NEW n \in Server, NEW match
    PROVE  \/ NewCommitIndex(n, match) = commitIndex[n]
           \/ /\ NewCommitIndex(n, match) \in (commitIndex[n] + 1)..LastIndex(n)
              /\ NewCommitIndex(n, match) > snapshot[n].index
<1> DEFINE ok == {i \in (commitIndex[n] + 1)..LastIndex(n) :
                 /\ i > snapshot[n].index
                 /\ log[n][i - snapshot[n].index].term = currentTerm[n]
                 /\ Cardinality(Replicated(n, match, i)) + 1 >= Majority}
<1>1. commitIndex[n] \in Nat /\ LastIndex(n) \in Nat
  BY LastLogInfo DEF StoreTypeOK
<1>2. NewCommitIndex(n, match) = IF ok = {} THEN commitIndex[n] ELSE Max(ok)
  BY DEF NewCommitIndex
<1>3. /\ ok \in SUBSET Int /\ \A y \in ok : y <= LastIndex(n)
      /\ \A i \in ok : i \in (commitIndex[n] + 1)..LastIndex(n) /\ i > snapshot[n].index
  BY <1>1
<1> HIDE DEF ok
<1>4. CASE ok # {}
  <2>1. LastIndex(n) \in Int /\ \A y \in ok : y <= LastIndex(n)
    BY <1>1, <1>3
  <2>2. Max(ok) \in ok
    BY <1>3, <1>4, <2>1, MaxOfBounded
  <2> QED
    BY <1>2, <1>3, <1>4, <2>2
<1> QED
  BY <1>2, <1>4

\* Setting commitIndex and applying keeps the types.
LEMMA CommitAndApplyTyped ==
    ASSUME StoreTypeOK, NEW n \in Server, NEW lg \in Seq(Entry), NEW b \in Nat,
           NEW commit \in Nat, CommitAndApply(n, lg, b, commit)
    PROVE  /\ commitIndex' \in [Server -> Nat]
           /\ lastApplied' \in [Server -> Nat]
           /\ stateMachine' \in [Server -> Seq(Command)]
<1>1. lastApplied[n] \in Nat /\ stateMachine[n] \in Seq(Command)
  BY DEF StoreTypeOK
<1>2. Max({lastApplied[n], commit}) \in Nat
  BY <1>1, MaxOfTwo
<1>3. CommandsOf(lg, b, lastApplied[n] + 1, commit) \in Seq(Command)
  <2>1. lastApplied[n] + 1 \in Nat /\ commit \in Int
    BY <1>1
  <2> QED
    BY <2>1, CommandsOfLog
<1>4. stateMachine[n] \o CommandsOf(lg, b, lastApplied[n] + 1, commit) \in Seq(Command)
  BY <1>1, <1>3, ConcatProperties
<1>5. /\ commitIndex' = [commitIndex EXCEPT ![n] = commit]
      /\ lastApplied' = [lastApplied EXCEPT ![n] = Max({lastApplied[n], commit})]
      /\ stateMachine' = [stateMachine EXCEPT ![n] =
            stateMachine[n] \o CommandsOf(lg, b, lastApplied[n] + 1, commit)]
  BY DEF CommitAndApply
<1> QED
  BY <1>2, <1>4, <1>5 DEF StoreTypeOK

\* A failed consistency check answers with an index.
LEMMA ConflictTyped ==
    ASSUME StoreTypeOK, NEW n \in Server, NEW c \in appendCalls,
           c.prevIndex \in Nat, ~PrevMatches(n, c)
    PROVE  ConflictIndex(n, c) \in Nat
<1> DEFINE local == c.prevIndex - snapshot[n].index
           same == {k \in 1..local : \A j \in k..local : log[n][j].term = log[n][local].term}
<1>1. snapshot[n].index \in Nat /\ LastIndex(n) \in Nat /\ Len(log[n]) \in Nat
  BY LastLogInfo
<1>2. local \in Int /\ local >= 0
  BY <1>1 DEF PrevMatches
<1>3. CASE local = 0
  BY <1>1, <1>3, Zenon DEF ConflictIndex
<1>4. CASE local # 0 /\ local > Len(log[n])
  BY <1>1, <1>4, Zenon DEF ConflictIndex
<1>5. CASE local # 0 /\ ~(local > Len(log[n]))
  <2>1. ConflictIndex(n, c) = snapshot[n].index + Min(same)
    BY <1>5, Zenon DEF ConflictIndex
  <2>2. local \in same /\ same \in SUBSET Nat
    BY <1>2, <1>5
  <2>3. \A S \in SUBSET Nat : S # {} => Min(S) \in Nat
    BY MinOfNaturals
  <2> HIDE DEF same
  <2>4. Min(same) \in Nat
    BY <2>2, <2>3
  <2> QED
    BY <1>1, <2>1, <2>4
<1> QED
  BY <1>3, <1>4, <1>5

\* After a successful check the entries start within the log or at its end.
LEMMA InsertWithin ==
    ASSUME StoreTypeOK, NEW n \in Server, NEW c \in appendCalls,
           c.prevIndex \in Nat, PrevMatches(n, c)
    PROVE  AppendAt(n, c) \in 0..Len(log[n])
<1>1. snapshot[n].index \in Nat /\ Len(log[n]) \in Nat
  BY LastLogInfo
<1>2. AppendAt(n, c) = IF c.prevIndex - snapshot[n].index <= 0 THEN 0
                       ELSE c.prevIndex - snapshot[n].index
  BY <1>1, MaxOfTwo DEF AppendAt
<1>3. \/ c.prevIndex = 0 \/ c.prevIndex - snapshot[n].index < 0
      \/ c.prevIndex - snapshot[n].index = 0
      \/ c.prevIndex - snapshot[n].index \in 1..Len(log[n])
  BY Zenon DEF PrevMatches
<1> QED
  BY <1>1, <1>2, <1>3

\* The stores of a follower after a call it accepts.
LEMMA AcceptTyped ==
    ASSUME StoreTypeOK, NEW c \in appendCalls, CallTyped(c), c.stage = "append",
           AcceptEntries(c.to, c),
           snapshot' = snapshot, UNCHANGED leaderVars
    PROVE  StoreTypeOK'
<1> DEFINE n == c.to
           newLog == StoreEntries(log[n], AppendAt(n, c), c.entries)
           newLast == snapshot[n].index + Len(newLog)
<1>1. /\ n \in Server /\ c.prevIndex \in Nat /\ c.entries \in Seq(Entry) /\ c.commit \in Nat
      /\ snapshot[n].index \in Nat /\ log[n] \in Seq(Entry)
  BY LastLogInfo DEF CallTyped, Peers, StoreTypeOK
<1>2. newLog \in Seq(Entry)
  <2>1. AppendAt(n, c) \in 0..Len(log[n])
    BY <1>1, InsertWithin DEF AcceptEntries
  <2> QED
    BY <1>1, <2>1, StoredLog
<1>3. newLast \in Nat
  BY <1>1, <1>2
<1>4. Min({c.commit, newLast}) \in Nat
  BY <1>1, <1>3, MinOfTwo, SMTT(30)
<1>5. /\ log' = [log EXCEPT ![n] = newLog]
      /\ \/ CommitAndApply(n, newLog, snapshot[n].index, Min({c.commit, newLast}))
         \/ UNCHANGED applyVars
  BY DEF AcceptEntries
<1> HIDE DEF newLog, newLast, n
<1>6. /\ commitIndex' \in [Server -> Nat] /\ lastApplied' \in [Server -> Nat]
      /\ stateMachine' \in [Server -> Seq(Command)]
  <2>1. CASE UNCHANGED applyVars
    BY <2>1 DEF applyVars, StoreTypeOK
  <2>2. CASE CommitAndApply(n, newLog, snapshot[n].index, Min({c.commit, newLast}))
    BY <1>1, <1>2, <1>4, <2>2, CommitAndApplyTyped
  <2> QED
    BY <1>5, <2>1, <2>2
<1>7. log' \in [Server -> Seq(Entry)]
  BY <1>2, <1>5 DEF StoreTypeOK
<1> QED
  BY <1>6, <1>7 DEF StoreTypeOK, leaderVars

\* The stores of a peer after a snapshot it installs.
LEMMA InstallTyped ==
    ASSUME StoreTypeOK, NEW c \in appendCalls, CallTyped(c), c.stage = "install",
           HandleInstallSnapshot(c)
    PROVE  StoreTypeOK'
<1> DEFINE n == c.to
           keepFrom == c.index - snapshot[n].index + 1
           kept == SubSeq(log[n], keepFrom, Len(log[n]))
<1>1. /\ n \in Server /\ c.index \in Nat /\ c.lastTerm \in Nat /\ c.data \in Seq(Command)
      /\ snapshot[n].index \in Nat /\ log[n] \in Seq(Entry) /\ Len(log[n]) \in Nat
      /\ \A i \in 1..Len(log[n]) : log[n][i] \in Entry
  BY LastLogInfo DEF CallTyped, Peers, StoreTypeOK
<1>2. UNCHANGED leaderVars
  BY DEF HandleInstallSnapshot
<1>3. CASE UNCHANGED <<logVars, applyVars>>
  BY <1>2, <1>3 DEF StoreTypeOK, logVars, applyVars, leaderVars
<1>4. CASE ~ UNCHANGED <<logVars, applyVars>>
  <2>1. /\ c.index > snapshot[n].index
        /\ log' = [log EXCEPT ![n] = kept]
        /\ snapshot' = [snapshot EXCEPT ![n] = [index |-> c.index, term |-> c.lastTerm,
                                               data |-> <<>>, shared |-> TRUE]]
        /\ stateMachine' = [stateMachine EXCEPT ![n] = c.data]
        /\ commitIndex' = [commitIndex EXCEPT ![n] = c.index]
        /\ lastApplied' = [lastApplied EXCEPT ![n] = c.index]
    BY <1>4 DEF HandleInstallSnapshot
  <2>2. kept \in Seq(Entry)
    <3>1. keepFrom \in Nat /\ keepFrom >= 1
      BY <1>1, <2>1
    <3>2. \A i \in keepFrom..Len(log[n]) : log[n][i] \in Entry
      BY <1>1, <3>1
    <3> QED
      BY <1>1, <3>1, <3>2, SubSeqProperties
  <2> HIDE DEF kept
  <2>3. log' \in [Server -> Seq(Entry)]
    BY <2>1, <2>2 DEF StoreTypeOK
  <2>4. snapshot' \in [Server -> [index : Nat, term : Nat, data : Seq(Command),
                                  shared : BOOLEAN]]
    BY <1>1, <2>1 DEF StoreTypeOK
  <2>5. /\ commitIndex' \in [Server -> Nat] /\ lastApplied' \in [Server -> Nat]
        /\ stateMachine' \in [Server -> Seq(Command)]
    BY <1>1, <2>1 DEF StoreTypeOK
  <2> QED
    BY <1>2, <2>3, <2>4, <2>5 DEF StoreTypeOK, leaderVars
<1> QED
  BY <1>3, <1>4

\* The stores of a leader after a reply that records a match.
LEMMA RecordTyped ==
    ASSUME StoreTypeOK, NEW c \in appendCalls, CallTyped(c), c.stage = "appended",
           RecordMatch(c.from, c)
    PROVE  StoreTypeOK'
<1> DEFINE n == c.from
           m == [matchIndex[n] EXCEPT ![c.to] = Max({@, c.match})]
           commit == NewCommitIndex(n, m)
           local == commit - snapshot[n].index
           kept == KeptEntries(n, local)
           taken == [index |-> commit, term |-> log[n][local].term, shared |-> FALSE,
                     data |-> stateMachine[n] \o
                        CommandsOf(log[n], snapshot[n].index, lastApplied[n] + 1, commit)]
<1>1. /\ n \in Server /\ c.to \in Server /\ c.match \in Nat
      /\ snapshot[n].index \in Nat /\ log[n] \in Seq(Entry) /\ Len(log[n]) \in Nat
      /\ \A i \in 1..Len(log[n]) : log[n][i] \in Entry
      /\ commitIndex[n] \in Nat /\ lastApplied[n] \in Nat /\ stateMachine[n] \in Seq(Command)
      /\ matchIndex[n] \in [Server -> Nat] /\ matchIndex[n][c.to] \in Nat
  BY LastLogInfo DEF CallTyped, Peers, StoreTypeOK
<1>2. m \in [Server -> Nat] /\ m[c.to] \in Nat
  <2>1. Max({matchIndex[n][c.to], c.match}) \in Nat
    <3> HIDE DEF n
    <3>1. matchIndex[n][c.to] \in Int /\ c.match \in Int
      BY <1>1
    <3>2. Max({matchIndex[n][c.to], c.match}) \in {matchIndex[n][c.to], c.match}
      BY <3>1, MaxOfTwo
    <3> QED
      BY <1>1, <3>2
  <2> QED
    BY <1>1, <2>1
<1>3. commit \in Nat
  <2> HIDE DEF m
  <2>1. LastIndex(n) \in Nat
    BY <1>1, LastLogInfo
  <2> QED
    BY <1>1, <2>1, NewCommit, SMTT(30)
<1>4. /\ matchIndex' = [matchIndex EXCEPT ![n] = m]
      /\ nextIndex' = [nextIndex EXCEPT ![n][c.to] = m[c.to] + 1]
      /\ \/ CommitAndApply(n, log[n], snapshot[n].index, commit) /\ MaybeSnapshot(n, commit)
         \/ UNCHANGED <<logVars, applyVars>>
  BY DEF RecordMatch
<1> HIDE DEF m, commit, n
<1>5. matchIndex' \in [Server -> [Server -> Nat]] /\ nextIndex' \in [Server -> [Server -> Nat]]
  <2>1. matchIndex' \in [Server -> [Server -> Nat]]
    BY <1>1, <1>2, <1>4 DEF StoreTypeOK
  <2>2. nextIndex[n] \in [Server -> Nat]
    BY <1>1 DEF StoreTypeOK
  <2>3. m[c.to] + 1 \in Nat
    BY <1>2
  <2>4. nextIndex' \in [Server -> [Server -> Nat]]
    <3>1. [nextIndex[n] EXCEPT ![c.to] = m[c.to] + 1] \in [Server -> Nat]
      BY <1>1, <2>2, <2>3
    <3> QED
      BY <1>1, <1>4, <3>1 DEF StoreTypeOK
  <2> QED
    BY <2>1, <2>4
<1>6. CASE UNCHANGED <<logVars, applyVars>>
  BY <1>5, <1>6 DEF StoreTypeOK, logVars, applyVars
<1>7. CASE CommitAndApply(n, log[n], snapshot[n].index, commit) /\ MaybeSnapshot(n, commit)
  <2>1. /\ commitIndex' \in [Server -> Nat] /\ lastApplied' \in [Server -> Nat]
        /\ stateMachine' \in [Server -> Seq(Command)]
    BY <1>1, <1>3, <1>7, CommitAndApplyTyped
  <2>2. \/ UNCHANGED logVars
        \/ /\ local \in 1..Len(log[n])
           /\ snapshot' = [snapshot EXCEPT ![n] = taken]
           /\ log' = [log EXCEPT ![n] = kept]
    BY <1>7 DEF MaybeSnapshot
  <2>3. CASE UNCHANGED logVars
    BY <1>5, <2>1, <2>3 DEF StoreTypeOK, logVars
  <2>4. CASE /\ local \in 1..Len(log[n])
             /\ snapshot' = [snapshot EXCEPT ![n] = taken]
             /\ log' = [log EXCEPT ![n] = kept]
    <3>1. kept \in Seq(Entry)
      <4>1. \A i \in (local + 1)..Len(log[n]) : log[n][i] \in Entry
        BY <1>1, <2>4
      <4> QED
        BY <1>1, <2>4, <4>1, SubSeqProperties DEF KeptEntries
    <3>2. taken \in [index : Nat, term : Nat, data : Seq(Command), shared : BOOLEAN]
      <4>1. lastApplied[n] + 1 \in Nat /\ commit \in Int
        BY <1>1, <1>3
      <4>2. CommandsOf(log[n], snapshot[n].index, lastApplied[n] + 1, commit) \in Seq(Command)
        BY <1>1, <4>1, CommandsOfLog
      <4>3. stateMachine[n] \o CommandsOf(log[n], snapshot[n].index, lastApplied[n] + 1, commit)
               \in Seq(Command)
        BY <1>1, <4>2, ConcatProperties
      <4>4. log[n][local].term \in Nat
        BY <1>1, <2>4 DEF Entry
      <4> QED
        BY <1>3, <4>3, <4>4
    <3> HIDE DEF kept, taken
    <3>3. log' \in [Server -> Seq(Entry)]
      BY <2>4, <3>1 DEF StoreTypeOK
    <3>4. snapshot' \in [Server -> [index : Nat, term : Nat, data : Seq(Command),
                                    shared : BOOLEAN]]
      BY <2>4, <3>2 DEF StoreTypeOK
    <3> QED
      BY <1>5, <2>1, <3>3, <3>4 DEF StoreTypeOK
  <2> QED
    BY <2>2, <2>3, <2>4
<1> QED
  BY <1>4, <1>6, <1>7

\* One entry of nextIndex or matchIndex is overwritten.
LEMMA IndexUpdate ==
    ASSUME NEW f \in [Server -> [Server -> Nat]], NEW n \in Server, NEW p \in Server,
           NEW i \in Nat
    PROVE  [f EXCEPT ![n][p] = i] \in [Server -> [Server -> Nat]]
<1>1. [f[n] EXCEPT ![p] = i] \in [Server -> Nat]
  OBVIOUS
<1> QED
  BY <1>1

\* The stores after the last critical section of an append goroutine.
LEMMA ReplyTyped ==
    ASSUME StoreTypeOK, NEW c \in appendCalls, CallTyped(c),
           ReceiveAppendReply(c) \/ ReceiveInstallReply(c)
    PROVE  StoreTypeOK'
<1> DEFINE n == c.from
<1>1. /\ n \in Server /\ c.to \in Server /\ snapshot[n].index \in Nat
      /\ nextIndex[n][c.to] \in Nat
  <2>1. n \in Server /\ c.to \in Server
    BY DEF CallTyped, Peers
  <2> HIDE DEF n
  <2> QED
    BY <2>1, LastLogInfo DEF StoreTypeOK
<1>2. CASE UNCHANGED <<logVars, applyVars, leaderVars>>
  BY <1>2 DEF StoreTypeOK, logVars, applyVars, leaderVars
<1>3. CASE ReceiveAppendReply(c) /\ ~ UNCHANGED <<logVars, applyVars, leaderVars>>
  <2>1. c.stage = "appended" /\ (RecordMatch(n, c) \/ RollBack(n, c))
    BY <1>3 DEF ReceiveAppendReply, UseAppendReply
  <2>2. CASE RollBack(n, c)
    <3> DEFINE i == IF c.conflict > 0 THEN c.conflict
                    ELSE IF nextIndex[n][c.to] > 1 THEN nextIndex[n][c.to] - 1
                         ELSE nextIndex[n][c.to]
    <3>1. i \in Nat
      BY <1>1, <2>1 DEF CallTyped
    <3>2. /\ nextIndex' = [nextIndex EXCEPT ![n][c.to] = i]
          /\ UNCHANGED <<matchIndex, logVars, applyVars>>
      BY <2>2 DEF RollBack
    <3> HIDE DEF i, n
    <3>3. nextIndex' \in [Server -> [Server -> Nat]]
      BY <1>1, <3>1, <3>2, IndexUpdate DEF StoreTypeOK
    <3> QED
      BY <3>2, <3>3 DEF StoreTypeOK, logVars, applyVars
  <2>3. CASE RecordMatch(n, c)
    BY <2>1, <2>3, RecordTyped
  <2> QED
    BY <2>1, <2>2, <2>3
<1>4. CASE ReceiveInstallReply(c) /\ ~ UNCHANGED <<logVars, applyVars, leaderVars>>
  <2>1. /\ UNCHANGED <<logVars, applyVars>>
        /\ nextIndex' = [nextIndex EXCEPT ![n][c.to] = snapshot[n].index + 1]
        /\ matchIndex' = [matchIndex EXCEPT ![n][c.to] = snapshot[n].index]
    BY <1>4 DEF ReceiveInstallReply
  <2>2. snapshot[n].index + 1 \in Nat
    BY <1>1
  <2> HIDE DEF n
  <2>3. /\ nextIndex' \in [Server -> [Server -> Nat]]
        /\ matchIndex' \in [Server -> [Server -> Nat]]
    BY <1>1, <2>1, <2>2, IndexUpdate DEF StoreTypeOK
  <2> QED
    BY <2>1, <2>3 DEF StoreTypeOK, logVars, applyVars
<1> QED
  BY <1>2, <1>3, <1>4

\* The steps of an append goroutine.
LEMMA AppendGoroutineTyped ==
    ASSUME TypeInv, NEW c \in appendCalls, AppendGoroutine(c)
    PROVE  StoreTypeOK' /\ TrafficTypeOK'
<1> USE DEF electionVars, loopVars, clientVars, voteVars
<1>1. /\ StoreTypeOK /\ TrafficTypeOK /\ CallTyped(c)
      /\ c.from \in Server /\ c.to \in Server /\ currentTerm[c.to] \in Nat
  BY DEF TypeInv, TrafficTypeOK, CallTyped, Peers, ElectionInv, ElectionTypeOK
<1>2. UNCHANGED <<stopped, commandCh, submitted, voteCalls, voteReplies, rounds>>
  BY DEF AppendGoroutine, AbandonCall, SendInstallSnapshot, SendAppendEntries,
     HandleAppendEntries, HandleInstallSnapshot, ReceiveAppendReply, ReceiveInstallReply
<1>3. SUFFICES StoreTypeOK' /\ \A d \in appendCalls' : CallTyped(d)'
  BY <1>1, <1>2 DEF TrafficTypeOK
<1>4. ASSUME NEW f, CallTyped(f), appendCalls' \subseteq appendCalls \cup {f}
      PROVE  \A d \in appendCalls' : CallTyped(d)'
  BY <1>1, <1>2, <1>4, CallReplaced
<1>5. CASE AbandonCall(c) \/ SendInstallSnapshot(c) \/ SendAppendEntries(c)
  <2>1. UNCHANGED <<logVars, applyVars, leaderVars>>
    BY <1>5 DEF AbandonCall, SendInstallSnapshot, SendAppendEntries
  <2>2. StoreTypeOK'
    BY <1>1, <2>1 DEF StoreTypeOK, logVars, applyVars, leaderVars
  <2>3. /\ snapshot[c.from].index \in Nat /\ snapshot[c.from].term \in Nat
        /\ SnapshotData(c.from) \in Seq(Command)
        /\ Len(log[c.from]) \in Nat
        /\ \A i \in 1..Len(log[c.from]) : log[c.from][i] \in Entry
        /\ nextIndex[c.from][c.to] \in Nat
    BY <1>1, LastLogInfo DEF StoreTypeOK
  <2>4. CASE AbandonCall(c)
    BY <1>1, <1>4, <2>2, <2>4 DEF AbandonCall, Finish
  <2>5. CASE SendInstallSnapshot(c)
    <3> DEFINE f == [from |-> c.from, to |-> c.to, round |-> c.round, stage |-> "install",
                     term |-> c.term, index |-> snapshot[c.from].index,
                     lastTerm |-> snapshot[c.from].term, data |-> SnapshotData(c.from)]
    <3>1. appendCalls' \subseteq appendCalls \cup {f}
      BY <2>5 DEF SendInstallSnapshot, Advance
    <3>2. CallTyped(f)
      BY <1>1, <2>3 DEF CallTyped
    <3> QED
      BY <1>4, <2>2, <3>1, <3>2
  <2>6. CASE SendAppendEntries(c)
    <3> DEFINE n == c.from
               base == snapshot[n].index
               ni == nextIndex[n][c.to]
               prevTerm == IF ni - 1 = base THEN snapshot[n].term
                           ELSE IF ni - 1 - base \in 1..Len(log[n])
                                THEN log[n][ni - 1 - base].term ELSE 0
               f == [from |-> n, to |-> c.to, round |-> c.round, stage |-> "append",
                     term |-> c.term, commit |-> c.commit, prevIndex |-> ni - 1,
                     prevTerm |-> prevTerm, entries |-> EntriesFrom(n, ni)]
    <3>1. appendCalls' \subseteq appendCalls \cup {f} /\ ni > base /\ c.stage = "spawned"
      BY <2>6 DEF SendAppendEntries, Advance
    <3>2. prevTerm \in Nat /\ ni - 1 \in Nat
      BY <2>3, <3>1, SMTT(30) DEF Entry
    <3>3. EntriesFrom(n, ni) \in Seq(Entry)
      <4>1. ni - base \in Int /\ ni - base >= 1
        BY <2>3, <3>1
      <4>2. \A i \in (ni - base)..Len(log[n]) : log[n][i] \in Entry
        BY <2>3, <4>1
      <4> QED
        BY <2>3, <4>1, <4>2, SubSeqProperties DEF EntriesFrom
    <3>4. CallTyped(f)
      <4> HIDE DEF prevTerm, ni
      <4> QED
        BY <1>1, <3>1, <3>2, <3>3 DEF CallTyped
    <3> QED
      BY <1>4, <2>2, <3>1, <3>4
  <2> QED
    BY <1>5, <2>4, <2>5, <2>6
<1>6. CASE HandleAppendEntries(c)
  <2>1. c.stage = "append" /\ UNCHANGED <<snapshot, leaderVars>>
    BY <1>6 DEF HandleAppendEntries
  <2>2. ASSUME NEW success \in BOOLEAN, NEW conflict \in Nat, AppendReply(c, success, conflict)
        PROVE  \A d \in appendCalls' : CallTyped(d)'
    <3> DEFINE f == [from |-> c.from, to |-> c.to, round |-> c.round, stage |-> "appended",
                     term |-> currentTerm[c.to], success |-> success,
                     match |-> c.prevIndex + Len(c.entries), conflict |-> conflict]
    <3>1. appendCalls' \subseteq appendCalls \cup {f}
      BY <2>2 DEF AppendReply, Advance
    <3>2. c.prevIndex + Len(c.entries) \in Nat
      BY <1>1, <2>1 DEF CallTyped
    <3>3. CallTyped(f)
      BY <1>1, <3>2 DEF CallTyped
    <3> QED
      BY <1>4, <3>1, <3>3
  <2>3. CASE RefuseAppend(c)
    <3>1. AppendReply(c, FALSE, 0) /\ UNCHANGED <<log, applyVars>>
      BY <2>3 DEF RefuseAppend
    <3>2. StoreTypeOK'
      BY <1>1, <2>1, <3>1 DEF StoreTypeOK, applyVars, leaderVars
    <3> QED
      BY <2>2, <3>1, <3>2
  <2>4. CASE RejectEntries(c.to, c)
    <3>1. /\ ~PrevMatches(c.to, c) /\ AppendReply(c, FALSE, ConflictIndex(c.to, c))
          /\ UNCHANGED <<log, applyVars>>
      BY <2>4 DEF RejectEntries
    <3>2. ConflictIndex(c.to, c) \in Nat
      BY <1>1, <2>1, <3>1, ConflictTyped DEF CallTyped
    <3>3. StoreTypeOK'
      BY <1>1, <2>1, <3>1 DEF StoreTypeOK, applyVars, leaderVars
    <3> QED
      BY <2>2, <3>1, <3>2, <3>3
  <2>5. CASE AcceptEntries(c.to, c)
    <3>1. AppendReply(c, TRUE, 0)
      BY <2>5 DEF AcceptEntries
    <3>2. StoreTypeOK'
      BY <1>1, <2>1, <2>5, AcceptTyped
    <3> QED
      BY <2>2, <3>1, <3>2
  <2> QED
    BY <1>6, <2>3, <2>4, <2>5 DEF HandleAppendEntries, FollowAppend
<1>7. CASE HandleInstallSnapshot(c)
  <2> DEFINE f == [from |-> c.from, to |-> c.to, round |-> c.round, stage |-> "installed",
                   term |-> currentTerm[c.to]]
  <2>1. c.stage = "install" /\ appendCalls' \subseteq appendCalls \cup {f}
    BY <1>7 DEF HandleInstallSnapshot, InstallReply, Advance
  <2>2. CallTyped(f)
    BY <1>1 DEF CallTyped
  <2>3. StoreTypeOK'
    BY <1>1, <1>7, <2>1, InstallTyped
  <2> QED
    BY <1>4, <2>1, <2>2, <2>3
<1>8. CASE ReceiveAppendReply(c) \/ ReceiveInstallReply(c)
  <2>1. appendCalls' \subseteq appendCalls \cup {c}
    BY <1>8 DEF ReceiveAppendReply, ReceiveInstallReply, Finish
  <2>2. StoreTypeOK'
    BY <1>1, <1>8, ReplyTyped
  <2> QED
    BY <1>1, <1>4, <2>1, <2>2
<1> QED
  BY <1>5, <1>6, <1>7, <1>8 DEF AppendGoroutine

LEMMA TypeInvNext == TypeInv /\ [Next]_vars => TypeInv'
<1> SUFFICES ASSUME TypeInv, [Next]_vars PROVE TypeInv'
  OBVIOUS
<1>1. ElectionInv'
  BY ElectionInvNext DEF TypeInv
<1>2. CASE UNCHANGED vars
  <2> USE <1>2 DEF TypeInv, vars, electionVars, logVars, applyVars, leaderVars, loopVars,
                   clientVars, voteVars, callVars
  <2>1. StoreTypeOK'
    BY DEF StoreTypeOK
  <2>2. TrafficTypeOK'
    BY DEF TrafficTypeOK, CallTyped
  <2> QED
    BY <1>1, <2>1, <2>2
<1>3. CASE Next
  <2>1. StoreTypeOK' /\ TrafficTypeOK'
    BY <1>3, MainLoopTyped, HandleRequestVoteTyped, AppendGoroutineTyped DEF Next
  <2> QED
    BY <1>1, <2>1 DEF TypeInv
<1> QED
  BY <1>2, <1>3

\* Every field of a node keeps its kind, and so do the values that a goroutine of
\* broadcastAppendEntries carries from one critical section to the next: no index
\* falls below zero, whatever a late reply, a refused append or a compaction moves.
THEOREM RaftTypeCorrect == Spec => []TypeOK
<1>1. Spec => []TypeInv
  BY TypeInvInit, TypeInvNext, PTL DEF Spec
<1> QED
  BY <1>1, TypeInvTyped, PTL

-----------------------------------------------------------------------------
(* The inductive invariant of log matching. *)

\* No log has been compacted yet, on any node.
NothingCompacted == \A n \in Server : snapshot[n] = NoSnapshot

\* An entry with its index and the term of the entry before it, as it stands in
\* a log or in a call on its way.
TermBefore(lg, i) == IF i = 1 THEN 0 ELSE lg[i - 1].term
Link(lg, i) == [at |-> i, prev |-> TermBefore(lg, i), entry |-> lg[i]]
CallLink(c, k) ==
    [at |-> c.prevIndex + k, entry |-> c.entries[k],
     prev |-> IF k = 1 THEN c.prevTerm ELSE c.entries[k - 1].term]
LogLinks(n) == {Link(log[n], i) : i \in 1..Len(log[n])}
CallLinks(c) == {CallLink(c, k) : k \in 1..Len(c.entries)}
Appends == {c \in appendCalls : c.stage = "append"}
Links == (UNION {LogLinks(n) : n \in Server}) \cup (UNION {CallLinks(c) : c \in Appends})

\* Nothing is being installed, since no leader counts from index 0.
NoInstalls ==
    /\ \A c \in appendCalls : c.stage \in {"spawned", "append", "appended"}
    /\ \A n \in Server : state[n] = "Leader" => \A p \in Server : nextIndex[n][p] > 0

\* A call that starts at index 1 says so with both fields.
StartsAtZero == \A c \in Appends : c.prevIndex = 0 => c.prevTerm = 0

\* An index and a term name one entry, with one term before it.
LinksMatch ==
    \A l, k \in Links : l.at = k.at /\ l.entry.term = k.entry.term => l = k

\* A leader has every index at which some entry of its term exists.
LeaderHolds ==
    \A n \in Server : state[n] = "Leader" =>
        \A l \in Links : l.entry.term = currentTerm[n] => l.at <= Len(log[n])

\* No candidate can win term t any more: a majority has voted for n there, whose
\* own election is over.
TermClosed(t) ==
    \E n \in Server, Q \in SUBSET Server :
        /\ Cardinality(Q) >= Majority
        /\ \/ electionTerm[n] > t
           \/ electionTerm[n] = t /\ pc[n] # "collect"
        /\ \A v \in Q :
             /\ \/ currentTerm[v] > t
                \/ currentTerm[v] = t /\ votedFor[v] = n
             /\ \A m \in Server \ {n} : electionTerm[m] = t => ~Claim(v, m)

\* Every entry was made by a leader that had won its term.
TermsClosed == \A l \in Links : TermClosed(l.entry.term)

\* What holds of the logs until one is compacted.
LogsMatch == NoInstalls /\ StartsAtZero /\ LinksMatch /\ LeaderHolds /\ TermsClosed

\* The inductive invariant of log matching.
LogInv == TypeInv /\ (NothingCompacted => LogsMatch)

-----------------------------------------------------------------------------
(* What a step does to a log. *)

\* How the log of node n may change, and which entries are then in its log.
Appended(n) == \* LeaderCommand
    /\ pc[n] = "leadLoop" /\ state[n] = "Leader" /\ commandCh[n] # <<>>
    /\ log' = [log EXCEPT ![n] = Append(@,
                  [term |-> currentTerm[n], command |-> Head(commandCh[n])])]
    /\ commandCh' = [commandCh EXCEPT ![n] = Tail(@)]
    /\ UNCHANGED <<electionVars, snapshot, nextIndex, submitted, appendCalls>>

\* An accepted AppendEntries call, which always leaves a follower.
Stored(c) ==
    /\ c.stage = "append" /\ PrevMatches(c.to, c)
    /\ log' = [log EXCEPT ![c.to] = StoreEntries(@, AppendAt(c.to, c), c.entries)]
    /\ state'[c.to] = "Follower" /\ snapshot' = snapshot

\* An installed snapshot and a compaction: the log loses its front.
Cut(n, index) ==
    /\ index \in Nat /\ index > snapshot[n].index
    /\ log' = [log EXCEPT ![n] = SubSeq(@, index - snapshot[n].index + 1, Len(@))]
    /\ \E s : s.index = index /\ snapshot' = [snapshot EXCEPT ![n] = s]

Compacted(c) ==
    LET n == c.from
        m == [matchIndex[n] EXCEPT ![c.to] = Max({@, c.match})]
        commit == NewCommitIndex(n, m)
    IN  /\ Cut(n, commit)
        /\ Len(log[n]) > SnapshotThreshold
        /\ CommitAndApply(n, log[n], snapshot[n].index, commit)

\* Every step leaves the logs alone or is one of these.
LEMMA LogStep ==
    ASSUME TypeInv, Next
    PROVE  \/ UNCHANGED logVars
           \/ \E n \in Server : Appended(n) /\ LeaderCommand(n)
           \/ \E c \in appendCalls : Stored(c) /\ HandleAppendEntries(c)
           \/ \E c \in appendCalls : Cut(c.to, c.index) /\ HandleInstallSnapshot(c)
           \/ \E c \in appendCalls : Compacted(c) /\ ReceiveAppendReply(c)
<1> SUFFICES ASSUME ~ UNCHANGED logVars
    PROVE  \/ \E n \in Server : Appended(n) /\ LeaderCommand(n)
           \/ \E c \in appendCalls : Stored(c) /\ HandleAppendEntries(c)
           \/ \E c \in appendCalls : Cut(c.to, c.index) /\ HandleInstallSnapshot(c)
           \/ \E c \in appendCalls : Compacted(c) /\ ReceiveAppendReply(c)
  OBVIOUS
<1>1. CASE \E n \in Server : MainLoop(n) \/ Client(n)
  <2>1. PICK n \in Server : MainLoop(n) \/ Client(n)
    BY <1>1
  <2>2. LeaderCommand(n)
    BY <2>1 DEF MainLoop, Client, Dispatch, ElectionTimeout, StartElection, CandidateTimeout,
       ReceiveVoteReply, Broadcast, LeaderTick, Exit, Stop, Submit
  <2>3. Appended(n)
    BY <2>2 DEF LeaderCommand, Appended, logVars, leaderVars, callVars
  <2> QED
    BY <2>2, <2>3
<1>2. CASE \E c \in voteCalls : HandleRequestVote(c)
  BY <1>2 DEF HandleRequestVote
<1>3. CASE \E c \in appendCalls : AppendGoroutine(c)
  <2>1. PICK c \in appendCalls : AppendGoroutine(c)
    BY <1>3
  <2>2. /\ CallTyped(c) /\ c.from \in Server /\ c.to \in Server
        /\ snapshot[c.to].index \in Nat /\ snapshot[c.from].index \in Nat
    BY LastLogInfo DEF TypeInv, TrafficTypeOK, CallTyped, Peers
  <2>3. \/ HandleAppendEntries(c) \/ HandleInstallSnapshot(c) \/ ReceiveAppendReply(c)
    BY <2>1 DEF AppendGoroutine, AbandonCall, SendInstallSnapshot, SendAppendEntries,
       ReceiveInstallReply
  <2>4. CASE HandleAppendEntries(c)
    <3>1. c.stage = "append" /\ snapshot' = snapshot /\ FollowAppend(c) /\ AcceptEntries(c.to, c)
      BY <2>4 DEF HandleAppendEntries, RefuseAppend, FollowAppend, RejectEntries, logVars
    <3>2. state' = [state EXCEPT ![c.to] = "Follower"] /\ state \in [Server -> Role]
      BY <3>1 DEF FollowAppend, TypeInv, ElectionInv, ElectionTypeOK
    <3>3. Stored(c)
      BY <2>2, <3>1, <3>2 DEF AcceptEntries, Stored
    <3> QED
      BY <2>4, <3>3
  <2>5. CASE HandleInstallSnapshot(c)
    <3>1. /\ c.stage = "install" /\ c.index > snapshot[c.to].index
          /\ log' = [log EXCEPT ![c.to] =
                SubSeq(@, c.index - snapshot[c.to].index + 1, Len(@))]
          /\ snapshot' = [snapshot EXCEPT ![c.to] =
                [index |-> c.index, term |-> c.lastTerm, data |-> <<>>, shared |-> TRUE]]
      BY <2>5 DEF HandleInstallSnapshot
    <3>2. \E s : s.index = c.index /\ snapshot' = [snapshot EXCEPT ![c.to] = s]
      BY <3>1
    <3>3. c.index \in Nat
      BY <2>2, <3>1 DEF CallTyped
    <3>4. Cut(c.to, c.index)
      BY <3>1, <3>2, <3>3, Zenon DEF Cut
    <3> QED
      BY <2>5, <3>4
  <2>6. CASE ReceiveAppendReply(c)
    <3> DEFINE n == c.from
               m == [matchIndex[n] EXCEPT ![c.to] = Max({@, c.match})]
               commit == NewCommitIndex(n, m)
               local == commit - snapshot[n].index
    <3>1. RecordMatch(n, c)
      BY <2>6 DEF ReceiveAppendReply, UseAppendReply, RollBack
    <3>2. /\ CommitAndApply(n, log[n], snapshot[n].index, commit) /\ MaybeSnapshot(n, commit)
      BY <3>1 DEF RecordMatch
    <3>3. /\ Len(log[n]) > SnapshotThreshold /\ local \in 1..Len(log[n])
          /\ log' = [log EXCEPT ![n] = SubSeq(@, local + 1, Len(@))]
          /\ \E s : s.index = commit /\ snapshot' = [snapshot EXCEPT ![n] = s]
      BY <3>2 DEF MaybeSnapshot, KeptEntries
    <3>4. Cut(n, commit)
      <4>1. commit \in Nat /\ commit > snapshot[n].index
        <5>1. commitIndex[n] \in Nat /\ LastIndex(n) \in Nat /\ StoreTypeOK
          BY <2>2, LastLogInfo DEF TypeInv, StoreTypeOK
        <5> HIDE DEF m
        <5>2. commit = commitIndex[n] \/ commit \in (commitIndex[n] + 1)..LastIndex(n)
          BY <2>2, <5>1, NewCommit
        <5> HIDE DEF commit, n
        <5>3. commit \in Nat
          BY <5>1, <5>2
        <5> QED
          BY <2>2, <3>3, <5>3 DEF n
      <4> HIDE DEF commit, n
      <4> QED
        BY <3>3, <4>1, Zenon DEF Cut
    <3> QED
      BY <2>6, <3>2, <3>3, <3>4 DEF Compacted
  <2> QED
    BY <2>3, <2>4, <2>5, <2>6
<1> QED
  BY <1>1, <1>2, <1>3 DEF Next

\* What a cut leaves of the log of a node.
LEMMA CutLog ==
    ASSUME StoreTypeOK, NEW n \in Server, NEW index, Cut(n, index),
           NEW i \in Int, HasEntry(n, i), i > index
    PROVE  snapshot'[n].index = index /\ HasEntry(n, i)' /\ EntryAt(n, i)' = EntryAt(n, i)
<1> DEFINE base == snapshot[n].index
           from == index - base + 1
           kept == SubSeq(log[n], from, Len(log[n]))
<1>1. /\ base \in Nat /\ Len(log[n]) \in Nat
      /\ \A j \in 1..Len(log[n]) : log[n][j] \in Entry
  BY LastLogInfo
<1>2. index \in Nat /\ index > base /\ i - base \in 1..Len(log[n])
  BY DEF Cut, HasEntry
<1>3. log'[n] = kept /\ snapshot'[n].index = index
  BY DEF Cut, StoreTypeOK
<1>4. from \in Nat /\ \A j \in from..Len(log[n]) : log[n][j] \in Entry
  BY <1>1, <1>2, SMTT(30)
<1>5. /\ Len(kept) = IF from <= Len(log[n]) THEN Len(log[n]) - from + 1 ELSE 0
      /\ \A j \in 1..(Len(log[n]) - from + 1) : kept[j] = log[n][from + j - 1]
  <2> HIDE DEF from
  <2>1. from \in Int /\ Len(log[n]) \in Int
    BY <1>1, <1>4
  <2> QED
    BY <1>4, <2>1, SubSeqProperties, SMTT(30)
<1> HIDE DEF kept, base
<1>6. i - index \in 1..(Len(log[n]) - from + 1)
  <2>1. i - index >= 1
    BY <1>2
  <2>2. i - index <= Len(log[n]) - from + 1
    BY <1>1, <1>2
  <2> QED
    BY <1>1, <1>2, <2>1, <2>2
<1>7. i - index \in 1..Len(kept) /\ kept[i - index] = log[n][i - base]
  <2>1. from <= Len(log[n])
    BY <1>1, <1>2, <1>6
  <2>2. from + (i - index) - 1 = i - base
    BY <1>1, <1>2
  <2> HIDE DEF from
  <2> QED
    BY <1>5, <1>6, <2>1, <2>2
<1> USE DEF base
<1> QED
  BY <1>3, <1>7 DEF HasEntry, EntryAt

-----------------------------------------------------------------------------
(* A leader only appends. *)

\* The step LeaderAppendOnly allows.
KeepsLeaderLog ==
    \A n \in Server : state[n] = "Leader" /\ state'[n] = "Leader" =>
         \A i \in 1..LastIndex(n) : HasEntry(n, i) /\ i > snapshot'[n].index
             => HasEntry(n, i)' /\ EntryAt(n, i)' = EntryAt(n, i)

LEMMA LeaderKeepsLog == TypeInv /\ [Next]_vars => [KeepsLeaderLog]_vars
<1> SUFFICES ASSUME TypeInv, Next, NEW n \in Server,
                    state[n] = "Leader", state'[n] = "Leader",
                    NEW i \in 1..LastIndex(n), HasEntry(n, i), i > snapshot'[n].index
             PROVE  HasEntry(n, i)' /\ EntryAt(n, i)' = EntryAt(n, i)
  BY DEF KeepsLeaderLog
<1> StoreTypeOK
  BY DEF TypeInv
<1>1. /\ i \in Int /\ snapshot[n].index \in Nat
      /\ log[n] \in Seq(Entry) /\ Len(log[n]) \in Nat
  BY LastLogInfo, SMTT(30) DEF StoreTypeOK
<1>2. ASSUME log'[n] = log[n], snapshot'[n] = snapshot[n]
      PROVE  HasEntry(n, i)' /\ EntryAt(n, i)' = EntryAt(n, i)
  BY <1>2 DEF HasEntry, EntryAt
<1>3. CASE UNCHANGED logVars
  BY <1>2, <1>3 DEF logVars
<1>4. ASSUME NEW m \in Server, Appended(m)
      PROVE  HasEntry(n, i)' /\ EntryAt(n, i)' = EntryAt(n, i)
  <2>1. snapshot' = snapshot /\ (n # m => log'[n] = log[n])
    BY <1>4 DEF Appended, StoreTypeOK
  <2>2. CASE n = m
    <3>1. \E e : log'[n] = Append(log[n], e)
      BY <1>4, <2>2 DEF Appended, StoreTypeOK
    <3>2. PICK e : log'[n] = Append(log[n], e)
      BY <3>1
    <3>3. Len(log'[n]) = Len(log[n]) + 1 /\ \A k \in 1..Len(log[n]) : log'[n][k] = log[n][k]
      BY <1>1, <3>2
    <3> QED
      BY <1>1, <2>1, <3>3, SMTT(30) DEF HasEntry, EntryAt
  <2> QED
    BY <1>2, <2>1, <2>2
<1>5. ASSUME NEW c \in appendCalls, Stored(c)
      PROVE  HasEntry(n, i)' /\ EntryAt(n, i)' = EntryAt(n, i)
  <2>1. n # c.to
    BY <1>5 DEF Stored
  <2> QED
    BY <1>2, <1>5, <2>1 DEF Stored, StoreTypeOK
<1>6. ASSUME NEW m \in Server, NEW index, Cut(m, index)
      PROVE  HasEntry(n, i)' /\ EntryAt(n, i)' = EntryAt(n, i)
  <2>1. CASE n = m
    <3>1. snapshot'[n].index = index
      BY <1>6, <2>1 DEF Cut, StoreTypeOK
    <3> QED
      BY <1>1, <1>6, <2>1, <3>1, CutLog
  <2>2. CASE n # m
    BY <1>2, <1>6, <2>2 DEF Cut, StoreTypeOK
  <2> QED
    BY <2>1, <2>2
<1>7. \A c \in appendCalls : c.from \in Server /\ c.to \in Server
  BY DEF TypeInv, TrafficTypeOK, CallTyped, Peers
<1> QED
  BY <1>3, <1>4, <1>5, <1>6, <1>7, LogStep DEF Compacted

\* A node that is and stays Leader keeps every entry of its log that compaction
\* does not discard: a late call makes it a follower before it changes its log.
THEOREM RaftLeaderAppendOnly == Spec => LeaderAppendOnly
<1>1. Init => TypeInv
  BY TypeInvInit
<1>2. TypeInv /\ [Next]_vars => TypeInv'
  BY TypeInvNext
<1>3. TypeInv /\ [Next]_vars => [KeepsLeaderLog]_vars
  BY LeaderKeepsLog
<1> QED
  BY <1>1, <1>2, <1>3, PTL DEF Spec, LeaderAppendOnly, KeepsLeaderLog

-----------------------------------------------------------------------------
(* A term in which an entry exists elects nobody any more. *)

\* How elections and claims move in one step.
ElectionMoves ==
    \A m \in Server :
        /\ electionTerm'[m] >= electionTerm[m]
        /\ pc'[m] = "collect" => pc[m] = "collect" \/ electionTerm'[m] > electionTerm[m]
        /\ \A v \in Server : Claim(v, m)' =>
             \/ electionTerm'[m] = electionTerm[m] /\ Claim(v, m)
             \/ v = m /\ electionTerm'[m] = currentTerm[m] + 1
             \/ /\ electionTerm'[m] = electionTerm[m] /\ electionTerm[m] >= currentTerm[v]
                /\ electionTerm[m] > currentTerm[v] \/ votedFor[v] \in {Nobody, m}

LEMMA NextMovesElections == ElectionInv /\ Next => ElectionMoves
<1> SUFFICES ASSUME ElectionInv, Next PROVE ElectionMoves
  OBVIOUS
<1>1. /\ currentTerm \in [Server -> Nat] /\ electionTerm \in [Server -> Nat]
      /\ pc \in [Server -> Loop] /\ votes \in [Server -> SUBSET Server]
      /\ \A n \in Server : electionTerm[n] <= currentTerm[n]
  BY DEF ElectionInv, ElectionTypeOK, ElectionTermPast
<1>2. ASSUME NEW n \in Server, Quiet(n) \/ \E t \in Nat : Learn(n, t)
      PROVE  ElectionMoves
  <2>1. \A v, m \in Server : Claim(v, m)' => Claim(v, m)
    BY <1>2 DEF Claim, Quiet, Learn
  <2>2. electionTerm' = electionTerm /\ \A m \in Server : pc'[m] = "collect" => pc[m] = "collect"
    BY <1>1, <1>2 DEF Quiet, Learn
  <2> QED
    BY <1>1, <2>1, <2>2 DEF ElectionMoves
<1>3. CASE \E n \in Server : MainLoop(n) \/ Client(n)
  <2>1. PICK n \in Server : MainLoop(n) \/ Client(n)
    BY <1>3
  <2>2. CASE ElectionTimeout(n)
    <3>1. \A v, m \in Server : Claim(v, m)' => Claim(v, m)
      BY <2>2 DEF ElectionTimeout, Claim, voteVars
    <3> QED
      BY <1>1, <2>2, <3>1 DEF ElectionTimeout, ElectionMoves
  <2>3. CASE StartElection(n)
    <3>1. \A v \in Server : Claim(v, n)' => v = n
      <4>1. \A r \in voteReplies : r.to # n
        BY <2>3 DEF StartElection, ElectionInv, RepliesCurrent
      <4> QED
        BY <1>1, <2>3, <4>1 DEF StartElection, Claim
    <3>2. \A v, m \in Server : m # n /\ Claim(v, m)' => Claim(v, m)
      BY <1>1, <2>3 DEF StartElection, Claim
    <3>3. \A m \in Server : /\ electionTerm'[m] = IF m = n THEN currentTerm[n] + 1
                                                  ELSE electionTerm[m]
                            /\ m # n => pc'[m] = pc[m]
      BY <1>1, <2>3 DEF StartElection
    <3> QED
      BY <1>1, <3>1, <3>2, <3>3 DEF ElectionMoves
  <2>4. ASSUME NEW r \in voteReplies, ReceiveVoteReply(n, r)
        PROVE  ElectionMoves
    <3>1. /\ electionTerm' = electionTerm /\ voteReplies' \subseteq voteReplies
          /\ votes' = votes \/ votes' = [votes EXCEPT ![n] = CountVote(n, r)]
          /\ pc' = pc \/ pc' = [pc EXCEPT ![n] = "top"]
          /\ r.to = n
      BY <2>4 DEF ReceiveVoteReply, LeaveElection
    <3>2. \A v, m \in Server : Claim(v, m)' => Claim(v, m)
      BY <1>1, <3>1 DEF Claim, CountVote
    <3> QED
      BY <1>1, <3>1, <3>2 DEF ElectionMoves
  <2> QED
    BY <1>2, <2>1, <2>2, <2>3, <2>4, MainLoopKind
<1>4. CASE \E c \in voteCalls : HandleRequestVote(c)
  <2>1. PICK c \in voteCalls : HandleRequestVote(c)
    BY <1>4
  <2>2. c.to \in Server /\ c.from \in Server /\ c.term \in Nat
    BY DEF ElectionInv, ElectionTypeOK
  <2>3. VoteGranted(c.to, c) => /\ c.term >= currentTerm[c.to]
                                /\ \/ c.term > currentTerm[c.to]
                                   \/ votedFor[c.to] \in {Nobody, c.from}
    BY DEF VoteGranted
  <2>4. electionTerm' = electionTerm /\ pc' = pc /\ votes' = votes
    BY <2>1 DEF HandleRequestVote, loopVars
  <2>5. \A v, m \in Server : Claim(v, m)' =>
           \/ Claim(v, m)
           \/ /\ v = c.to /\ m = c.from /\ VoteGranted(c.to, c)
              /\ electionTerm[c.from] = c.term
    BY <2>1, <2>4 DEF HandleRequestVote, Claim
  <2> QED
    BY <1>1, <2>2, <2>3, <2>4, <2>5 DEF ElectionMoves
<1>5. CASE \E c \in appendCalls : AppendGoroutine(c)
  BY <1>2, <1>5, AppendGoroutineKind
<1> QED
  BY <1>3, <1>4, <1>5 DEF Next

\* A closed term stays closed.
LEMMA TermStaysClosed ==
    ASSUME ElectionInv, Next, NEW t \in Nat, TermClosed(t)
    PROVE  TermClosed(t)'
<1>1. /\ currentTerm \in [Server -> Nat] /\ electionTerm \in [Server -> Nat]
      /\ currentTerm' \in [Server -> Nat] /\ electionTerm' \in [Server -> Nat]
      /\ \A n \in Server : electionTerm[n] <= currentTerm[n]
  <2>1. ElectionInv'
    BY ElectionInvNext
  <2> QED
    BY <2>1 DEF ElectionInv, ElectionTypeOK, ElectionTermPast
<1>2. ElectionMoves
  BY NextMovesElections
<1>3. UNCHANGED vars \/ KeepsVotes
  BY NextKeepsVotes
<1>4. ASSUME NEW v \in Server
      PROVE  /\ currentTerm[v] \in Nat /\ currentTerm'[v] \in Nat
             /\ currentTerm'[v] >= currentTerm[v]
             /\ currentTerm'[v] = currentTerm[v] /\ votedFor[v] # Nobody
                   => votedFor'[v] = votedFor[v]
  BY <1>1, <1>3 DEF KeepsVotes, vars, electionVars
<1>5. PICK n \in Server, Q \in SUBSET Server :
        /\ Cardinality(Q) >= Majority
        /\ \/ electionTerm[n] > t
           \/ electionTerm[n] = t /\ pc[n] # "collect"
        /\ \A v \in Q :
             /\ \/ currentTerm[v] > t
                \/ currentTerm[v] = t /\ votedFor[v] = n
             /\ \A m \in Server \ {n} : electionTerm[m] = t => ~Claim(v, m)
  BY DEF TermClosed
<1>6. \/ electionTerm'[n] > t
      \/ electionTerm'[n] = t /\ pc'[n] # "collect"
  BY <1>1, <1>2, <1>5 DEF ElectionMoves
<1>7. ASSUME NEW v \in Q
      PROVE  \/ currentTerm'[v] > t
             \/ currentTerm'[v] = t /\ votedFor'[v] = n
  <2>1. n # Nobody /\ v \in Server
    BY ServerAssumption
  <2>2. currentTerm[v] > t \/ (currentTerm[v] = t /\ votedFor[v] = n)
    BY <1>5
  <2> QED
    BY <1>4, <2>1, <2>2
<1>8. ASSUME NEW v \in Q, NEW m \in Server \ {n}, electionTerm'[m] = t, Claim(v, m)'
      PROVE  FALSE
  <2>1. n # Nobody /\ v \in Server
    BY ServerAssumption
  <2>2. \/ electionTerm[m] = t /\ Claim(v, m)
        \/ v = m /\ t = currentTerm[m] + 1
        \/ /\ electionTerm[m] = t /\ t >= currentTerm[v]
           /\ t > currentTerm[v] \/ votedFor[v] \in {Nobody, m}
    BY <1>2, <1>8, <2>1 DEF ElectionMoves
  <2>3. currentTerm[v] > t \/ (currentTerm[v] = t /\ votedFor[v] = n)
    BY <1>5
  <2> QED
    BY <1>1, <1>5, <2>1, <2>2, <2>3
<1>9. Majority' = Majority
  BY DEF Majority
<1> QED
  BY <1>5, <1>6, <1>7, <1>8 DEF TermClosed

\* A leader's own term is closed.
LEMMA LeaderClosesTerm ==
    ASSUME ElectionInv, NEW n \in Server, state[n] = "Leader"
    PROVE  TermClosed(currentTerm[n])
<1>1. /\ electionTerm[n] = currentTerm[n] /\ pc[n] # "collect"
      /\ votes[n] \in SUBSET Server /\ Cardinality(votes[n]) >= Majority
  BY DEF ElectionInv, ElectionTypeOK, LeaderElected
<1>2. ASSUME NEW v \in votes[n]
      PROVE  /\ \/ currentTerm[v] > currentTerm[n]
                \/ currentTerm[v] = currentTerm[n] /\ votedFor[v] = n
             /\ \A m \in Server \ {n} : electionTerm[m] = currentTerm[n] => ~Claim(v, m)
  <2>1. v \in Server /\ Claim(v, n)
    BY <1>1 DEF Claim
  <2> QED
    BY <1>1, <2>1 DEF ElectionInv, VotesBind, VotesDisjoint
<1> QED
  BY <1>1, <1>2 DEF TermClosed

\* The step in which m becomes leader.
Wins(m) ==
    /\ \E r \in voteReplies : ReceiveVoteReply(m, r)
    /\ BecomeLeader(m)
    /\ pc[m] = "collect" /\ electionTerm[m] = currentTerm[m]
    /\ \E Q \in SUBSET Server : Cardinality(Q) >= Majority /\ \A v \in Q : Claim(v, m)

\* Nobody wins a closed term.
LEMMA ClosedTermNotWon ==
    ASSUME ElectionInv, NEW m \in Server, Wins(m)
    PROVE  ~TermClosed(currentTerm[m])
<1> SUFFICES ASSUME TermClosed(currentTerm[m]) PROVE FALSE
  OBVIOUS
<1>1. /\ pc[m] = "collect" /\ electionTerm[m] = currentTerm[m] /\ currentTerm[m] \in Nat
  BY DEF Wins, ElectionInv, ElectionTypeOK
<1>2. PICK P \in SUBSET Server : Cardinality(P) >= Majority /\ \A v \in P : Claim(v, m)
  BY DEF Wins
<1>3. PICK n \in Server, Q \in SUBSET Server :
        /\ Cardinality(Q) >= Majority
        /\ \/ electionTerm[n] > currentTerm[m]
           \/ electionTerm[n] = currentTerm[m] /\ pc[n] # "collect"
        /\ \A v \in Q : \A k \in Server \ {n} : electionTerm[k] = currentTerm[m] => ~Claim(v, k)
  BY DEF TermClosed
<1>4. n # m
  BY <1>1, <1>3
<1>5. PICK v \in Server : v \in P /\ v \in Q
  BY <1>2, <1>3, MajoritiesMeet
<1> QED
  BY <1>1, <1>2, <1>3, <1>4, <1>5

\* A leader was leader of the same term before the step, or wins it in the step.
LEMMA LeaderSince ==
    ASSUME ElectionInv, Next, NEW m \in Server, state'[m] = "Leader"
    PROVE  currentTerm'[m] = currentTerm[m] /\ (state[m] = "Leader" \/ Wins(m))
<1>1. /\ currentTerm \in [Server -> Nat] /\ state \in [Server -> Role]
      /\ votes \in [Server -> SUBSET Server]
  BY DEF ElectionInv, ElectionTypeOK
<1>2. ASSUME NEW n \in Server, Quiet(n) \/ \E t \in Nat : Learn(n, t)
      PROVE  currentTerm'[m] = currentTerm[m] /\ state[m] = "Leader"
  BY <1>1, <1>2 DEF Quiet, Learn
<1>3. CASE \E n \in Server : MainLoop(n) \/ Client(n)
  <2>1. PICK n \in Server : MainLoop(n) \/ Client(n)
    BY <1>3
  <2>2. CASE ElectionTimeout(n)
    BY <1>1, <2>2 DEF ElectionTimeout
  <2>3. CASE StartElection(n)
    BY <1>1, <2>3 DEF StartElection, ElectionInv, LeaderElected
  <2>4. ASSUME NEW r \in voteReplies, ReceiveVoteReply(n, r)
        PROVE  currentTerm'[m] = currentTerm[m] /\ (state[m] = "Leader" \/ Wins(m))
    <3>1. CASE StepDown(n, r.term)
      BY <1>1, <3>1 DEF StepDown
    <3>2. CASE state' = state /\ currentTerm' = currentTerm
      BY <3>2
    <3>3. CASE /\ BecomeLeader(n) /\ currentTerm' = currentTerm
               /\ CountVote(n, r) # votes[n] /\ Cardinality(CountVote(n, r)) >= Majority
      <4>1. n # m => state'[m] = state[m]
        BY <1>1, <3>3 DEF BecomeLeader
      <4>2. /\ pc[n] = "collect" /\ state[n] = "Candidate" /\ r.granted /\ r.to = n
            /\ CountVote(n, r) = votes[n] \cup {r.from}
        BY <2>4, <3>3 DEF ReceiveVoteReply, CountVote
      <4>3. electionTerm[n] = currentTerm[n]
        BY <4>2 DEF ElectionInv, CollectsInTerm
      <4>4. CountVote(n, r) \in SUBSET Server /\ \A v \in CountVote(n, r) : Claim(v, n)
        BY <1>1, <4>2 DEF Claim, ElectionInv, ElectionTypeOK
      <4>5. Wins(n)
        BY <2>4, <3>3, <4>2, <4>3, <4>4 DEF Wins
      <4> QED
        BY <3>3, <4>1, <4>5
    <3> QED
      BY <2>4, <3>1, <3>2, <3>3 DEF ReceiveVoteReply
  <2> QED
    BY <1>2, <2>1, <2>2, <2>3, <2>4, MainLoopKind
<1>4. CASE \E c \in voteCalls : HandleRequestVote(c)
  <2>1. PICK c \in voteCalls : HandleRequestVote(c)
    BY <1>4
  <2>2. c.to \in Server /\ c.term \in Nat
    BY DEF ElectionInv, ElectionTypeOK
  <2>3. /\ currentTerm' = [currentTerm EXCEPT ![c.to] = Max({@, c.term})]
        /\ state' = IF c.term > currentTerm[c.to]
                    THEN [state EXCEPT ![c.to] = "Follower"] ELSE state
    BY <2>1 DEF HandleRequestVote
  <2>4. /\ currentTerm[c.to] \in Int /\ c.term \in Int
    BY <1>1, <2>2
  <2>5. Max({currentTerm[c.to], c.term}) =
           IF currentTerm[c.to] >= c.term THEN currentTerm[c.to] ELSE c.term
    BY <2>4, MaxOfTwo
  <2> QED
    BY <1>1, <2>2, <2>3, <2>5
<1>5. CASE \E c \in appendCalls : AppendGoroutine(c)
  BY <1>2, <1>5, AppendGoroutineKind
<1> QED
  BY <1>3, <1>4, <1>5 DEF Next

-----------------------------------------------------------------------------
(* Where the entries of a step come from. *)

LEMMA LinkMembers ==
    /\ \A n \in Server : LogLinks(n) \subseteq Links
    /\ \A c \in Appends : CallLinks(c) \subseteq Links
    /\ \A l \in Links : \/ \E n \in Server : l \in LogLinks(n)
                        \/ \E c \in Appends : l \in CallLinks(c)
<1> DEFINE A == UNION {LogLinks(n) : n \in Server}
           B == UNION {CallLinks(c) : c \in Appends}
<1>1. Links = A \cup B
  BY DEF Links
<1>2. \A n \in Server : LogLinks(n) \subseteq A
  OBVIOUS
<1>3. \A c \in Appends : CallLinks(c) \subseteq B
  OBVIOUS
<1>4. \A l \in A : \E n \in Server : l \in LogLinks(n)
  OBVIOUS
<1>5. \A l \in B : \E c \in Appends : l \in CallLinks(c)
  OBVIOUS
<1> HIDE DEF A, B
<1> QED
  BY <1>1, <1>2, <1>3, <1>4, <1>5

LEMMA LinkTyped ==
    ASSUME TypeInv, NEW l \in Links
    PROVE  l.at \in Int /\ l.entry.term \in Nat
<1>1. ASSUME NEW n \in Server, l \in LogLinks(n)
      PROVE  l.at \in Int /\ l.entry.term \in Nat
  <2>1. PICK i \in 1..Len(log[n]) : l = Link(log[n], i)
    BY <1>1 DEF LogLinks
  <2>2. log[n][i] \in Entry
    BY LastLogInfo DEF TypeInv
  <2> QED
    BY <2>1, <2>2 DEF Link, Entry
<1>2. ASSUME NEW c \in Appends, l \in CallLinks(c)
      PROVE  l.at \in Int /\ l.entry.term \in Nat
  <2>1. PICK k \in 1..Len(c.entries) : l = CallLink(c, k)
    BY <1>2 DEF CallLinks
  <2>2. c.entries \in Seq(Entry) /\ c.prevIndex \in Nat
    BY DEF Appends, TypeInv, TrafficTypeOK, CallTyped
  <2>3. c.entries[k] \in Entry
    BY <2>2
  <2> QED
    BY <2>1, <2>2, <2>3 DEF CallLink, Entry
<1> QED
  BY <1>1, <1>2, LinkMembers

\* An accepted call stores links it carries behind links of the log.
LEMMA StoredLinks ==
    ASSUME TypeInv, NothingCompacted, StartsAtZero, NEW c \in appendCalls, Stored(c),
           NEW n \in Server
    PROVE  LogLinks(n)' \subseteq Links
<1> DEFINE at == c.prevIndex
           old == log[n]
           new == StoreEntries(old, at, c.entries)
<1>1. /\ c \in Appends /\ c.to \in Server
      /\ at \in Nat /\ c.prevTerm \in Nat /\ c.entries \in Seq(Entry)
      /\ old \in Seq(Entry) /\ Len(old) \in Nat
  BY LastLogInfo DEF Stored, Appends, TypeInv, TrafficTypeOK, CallTyped, Peers, StoreTypeOK
<1>2. CASE n # c.to
  <2>1. log'[n] = log[n]
    BY <1>1, <1>2 DEF Stored, TypeInv, StoreTypeOK
  <2> QED
    BY <2>1, LinkMembers DEF LogLinks
<1>3. CASE n = c.to
  <2>1. snapshot[n].index = 0
    BY DEF NothingCompacted, NoSnapshot
  <2>2. /\ at = 0 \/ (at \in 1..Len(old) /\ old[at].term = c.prevTerm)
        /\ at = 0 => c.prevTerm = 0
    <3>1. PrevMatches(n, c)
      BY <1>3 DEF Stored
    <3> QED
      BY <1>1, <2>1, <3>1 DEF PrevMatches, StartsAtZero
  <2>3. at \in 0..Len(old) /\ AppendAt(n, c) = at
    <3>1. AppendAt(n, c) = Max({0, at})
      <4>1. c.prevIndex - snapshot[n].index = at
        BY <1>1, <2>1
      <4> QED
        BY <4>1, Zenon DEF AppendAt
    <3> HIDE DEF at
    <3>2. Max({0, at}) = at
      BY <1>1, MaxOfTwo
    <3> QED
      BY <1>1, <2>2, <3>1, <3>2
  <2>4. log'[n] = new
    BY <1>1, <1>3, <2>3 DEF Stored, TypeInv, StoreTypeOK
  <2>5. /\ new \in Seq(Entry)
        /\ \/ new = old
           \/ \E f \in 1..Len(c.entries) :
                /\ at + f - 1 <= Len(old) /\ Len(new) = at + Len(c.entries)
                /\ \A i \in 1..(at + f - 1) : new[i] = old[i]
                /\ \A i \in f..Len(c.entries) : new[at + i] = c.entries[i]
                /\ \A i \in 1..(f - 1) : old[at + i].term = c.entries[i].term
    <3> HIDE DEF at, old
    <3> QED
      BY <1>1, <2>3, StoredLog, ZenonT(30)
  <2> HIDE DEF new
  <2>6. \A i \in 1..Len(old) : Link(old, i) \in Links
    BY LinkMembers DEF LogLinks
  <2>7. ASSUME NEW f \in 1..Len(c.entries),
               at + f - 1 <= Len(old), Len(new) = at + Len(c.entries),
               \A i \in 1..(at + f - 1) : new[i] = old[i],
               \A i \in f..Len(c.entries) : new[at + i] = c.entries[i],
               \A i \in 1..(f - 1) : old[at + i].term = c.entries[i].term,
               NEW i \in 1..Len(new)
        PROVE  Link(new, i) \in Links
    <3>1. CASE i <= at + f - 1
      <4>1. i \in 1..(at + f - 1) /\ (i # 1 => i - 1 \in 1..(at + f - 1))
        BY <1>1, <2>7, <3>1
      <4>2. Link(new, i) = Link(old, i)
        BY <2>7, <4>1 DEF Link, TermBefore
      <4>3. i \in 1..Len(old)
        BY <1>1, <2>7, <3>1
      <4> QED
        BY <2>6, <4>2, <4>3
    <3>2. CASE i > at + f - 1
      <4> DEFINE k == i - at
      <4>1. k \in f..Len(c.entries) /\ k \in 1..Len(c.entries) /\ at + k = i
        BY <1>1, <2>7, <3>2
      <4>2. new[i] = c.entries[k]
        BY <2>7, <4>1
      <4>3. TermBefore(new, i) = IF k = 1 THEN c.prevTerm ELSE c.entries[k - 1].term
        <5>1. CASE i = 1
          <6>1. at = 0 /\ k = 1
            BY <1>1, <4>1, <5>1
          <6> QED
            BY <2>2, <5>1, <6>1 DEF TermBefore
        <5>2. CASE i # 1 /\ k = 1
          <6>1. f = 1 /\ at = i - 1 /\ at \in 1..(at + f - 1)
            BY <1>1, <2>7, <4>1, <5>2
          <6>2. new[at] = old[at] /\ old[at].term = c.prevTerm
            BY <2>2, <2>7, <6>1
          <6> QED
            BY <5>2, <6>1, <6>2 DEF TermBefore
        <5>3. CASE i # 1 /\ k # 1 /\ k > f
          <6>1. k - 1 \in f..Len(c.entries) /\ at + (k - 1) = i - 1
            <7> HIDE DEF k, at
            <7> QED BY <1>1, <2>7, <4>1, <5>3
          <6>2. new[i - 1] = c.entries[k - 1]
            BY <2>7, <6>1
          <6> QED
            BY <5>3, <6>2 DEF TermBefore
        <5>4. CASE i # 1 /\ k # 1 /\ k = f
          <6>1. k - 1 \in 1..(f - 1) /\ at + (k - 1) = i - 1 /\ i - 1 \in 1..(at + f - 1)
            <7> HIDE DEF k, at
            <7> QED BY <1>1, <2>7, <4>1, <5>4
          <6>2. new[i - 1] = old[i - 1] /\ old[at + (k - 1)].term = c.entries[k - 1].term
            BY <2>7, <6>1
          <6> QED
            BY <5>4, <6>1, <6>2 DEF TermBefore
        <5>5. k \in Int /\ f \in Int /\ k >= f
          BY <4>1, <2>7
        <5> HIDE DEF k
        <5> QED
          BY <5>1, <5>2, <5>3, <5>4, <5>5
      <4>4. Link(new, i) = CallLink(c, k)
        BY <4>1, <4>2, <4>3 DEF Link, CallLink
      <4> HIDE DEF k
      <4> QED
        BY <1>1, <4>1, <4>4, LinkMembers DEF CallLinks
    <3> QED
      BY <1>1, <2>7, <3>1, <3>2
  <2>8. \A i \in 1..Len(new) : Link(new, i) \in Links
    <3>1. ASSUME new = old
          PROVE  \A i \in 1..Len(new) : Link(new, i) \in Links
      BY <2>6, <3>1
    <3> HIDE DEF at, old
    <3> QED
      BY <2>5, <2>7, <3>1
  <2> QED
    BY <2>4, <2>8 DEF LogLinks
<1> QED
  BY <1>2, <1>3

\* A leader sends links of its own log.
SendsLinks(c) ==
    \E f : /\ Advance(c, f) /\ CallLinks(f) \subseteq Links
           /\ f.prevIndex = 0 => f.prevTerm = 0

LEMMA SentLinks ==
    ASSUME TypeInv, NothingCompacted, NEW c \in appendCalls, SendAppendEntries(c)
    PROVE  SendsLinks(c)
<1> DEFINE n == c.from
           lg == log[n]
           ni == nextIndex[n][c.to]
           prevTerm == IF ni - 1 = 0 THEN snapshot[n].term
                       ELSE IF ni - 1 \in 1..Len(lg) THEN lg[ni - 1].term ELSE 0
           entries == SubSeq(lg, ni, Len(lg))
           f == [from |-> n, to |-> c.to, round |-> c.round, stage |-> "append",
                 term |-> c.term, commit |-> c.commit, prevIndex |-> ni - 1,
                 prevTerm |-> prevTerm, entries |-> entries]
<1>1. c.from \in Server /\ c.to \in Server
  BY DEF TypeInv, TrafficTypeOK, CallTyped, Peers
<1>2. /\ snapshot[n].index = 0 /\ snapshot[n].term = 0
      /\ lg \in Seq(Entry) /\ Len(lg) \in Nat /\ ni \in Nat
  <2>1. snapshot[n] = NoSnapshot
    BY <1>1 DEF NothingCompacted
  <2>2. lg \in Seq(Entry) /\ ni \in Nat
    BY <1>1 DEF TypeInv, StoreTypeOK
  <2> QED
    BY <2>1, <2>2 DEF NoSnapshot
<1>3. ni > 0
  BY <1>2 DEF SendAppendEntries
<1>4. Advance(c, f)
  <2>1. ni - 1 - snapshot[n].index = ni - 1 /\ ni - snapshot[n].index = ni
    BY <1>2
  <2>2. EntriesFrom(n, ni) = entries
    BY <2>1 DEF EntriesFrom
  <2> QED
    BY <1>2, <2>1, <2>2 DEF SendAppendEntries
<1>5. /\ Len(entries) = IF ni <= Len(lg) THEN Len(lg) - ni + 1 ELSE 0
      /\ \A k \in 1..(Len(lg) - ni + 1) : entries[k] = lg[ni + k - 1]
  <2>1. \A i \in ni..Len(lg) : lg[i] \in Entry
    BY <1>2, <1>3
  <2> HIDE DEF lg, ni
  <2> QED
    BY <1>2, <2>1, SubSeqProperties
<1> HIDE DEF entries, ni
<1>6. ASSUME NEW k \in 1..Len(entries)
      PROVE  CallLink(f, k) \in Links
  <2>1. /\ k \in 1..(Len(lg) - ni + 1) /\ ni + k - 1 \in 1..Len(lg) /\ ni - 1 + k = ni + k - 1
        /\ entries[k] = lg[ni + k - 1]
    BY <1>2, <1>3, <1>5
  <2>2. TermBefore(lg, ni + k - 1) = IF k = 1 THEN prevTerm ELSE entries[k - 1].term
    <3>1. CASE k = 1
      <4>1. ni + k - 1 = ni /\ (ni # 1 => ni - 1 \in 1..Len(lg) /\ ni - 1 # 0)
        BY <1>2, <1>3, <2>1, <3>1
      <4> QED
        BY <1>2, <3>1, <4>1 DEF TermBefore
    <3>2. CASE k # 1
      <4>1. k - 1 \in 1..(Len(lg) - ni + 1) /\ ni + k - 1 # 1
        BY <1>2, <1>3, <2>1, <3>2
      <4>2. ni + (k - 1) - 1 = ni + k - 1 - 1
        BY <1>2
      <4>3. entries[k - 1] = lg[ni + k - 1 - 1]
        BY <1>5, <4>1, <4>2
      <4> HIDE DEF lg, prevTerm
      <4> QED
        BY <1>2, <3>2, <4>1, <4>3 DEF TermBefore
    <3> HIDE DEF lg, prevTerm
    <3> QED
      BY <3>1, <3>2
  <2>3. CallLink(f, k) = Link(lg, ni + k - 1)
    BY <2>1, <2>2 DEF CallLink, Link
  <2>4. Link(lg, ni + k - 1) \in LogLinks(n)
    BY <2>1 DEF LogLinks
  <2> QED
    BY <1>1, <2>3, <2>4, LinkMembers
<1>7. CallLinks(f) \subseteq Links
  BY <1>6 DEF CallLinks
<1>8. f.prevIndex = 0 => f.prevTerm = 0
  BY <1>2, <1>3
<1> HIDE DEF f
<1> QED
  BY <1>4, <1>7, <1>8 DEF SendsLinks

\* Only the sending step makes a new call of this kind.
LEMMA AppendsStep ==
    ASSUME TypeInv, Next
    PROVE  Appends' \subseteq Appends \/ \E c \in appendCalls : SendAppendEntries(c)
<1>1. CASE \E n \in Server : MainLoop(n) \/ Client(n)
  <2>1. PICK n \in Server : MainLoop(n) \/ Client(n)
    BY <1>1
  <2>2. CASE Broadcast(n)
    BY <2>2 DEF Broadcast, Appends
  <2>3. CASE ~Broadcast(n)
    <3>1. appendCalls' = appendCalls
      BY <2>1, <2>3 DEF MainLoop, Client, Dispatch, ElectionTimeout, StartElection,
         CandidateTimeout, ReceiveVoteReply, LeaderTick, LeaderCommand, Exit, Stop, Submit, callVars
    <3> QED
      BY <3>1 DEF Appends
  <2> QED
    BY <2>2, <2>3
<1>2. CASE \E c \in voteCalls : HandleRequestVote(c)
  BY <1>2 DEF HandleRequestVote, callVars, Appends
<1>3. ASSUME NEW c \in appendCalls, AppendGoroutine(c), ~SendAppendEntries(c)
      PROVE  Appends' \subseteq Appends
  <2>1. \/ Finish(c)
        \/ \E f : Advance(c, f) /\ f.stage # "append"
    <3>1. CASE AbandonCall(c) \/ ReceiveAppendReply(c) \/ ReceiveInstallReply(c)
      BY <3>1 DEF AbandonCall, ReceiveAppendReply, ReceiveInstallReply
    <3>2. CASE SendInstallSnapshot(c)
      BY <3>2 DEF SendInstallSnapshot
    <3>3. CASE HandleAppendEntries(c)
      BY <3>3 DEF HandleAppendEntries, RefuseAppend, FollowAppend, RejectEntries, AcceptEntries,
         AppendReply
    <3>4. CASE HandleInstallSnapshot(c)
      BY <3>4 DEF HandleInstallSnapshot, InstallReply
    <3> QED
      BY <1>3, <3>1, <3>2, <3>3, <3>4 DEF AppendGoroutine
  <2> QED
    BY <2>1 DEF Finish, Advance, Appends
<1> QED
  BY <1>1, <1>2, <1>3 DEF Next

\* The only new link of a step is the entry a leader appends.
LeaderAppends(n) ==
    /\ state[n] = "Leader" /\ UNCHANGED electionVars
    /\ \E e \in Entry : e.term = currentTerm[n] /\ log' = [log EXCEPT ![n] = Append(@, e)]
    /\ \A l \in Links' : l \in Links \/ l = Link(log'[n], Len(log[n]) + 1)

LEMMA NextLinks ==
    ASSUME TypeInv, Next, NothingCompacted, NothingCompacted', StartsAtZero
    PROVE  /\ StartsAtZero'
           /\ \/ Links' \subseteq Links /\ \A n \in Server : state'[n] = "Leader" => log'[n] = log[n]
              \/ \E n \in Server : LeaderAppends(n)
<1>1. \A l \in Links' : \/ \E n \in Server : l \in LogLinks(n)'
                        \/ \E c \in Appends' : l \in CallLinks(c)
  BY DEF Links, LogLinks, CallLinks
<1>2. \A c \in Appends' : CallLinks(c)' = CallLinks(c)
  BY DEF CallLinks
<1>3. log \in [Server -> Seq(Entry)]
  BY DEF TypeInv, StoreTypeOK
<1>4. CASE \E n \in Server : Appended(n) /\ LeaderCommand(n)
  <2>1. PICK n \in Server : Appended(n) /\ LeaderCommand(n)
    BY <1>4
  <2> DEFINE e == [term |-> currentTerm[n], command |-> Head(commandCh[n])]
             new == Append(log[n], e)
  <2>2. appendCalls' = appendCalls /\ UNCHANGED electionVars /\ state[n] = "Leader"
    BY <2>1 DEF Appended
  <2>3. e \in Entry
    <3>1. currentTerm[n] \in Nat
      BY DEF TypeInv, ElectionInv, ElectionTypeOK
    <3>2. commandCh[n] \in Seq(Command) /\ commandCh[n] # <<>>
      BY <2>1 DEF Appended, TypeInv, TrafficTypeOK
    <3>3. Head(commandCh[n]) \in Command
      BY <3>2
    <3> QED
      BY <3>1, <3>3 DEF Entry
  <2>4. log' = [log EXCEPT ![n] = Append(@, e)]
    BY <2>1 DEF Appended
  <2>5. log'[n] = new /\ \A m \in Server \ {n} : log'[m] = log[m]
    BY <1>3, <2>4
  <2>6. /\ Len(log[n]) \in Nat /\ Len(new) = Len(log[n]) + 1
        /\ \A i \in 1..Len(log[n]) : new[i] = log[n][i]
    <3>1. log[n] \in Seq(Entry)
      BY <1>3
    <3> HIDE DEF e
    <3> QED
      BY <2>3, <3>1
  <2> HIDE DEF e, new
  <2>7. ASSUME NEW i \in 1..Len(new)
        PROVE  \/ i = Len(log[n]) + 1
               \/ Link(new, i) = Link(log[n], i) /\ i \in 1..Len(log[n])
    <3>1. SUFFICES ASSUME i # Len(log[n]) + 1
                   PROVE  Link(new, i) = Link(log[n], i) /\ i \in 1..Len(log[n])
      OBVIOUS
    <3>2. i \in 1..Len(log[n]) /\ (i # 1 => i - 1 \in 1..Len(log[n]))
      BY <2>6, <3>1
    <3> QED
      BY <2>6, <3>2 DEF Link, TermBefore
  <2>8. ASSUME NEW m \in Server, NEW l \in LogLinks(m)'
        PROVE  l \in Links \/ l = Link(new, Len(log[n]) + 1)
    <3>1. CASE m = n
      <4>1. PICK i \in 1..Len(new) : l = Link(new, i)
        BY <2>5, <3>1 DEF LogLinks, Link, TermBefore
      <4> QED
        BY <2>7, <4>1, LinkMembers DEF LogLinks
    <3>2. CASE m # n
      <4>1. LogLinks(m)' = LogLinks(m)
        BY <2>5, <3>2 DEF LogLinks, Link, TermBefore
      <4> QED
        BY <4>1, LinkMembers
    <3> QED
      BY <3>1, <3>2
  <2>9. Appends' = Appends
    BY <2>2 DEF Appends
  <2>10. \A l \in Links' : l \in Links \/ l = Link(log'[n], Len(log[n]) + 1)
    BY <1>1, <2>5, <2>8, <2>9, LinkMembers
  <2>11. e.term = currentTerm[n]
    BY DEF e
  <2>12. LeaderAppends(n)
    BY <2>2, <2>3, <2>4, <2>10, <2>11 DEF LeaderAppends
  <2> QED
    BY <2>9, <2>12 DEF StartsAtZero
<1>5. CASE ~\E n \in Server : Appended(n) /\ LeaderCommand(n)
  <2>1. \A c \in appendCalls : c.to \in Server /\ c.from \in Server
    BY DEF TypeInv, TrafficTypeOK, CallTyped, Peers
  <2>2. ASSUME NEW n \in Server, NEW index, Cut(n, index) PROVE FALSE
    <3>1. snapshot'[n].index = index /\ snapshot[n].index = 0 /\ index > snapshot[n].index
      BY <2>2, LastLogInfo DEF Cut, TypeInv, StoreTypeOK, NothingCompacted, NoSnapshot
    <3>2. snapshot'[n].index = 0
      BY DEF NothingCompacted, NoSnapshot
    <3> QED
      BY <3>1, <3>2
  <2>3. \/ UNCHANGED logVars
        \/ \E c \in appendCalls : Stored(c)
    BY <1>5, <2>1, <2>2, LogStep DEF Compacted
  <2>4. \A n \in Server : LogLinks(n)' \subseteq Links
    <3>1. CASE UNCHANGED logVars
      <4>1. \A n \in Server : LogLinks(n)' = LogLinks(n)
        BY <3>1 DEF logVars, LogLinks, Link, TermBefore
      <4> QED
        BY <4>1, LinkMembers
    <3> QED
      BY <2>3, <3>1, StoredLinks
  <2>5. \A n \in Server : state'[n] = "Leader" => log'[n] = log[n]
    <3>1. ASSUME NEW c \in appendCalls, Stored(c), NEW n \in Server, state'[n] = "Leader"
          PROVE  log'[n] = log[n]
      BY <1>3, <3>1 DEF Stored
    <3> QED
      BY <2>3, <3>1 DEF logVars
  <2>6. /\ StartsAtZero'
        /\ \A c \in Appends' : CallLinks(c) \subseteq Links
    <3>1. CASE Appends' \subseteq Appends
      BY <3>1, LinkMembers DEF StartsAtZero
    <3>2. ASSUME NEW c \in appendCalls, SendAppendEntries(c)
          PROVE  /\ StartsAtZero'
                 /\ \A d \in Appends' : CallLinks(d) \subseteq Links
      <4>0. SendsLinks(c)
        BY <3>2, SentLinks
      <4>1. PICK f : /\ Advance(c, f) /\ CallLinks(f) \subseteq Links
                     /\ f.prevIndex = 0 => f.prevTerm = 0
        BY <4>0, Zenon DEF SendsLinks
      <4>2. Appends' \subseteq Appends \cup {f}
        BY <4>1 DEF Advance, Appends
      <4> QED
        BY <4>1, <4>2, LinkMembers DEF StartsAtZero
    <3> QED
      BY <3>1, <3>2, AppendsStep
  <2>7. Links' \subseteq Links
    BY <1>1, <2>4, <2>6
  <2> QED
    BY <2>5, <2>6, <2>7
<1> QED
  BY <1>4, <1>5

-----------------------------------------------------------------------------
(* Until something is compacted, no leader counts from index 0. *)

LEMMA NextIndexPositive ==
    ASSUME TypeInv, Next, NoInstalls, NEW m \in Server, state'[m] = "Leader", NEW p \in Server
    PROVE  nextIndex'[m][p] > 0
<1>1. /\ nextIndex \in [Server -> [Server -> Nat]] /\ matchIndex \in [Server -> [Server -> Nat]]
      /\ nextIndex' \in [Server -> [Server -> Nat]]
      /\ LastIndex(m) \in Nat
  <2>1. TypeInv'
    BY TypeInvNext
  <2> QED
    BY <2>1, LastLogInfo DEF TypeInv, StoreTypeOK
<1>2. ASSUME BecomeLeader(m) PROVE nextIndex'[m][p] > 0
  <2>1. nextIndex'[m][p] = LastIndex(m) + 1
    BY <1>1, <1>2 DEF BecomeLeader
  <2> QED
    BY <1>1, <2>1
<1>3. ElectionInv
  BY DEF TypeInv
<1>4. CASE Wins(m)
  BY <1>2, <1>4 DEF Wins
<1>5. CASE state[m] = "Leader"
  <2>1. nextIndex[m][p] > 0
    BY <1>5 DEF NoInstalls
  <2>2. CASE nextIndex'[m] = nextIndex[m]
    BY <2>1, <2>2
  <2>3. CASE \E n \in Server : MainLoop(n) \/ Client(n)
    <3>1. PICK n \in Server : MainLoop(n) \/ Client(n)
      BY <2>3
    <3>2. nextIndex' = nextIndex \/ BecomeLeader(n)
      BY <3>1 DEF MainLoop, Client, Dispatch, ElectionTimeout, StartElection, CandidateTimeout,
         ReceiveVoteReply, Broadcast, LeaderTick, LeaderCommand, Exit, Stop, Submit, leaderVars
    <3>3. BecomeLeader(n) /\ n # m => nextIndex'[m] = nextIndex[m]
      BY <1>1 DEF BecomeLeader
    <3> QED
      BY <1>2, <2>2, <3>2, <3>3
  <2>4. CASE \E c \in voteCalls : HandleRequestVote(c)
    BY <2>2, <2>4 DEF HandleRequestVote, leaderVars
  <2>5. CASE \E c \in appendCalls : AppendGoroutine(c)
    <3>1. PICK c \in appendCalls : AppendGoroutine(c)
      BY <2>5
    <3>2. /\ c.from \in Server /\ c.to \in Server
          /\ c.stage = "appended" => c.conflict \in Nat /\ c.match \in Nat
      BY DEF TypeInv, TrafficTypeOK, CallTyped, Peers
    <3>3. c.stage # "installed"
      BY DEF NoInstalls
    <3>4. \/ nextIndex' = nextIndex
          \/ c.stage = "appended" /\ RecordMatch(c.from, c)
          \/ c.stage = "appended" /\ RollBack(c.from, c)
      BY <3>1, <3>3 DEF AppendGoroutine, AbandonCall, SendInstallSnapshot, SendAppendEntries,
         HandleAppendEntries, HandleInstallSnapshot, ReceiveAppendReply, UseAppendReply,
         ReceiveInstallReply, leaderVars
    <3>5. CASE c.stage = "appended" /\ RecordMatch(c.from, c)
      <4> DEFINE k == Max({matchIndex[c.from][c.to], c.match})
      <4>1. nextIndex' = [nextIndex EXCEPT ![c.from][c.to] = k + 1]
        <5> DEFINE mi == [matchIndex[c.from] EXCEPT ![c.to] = Max({@, c.match})]
        <5>1. mi[c.to] = k
          BY <1>1, <3>2
        <5>2. nextIndex' = [nextIndex EXCEPT ![c.from][c.to] = mi[c.to] + 1]
          BY <3>5 DEF RecordMatch
        <5> HIDE DEF mi, k
        <5> QED
          BY <5>1, <5>2
      <4>2. k \in Nat
        <5>1. matchIndex[c.from][c.to] \in Nat /\ c.match \in Nat
          BY <1>1, <3>2, <3>5
        <5>2. k = IF matchIndex[c.from][c.to] >= c.match THEN matchIndex[c.from][c.to]
                  ELSE c.match
          BY <5>1, MaxOfTwo
        <5> QED
          BY <5>1, <5>2
      <4> HIDE DEF k
      <4>3. nextIndex'[m][p] = IF m = c.from /\ p = c.to THEN k + 1 ELSE nextIndex[m][p]
        BY <1>1, <3>2, <4>1
      <4> QED
        BY <2>1, <4>2, <4>3
    <3>6. CASE c.stage = "appended" /\ RollBack(c.from, c)
      <4> DEFINE old == nextIndex[c.from][c.to]
                 k == IF c.conflict > 0 THEN c.conflict ELSE IF old > 1 THEN old - 1 ELSE old
      <4>1. nextIndex' = [nextIndex EXCEPT ![c.from][c.to] = k]
        BY <3>6 DEF RollBack
      <4>2. old \in Nat /\ c.conflict \in Nat
        BY <1>1, <3>2, <3>6
      <4>3. old > 0 => k > 0
        <5> HIDE DEF old
        <5> QED
          BY <4>2
      <4> HIDE DEF k
      <4>4. nextIndex'[m][p] = IF m = c.from /\ p = c.to THEN k ELSE nextIndex[m][p]
        BY <1>1, <3>2, <4>1
      <4> QED
        BY <2>1, <4>3, <4>4
    <3> QED
      BY <2>2, <3>4, <3>5, <3>6
  <2> QED
    BY <2>3, <2>4, <2>5 DEF Next
<1> QED
  BY <1>3, <1>4, <1>5, LeaderSince

LEMMA NoInstallsStep ==
    ASSUME TypeInv, Next, NothingCompacted, NoInstalls
    PROVE  NoInstalls'
<1> DEFINE Stages == {"spawned", "append", "appended"}
<1>1. \A n \in Server : state'[n] = "Leader" => \A p \in Server : nextIndex'[n][p] > 0
  BY NextIndexPositive
<1>2. \A c \in appendCalls : c.stage \in Stages
  BY DEF NoInstalls
<1>3. CASE \E n \in Server : MainLoop(n) \/ Client(n)
  <2>1. PICK n \in Server : MainLoop(n) \/ Client(n)
    BY <1>3
  <2>2. CASE Broadcast(n)
    BY <1>1, <1>2, <2>2 DEF Broadcast, NoInstalls
  <2>3. CASE ~Broadcast(n)
    <3>1. appendCalls' = appendCalls
      BY <2>1, <2>3 DEF MainLoop, Client, Dispatch, ElectionTimeout, StartElection,
         CandidateTimeout, ReceiveVoteReply, LeaderTick, LeaderCommand, Exit, Stop, Submit, callVars
    <3> QED
      BY <1>1, <1>2, <3>1 DEF NoInstalls
  <2> QED
    BY <2>2, <2>3
<1>4. CASE \E c \in voteCalls : HandleRequestVote(c)
  BY <1>1, <1>2, <1>4 DEF HandleRequestVote, callVars, NoInstalls
<1>5. CASE \E c \in appendCalls : AppendGoroutine(c)
  <2>1. PICK c \in appendCalls : AppendGoroutine(c)
    BY <1>5
  <2>2. c.from \in Server /\ c.to \in Server /\ nextIndex[c.from][c.to] \in Nat
    BY DEF TypeInv, StoreTypeOK, TrafficTypeOK, CallTyped, Peers
  <2>3. ~SendInstallSnapshot(c)
    <3>1. snapshot[c.from].index = 0
      BY <2>2 DEF NothingCompacted, NoSnapshot
    <3> QED
      BY <2>2, <3>1 DEF SendInstallSnapshot, NoInstalls
  <2>4. c.stage # "install"
    BY <1>2
  <2>5. Finish(c) \/ \E f : Advance(c, f) /\ f.stage \in Stages
    <3>1. CASE AbandonCall(c) \/ ReceiveAppendReply(c) \/ ReceiveInstallReply(c)
      BY <3>1 DEF AbandonCall, ReceiveAppendReply, ReceiveInstallReply
    <3>2. CASE SendAppendEntries(c)
      BY <3>2 DEF SendAppendEntries
    <3>3. CASE HandleAppendEntries(c)
      BY <3>3 DEF HandleAppendEntries, RefuseAppend, FollowAppend, RejectEntries, AcceptEntries,
         AppendReply
    <3>4. ~HandleInstallSnapshot(c)
      BY <2>4 DEF HandleInstallSnapshot
    <3> QED
      BY <2>1, <2>3, <3>1, <3>2, <3>3, <3>4 DEF AppendGoroutine
  <2> QED
    BY <1>1, <1>2, <2>5 DEF Finish, Advance, NoInstalls
<1> QED
  BY <1>3, <1>4, <1>5 DEF Next

-----------------------------------------------------------------------------
(* Log matching. *)

LEMMA LogInvInit == Init => LogInv
<1> SUFFICES ASSUME Init PROVE LogInv
  OBVIOUS
<1>1. TypeInv
  BY TypeInvInit
<1>2. Links = {}
  <2>1. \A n \in Server : LogLinks(n) = {}
    BY DEF Init, LogLinks
  <2>2. Appends = {}
    BY DEF Init, Appends
  <2> QED
    BY <2>1, <2>2, LinkMembers
<1>3. NoInstalls /\ StartsAtZero
  BY DEF Init, NoInstalls, StartsAtZero, Appends
<1>4. LinksMatch /\ LeaderHolds /\ TermsClosed
  BY <1>2 DEF LinksMatch, LeaderHolds, TermsClosed
<1> QED
  BY <1>1, <1>3, <1>4 DEF LogInv, LogsMatch

\* A snapshot, once made, is never undone.
LEMMA CompactedForGood == TypeInv /\ Next /\ NothingCompacted' => NothingCompacted
<1> SUFFICES ASSUME TypeInv, Next, NothingCompacted' PROVE NothingCompacted
  OBVIOUS
<1>1. ASSUME NEW n \in Server, NEW index, Cut(n, index) PROVE FALSE
  <2>1. snapshot'[n].index = index /\ snapshot[n].index \in Nat /\ index > snapshot[n].index
    BY <1>1, LastLogInfo DEF Cut, TypeInv, StoreTypeOK
  <2>2. snapshot'[n].index = 0 /\ index \in Nat
    BY <1>1 DEF NothingCompacted, NoSnapshot, Cut
  <2> QED
    BY <2>1, <2>2
<1>2. \A c \in appendCalls : c.to \in Server /\ c.from \in Server
  BY DEF TypeInv, TrafficTypeOK, CallTyped, Peers
<1>3. snapshot' = snapshot
  BY <1>1, <1>2, LogStep DEF Compacted, Appended, Stored, logVars
<1> QED
  BY <1>3 DEF NothingCompacted

\* A step keeps the links matched.
LEMMA LogsMatchStep ==
    ASSUME TypeInv, Next, NothingCompacted, NothingCompacted', LogsMatch
    PROVE  LogsMatch'
<1> USE DEF LogsMatch
<1>1. ElectionInv /\ ElectionInv' /\ TypeInv'
  BY TypeInvNext DEF TypeInv
<1>2. NoInstalls'
  BY NoInstallsStep
<1>3. StartsAtZero'
  BY NextLinks
<1>4. \A l \in Links : l.at \in Int /\ l.entry.term \in Nat /\ TermClosed(l.entry.term)'
  BY <1>1, LinkTyped, TermStaysClosed DEF TermsClosed
<1>5. ASSUME NEW m \in Server, state'[m] = "Leader", NEW l \in Links,
             l.entry.term = currentTerm'[m]
      PROVE  state[m] = "Leader" /\ currentTerm'[m] = currentTerm[m] /\ l.at <= Len(log[m])
  <2>1. currentTerm'[m] = currentTerm[m] /\ (state[m] = "Leader" \/ Wins(m))
    BY <1>1, <1>5, LeaderSince
  <2>2. TermClosed(currentTerm[m])
    BY <1>5, <2>1 DEF TermsClosed
  <2>3. ~Wins(m)
    BY <1>1, <2>2, ClosedTermNotWon
  <2> QED
    BY <1>5, <2>1, <2>3 DEF LeaderHolds
<1>6. CASE /\ Links' \subseteq Links
           /\ \A n \in Server : state'[n] = "Leader" => log'[n] = log[n]
  <2>1. LinksMatch'
    BY <1>6 DEF LinksMatch
  <2>2. LeaderHolds'
    BY <1>5, <1>6 DEF LeaderHolds
  <2>3. TermsClosed'
    BY <1>4, <1>6 DEF TermsClosed
  <2> QED
    BY <1>2, <1>3, <2>1, <2>2, <2>3
<1>7. ASSUME NEW n \in Server, LeaderAppends(n) PROVE LogsMatch'
  <2> DEFINE new == Link(log'[n], Len(log[n]) + 1)
  <2>1. /\ state[n] = "Leader" /\ state' = state /\ currentTerm' = currentTerm
        /\ \A l \in Links' : l \in Links \/ l = new
    BY <1>7 DEF LeaderAppends, electionVars
  <2>2. PICK e \in Entry : e.term = currentTerm[n] /\ log' = [log EXCEPT ![n] = Append(@, e)]
    BY <1>7 DEF LeaderAppends
  <2>3. /\ log[n] \in Seq(Entry) /\ Len(log[n]) \in Nat
        /\ log'[n] = Append(log[n], e)
        /\ \A m \in Server \ {n} : log'[m] = log[m]
    BY <2>2 DEF TypeInv, StoreTypeOK
  <2>4. Len(log'[n]) = Len(log[n]) + 1 /\ log'[n][Len(log[n]) + 1] = e
    BY <2>3
  <2>5. new.at = Len(log[n]) + 1 /\ new.entry.term = currentTerm[n]
    BY <2>2, <2>4 DEF Link
  <2> HIDE DEF new
  <2>6. \A l \in Links : l.entry.term = currentTerm[n] => l.at <= Len(log[n])
    BY <2>1 DEF LeaderHolds
  <2>7. LinksMatch'
    <3>1. \A l \in Links : ~(l.at = new.at /\ l.entry.term = new.entry.term)
      BY <1>4, <2>3, <2>5, <2>6
    <3> QED
      BY <2>1, <3>1 DEF LinksMatch
  <2>8. LeaderHolds'
    <3> SUFFICES ASSUME NEW m \in Server, state'[m] = "Leader", NEW l \in Links',
                        l.entry.term = currentTerm'[m]
                 PROVE  l.at <= Len(log'[m])
      BY DEF LeaderHolds
    <3>1. CASE l \in Links /\ m # n
      BY <1>5, <2>3, <3>1
    <3>2. CASE l \in Links /\ m = n
      <4>1. l.at <= Len(log[n]) /\ l.at \in Int
        BY <1>4, <1>5, <3>2
      <4> QED
        BY <2>3, <2>4, <3>2, <4>1
    <3>3. CASE l = new
      <4>1. m = n
        BY <1>1, <2>1, <2>5, <3>3, ElectionInvSafe DEF ElectionSafety
      <4> QED
        BY <2>3, <2>4, <2>5, <3>3, <4>1
    <3> QED
      BY <2>1, <3>1, <3>2, <3>3
  <2>9. TermsClosed'
    <3>1. currentTerm[n] \in Nat /\ TermClosed(currentTerm[n])
      BY <1>1, <2>1, LeaderClosesTerm DEF ElectionInv, ElectionTypeOK
    <3> DEFINE t == currentTerm[n]
    <3>2. TermClosed(t)'
      <4>1. PICK k \in Nat : k = t
        BY <3>1
      <4>2. TermClosed(k)'
        BY <1>1, <3>1, <4>1, TermStaysClosed
      <4> QED
        BY <2>1, <4>1, <4>2
    <3> QED
      BY <1>4, <2>1, <2>5, <3>2 DEF TermsClosed
  <2> QED
    BY <1>2, <1>3, <2>7, <2>8, <2>9
<1> QED
  BY <1>6, <1>7, NextLinks

LEMMA LogInvNext == LogInv /\ [Next]_vars => LogInv'
<1> SUFFICES ASSUME LogInv, [Next]_vars PROVE LogInv'
  OBVIOUS
<1>1. TypeInv'
  BY TypeInvNext DEF LogInv
<1>2. CASE Next
  BY <1>1, <1>2, CompactedForGood, LogsMatchStep DEF LogInv
<1>3. CASE UNCHANGED vars
  <2> USE <1>3 DEF vars, electionVars, logVars, leaderVars, loopVars, voteVars, callVars
  <2>1. Links' = Links /\ Appends' = Appends
    BY DEF Links, LogLinks, CallLinks, Appends
  <2>2. \A t : TermClosed(t)' <=> TermClosed(t)
    BY DEF TermClosed, Claim
  <2>3. NothingCompacted' => NothingCompacted
    BY DEF NothingCompacted
  <2>4. LogsMatch => LogsMatch'
    BY <2>1, <2>2 DEF LogsMatch, NoInstalls, StartsAtZero, LinksMatch, LeaderHolds, TermsClosed
  <2> QED
    BY <1>1, <2>3, <2>4 DEF LogInv
<1> QED
  BY <1>2, <1>3

\* Matching links make matching logs: walking back from an index where the terms
\* agree, each entry's link fixes the term of the one before.
LEMMA LinksMatchLogs ==
    ASSUME TypeInv, NothingCompacted, LinksMatch
    PROVE  LogMatching
<1> SUFFICES ASSUME NEW n \in Server, NEW m \in Server, NEW i \in 1..LastIndex(n),
                    HasEntry(n, i), HasEntry(m, i), EntryAt(n, i).term = EntryAt(m, i).term,
                    NEW j \in 1..i
             PROVE  EntryAt(n, j) = EntryAt(m, j)
  BY DEF LogMatching
<1>1. /\ snapshot[n].index = 0 /\ snapshot[m].index = 0
      /\ LastIndex(n) \in Nat /\ Len(log[n]) \in Nat /\ Len(log[m]) \in Nat
  BY LastLogInfo DEF NothingCompacted, NoSnapshot, TypeInv
<1>2. /\ i \in Nat /\ j \in Nat /\ j <= i /\ j >= 1
      /\ i \in 1..Len(log[n]) /\ i \in 1..Len(log[m])
      /\ log[n][i].term = log[m][i].term
  BY <1>1 DEF HasEntry, EntryAt
<1>3. ASSUME NEW k \in 1..i, log[n][k].term = log[m][k].term
      PROVE  /\ log[n][k] = log[m][k]
             /\ k > 1 => log[n][k - 1].term = log[m][k - 1].term
  <2>1. Link(log[n], k) \in Links /\ Link(log[m], k) \in Links
    <3>1. k \in 1..Len(log[n]) /\ k \in 1..Len(log[m])
      BY <1>1, <1>2
    <3> QED
      BY <3>1, LinkMembers DEF LogLinks
  <2>2. Link(log[n], k) = Link(log[m], k)
    BY <1>3, <2>1 DEF LinksMatch, Link
  <2>3. log[n][k] = log[m][k] /\ TermBefore(log[n], k) = TermBefore(log[m], k)
    BY <2>2 DEF Link
  <2> QED
    BY <2>3 DEF TermBefore
<1> DEFINE S == {d \in Nat : d < i => log[n][i - d].term = log[m][i - d].term}
<1>4. 0 \in S
  BY <1>2
<1>5. ASSUME NEW d \in Nat, d \in S
      PROVE  d + 1 \in S
  <2>1. SUFFICES ASSUME d + 1 < i
                 PROVE  log[n][i - (d + 1)].term = log[m][i - (d + 1)].term
    OBVIOUS
  <2>2. d < i /\ i - d \in 1..i /\ i - d > 1 /\ i - d - 1 = i - (d + 1)
    BY <1>2, <2>1
  <2>3. log[n][i - d].term = log[m][i - d].term
    BY <1>5, <2>2
  <2> QED
    BY <1>3, <2>2, <2>3
<1>6. \A d \in Nat : d \in S
  <2> HIDE DEF S
  <2> QED
    BY <1>4, <1>5, SetInduction
<1>7. i - j \in Nat /\ i - j < i /\ i - (i - j) = j
  <2>1. i \in Nat /\ j \in Nat /\ j <= i /\ j >= 1
    BY <1>2
  <2> HIDE DEF S
  <2> QED
    BY <2>1
<1>8. log[n][j].term = log[m][j].term
  BY <1>6, <1>7
<1>9. log[n][j] = log[m][j]
  BY <1>2, <1>3, <1>8
<1> QED
  BY <1>1, <1>2, <1>9 DEF EntryAt

\* Until a log is compacted, logs that agree on the term of an index agree on
\* everything up to it, whichever terms, retries and late calls wrote them.
THEOREM RaftLogMatching == Spec => [](NothingCompacted => LogMatching)
<1>1. Init => LogInv
  BY LogInvInit
<1>2. LogInv /\ [Next]_vars => LogInv'
  BY LogInvNext
<1>3. LogInv => (NothingCompacted => LogMatching)
  BY LinksMatchLogs DEF LogInv, LogsMatch
<1> QED
  BY <1>1, <1>2, <1>3, PTL DEF Spec

-----------------------------------------------------------------------------
(* What has been applied. *)

\* No index up to lastApplied was skipped, in a state machine, in a snapshot or
\* in the map an InstallSnapshot call carries.
NoneSkipped ==
    \A n \in Server : /\ snapshot[n].index <= lastApplied[n]
                      /\ lastApplied[n] <= Len(stateMachine[n])
SnapshotsComplete ==
    \A n \in Server : ~snapshot[n].shared => snapshot[n].index <= Len(snapshot[n].data)
InstallsComplete ==
    \A c \in appendCalls : c.stage = "install" => c.index <= Len(c.data)

\* The inductive invariant of applying.
AppliedInv ==
    /\ TypeInv /\ NoneSkipped /\ SnapshotsComplete /\ InstallsComplete
    /\ NothingCompacted => AppliedOncePerIndex

\* The map a snapshot stands for has an entry's effect for each of its indices.
LEMMA SnapshotDataComplete ==
    ASSUME StoreTypeOK, NoneSkipped, SnapshotsComplete, NEW n \in Server
    PROVE  snapshot[n].index <= Len(SnapshotData(n))
<1>1. /\ snapshot[n] \in [index : Nat, term : Nat, data : Seq(Command), shared : BOOLEAN]
      /\ lastApplied[n] \in Nat /\ stateMachine[n] \in Seq(Command)
  BY DEF StoreTypeOK
<1>2. Len(stateMachine[n]) \in Nat /\ snapshot[n].index \in Nat
  BY <1>1
<1> QED
  BY <1>1, <1>2 DEF NoneSkipped, SnapshotsComplete, SnapshotData

\* applyCommitted applies one command for each index it moves over.
LEMMA AppliesEach ==
    ASSUME StoreTypeOK, NoneSkipped, NEW n \in Server, NEW lg \in Seq(Entry), NEW commit \in Nat,
           commit <= snapshot[n].index + Len(lg),
           CommitAndApply(n, lg, snapshot[n].index, commit)
    PROVE  /\ stateMachine'[n] =
                stateMachine[n] \o CommandsOf(lg, snapshot[n].index, lastApplied[n] + 1, commit)
           /\ lastApplied'[n] \in Nat /\ lastApplied'[n] >= lastApplied[n]
           /\ lastApplied'[n] >= commit
           /\ Len(stateMachine'[n]) = Len(stateMachine[n]) + (lastApplied'[n] - lastApplied[n])
           /\ \A m \in Server \ {n} : /\ stateMachine'[m] = stateMachine[m]
                                       /\ lastApplied'[m] = lastApplied[m]
<1> DEFINE base == snapshot[n].index
           new == CommandsOf(lg, base, lastApplied[n] + 1, commit)
<1>1. /\ base \in Nat /\ lastApplied[n] \in Nat /\ stateMachine[n] \in Seq(Command)
      /\ base <= lastApplied[n] /\ Len(lg) \in Nat
  BY LastLogInfo DEF StoreTypeOK, NoneSkipped
<1>2. /\ lastApplied' = [lastApplied EXCEPT ![n] = Max({lastApplied[n], commit})]
      /\ stateMachine' = [stateMachine EXCEPT ![n] = stateMachine[n] \o new]
  BY DEF CommitAndApply
<1>3. /\ new \in Seq(Command)
      /\ Len(new) = IF lastApplied[n] + 1 <= commit THEN commit - lastApplied[n] ELSE 0
  <2>1. lastApplied[n] + 1 \in Nat /\ commit \in Int /\ lastApplied[n] + 1 > base
    BY <1>1
  <2> HIDE DEF base
  <2>2. commit <= base + Len(lg)
    BY DEF base
  <2>3. /\ new \in Seq(Command)
        /\ Len(new) = IF lastApplied[n] + 1 <= commit
                      THEN commit - (lastApplied[n] + 1) + 1 ELSE 0
    BY <1>1, <2>1, <2>2, CommandsOfLog
  <2> HIDE DEF new
  <2> QED
    BY <1>1, <2>3
<1> HIDE DEF base, new
<1>4. Max({lastApplied[n], commit}) = IF lastApplied[n] >= commit THEN lastApplied[n] ELSE commit
  <2>1. lastApplied[n] \in Int /\ commit \in Int
    BY <1>1
  <2> QED
    BY <2>1, MaxOfTwo
<1>5. /\ lastApplied'[n] = IF lastApplied[n] >= commit THEN lastApplied[n] ELSE commit
      /\ stateMachine'[n] = stateMachine[n] \o new
      /\ \A m \in Server \ {n} : /\ stateMachine'[m] = stateMachine[m]
                                  /\ lastApplied'[m] = lastApplied[m]
  BY <1>2, <1>4 DEF StoreTypeOK
<1>6. Len(stateMachine'[n]) = Len(stateMachine[n]) + Len(new)
  BY <1>1, <1>3, <1>5, ConcatProperties
<1>7. /\ lastApplied'[n] \in Nat /\ lastApplied'[n] >= lastApplied[n] /\ lastApplied'[n] >= commit
      /\ Len(new) = lastApplied'[n] - lastApplied[n]
  BY <1>1, <1>3, <1>5
<1>8. stateMachine'[n] = stateMachine[n] \o CommandsOf(lg, snapshot[n].index, lastApplied[n] + 1, commit)
  BY <1>5 DEF base, new
<1> QED
  BY <1>5, <1>6, <1>7, <1>8

\* The three ways a step changes what is applied or compacted.
Applies(n) == \* applyCommitted, and perhaps maybeSnapshot
    \E lg \in Seq(Entry), commit \in Nat :
        /\ commit <= snapshot[n].index + Len(lg)
        /\ CommitAndApply(n, lg, snapshot[n].index, commit)
        /\ \/ snapshot' = snapshot
           \/ \E s :
                /\ s.index = commit /\ ~s.shared
                /\ s.data = stateMachine[n] \o
                     CommandsOf(lg, snapshot[n].index, lastApplied[n] + 1, commit)
                /\ snapshot' = [snapshot EXCEPT ![n] = s]

Installs(c) ==
    /\ c.stage = "install" /\ c.index > snapshot[c.to].index
    /\ \E s : s.index = c.index /\ s.shared /\ snapshot' = [snapshot EXCEPT ![c.to] = s]
    /\ stateMachine' = [stateMachine EXCEPT ![c.to] = c.data]
    /\ lastApplied' = [lastApplied EXCEPT ![c.to] = c.index]

LEMMA ApplyStep ==
    ASSUME TypeInv, Next
    PROVE  \/ UNCHANGED <<snapshot, lastApplied, stateMachine>>
           \/ \E n \in Server : Applies(n)
           \/ \E c \in appendCalls : Installs(c)
<1>1. CASE \E n \in Server : MainLoop(n) \/ Client(n)
  BY <1>1 DEF MainLoop, Client, Dispatch, ElectionTimeout, StartElection, CandidateTimeout,
     ReceiveVoteReply, Broadcast, LeaderTick, LeaderCommand, Exit, Stop, Submit, logVars, applyVars
<1>2. CASE \E c \in voteCalls : HandleRequestVote(c)
  BY <1>2 DEF HandleRequestVote, logVars, applyVars
<1>3. ASSUME NEW c \in appendCalls, AppendGoroutine(c)
      PROVE  \/ UNCHANGED <<snapshot, lastApplied, stateMachine>>
             \/ Applies(c.to) \/ Applies(c.from) \/ Installs(c)
  <2>1. StoreTypeOK /\ CallTyped(c) /\ c.from \in Server /\ c.to \in Server
    BY DEF TypeInv, TrafficTypeOK, CallTyped, Peers
  <2>2. CASE AbandonCall(c) \/ SendInstallSnapshot(c) \/ SendAppendEntries(c) \/ ReceiveInstallReply(c)
    BY <2>2 DEF AbandonCall, SendInstallSnapshot, SendAppendEntries, ReceiveInstallReply,
       logVars, applyVars
  <2>3. CASE HandleAppendEntries(c)
    <3> DEFINE n == c.to
               lg == StoreEntries(log[n], AppendAt(n, c), c.entries)
               newLast == snapshot[n].index + Len(lg)
               commit == Min({c.commit, newLast})
    <3>1. /\ c.stage = "append" /\ snapshot' = snapshot
          /\ \/ UNCHANGED applyVars
             \/ PrevMatches(n, c) /\ CommitAndApply(n, lg, snapshot[n].index, commit)
      BY <2>3 DEF HandleAppendEntries, RefuseAppend, FollowAppend, RejectEntries, AcceptEntries
    <3>2. CASE UNCHANGED applyVars
      BY <3>1, <3>2 DEF applyVars
    <3>3. CASE PrevMatches(n, c) /\ CommitAndApply(n, lg, snapshot[n].index, commit)
      <4>1. /\ c.prevIndex \in Nat /\ c.entries \in Seq(Entry) /\ c.commit \in Nat
            /\ snapshot[n].index \in Nat /\ log[n] \in Seq(Entry)
        BY <2>1, <3>1, LastLogInfo DEF CallTyped, StoreTypeOK
      <4>2. lg \in Seq(Entry)
        <5>1. AppendAt(n, c) \in 0..Len(log[n])
          BY <2>1, <3>3, <4>1, InsertWithin
        <5> QED
          BY <4>1, <5>1, StoredLog
      <4> HIDE DEF lg
      <4>3. newLast \in Nat
        BY <4>1, <4>2
      <4> HIDE DEF newLast
      <4>4. commit = IF c.commit <= newLast THEN c.commit ELSE newLast
        BY <4>1, <4>3, MinOfTwo
      <4> HIDE DEF commit
      <4>5. commit \in Nat /\ commit <= snapshot[n].index + Len(lg)
        BY <4>1, <4>3, <4>4 DEF newLast
      <4>6. Applies(n)
        BY <3>1, <3>3, <4>2, <4>5 DEF Applies
      <4> QED
        BY <4>6
    <3> QED
      BY <3>1, <3>2, <3>3
  <2>4. CASE HandleInstallSnapshot(c)
    <3> DEFINE s == [index |-> c.index, term |-> c.lastTerm, data |-> <<>>, shared |-> TRUE]
    <3>1. \/ UNCHANGED <<logVars, applyVars>>
          \/ /\ c.stage = "install" /\ c.index > snapshot[c.to].index
             /\ snapshot' = [snapshot EXCEPT ![c.to] = s]
             /\ stateMachine' = [stateMachine EXCEPT ![c.to] = c.data]
             /\ lastApplied' = [lastApplied EXCEPT ![c.to] = c.index]
      BY <2>4 DEF HandleInstallSnapshot
    <3>2. s.index = c.index /\ s.shared
      OBVIOUS
    <3> HIDE DEF s
    <3> QED
      BY <3>1, <3>2 DEF Installs, logVars, applyVars
  <2>5. CASE ReceiveAppendReply(c)
    <3> DEFINE n == c.from
               m == [matchIndex[n] EXCEPT ![c.to] = Max({@, c.match})]
               commit == NewCommitIndex(n, m)
               base == snapshot[n].index
               data == stateMachine[n] \o CommandsOf(log[n], base, lastApplied[n] + 1, commit)
               s == [index |-> commit, term |-> log[n][commit - base].term, shared |-> FALSE,
                     data |-> data]
    <3>1. \/ UNCHANGED <<logVars, applyVars>>
          \/ /\ commit > commitIndex[n]
             /\ CommitAndApply(n, log[n], base, commit)
             /\ snapshot' = snapshot \/ snapshot' = [snapshot EXCEPT ![n] = s]
      BY <2>5 DEF ReceiveAppendReply, UseAppendReply, RecordMatch, RollBack, MaybeSnapshot, logVars
    <3>2. CASE UNCHANGED <<logVars, applyVars>>
      BY <3>2 DEF logVars, applyVars
    <3>3. CASE /\ commit > commitIndex[n]
               /\ CommitAndApply(n, log[n], base, commit)
               /\ snapshot' = snapshot \/ snapshot' = [snapshot EXCEPT ![n] = s]
      <4>1. /\ log[n] \in Seq(Entry) /\ base \in Nat /\ commitIndex[n] \in Nat
            /\ LastIndex(n) \in Nat /\ LastIndex(n) = base + Len(log[n])
        BY <2>1, LastLogInfo DEF StoreTypeOK, LastIndex
      <4>2. commit = commitIndex[n] \/ commit \in (commitIndex[n] + 1)..LastIndex(n)
        <5> HIDE DEF m
        <5> QED
          BY <2>1, NewCommit
      <4>3. s.index = commit /\ ~s.shared /\ s.data = data
        OBVIOUS
      <4> HIDE DEF commit
      <4>4. commit \in Nat /\ commit <= base + Len(log[n])
        BY <3>3, <4>1, <4>2
      <4> HIDE DEF s
      <4>5. Applies(n)
        BY <3>3, <4>1, <4>3, <4>4 DEF Applies
      <4> QED
        BY <4>5
    <3> QED
      BY <3>1, <3>2, <3>3
  <2> QED
    BY <1>3, <2>2, <2>3, <2>4, <2>5 DEF AppendGoroutine
<1>4. \A c \in appendCalls : c.from \in Server /\ c.to \in Server
  BY DEF TypeInv, TrafficTypeOK, CallTyped, Peers
<1> QED
  BY <1>1, <1>2, <1>3, <1>4 DEF Next

\* An InstallSnapshot call is made from the sender's snapshot.
LEMMA InstallSource ==
    ASSUME TypeInv, Next, NEW d \in appendCalls', d.stage = "install"
    PROVE  \/ d \in appendCalls
           \/ \E n \in Server : d.index = snapshot[n].index /\ d.data = SnapshotData(n)
<1> SUFFICES ASSUME d \notin appendCalls
             PROVE  \E n \in Server : d.index = snapshot[n].index /\ d.data = SnapshotData(n)
  OBVIOUS
<1>1. CASE \E n \in Server : MainLoop(n) \/ Client(n)
  BY <1>1 DEF MainLoop, Client, Dispatch, ElectionTimeout, StartElection, CandidateTimeout,
     ReceiveVoteReply, Broadcast, LeaderTick, LeaderCommand, Exit, Stop, Submit, callVars
<1>2. CASE \E c \in voteCalls : HandleRequestVote(c)
  BY <1>2 DEF HandleRequestVote, callVars
<1>3. CASE \E c \in appendCalls : AppendGoroutine(c)
  <2>1. PICK c \in appendCalls : AppendGoroutine(c)
    BY <1>3
  <2>2. CASE SendInstallSnapshot(c)
    <3>1. d.index = snapshot[c.from].index /\ d.data = SnapshotData(c.from)
      BY <2>2 DEF SendInstallSnapshot, Advance
    <3> QED
      BY <3>1 DEF TypeInv, TrafficTypeOK, CallTyped
  <2>3. CASE ~SendInstallSnapshot(c)
    <3>1. Finish(c) \/ \E f : Advance(c, f) /\ f.stage # "install"
      <4>1. CASE AbandonCall(c) \/ ReceiveAppendReply(c) \/ ReceiveInstallReply(c)
        BY <4>1 DEF AbandonCall, ReceiveAppendReply, ReceiveInstallReply
      <4>2. CASE SendAppendEntries(c)
        BY <4>2 DEF SendAppendEntries
      <4>3. CASE HandleAppendEntries(c)
        BY <4>3 DEF HandleAppendEntries, RefuseAppend, FollowAppend, RejectEntries, AcceptEntries,
           AppendReply
      <4>4. CASE HandleInstallSnapshot(c)
        BY <4>4 DEF HandleInstallSnapshot, InstallReply
      <4> QED
        BY <2>1, <2>3, <4>1, <4>2, <4>3, <4>4 DEF AppendGoroutine
    <3> QED
      BY <3>1 DEF Finish, Advance
  <2> QED
    BY <2>2, <2>3
<1> QED
  BY <1>1, <1>2, <1>3 DEF Next

LEMMA AppliedInvInit == Init => AppliedInv
<1> SUFFICES ASSUME Init PROVE AppliedInv
  OBVIOUS
<1>1. TypeInv
  BY TypeInvInit
<1>2. \A n \in Server : /\ snapshot[n].index = 0 /\ snapshot[n].data = <<>>
                        /\ lastApplied[n] = 0 /\ stateMachine[n] = <<>>
  BY DEF Init, NoSnapshot
<1>3. appendCalls = {} /\ Len(<<>>) = 0
  BY DEF Init
<1> QED
  BY <1>1, <1>2, <1>3 DEF AppliedInv, NoneSkipped, SnapshotsComplete, InstallsComplete,
     AppliedOncePerIndex

\* What the stores have applied stays complete.
LEMMA StoresStayComplete ==
    ASSUME AppliedInv, Next
    PROVE  NoneSkipped' /\ SnapshotsComplete' /\ (NothingCompacted' => AppliedOncePerIndex')
<1> USE DEF AppliedInv
<1>1. /\ StoreTypeOK /\ StoreTypeOK' /\ NoneSkipped /\ SnapshotsComplete
      /\ NothingCompacted' => NothingCompacted
  BY TypeInvNext, CompactedForGood DEF TypeInv
<1>2. CASE UNCHANGED <<snapshot, lastApplied, stateMachine>>
  BY <1>1, <1>2 DEF NoneSkipped, SnapshotsComplete, AppliedOncePerIndex
<1>3. ASSUME NEW n \in Server, Applies(n)
      PROVE  NoneSkipped' /\ SnapshotsComplete' /\ (NothingCompacted' => AppliedOncePerIndex')
  <2>1. PICK lg \in Seq(Entry), commit \in Nat :
           /\ commit <= snapshot[n].index + Len(lg)
           /\ CommitAndApply(n, lg, snapshot[n].index, commit)
           /\ \/ snapshot' = snapshot
              \/ \E s :
                   /\ s.index = commit /\ ~s.shared
                   /\ s.data = stateMachine[n] \o
                        CommandsOf(lg, snapshot[n].index, lastApplied[n] + 1, commit)
                   /\ snapshot' = [snapshot EXCEPT ![n] = s]
    BY <1>3 DEF Applies
  <2>2. /\ stateMachine'[n] =
              stateMachine[n] \o CommandsOf(lg, snapshot[n].index, lastApplied[n] + 1, commit)
        /\ lastApplied'[n] \in Nat /\ lastApplied'[n] >= lastApplied[n]
        /\ lastApplied'[n] >= commit
        /\ Len(stateMachine'[n]) = Len(stateMachine[n]) + (lastApplied'[n] - lastApplied[n])
        /\ \A m \in Server \ {n} : /\ stateMachine'[m] = stateMachine[m]
                                    /\ lastApplied'[m] = lastApplied[m]
    BY <1>1, <2>1, AppliesEach
  <2>3. /\ lastApplied[n] \in Nat /\ Len(stateMachine[n]) \in Nat /\ snapshot[n].index \in Nat
        /\ snapshot[n].index <= lastApplied[n] /\ lastApplied[n] <= Len(stateMachine[n])
    <3>1. stateMachine[n] \in Seq(Command) /\ lastApplied[n] \in Nat
      BY <1>1 DEF StoreTypeOK
    <3> QED
      BY <1>1, <3>1, LastLogInfo DEF NoneSkipped
  <2> DEFINE la == lastApplied[n]
             la2 == lastApplied'[n]
             len == Len(stateMachine[n])
             len2 == Len(stateMachine'[n])
             base == snapshot[n].index
  <2>4. /\ la \in Nat /\ la2 \in Nat /\ len \in Nat /\ base \in Nat
        /\ la2 >= la /\ la2 >= commit /\ len2 = len + (la2 - la) /\ base <= la /\ la <= len
        /\ la2 <= len2 /\ base <= la2 /\ commit <= len2 /\ (la = len => la2 = len2)
    <3>1. /\ la \in Nat /\ la2 \in Nat /\ len \in Nat /\ base \in Nat
          /\ la2 >= la /\ la2 >= commit /\ len2 = len + (la2 - la) /\ base <= la /\ la <= len
      BY <2>2, <2>3
    <3> HIDE DEF la, la2, len, len2, base
    <3> QED
      BY <3>1
  <2>5. \/ snapshot' = snapshot
        \/ \E s :
             /\ s.index = commit /\ ~s.shared /\ s.data = stateMachine'[n]
             /\ snapshot' = [snapshot EXCEPT ![n] = s]
    BY <2>1, <2>2
  <2>6. /\ \A m \in Server \ {n} : snapshot'[m] = snapshot[m]
        /\ \/ snapshot'[n] = snapshot[n]
           \/ snapshot'[n].index = commit /\ snapshot'[n].data = stateMachine'[n]
    BY <1>1, <2>5 DEF StoreTypeOK
  <2>7. snapshot'[n].index <= lastApplied'[n]
    BY <2>4, <2>6
  <2>8. NoneSkipped'
    BY <1>1, <2>2, <2>4, <2>6, <2>7 DEF NoneSkipped
  <2>12. snapshot'[n] = snapshot[n] => base <= Len(snapshot[n].data) \/ snapshot[n].shared
    BY <1>1 DEF SnapshotsComplete
  <2>9. ~snapshot'[n].shared => snapshot'[n].index <= Len(snapshot'[n].data)
    BY <1>1, <2>4, <2>6, <2>12 DEF SnapshotsComplete
  <2>10. SnapshotsComplete'
    BY <1>1, <2>6, <2>9 DEF SnapshotsComplete
  <2>11. AppliedOncePerIndex => AppliedOncePerIndex'
    BY <2>2, <2>4 DEF AppliedOncePerIndex
  <2> QED
    BY <1>1, <2>8, <2>10, <2>11
<1>4. ASSUME NEW c \in appendCalls, Installs(c)
      PROVE  NoneSkipped' /\ SnapshotsComplete' /\ (NothingCompacted' => AppliedOncePerIndex')
  <2>1. /\ c.to \in Server /\ c.stage = "install" /\ c.index \in Nat /\ c.data \in Seq(Command)
        /\ c.index > snapshot[c.to].index /\ snapshot[c.to].index \in Nat
        /\ c.index <= Len(c.data)
    <3>1. CallTyped(c) /\ c.stage = "install" /\ c.index > snapshot[c.to].index
      BY <1>4 DEF TypeInv, TrafficTypeOK, Installs
    <3>2. c.to \in Server /\ c.index \in Nat /\ c.data \in Seq(Command)
      BY <3>1 DEF CallTyped, Peers
    <3> QED
      BY <1>1, <3>1, <3>2, LastLogInfo DEF InstallsComplete
  <2>2. /\ \E s : s.index = c.index /\ s.shared /\ snapshot' = [snapshot EXCEPT ![c.to] = s]
        /\ stateMachine' = [stateMachine EXCEPT ![c.to] = c.data]
        /\ lastApplied' = [lastApplied EXCEPT ![c.to] = c.index]
    BY <1>4 DEF Installs
  <2>3. /\ snapshot'[c.to].index = c.index /\ snapshot'[c.to].shared
        /\ stateMachine'[c.to] = c.data /\ lastApplied'[c.to] = c.index
        /\ \A m \in Server \ {c.to} : /\ snapshot'[m] = snapshot[m]
                                       /\ stateMachine'[m] = stateMachine[m]
                                       /\ lastApplied'[m] = lastApplied[m]
    BY <1>1, <2>1, <2>2 DEF StoreTypeOK
  <2>4. NoneSkipped'
    BY <1>1, <2>1, <2>3 DEF NoneSkipped
  <2>5. SnapshotsComplete'
    BY <1>1, <2>3 DEF SnapshotsComplete
  <2>6. ~NothingCompacted'
    BY <2>1, <2>3 DEF NothingCompacted, NoSnapshot
  <2> QED
    BY <2>4, <2>5, <2>6
<1> QED
  BY <1>2, <1>3, <1>4, ApplyStep

LEMMA AppliedInvNext == AppliedInv /\ [Next]_vars => AppliedInv'
<1> SUFFICES ASSUME AppliedInv, [Next]_vars PROVE AppliedInv'
  OBVIOUS
<1>1. TypeInv'
  BY TypeInvNext DEF AppliedInv
<1>2. CASE Next
  <2>1. InstallsComplete'
    <3> SUFFICES ASSUME NEW d \in appendCalls', d.stage = "install"
                 PROVE  d.index <= Len(d.data)
      BY DEF InstallsComplete
    <3>1. CASE d \in appendCalls
      BY <3>1 DEF AppliedInv, InstallsComplete
    <3>2. ASSUME NEW n \in Server, d.index = snapshot[n].index, d.data = SnapshotData(n)
          PROVE  d.index <= Len(d.data)
      BY <3>2, SnapshotDataComplete DEF AppliedInv, TypeInv
    <3> QED
      BY <1>2, <3>1, <3>2, InstallSource DEF AppliedInv
  <2> QED
    BY <1>1, <1>2, <2>1, StoresStayComplete DEF AppliedInv
<1>3. CASE UNCHANGED vars
  BY <1>1, <1>3 DEF vars, logVars, applyVars, callVars, AppliedInv, NoneSkipped, SnapshotsComplete,
     InstallsComplete, AppliedOncePerIndex, NothingCompacted
<1> QED
  BY <1>2, <1>3

\* Whatever is compacted, installed, retried or cut off: a snapshot holds no index
\* that is not applied, and no index up to lastApplied was skipped.
THEOREM RaftNoneSkipped == Spec => []NoneSkipped
<1>1. Init => AppliedInv
  BY AppliedInvInit
<1>2. AppliedInv /\ [Next]_vars => AppliedInv'
  BY AppliedInvNext
<1>3. AppliedInv => NoneSkipped
  BY DEF AppliedInv
<1> QED
  BY <1>1, <1>2, <1>3, PTL DEF Spec

\* Until a log is compacted, applyCommitted applies every index up to lastApplied
\* exactly once, on every node and through every change of leader.
THEOREM RaftAppliedOncePerIndex == Spec => [](NothingCompacted => AppliedOncePerIndex)
<1>1. Init => AppliedInv
  BY AppliedInvInit
<1>2. AppliedInv /\ [Next]_vars => AppliedInv'
  BY AppliedInvNext
<1>3. AppliedInv => (NothingCompacted => AppliedOncePerIndex)
  BY DEF AppliedInv
<1> QED
  BY <1>1, <1>2, <1>3, PTL DEF Spec
=============================================================================
