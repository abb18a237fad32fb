------------------------------- MODULE Raft -------------------------------
(***************************************************************************)
(* The Raft node of labs/raft/pkg/raft/raft.go: timeouts, replication and *)
(* snapshots, at the granularity of the code's critical sections.          *)
(*                                                                         *)
(* Every node runs one main goroutine (run) and spawns one goroutine per   *)
(* peer for each RPC.  An RPC is a direct call of the peer's handler, so   *)
(* nothing is lost, but a goroutine may be delayed for any time between    *)
(* two critical sections of n.mu.  One action below is one critical        *)
(* section; what a goroutine read in an earlier one is a field of its      *)
(* call record.  Timers may fire at any time, so they are not state.       *)
(* The key/value state machine is the sequence of commands applied to it.  *)
(***************************************************************************)
EXTENDS Integers, FiniteSets, Sequences, FiniteSetsExt

CONSTANTS Server,             \* the nodes of the cluster
          Command,            \* commands a client may submit, each once
          Nobody,             \* votedFor = -1
          SnapshotThreshold,  \* snapshotThreshold: compact beyond this length
          CommandChCap,       \* capacity of commandCh
          MaxTimeouts,        \* bound: election timers that fire in a run
          MaxRounds,          \* bound: calls of broadcastAppendEntries in a run
          MaxCalls,           \* bound: append goroutines alive at a time
          MaxStops            \* bound: nodes that Stop() may shut down

ASSUME ServerAssumption == IsFiniteSet(Server) /\ Nobody \notin Server
ASSUME BoundAssumption ==
    /\ {SnapshotThreshold, CommandChCap, MaxTimeouts, MaxRounds, MaxCalls,
        MaxStops} \subseteq Nat

VARIABLES
    currentTerm, votedFor, state,         \* Node.currentTerm, votedFor, state
    log, snapshot,                        \* Node.log, the snapshot fields
    commitIndex, lastApplied, stateMachine,
    nextIndex, matchIndex,                \* leader only
    pc, electionTerm, votes, stopped,     \* the main goroutine and its locals
    commandCh, submitted,                 \* queued commands; those ever queued
    voteCalls, voteReplies, appendCalls,  \* the spawned goroutines
    timeouts, rounds                      \* timers fired and broadcasts so far

electionVars == <<currentTerm, votedFor, state>>
logVars      == <<log, snapshot>>
applyVars    == <<commitIndex, lastApplied, stateMachine>>
leaderVars   == <<nextIndex, matchIndex>>
loopVars     == <<pc, electionTerm, votes, stopped, timeouts>>
clientVars   == <<commandCh, submitted>>
voteVars     == <<voteCalls, voteReplies>>
callVars     == <<appendCalls, rounds>>
vars == <<electionVars, logVars, applyVars, leaderVars, loopVars, clientVars,
          voteVars, callVars>>

-----------------------------------------------------------------------------
(* Helpers. *)

Peers(n) == Server \ {n}

\* (len(peers)+1)/2 + 1, in runCandidate and in advanceCommitIndex.
Majority == Cardinality(Server) \div 2 + 1

\* snapshot.index = 0 is the code's n.snapshot == nil.
NoSnapshot == [index |-> 0, term |-> 0, data |-> <<>>, shared |-> FALSE]

LastIndex(n) == snapshot[n].index + Len(log[n])

\* lastLogInfo
LastTerm(n) == IF log[n] = <<>> THEN snapshot[n].term ELSE log[n][Len(log[n])].term

\* The commands of entries lo..hi (absolute indices) of a log whose first entry
\* has index base + 1; indices outside the log contribute nothing.
CommandsOf(lg, base, lo, hi) ==
    LET s == SubSeq(lg, Max({lo - base, 1}), Min({hi - base, Len(lg)}))
    IN  [k \in 1..Len(s) |-> s[k].command]

\* The map that n.snapshot.StateMachine denotes.  After an installed snapshot
\* it is the live n.stateMachine itself, not a copy.
SnapshotData(n) == IF snapshot[n].shared THEN stateMachine[n] ELSE snapshot[n].data

-----------------------------------------------------------------------------
\* NewNode and SetPeers, for every node of NewCluster; the goroutines start at
\* the top of run().
Init ==
    /\ currentTerm  = [n \in Server |-> 0]
    /\ votedFor     = [n \in Server |-> Nobody]
    /\ state        = [n \in Server |-> "Follower"]
    /\ log          = [n \in Server |-> <<>>]
    /\ snapshot     = [n \in Server |-> NoSnapshot]
    /\ commitIndex  = [n \in Server |-> 0]
    /\ lastApplied  = [n \in Server |-> 0]
    /\ stateMachine = [n \in Server |-> <<>>]
    /\ nextIndex    = [n \in Server |-> [p \in Server |-> 0]]
    /\ matchIndex   = [n \in Server |-> [p \in Server |-> 0]]
    /\ pc           = [n \in Server |-> "top"]
    /\ electionTerm = [n \in Server |-> 0]
    /\ votes        = [n \in Server |-> {}]
    /\ stopped      = [n \in Server |-> FALSE]
    /\ commandCh    = [n \in Server |-> <<>>]
    /\ submitted    = {}
    /\ voteCalls    = {}
    /\ voteReplies  = {}
    /\ appendCalls  = {}
    /\ timeouts    = 0
    /\ rounds       = 0

-----------------------------------------------------------------------------
(* The main goroutine. *)

\* run: read n.state under the lock and enter the loop of that role.
Dispatch(n) ==
    /\ pc[n] = "top"
    /\ ~stopped[n]
    /\ pc' = [pc EXCEPT ![n] = CASE state[n] = "Follower"  -> "follower"
                                 [] state[n] = "Candidate" -> "elect"
                                 [] state[n] = "Leader"    -> "lead"]
    /\ UNCHANGED <<electionVars, logVars, applyVars, leaderVars, electionTerm,
                   votes, stopped, timeouts, clientVars, voteVars, callVars>>

\* runFollower: the election timer fires.
ElectionTimeout(n) ==
    /\ pc[n] = "follower"
    /\ timeouts < MaxTimeouts
    /\ timeouts' = timeouts + 1
    /\ state' = [state EXCEPT ![n] = "Candidate"]
    /\ pc' = [pc EXCEPT ![n] = "top"]
    /\ UNCHANGED <<currentTerm, votedFor, logVars, applyVars, leaderVars,
                   electionTerm, votes, stopped, clientVars, voteVars, callVars>>

\* runCandidate, first critical section.  n.state is not tested again: a node
\* demoted after run() read Candidate still starts this election.
StartElection(n) ==
    /\ pc[n] = "elect"
    /\ currentTerm'  = [currentTerm EXCEPT ![n] = @ + 1]
    /\ votedFor'     = [votedFor EXCEPT ![n] = n]
    /\ electionTerm' = [electionTerm EXCEPT ![n] = currentTerm[n] + 1]
    /\ votes'        = [votes EXCEPT ![n] = {n}]
    /\ voteCalls' = voteCalls \cup
          {[from |-> n, to |-> p, term |-> currentTerm[n] + 1,
            lastLogIndex |-> LastIndex(n), lastLogTerm |-> LastTerm(n)] : p \in Peers(n)}
    /\ pc' = [pc EXCEPT ![n] = "collect"]
    /\ UNCHANGED <<state, logVars, applyVars, leaderVars, stopped, timeouts, clientVars,
                   voteReplies, callVars>>

\* Leaving runCandidate abandons its voteReplyCh.
LeaveElection(n) ==
    /\ pc' = [pc EXCEPT ![n] = "top"]
    /\ voteReplies' = {r \in voteReplies : r.to # n}

\* runCandidate: the timer fires, "split vote; try again".
CandidateTimeout(n) ==
    /\ pc[n] = "collect"
    /\ timeouts < MaxTimeouts
    /\ timeouts' = timeouts + 1
    /\ LeaveElection(n)
    /\ UNCHANGED <<electionVars, logVars, applyVars, leaderVars, electionTerm,
                   votes, stopped, clientVars, voteCalls, callVars>>

\* The transition every reader of a reply with a higher term makes.
StepDown(n, t) ==
    /\ currentTerm' = [currentTerm EXCEPT ![n] = t]
    /\ votedFor'    = [votedFor EXCEPT ![n] = Nobody]
    /\ state'       = [state EXCEPT ![n] = "Follower"]

\* Mutant: nextIndex starts below the log's end.
BecomeLeaderMutant(n) ==
    /\ state'      = [state EXCEPT ![n] = "Leader"]
    /\ nextIndex'  = [nextIndex EXCEPT ![n] = [p \in Server |-> LastIndex(n) - 1]]
    /\ matchIndex' = [matchIndex EXCEPT ![n] = [p \in Server |-> 0]]

\* becomeLeader
BecomeLeader(n) ==
    /\ state'      = [state EXCEPT ![n] = "Leader"]
    /\ nextIndex'  = [nextIndex EXCEPT ![n] = [p \in Server |-> LastIndex(n) + 1]]
    /\ matchIndex' = [matchIndex EXCEPT ![n] = [p \in Server |-> 0]]

\* Mutant: a vote counts whatever the node has become since it asked.
CountVoteMutant(n, r) == IF r.granted THEN votes[n] \cup {r.from} ELSE votes[n]

\* A granted vote counts only while n.state == Candidate.  The reply's term is
\* compared with n.currentTerm, never with the election it answers.
CountVote(n, r) ==
    IF r.granted /\ state[n] = "Candidate" THEN votes[n] \cup {r.from} ELSE votes[n]

\* runCandidate: one receive from voteReplyCh.
ReceiveVoteReply(n, r) ==
    /\ pc[n] = "collect"
    /\ r \in voteReplies /\ r.to = n
    /\ UNCHANGED <<logVars, applyVars, electionTerm, stopped, timeouts, clientVars,
                   voteCalls, callVars>>
    /\ \/ /\ r.term > currentTerm[n]
          /\ StepDown(n, r.term)
          /\ LeaveElection(n)
          /\ UNCHANGED <<votes, leaderVars>>
       \/ /\ r.term <= currentTerm[n]
          /\ votes' = [votes EXCEPT ![n] = CountVote(n, r)]
          /\ UNCHANGED <<currentTerm, votedFor>>
          /\ IF CountVote(n, r) # votes[n] /\ Cardinality(CountVote(n, r)) >= Majority
             THEN BecomeLeader(n) /\ LeaveElection(n)
             ELSE /\ voteReplies' = voteReplies \ {r}
                  /\ UNCHANGED <<state, leaderVars, pc>>

\* broadcastAppendEntries: term and commitIndex are read here, without a test
\* of n.state, and one goroutine per peer is spawned.
Broadcast(n) ==
    /\ pc[n] = "lead"
    /\ rounds < MaxRounds
    /\ Cardinality(appendCalls) + Cardinality(Peers(n)) <= MaxCalls
    /\ rounds' = rounds + 1
    /\ appendCalls' = appendCalls \cup
          {[from |-> n, to |-> p, round |-> rounds + 1, stage |-> "spawned",
            term |-> currentTerm[n], commit |-> commitIndex[n]] : p \in Peers(n)}
    /\ pc' = [pc EXCEPT ![n] = "leadLoop"]
    /\ UNCHANGED <<electionVars, logVars, applyVars, leaderVars, electionTerm,
                   votes, stopped, timeouts, clientVars, voteVars>>

\* runLeader: the heartbeat ticker fires.
LeaderTick(n) ==
    /\ pc[n] = "leadLoop"
    /\ pc' = [pc EXCEPT ![n] = IF state[n] = "Leader" THEN "lead" ELSE "top"]
    /\ UNCHANGED <<electionVars, logVars, applyVars, leaderVars, electionTerm,
                   votes, stopped, timeouts, clientVars, voteVars, callVars>>

\* runLeader: receive from commandCh; a command found after a demotion is dropped.
LeaderCommand(n) ==
    /\ pc[n] = "leadLoop"
    /\ commandCh[n] # <<>>
    /\ commandCh' = [commandCh EXCEPT ![n] = Tail(@)]
    /\ IF state[n] = "Leader"
       THEN /\ log' = [log EXCEPT ![n] = Append(@,
                         [term |-> currentTerm[n], command |-> Head(commandCh[n])])]
            /\ pc' = [pc EXCEPT ![n] = "lead"]
       ELSE /\ pc' = [pc EXCEPT ![n] = "top"]
            /\ UNCHANGED log
    /\ UNCHANGED <<electionVars, snapshot, applyVars, leaderVars, electionTerm,
                   votes, stopped, timeouts, submitted, voteVars, callVars>>

\* Submit.  The send on commandCh follows the unlock; a demotion in between
\* leaves the same state as a demotion just after the send.
Submit(n, c) ==
    /\ state[n] = "Leader"
    /\ Len(commandCh[n]) < CommandChCap
    /\ c \in Command \ submitted
    /\ commandCh' = [commandCh EXCEPT ![n] = Append(@, c)]
    /\ submitted' = submitted \cup {c}
    /\ UNCHANGED <<electionVars, logVars, applyVars, leaderVars, loopVars,
                   voteVars, callVars>>

\* Stop
Stop(n) ==
    /\ ~stopped[n]
    /\ Cardinality({m \in Server : stopped[m]}) < MaxStops
    /\ stopped' = [stopped EXCEPT ![n] = TRUE]
    /\ UNCHANGED <<electionVars, logVars, applyVars, leaderVars, pc, electionTerm,
                   votes, timeouts, clientVars, voteVars, callVars>>

\* A closed stopCh ends the main goroutine at its next select.  Handlers and
\* the goroutines already spawned keep running, and n.state keeps its value.
Exit(n) ==
    /\ stopped[n]
    /\ pc[n] \in {"top", "follower", "collect", "leadLoop"}
    /\ pc' = [pc EXCEPT ![n] = "done"]
    /\ voteReplies' = {r \in voteReplies : r.to # n}
    /\ UNCHANGED <<electionVars, logVars, applyVars, leaderVars, electionTerm,
                   votes, stopped, timeouts, clientVars, voteCalls, callVars>>

-----------------------------------------------------------------------------
(* HandleRequestVote, run by the candidate's goroutine on the peer. *)

\* Mutant: the vote already given in this term is not looked at.
VoteGrantedMutant(n, c) ==
    /\ c.term >= currentTerm[n]
    /\ \/ c.lastLogTerm > LastTerm(n)
       \/ c.lastLogTerm = LastTerm(n) /\ c.lastLogIndex >= LastIndex(n)

\* The tests of the handler: a higher term clears the vote first.
VoteGranted(n, c) ==
    /\ c.term >= currentTerm[n]
    /\ c.term > currentTerm[n] \/ votedFor[n] \in {Nobody, c.from}
    /\ \/ c.lastLogTerm > LastTerm(n)
       \/ c.lastLogTerm = LastTerm(n) /\ c.lastLogIndex >= LastIndex(n)

\* The reply carries the term the voter had before the update, and reaches
\* only the voteReplyCh of the election that asked.
HandleRequestVote(c) ==
    LET n == c.to
        reply == [from |-> n, to |-> c.from, election |-> c.term,
                  term |-> currentTerm[n], granted |-> VoteGranted(n, c)]
        read == pc[c.from] = "collect" /\ electionTerm[c.from] = c.term
    IN  /\ c \in voteCalls
        /\ voteCalls' = voteCalls \ {c}
        /\ voteReplies' = IF read THEN voteReplies \cup {reply} ELSE voteReplies
        /\ currentTerm' = [currentTerm EXCEPT ![n] = Max({@, c.term})]
        /\ state' = IF c.term > currentTerm[n]
                    THEN [state EXCEPT ![n] = "Follower"] ELSE state
        /\ votedFor' = [votedFor EXCEPT ![n] =
                          IF VoteGranted(n, c) THEN c.from
                          ELSE IF c.term > currentTerm[n] THEN Nobody ELSE @]
        /\ UNCHANGED <<logVars, applyVars, leaderVars, loopVars, clientVars, callVars>>

-----------------------------------------------------------------------------
(* The append goroutines of broadcastAppendEntries. *)

\* The call record c moves on to its next critical section.
Advance(c, fields) == appendCalls' = (appendCalls \ {c}) \cup {fields}
Finish(c) == appendCalls' = appendCalls \ {c}

\* First critical section: the node is no longer Leader.
AbandonCall(c) ==
    /\ c \in appendCalls /\ c.stage = "spawned"
    /\ state[c.from] # "Leader"
    /\ Finish(c)
    /\ UNCHANGED <<electionVars, logVars, applyVars, leaderVars, loopVars,
                   clientVars, voteVars, rounds>>

\* nextIndex is behind the snapshot: InstallSnapshot.
SendInstallSnapshot(c) ==
    LET n == c.from IN
    /\ c \in appendCalls /\ c.stage = "spawned"
    /\ state[n] = "Leader"
    /\ nextIndex[n][c.to] <= snapshot[n].index
    /\ Advance(c, [from |-> n, to |-> c.to, round |-> c.round, stage |-> "install",
                   term |-> c.term, index |-> snapshot[n].index,
                   lastTerm |-> snapshot[n].term, data |-> SnapshotData(n)])
    /\ UNCHANGED <<electionVars, logVars, applyVars, leaderVars, loopVars,
                   clientVars, voteVars, rounds>>

\* Mutant: the copy starts one entry late.
EntriesFromMutant(n, ni) == SubSeq(log[n], ni - snapshot[n].index + 1, Len(log[n]))

\* The copy of n.log from nextIndex on.
EntriesFrom(n, ni) == SubSeq(log[n], ni - snapshot[n].index, Len(log[n]))

\* The entries from nextIndex on, with the term captured by Broadcast.
SendAppendEntries(c) ==
    LET n == c.from
        base == snapshot[n].index
        ni == nextIndex[n][c.to]
        prevTerm == IF ni - 1 = base THEN snapshot[n].term
                    ELSE IF ni - 1 - base \in 1..Len(log[n]) THEN log[n][ni - 1 - base].term
                    ELSE 0
    IN  /\ c \in appendCalls /\ c.stage = "spawned"
        /\ state[n] = "Leader"
        /\ ni > base
        /\ Advance(c, [from |-> n, to |-> c.to, round |-> c.round, stage |-> "append",
                       term |-> c.term, commit |-> c.commit, prevIndex |-> ni - 1,
                       prevTerm |-> prevTerm, entries |-> EntriesFrom(n, ni)])
        /\ UNCHANGED <<electionVars, logVars, applyVars, leaderVars, loopVars,
                       clientVars, voteVars, rounds>>

-----------------------------------------------------------------------------
(* HandleAppendEntries on the peer. *)

\* The consistency check; an index below the snapshot passes unexamined.
PrevMatches(n, c) ==
    LET local == c.prevIndex - snapshot[n].index IN
    \/ c.prevIndex = 0
    \/ local < 0
    \/ local = 0 /\ c.prevTerm = snapshot[n].term
    \/ local \in 1..Len(log[n]) /\ log[n][local].term = c.prevTerm

\* reply.ConflictIndex after a failed check.
ConflictIndex(n, c) ==
    LET local == c.prevIndex - snapshot[n].index IN
    CASE local = 0            -> snapshot[n].index
      [] local > Len(log[n])  -> LastIndex(n)
      [] OTHER -> snapshot[n].index +
                    Min({k \in 1..local : \A j \in k..local :
                            log[n][j].term = log[n][local].term})

\* Mutant: the entries replace the whole tail, even where they match it.
StoreEntriesMutant(lg, at, entries) == SubSeq(lg, 1, at) \o entries

\* "Append new entries, removing any conflicting tail", at local offset at.
StoreEntries(lg, at, entries) ==
    LET fresh == {i \in 1..Len(entries) :
                    at + i > Len(lg) \/ lg[at + i].term # entries[i].term}
    IN  IF fresh = {} THEN lg
        ELSE SubSeq(lg, 1, at + Min(fresh) - 1)
               \o SubSeq(entries, Min(fresh), Len(entries))

\* insertAt: a PrevLogIndex below the snapshot is clamped to the front of the
\* local log, and the entries are not shifted with it.
AppendAt(n, c) == Max({0, c.prevIndex - snapshot[n].index})

\* Mutant: the last applied entry is applied again.
CommitAndApplyMutant(n, lg, b, commit) ==
    /\ commitIndex' = [commitIndex EXCEPT ![n] = commit]
    /\ lastApplied' = [lastApplied EXCEPT ![n] = Max({@, commit})]
    /\ stateMachine' = [stateMachine EXCEPT ![n] =
                          @ \o CommandsOf(lg, b, lastApplied[n], commit)]

\* Mutant: the entries applied are those the log held before the call.
ApplyOldLogMutant(n, lg, b, commit) ==
    /\ commitIndex' = [commitIndex EXCEPT ![n] = commit]
    /\ lastApplied' = [lastApplied EXCEPT ![n] = Max({@, commit})]
    /\ stateMachine' = [stateMachine EXCEPT ![n] =
                          @ \o CommandsOf(log[n], b, lastApplied[n] + 1, commit)]

\* Set commitIndex and run applyCommitted on the log lg with base index b.
CommitAndApply(n, lg, b, commit) ==
    /\ commitIndex' = [commitIndex EXCEPT ![n] = commit]
    /\ lastApplied' = [lastApplied EXCEPT ![n] = Max({@, commit})]
    /\ stateMachine' = [stateMachine EXCEPT ![n] =
                          @ \o CommandsOf(lg, b, lastApplied[n] + 1, commit)]

\* The reply has the term the follower had on entry.
AppendReply(c, success, conflict) ==
    Advance(c, [from |-> c.from, to |-> c.to, round |-> c.round, stage |-> "appended",
                term |-> currentTerm[c.to], success |-> success,
                match |-> c.prevIndex + Len(c.entries), conflict |-> conflict])

\* The state change of a call whose term is not stale.
AdoptTerm(n, t) ==
    /\ currentTerm' = [currentTerm EXCEPT ![n] = Max({@, t})]
    /\ votedFor' = [votedFor EXCEPT ![n] = IF t > currentTerm[n] THEN Nobody ELSE @]

\* Mutant: LeaderCommit is taken over unconditionally.
CommitAdvancesMutant(n, c) == TRUE

\* args.LeaderCommit > n.commitIndex
CommitAdvances(n, c) == c.commit > commitIndex[n]

\* The call's term is stale.
RefuseAppend(c) ==
    /\ c.term < currentTerm[c.to]
    /\ AppendReply(c, FALSE, 0)
    /\ UNCHANGED <<electionVars, log, applyVars>>

\* The consistency check fails.
RejectEntries(n, c) ==
    /\ ~PrevMatches(n, c)
    /\ AppendReply(c, FALSE, ConflictIndex(n, c))
    /\ UNCHANGED <<log, applyVars>>

\* The check passes: store the entries, then commit and apply.
AcceptEntries(n, c) ==
    LET newLog == StoreEntries(log[n], AppendAt(n, c), c.entries)
        newLast == snapshot[n].index + Len(newLog)
    IN  /\ PrevMatches(n, c)
        /\ log' = [log EXCEPT ![n] = newLog]
        /\ IF CommitAdvances(n, c)
           THEN CommitAndApply(n, newLog, snapshot[n].index, Min({c.commit, newLast}))
           ELSE UNCHANGED applyVars
        /\ AppendReply(c, TRUE, 0)

\* The call's term is current or new.
FollowAppend(c) ==
    /\ c.term >= currentTerm[c.to]
    /\ AdoptTerm(c.to, c.term)
    /\ state' = [state EXCEPT ![c.to] = "Follower"]
    /\ RejectEntries(c.to, c) \/ AcceptEntries(c.to, c)

HandleAppendEntries(c) ==
    /\ c \in appendCalls /\ c.stage = "append"
    /\ RefuseAppend(c) \/ FollowAppend(c)
    /\ UNCHANGED <<snapshot, leaderVars, loopVars, clientVars, voteVars, rounds>>

-----------------------------------------------------------------------------
(* HandleInstallSnapshot on the peer. *)

InstallReply(c) ==
    Advance(c, [from |-> c.from, to |-> c.to, round |-> c.round, stage |-> "installed",
                term |-> currentTerm[c.to]])

\* An equal term leaves n.state alone.  Only the previous snapshot's index
\* decides whether the new one is stale; commitIndex and lastApplied are
\* overwritten either way, and the decoded map becomes both the snapshot's
\* and the live state machine.
HandleInstallSnapshot(c) ==
    LET n == c.to
        keepFrom == c.index - snapshot[n].index + 1
    IN  /\ c \in appendCalls /\ c.stage = "install"
        /\ InstallReply(c)
        /\ UNCHANGED <<leaderVars, loopVars, clientVars, voteVars, rounds>>
        /\ \/ /\ c.term < currentTerm[n]
              /\ UNCHANGED <<electionVars, logVars, applyVars>>
           \/ /\ c.term >= currentTerm[n]
              /\ AdoptTerm(n, c.term)
              /\ state' = IF c.term > currentTerm[n]
                          THEN [state EXCEPT ![n] = "Follower"] ELSE state
              /\ \/ /\ c.index <= snapshot[n].index
                    /\ UNCHANGED <<logVars, applyVars>>
                 \/ /\ c.index > snapshot[n].index
                    /\ log' = [log EXCEPT ![n] = SubSeq(@, keepFrom, Len(@))]
                    /\ snapshot' = [snapshot EXCEPT ![n] =
                          [index |-> c.index, term |-> c.lastTerm,
                           data |-> <<>>, shared |-> TRUE]]
                    /\ stateMachine' = [stateMachine EXCEPT ![n] = c.data]
                    /\ commitIndex' = [commitIndex EXCEPT ![n] = c.index]
                    /\ lastApplied' = [lastApplied EXCEPT ![n] = c.index]

-----------------------------------------------------------------------------
(* The last critical section of an append goroutine: the reply. *)

\* Mutant: matchIndex is compared with the entry before.
ReplicatedMutant(n, match, i) == {p \in Peers(n) : match[p] >= i - 1}

\* The peers known to hold entry i, in the loop of advanceCommitIndex.
Replicated(n, match, i) == {p \in Peers(n) : match[p] >= i}

\* advanceCommitIndex: the highest index above commitIndex with an entry of the
\* current term that matchIndex (match) says a majority holds.
NewCommitIndex(n, match) ==
    LET base == snapshot[n].index
        ok == {i \in (commitIndex[n] + 1)..LastIndex(n) :
                 /\ i > base
                 /\ log[n][i - base].term = currentTerm[n]
                 /\ Cardinality(Replicated(n, match, i)) + 1 >= Majority}
    IN  IF ok = {} THEN commitIndex[n] ELSE Max(ok)

\* Mutant: one entry too many is discarded.
KeptEntriesMutant(n, local) == SubSeq(log[n], local + 2, Len(log[n]))

\* n.log[localIdx+1:] in maybeSnapshot.
KeptEntries(n, local) == SubSeq(log[n], local + 1, Len(log[n]))

\* maybeSnapshot, run only when commitIndex advanced: compact up to commit.
MaybeSnapshot(n, commit) ==
    LET local == commit - snapshot[n].index IN
    IF Len(log[n]) > SnapshotThreshold /\ local \in 1..Len(log[n])
    THEN /\ snapshot' = [snapshot EXCEPT ![n] =
               [index |-> commit, term |-> log[n][local].term, shared |-> FALSE,
                data |-> stateMachine[n] \o
                         CommandsOf(log[n], snapshot[n].index, lastApplied[n] + 1, commit)]]
         /\ log' = [log EXCEPT ![n] = KeptEntries(n, local)]
    ELSE UNCHANGED logVars

\* reply.Success: record the match, then advanceCommitIndex.  The term of the
\* call that is answered is not compared with the current one.
RecordMatch(n, c) ==
    LET m == [matchIndex[n] EXCEPT ![c.to] = Max({@, c.match})]
        commit == NewCommitIndex(n, m)
    IN  /\ matchIndex' = [matchIndex EXCEPT ![n] = m]
        /\ nextIndex' = [nextIndex EXCEPT ![n][c.to] = m[c.to] + 1]
        /\ IF commit > commitIndex[n]
           THEN /\ CommitAndApply(n, log[n], snapshot[n].index, commit)
                /\ MaybeSnapshot(n, commit)
           ELSE UNCHANGED <<logVars, applyVars>>

\* A refused append: roll nextIndex back for the next heartbeat.
RollBack(n, c) ==
    /\ nextIndex' = [nextIndex EXCEPT ![n][c.to] =
                       IF c.conflict > 0 THEN c.conflict
                       ELSE IF @ > 1 THEN @ - 1 ELSE @]
    /\ UNCHANGED <<matchIndex, logVars, applyVars>>

\* What a reply without a higher term does.
UseAppendReply(n, c) ==
    \/ state[n] # "Leader" /\ UNCHANGED <<logVars, applyVars, leaderVars>>
    \/ state[n] = "Leader" /\ c.success /\ RecordMatch(n, c)
    \/ state[n] = "Leader" /\ ~c.success /\ RollBack(n, c)

ReceiveAppendReply(c) ==
    LET n == c.from IN
    /\ c \in appendCalls /\ c.stage = "appended"
    /\ Finish(c)
    /\ UNCHANGED <<loopVars, clientVars, voteVars, rounds>>
    /\ \/ /\ c.term > currentTerm[n]
          /\ StepDown(n, c.term)
          /\ UNCHANGED <<logVars, applyVars, leaderVars>>
       \/ /\ c.term <= currentTerm[n]
          /\ UseAppendReply(n, c)
          /\ UNCHANGED electionVars

\* The reply to InstallSnapshot moves the indices to the snapshot the node has
\* now, whatever its state and whichever snapshot was sent.
ReceiveInstallReply(c) ==
    LET n == c.from IN
    /\ c \in appendCalls /\ c.stage = "installed"
    /\ Finish(c)
    /\ UNCHANGED <<logVars, applyVars, loopVars, clientVars, voteVars, rounds>>
    /\ \/ /\ c.term > currentTerm[n]
          /\ StepDown(n, c.term)
          /\ UNCHANGED leaderVars
       \/ /\ c.term <= currentTerm[n]
          /\ nextIndex' = [nextIndex EXCEPT ![n][c.to] = snapshot[n].index + 1]
          /\ matchIndex' = [matchIndex EXCEPT ![n][c.to] = snapshot[n].index]
          /\ UNCHANGED electionVars

-----------------------------------------------------------------------------
MainLoop(n) ==
    \/ Dispatch(n) \/ ElectionTimeout(n) \/ StartElection(n) \/ CandidateTimeout(n)
    \/ \E r \in voteReplies : ReceiveVoteReply(n, r)
    \/ Broadcast(n) \/ LeaderTick(n) \/ LeaderCommand(n) \/ Exit(n)

Client(n) == Stop(n) \/ \E c \in Command : Submit(n, c)

AppendGoroutine(c) ==
    \/ AbandonCall(c) \/ SendInstallSnapshot(c) \/ SendAppendEntries(c)
    \/ HandleAppendEntries(c) \/ HandleInstallSnapshot(c)
    \/ ReceiveAppendReply(c) \/ ReceiveInstallReply(c)

Next ==
    \/ \E n \in Server : MainLoop(n) \/ Client(n)
    \/ \E c \in voteCalls : HandleRequestVote(c)
    \/ \E c \in appendCalls : AppendGoroutine(c)

Spec == Init /\ [][Next]_vars

-----------------------------------------------------------------------------
(* Properties. *)

Entry == [term : Nat, command : Command]
Role == {"Follower", "Candidate", "Leader"}
Loop == {"top", "follower", "elect", "collect", "lead", "leadLoop", "done"}

\* The kinds of values the fields of a node and its goroutines take.
TypeOK ==
    /\ currentTerm \in [Server -> Nat]
    /\ votedFor \in [Server -> Server \cup {Nobody}]
    /\ state \in [Server -> Role]
    /\ log \in [Server -> Seq(Entry)]
    /\ snapshot \in [Server -> [index : Nat, term : Nat, data : Seq(Command),
                                shared : BOOLEAN]]
    /\ commitIndex \in [Server -> Nat]
    /\ lastApplied \in [Server -> Nat]
    /\ stateMachine \in [Server -> Seq(Command)]
    /\ nextIndex \in [Server -> [Server -> Nat]]
    /\ matchIndex \in [Server -> [Server -> Nat]]
    /\ pc \in [Server -> Loop]
    /\ electionTerm \in [Server -> Nat]
    /\ votes \in [Server -> SUBSET Server]
    /\ stopped \in [Server -> BOOLEAN]
    /\ commandCh \in [Server -> Seq(Command)]
    /\ submitted \subseteq Command
    /\ voteCalls \subseteq [from : Server, to : Server, term : Nat,
                            lastLogIndex : Nat, lastLogTerm : Nat]
    /\ voteReplies \subseteq [from : Server, to : Server, election : Nat,
                              term : Nat, granted : BOOLEAN]
    /\ \A c \in appendCalls : c.from \in Server /\ c.to \in Peers(c.from)
                              /\ c.round \in 1..rounds /\ c.term \in Nat

\* Election safety: two nodes never lead in the same term, however late votes,
\* demotions and the main goroutine's own reads of n.state interleave.
ElectionSafety ==
    \A n, m \in Server :
        state[n] = "Leader" /\ state[m] = "Leader" /\ currentTerm[n] = currentTerm[m]
            => n = m

\* A node's term never decreases, and within one term its vote is never
\* withdrawn or given to a second candidate, by no handler and no reply.
VoteOncePerTerm ==
    [][\A n \in Server :
         /\ currentTerm'[n] >= currentTerm[n]
         /\ currentTerm'[n] = currentTerm[n] /\ votedFor[n] # Nobody
                => votedFor'[n] = votedFor[n]]_vars

HasEntry(n, i) == i - snapshot[n].index \in 1..Len(log[n])
EntryAt(n, i) == log[n][i - snapshot[n].index]

\* Log matching: logs that agree on the term of an index hold the same entries
\* at that index and at every earlier one both still have.
LogMatching ==
    \A n, m \in Server : \A i \in 1..LastIndex(n) :
        HasEntry(n, i) /\ HasEntry(m, i) /\ EntryAt(n, i).term = EntryAt(m, i).term
            => \A j \in 1..i : HasEntry(n, j) /\ HasEntry(m, j)
                                  => EntryAt(n, j) = EntryAt(m, j)

\* A leader only appends: no late call or reply truncates or rewrites the log
\* of a node that is and stays Leader.
LeaderAppendOnly ==
    [][\A n \in Server : state[n] = "Leader" /\ state'[n] = "Leader" =>
         \A i \in 1..LastIndex(n) : HasEntry(n, i) /\ i > snapshot'[n].index
             => HasEntry(n, i)' /\ EntryAt(n, i)' = EntryAt(n, i)]_vars

\* The state machine has executed exactly one command per index up to
\* lastApplied: applyCommitted neither skips an index nor repeats one.
AppliedOncePerIndex ==
    \A n \in Server : Len(stateMachine[n]) = lastApplied[n]

\* An entry a leader has committed is stored on a majority of the nodes, with
\* the leader's term and command, for as long as it leads: commitIndex advances
\* on real copies and no later leader removes them.  (Without compaction.)
CommittedOnMajority ==
    \A n \in Server : state[n] = "Leader" =>
        \A i \in 1..commitIndex[n] : HasEntry(n, i) =>
            Cardinality({m \in Server : HasEntry(m, i) /\ EntryAt(m, i) = EntryAt(n, i)})
                >= Majority

\* Compaction and late calls keep the log and what has been applied together: a
\* snapshot never swallows an entry the node has not applied, and a log never
\* ends before the last entry the node has applied.
CompactedIsApplied ==
    \A n \in Server : snapshot[n].index <= lastApplied[n] /\ lastApplied[n] <= LastIndex(n)

\* Any two nodes have applied the same commands in the same order, as far as
\* both have got.
StateMachineSafety ==
    \A n, m \in Server :
        \A k \in 1..Min({Len(stateMachine[n]), Len(stateMachine[m])}) :
            stateMachine[n][k] = stateMachine[m][k]

\* What a node has committed and applied stays committed: late, reordered and
\* failed AppendEntries calls never move commitIndex back.  (Without compaction;
\* a late InstallSnapshot does move it back.)
CommitMonotonic ==
    [][\A n \in Server : commitIndex'[n] >= commitIndex[n]]_vars

\* Leader completeness: a leader of a later term holds every entry that any node
\* of its term or an earlier one has committed.
LeaderCompleteness ==
    \A n, m \in Server : state[m] = "Leader" /\ currentTerm[m] >= currentTerm[n] =>
        \A i \in 1..commitIndex[n] : HasEntry(n, i) /\ i > snapshot[m].index =>
            HasEntry(m, i) /\ EntryAt(m, i) = EntryAt(n, i)
=============================================================================
