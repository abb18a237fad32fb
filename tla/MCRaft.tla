------------------------------ MODULE MCRaft ------------------------------
(* Instances of Raft for TLC.  Nodes and commands are interchangeable: the  *)
(* specification orders neither.                                            *)
EXTENDS Raft, TLC

CONSTANTS First, FirstCommand   \* the leader of term 1 in LeaderInit and its entry

Symmetry == Permutations(Server) \cup Permutations(Command)
LeaderSymmetry == Permutations(Server \ {First}) \cup Permutations(Command \ {FirstCommand})

\* Reachable states: First has won term 1, with the votes of a bare majority and
\* the others too late to count, its first heartbeat has been answered by all, and
\* it has taken one command from its channel and appended it, but not sent it yet.
\* The runs about replication start here and not with the election.
LeaderInit ==
    /\ currentTerm  = [n \in Server |-> 1]
    /\ votedFor     = [n \in Server |-> First]
    /\ state        = [n \in Server |-> IF n = First THEN "Leader" ELSE "Follower"]
    /\ log          = [n \in Server |-> IF n = First
                       THEN <<[term |-> 1, command |-> FirstCommand]>> ELSE <<>>]
    /\ snapshot     = [n \in Server |-> NoSnapshot]
    /\ commitIndex  = [n \in Server |-> 0]
    /\ lastApplied  = [n \in Server |-> 0]
    /\ stateMachine = [n \in Server |-> <<>>]
    /\ nextIndex    = [n \in Server |-> [p \in Server |-> IF n = First THEN 1 ELSE 0]]
    /\ matchIndex   = [n \in Server |-> [p \in Server |-> 0]]
    /\ pc           = [n \in Server |-> IF n = First THEN "lead" ELSE "follower"]
    /\ electionTerm = [n \in Server |-> IF n = First THEN 1 ELSE 0]
    /\ \E granted \in kSubset(Majority - 1, Server \ {First}) :
          votes     = [n \in Server |-> IF n = First THEN {First} \cup granted ELSE {}]
    /\ stopped      = [n \in Server |-> FALSE]
    /\ commandCh    = [n \in Server |-> <<>>]
    /\ submitted    = {FirstCommand}
    /\ voteCalls    = {}
    /\ voteReplies  = {}
    /\ appendCalls  = {}
    /\ timeouts     = 0
    /\ rounds       = 0

LeaderSpec == LeaderInit /\ [][Next]_vars
=============================================================================
