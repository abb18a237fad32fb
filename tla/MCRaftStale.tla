---------------------------- MODULE MCRaftStale ----------------------------
(* An instance of Raft with five nodes for TLC.  Its runs begin with the    *)
(* steps of Script, one at a time, each of them a step of Raft: Old leads   *)
(* term 1, Other leads term 2, Old leads term 3, and one append goroutine   *)
(* of Old's first leadership has not run yet.  Then anything may happen.    *)
EXTENDS Raft, TLC

CONSTANTS Old, Other, Slow,          \* leader of terms 1 and 3, of term 2, a slow node
          Voter, LateVoter,          \* the two nodes that vote for both
          OtherCommand, OldCommand   \* a command for each leader

VARIABLE step  \* the steps of Script taken so far

Stand(n) == << <<"Dispatch", n>>, <<"ElectionTimeout", n>>, <<"Dispatch", n>>, <<"StartElection", n>> >>
Win(n, v, w) ==
    << <<"Vote", n, v>>, <<"Vote", n, w>>, <<"ReceiveVoteReply", n>>, <<"ReceiveVoteReply", n>> >>
Lead(n) == << <<"Dispatch", n>>, <<"Broadcast", n>> >>
Take(n, c) == << <<"Submit", n, c>>, <<"LeaderCommand", n>> >>
\* One critical section of each append goroutine from n to one of ps.
Calls(n, ps) == [i \in 1..Len(ps) |-> <<"Append", n, ps[i]>>]

Script ==
    << <<"Dispatch", Slow>>, <<"Dispatch", Voter>>, <<"Dispatch", LateVoter>> >>
    \* Old wins term 1 with the vote of Slow, and starts a heartbeat.
    \o Stand(Old) \o Win(Old, Slow, Voter)
    \o << <<"Vote", Old, Other>>, <<"Vote", Old, LateVoter>> >> \o Lead(Old)
    \* Other wins term 2 and Old steps down; three goroutines of its heartbeat
    \* notice.  Other sends an entry of its own to Slow.
    \o Stand(Other) \o Win(Other, Voter, LateVoter) \o << <<"Vote", Other, Old>> >>
    \o Calls(Old, <<Other, Voter, LateVoter>>)
    \o Lead(Other) \o Take(Other, OtherCommand) \o Calls(Other, <<Slow>>)
    \* Old wins term 3, and Other steps down.  After its first heartbeat Old has an
    \* entry of its own, which Voter stores.
    \o << <<"LeaderTick", Old>> >> \o Stand(Old) \o Win(Old, Voter, LateVoter)
    \o << <<"Vote", Old, Other>> >> \o Calls(Other, <<Old, Voter, LateVoter>>)
    \o Lead(Old) \o Calls(Old, <<Other, Other, Other, LateVoter, LateVoter, LateVoter>>)
    \o Take(Old, OldCommand) \o Calls(Old, <<Voter, Voter>>)

Do(s) ==
    LET n == s[2] IN
    \/ s[1] = "Dispatch" /\ Dispatch(n)
    \/ s[1] = "ElectionTimeout" /\ ElectionTimeout(n)
    \/ s[1] = "StartElection" /\ StartElection(n)
    \/ s[1] = "ReceiveVoteReply" /\ \E r \in voteReplies : ReceiveVoteReply(n, r)
    \/ s[1] = "Broadcast" /\ Broadcast(n)
    \/ s[1] = "LeaderTick" /\ LeaderTick(n)
    \/ s[1] = "LeaderCommand" /\ LeaderCommand(n)
    \/ s[1] = "Submit" /\ Submit(n, s[3])
    \/ s[1] = "Vote" /\ \E c \in voteCalls : c.from = n /\ c.to = s[3] /\ HandleRequestVote(c)
    \/ s[1] = "Append" /\ \E c \in appendCalls : c.from = n /\ c.to = s[3] /\ AppendGoroutine(c)

StaleNext ==
    \/ step < Len(Script) /\ step' = step + 1 /\ Do(Script[step'])
    \/ step = Len(Script) /\ step' = step /\ Next

StaleSpec == Init /\ step = 0 /\ [][StaleNext]_<<vars, step>>
=============================================================================
