----------------------------- MODULE McpStreams -----------------------------
(***************************************************************************)
(* What labs/mcp-server pushes to its clients: the SSE streams of stage v1 *)
(* (broadcast_notification, sse_generator and events of create_app) and    *)
(* the progress of tool calls of stage v2 (call_tool_with_progress).       *)
(* Coroutines interleave where they are suspended: at a yield, in          *)
(* wait_for and in sleep(0).  A put on an unbounded asyncio.Queue does not *)
(* suspend, so a broadcast reaches every registered queue in one step.     *)
(***************************************************************************)
EXTENDS Naturals, Sequences, SequencesExt

CONSTANTS SseClient, SseLimits,   \* clients; values of sse_max_events, 0 for None
          ProgCall,               \* tool calls, each with a token of its own
          SseMaxBroadcasts        \* bound: notifications broadcast

VARIABLES sseMax,                 \* sse_max_events
          sseState,               \* each client's stream: away, open or closed
          sseGone,                \* clients that have gone away
          sseQueue, sseGot,       \* its queue, and the events it was sent
          sseSent,                \* sent in its generator
          sseJoined,              \* broadcasts made before it was registered
          sseMade,                \* broadcasts made
          progCall,               \* kind and place of each call
          progNotes               \* _notifications

sseVars == <<sseMax, sseState, sseGone, sseQueue, sseGot, sseSent, sseJoined, sseMade>>
progVars == <<progCall, progNotes>>

\* The kinds of a call: by what it meets first, and whether it has a token.
ProgKinds == [meets : {"unknownTool", "invalidInput", "exception", "nothing"},
              token : BOOLEAN]
ProgNone == [meets |-> "nothing", token |-> FALSE, pc |-> "absent"]

McpStreamsInit ==
    /\ sseMax = 0 /\ sseMade = 0 /\ sseGone = {}
    /\ sseState = [c \in SseClient |-> "away"]
    /\ sseQueue = [c \in SseClient |-> <<>>]
    /\ sseGot = [c \in SseClient |-> <<>>]
    /\ sseSent = [c \in SseClient |-> 0]
    /\ sseJoined = [c \in SseClient |-> 0]
    /\ progCall = [k \in ProgCall |-> ProgNone]
    /\ progNotes = <<>>

-----------------------------------------------------------------------------
(* SSE.                                                                    *)

SseOpen == {c \in SseClient : sseState[c] = "open"}

\* Tests lower the limit before any client connects.
SseConfigure ==
    /\ \A c \in SseClient : sseState[c] = "away"
    /\ sseMax' \in SseLimits \ {sseMax}
    /\ UNCHANGED <<sseState, sseGone, sseQueue, sseGot, sseSent, sseJoined, sseMade>>

\* Mutant: the queue is registered after the first event has been sent, when
\* the broadcasts in between are lost.
SseConnectMutant(c) ==
    /\ sseState[c] = "away"
    /\ sseState' = [sseState EXCEPT ![c] = "open"]
    /\ sseGot' = [sseGot EXCEPT ![c] = <<"connected">>]
    /\ sseSent' = [sseSent EXCEPT ![c] = 1]
    /\ sseMade' \in sseMade .. SseMaxBroadcasts
    /\ sseJoined' = [sseJoined EXCEPT ![c] = sseMade]
    /\ UNCHANGED <<sseMax, sseGone, sseQueue>>

\* The generator registers its queue, then yields the connected event.
SseConnect(c) ==
    /\ sseState[c] = "away"
    /\ sseState' = [sseState EXCEPT ![c] = "open"]
    /\ sseGot' = [sseGot EXCEPT ![c] = <<"connected">>]
    /\ sseSent' = [sseSent EXCEPT ![c] = 1]
    /\ sseJoined' = [sseJoined EXCEPT ![c] = sseMade]
    /\ UNCHANGED <<sseMax, sseGone, sseQueue, sseMade>>

\* broadcast_notification.
SseBroadcast ==
    /\ sseMade < SseMaxBroadcasts
    /\ sseMade' = sseMade + 1
    /\ sseQueue' = [c \in SseClient |->
                       IF c \in SseOpen THEN Append(sseQueue[c], sseMade + 1)
                       ELSE sseQueue[c]]
    /\ UNCHANGED <<sseMax, sseState, sseGone, sseGot, sseSent, sseJoined>>

SseMore(c) == c \in SseOpen /\ (sseMax = 0 \/ sseSent[c] < sseMax)

\* events() drops what it has just been given when the client has gone.
SseYield(c, event, rest) ==
    /\ sseSent' = [sseSent EXCEPT ![c] = IF sseMax = 0 THEN @ ELSE @ + 1]
    /\ IF c \in sseGone
       THEN /\ sseState' = [sseState EXCEPT ![c] = "closed"]
            /\ UNCHANGED sseGot
       ELSE /\ sseGot' = [sseGot EXCEPT ![c] = @ \o event]
            /\ UNCHANGED sseState
    /\ sseQueue' = [sseQueue EXCEPT ![c] = rest]
    /\ UNCHANGED <<sseMax, sseGone, sseJoined, sseMade>>

SseDeliver(c) == /\ SseMore(c) /\ sseQueue[c] # <<>>
                 /\ SseYield(c, <<Head(sseQueue[c])>>, Tail(sseQueue[c]))

\* Mutant: the item a timed-out get was about to return is thrown away.
SseKeepaliveMutant(c) ==
    SseMore(c) /\ SseYield(c, <<>>, IF sseQueue[c] = <<>> THEN <<>> ELSE Tail(sseQueue[c]))

\* wait_for may time out just when an item arrives; get() then leaves it in the
\* queue.  A keepalive counts as sent; it is a comment, not an event.
SseKeepalive(c) == SseMore(c) /\ SseYield(c, <<>>, sseQueue[c])

\* Mutant: at its limit the stream falls silent but is not closed.
SseEndMutant(c) ==
    /\ c \in SseOpen /\ c \in sseGone
    /\ sseState' = [sseState EXCEPT ![c] = "closed"]
    /\ UNCHANGED <<sseMax, sseGone, sseQueue, sseGot, sseSent, sseJoined, sseMade>>

\* The generator ends, at its limit or cancelled because the client has gone;
\* its finally clause takes the queue off the list.
SseEnd(c) ==
    /\ c \in SseOpen /\ (~SseMore(c) \/ c \in sseGone)
    /\ sseState' = [sseState EXCEPT ![c] = "closed"]
    /\ UNCHANGED <<sseMax, sseGone, sseQueue, sseGot, sseSent, sseJoined, sseMade>>

SseDisconnect(c) ==
    /\ c \in SseOpen \ sseGone
    /\ sseGone' = sseGone \cup {c}
    /\ UNCHANGED <<sseMax, sseState, sseQueue, sseGot, sseSent, sseJoined, sseMade>>

-----------------------------------------------------------------------------
(* Progress.  A call without a token is never suspended.                   *)

ProgReport(k, n) == progNotes' = Append(progNotes, <<k, n>>)

ProgGoto(k, pc) == progCall' = [progCall EXCEPT ![k].pc = pc]

ProgStart(k) ==
    /\ progCall[k].pc = "absent"
    /\ \E kind \in ProgKinds :
          LET pc == CASE kind.meets = "unknownTool" -> "isError"
                      [] kind.token -> "validate"
                      [] kind.meets = "nothing" -> "done"
                      [] OTHER -> "isError"
          IN  /\ progCall' = [progCall EXCEPT ![k] =
                     [meets |-> kind.meets, token |-> kind.token, pc |-> pc]]
              /\ IF pc = "validate" THEN ProgReport(k, 1) ELSE UNCHANGED progNotes

ProgValidate(k) ==
    /\ progCall[k].pc = "validate"
    /\ IF progCall[k].meets = "invalidInput"
       THEN ProgGoto(k, "isError") /\ UNCHANGED progNotes
       ELSE ProgGoto(k, "execute") /\ ProgReport(k, 2)

\* Mutant: completion is reported before the tool is run.
ProgExecuteMutant(k) ==
    /\ progCall[k].pc = "execute"
    /\ ProgGoto(k, IF progCall[k].meets = "exception" THEN "isError" ELSE "done")
    /\ ProgReport(k, 3)

\* The tool runs; only when it has returned is completion reported.
ProgExecute(k) ==
    /\ progCall[k].pc = "execute"
    /\ IF progCall[k].meets = "exception"
       THEN ProgGoto(k, "isError") /\ UNCHANGED progNotes
       ELSE ProgGoto(k, "done") /\ ProgReport(k, 3)

-----------------------------------------------------------------------------
SseServe(c) == SseDeliver(c) \/ SseEnd(c)
ProgStep(k) == ProgValidate(k) \/ ProgExecute(k)

SseNext == \/ SseConfigure \/ SseBroadcast
           \/ \E c \in SseClient : \/ SseConnect(c) \/ SseKeepalive(c)
                                   \/ SseServe(c) \/ SseDisconnect(c)
ProgNext == \E k \in ProgCall : ProgStart(k) \/ ProgStep(k)

-----------------------------------------------------------------------------
\* Shapes of the streams and of the calls.
McpStreamsTypeOK ==
    /\ sseMax \in SseLimits \cup {0} /\ sseMade \in 0 .. SseMaxBroadcasts
    /\ \A c \in SseClient : /\ sseState[c] \in {"away", "open", "closed"}
                            /\ sseQueue[c] \in Seq(1 .. SseMaxBroadcasts)
    /\ \A k \in ProgCall : progCall[k].pc \in
           {"absent", "validate", "execute", "done", "isError"}

\* While its stream is open, what a client has been sent and what is queued for
\* it are all the broadcasts since it was registered, in order and each once.
\* (sse_generator against broadcasts, keepalives, time-outs and departures)
SseGapless ==
    \A c \in SseOpen :
        Tail(sseGot[c]) \o sseQueue[c]
            = [i \in 1 .. (sseMade - sseJoined[c]) |-> sseJoined[c] + i]

\* A client sees progress 1, 2, 3 of its token in order, the 3 exactly when the
\* call succeeds, whatever other calls do meanwhile.  (call_tool_with_progress)
ProgFaithful ==
    \A k \in ProgCall :
        LET mine == SelectSeq(progNotes, LAMBDA n : n[1] = k)
        IN  /\ \A i \in DOMAIN mine : mine[i][2] = i
            /\ progCall[k].pc = "isError" => Len(mine) < 3
            /\ progCall[k].pc = "done" /\ progCall[k].token => Len(mine) = 3

\* A queued notification is still to be sent.
SseOwed(c) == c \in SseOpen /\ sseQueue[c] # <<>>
=============================================================================
