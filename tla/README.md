# System Design Labs: specifications and proofs

The repository is a collection of independent "labs" under `labs/`, each a small
system with its own server, plus a web site (`src/`) whose articles
(`src/content/labs/*.mdx`) document the labs. Labs do not call each other. What
they share is a style: an in-memory structure behind a mutex, goroutines or tasks
around it, and timers. This directory holds TLA+ specifications of four Go labs
whose logic is a protocol and of fourteen Python labs around language and image
models, the TLC runs that check them, and proofs checked by TLAPS. What is numeric
in the Python labs (tensors, losses, scores) is abstracted to what control flow
tells apart; the modules are about the loops, queues, caches, threads and files
around it.

Paths below are relative to the repository. In the modules, names that begin with
a capital and describe a step are actions; names ending in `Mutant` are altered
copies of a definition with a plausible programming error, kept beside the
definition to show that a property depends on it. They are used by no
specification.

## 1. Inventory

### Modelled

| Component | State | Operations | Hard behaviour | What makes it correct |
|---|---|---|---|---|
| raft node, `labs/raft/pkg/raft/raft.go` | term, vote, role, log, snapshot, commit and apply indices, state machine, next/match index, the main goroutine's loop | election timer, campaign, RequestVote, AppendEntries, InstallSnapshot, Submit, compaction, Stop | every RPC is a goroutine of several critical sections; what it read may be old when it acts; replies and calls overtake each other | one leader per term, one vote per term, matching logs, committed entries on a majority and applied alike everywhere |
| dist-lock v0/v1, `labs/dist-lock/pkg/lock/lock.go` | lease per resource, token counter; the storage's last token and data | Acquire, Release, Renew, Write | a paused client acts on a lease that is over; holders crash | exclusion among clients that trust a lease, fencing, self-healing |
| saga orchestrator, `labs/saga/pkg/saga` | event log, cursors of the forward and the compensation loop, effects at the participants | Run, Recover, retries, HTTP calls | a crash between effect and log; lost answers; repeated deliveries | nothing executed or compensated twice, compensation complete and in reverse |
| message-queue, `labs/message-queue/pkg/queue` (without `fifo.go`) | message list, in-flight receipts, dead-letter queue, parked polls | send, batch, delay, receive, delete, change visibility, scanner, long poll | expired receipts not scanned yet, several receipts per message, timer without mutex | at least once, exclusive visibility, no missed wake-up |

Python labs, each `labs/<lab>/src`:

| Component (lab) | State | Operations | Hard behaviour | What makes it correct |
|---|---|---|---|---|
| mcp-server: dispatch | middlewares with their logs, lines read, answers | JSON-RPC messages over stdio or HTTP, three stages | notifications and unreadable lines between requests; refusals in the middle of a chain | one answer per request, in order, each request logged once |
| mcp-server: streams | queues of SSE clients, progress notes of tool calls | connect, leave, broadcast, keepalive, progress | the list of queues changes during a broadcast; a time-out at the moment of an item | no gap, nothing twice, each call its own progress |
| agent-framework | steps, cost guard, memory, parallel calls | three agent loops, tools with time-outs | outputs that are both action and answer; results in any order; a summary at a limit | every turn kept, observations with their calls |
| llm-inference | priority queue, active batch, pages, waiting coroutines | submit, admission, decode step, time-out; three generation loops | the pool runs out; every coroutine drives the engine for all, also into the exception of another's prompt | pages partitioned, requests served and not overtaken, a cache changes nothing |
| speculative-decoding | text and flag of each sequence, counters | generate, batches, self-speculation, draft trees | acceptance and correction belong together; sequences end in the middle of a result | the target's language and distribution |
| voice-assistant | audio buffer, history, phase of a connection | chunks, silence, answer, speech | utterances end by counts over the stream; the history is cut at a limit | utterances and turns whole, answers in order |
| comfyui-executor | jobs in threads, cache, model slots, random generator | submit, execute, look up, load, evict | shared state without locks; nodes that raise | results are those of the nodes, and errors too |
| embedding-pipeline | queue, cache, worker; versions and pins | embed, batch, shut down; register, pin, resolve | calls share a batch; pins expire between two resolutions, which test their arguments differently | each text its own vector, the model named made it |
| rag | chunks, vectors and terms side by side | ingest, three retrievers | an exception between updates of parallel lists; pieces that are blank | no sentence is cut in all its chunks, a source is what was ranked |
| tokenizer | merge rules, texts under way | train, encode, decode, save, load | order of rules | nothing lost, the same after a load |
| lora-finetune | shared layers and gradients, adapter files | train, switch, generate | requests interleave on one model; a training that fails at once | each batch learnt once, a text of one state of the model |
| prompt-optimization | counters, best configuration, published globals | compile, evaluate, bootstrap | concurrent compilations; a swallowed exception | the best is kept and published |
| sd-finetuner | job store, threads, files | start, train, save, poll, list | a status read field by field while it changes | polls sane, listed adapters whole |
| model-quantizer | tensors, files | quantize three ways, write, read | padding in several places; empty tensors; a file cut short | half a step of error, whole files only |
| llm-eval | index of n-grams, tasks, results | index, filter, evaluate, suite | texts shorter than an n-gram | nothing contaminated is counted, no leak |

The raft nodes call each other's handlers directly (`callRequestVote`,
`callAppendEntries`, `callInstallSnapshot`). The lock manager and the storage
server are joined by their clients, who carry a token from one to the other. The
saga's orchestrator calls participants over HTTP. A queue appends to its
dead-letter queue under both mutexes.

### Not modelled

The labs of this table have a protocol worth modelling; the order is the one in
which they would be added.

| Component | State and operations | Hard behaviour | Properties wanted |
|---|---|---|---|
| message-queue `fifo.go` | groups in flight, deduplication map over the same store | a receipt that expires never frees its group; deletes reorder | group order, one in flight per group, one message per deduplication id |
| dist-lock v2 | a Redis key with TTL; release reads the key and deletes it | the key changes hands between the two commands | only the holder's key is deleted |
| kafka-lite | log segments, consumer groups, committed offsets | rebalance while members fetch and commit | one owner per partition, committed offsets never back |
| gossip | member list with incarnations, probes, suspicion timers | lost and reordered messages | no live member stays dead, incarnations decide |
| distributed-cron | leader lease, job history | failover with backfill | no run missed or repeated |
| pubsub | subscriptions, outstanding messages, ordering keys | acknowledgement deadline against redelivery | order per key, dead letters |
| service-discovery | instances with TTL, watchers | heartbeat against expiry | watchers see every change |
| stream-processor | watermarks, windows, two-phase commit log | a crash between prepare and commit | exactly once to the sink |
| crdt | counters, sets, registers, deltas | concurrent merges | lattice laws, convergence |
| rate-limiter, load-balancer | buckets, windows; breaker and retry budget | boundaries of windows; half-open races | limits hold, breaker closes |
| logical-clocks | Lamport, vector, hybrid clocks | message order, clock skew | order agrees with happened-before |
| wal, lsm-kv | log and sync position; memtable, segments | a crash during group commit or compaction | acknowledged is durable; reads see the newest |
| websocket-gateway, cdn-edge, container-orchestrator, faas-runtime | buffers, cache entries, desired and actual state, pools | reconnect, coalescing, reconcile loops | replay complete, one fetch per miss, convergence |

Every other lab is listed in `PROJECT.json` with the reason it is left out:
sequential data structures and parsers (`btree-kv`, `mini-sql-db`,
`regex-engine`, ...), code that is numeric throughout (`transformer`,
`controlnet`, `multimodal-server`, ...), system-call demonstrations (`io-model`,
`container-runtime`) and cryptographic encodings (`jwt-library`,
`password-hashing`). The HTTP servers, demos, Java clients and the web site have
no protocol state.

## 2. Modules and how they correspond to the code

`Raft.tla`. One action per critical section of `n.mu`. The main goroutine's place
in `run`, `runFollower`, `runCandidate` and `runLeader` is `pc`; its locals are
`electionTerm` and `votes`. Votes are two sets, calls not handled yet and replies
not read yet. A goroutine of `broadcastAppendEntries` is a record in `appendCalls`
whose `stage` says which critical section comes next and whose other fields are
what it read in the earlier ones. An RPC is a Go call, so nothing is lost or
duplicated, but any goroutine may stand still between two sections for any time,
and calls overtake each other. Timers may fire at any time; how often is bounded.
The key/value map is the sequence of commands applied to it. After an installed
snapshot the code's snapshot and live map are one object; `SnapshotData` says so.
`MCRaft.tla` adds a reachable state from which runs start. It can be
reached from `Init` (the comment gives the way); starting there spares TLC the
election in the runs about replication. `MCRaftStale.tla` begins in `Init` and lets a
script choose the first steps, each a step of `Raft`, up to the third term of five nodes.

`LeaseLock.tla`. `entries` and `counter` are LockManager's, `lastToken` and `data`
StorageServer's; `handle` is what each client believes, and `crashed` the clients
that have stopped. Time is relative to now: `left` is what remains of a lease and
`Tick` moves everything, so no clock has to be bounded. A client writes with the
token it has, also long after its lease ran out.

`Saga.tla`. The log is the set of its events, which is all that `ReplayLog` and the
loops read. `held` is the set of steps in effect at the participants: a call that
fails may have had its effect. Each call of Run or Recover is a member of `Runs`
with its own `pc`, loop variables and replayed copy of the log. `Calls` says what
the caller does: Recover after a crash, deliver a finished saga again, or deliver
it while a run is in progress.

`MessageQueue.tla`. `messages` is the slice from `head` on; removal moves the head
element into the hole, as the code does. `inflight` is the map of receipts, of
which one message can have several. `dlq` is the dead-letter queue's slice. Each
poll has a place, a deadline and a timer. All methods are atomic under `q.mu`
except a long poll, which holds the mutex between its last test and `cond.Wait`
(`committed`) while its timer, which needs no mutex, may fire. The scanner reads
the clock before it takes the mutex, so it may miss what expires meanwhile
(`lag`), and handles the expired receipts in any order, as a Go map is ranged over.
`sent`, `deleted`, `due` and `late` only record history for the properties.

The Python labs have a module each (mcp-server two). Identifiers carry a prefix of
their lab (`Mcp`, `Sse`, `Prog`, `Ag`, `Inf`, `Gen`, `Sd`, `Va`, `Cf`, `Em`, `Rg`,
`Tk`, `Lo`, `Po`, `Ft`, `Qz`, `Eh`), because several modules are extended together.

* `McpServer.tla`: `handle()` is synchronous on every transport, so a message is one
  action; a message is a method, a form and an id. `McpStreams.tla`: coroutines
  interleave where they are suspended, and a put on an unbounded queue does not
  suspend.
* `Agent.tla`: what the model writes is one of a few outputs, given as the tokens the
  parsers look for; the parsers decide as the regular expressions do.
* `LlmInference.tla`: a scheduler step runs under the engine's lock; its loops are
  actions during which nobody else moves. `infDriver` is whose coroutine called it, who gets
  the error when the forward pass of an empty prompt raises (`InfRaise`); that request stays
  in the batch and raises in every later step. The generation loops (`Gen`) run over every
  deterministic model of two tokens, and are compared with decoding without a cache.
* `LanguageModels.tla`, `TargetDecoding.tla`, `SpecDecoding.tla`: a distribution is a
  function from tokens to integer weights; a random number is a choice among the
  outcomes that have some probability. `TargetDecoding` is the abstract decoder: it
  extends a text by tokens the target allows, and ends it at an end of sequence or
  the limit. `SpecDecoding` is the code, and implements it under
  `Standard == INSTANCE TargetDecoding WITH ...`.
* `VoiceAssistant.tla`: a chunk is speech or silence at its place in the stream.
* `ComfyExecutor.tla`: a step lies between two places where Python may switch threads
  and it matters; a result is the expression that produced it. The workflows are of two
  nodes of five kinds, with edges between them that make the second node raise
  (`CfRaises`: `ToUpperCase` of no string, `VAEDecode` of no latent, a sampler with a list for its
  seed or its model), cycles, edges from nowhere and unregistered types (`CfRefused`).
* `EmbeddingServer.tla`: two machines, the batching server of v1 and the registry with
  pins of v2. A vector is the text (and model) it came from. The two resolutions of a
  version are two operators, because one tests its arguments with `is not None`
  (`EmVersionOf`) and the other for truth (`EmNamedVersion`); an argument may be absent or
  the empty string.
* `RagPipeline.tla`: a document is a length and the places of its blanks and of the marks
  that end a sentence, so that `RgStripped` strips a piece and drops a blank one as the code
  does; a term needs two characters. Every order of chunks is a possible ranking. Vectors,
  terms, index and chunks are lists of their own, which an ingest that fails half way leaves
  with different lengths.
* `Tokenizer.tla`: characters are sequences of bytes over four byte values; training
  and encoding go one merge rule a step.
* `LoraServer.tla`, `PromptOptimizer.tla`, `SdFinetuner.tla`: weights, scores and images
  are what they come from: an adapter file or a run, a set of examples solved, the
  sequence of images trained on. `LoBase` stands for the parameters of LoRA's model that no
  adapter holds, which the optimizer moves all the same; `LoWrapped` may be empty, as for the
  default model, whose layers `inject_lora` does not recognise, and every load then fails.
* `ModelQuantizer.tla`: weights are integers and scales exact fractions, so that
  rounding is what the code's rounding is; a file is its tensors and where it was cut. An
  empty tensor makes the quantizers of int8 and of mixed precision raise (`QzRaises`).
* `EvalHarness.tla`: a text is a sequence of words; n-grams, overlap and the bootstrap
  interval are computed.

`MCServices.tla`, `MCPipelines.tla` and `MCTraining.tla` put those modules together for
TLC. The labs are separate programs, so a behaviour is about one of them: the variable
`part`, chosen initially, names it, `Only(p, Step, others)` takes its steps and keeps
the rest at their initial values, and the state space is the sum of the labs', not the
product. Their properties (`AgentsFaithful`, `CfFaithful`, ...) are conjunctions of the
named invariants of the modules; `EmFaithful`, `EngineFaithful`, `CfFaithful` and
`TrainersFaithful`, which are proved of `EmSpec`, `LlmSpec`, `CfSpec` and `TrainersSpec`,
are defined in the modules they are about. For liveness `Owed(i)` says that client, thread
or request `i` of the part is still to be answered, and `Serve(i)` is what the runtime
does for it.

`MCLeaseLock.tla`, `MCSaga.tla` and `MCMessageQueue.tla` are the TLC instances of the Go
labs. The proofs are in `RaftProofs.tla` (elections, types, logs) and
`RaftSafetyProofs.tla` (what is committed), which extends it, `LeaseLockProofs.tla`, `SagaProofs.tla`, `MessageQueueProofs.tla`,
`InferenceProofs.tla` for the inference engine and speculative decoding, and
`LabProofs.tla` for the embedding server, the workflow executor and the three labs that
train. `SequenceLemmas.tla` holds what several of them need about sequences, loops and
induction. `Trainers.tla` joins the three labs that train for their common property.

## 3. Runs

| Run | Question | Bounds |
|---|---|---|
| `raft_elections` | One leader per term, one vote per term | 3 nodes, 3 timers, 1 Stop: two nodes campaign and one of them again |
| `raft_replication` | Log matching, state machine safety, commits on a majority, commit index never back | 3 nodes, 2 commands, 4 rounds, 2 goroutines at a time, 1 timer; no compaction |
| `raft_compaction` | Compaction and installation keep log, snapshot and state machine together | 3 nodes, 2 commands, compaction after every commit, 4 rounds, 4 goroutines at a time, one leader |
| `raft_clamped_append` | (violated) a late append below the snapshot is stored at the wrong index | as `raft_compaction` |
| `raft_stale_append` | (violated) every later leader holds what was committed | 5 nodes, a script of 57 steps to the third term, then any steps; 2 commands, 4 timers, 3 rounds |
| `lease_lock` | Exclusion, fencing, no robbing, self-healing | 2 clients, 2 resources, 2 keys, TTLs 1 and 2, 4 leases |
| `saga_recovery` | Nothing twice, reverse order, complete compensation, termination | 3 steps, one without compensation, 2 attempts, 2 runs, one at a time |
| `saga_recover_unwound` | (violated) Recover after a crash in compensation returns Completed | 2 steps, 1 attempt, 2 runs |
| `message_queue` | Nothing lost, alone unless extended late, no sleep beside a message | 2 messages, 3 receipts, 2 polls, delays 0 and 1, timeout 1, 2 receives allowed |
| `services` | MCP, streams, agents, inference, speculation and voice: answers belong to their requests, pages and caches are consistent, speculation implements decoding by the target, nobody waits for ever | 2 clients, 3 requests over 3 pages of 2 tokens, one with an empty prompt at most (`Raising`), 2 sequences and 2 drafted tokens over 3 tokens with weights adding up to 2, 9 chunks of audio |
| `pipelines` | workflows, embeddings, retrieval, tokenizers: a result is of its own inputs, whatever is shared, and every call ends | 2 threads on 1 model slot, 2 calls of 2 texts with a cache of 1, chunks of 15, merges of 3, texts of at most 7 characters |
| `training` | LoRA, prompts, fine-tuning, quantization, evaluation: batches learnt once, the best kept, files whole, nothing contaminated counted, every job ends | 2 requests, 2 examples with a budget of 5 calls, 2 jobs of 2 steps, tensors of up to 8 weights, 2 tasks |

The bounds are the smallest at which the cases in question occur. Three nodes are
the smallest cluster in which a majority is not everyone; several rounds let an old
call meet both a newer one and an answer. Three receipts over two messages give one
message two receipts, an expired and a current one, with a third in reserve. Two runs
of a saga are a crash and its recovery. Two clients, threads or calls are what it takes
for one to disturb another in each Python lab; three requests over three pages make
the engine's pool run out with one request queued behind the batch; a cache of one
entry evicts at once, and one model slot makes two threads compete. Weights that add up
to two with three tokens give certain, possible and impossible tokens at two places. What these bounds cannot show is left to
the proofs where there are proofs, and is open otherwise: raft log safety over
several leader changes is checked only as far as one timer goes, and proved beyond.

`CHECK_DEADLOCK FALSE` is set for raft, where timers, rounds and stopped nodes
run out, for sagas, which end, and for the Python labs, whose clients stop asking. The lock and the queue can always let time pass.

**Fairness.** Raft and the queue are checked for safety only: random timers justify
no fairness under which an election must succeed. The lock assumes weak fairness of
`Tick`: time passes. No client has to do anything, so `SelfHeals` does not rest
on clients that release. The saga assumes weak fairness of each run's own steps:
a run that has not crashed goes on, because each HTTP call has a timeout and each
retry loop a bound. Crashing is never fair, and neither is a new call. The Python labs
assume weak fairness of `Serve(i)`, one formula for each client, thread or request:
asyncio's event loop resumes a coroutine that is ready, the interpreter switches to a
thread that can run, a model that is called answers, and the embedding worker is a
thread of its own. Parts exclude each other, so fairness of the disjunction is fairness
of the disjunct at work. What clients send, and when they leave, is never fair.

**Disagreements found.**

* A late AppendEntries whose `PrevLogIndex` lies below the follower's snapshot is
  inserted at the front of the local log from its first entry on, so a command
  gets another index than on the leader (`raft.go:575-593`).
* `Recover` never looks at the replayed failure: it goes forward over steps that
  were already compensated, and reports Completed (`orchestrator.go:122-131`).
* A committed entry can be lost. An append goroutine tests only that its node leads
  (`raft.go:679`), copies the log it finds, and sends it with the term it captured when it
  was spawned (`:737`); its reply counts if the node leads, in whatever term (`:756-765`).
  `raft_stale_append` finds this: node 1 leads term 1, node 2 term 2, and node 1 again
  term 3, with one goroutine of term 1 not run yet and a call of node 2 to node 3 on its way.
  The goroutine delivers node 1's entry of term 3 to node 3, which still is in term 1 and
  takes it; the reply makes the third copy, so the entry is committed and applied. Then
  node 2's call of term 2 reaches node 3, which accepts it and overwrites the entry. Node 3
  is elected to term 4 without it. The article says that a committed entry
  "will be present in the log of every future leader" (`raft.mdx:125`). Three nodes
  are too few: node 1 would need the vote of node 2 for term 3, and so node 2's entry.

The models of the Go labs show more of this kind, for which there is no run: an InstallSnapshot overtaken by appends moves `commitIndex` back
(`raft.go:650`); the installed snapshot changes with the live map (`raft.go:649`); a
stale lock holder's write is accepted until the new holder has written (`lock.go:198`);
a step that took effect but whose answers were all lost is not compensated
(`orchestrator.go:79`); Compensated is returned although a compensation failed
(`orchestrator.go:103`); an overlapping delivery executes a logged step again
(`orchestrator.go:65`); `DeleteMessage` leaves other receipts of a message behind, and
when one expires the scanner dead-letters the deleted message (`queue.go:192`,
`:310-316`); a long poll whose timer fires between its last test and its wait sleeps
past its deadline (`poll.go:43-64`).

In the Python labs the models contain these too, without a run of their own, and the
properties are stated so that they leave them out; in most a document or comment says
otherwise:

* agent-framework: the pattern that finds a function call admits no inner braces, so the
  documented call, an object within an object, is never recognised
  (`v1_function_call.py:238`). `AgNested` is one of the outputs.
* comfyui-executor: threads test for a free model slot, sleep while loading, and insert:
  the pool grows past its size (`v2_offload.py:69`). Overlapping samplers mix their random
  numbers and the cache keeps the mixture (`v2_offload.py:194`); `CfConcurrent` is about
  what does not depend on the generator.
* embedding-pipeline: an explicit version is ignored for a caller without an active pin,
  against the documented order of resolution (`v2_versioned.py:387`). Of the two resolutions
  of a version, the one that embeds takes an empty `caller_id` for a caller, the one that names
  the model does not (`server.py:141`), so an answer to an empty caller that asks for a version
  names a model that did not embed it. `EmModelNamed` is about the other callers.
* rag: an ingest whose terms BM25 cannot index (it raises when no chunk has any) has
  extended the vectors and the terms by then, but not the chunks (`v1_hybrid.py:171-175`). The next
  one indexes the leftovers, and from then on position `i` of the indexes is not chunk `i`,
  which the docstring says it is (`:145-146`): a query returns other chunks than it ranked,
  or raises. `RgSourcesRanked` is about lists of one length.
* prompt-optimization: the call counter raises `BudgetExceededError`, which `evaluate` and
  the bootstrapper catch with every other exception, so a compilation past its budget goes
  on and returns a result (`evaluate.py:53`), although the class says that it raises
  (`v2_teleprompter.py:202`).
* lora-finetune: `total_steps` leaves out the step of the leftover gradients
  (`v1_training.py:331`). Overlapping trainers share `.grad`, and a switch during a
  generation mixes two adapters; `LoFaithful` is about requests left undisturbed. A file
  that lacks a layer leaves the one of the adapter before it, and what an earlier training did
  to the rest of the model stays: the optimizer is given everything that requires a gradient
  (`v1_training.py:158`), and only the wrapped linear layers are frozen, although a comment
  calls the base model frozen (`:124`). `LoTextOfAdapter` says that a text is of one state of the
  model, with the adapter's own layers in it. A training request without samples raises after
  `model.train()` (`:221-226`) and leaves dropout on for every text until a training succeeds,
  also at temperature 0, which the server calls deterministic (`server.py:212`); the property
  says that nothing else leaves it on.
* voice-assistant: the prompt is cut to its first 256 bytes, so a long history loses the
  newest message and the cue to answer (`v1_llm.py:186`).
* sd-finetuner: `inject_lora` freezes only the layers it replaces, although its docstring
  calls the LoRA parameters the only trainable ones (`v1_lora_unet.py:232`): `FtTrainable`
  keeps the weights of the others. `TrainRequest.reg_dir` is never read.
* llm-inference: a page that cannot be had is ignored, and a request that has timed out
  stays in the engine with its pages (`v2_batched.py:320`, `server.py:177`). A request
  with an empty prompt, on which the model raises, is never taken out of the batch: whoever
  drives the engine gets its error, and the requests behind it make no more progress
  (`v2_batched.py:333`). They are answered all the same, with the error.
* speculative-decoding: the first pass of a batch does not look at `max_tokens`, so a call
  that asks for no token gets one per sequence (`v1_batched.py:140-151`, `:183`). `SdLimit` takes the
  limit of such a call to be 1.
* model-quantizer: int8 raises for an empty tensor (`v0_int8.py:42`), mixed precision too,
  while the 4-bit quantizer of a whole model pads it (`QzRaises`).

## 4. Proofs

All theorems hold for every value of the constants allowed by the modules' named
assumptions (finite sets of servers, natural bounds, positive TTLs and so on).

**Raft** (`RaftProofs`, `RaftSafetyProofs`). `RaftElectionSafety` and `RaftVoteOncePerTerm`. Election
safety alone is not inductive: a leader's claim rests on replies that were given
earlier, by nodes whose terms have moved on. `ElectionInv` therefore follows a
vote through its life. `ElectionTypeOK` types what elections use;
`ElectionTermPast` and `RepliesCurrent` say that the election of a candidate and
of each reply is not later than the terms of those involved; `VotesBind` says that a
granted vote, on its way or counted, is backed by the voter's `votedFor` or by a
later term; `VotesDisjoint` that nobody's vote stands for two candidates of one
term; `LeaderElected` and `CollectsInTerm` tie a leader to a majority of such
votes. Two majorities of a finite set meet (`MajoritiesMeet`), which
contradicts `VotesDisjoint`. Actions that do not touch the election are dealt
with once, in two classes: quiet steps and steps that only learn a higher term.

*Types.* `RaftTypeCorrect` is `TypeOK`, from `TypeInv`: the election invariant and the kinds
of logs, snapshots and traffic. `CallTyped` gives the fields that a goroutine has set by
the critical section that comes next, without which a late reply could move an index to
anything.

*Leaders append.* `LeaderAppendOnly` follows from one lemma about a step, `LogStep`: a
step leaves every log alone, or appends to a leader's own, or stores a call's entries,
which leaves a follower, or cuts a log's front off. It needs no invariant
beyond `TypeInv` and holds with compaction.

*Log matching.* `RaftLogMatching` states `LogMatching` under `NothingCompacted`, for as
long as no node has a snapshot. After that it is false: it is the first disagreement of
section 3. `raft_replication` runs without compaction, so there it is the property as
checked. The argument is about `Links`, all entries in logs and in append calls on
their way, each with its index and the term before it. `LinksMatch` says that an index
and a term name one link; it implies the property. It is not inductive alone, for a
leader could append an entry with a term and an index that exist elsewhere: `LeaderHolds`
says that whoever leads in a term has every index at which an entry of that term exists,
and `TermsClosed` that the election of every term that occurs is over, a majority having
voted for its winner and nobody else being able to collect that majority, so a new
leader starts in a term without entries. `NoInstalls` and `StartsAtZero` describe the
calls of that period.

*Applying.* `RaftNoneSkipped` holds without condition: a snapshot covers applied indices
only, and the state machine has at least a command for each. `AppliedInv` also says it of
the snapshots on their way (`InstallsComplete`) and of those that are separate from the
live map (`SnapshotsComplete`). `RaftAppliedOncePerIndex` makes it an equality under
`NothingCompacted`; with an installed snapshot, which shares the live map, a later leader
can hand out a map that is ahead of its index, and the receiver applies those commands
again. `raft_compaction` keeps to one leader and checks the equality there.

*Committed entries.* `RaftStateMachineSafety`, `RaftLeaderCompleteness`,
`RaftCommittedOnMajority`, `RaftAppliedInLog` (which states `CompactedIsApplied`) and
`RaftCommitMonotonic` hold under three hypotheses, of which the first two are needed.

* `NothingCompacted`, as for log matching. The clamped append is what breaks them
  afterwards, and for `CommitMonotonic` an InstallSnapshot overtaken by appends.
* `FreshStart`: no node takes office while an append goroutine of an earlier leadership of
  its own is left. The code does not ensure it, and `raft_stale_append` shows with five
  nodes that leader completeness fails without it. Goroutines of earlier leaderships of
  *other* nodes, and late calls and replies of the present one, may be left in any number.
  What would replace the hypothesis in the code is a comparison of `n.currentTerm` with the
  captured term beside the two tests of `n.state`.
* `History`, which defines two variables that the program does not have and restricts
  nothing: every behaviour of `Spec` has exactly one such history. `termLog` remembers for
  each term the log of its leader when last seen, `stored` who has stored how much of that
  log while in that term.

The invariant `SafetyInv` has five parts beside `LogInv`. `TermsOK`: each log is put together
from the logs of the terms, an entry of term `t` following what precedes it in `termLog[t]`,
and terms in a log do not decrease; it strengthens log matching so that a log can be
compared with that of a leader long gone. `StoresOK` types `stored`. `CallsSafe` says what
is on its way: an append call carries a piece of the log of its term (`AppendCallsOK`; a
call that starts behind its leader's log is refused by everyone), calls of a leader are of
its term (`LeaderCallsOK`, where `FreshStart` is used), a request for votes still tells what
its candidate's log is (`VoteCallsOK`). `Elected` is the core. An entry is *choosable* if it is of
its leader's own term and a majority has stored it or is not past its term, so that it may
still; that can only cease. `Completeness`: each later term's log contains every choosable
entry. `Persist`: who has stored a choosable entry has it in its log. Since a call of a
later term carries that term's log, which contains it, a truncation never removes one
(`KeepsChoosable`). `VotesComplete`: a candidate has the choosable entries of those who have
voted for it, because the handler compares logs (`UpToDate`, `GrantedComplete`); a new
leader's majority meets the one that may choose (`CompletenessStep`). `Committed` follows
the count: `matchIndex` tells what is stored in the present term (`MatchOK`), a leader has
stored its own (`SelfStored`), so what `advanceCommitIndex` counts is chosen
(`CountsCertified`; here the code's test that the entry is of the current term matters),
the `LeaderCommit` of a call is covered by what it carries (`FollowsCertified`), and so
every committed prefix leads up to a chosen entry (`CommitsOK`), and is what the state
machine has executed (`AppliedOK`). The invariant was simulated by TLC before it was proved.

**Lock** (`LeaseLockProofs`). `LockType`, `LockExclusive`, `LockHolderCanWrite`,
`LockKept`, `LockFencedWrites`. The invariant `LockInv` says that tokens were
issued by the counter and are unique to a resource and a client, that a client that
trusts its lease has the current entry with at least the time it believes in,
that the entry of a resource is the newest lease on it, and that the storage is
never ahead of the newest lease on its own lock.

**Saga** (`SagaProofs`). `SagaType` holds with any calls. `SagaNotReexecuted`,
`SagaCompensatedOnce`, `SagaReverseOrder`, `SagaUndone` and `SagaInEffect` assume
`Sequential`: no second delivery while a run is in progress; without that they are
false, as noted above. `SagaInv` relates the log to the effects (`LogTrue`), orders
the events of the log (`LogOrdered`), and says of the one active run that its
replayed copy is still the log's content as far as it matters (`ReplayCurrent`) and
where its cursors are (`Underway`).

**Message queue** (`MessageQueueProofs`). `QueueTypeCorrect`, `NoMessageIsLost`,
`OneHolderUnlessLate` and `NoLostWakeup` are the run's four invariants, for any messages,
polls, batch sizes, delays and number of receipts. `IInv` joins them, which need each
other. `TypeOK` says that no message is in the queue twice: removal by id removes one.
`Known` says that everything queued or in flight was sent, so a new message's id is free.
`Ready` that a message with a receipt, or announced to the polls, has no delay left.
`Asleep` that while a poll is parked or about to park, every message that was announced
has a receipt out; only that excludes that the poll sleeps beside it. Order and receive
counts matter to none of this, so the lemmas are about `Slots`, the set of messages with
their delays: `WithoutSlots` says that the swap of `removeByID` takes one
slot out, `WithoutAllSlots` the same of a batch, further ones what a receive and the
scanner do.

**Loops** (`SequenceLemmas`). The specifications write a loop over a slice as `FoldLeft`,
which the library defines by a `CHOOSE` of a recursive function. `FoldHasSolution` shows
that the function exists. Induction is stated of a set (`SetInduction`), because the
library's theorems take a predicate as a parameter. So what a loop does can be proved
after all, as long as no `RECURSIVE` operator is involved.

**Embedding server** (`LabProofs`). `EmbeddingsFaithful` is `EmFaithful`, for any number of
calls, texts, batch and cache sizes. That an answered call has its own vectors rests on the
path of each text through the queue: `EmFutureOK` says at every place of a call that the
future is pending or holds that text's vector, `EmQueueOK` that what is queued or taken is
still pending, `EmQueuedOnce` that it is there once, so that the worker, which resolves
by place in the batch, never writes to a place that is resolved or gone. `EmCacheGood`
says that the cache has one entry for a text, which is what keeps its size under
eviction. Of a v2 request `EmRequestOK` says that until something disturbs it the model of the
version it resolves to is the one it was embedded with, by the first resolution; that
the second one finds the same version for every caller but the empty one is a step of the proof.

**Workflow executor** (`LabProofs`). `WorkflowsFaithful` is `CfFaithful`, for any number of
threads, models and slots, and workflows of two nodes. What must hold with overlapping prompts is in `CfShared` and
`CfJobs`: the nodes that do not sample are functions of their inputs both where they are
computed and where the cache serves them, and did not raise (`CfResultsOK`, `CfCacheOK`), and every thread that
is about to insert a model has seen a free slot or made one (`CfRoomOK`), which bounds the
overflow by the other threads. `CfOneByOne` holds while the client waits for each prompt:
at most one thread is at work, so what a step of loading finds is what the last one left
(`CfLoadOK`), the generator was seeded by the node that draws from it, a thread that
fails has a workflow that is refused or whose meaning contains a node that raises
(`CfFails`), and a cached sample is the sample its key names (`CfCachedNoise`). That `ensure_loaded` moves a model to the
end without losing or doubling one is `CfMovedToEnd`.

**Training labs** (`LabProofs`). `TrainersCorrect` is `TrainersFaithful`, from one theorem
and one invariant for each lab.

* *Adapters* (`AdaptersFaithful`, any numbers of requests, layers, files, batches and
  accumulation steps). `LoInv` counts: as long as no other trainer was met, the steps taken
  times the accumulation length plus what is accumulated is the number of batches
  (`LoLearnt`), and `.grad` holds all that is accumulated (`LoGathered`); each gradient in
  it belongs to a run that has not cleared it (`LoGradOK`), so a run that starts alone starts
  empty. That calls which overlap know of each other (`LoMetOK`) makes "met nobody" mean
  what it says; then `LoTextOK` follows the layers of one adapter from the copying into the
  tokens, all of which see one state of the model. Dropout in them shows that a training
  failed (`LoFailed`): a run that ends otherwise switches it off, and one still under way
  has been met.
* *Prompts* (`PromptsFaithful`, any examples, budgets, trials and calls). `PoInv` says of
  every compilation that its entries tell no more than the configuration achieves
  (`PoEntryOK`) and that the best so far is the first maximum of the history (`PoBestOf`).
  For the two assignments that publish, `PoTogether` says of a call that met no other one
  that both globals are its own or that another call is between its two assignments.
* *Fine-tuning jobs* (`JobsFaithful`, any jobs, steps, images and modules). `FtInv` ties an
  entry of the store to its thread (`FtEntryOK`), the thread to the images it has trained on
  (`FtThreadOK`) and the file to the thread (`FtJobOK`). An answer is read field by field
  while the entry changes: `FtSeen` says what a partial answer may be, given the entry now,
  and is kept by every step an entry can make (`FtLater`), because the status is read
  before the rest and a finished entry does not change. `FtSince` compares with the last
  answer. That crops lie inside needs that a resized side is at least the target,
  `FtResized`, which is about integer division.

The assumptions that these need are that `PoNone` and `LoNone` are no calls, examples are
sequences, budgets and sizes natural numbers and steps positive (the request models
validate that; sd-finetuner's asks for at least one step), that the layers an adapter wraps are numbered and include the first, the one
that an incomplete file has, that no saved adapter bears the name of a missing one, and
that PyTorch's module names are unique.

**Inference engine** (`InferenceProofs`). `EngineCorrect` is `EngineFaithful` and
`QueueNotOvertaken` the action property `InfNoOvertaking`. `InfInv`: the queue is
sorted by priority and arrival (`InfQueueOK`; a newcomer's place is a count, and
`PrefixSet` shows that those counted are the front of the queue), arrivals are below the
number of requests submitted, the batch and what is left of a step's copy of it hold
each request once, every page is free or at one place of one request
(`InfCachePartition`), and until an allocation fails all pages of a request but the last
are full (`InfFull`), from which the division in `InfPagesFit` follows. Of the
generation loops `GenInv` says that each token is the model's after all that precede it
(`GenWritten`), that a loop has ended exactly when its rule says so of its last token
(`GenEnded`), and that its cache covers all but that one (`GenCovered`). Two loops then
agree as far as both have come (`GenSamePrefix`, by induction), and stop at one place
(`GenSameText`).

**Speculative decoding** (`InferenceProofs`). `SpecResultPlausible` and the
refinement `SpecImplementsTarget`: `SdSpec => Standard!TdSpec`, for every vocabulary, period of
the models, number of drafted tokens, limit and batch; it assumes that
these are natural numbers and that the end of sequence is a token. Plausibility of a
result rests on acceptance (`SdAccepts`: an accepted token has weight under the target)
and on the draw after a rejection (`SdResampledPlausible`: what is left of the target's
weight over the draft's is part of the target's). `SdInv` adds what the mapping needs:
before a call there is no target and no result, afterwards both models are
distributions, texts hold no end of sequence. Then a step of a sequence is a `TdGrow`
(`StepGrows`): what `SdAppend` keeps of a result is a prefix of it (`AppendedPart` reads it
back from the text), a prefix of a plausible result is plausible, and when the prefix is
proper and short of the limit the next token was the end of sequence, which the target
allowed. A call is a `TdCall`, and self-speculation and trees stutter.
That the *distribution* is the target's (`SdExact`) is a sum over the vocabulary and
stays with TLC.

**Only model-checked.** All liveness, because the prover handles neither fairness with
ENABLED nor leads-to, and what `RECURSIVE` operators compute (the tokenizer, n-grams,
sums of weights), so `SdFaithful` (an exact distribution), `TextsFaithful` and
`ModelsFaithful`. `AgentsFaithful` has no proof yet. What compaction keeps together
(`CompactedIsApplied` with compaction) is checked by `raft_compaction` within its bounds:
with several leaders the half about the log's end fails by the clamped append.

## 5. What could come next

FIFOQueue over the store of MessageQueue and RedisLock, then the table's rows from
kafka-lite on; distributed cron over a lease of LeaseLock's kind.

Abstract specifications worth stating: a bag of undelivered messages that
MessageQueue implements as long as receipts are not extended late; a mutual
exclusion that LeaseLock implements for clients that trust their lease; an
all-or-nothing transaction that Saga implements when answers are not lost.

Runs: those for the disagreements listed without a run; Raft with two leader changes
from a mid-run state; a long poll's return under fairness of its timer.

Theorems: `AgentsFaithful`, the parts of `TextsFaithful` and `ModelsFaithful` without
recursion; Raft's safety through compaction, once the clamped append is repaired; that
MessageQueue implements a bag of undelivered messages.
