---------------------------- MODULE MCPipelines ----------------------------
(***************************************************************************)
(* Pipelines on shared state: graphs of nodes on a pool of models, batched *)
(* embeddings, retrieval and tokenizers.  As in MCServices a behaviour is  *)
(* about one of them, its part, and the variables of the others keep one   *)
(* initial value.                                                          *)
(***************************************************************************)
EXTENDS ComfyExecutor, EmbeddingServer, RagPipeline, Tokenizer

VARIABLE part

emVars == <<emV1Vars, emV2Vars>>
vars == <<cfVars, emVars, rgVars, tkVars, part>>

Parts == {"comfy", "embed", "registry", "rag", "tokenizer"}

Init == /\ part \in Parts
        /\ CfInit /\ EmInit /\ RgInit /\ TkInit
        /\ part # "rag" => rgVersion = "v0"
        /\ part # "tokenizer" => tkVersion = "v0"

Only(p, Step, others) == part = p /\ Step /\ UNCHANGED <<others, part>>

Next == \/ Only("comfy", CfNext, <<emVars, rgVars, tkVars>>)
        \/ Only("embed", EmV1Next, <<cfVars, emV2Vars, rgVars, tkVars>>)
        \/ Only("registry", EmV2Next, <<cfVars, emV1Vars, rgVars, tkVars>>)
        \/ Only("rag", RgNext, <<cfVars, emVars, tkVars>>)
        \/ Only("tokenizer", TkNext, <<cfVars, emVars, rgVars>>)

\* Threads and tasks 1 and 2 are scheduled; 3 stands for the batching worker, and
\* for a call of a tokenizer.
Serve(i) ==
    \/ i \in CfThread /\ Only("comfy", CfRun(i), <<emVars, rgVars, tkVars>>)
    \/ i \in EmCall /\ Only("embed", EmServe(i), <<cfVars, emV2Vars, rgVars, tkVars>>)
    \/ i = 3 /\ Only("embed", EmWork, <<cfVars, emV2Vars, rgVars, tkVars>>)
    \/ i = 3 /\ Only("tokenizer", TkStep, <<cfVars, emVars, rgVars>>)

Spec == Init /\ [][Next]_vars /\ \A i \in 1..3 : WF_vars(Serve(i))

-----------------------------------------------------------------------------
\* Characters: a space, a letter, a letter of two bytes; texts of up to two of
\* them, and what is trained on.
Space == <<0>>
A == <<1>>
E2 == <<2, 3>>
Letters == {A, E2}
Corpora == {<<A, A, A, A, A>>, <<A, E2, A, E2, A, E2>>, <<Space, A, Space, A, Space, Space, A>>,
            <<Space, E2, A, Space, E2, A, A>>}
Texts == Corpora \cup UNION {[1..n -> {A, Space, E2}] : n \in 0..2}

\* Documents around the size of a chunk, with sentences of some length or none, alone
\* and two at a time; one of blanks for longer than a chunk; two without any term.
Document(n, blanks, marks) == [length |-> n, blanks |-> blanks, marks |-> marks]
Sentences(n, b) == LET ends == {p \in 2..n - 1 : b > 0 /\ p % b = 0}
                   IN  Document(n, {p - 1 : p \in ends}, {p - 2 : p \in ends})
Batches == {<<Sentences(n, b)>> : n \in {0, 14, 17, 40}, b \in {0, 7, 13}}
           \cup {<<Sentences(3, 0), Sentences(4, 0)>>, <<Document(40, 5..28, {})>>,
                 <<Document(1, {}, {})>>, <<Document(3, {1}, {})>>}

-----------------------------------------------------------------------------
\* Documents are cut, ranked and fused, and texts encoded, without losing any of
\* them.
TextsFaithful == RgTypeOK /\ RgFaithful /\ TkTypeOK /\ TkFaithful

Owed(i) == \/ part = "comfy" /\ i \in CfThread /\ CfOwed(i)
           \/ part = "embed" /\ i \in EmCall /\ EmOwed(i)
           \/ part = "tokenizer" /\ i = 1 /\ TkOwed

\* Every prompt, every call for vectors and every use of a tokenizer comes to an end.
PipelinesEnd == \A i \in CfThread \cup EmCall : Owed(i) ~> ~Owed(i)
=============================================================================
