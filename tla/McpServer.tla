----------------------------- MODULE McpServer -----------------------------
(***************************************************************************)
(* The dispatcher of labs/mcp-server in its three stages, over standard    *)
(* input and over HTTP: JSON-RPC messages are read one at a time, routed   *)
(* to a handler and answered, stage v2 through a chain of middlewares.     *)
(* handle() is synchronous on every transport, so a message is one action. *)
(* What a message asks of a tool, resource or prompt is abstracted to the  *)
(* cases that lead to different outcomes.                                  *)
(***************************************************************************)
EXTENDS Naturals, Sequences, SequencesExt, FiniteSets

CONSTANTS McpId, McpNoId,      \* ids of requests; a message without one
          McpMaxLines          \* bound: lines a client sends

VARIABLES mcpServer,           \* which server was built, None before
          mcpLines, mcpOut,    \* form and id of what was read; the answers
          mcpInitialized,      \* _initialized
          mcpLog, mcpStarts    \* LoggingMiddleware.log, _start_times

mcpVars == <<mcpServer, mcpLines, mcpOut, mcpInitialized, mcpLog, mcpStarts>>

McpOff == [version |-> "none", stdio |-> FALSE, chain |-> <<>>]

\* Mutant: the log is put in front of the authentication.
McpChainMutant(auth, debug) == (IF debug THEN <<"logging">> ELSE <<>>)
                               \o (IF auth THEN <<"auth">> ELSE <<>>)
\* The middlewares McpServer.__init__ of server.py builds, in this order.
McpChain(auth, debug) == (IF auth THEN <<"auth">> ELSE <<>>)
                         \o (IF debug THEN <<"logging">> ELSE <<>>)

McpServers ==
    {[version |-> "v0", stdio |-> TRUE, chain |-> <<>>],
     [version |-> "v1", stdio |-> FALSE, chain |-> <<>>]}
    \cup {[version |-> "v2", stdio |-> s, chain |-> McpChain(a, d)] :
              s, a, d \in BOOLEAN}

-----------------------------------------------------------------------------
(* Tool arguments against the schema of a tool with one required string.   *)

McpSchema == [properties |-> [path |-> "string", count |-> "integer"],
              required |-> {"path"}]

\* isinstance with _TYPE_MAP: a Python bool is an int, an int is a number.
McpIsInstance(t, expected) ==
    \/ t = expected
    \/ expected = "number" /\ t \in {"integer", "boolean"}
    \/ expected = "integer" /\ t = "boolean"

\* validate_input: the fields it has an error message for.
McpInvalid(schema, data) ==
    {f \in schema.required : f \notin DOMAIN data}
    \cup {f \in DOMAIN data \cap DOMAIN schema.properties :
              ~McpIsInstance(data[f], schema.properties[f])}

McpArguments == {<<>>,
                 [path |-> "string"], [path |-> "integer"],
                 [path |-> "string", count |-> "boolean"],
                 [path |-> "string", other |-> "string"]}

-----------------------------------------------------------------------------
(* Handlers: what each returns, or the exception it raises.                *)

\* _handle_tools_call: errors of the call are results that say so, and fn is
\* called with every argument, so an undeclared one is its TypeError.
McpToolsCall(v, req) ==
    CASE req.name = "absent"  -> IF v = "v0" THEN "ValueError" ELSE "LookupError"
      [] req.name = "unknown" -> "LookupError"
      [] OTHER -> IF \/ McpInvalid(McpSchema, req.args) # {}
                     \/ ~(DOMAIN req.args \subseteq DOMAIN McpSchema.properties)
                     \/ req.fails
                  THEN "isError" ELSE "result"

\* _handle_resources_read: v1 also serves a URI below a registered one.
McpResourcesRead(v, req) ==
    CASE req.name = "absent" -> "ValueError"
      [] req.name = "known" \/ (req.name = "below" /\ v = "v1") -> "result"
      [] OTHER -> "LookupError"

\* _handle_prompts_get: safe_substitute leaves missing arguments as they are.
McpPromptsGet(req) == IF req.name = "known" THEN "result" ELSE "LookupError"

\* _get_handler of each stage.
McpMethods(v) ==
    {"initialize", "tools/list", "tools/call", "ping"}
    \cup (IF v = "v0" THEN {} ELSE {"resources/list", "resources/read",
                                    "prompts/list", "prompts/get"})
    \cup (IF v = "v2" THEN {"roots/list", "sampling/createMessage"} ELSE {})

McpHandler(v, req) ==
    CASE req.method = "tools/call" -> McpToolsCall(v, req)
      [] req.method = "resources/read" -> McpResourcesRead(v, req)
      [] req.method = "prompts/get" -> McpPromptsGet(req)
      [] OTHER -> "result"

\* The except clauses of handle: v0 knows one kind of failure only.
McpRouted(v, req) ==
    IF req.method \notin McpMethods(v) THEN "METHOD_NOT_FOUND"
    ELSE LET r == McpHandler(v, req)
         IN  CASE r = "LookupError" /\ v # "v0" -> "RESOURCE_NOT_FOUND"
               [] r \in {"LookupError", "ValueError"} -> "INTERNAL_ERROR"
               [] OTHER -> r

-----------------------------------------------------------------------------
(* Messages.                                                               *)

McpRequest(method, name, args, fails, authorised) ==
    [form |-> "message", method |-> method, name |-> name, args |-> args,
     fails |-> fails, authorised |-> authorised]

McpRequests ==
    {McpRequest(m, "absent", <<>>, FALSE, a) :
        m \in {"initialize", "tools/list", "ping", "prompts/list", "roots/list",
               "sampling/createMessage", "no/such", "notifications/initialized"},
        a \in BOOLEAN}
    \cup {McpRequest("tools/call", n, x, FALSE, TRUE) :
              n \in {"absent", "unknown", "known"}, x \in McpArguments}
    \cup {McpRequest("tools/call", "known", [path |-> "string"], f, a) :
              f, a \in BOOLEAN}
    \cup {McpRequest(m, n, <<>>, FALSE, TRUE) :
              m \in {"resources/read", "prompts/get"},
              n \in {"absent", "unknown", "below", "known"}}

McpMessages == {[form |-> f, id |-> i] : f \in {"garbage", "noMethod"}, i \in McpId}
               \cup {[form |-> "blank", id |-> McpNoId]}
               \cup {[id |-> i] @@ r : i \in McpId \cup {McpNoId}, r \in McpRequests}

\* AuthMiddleware.pre; over standard input nobody calls set_request_token.
McpRefuses(server, m) ==
    /\ m.method \notin {"initialize", "ping"}
    /\ ~(m.authorised /\ ~server.stdio)

\* _run_middleware_pre: the hooks that run, up to the first that refuses.
McpPreRun(server, m) ==
    LET refusing == {i \in DOMAIN server.chain :
                        server.chain[i] = "auth" /\ McpRefuses(server, m)}
    IN  IF refusing = {} THEN server.chain
        ELSE SubSeq(server.chain, 1, CHOOSE i \in refusing : \A j \in refusing : i <= j)

\* Mutant: notifications are answered too.
McpAnswersMutant(m) == m.form # "blank"
\* handle answers nothing to a message without an id.
McpAnswers(m) == m.form # "blank" /\ (m.form = "message" => m.id # McpNoId)

\* A message that cannot be parsed, or has no method, is answered without its
\* id: by the last-resort handler of the loop, or by an HTTP status.
McpFault(server, m) ==
    [id |-> McpNoId,
     code |-> CASE ~server.stdio -> IF m.form = "garbage" THEN "400" ELSE "500"
                [] server.version = "v0" /\ m.form = "garbage" -> "PARSE_ERROR"
                [] OTHER -> "INTERNAL_ERROR"]

-----------------------------------------------------------------------------
McpInit == /\ mcpServer = McpOff
           /\ mcpLines = <<>> /\ mcpOut = <<>> /\ mcpLog = <<>>
           /\ mcpInitialized = FALSE /\ mcpStarts = {}

\* A server is built and its transport started.
McpServe ==
    /\ mcpServer = McpOff
    /\ mcpServer' \in McpServers
    /\ UNCHANGED <<mcpLines, mcpOut, mcpInitialized, mcpLog, mcpStarts>>

McpSkip(m) == /\ ~McpAnswers(m)
              /\ mcpInitialized' = (mcpInitialized \/
                    (m.form = "message" /\ m.method = "notifications/initialized"))
              /\ UNCHANGED <<mcpOut, mcpLog, mcpStarts>>

McpFail(m) == /\ m.form \in {"garbage", "noMethod"}
              /\ mcpOut' = Append(mcpOut, McpFault(mcpServer, m))
              /\ UNCHANGED <<mcpInitialized, mcpLog, mcpStarts>>

\* Refused by a pre-hook: no post-hook runs, not even of those before it.
McpRefuse(m) ==
    LET ran == McpPreRun(mcpServer, m)
    IN  /\ m.form = "message" /\ McpAnswers(m)
        /\ "auth" \in ToSet(ran) /\ McpRefuses(mcpServer, m)
        /\ mcpOut' = Append(mcpOut, [id |-> m.id, code |-> "UNAUTHORIZED"])
        /\ mcpStarts' = mcpStarts \cup (IF "logging" \in ToSet(ran) THEN {m.id} ELSE {})
        /\ UNCHANGED <<mcpInitialized, mcpLog>>

McpHandle(m) ==
    LET code == McpRouted(mcpServer.version, m)
        logs == "logging" \in ToSet(mcpServer.chain)
    IN  /\ m.form = "message" /\ McpAnswers(m)
        /\ ~("auth" \in ToSet(mcpServer.chain) /\ McpRefuses(mcpServer, m))
        /\ mcpOut' = Append(mcpOut, [id |-> m.id, code |-> code])
        /\ mcpInitialized' = (mcpInitialized \/ m.method = "initialize")
        /\ mcpLog' = IF logs
                     THEN Append(mcpLog, [id |-> m.id,
                              error |-> code \notin {"result", "isError"}])
                     ELSE mcpLog
        /\ mcpStarts' = IF logs THEN mcpStarts \ {m.id} ELSE mcpStarts

McpRead ==
    /\ mcpServer # McpOff /\ Len(mcpLines) < McpMaxLines
    /\ \E m \in McpMessages :
          /\ mcpLines' = Append(mcpLines, [form |-> m.form, id |-> m.id])
          /\ McpSkip(m) \/ McpFail(m) \/ McpRefuse(m) \/ McpHandle(m)
    /\ UNCHANGED mcpServer

McpNext == McpServe \/ McpRead

-----------------------------------------------------------------------------
\* Answers carry an id of a client or none, and times are kept per id.
McpTypeOK == /\ mcpServer \in McpServers \cup {McpOff}
             /\ \A i \in DOMAIN mcpLines : mcpLines[i].id \in McpId \cup {McpNoId}
             /\ \A i \in DOMAIN mcpOut : mcpOut[i].id \in McpId \cup {McpNoId}
             /\ mcpInitialized \in BOOLEAN
             /\ mcpStarts \subseteq McpId

\* One line in, one line out: the k-th answer is for the k-th message that is
\* no notification, with its id unless the message could not be read.  (run,
\* handle and create_app)
McpAnswersInOrder ==
    LET expected == SelectSeq(mcpLines, LAMBDA m :
            m.form \in {"garbage", "noMethod"} \/ (m.form = "message" /\ m.id # McpNoId))
    IN  /\ Len(mcpOut) = Len(expected)
        /\ \A k \in DOMAIN mcpOut :
              mcpOut[k].id = IF expected[k].form = "message" THEN expected[k].id
                             ELSE McpNoId

\* With debug, the log holds the requests that were not refused, in order and
\* with their outcome, and no start time is left behind.  (LoggingMiddleware
\* beside a middleware that cuts the chain short)
McpLogComplete ==
    LET handled == SelectSeq(mcpOut, LAMBDA a :
            a.id # McpNoId /\ a.code # "UNAUTHORIZED")
    IN  /\ mcpStarts = {}
        /\ "logging" \in ToSet(mcpServer.chain) =>
             mcpLog = [k \in DOMAIN handled |->
                [id |-> handled[k].id,
                 error |-> handled[k].code \notin {"result", "isError"}]]
=============================================================================
