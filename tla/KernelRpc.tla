------------------------------- MODULE KernelRpc -------------------------------
(***************************************************************************)
(* The kernel from afar (llm/src/bin/server.rs, server/service.rs, convert.rs, *)
(* streaming.rs, health.rs, grpc_backend.rs): the server loads its model and    *)
(* listens, a client connects, its call crosses the wire, runs the kernel of    *)
(* DecisionChain and is answered with a proposal or a status.                  *)
(* Transport and handshake are tonic's; how calls share the engine is           *)
(* KernelService's.                                                          *)
(***************************************************************************)
EXTENDS DecisionChain

CONSTANTS
    Sites,      \* what of "cert", "key" and "ca" the server and the client are given
    Calls,      \* who calls ("client", "raw", "backend"), what, and which parts are missing
    Chats       \* the requests for a stream, each with what the model says

Atoms ==
    ({"number"} \X Nat) \cup ({"string"} \X STRING) \cup ({"bool"} \X BOOLEAN) \cup ({"null"} \X {0})

\* JSON values whose lists and objects are nested no deeper than this.
JsonUpTo[depth \in 0 .. MaxDepth] ==
    IF depth = 0 THEN Atoms
    ELSE Atoms \cup ({"array"} \X Seq(JsonUpTo[depth - 1]))
               \cup ({"object"} \X Seq(STRING \X JsonUpTo[depth - 1]))

WireUpTo[depth \in 0 .. MaxDepth] ==
    LET atoms == Atoms \cup ({"nan", "unset"} \X {0}) IN
    IF depth = 0 THEN atoms
    ELSE atoms \cup ({"list"} \X Seq(WireUpTo[depth - 1]))
               \cup ({"struct"} \X Seq(STRING \X WireUpTo[depth - 1]))

\* A state's entries have keys of their own, and their values are nested only so deep.
EntriesOf(entries, values) ==
    /\ IsFiniteSet(entries) /\ \A e \in entries : e[2] \in values
    /\ \A e, f \in entries : e[1] = f[1] => e = f

ASSUME CallAssumption ==
    /\ \A c \in Calls :
          /\ c.by \in {"client", "raw", "backend"}
          /\ c.by # "backend" =>
                c.request.config = {} /\ c.request.remote /\ FactsNamed(c.request)
          /\ c.by = "client" => EntriesOf(c.request.context.state, JsonUpTo[MaxDepth])
          /\ c.by = "raw" => EntriesOf(c.request.context.state, WireUpTo[MaxDepth])
    /\ \A chat \in Chats : chat.says \in Seq(Range(chat.says))

VARIABLES
    site,       \* the one configuration
    server,     \* "loading", "ready", "serving" or "exited"
    link,       \* "none", "up" or why there is none
    call,       \* the call under way, as a set
    running,    \* whether the kernel runs it
    reply       \* the reply to the last call, as a set

rpc == <<site, server, link, call, running, reply>>

allVars == <<vars, rpc>>

RpcInit ==
    /\ Init
    /\ site \in IF req.remote THEN Sites ELSE {[server |-> {}, client |-> {}]}
    /\ server = "loading" /\ link = "none" /\ call = {} /\ running = FALSE /\ reply = {}

-----------------------------------------------------------------------------
(* Values on the wire: a number is a float, a value may have no kind.         *)

\* What a conversion makes of the values of a list, and of those of the fields of an
\* object.
Each(convert, values) == [i \in DOMAIN values |-> convert[values[i]]]

EachField(convert, fields) == [i \in DOMAIN fields |-> <<fields[i][1], convert[fields[i][2]]>>]

\* json_to_prost_value, given what it does to the values inside.
Writing(inner, depth) ==
    [json \in JsonUpTo[depth] |->
        CASE json[1] = "number" -> <<"number", Float(json[2])>>
          [] json[1] = "array" -> <<"list", Each(inner, json[2])>>
          [] json[1] = "object" -> <<"struct", EachField(inner, json[2])>>
          [] OTHER -> json]

ToWire[depth \in 0 .. MaxDepth] == Writing(ToWire[depth - 1], depth)

\* prost_value_to_json: a number that is none becomes 0, no kind becomes null.
Reading(inner, depth) ==
    [value \in WireUpTo[depth] |->
        CASE value[1] = "nan" -> <<"number", 0>>
          [] value[1] = "unset" -> <<"null", 0>>
          [] value[1] = "list" -> <<"array", Each(inner, value[2])>>
          [] value[1] = "struct" -> <<"object", EachField(inner, value[2])>>
          [] OTHER -> value]

FromWire[depth \in 0 .. MaxDepth] == Reading(FromWire[depth - 1], depth)

\* What the mutant below reads: nothing inside a list or an object.
FromWireFlat == Reading([value \in WireUpTo[MaxDepth] |-> <<"null", 0>>], MaxDepth)

\* The request with each value of its state converted.
Converted(request, convert) ==
    [task |-> request.task,
     context |-> [state |-> {<<entry[1], convert[entry[2]]>> : entry \in request.context.state},
                  facts |-> request.context.facts],
     policy |-> request.policy, config |-> request.config, remote |-> request.remote,
     times |-> request.times]

-----------------------------------------------------------------------------
(* The server starts and a client connects.                                  *)

OneOfTwo(given) == ("cert" \in given) # ("key" \in given)

Secured(given) == {"cert", "key"} \subseteq given

\* load_engine fails, or the model is there.
LoadModel == server = "loading" /\ server' \in {"ready", "exited"} /\ UNCHANGED <<vars, site, link, call, running, reply>>

\* main: half a certificate ends the server, and so may files and the address.
Listen ==
    /\ server = "ready"
    /\ server' \in {"exited"} \cup (IF OneOfTwo(site.server) THEN {} ELSE {"serving"})
    /\ UNCHANGED <<vars, site, link, call, running, reply>>

\* What the handshake asks: both or neither secured, and a certificate of the
\* client if the server was given whom to trust.
Agree ==
    /\ Secured(site.server) = ("ca" \in site.client)
    /\ Secured(site.server) /\ "ca" \in site.server => Secured(site.client)

\* GrpcBackend::connect: a client's own certificate counts only beside a CA.
Connect ==
    /\ req.remote /\ link # "up"
    /\ link' = IF "ca" \in site.client /\ OneOfTwo(site.client) THEN "misconfigured"
               ELSE IF server = "serving" /\ Agree THEN "up" ELSE "failed"
    /\ UNCHANGED <<vars, site, server, call, running, reply>>

-----------------------------------------------------------------------------
(* Running the kernel.                                                       *)

\* run_kernel_async: the last message is the task, nothing else of the prompt and
\* no state is sent, no seed is asked for and no human.
BackendRequest(b) ==
    [task |-> IF b.messages = <<>> THEN "" ELSE Last(b.messages),
     context |-> [state |-> {}, facts |-> <<>>],
     policy |-> [seeded |-> FALSE, recall |-> b.recall, adapter |-> b.adapter, truths |-> b.truths, human |-> FALSE],
     config |-> {}, remote |-> TRUE, times |-> req.times]

\* A raw call holds values of the wire already.
OnWire(c) ==
    CASE c.by = "backend" -> BackendRequest(c.request)
      [] c.by = "client" -> Converted(c.request, ToWire[MaxDepth])
      [] c.by = "raw" -> c.request

Send(c) ==
    /\ call = {} /\ pc = "idle" /\ counter < req.times
    /\ call' = {c} /\ reply' = {}
    /\ UNCHANGED <<vars, site, server, link, running>>

\* Mutant: objects inside the context are not read.
FromProtoFlat(r) == Converted(r, FromWireFlat)

\* From<proto::KernelContext> and its companions.
FromProto(r) == Converted(r, FromWire[MaxDepth])

\* run_kernel up to the lock.
Accept ==
    \E c \in call :
        /\ ~running /\ c.missing = {}
        /\ Run(FromProto(OnWire(c)))
        /\ running' = TRUE
        /\ UNCHANGED <<site, server, link, call, reply>>

\* run_kernel without an intent, a context or a policy.
Refuse ==
    \E c \in call :
        /\ ~running /\ c.missing # {}
        /\ call' = {}
        /\ reply' = {[by |-> c.by, status |-> "invalid_argument", run |-> FALSE]}
        /\ UNCHANGED <<vars, site, server, link, running>>

\* llm_error_to_status.
Status(error) ==
    CASE error = "ModelNotLoaded" -> "unavailable"
      [] error \in {"ContextLengthExceeded", "InvalidParams", "ConfigError"} -> "invalid_argument"
      [] error = "AdapterNotFound" -> "not_found"
      [] error = "AdapterIncompatible" -> "failed_precondition"
      [] error \in {"PolicyViolation", "AdapterPolicyViolation"} -> "permission_denied"
      [] OTHER -> "internal"

\* rust_replayability_to_proto.
ReplayabilityToProto(r) == r

\* From<KernelProposal> for proto::KernelProposal.
ToProto(p) == [p EXCEPT !.replayability = ReplayabilityToProto(@)]

\* run_kernel_async on the answer: every proposal is reasoning, no contract is
\* reported, and the best that is claimed of a replay is an effort.
ToBackend(p) ==
    [p EXCEPT !.kind = "Reasoning", !.results = <<>>, !.truths = [t \in {} |-> TRUE],
              !.replayability = "BestEffort"]

\* run_kernel once the kernel is done: it has a proposal, or it failed in a way that
\* the client of the backend sees as one.
Respond ==
    \E c \in call, error \in {"ModelNotLoaded", "ContextLengthExceeded", "InferenceError", "AdapterNotFound"} :
        /\ running /\ pc = "idle"
        /\ reply' = {[by |-> c.by, run |-> TRUE,
                      status |-> IF answer # NoAnswer THEN "ok"
                                 ELSE IF c.by = "backend" THEN "InferenceError" ELSE Status(error),
                      proposal |-> IF answer = NoAnswer THEN NoAnswer
                                   ELSE IF c.by = "backend" THEN ToBackend(ToProto(answer)) ELSE ToProto(answer)]}
        /\ call' = {} /\ running' = FALSE
        /\ UNCHANGED <<vars, site, server, link>>

-----------------------------------------------------------------------------
(* The other calls; a client makes one of them, and first, as a bound.          *)

\* A tool's call is JSON alone between its two tags.
Parses(body) == body = <<"json">>

\* Mutant: what is no call ends the search.
DetectToolCallsUntil(out) ==
    LET tags == {i \in 1 .. Len(out) - 2 : out[i] = "open" /\ out[i + 2] = "close"}
        good == {i \in tags : \A j \in 1 .. i : out[j] # "junk"}
    IN  SetToSortSeq({i \in good : out[i + 1] = "json"}, <)

\* detect_tool_calls: from an opening tag to the next closing one, and on behind it.
DetectToolCalls(out) ==
    LET behind[from \in 1 .. Len(out) + 1] ==
            LET opens == {i \in from .. Len(out) : out[i] = "open"}
                closes == {i \in Min(opens) + 1 .. Len(out) : out[i] = "close"}
            IN  IF opens = {} \/ closes = {} THEN <<>>
                ELSE (IF Parses(SubSeq(out, Min(opens) + 1, Min(closes) - 1)) THEN <<Min(opens)>> ELSE <<>>)
                     \o behind[Min(closes) + 1]
    IN  behind[1]

\* format_chat_template and build_tool_instructions: system and tools first, then
\* the messages, whose role is a user's when it is unknown.
ChatTemplate(chat) ==
    (IF chat.system = {} /\ chat.tools = {} THEN <<>> ELSE <<<<"system", chat.system \cup chat.tools>>>>)
        \o [i \in DOMAIN chat.messages |->
              LET role == chat.messages[i][1] IN
              <<IF role \in {"system", "user", "assistant", "tool"} THEN role ELSE "user", {chat.messages[i][2]}>>]
        \o <<<<"assistant", {}>>>>

\* stream_generate, whose parameters are not used; the pieces of the text and their
\* order are KernelService's.
Stream(chat) ==
    LET calls == IF chat.tools = {} THEN <<>> ELSE DetectToolCalls(chat.says)
    IN  /\ call = {} /\ counter = 0
        /\ reply' = {[by |-> "chat", chat |-> chat, prompt |-> ChatTemplate(chat), calls |-> calls,
                      status |-> IF calls = <<>> THEN "Eos" ELSE "ToolCall", run |-> FALSE]}
        /\ UNCHANGED <<vars, site, server, link, call, running>>

\* main gives the service no registry, so no adapter is ever loaded or
\* listed; it listens only once the model is there, so health is never "Loading".
AskStatus(ask) ==
    CASE ask = "load an id that is none" -> "invalid_argument"
      [] ask = "load" -> "unimplemented"
      [] ask = "detach" -> "success"
      [] ask = "list" -> "Detached"
      [] ask = "health" -> IF server = "loading" THEN "Loading" ELSE "Ready"

\* load_adapter, detach_adapter, list_adapters and get_health.
Ask ==
    /\ link = "up" /\ call = {} /\ counter = 0 /\ reply = {}
    /\ \E ask \in {"load an id that is none", "load", "detach", "list", "health"} :
          reply' = {[by |-> "ask", status |-> AskStatus(ask), run |-> FALSE]}
    /\ UNCHANGED <<vars, site, server, link, call, running>>

RpcNext ==
    \/ Next /\ UNCHANGED rpc
    \/ req.remote /\ (LoadModel \/ Listen)
    \/ Connect \/ (link = "up" /\ \E c \in Calls : Send(c)) \/ Accept \/ Refuse \/ Respond
    \/ (link = "up" /\ reply = {} /\ \E chat \in Chats : Stream(chat)) \/ Ask

RpcSpec == RpcInit /\ [][RpcNext]_allVars

-----------------------------------------------------------------------------
(* Properties.                                                               *)

Rank(replayability) == IF replayability = "Deterministic" THEN 2 ELSE 1

PromptsAlike(c) ==
    c.by = "client" =>
        state \in InitialStates(c.request) /\ req.policy = c.request.policy /\ req.task = c.request.task

ToldTheSame(r) ==
    /\ r.status = "ok" <=> answer # NoAnswer
    /\ r.status = "ok" =>
          /\ r.proposal.id = answer.id /\ r.proposal.payload = answer.payload
          /\ r.proposal.human = answer.human /\ r.proposal.confidence = answer.confidence
          /\ Rank(r.proposal.replayability) <= Rank(answer.replayability)
          /\ r.by # "backend" => r.proposal = answer

\* A request that crosses the wire starts the kernel in a state, and with a policy
\* and a task, that it would give it at home: what the two conversions do to
\* numbers, lists and nested objects is what the kernel does to them itself; and its
\* caller is told what the kernel proposed or that it failed, and never promised a
\* better replay than the kernel promises (convert.rs, inject_json_value, run_kernel,
\* GrpcBackend).
RemoteIsLikeLocal ==
    /\ running /\ pc = "Reasoning" => \A c \in call : PromptsAlike(c)
    /\ \A r \in reply : r.run => ToldTheSame(r)

\* A tool call that stands complete in the text is found, wherever it stands, unless
\* an opening tag before it was never closed; nothing else is one
\* (detect_tool_calls).
CompleteCallsAreFound ==
    \A r \in reply :
        r.by = "chat" /\ r.chat.tools # {} =>
            LET out == r.chat.says
                Open(i) == \E j \in 1 .. i - 1 : out[j] = "open" /\ \A k \in j .. i - 1 : out[k] # "close"
                Whole(i) == /\ i + 2 <= Len(out) /\ out[i] = "open" /\ out[i + 1] = "json" /\ out[i + 2] = "close"
                            /\ ~Open(i)
            IN  /\ Range(r.calls) = {i \in DOMAIN out : Whole(i)}
                /\ \A i, j \in DOMAIN r.calls : i < j => r.calls[i] < r.calls[j]
=============================================================================
