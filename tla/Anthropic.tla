----------------------------- MODULE Anthropic ------------------------------
(***************************************************************************)
(* The Anthropic Messages API, h-llm/src/wire_apis/anthropic.rs: which     *)
(* requests are its, what a response says and what a stream of SSE events  *)
(* adds up to.  An event is [type, data]; data that is not JSON is None.   *)
(***************************************************************************)
EXTENDS LlmTypes

\* req: [method, path, headers, key, bearer, json, body]
has_anthropic_api_key(req) == req.key = "sk-ant" \/ req.bearer = "sk-ant"

classify_route(req) ==
    IF req.method # "POST" THEN "Reject"
    ELSE IF req.path \in {"/v1/messages/count_tokens", "/v1/messages/batches"} THEN "Reject"
    ELSE IF req.path = "/v1/messages"
            /\ ("anthropic-version" \in req.headers \/ has_anthropic_api_key(req)) THEN "Accept"
    ELSE "Unknown"

matches_shape(req) ==
    LET body == req.body IN
    /\ IsSome(body.model)
    /\ IsSome(body.messages)
    /\ \A i \in 1..Len(body.messages) : body.messages[i].role \in {"user", "assistant"}
    /\ body.input = None
    /\ \/ "anthropic-version" \in req.headers \/ has_anthropic_api_key(req)
       \/ IsSome(body.system) \/ IsSome(body.stop_sequences)

is_terminal(reason) ==
    reason \in {"end_turn", "stop_sequence", "max_tokens", "tool_use", "refusal",
                "model_context_window_exceeded"}

is_tool_use(reason) == reason = "tool_use"

extract_from_request(req) ==
    [model |-> Or(req.body.model, "unknown"), is_stream |-> req.body.stream = TRUE]

\* resp: [id, model, stop_reason, usage, content], or None when it is not JSON
extract_from_response(resp) ==
    LET u == Get(resp, "usage") IN
    ResponseInfo(Get(resp, "id"), Get(resp, "model"), Get(resp, "stop_reason"),
                 IF IsSome(u) THEN [u EXCEPT !.total = None] ELSE NoUsage, resp)

----------------------------------------------------------------------------
(* Streaming: one pass for the numbers, one for the content.               *)

SseNumbers0 == [id |-> None, model |-> None, finish |-> None, usage |-> NoUsage]

SseNumbers(acc, ev) ==
    CASE ev.data = None -> acc
      [] ev.type = "message_start" ->
            LET msg == ev.data.message IN
            [acc EXCEPT !.id = Or(msg.id, @), !.model = Or(msg.model, @),
               !.usage.input = Or(msg.usage.input, @),
               !.usage.cache_read = Or(msg.usage.cache_read, @),
               !.usage.cache_creation = Or(msg.usage.cache_creation, @)]
      [] ev.type = "message_delta" ->
            LET u == ev.data.usage IN
            [acc EXCEPT !.finish = Or(ev.data.stop_reason, @),
               !.usage.input = IF IsSome(u.input) /\ u.input > 0 THEN u.input ELSE @,
               !.usage.output = Or(u.output, @),
               !.usage.cache_read = Or(u.cache_read, @),
               !.usage.cache_creation = Or(u.cache_creation, @)]
      [] OTHER -> acc

SseBody0 == [message |-> None, stop_reason |-> None, usage |-> None, blocks |-> <<>>]

\* blocks: one entry [index, block] per content_block_start, as the BTreeMap holds them
Started(acc, i) == \E k \in 1..Len(acc.blocks) : acc.blocks[k].index = i

PutBlock(acc, i, b) ==
    LET smaller == SelectSeq(acc.blocks, LAMBDA e : e.index < i)
        larger == SelectSeq(acc.blocks, LAMBDA e : e.index > i)
    IN [acc EXCEPT !.blocks = Append(smaller, [index |-> i, block |-> b]) \o larger]

AddDelta(acc, i, text) ==
    [acc EXCEPT !.blocks = Collect(@, LAMBDA e :
        IF e.index = i THEN [e EXCEPT !.block.text = @ \o text] ELSE e)]

SseBody(acc, ev) ==
    CASE ev.data = None -> acc
      [] ev.type = "message_start" -> [acc EXCEPT !.message = ev.data.message]
      [] ev.type = "content_block_start" ->
            PutBlock(acc, ev.data.index, [ev.data.content_block EXCEPT !.text = <<>>])
      [] ev.type = "content_block_delta" /\ Started(acc, ev.data.index) ->
            AddDelta(acc, ev.data.index, ev.data.text)
      [] ev.type = "message_delta" ->
            [acc EXCEPT !.stop_reason = Or(ev.data.stop_reason, @), !.usage = ev.data.usage]
      [] OTHER -> acc

\* None when neither a message nor a block was seen.
build_response_body(events) ==
    LET acc == FoldLeft(SseBody, SseBody0, events)
        content == Arr(Collect(acc.blocks, LAMBDA e : e.block))
    IN IF acc.message = None /\ acc.blocks = <<>> THEN None
       ELSE [id |-> Get(acc.message, "id"), model |-> Get(acc.message, "model"),
             stop_reason |-> acc.stop_reason,
             usage |-> Or(acc.usage, Get(acc.message, "usage")), content |-> content]

extract_from_sse(events) ==
    LET n == FoldLeft(SseNumbers, SseNumbers0, events) IN
    ResponseInfo(n.id, n.model, n.finish, n.usage, build_response_body(events))

----------------------------------------------------------------------------
(* Body shape parsers.                                                     *)

tool_names(body) == IF IsSome(body.tools) THEN body.tools ELSE <<>>

first_system_text(body) == body.system

ContentText(content) ==
    IF content.kind = "string" THEN NonBlank(content.text)
    ELSE IF OfType(content.blocks, {"text"}) = <<>> THEN None
    ELSE Lines(TextsOf(content.blocks, {"text"}))

\* The first user message and no other: a later one belongs to a later turn.
first_user_text(body) ==
    LET m == Find(body.messages, LAMBDA x : x.role = "user") IN
    IF IsSome(m) THEN ContentText(m.content) ELSE None

\* A tool id before a text.
BlocksSig(blocks) ==
    LET tool == Find(blocks, LAMBDA b : b.type = "tool_use" /\ IsSome(b.id)) IN
    IF IsSome(tool) THEN ToolId(tool.id)
    ELSE IF OfType(blocks, {"text"}) = <<>> THEN None
    ELSE TextSig(Lines(TextsOf(blocks, {"text"})))

\* The first assistant message and no other; a plain string has no signature.
first_assistant_sig_from_request(body) ==
    LET m == Find(body.messages, LAMBDA x : x.role = "assistant") IN
    IF IsSome(m) /\ m.content.kind = "array" THEN BlocksSig(m.content.blocks) ELSE None

first_assistant_sig_from_response(resp) == BlocksSig(resp.content.blocks)

extract_user_input(body) ==
    LET m == Last(body.messages) IN
    IF body.messages = <<>> \/ m.role # "user" THEN None
    ELSE NonBlank(IF m.content.kind = "string" THEN m.content.text
                                               ELSE Lines(TextsOf(m.content.blocks, {"text"})))

\* Trailing system messages are skipped; a tool result starts no turn.
is_user_turn_start(body) ==
    LET m == Find(Reverse(body.messages), LAMBDA x : x.role # "system") IN
    IF m = None THEN None
    ELSE /\ m.role = "user"
         /\ IF m.content.kind = "string" THEN ~Blank(m.content.text)
            ELSE \E i \in 1..Len(m.content.blocks) :
                    LET b == m.content.blocks[i] IN
                    IF b.type = "text" THEN ~Blank(b.text) ELSE b.type # "tool_result"

extract_assistant_text(resp) == NonBlank(Lines(TextsOf(resp.content.blocks, {"text"})))

estimate_input_tokens(body) ==
    (IF IsSome(body.system) THEN count_text(body.system) ELSE 0)
    + SumOf(Collect(body.messages, LAMBDA m :
          CountMessage(m, {"text", "thinking"}, {"tool_use", "tool_result"})))
    + CountTools(body.tools)

estimate_output_tokens(resp) == count_text(collect_anthropic_assistant_text(resp.content))

----------------------------------------------------------------------------
(* External: what an Anthropic client and server put on the wire.  A       *)
(* generation g is [id, model, stop, usage, blocks].                       *)

WireBlock(b) ==
    Block(CASE b.kind = "think" -> "thinking" [] b.kind = "text" -> "text" [] OTHER -> "tool_use",
          b.text, b.id, b.name)

WireBody(g) ==
    [id |-> g.id, model |-> g.model, stop_reason |-> g.stop, usage |-> g.usage,
     content |-> Arr(Collect(g.blocks, WireBlock))]

Ev(type, data) == [type |-> type, data |-> data]

WireHead(g) ==
    <<Ev("message_start", [message |-> [id |-> g.id, model |-> g.model,
        usage |-> [g.usage EXCEPT !.output = None]]])>>

WireBlockEvents(g, i) ==
    LET b == WireBlock(g.blocks[i]) IN
    <<Ev("content_block_start", [index |-> i, content_block |-> b])>>
    \o Collect(b.text, LAMBDA t : Ev("content_block_delta", [index |-> i, text |-> <<t>>]))
    \o <<Ev("content_block_stop", [index |-> i])>>

WireTail(g) ==
    <<Ev("message_delta", [stop_reason |-> g.stop, usage |-> g.usage]),
      Ev("message_stop", [index |-> 0])>>

\* The blocks of a generation in a later request's history.
Echo(g, style) ==
    <<Item("message", "assistant",
        IF style = "string" /\ \A i \in 1..Len(g.blocks) : g.blocks[i].kind = "text"
        THEN Str(Concat(Collect(g.blocks, LAMBDA b : b.text)))
        ELSE Arr(Collect(g.blocks, WireBlock)), <<>>)>>

UserSays(text) == <<Item("message", "user", Arr(<<Block("text", text, None, None)>>), <<>>)>>

ToolsReturn(g) ==
    <<Item("message", "user", Arr(Collect(SelectSeq(g.blocks, LAMBDA b : b.kind = "tool"),
        LAMBDA b : Block("tool_result", <<"r">>, b.id, None))), <<>>)>>

WireRequest(base, system, items) == [base EXCEPT !.messages = items, !.system = system]
=============================================================================
