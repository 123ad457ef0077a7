----------------------------- MODULE OpenAiChat -----------------------------
(***************************************************************************)
(* The OpenAI Chat Completions API, h-llm/src/wire_apis/openai/chat.rs and *)
(* shared.rs.  Only the first choice is read.  A message is [content,      *)
(* reasoning_content, reasoning, calls].                                   *)
(***************************************************************************)
EXTENDS LlmTypes

has_bearer_auth(req) == req.bearer # "none"

is_anthropic_request(req) == "anthropic-version" \in req.headers \/ req.bearer = "sk-ant"

classify_route(req) ==
    IF req.method # "POST" \/ is_anthropic_request(req) THEN "Reject"
    ELSE IF req.path = "/v1/chat/completions" /\ has_bearer_auth(req) THEN "Accept"
    ELSE "Unknown"

matches_shape(req) ==
    LET body == req.body IN
    IsSome(body.model) /\ body.input = None /\ IsSome(body.messages) /\ body.messages # <<>>

is_terminal(reason) ==
    reason \in {"stop", "length", "tool_calls", "function_call", "content_filter"}

is_tool_use(reason) == reason \in {"tool_calls", "function_call"}

extract_request(req) ==
    [model |-> Or(req.body.model, "unknown"), is_stream |-> req.body.stream = TRUE]

\* resp: [id, model, message, finish, usage], message and finish of choices[0]
extract_response(resp) ==
    LET u == Get(resp, "usage") IN
    ResponseInfo(Get(resp, "id"), Get(resp, "model"), Get(resp, "finish"),
                 IF IsSome(u) THEN [u EXCEPT !.cache_creation = None] ELSE NoUsage, resp)

----------------------------------------------------------------------------
(* Streaming: chunks are [id, model, choice, usage]; a choice is [finish,  *)
(* content, reasoning_content, reasoning, calls] with calls of [index, id, *)
(* name, args].                                                            *)

Sse0 == [id |-> None, model |-> None, finish |-> None, content |-> <<>>, reasoning_content |-> <<>>,
         reasoning |-> <<>>, calls |-> <<>>, usage |-> NoUsage, saw_chunk |-> FALSE]

\* Deviation: the index is ignored, every call is merged into the first.
AddCall_NoIndex(calls, tc) ==
    LET was == Or(First(calls), [index |-> 1, id |-> EmptyId, name |-> None, args |-> <<>>])
    IN <<[was EXCEPT !.id = Or(tc.id, @), !.name = Or(tc.name, @), !.args = @ \o tc.args]>>

\* BTreeMap::entry(idx).or_insert, then id, name and arguments
AddCall(calls, tc) ==
    LET old == Find(calls, LAMBDA c : c.index = tc.index)
        was == Or(old, [index |-> tc.index, id |-> EmptyId, name |-> None, args |-> <<>>])
        now == [was EXCEPT !.id = Or(tc.id, @), !.name = Or(tc.name, @), !.args = @ \o tc.args]
    IN Append(SelectSeq(calls, LAMBDA c : c.index < tc.index), now)
       \o SelectSeq(calls, LAMBDA c : c.index > tc.index)

AddChoice(acc, ch) ==
    [acc EXCEPT !.finish = Or(ch.finish, @), !.content = @ \o ch.content,
       !.reasoning_content = @ \o ch.reasoning_content, !.reasoning = @ \o ch.reasoning,
       !.calls = FoldLeft(AddCall, @, ch.calls)]

\* Only while no input tokens are known: the first usage wins.
AddUsage(acc, u) ==
    IF acc.usage.input = None /\ IsSome(u) THEN [acc EXCEPT !.usage = [u EXCEPT !.cache_creation = None]]
                                           ELSE acc

SseChunk(acc, ev) ==
    IF ev.type # "" \/ ev.data = None THEN acc
    ELSE LET d == ev.data
             seen == [acc EXCEPT !.saw_chunk = TRUE, !.id = Or(@, d.id), !.model = Or(@, d.model)]
         IN AddUsage(IF IsSome(d.choice) THEN AddChoice(seen, d.choice) ELSE seen, d.usage)

\* A body without the response id; usage when one of its three counts is known.
build_synthetic_body(acc) ==
    [id |-> None, model |-> acc.model, finish |-> acc.finish,
     message |-> [content |-> Str(acc.content), reasoning_content |-> acc.reasoning_content,
                  reasoning |-> acc.reasoning,
                  calls |-> Collect(acc.calls, LAMBDA c : Block("function", c.args, c.id, c.name))],
     usage |-> IF IsSome(acc.usage.input) \/ IsSome(acc.usage.output) \/ IsSome(acc.usage.total)
               THEN acc.usage ELSE None]

extract_sse(events) ==
    LET acc == FoldLeft(SseChunk, Sse0, events) IN
    ResponseInfo(acc.id, acc.model, acc.finish, acc.usage,
                 IF acc.saw_chunk THEN build_synthetic_body(acc) ELSE None)

----------------------------------------------------------------------------
(* Body shape parsers.                                                     *)

user_content_to_text(content) ==
    IF content.kind = "string" THEN NonBlank(content.text)
    ELSE IF OfType(content.blocks, {"text", "input_text"}) = <<>> THEN None
    ELSE Lines(TextsOf(content.blocks, {"text", "input_text"}))

tool_names(body) == IF IsSome(body.tools) THEN body.tools ELSE <<>>

first_system_text(body) ==
    LET m == Find(body.messages, LAMBDA x : x.role = "system") IN
    IF IsSome(m) THEN user_content_to_text(m.content) ELSE None

first_user_text(body) ==
    LET m == Find(body.messages, LAMBDA x : x.role = "user") IN
    IF IsSome(m) THEN user_content_to_text(m.content) ELSE None

MessageSig(content, calls) ==
    IF calls # <<>> /\ IsSome(calls[1].id) THEN ToolId(calls[1].id)
    ELSE IF content.kind = "string" /\ ~Blank(content.text) THEN TextSig(content.text)
    ELSE None

first_assistant_sig_from_request(body) ==
    LET m == Find(body.messages, LAMBDA x : x.role = "assistant") IN
    IF IsSome(m) THEN MessageSig(m.content, m.calls) ELSE None

first_assistant_sig_from_response(resp) == MessageSig(resp.message.content, resp.message.calls)

extract_user_input(body) ==
    IF body.messages = <<>> \/ Last(body.messages).role # "user" THEN None
    ELSE user_content_to_text(Last(body.messages).content)

is_user_turn_start(body) ==
    IF body.messages = <<>> THEN None
    ELSE Last(body.messages).role = "user" /\ IsSome(user_content_to_text(Last(body.messages).content))

extract_assistant_text(resp) == NonBlank(resp.message.content.text)

estimate_input_tokens(body) ==
    SumOf(Collect(body.messages, LAMBDA m : CountMessage(m, {"text", "input_text"}, {})))
    + CountTools(body.tools)

estimate_output_tokens(resp) == count_text(collect_chat_assistant_text(resp.message))

----------------------------------------------------------------------------
(* External: what a client and a server of this API put on the wire.       *)

Texts(g, kind) == Concat(Collect(SelectSeq(g.blocks, LAMBDA b : b.kind = kind), LAMBDA b : b.text))

Tools(g) == SelectSeq(g.blocks, LAMBDA b : b.kind = "tool")

WireBody(g) ==
    [id |-> g.id, model |-> g.model, finish |-> g.stop, usage |-> g.usage,
     message |-> [content |-> Str(Texts(g, "text")), reasoning_content |-> Texts(g, "think"),
                  reasoning |-> <<>>,
                  calls |-> Collect(Tools(g), LAMBDA b : Block("function", b.text, b.id, b.name))]]

NoDelta == [finish |-> None, content |-> <<>>, reasoning_content |-> <<>>, reasoning |-> <<>>, calls |-> <<>>]

Chunk(g, choice, usage) ==
    [type |-> "", data |-> [id |-> g.id, model |-> g.model, choice |-> choice, usage |-> usage]]

WireHead(g) == <<Chunk(g, NoDelta, None)>>

\* The delta that opens a tool call carries its id and name, the others its arguments.
WireBlockEvents(g, i) ==
    LET b == g.blocks[i]
        Call(id, name, args) == [NoDelta EXCEPT !.calls = <<[index |-> i, id |-> id, name |-> name, args |-> args]>>]
    IN IF b.kind = "tool"
       THEN <<Chunk(g, Call(b.id, b.name, <<>>), None)>>
            \o Collect(b.text, LAMBDA t : Chunk(g, Call(None, None, <<t>>), None))
       ELSE Collect(b.text, LAMBDA t :
              Chunk(g, IF b.kind = "text" THEN [NoDelta EXCEPT !.content = <<t>>]
                       ELSE [NoDelta EXCEPT !.reasoning_content = <<t>>], None))

WireTail(g) ==
    <<Chunk(g, [NoDelta EXCEPT !.finish = g.stop], None), Chunk(g, None, g.usage), [type |-> "", data |-> None]>>

\* A client may drop the underscore of the tool ids it echoes.
Echo(g, style) ==
    LET Id(id) == IF style = "stripped" THEN [id EXCEPT !.underscore = FALSE] ELSE id IN
    <<Item("message", "assistant", Str(Texts(g, "text")),
        Collect(Tools(g), LAMBDA b : Block("function", b.text, Id(b.id), b.name)))>>

UserSays(text) == <<Item("message", "user", Str(text), <<>>)>>

ToolsReturn(g) == Collect(Tools(g), LAMBDA b : Item("message", "tool", Str(<<"r">>), <<>>))

WireRequest(base, system, items) ==
    [base EXCEPT !.messages =
        (IF IsSome(system) THEN <<Item("message", "system", Str(system), <<>>)>> ELSE <<>>) \o items]
=============================================================================
