-------------------------- MODULE OpenAiResponses ---------------------------
(***************************************************************************)
(* The OpenAI Responses API, h-llm/src/wire_apis/openai/responses.rs.  A   *)
(* request's input and a response's output are sequences of typed items.   *)
(***************************************************************************)
EXTENDS LlmTypes

has_bearer_auth(req) == req.bearer # "none"

is_anthropic_request(req) == "anthropic-version" \in req.headers \/ req.bearer = "sk-ant"

classify_route(req) ==
    IF req.method # "POST" \/ is_anthropic_request(req) THEN "Reject"
    ELSE IF req.path = "/v1/responses" /\ has_bearer_auth(req) THEN "Accept"
    ELSE "Unknown"

matches_shape(req) ==
    IsSome(req.body.model) /\ IsSome(req.body.input) /\ req.body.messages = None

is_terminal(reason) == reason \in {"completed", "incomplete", "failed", "cancelled"}

\* Tool use shows in the output items, never in the status.
is_tool_use(reason) == FALSE

extract_request(req) ==
    [model |-> Or(req.body.model, "unknown"), is_stream |-> req.body.stream = TRUE]

\* resp: [id, model, status, usage, output]
extract_response(resp) ==
    LET u == Get(resp, "usage") IN
    ResponseInfo(Get(resp, "id"), Get(resp, "model"), Get(resp, "status"),
                 IF IsSome(u) THEN [u EXCEPT !.cache_creation = None] ELSE NoUsage, resp)

----------------------------------------------------------------------------
(* Streaming.                                                              *)

Sse0 == [id |-> None, model |-> None, finish |-> None, usage |-> NoUsage, items |-> <<>>, body |-> None]

OverUsage(old, u) ==
    IF u = None THEN old
    ELSE [old EXCEPT !.input = Or(u.input, @), !.output = Or(u.output, @), !.total = Or(u.total, @),
                     !.cache_read = Or(u.cache_read, @)]

\* The accumulated items, when the completed response carries none itself.
Graft(resp, items) ==
    IF (resp.output = None \/ resp.output = <<>>) /\ items # <<>> THEN [resp EXCEPT !.output = items]
                                                                 ELSE resp

SseStep(acc, ev) ==
    CASE ev.data = None -> acc
      [] ev.type = "response.created" ->
            [acc EXCEPT !.id = Or(@, ev.data.response.id), !.model = Or(@, ev.data.response.model)]
      [] ev.type = "response.output_item.done" -> [acc EXCEPT !.items = Append(@, ev.data.item)]
      [] ev.type = "response.completed" ->
            LET r == ev.data.response IN
            [acc EXCEPT !.id = Or(r.id, @), !.model = Or(r.model, @), !.finish = Or(r.status, @),
                        !.usage = OverUsage(@, r.usage), !.body = Graft(r, acc.items)]
      [] OTHER -> acc

extract_sse(events) ==
    LET acc == FoldLeft(SseStep, Sse0, events) IN
    ResponseInfo(acc.id, acc.model, acc.finish, acc.usage, acc.body)

\* The answer is final: a message and no call that the agent still has to run.
body_has_terminal_message_only(resp) ==
    LET output == IF resp.output = None THEN <<>> ELSE resp.output IN
    /\ \A i \in 1..Len(output) : output[i].type \notin {"function_call", "custom_tool_call", "local_shell_call"}
    /\ \E i \in 1..Len(output) : output[i].type = "message"

----------------------------------------------------------------------------
(* Body shape parsers.                                                     *)

tool_names(body) == IF IsSome(body.tools) THEN body.tools ELSE <<>>

message_text(it) ==
    IF it.content.kind = "string" THEN NonBlank(it.content.text)
    ELSE IF OfType(it.content.blocks, {"text", "input_text", "output_text"}) = <<>> THEN None
    ELSE Lines(TextsOf(it.content.blocks, {"text", "input_text", "output_text"}))

IsMessage(it, roles) == it.type = "message" /\ it.role \in roles

first_system_text(body) ==
    LET m == Find(body.input, LAMBDA x : IsMessage(x, {"system", "developer"}) /\ IsSome(message_text(x))) IN
    Or(NonBlank(body.instructions), IF IsSome(m) THEN message_text(m) ELSE None)

first_user_text(items) ==
    LET m == Find(items, LAMBDA x : IsMessage(x, {"user"})) IN
    IF IsSome(m) THEN message_text(m) ELSE None

\* The earliest call id, else the earliest assistant text.
scan_generation_for_sig(items) ==
    LET call == Find(items, LAMBDA x : x.type = "function_call" /\ IsSome(x.calls[1].id))
        said == Find(items, LAMBDA x : IsMessage(x, {"assistant"}) /\ IsSome(message_text(x)))
    IN IF IsSome(call) THEN ToolId(call.calls[1].id)
       ELSE IF IsSome(said) THEN TextSig(message_text(said)) ELSE None

\* The first index in lo..hi whose item satisfies P, else hi + 1
Position(items, lo, hi, P(_)) ==
    IF \E i \in lo..hi : P(items[i])
    THEN CHOOSE i \in lo..hi : P(items[i]) /\ \A j \in lo..(i - 1) : ~P(items[j])
    ELSE hi + 1

\* The first generation: after the leading run of user messages, up to the
\* first tool output or the next user message.
first_assistant_sig_from_input(items) ==
    LET IsUser(it) == IsMessage(it, {"user"})
        n == Len(items)
        user == Position(items, 1, n, IsUser)
        start == IF user > n THEN 1 ELSE Position(items, user, n, LAMBDA x : ~IsUser(x))
        turn_end == Position(items, start, n, IsUser)
        generation_end == Position(items, start, turn_end - 1, LAMBDA x : x.type = "function_call_output")
    IN scan_generation_for_sig(SubSeq(items, start, generation_end - 1))

first_assistant_sig_from_response(resp) ==
    IF resp.output = None THEN None ELSE scan_generation_for_sig(resp.output)

extract_user_input(body) ==
    LET m == Find(Reverse(body.input), LAMBDA x : IsMessage(x, {"user"}) /\ IsSome(message_text(x))) IN
    IF IsSome(m) THEN message_text(m) ELSE None

is_user_turn_start(body) ==
    IF body.input = <<>> THEN None
    ELSE IsMessage(Last(body.input), {"user"}) /\ IsSome(message_text(Last(body.input)))

extract_assistant_text(resp) ==
    LET m == Find(resp.output, LAMBDA x : x.type = "message" /\ IsSome(message_text(x))) IN
    IF IsSome(m) THEN message_text(m) ELSE None

estimate_input_tokens(body) ==
    (IF IsSome(body.instructions) THEN count_text(body.instructions) ELSE 0)
    + SumOf(Collect(body.input, LAMBDA it :
          CountMessage(it, {"text", "input_text", "output_text", "output"}, {})))
    + CountTools(body.tools)

estimate_output_tokens(resp) ==
    IF resp.output = None THEN 0 ELSE count_text(collect_responses_output_text(resp.output))

----------------------------------------------------------------------------
(* External: what a client and a server of this API put on the wire.       *)

WireItem(b) ==
    CASE b.kind = "think" -> Item("reasoning", None, Arr(<<Block("summary", b.text, None, None)>>), <<>>)
      [] b.kind = "text" -> Item("message", "assistant", Arr(<<Block("output_text", b.text, None, None)>>), <<>>)
      [] OTHER -> Item("function_call", None, Arr(<<>>), <<Block("call", b.text, b.id, b.name)>>)

WireBody(g) ==
    [id |-> g.id, model |-> g.model, status |-> g.stop, usage |-> g.usage,
     output |-> Collect(g.blocks, WireItem)]

Ev(type, data) == [type |-> type, data |-> data]

WireHead(g) == <<Ev("response.created", [response |-> [id |-> g.id, model |-> g.model]])>>

WireBlockEvents(g, i) ==
    Collect(g.blocks[i].text, LAMBDA t : Ev("response.output_text.delta", [item |-> None]))
    \o <<Ev("response.output_item.done", [item |-> WireItem(g.blocks[i])])>>

\* Codex's backend leaves the output of the last event empty.  The event is
\* named after the status.
WireTail(g) ==
    <<Ev(IF g.stop = "completed" THEN "response.completed" ELSE "response.incomplete",
         [response |-> [WireBody(g) EXCEPT !.output = IF g.bare THEN <<>> ELSE @]])>>

Echo(g, style) ==
    LET Strip(it) == IF style = "stripped" /\ it.type = "function_call"
                     THEN [it EXCEPT !.calls[1].id.underscore = FALSE] ELSE it
    IN Collect(Collect(g.blocks, WireItem), Strip)

UserSays(text) == <<Item("message", "user", Arr(<<Block("input_text", text, None, None)>>), <<>>)>>

ToolsReturn(g) ==
    Collect(SelectSeq(g.blocks, LAMBDA b : b.kind = "tool"),
            LAMBDA b : Item("function_call_output", None, Arr(<<Block("output", <<"r">>, b.id, None)>>), <<>>))

WireRequest(base, system, items) == [base EXCEPT !.input = items, !.instructions = system]
=============================================================================
