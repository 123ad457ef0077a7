--------------------------- MODULE GeminiAiStudio ---------------------------
(***************************************************************************)
(* The Gemini AI Studio API, h-llm/src/wire_apis/gemini_aistudio.rs.  A    *)
(* part is a block of type "text", "thought" (a text with thought: true),  *)
(* "functionCall", "inlineData" or "functionResponse".                     *)
(***************************************************************************)
EXTENDS LlmTypes

classify_route(req) ==
    IF req.method # "POST" THEN "Reject"
    ELSE IF req.path = "/v1beta/models/m:generateContent" THEN "Accept"
    ELSE "Unknown"

matches_shape(req) ==
    LET body == req.body IN
    /\ body.messages = None /\ body.input = None /\ body.request = None
    /\ IsSome(body.contents) /\ body.contents # <<>>

is_terminal(reason) ==
    reason \in {"STOP", "MAX_TOKENS", "SAFETY", "RECITATION", "LANGUAGE", "BLOCKLIST", "PROHIBITED_CONTENT",
                "SPII", "MALFORMED_FUNCTION_CALL", "IMAGE_SAFETY", "OTHER", "TOOL_USE"}

is_tool_use(reason) == reason = "TOOL_USE"

\* The model and the verb are parts of the path, not of the body.
extract_request(req) ==
    [model |-> IF req.path = "/v1beta/models/m:generateContent" THEN "m" ELSE "unknown",
     is_stream |-> req.path = "/v1beta/models/m:generateContent" /\ req.body.stream = TRUE]

\* The protocol has no tool-use reason of its own.
synthesize_finish_reason(raw, has_function_call) ==
    IF raw = "STOP" /\ has_function_call THEN "TOOL_USE" ELSE raw

extract_usage(u) == IF IsSome(u) THEN [u EXCEPT !.cache_creation = None] ELSE NoUsage

\* resp: [id, model, candidates, usage], candidates of [index, finish, parts]
extract_response(resp) ==
    LET cand == IF IsSome(resp) THEN First(resp.candidates) ELSE None
        calls == IsSome(cand) /\ OfType(cand.parts, {"functionCall"}) # <<>>
    IN ResponseInfo(Get(resp, "id"), Get(resp, "model"),
           synthesize_finish_reason(Get(cand, "finish"), calls), extract_usage(Get(resp, "usage")), resp)

----------------------------------------------------------------------------
(* Streaming: chunks [id, model, usage, candidates].                       *)

Sse0 == [id |-> None, model |-> None, usage |-> None, any |-> FALSE, candidates |-> <<>>]

PartialCandidate(idx) ==
    [index |-> idx, finish |-> None, text |-> <<>>, thought |-> <<>>, discrete |-> <<>>]

accumulate_part(entry, p) ==
    CASE p.type = "thought" -> [entry EXCEPT !.thought = @ \o p.text]
      [] p.type = "text" -> [entry EXCEPT !.text = @ \o p.text]
      [] OTHER -> [entry EXCEPT !.discrete = Append(@, p)]

AddCandidate(cands, c) ==
    LET was == Or(Find(cands, LAMBDA x : x.index = c.index), PartialCandidate(c.index))
        now == FoldLeft(accumulate_part, [was EXCEPT !.finish = Or(c.finish, @)], c.parts)
    IN Append(SelectSeq(cands, LAMBDA x : x.index < c.index), now)
       \o SelectSeq(cands, LAMBDA x : x.index > c.index)

\* Ids, model and the cumulative usage: the last one wins.
SseChunk(acc, ev) ==
    IF ev.data = None THEN acc
    ELSE [acc EXCEPT !.any = TRUE, !.id = Or(ev.data.id, @), !.model = Or(ev.data.model, @),
            !.usage = Or(ev.data.usage, @), !.candidates = FoldLeft(AddCandidate, @, ev.data.candidates)]

\* Thoughts, then texts, then everything else.
finalize_candidate(p) ==
    [index |-> p.index, finish |-> p.finish,
     parts |-> (IF p.thought = <<>> THEN <<>> ELSE <<Block("thought", p.thought, None, None)>>)
               \o (IF p.text = <<>> THEN <<>> ELSE <<Block("text", p.text, None, None)>>)
               \o p.discrete]

build_response_body(events) ==
    LET acc == FoldLeft(SseChunk, Sse0, events) IN
    IF ~acc.any THEN None
    ELSE [id |-> acc.id, model |-> acc.model, usage |-> acc.usage,
          candidates |-> Collect(acc.candidates, finalize_candidate)]

extract_sse(events) == extract_response(build_response_body(events))

----------------------------------------------------------------------------
(* Body shape parsers.                                                     *)

visible_text_of_parts(parts) == Concat(TextsOf(parts, {"text"}))

\* canonical_json: equal argument objects give equal texts whatever their key order
canonical_json(args) == args

PartSeg(p) ==
    CASE p.type = "text" -> <<"t", p.text>>
      [] p.type = "functionCall" -> IF IsSome(p.id) THEN <<"f", p.id>> ELSE <<"f/", p.name, canonical_json(p.text)>>
      [] p.type = "inlineData" -> <<"d", Len(p.text)>>
      [] OTHER -> <<"?", p>>

Segments(parts) == Collect(SelectSeq(parts, LAMBDA p : p.type # "thought"), PartSeg)

\* A text-only turn keeps its text, a turn with calls becomes a hashed tool id.
parts_sig(parts) ==
    LET segs == Segments(parts) IN
    IF segs = <<>> THEN None
    ELSE IF \A i \in 1..Len(parts) : parts[i].type \in {"text", "thought"} THEN TextSig(segs)
    ELSE ToolId([prefix |-> "tu-", underscore |-> FALSE, body |-> segs])

first_user_text(body) ==
    LET c == Find(body.contents, LAMBDA x : x.role = "user") IN
    IF IsSome(c) THEN NonBlank(Lines(TextsOf(c.content.blocks, {"text", "thought"}))) ELSE None

first_system_text(body) == NonBlank(body.systemInstruction)

first_assistant_sig_from_request(body) ==
    LET c == Find(body.contents, LAMBDA x : x.role = "model") IN
    IF IsSome(c) THEN parts_sig(c.content.blocks) ELSE None

first_assistant_sig_from_response(resp) ==
    IF resp.candidates = <<>> THEN None ELSE parts_sig(resp.candidates[1].parts)

OnlyReturns(parts) == parts # <<>> /\ \A i \in 1..Len(parts) : parts[i].type = "functionResponse"

extract_user_input(body) ==
    LET c == Find(Reverse(body.contents), LAMBDA x :
                 /\ x.role = "user"
                 /\ ~OnlyReturns(x.content.blocks)
                 /\ IsSome(NonBlank(Lines(TextsOf(x.content.blocks, {"text", "thought"})))))
    IN IF IsSome(c) THEN Lines(TextsOf(c.content.blocks, {"text", "thought"})) ELSE None

is_user_turn_start(body) ==
    IF body.contents = <<>> THEN None
    ELSE LET c == Last(body.contents) IN
         /\ c.role = "user"
         /\ \E i \in 1..Len(c.content.blocks) :
                LET p == c.content.blocks[i] IN
                \/ p.type \in {"text", "thought"} /\ ~Blank(p.text)
                \/ p.type = "inlineData"

extract_assistant_text(resp) ==
    IF resp.candidates = <<>> THEN None ELSE NonBlank(visible_text_of_parts(resp.candidates[1].parts))

----------------------------------------------------------------------------
(* External: what a client and a server of this API put on the wire.       *)

WirePart(b) ==
    Block(CASE b.kind = "think" -> "thought" [] b.kind = "text" -> "text" [] OTHER -> "functionCall",
          b.text, b.id, b.name)

WireBody(g) ==
    [id |-> g.id, model |-> g.model, usage |-> g.usage,
     candidates |-> <<[index |-> 0, finish |-> g.stop, parts |-> Collect(g.blocks, WirePart)]>>]

Chunk(g, finish, parts, usage) ==
    [type |-> "", data |-> [id |-> g.id, model |-> g.model, usage |-> usage,
        candidates |-> <<[index |-> 0, finish |-> finish, parts |-> parts]>>]]

WireHead(g) == <<>>

\* Texts come in fragments, calls whole.
WireBlockEvents(g, i) ==
    LET b == WirePart(g.blocks[i]) IN
    IF b.type = "functionCall" THEN <<Chunk(g, None, <<b>>, None)>>
    ELSE Collect(b.text, LAMBDA t : Chunk(g, None, <<[b EXCEPT !.text = <<t>>]>>, None))

WireTail(g) == <<Chunk(g, g.stop, <<>>, g.usage)>>

\* Thoughts are not echoed.
Echo(g, style) ==
    <<Item("content", "model", Arr(SelectSeq(Collect(g.blocks, WirePart), LAMBDA p : p.type # "thought")), <<>>)>>

UserSays(text) == <<Item("content", "user", Arr(<<Block("text", text, None, None)>>), <<>>)>>

ToolsReturn(g) ==
    <<Item("content", "user", Arr(Collect(SelectSeq(g.blocks, LAMBDA b : b.kind = "tool"),
        LAMBDA b : Block("functionResponse", <<"r">>, b.id, b.name))), <<>>)>>

WireRequest(base, system, items) == [base EXCEPT !.contents = items, !.systemInstruction = system]
=============================================================================
