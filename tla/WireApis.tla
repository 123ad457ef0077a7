------------------------------ MODULE WireApis ------------------------------
(***************************************************************************)
(* The registry of wire APIs, h-llm/src/wire_api_registry.rs and           *)
(* wire_apis/mod.rs: two-pass detection in registration order, and the     *)
(* dispatch of every extraction to the API detected.                       *)
(***************************************************************************)
EXTENDS LlmTypes

A == INSTANCE Anthropic
C == INSTANCE OpenAiChat
R == INSTANCE OpenAiResponses
G == INSTANCE GeminiAiStudio

ANTHROPIC == "anthropic"
OPENAI_CHAT == "openai-chat"
OPENAI_RESPONSES == "openai-responses"
GEMINI_AISTUDIO == "gemini-aistudio"

\* Registration order: the most restrictive shape first, Chat last.
build_default_wire_api_registry == <<ANTHROPIC, OPENAI_RESPONSES, GEMINI_AISTUDIO, OPENAI_CHAT>>

Apis == {ANTHROPIC, OPENAI_RESPONSES, GEMINI_AISTUDIO, OPENAI_CHAT}

classify_route(api, req) ==
    CASE api = ANTHROPIC -> A!classify_route(req)
      [] api = OPENAI_CHAT -> C!classify_route(req)
      [] api = OPENAI_RESPONSES -> R!classify_route(req)
      [] OTHER -> G!classify_route(req)

matches_shape(api, req) ==
    CASE api = ANTHROPIC -> A!matches_shape(req)
      [] api = OPENAI_CHAT -> C!matches_shape(req)
      [] api = OPENAI_RESPONSES -> R!matches_shape(req)
      [] OTHER -> G!matches_shape(req)

\* First the routes, in order; then the shapes of those that did not know.
detect(req) ==
    LET accepting == Find(build_default_wire_api_registry, LAMBDA p : classify_route(p, req) = "Accept")
        deferred == SelectSeq(build_default_wire_api_registry, LAMBDA p : classify_route(p, req) = "Unknown")
    IN IF IsSome(accepting) THEN accepting
       ELSE IF req.method # "POST" \/ ~req.json THEN None
       ELSE Find(deferred, LAMBDA p : matches_shape(p, req))

----------------------------------------------------------------------------
(* Dispatch.                                                               *)

extract_request(api, req) ==
    CASE api = ANTHROPIC -> A!extract_from_request(req)
      [] api = OPENAI_CHAT -> C!extract_request(req)
      [] api = OPENAI_RESPONSES -> R!extract_request(req)
      [] OTHER -> G!extract_request(req)

extract_response(api, resp) ==
    CASE api = ANTHROPIC -> A!extract_from_response(resp)
      [] api = OPENAI_CHAT -> C!extract_response(resp)
      [] api = OPENAI_RESPONSES -> R!extract_response(resp)
      [] OTHER -> G!extract_response(resp)

extract_sse(api, events) ==
    CASE api = ANTHROPIC -> A!extract_from_sse(events)
      [] api = OPENAI_CHAT -> C!extract_sse(events)
      [] api = OPENAI_RESPONSES -> R!extract_sse(events)
      [] OTHER -> G!extract_sse(events)

is_terminal(api, reason) ==
    CASE api = ANTHROPIC -> A!is_terminal(reason)
      [] api = OPENAI_CHAT -> C!is_terminal(reason)
      [] api = OPENAI_RESPONSES -> R!is_terminal(reason)
      [] OTHER -> G!is_terminal(reason)

is_tool_use(api, reason) ==
    CASE api = ANTHROPIC -> A!is_tool_use(reason)
      [] api = OPENAI_CHAT -> C!is_tool_use(reason)
      [] api = OPENAI_RESPONSES -> R!is_tool_use(reason)
      [] OTHER -> G!is_tool_use(reason)

first_user_text(api, body) ==
    CASE api = ANTHROPIC -> A!first_user_text(body)
      [] api = OPENAI_CHAT -> C!first_user_text(body)
      [] api = OPENAI_RESPONSES -> R!first_user_text(body.input)
      [] OTHER -> G!first_user_text(body)

sig_in_request(api, body) ==
    CASE api = ANTHROPIC -> A!first_assistant_sig_from_request(body)
      [] api = OPENAI_CHAT -> C!first_assistant_sig_from_request(body)
      [] api = OPENAI_RESPONSES -> R!first_assistant_sig_from_input(body.input)
      [] OTHER -> G!first_assistant_sig_from_request(body)

sig_in_response(api, resp) ==
    CASE api = ANTHROPIC -> A!first_assistant_sig_from_response(resp)
      [] api = OPENAI_CHAT -> C!first_assistant_sig_from_response(resp)
      [] api = OPENAI_RESPONSES -> R!first_assistant_sig_from_response(resp)
      [] OTHER -> G!first_assistant_sig_from_response(resp)

is_user_turn_start(api, body) ==
    CASE api = ANTHROPIC -> A!is_user_turn_start(body)
      [] api = OPENAI_CHAT -> C!is_user_turn_start(body)
      [] api = OPENAI_RESPONSES -> R!is_user_turn_start(body)
      [] OTHER -> G!is_user_turn_start(body)

extract_user_input(api, body) ==
    CASE api = ANTHROPIC -> A!extract_user_input(body)
      [] api = OPENAI_CHAT -> C!extract_user_input(body)
      [] api = OPENAI_RESPONSES -> R!extract_user_input(body)
      [] OTHER -> G!extract_user_input(body)

extract_assistant_text(api, resp) ==
    CASE api = ANTHROPIC -> A!extract_assistant_text(resp)
      [] api = OPENAI_CHAT -> C!extract_assistant_text(resp)
      [] api = OPENAI_RESPONSES -> R!extract_assistant_text(resp)
      [] OTHER -> G!extract_assistant_text(resp)

tool_names(api, body) ==
    CASE api = ANTHROPIC -> A!tool_names(body)
      [] api = OPENAI_CHAT -> C!tool_names(body)
      [] api = OPENAI_RESPONSES -> R!tool_names(body)
      [] OTHER -> <<>>

first_system_text(api, body) ==
    CASE api = ANTHROPIC -> A!first_system_text(body)
      [] api = OPENAI_CHAT -> C!first_system_text(body)
      [] api = OPENAI_RESPONSES -> R!first_system_text(body)
      [] OTHER -> G!first_system_text(body)

\* Gemini responses are never estimated.
estimate(api, body, resp) ==
    CASE api = ANTHROPIC -> <<A!estimate_input_tokens(body), A!estimate_output_tokens(resp)>>
      [] api = OPENAI_CHAT -> <<C!estimate_input_tokens(body), C!estimate_output_tokens(resp)>>
      [] api = OPENAI_RESPONSES -> <<R!estimate_input_tokens(body), R!estimate_output_tokens(resp)>>
      [] OTHER -> <<0, 0>>

----------------------------------------------------------------------------
(* External: clients and servers.                                          *)

CanonicalPath(api) ==
    CASE api = ANTHROPIC -> "/v1/messages"
      [] api = OPENAI_CHAT -> "/v1/chat/completions"
      [] api = OPENAI_RESPONSES -> "/v1/responses"
      [] OTHER -> "/v1beta/models/m:generateContent"

WireBody(api, g) ==
    CASE api = ANTHROPIC -> A!WireBody(g)
      [] api = OPENAI_CHAT -> C!WireBody(g)
      [] api = OPENAI_RESPONSES -> R!WireBody(g)
      [] OTHER -> G!WireBody(g)

WireHead(api, g) ==
    CASE api = ANTHROPIC -> A!WireHead(g)
      [] api = OPENAI_CHAT -> C!WireHead(g)
      [] api = OPENAI_RESPONSES -> R!WireHead(g)
      [] OTHER -> G!WireHead(g)

WireBlockEvents(api, g, i) ==
    CASE api = ANTHROPIC -> A!WireBlockEvents(g, i)
      [] api = OPENAI_CHAT -> C!WireBlockEvents(g, i)
      [] api = OPENAI_RESPONSES -> R!WireBlockEvents(g, i)
      [] OTHER -> G!WireBlockEvents(g, i)

WireTail(api, g) ==
    CASE api = ANTHROPIC -> A!WireTail(g)
      [] api = OPENAI_CHAT -> C!WireTail(g)
      [] api = OPENAI_RESPONSES -> R!WireTail(g)
      [] OTHER -> G!WireTail(g)

Echo(api, g, style) ==
    CASE api = ANTHROPIC -> A!Echo(g, style)
      [] api = OPENAI_CHAT -> C!Echo(g, style)
      [] api = OPENAI_RESPONSES -> R!Echo(g, style)
      [] OTHER -> G!Echo(g, style)

UserSays(api, text) ==
    CASE api = ANTHROPIC -> A!UserSays(text)
      [] api = OPENAI_CHAT -> C!UserSays(text)
      [] api = OPENAI_RESPONSES -> R!UserSays(text)
      [] OTHER -> G!UserSays(text)

ToolsReturn(api, g) ==
    CASE api = ANTHROPIC -> A!ToolsReturn(g)
      [] api = OPENAI_CHAT -> C!ToolsReturn(g)
      [] api = OPENAI_RESPONSES -> R!ToolsReturn(g)
      [] OTHER -> G!ToolsReturn(g)

EmptyBody ==
    [model |-> "m", stream |-> FALSE, messages |-> None, input |-> None, contents |-> None,
     request |-> None, system |-> None, stop_sequences |-> None, tools |-> None,
     instructions |-> None, systemInstruction |-> None]

WireRequest(api, base, system, items) ==
    CASE api = ANTHROPIC -> A!WireRequest(base, system, items)
      [] api = OPENAI_CHAT -> C!WireRequest(base, system, items)
      [] api = OPENAI_RESPONSES -> R!WireRequest(base, system, items)
      [] OTHER -> G!WireRequest(base, system, items)
=============================================================================
