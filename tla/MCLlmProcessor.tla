--------------------------- MODULE MCLlmProcessor ---------------------------
(* A client of every profile and API; four shapes of an answer.            *)
EXTENDS LlmProcessor

Client(api, ua, style) ==
    [api |-> api, ua |-> ua, session |-> None, affinity |-> None, originator |-> None, subagent |-> None,
     meta |-> None, tools |-> <<"bash">>, system |-> <<"agent-loop">>, style |-> style,
     key |-> "none", bearer |-> "sk", headers |-> {}]

Claude == [Client(ANTHROPIC, "claude-cli/", "array") EXCEPT !.headers = {"anthropic-version"}, !.bearer = "sk-ant"]

MCClients ==
    {[Claude EXCEPT !.session = "s"], Claude,
     [Claude EXCEPT !.ua = "sdk/", !.key = "sk-ant", !.bearer = "none"],
     [Client(OPENAI_RESPONSES, "codex-tui/", "array") EXCEPT !.meta = "s"],
     Client(OPENAI_RESPONSES, "sdk/", "stripped"),
     [Client(OPENAI_CHAT, "opencode/", "array") EXCEPT !.affinity = "s"],
     Client(OPENAI_CHAT, "sdk/", "stripped"),
     [Client(OPENAI_CHAT, "sdk/", "array") EXCEPT !.tools = <<"sessions_spawn", "subagents">>],
     [Client(OPENAI_RESPONSES, "sdk/", "array") EXCEPT !.tools = <<"skill_view", "cronjob">>],
     Client(GEMINI_AISTUDIO, "sdk/", "array")}

Shape(kinds, usage, bare) == [kinds |-> kinds, usage |-> usage, bare |-> bare, cut |-> FALSE]

MCShapes ==
    {Shape(<<"text">>, TRUE, FALSE),
     Shape(<<"think", "tool">>, TRUE, TRUE),
     Shape(<<"text", "tool">>, FALSE, TRUE),
     Shape(<<"tool", "tool">>, TRUE, FALSE)}
=============================================================================
