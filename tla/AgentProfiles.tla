--------------------------- MODULE AgentProfiles ----------------------------
(***************************************************************************)
(* The agent profiles of h-llm/src/agents and the classifier: which client *)
(* a call belongs to, its session id, whether it starts or ends a turn.    *)
(* A call context is [api, ua, session, affinity, originator, subagent,    *)
(* meta, req, resp, finish]; req and resp are parsed bodies or None.       *)
(***************************************************************************)
EXTENDS WireApis

OPENCLAW_MARKERS == {"sessions_spawn", "sessions_yield", "subagents", "sessions_list",
                     "sessions_history", "sessions_send", "session_status"}

HERMES_MARKERS == {"skill_view", "skill_manage", "skills_list", "delegate_task",
                   "session_search", "cronjob"}

MARKER_HITS_REQUIRED == 2

\* The conversation's anchor in the request's history, else in this response.
Anchor(ctx) ==
    Or(sig_in_request(ctx.api, ctx.req),
       IF ctx.resp = None THEN None ELSE sig_in_response(ctx.api, ctx.resp))

HasUserText(ctx) == IsSome(ctx.req) /\ IsSome(first_user_text(ctx.api, ctx.req))

SessionFrom(ctx, sig) ==
    IF IsSome(sig) THEN compose_session_id(first_user_text(ctx.api, ctx.req), sig) ELSE None

SessionOf(ctx) == IF HasUserText(ctx) THEN SessionFrom(ctx, Anchor(ctx)) ELSE None

\* Only a tool call anchors a session; text-only traffic does not.
ToolSig(sig) == IF IsSome(sig) /\ sig.sig = "tool" THEN sig ELSE None

extract_tool_anchored_sig(ctx) == IF HasUserText(ctx) THEN ToolSig(Anchor(ctx)) ELSE None

\* Claude Code's copy of the same rule, for the Anthropic API.
anthropic_tool_anchor(ctx) == extract_tool_anchored_sig(ctx)

HeaderSession(value) == [by |-> "header", of |-> value]

Hits(names, markers) == Cardinality({names[i] : i \in 1..Len(names)} \cap markers)

----------------------------------------------------------------------------
(* matches, in the order of build_default_registry.                        *)

claude_cli_matches(ctx) ==
    /\ ctx.api = ANTHROPIC
    /\ ctx.ua = "claude-cli/"
    /\ IsSome(ctx.session) \/ IsSome(anthropic_tool_anchor(ctx))

codex_cli_matches(ctx) ==
    /\ ctx.api = OPENAI_RESPONSES
    /\ ctx.originator = "codex_cli_rs" \/ ctx.ua \in {"codex_cli_rs/", "codex-tui/", "codex_exec/"}
    /\ IsSome(ctx.meta)

opencode_matches(ctx) ==
    ctx.api = OPENAI_CHAT /\ ctx.ua = "opencode/" /\ IsSome(ctx.affinity)

SummarizerPrompt(text) == IsSome(text) /\ text # <<>> /\ text[1] = "summarizer"

openclaw_matches(ctx) ==
    /\ ctx.api \in {ANTHROPIC, OPENAI_CHAT, OPENAI_RESPONSES}
    /\ IsSome(ctx.req)
    /\ LET names == tool_names(ctx.api, ctx.req) IN
       \/ Hits(names, OPENCLAW_MARKERS) >= MARKER_HITS_REQUIRED
       \/ names = <<>> /\ SummarizerPrompt(first_system_text(ctx.api, ctx.req))

hermes_matches(ctx) ==
    /\ ctx.api \in {ANTHROPIC, OPENAI_CHAT, OPENAI_RESPONSES}
    /\ IsSome(ctx.req)
    /\ Hits(tool_names(ctx.api, ctx.req), HERMES_MARKERS) >= MARKER_HITS_REQUIRED

generic_matches(ctx) == IsSome(extract_tool_anchored_sig(ctx))

build_default_registry == <<"claude-cli", "codex-cli", "opencode", "openclaw", "hermes", "generic">>

matches(profile, ctx) ==
    CASE profile = "claude-cli" -> claude_cli_matches(ctx)
      [] profile = "codex-cli" -> codex_cli_matches(ctx)
      [] profile = "opencode" -> opencode_matches(ctx)
      [] profile = "openclaw" -> openclaw_matches(ctx)
      [] profile = "hermes" -> hermes_matches(ctx)
      [] OTHER -> generic_matches(ctx)

\* AgentProfileRegistry::find: the first that matches
find(ctx) == Find(build_default_registry, LAMBDA p : matches(p, ctx))

----------------------------------------------------------------------------
(* extract_session_id and the turn predicates of the matching profile.     *)

\* Without its header Claude Code is known by the tool call it was matched on.
claude_cli_session(ctx) ==
    IF IsSome(ctx.session) THEN HeaderSession(ctx.session) ELSE SessionFrom(ctx, anthropic_tool_anchor(ctx))

\* parse_turn_metadata fails on a header that is not JSON.
codex_cli_session(ctx) == IF ctx.meta = "garbled" THEN None ELSE HeaderSession(ctx.meta)

opencode_session(ctx) == HeaderSession(ctx.affinity)

openclaw_session(ctx) == SessionOf(ctx)

hermes_session(ctx) == SessionOf(ctx)

generic_session(ctx) == SessionFrom(ctx, extract_tool_anchored_sig(ctx))

extract_session_id(profile, ctx) ==
    CASE profile = "claude-cli" -> claude_cli_session(ctx)
      [] profile = "codex-cli" -> codex_cli_session(ctx)
      [] profile = "opencode" -> opencode_session(ctx)
      [] profile = "openclaw" -> openclaw_session(ctx)
      [] profile = "hermes" -> hermes_session(ctx)
      [] OTHER -> generic_session(ctx)

\* Deviation: reminders count as the user's words.
strip_system_reminders_Never(text) == text

\* Claude Code wraps its own notices in the user's texts.
strip_system_reminders(text) == SelectSeq(text, LAMBDA t : t # "<system-reminder>")

claude_is_user_turn_start(body) ==
    LET Strip(m) == [m EXCEPT !.content.text = strip_system_reminders(@),
                              !.content.blocks = Collect(@, LAMBDA b :
                                  IF b.type = "text" THEN [b EXCEPT !.text = strip_system_reminders(@)] ELSE b)]
    IN A!is_user_turn_start([body EXCEPT !.messages = Collect(@, Strip)])

codex_is_user_turn_start(body) ==
    IF body.input = <<>> THEN None
    ELSE LET last == Last(body.input) IN
         IF last.type = "message" THEN last.role = "user"
         ELSE IF last.type \in {"function_call_output", "reasoning", "function_call"} THEN FALSE ELSE None

turn_start(profile, ctx) ==
    CASE ctx.req = None -> None
      [] profile = "claude-cli" -> claude_is_user_turn_start(ctx.req)
      [] profile = "codex-cli" -> codex_is_user_turn_start(ctx.req)
      [] OTHER -> is_user_turn_start(ctx.api, ctx.req)

\* The trait's default: the finish reason decides.
ByReason(ctx) ==
    /\ IsSome(ctx.finish)
    /\ is_terminal(ctx.api, ctx.finish)
    /\ ~is_tool_use(ctx.api, ctx.finish)

\* The status of a Responses call says nothing of pending tools: its output does.
codex_cli_terminal(ctx) == IsSome(ctx.resp) /\ R!body_has_terminal_message_only(ctx.resp)

generic_terminal(ctx) ==
    IF ctx.api = OPENAI_RESPONSES THEN IsSome(ctx.resp) /\ R!body_has_terminal_message_only(ctx.resp)
                                  ELSE ByReason(ctx)

openclaw_terminal(ctx) == generic_terminal(ctx)

hermes_terminal(ctx) == generic_terminal(ctx)

is_turn_terminal(profile, ctx) ==
    CASE profile \in {"claude-cli", "opencode"} -> ByReason(ctx)
      [] profile = "codex-cli" -> codex_cli_terminal(ctx)
      [] profile = "openclaw" -> openclaw_terminal(ctx)
      [] profile = "hermes" -> hermes_terminal(ctx)
      [] OTHER -> generic_terminal(ctx)

looks_like_subagent(body) ==
    IsSome(body.tools) /\ body.tools # <<>> /\ \A i \in 1..Len(body.tools) : body.tools[i] # "Agent"

is_security_monitor(body) == IsSome(body.system) /\ body.system # <<>> /\ body.system[1] = "security-monitor"

subagent(profile, ctx) ==
    CASE profile = "claude-cli" /\ IsSome(ctx.req) -> IF looks_like_subagent(ctx.req) THEN "task" ELSE None
      [] profile = "codex-cli" -> ctx.subagent
      [] OTHER -> None

\* A one-shot outside the conversation: the security monitor, or tools: [].
claude_cli_auxiliary(body) == is_security_monitor(body) \/ body.tools = <<>>

\* Under openclaw_matches only the summarizer has no tools.
openclaw_auxiliary(ctx) == tool_names(ctx.api, ctx.req) = <<>>

is_auxiliary(profile, ctx) ==
    CASE ctx.req = None -> FALSE
      [] profile = "claude-cli" -> claude_cli_auxiliary(ctx.req)
      [] profile = "openclaw" -> openclaw_auxiliary(ctx)
      [] OTHER -> FALSE

----------------------------------------------------------------------------
(* extract_primitives and the classifier.                                  *)

Members(seq) == IF IsSome(seq) THEN seq ELSE <<>>

ToolUseBlocks(body) == Concat(Collect(Members(body.messages), LAMBDA m : OfType(m.content.blocks, {"tool_use"})))
ToolCalls(body) == Concat(Collect(Members(body.messages), LAMBDA m : m.calls))
FunctionCalls(body) == Concat(Collect(Members(body.input), LAMBDA m : m.calls))

\* The atoms of the system prompts: the top-level one, the messages of a role.
TopPrompt(body) == IF IsSome(body.system) THEN ToSet(body.system) ELSE {}
PromptsOf(msgs, roles) ==
    UNION {ToSet(m.content.text \o Concat(Collect(m.content.blocks, LAMBDA b : b.text))) :
               m \in {x \in ToSet(Members(msgs)) : x.role \in roles}}

Primitives(calls, offered, prompt) ==
    [tool_call_count |-> Len(calls),
     tool_names |-> {calls[i].name : i \in 1..Len(calls)} \cup ToSet(offered),
     agent_loop |-> "agent-loop" \in prompt, mcp_server |-> "mcp-server" \in prompt,
     dispatches |-> FALSE]

claude_cli_primitives(body) ==
    LET p == Primitives(ToolUseBlocks(body), <<>>, TopPrompt(body))
    IN [p EXCEPT !.dispatches = "Task" \in p.tool_names]

codex_cli_primitives(body) ==
    Primitives(FunctionCalls(body), <<>>, PromptsOf(body.input, {"system", "developer"}))

opencode_primitives(body) ==
    Primitives(ToolCalls(body), Members(body.tools), PromptsOf(body.messages, {"system"}))

openclaw_primitives(body) ==
    Primitives(ToolUseBlocks(body) \o ToolCalls(body) \o FunctionCalls(body), Members(body.tools), TopPrompt(body))

\* Reads Chat's tool_calls whatever the API of the call is.
hermes_primitives(body) ==
    [Primitives(ToolCalls(body), Members(body.tools), PromptsOf(body.messages, {"system"}))
        EXCEPT !.mcp_server = FALSE]

generic_primitives(body) ==
    Primitives(ToolUseBlocks(body) \o ToolCalls(body) \o FunctionCalls(body), <<>>,
               TopPrompt(body) \cup PromptsOf(body.messages, {"system"}))

extract_primitives(profile, body) ==
    CASE body = None -> Primitives(<<>>, <<>>, {})
      [] profile = "claude-cli" -> claude_cli_primitives(body)
      [] profile = "codex-cli" -> codex_cli_primitives(body)
      [] profile = "opencode" -> opencode_primitives(body)
      [] profile = "openclaw" -> openclaw_primitives(body)
      [] profile = "hermes" -> hermes_primitives(body)
      [] OTHER -> generic_primitives(body)

CliTools == {"bash", "shell", "exec", "run_command", "ShellExec"}
McpTools == {"mcp__x"}  \* the names with an MCP prefix

classify(p, subagent_marker) ==
    LET has_tool_calls == p.tool_call_count > 0
        is_agent == has_tool_calls \/ IsSome(subagent_marker) \/ p.agent_loop
        kinds == (IF p.mcp_server \/ p.tool_names \cap McpTools # {} THEN {"Mcp"} ELSE {})
                 \cup (IF p.tool_names \cap (CliTools \ McpTools) # {} THEN {"Cli"} ELSE {})
                 \cup (IF p.tool_names \ (CliTools \cup McpTools) # {} THEN {"FunctionCall"} ELSE {})
    IN [is_agent_request |-> is_agent,
        tool_surface |-> IF ~has_tool_calls THEN None
                         ELSE IF kinds = {} THEN "Unknown"
                         ELSE IF Cardinality(kinds) > 1 THEN "Mixed" ELSE CHOOSE k \in kinds : TRUE,
        agent_topology |-> IF ~is_agent THEN None
                           ELSE IF IsSome(subagent_marker) THEN "SubAgent"
                           ELSE IF p.dispatches THEN "Orchestrator" ELSE "SingleAgent"]

\* Claude Code's trailing notices are skipped, its reminders stripped.
claude_cli_user_input(body) ==
    LET said == A!extract_user_input([body EXCEPT !.messages = SelectSeq(@, LAMBDA m : m.role # "system")])
    IN IF IsSome(said) THEN NonBlank(strip_system_reminders(said)) ELSE None

codex_cli_user_input(body) ==
    IF body.input # <<>> /\ R!IsMessage(Last(body.input), {"user"})
    THEN NonBlank(R!message_text(Last(body.input))) ELSE None

user_input(profile, ctx) ==
    CASE ctx.req = None -> None
      [] profile = "claude-cli" -> claude_cli_user_input(ctx.req)
      [] profile = "codex-cli" -> codex_cli_user_input(ctx.req)
      [] OTHER -> extract_user_input(ctx.api, ctx.req)

codex_cli_assistant_text(resp) ==
    LET said == SelectSeq(resp.output, LAMBDA x : x.type = "message") IN
    NonBlank(Lines(Concat(Collect(said, LAMBDA x : TextsOf(x.content.blocks, {"output_text", "text"})))))

assistant_text(profile, ctx) ==
    CASE ctx.resp = None -> None
      [] profile = "codex-cli" -> codex_cli_assistant_text(ctx.resp)
      [] OTHER -> extract_assistant_text(ctx.api, ctx.resp)

\* What the turn tracker learns of a call
AgentCallInfo(profile, session, ctx) ==
    [agent_kind |-> profile, session_id |-> session,
     subagent |-> subagent(profile, ctx), is_user_turn_start |-> turn_start(profile, ctx),
     is_turn_terminal |-> is_turn_terminal(profile, ctx), is_auxiliary |-> is_auxiliary(profile, ctx),
     user_input |-> user_input(profile, ctx), assistant_text |-> assistant_text(profile, ctx),
     class |-> classify(extract_primitives(profile, ctx.req), subagent(profile, ctx))]

InSession(profile, session, ctx) ==
    IF profile = None \/ session = None THEN None ELSE AgentCallInfo(profile, session, ctx)

\* build_agent_call_info_with_parsed, with the profile found: None is a call
\* outside every turn
build_agent_call_info(profile, ctx) == InSession(profile, extract_session_id(profile, ctx), ctx)
=============================================================================
