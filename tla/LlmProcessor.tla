---------------------------- MODULE LlmProcessor ----------------------------
(***************************************************************************)
(* One conversation of an LLM client as the LLM stage sees it, after       *)
(* h-llm/src/processor.rs.  The client and the server are the environment: *)
(* the client sends its whole history with every request, the server       *)
(* answers in one body or as a stream whose blocks may interleave, and the *)
(* tap may miss or garble events of a stream.  Every finished exchange     *)
(* goes through on_exchange: detection, extraction, the token estimate,    *)
(* the agent profile.                                                      *)
(***************************************************************************)
EXTENDS AgentProfiles, TLC

CONSTANTS Clients,    \* client records: [api, ua, session, ..., tools, system, style]
          Shapes,     \* generation shapes: [kinds, usage, bare, cut]
          MaxCalls,   \* bound: requests of the conversation
          MaxLost     \* bound: events of one stream the tap misses or garbles

VARIABLES client,     \* who is talking, fixed
          items,      \* the history the next request carries
          spoke,      \* the user, not a tool, wrote the last item
          sent,       \* the last request, [req, spoke], or None
          asked,      \* requests sent
          phase,      \* "idle", "ready", "asked", "streaming"
          gen,        \* the generation being answered, or None
          pos,        \* events sent of the head, of each block and of the tail
          tap,        \* events of this stream the joiner delivered
          lost,       \* events of this stream it did not
          started,    \* LlmEvent::Start count
          call,       \* the LlmEvent::Complete of the last request, or None
          completed,  \* how many there were
          sized,      \* the client asked for its prompt's size
          sessions    \* session ids of the calls whose anchor was not lost

vars == <<client, items, spoke, sent, asked, phase, gen, pos, tap, lost, started, call, completed, sized, sessions>>

----------------------------------------------------------------------------
(* processor.rs                                                            *)

Zero(n) == n = None \/ n = 0

NeedsEstimate(status, info) ==
    /\ status \in 200..299
    /\ Zero(info.usage.input) /\ Zero(info.usage.output)
    /\ IsSome(info.response_body)

WithEstimate(u, est) ==
    IF est[1] > 0 \/ est[2] > 0
    THEN [u EXCEPT !.input = est[1], !.output = est[2], !.total = est[1] + est[2]] ELSE u

WithTotal(u) ==
    IF u.total = None /\ IsSome(u.input) /\ IsSome(u.output) THEN [u EXCEPT !.total = u.input + u.output] ELSE u

\* The fallback estimator, then the total of two known counts.
FinalUsage(api, status, body, info) ==
    WithTotal(WithEstimate(info.usage,
        IF NeedsEstimate(status, info) THEN estimate(api, body, info.response_body) ELSE <<0, 0>>))

CallCtx(c, api, body, info) ==
    [api |-> api, ua |-> c.ua, session |-> c.session, affinity |-> c.affinity, originator |-> c.originator,
     subagent |-> c.subagent, meta |-> c.meta, req |-> body, resp |-> info.response_body,
     finish |-> info.finish_reason]

on_request(req) ==
    IF detect(req) = None THEN None
    ELSE [wire_api |-> detect(req), is_stream |-> extract_request(detect(req), req).is_stream]

LlmCall(api, req, status, info, profile, ctx) ==
    [wire_api |-> api, model |-> Or(info.model, extract_request(api, req).model),
     status |-> status, finish_reason |-> info.finish_reason, response_id |-> info.response_id,
     usage |-> FinalUsage(api, status, req.body, info), body |-> info.response_body,
     agent |-> build_agent_call_info(profile, ctx), claimed |-> profile]

Complete(c, api, req, status, info) ==
    LET ctx == CallCtx(c, api, req.body, info) IN LlmCall(api, req, status, info, find(ctx), ctx)

\* None: the request is of no API and the exchange is dropped.
on_exchange(c, req, status, resp, events) ==
    LET api == detect(req) IN
    IF api = None THEN None
    ELSE Complete(c, api, req, status,
                  IF events # <<>> THEN extract_sse(api, events) ELSE extract_response(api, resp))

----------------------------------------------------------------------------
(* The environment: requests, generations, streams.                        *)

Request(path) ==
    [method |-> "POST", path |-> path, key |-> client.key, bearer |-> client.bearer, headers |-> client.headers,
     json |-> TRUE,
     body |-> WireRequest(client.api, [EmptyBody EXCEPT !.tools = client.tools, !.stream = TRUE],
                          client.system, items)]

StopOf(api, kinds, cut) ==
    LET tools == "tool" \in ToSet(kinds) IN
    CASE api = ANTHROPIC -> IF tools THEN "tool_use" ELSE IF cut THEN "max_tokens" ELSE "end_turn"
      [] api = OPENAI_CHAT -> IF tools THEN "tool_calls" ELSE IF cut THEN "length" ELSE "stop"
      [] api = OPENAI_RESPONSES -> "completed"
      [] OTHER -> IF cut /\ ~tools THEN "MAX_TOKENS" ELSE "STOP"

\* Fragments and ids no other block of the conversation has.
MakeBlock(n, i, kind) ==
    [kind |-> kind,
     text |-> [k \in 1..(IF kind = "text" THEN 2 ELSE 1) |-> ToString(<<n, i, k>>)],
     id |-> IF kind = "tool" THEN [prefix |-> "call", underscore |-> TRUE, body |-> <<n, i>>] ELSE None,
     name |-> IF kind = "tool" THEN "bash" ELSE None]

Generation(shape) ==
    [id |-> ToString(<<"resp", asked>>), model |-> "m", stop |-> StopOf(client.api, shape.kinds, shape.cut),
     usage |-> IF shape.usage THEN Usage(10 * asked, asked, IF client.api = ANTHROPIC THEN None ELSE 11 * asked, 1, None)
                              ELSE NoUsage,
     bare |-> shape.bare,
     blocks |-> [i \in 1..Len(shape.kinds) |-> MakeBlock(asked, i, shape.kinds[i])]]

\* The threads of a stream: 0 is its head, n + 1 its tail, the others its blocks.
Thread(k) ==
    LET n == Len(gen.blocks) IN
    IF k = 0 THEN WireHead(client.api, gen)
    ELSE IF k = n + 1 THEN WireTail(client.api, gen) ELSE WireBlockEvents(client.api, gen, k)

Sent(k) == pos[k] = Len(Thread(k))

\* Anthropic and Chat number their blocks and may interleave them.
MaySend(k) ==
    /\ ~Sent(k)
    /\ k > 0 => Sent(0)
    /\ (k = Len(gen.blocks) + 1 \/ client.api \in {OPENAI_RESPONSES, GEMINI_AISTUDIO}) => \A j \in 1..(k - 1) : Sent(j)

UserItems(text) ==
    UserSays(client.api, text)
    \o IF client.ua = "claude-cli/" THEN <<Item("message", "system", Str(<<"notice">>), <<>>)>> ELSE <<>>

\* Claude Code wraps a reminder next to the results of its tools.
ReturnItems(g) ==
    LET rs == ToolsReturn(client.api, g) IN
    IF client.ua = "claude-cli/"
    THEN [rs EXCEPT ![1].content.blocks = Append(@, Block("text", <<"<system-reminder>">>, None, None))] ELSE rs

----------------------------------------------------------------------------

Init ==
    /\ client \in Clients
    /\ items = <<>> /\ spoke = FALSE /\ sent = None /\ asked = 0 /\ phase = "idle"
    /\ gen = None /\ pos = <<>> /\ tap = <<>> /\ lost = 0
    /\ started = 0 /\ call = None /\ completed = 0 /\ sized = FALSE /\ sessions = {}

\* External: the user writes.
Speak ==
    /\ phase = "idle" /\ asked < MaxCalls
    /\ items' = items \o UserItems(<<ToString(<<"user", asked>>)>>)
    /\ spoke' = TRUE /\ phase' = "ready"
    /\ UNCHANGED <<client, sent, asked, gen, pos, tap, lost, started, call, completed, sized, sessions>>

\* The joiner's Request event: on_request
Ask ==
    /\ phase = "ready" /\ asked < MaxCalls
    /\ asked' = asked + 1 /\ phase' = "asked"
    /\ LET req == Request(CanonicalPath(client.api)) IN
       /\ sent' = [req |-> req, spoke |-> spoke]
       /\ started' = started + IF on_request(req) = None THEN 0 ELSE 1
    /\ gen' = None /\ pos' = <<>> /\ tap' = <<>> /\ lost' = 0 /\ call' = None
    /\ UNCHANGED <<client, items, spoke, completed, sized, sessions>>

\* The client asks for the size of its prompt: the same body on another route,
\* which is no call.
CountTokens ==
    /\ phase = "ready" /\ client.api = ANTHROPIC /\ ~sized
    /\ sized' = TRUE
    /\ LET req == Request("/v1/messages/count_tokens") IN
       /\ started' = started + IF on_request(req) = None THEN 0 ELSE 1
       /\ completed' = completed + IF on_exchange(client, req, 200, None, <<>>) = None THEN 0 ELSE 1
    /\ UNCHANGED <<client, items, spoke, sent, asked, phase, gen, pos, tap, lost, call, sessions>>

\* The joiner's Exchange event is done, and what the client does with the answer
\* g: runs its tools, waits for its user, or (None) sends the same request again.
Exchange(g, done) ==
    /\ call' = done
    /\ completed' = completed + IF done = None THEN 0 ELSE 1
    /\ sessions' = IF done # None /\ done.agent # None /\ (lost = 0 \/ asked > 1)
                   THEN sessions \cup {done.agent.session_id} ELSE sessions
    /\ IF g = None THEN items' = items /\ spoke' = spoke /\ phase' = "ready"
       ELSE LET tools == \E i \in 1..Len(g.blocks) : g.blocks[i].kind = "tool"
                echo == Echo(client.api, g, client.style)
            IN /\ items' = items \o echo \o (IF tools THEN ReturnItems(g) ELSE <<>>)
               /\ spoke' = FALSE
               /\ phase' = IF tools THEN "ready" ELSE "idle"

AnswerWhole(shape) ==
    /\ phase = "asked"
    /\ LET g == Generation(shape) IN gen' = g /\ Exchange(g, on_exchange(client, sent.req, 200, WireBody(client.api, g), <<>>))
    /\ UNCHANGED <<client, sent, asked, pos, tap, lost, started, sized>>

\* An overloaded server, with a body that is not of the API.
AnswerError ==
    /\ phase = "asked" /\ gen' = None
    /\ Exchange(None, on_exchange(client, sent.req, 500, None, <<>>))
    /\ UNCHANGED <<client, sent, asked, pos, tap, lost, started, sized>>

OpenStream(shape) ==
    /\ phase = "asked" /\ phase' = "streaming"
    /\ gen' = Generation(shape)
    /\ pos' = [k \in 0..(Len(shape.kinds) + 1) |-> 0]
    /\ UNCHANGED <<client, items, spoke, sent, asked, tap, lost, started, call, completed, sessions, sized>>

\* The next event of thread k reaches the joiner, garbled or not, or does not.
StreamEvent(k) ==
    /\ phase = "streaming" /\ MaySend(k)
    /\ pos' = [pos EXCEPT ![k] = @ + 1]
    /\ LET ev == Thread(k)[pos[k] + 1] IN
       \/ tap' = Append(tap, ev) /\ lost' = lost
       \/ lost < MaxLost /\ lost' = lost + 1 /\ tap' \in {tap, Append(tap, [ev EXCEPT !.data = None])}
    /\ UNCHANGED <<client, items, spoke, sent, asked, phase, gen, started, call, completed, sessions, sized>>

CloseStream ==
    /\ phase = "streaming"
    /\ \A k \in DOMAIN pos : Sent(k)
    /\ Exchange(gen, on_exchange(client, sent.req, 200, None, tap))
    /\ UNCHANGED <<client, sent, asked, gen, pos, tap, lost, started, sized>>

\* The conversation is over.
Finished == phase \in {"idle", "ready"} /\ asked = MaxCalls /\ UNCHANGED vars

Next ==
    \/ Speak \/ Ask \/ CountTokens \/ AnswerError \/ CloseStream \/ Finished
    \/ \E shape \in Shapes : AnswerWhole(shape) \/ OpenStream(shape)
    \/ \E k \in DOMAIN pos : StreamEvent(k)

Spec == Init /\ [][Next]_vars

----------------------------------------------------------------------------
(* Properties.                                                             *)

TypeOK ==
    /\ client \in Clients /\ spoke \in BOOLEAN /\ sized \in BOOLEAN
    /\ asked \in 0..MaxCalls /\ started \in 0..MaxCalls /\ completed \in 0..MaxCalls
    /\ phase \in {"idle", "ready", "asked", "streaming"}
    /\ lost \in 0..MaxLost
    /\ call # None => call.wire_api \in Apis

\* A call has just been completed: its generation is gen, its losses are lost.
JustAnswered == phase \in {"idle", "ready"} /\ call # None /\ gen # None

Streamed == JustAnswered /\ tap # <<>>

ToolIds(g) == {g.blocks[i].id : i \in {j \in 1..Len(g.blocks) : g.blocks[j].kind = "tool"}}

\* Every generation request becomes one Start and one Complete of the client's
\* own API, whatever the stream lost; a count_tokens request becomes neither.
OneCallPerGeneration ==
    /\ started = asked
    /\ completed = asked - (IF phase \in {"asked", "streaming"} THEN 1 ELSE 0)
    /\ call # None => call.wire_api = client.api

\* A stream the tap saw whole is recorded as the same generation in one body would
\* be: model, finish reason, id, tokens (estimated or not) and all that the turn
\* tracker learns of it, however the blocks interleaved.
StreamedAsWhole ==
    Streamed /\ lost = 0 =>
        LET whole == on_exchange(client, sent.req, 200, WireBody(client.api, gen), <<>>) IN
        [whole EXCEPT !.body = None] = [call EXCEPT !.body = None]

\* Losing events moves no text from one block to another: the answer recorded is
\* made of what the generation's texts said, in their order.
LossNeverInvents ==
    Streamed /\ call.agent # None /\ call.agent.assistant_text # None =>
        LET said == Concat(Collect(SelectSeq(gen.blocks, LAMBDA b : b.kind = "text"), LAMBDA b : b.text))
            kept == SelectSeq(call.agent.assistant_text, LAMBDA t : t # "\n")
        IN kept = SelectSeq(said, LAMBDA t : t \in ToSet(kept))

\* Every call of a conversation belongs to one session: the first answer, the
\* history that echoes it (its tool ids respelled or not) and a stream that lost
\* events of a later answer all lead to the same id.
OneSession == Cardinality(sessions) <= 1

\* A session anchored on a tool call is anchored on a call of this conversation.
\* Only a Chat stream that lost the delta opening the call falls back to the
\* empty id, which all such conversations share.
AnchorIsOwn ==
    call # None /\ call.agent # None /\ call.agent.session_id.by = "tool" /\ client.api # GEMINI_AISTUDIO =>
        \/ call.agent.session_id.of \in {MakeBlock(n, i, "tool").id : n \in 1..asked, i \in 1..3}
        \/ call.agent.session_id.of = EmptyId /\ client.api = OPENAI_CHAT /\ lost > 0

\* A call whose answer asks for a tool never ends its turn.  Responses and Gemini
\* have no finish reason for it: when the event with the tool call is lost their
\* call does look final, so they are held to it only for whole streams.
ToolTurnStaysOpen ==
    JustAnswered /\ call.agent # None /\ (lost = 0 \/ client.api \in {ANTHROPIC, OPENAI_CHAT}) =>
        (call.agent.is_turn_terminal => ToolIds(gen) = {})

\* A call starts a user turn exactly when the user wrote the last item: tool
\* results, notices and reminders around them start none.
StartIffUserSpoke ==
    phase \in {"idle", "ready"} /\ call # None /\ call.agent # None =>
        (call.agent.is_user_turn_start = TRUE <=> sent.spoke)

\* A profile that claims a call by more than its tools also finds its session:
\* the call does not fall out of turn assembly while a later profile would take it.
NoClaimAndDrop ==
    call # None /\ call.claimed \in {"claude-cli", "opencode", "generic"} => call.agent # None

CarriesUsage(ev) ==
    /\ ev.data # None
    /\ CASE client.api = ANTHROPIC -> ev.type \in {"message_start", "message_delta"}
         [] client.api = OPENAI_RESPONSES -> ev.type = "response.completed"
         [] OTHER -> ev.data.usage # None

\* Token counts the server reported and the tap saw are never replaced by an
\* estimate, even when the other half of them was lost.
ReportedUsageWins ==
    Streamed /\ gen.usage.input # None /\ (\E i \in 1..Len(tap) : CarriesUsage(tap[i])) =>
        call.usage.input = gen.usage.input

\* What is recorded of a call is the generation that was sent, once: no request is
\* missed or doubled, a stream amounts to its whole body, and a lost event neither
\* moves text between blocks nor discards reported tokens.
CallsFaithful ==
    TypeOK /\ OneCallPerGeneration /\ StreamedAsWhole /\ LossNeverInvents /\ ReportedUsageWins

\* The calls of a conversation, and of no other, share a session, and no profile
\* takes a call that it then drops.
SessionsSound == OneSession /\ AnchorIsOwn /\ NoClaimAndDrop

\* A turn opens with what the user wrote and stays open while tools are to run.
TurnsCut == ToolTurnStaysOpen /\ StartIffUserSpoke
=============================================================================
