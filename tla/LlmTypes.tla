------------------------------ MODULE LlmTypes ------------------------------
(***************************************************************************)
(* The values the LLM stage computes with, abstracted to what its code     *)
(* tells apart.  A text is a sequence of atoms (one per fragment the model *)
(* sent), a JSON value a record whose absent members are None, a tool id a *)
(* record with the underscore between its prefix and its body as a flag.   *)
(***************************************************************************)
EXTENDS Integers, Sequences, FiniteSets, SequencesExt

CONSTANT None  \* Rust's Option::None and an absent JSON member

IsSome(x) == x # None

\* Option::or
Or(x, y) == IF IsSome(x) THEN x ELSE y

\* Option::map with a member access: obj?.key
Get(obj, key) == IF IsSome(obj) THEN obj[key] ELSE None

First(s) == IF s = <<>> THEN None ELSE s[1]

\* The first element of s that satisfies P: Iterator::find
Find(s, P(_)) == First(SelectSeq(s, P))

Collect(s, F(_)) == [i \in 1..Len(s) |-> F(s[i])]

Concat(ss) == FoldLeft(LAMBDA acc, t : acc \o t, <<>>, ss)

\* str::trim().is_empty(): nothing but white space
Blank(text) == \A i \in 1..Len(text) : text[i] \in {" ", "\n"}

\* [String]::join("\n")
Lines(parts) ==
    FoldLeft(LAMBDA acc, t : IF acc = <<>> THEN t ELSE acc \o <<"\n">> \o t, <<>>, parts)

NonBlank(text) == IF IsSome(text) /\ ~Blank(text) THEN text ELSE None

----------------------------------------------------------------------------
(* JSON shapes.  content is a string or an array of blocks.                *)

Str(text) == [kind |-> "string", text |-> text, blocks |-> <<>>]
Arr(blocks) == [kind |-> "array", text |-> <<>>, blocks |-> blocks]

Block(type, text, id, name) == [type |-> type, text |-> text, id |-> id, name |-> name]

\* A typed item of the Responses API, or a message of the other two.
Item(type, role, content, calls) == [type |-> type, role |-> role, content |-> content, calls |-> calls]

OfType(blocks, types) == SelectSeq(blocks, LAMBDA b : b.type \in types)

TextsOf(blocks, types) == Collect(OfType(blocks, types), LAMBDA b : b.text)

----------------------------------------------------------------------------
(* What is taken from a request and from a response.                       *)

Usage(in, out, total, read, created) ==
    [input |-> in, output |-> out, total |-> total, cache_read |-> read, cache_creation |-> created]

NoUsage == Usage(None, None, None, None, None)

ResponseInfo(id, model, finish, usage, body) ==
    [response_id |-> id, model |-> model, finish_reason |-> finish, usage |-> usage,
     response_body |-> body]

\* AssistantSig: the anchor a conversation's session id is made of
ToolId(id) == [sig |-> "tool", id |-> id]
TextSig(text) == [sig |-> "text", id |-> text]

----------------------------------------------------------------------------
(* agents/session_id.rs                                                    *)

PREFIXES == {"call", "toolu", "fc", "chatcmpl"}

\* The id of a tool call whose first delta never came: an empty string.
EmptyId == [prefix |-> "", underscore |-> FALSE, body |-> <<>>]

\* Restores the underscore a client dropped between the prefix and the body.
canonicalize_tool_id(id) ==
    IF id.prefix \in PREFIXES THEN [id EXCEPT !.underscore = TRUE] ELSE id

\* Deviation: keeps the client's spelling of the tool id.
compose_session_id_Verbatim(user_text, sig) ==
    IF sig.sig = "tool" THEN [by |-> "tool", of |-> sig.id]
                        ELSE [by |-> "hash", of |-> <<user_text, sig.id>>]

compose_session_id(user_text, sig) ==
    IF sig.sig = "tool" THEN [by |-> "tool", of |-> canonicalize_tool_id(sig.id)]
                        ELSE [by |-> "hash", of |-> <<user_text, sig.id>>]

-----------------------------------------------------------------------------
(* The fallback estimator of h-llm/src/token_estimator.rs: which texts of  *)
(* an assistant message are counted, each of them once.  A <think> block   *)
(* inside a text is the atom "<think>" followed by its inner atom.         *)

\* TokenEstimator::count_text: the tokenizer is a library; one token an atom
count_text(text) == Len(text)

\* A serialised JSON value counts as one fragment that holds it.
serialized(b) == <<b.name>> \o b.text

Thinks(text) == {i \in 1..Len(text) : text[i] = "<think>"}

\* The inner texts of <think> blocks, and the text without them.
extract_think_blocks(text) ==
    [blocks |-> [k \in 1..Cardinality(Thinks(text)) |->
                    <<text[(CHOOSE i \in Thinks(text) :
                             Cardinality({j \in Thinks(text) : j <= i}) = k) + 1]>>],
     rest |-> Collect(SelectSeq([i \in 1..Len(text) |-> i],
                        LAMBDA i : i \notin Thinks(text) /\ i - 1 \notin Thinks(text)),
                      LAMBDA i : text[i])]

push_unique(frags, s) ==
    IF s = <<>> \/ \E i \in 1..Len(frags) : frags[i] = s THEN frags ELSE Append(frags, s)

PushAll(frags, ss) == FoldLeft(push_unique, frags, ss)

\* A text: its think blocks, then what is left of it.
PushText(frags, text) ==
    LET e == extract_think_blocks(text) IN push_unique(PushAll(frags, e.blocks), e.rest)

\* message: [content, reasoning, reasoning_content, calls]
collect_chat_assistant_text(message) ==
    LET reasoned == PushAll(<<>>, <<message.reasoning_content, message.reasoning>>)
        said == IF message.content.kind = "string" THEN PushText(reasoned, message.content.text)
                ELSE FoldLeft(PushText, reasoned,
                         TextsOf(message.content.blocks, {"text", "input_text", "output_text"}))
    IN Concat(PushAll(said, Collect(message.calls, serialized)))

collect_anthropic_assistant_text(content) ==
    LET Push(frags, b) == CASE b.type = "thinking" -> push_unique(frags, b.text)
                            [] b.type = "text" -> PushText(frags, b.text)
                            [] b.type = "tool_use" -> push_unique(frags, serialized(b))
                            [] OTHER -> frags
    IN Concat(IF content.kind = "array" THEN FoldLeft(Push, <<>>, content.blocks)
                                        ELSE PushText(<<>>, content.text))

collect_responses_output_text(output) ==
    LET Push(frags, it) ==
            CASE it.type = "reasoning" -> PushAll(frags, TextsOf(it.content.blocks, {"summary", "text"}))
              [] it.type = "message" -> FoldLeft(PushText, frags,
                     TextsOf(it.content.blocks, {"output_text", "input_text", "text"}))
              [] it.type \in {"function_call", "tool_call"} -> PushAll(frags, Collect(it.calls, serialized))
              [] OTHER -> frags
    IN Concat(FoldLeft(Push, <<>>, output))

----------------------------------------------------------------------------
(* The walks over a request: roles, contents, serialised tools.            *)

SumOf(s) == FoldLeft(LAMBDA a, b : a + b, 0, s)

CountContent(content, plain, serial) ==
    IF content.kind = "string" THEN count_text(content.text)
    ELSE SumOf(Collect(content.blocks, LAMBDA b :
            CASE b.type \in plain -> count_text(b.text)
              [] b.type \in serial -> count_text(serialized(b))
              [] OTHER -> 0))

CountMessage(m, plain, serial) ==
    (IF IsSome(m.role) THEN 1 ELSE 0) + CountContent(m.content, plain, serial)
    + SumOf(Collect(m.calls, LAMBDA c : count_text(serialized(c))))

CountTools(tools) == IF IsSome(tools) THEN Len(tools) ELSE 0
=============================================================================
