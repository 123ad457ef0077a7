----------------------------- MODULE HttpParser -----------------------------
(***************************************************************************)
(* HttpParser and BodyReader of server/h-protocol/src/http.rs as pure      *)
(* operators over the two reassembled buffers of a flow.  A buffer is a    *)
(* sequence of units: a message head ("rq", "rs"), a body byte ("b"), a    *)
(* whole chunk ("c") or the terminal chunk ("z").  httparse is external:   *)
(* it accepts a head of its own side, wants more of an empty buffer and    *)
(* fails on anything else.  One body unit of an SSE response is one event. *)
(***************************************************************************)
EXTENDS Integers, Sequences, SequencesExt

NoHead == [k |-> "none"]

\* HttpParser::new() and reset().
NewParser ==
    [st |-> "WaitingForRequest", req |-> NoHead, resp |-> NoHead,
     frame |-> [kind |-> "none", n |-> 0], body |-> <<>>]

IsWaitingForResponse(p) == p.st \in {"WaitingForResponse", "ReadingResponseBody"}

Drop(s, n) == SubSeq(s, n + 1, Len(s))

\* BodyReader::new_for_response: a HEAD request's response has no body whatever
\* its head says.
ResponseFraming(req, resp) ==
    IF req.head THEN [kind |-> "none", n |-> 0] ELSE resp.frame

\* BodyReader::read on the buffer `buf' with `body' decoded so far.
Read(frame, body, buf) ==
    CASE frame.kind = "none" -> [r |-> "Complete", body |-> <<>>, rest |-> buf]
      [] frame.kind = "len" ->
            IF Len(buf) < frame.n THEN [r |-> "NeedMore", body |-> body, rest |-> buf]
            ELSE [r |-> "Complete", body |-> SubSeq(buf, 1, frame.n), rest |-> Drop(buf, frame.n)]
      [] frame.kind = "chunked" ->
            IF buf = <<>> THEN [r |-> "NeedMore", body |-> body, rest |-> buf]
            ELSE [r |-> CASE Head(buf).k = "c" -> "ChunkDecoded"
                          [] Head(buf).k = "z" -> "Complete"
                          [] OTHER -> "Error",
                  body |-> IF Head(buf).k = "c" THEN Append(body, Head(buf)) ELSE body,
                  rest |-> Tail(buf)]
      [] frame.kind = "close" ->
            [r |-> IF buf = <<>> THEN "NeedMore" ELSE "ChunkDecoded",
             body |-> body \o buf, rest |-> <<>>]

RequestEvent(head, body) == [t |-> "request", head |-> head, body |-> body]

ResponseEvent(head, body) == [t |-> "response", head |-> head, body |-> body]

\* What one turn of the parse loop works on: the parser, the client and the
\* server buffer, the events so far, and whether the loop goes on.
Running(p, cb, sb) == [p |-> p, cb |-> cb, sb |-> sb, out |-> <<>>, res |-> "run"]

Stop(a, res) == [a EXCEPT !.res = res]

\* WaitingForRequest: try_parse_request_headers.
ParseRequestHead(a) ==
    IF a.cb = <<>> THEN Stop(a, "Ok")
    ELSE IF Head(a.cb).k # "rq" THEN Stop(a, "NeedResync")
    ELSE [a EXCEPT !.cb = Tail(@),
                   !.p = [@ EXCEPT !.st = "ReadingRequestBody", !.req = Head(a.cb),
                                   !.frame = Head(a.cb).frame, !.body = <<>>]]

\* ReadingRequestBody.
RequestBodyRead(a, rd) ==
    CASE rd.r = "NeedMore" -> Stop(a, "Ok")
      [] rd.r = "Error" -> Stop(a, "NeedResync")
      [] rd.r = "ChunkDecoded" -> [a EXCEPT !.cb = rd.rest, !.p.body = rd.body]
      [] rd.r = "Complete" ->
            [a EXCEPT !.cb = rd.rest, !.p.st = "WaitingForResponse",
                      !.out = Append(@, RequestEvent(a.p.req, rd.body))]

ParseRequestBody(a) == RequestBodyRead(a, Read(a.p.frame, a.p.body, a.cb))

\* WaitingForResponse: try_parse_response_headers, then the response without a
\* body is emitted at once.
ResponseHeadRead(a, h, frame) ==
    [a EXCEPT !.sb = Tail(@),
              !.p = [@ EXCEPT !.resp = h, !.frame = frame, !.body = <<>>,
                              !.st = IF frame.kind = "none" THEN "WaitingForRequest"
                                     ELSE "ReadingResponseBody"],
              !.out = IF frame.kind = "none" THEN Append(@, ResponseEvent(h, <<>>)) ELSE @]

ParseResponseHead(a) ==
    IF a.sb = <<>> THEN Stop(a, "Ok")
    ELSE IF Head(a.sb).k # "rs" THEN Stop(a, "NeedResync")
    ELSE ResponseHeadRead(a, Head(a.sb), ResponseFraming(a.p.req, Head(a.sb)))

\* SSE events of the units decoded by one read; none for a plain response.
SseEvents(resp, units) ==
    IF resp.sse THEN [i \in 1..Len(units) |-> [t |-> "sse", unit |-> units[i]]] ELSE <<>>

\* An SSE response keeps no raw body (skip_accumulation).
KeptBody(resp, body) == IF resp.sse THEN <<>> ELSE body

\* ReadingResponseBody: incremental framings feed the SSE parser chunk by
\* chunk, Content-Length feeds it once at the end.
ResponseBodyRead(a, rd) ==
    CASE rd.r = "NeedMore" -> Stop(a, "Ok")
      [] rd.r = "Error" -> Stop(a, "NeedResync")
      [] rd.r \in {"ChunkDecoded", "Complete"} ->
            [a EXCEPT !.sb = rd.rest,
                      !.p.body = rd.body,
                      !.p.st = IF rd.r = "Complete" THEN "WaitingForRequest" ELSE @,
                      !.out = @ \o SseEvents(a.p.resp, Drop(rd.body, Len(a.p.body)))
                                \o IF rd.r = "ChunkDecoded" THEN <<>>
                                   ELSE <<ResponseEvent(a.p.resp, KeptBody(a.p.resp, rd.body))>>]

ParseResponseBody(a) == ResponseBodyRead(a, Read(a.p.frame, a.p.body, a.sb))

\* One turn of the loop.
ParseStep(a, i) ==
    IF a.res # "run" THEN a ELSE
    CASE a.p.st = "WaitingForRequest" -> ParseRequestHead(a)
      [] a.p.st = "ReadingRequestBody" -> ParseRequestBody(a)
      [] a.p.st = "WaitingForResponse" -> ParseResponseHead(a)
      [] a.p.st = "ReadingResponseBody" -> ParseResponseBody(a)

\* HttpParser::parse: a turn that does not stop consumes a unit or leaves a
\* body state, so twice the units buffered and a few turns reach the end.
Parse(p, cb, sb) ==
    FoldLeft(ParseStep, Running(p, cb, sb),
             [i \in 1..(2 * (Len(cb) + Len(sb)) + 4) |-> i])

\* finish_response: on close what is buffered becomes the body; of an SSE
\* response the rest of the buffer is dropped.
FinishResponse(p, sb) ==
    IF p.st # "ReadingResponseBody" THEN [p |-> p, sb |-> sb, out |-> <<>>]
    ELSE [p |-> [p EXCEPT !.st = "WaitingForRequest"], sb |-> <<>>,
          out |-> <<ResponseEvent(p.resp, KeptBody(p.resp, p.body \o sb))>>]

=============================================================================
