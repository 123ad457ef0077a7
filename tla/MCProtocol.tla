----------------------------- MODULE MCProtocol -----------------------------
(***************************************************************************)
(* An instance of the protocol stage.  A behaviour exercises one of its    *)
(* parts: a direction of a connection fed any segments of a stream, a flow *)
(* fed the captures below, or the flow table and the joiner.               *)
(***************************************************************************)
EXTENDS TcpFlow, TcpReassembly, FlowJoin

-----------------------------------------------------------------------------
(* Captures of one flow key.  A unit records the connection c, the side, the *)
(* call n and the stream position it has.                                    *)

Rq(c, n, pos, kind, len, head) ==
    [k |-> "rq", c |-> c, side |-> "client", n |-> n, pos |-> pos,
     frame |-> [kind |-> kind, n |-> len], head |-> head]

Rs(c, n, pos, kind, len, sse) ==
    [k |-> "rs", c |-> c, side |-> "server", n |-> n, pos |-> pos,
     frame |-> [kind |-> kind, n |-> len], sse |-> sse]

Unit(k, c, side, n, pos) == [k |-> k, c |-> c, side |-> side, n |-> n, pos |-> pos]

Isn(c) == 7 * c

Data(d, units) ==
    [dir |-> d, seq |-> WrappingAdd(Isn(units[1].c), units[1].pos), bytes |-> units, flag |-> "data"]

Control(d, c, pos, flag) ==
    [dir |-> d, seq |-> WrappingAdd(Isn(c), pos), bytes |-> <<>>, flag |-> flag]

\* A streamed call with a two-segment request, then a plain call, from SYN to
\* FIN; the client is A.
Handshake ==
    << Control("AtoB", 1, 0, "syn"), Control("BtoA", 1, 0, "synack"),
       Data("AtoB", <<Rq(1, 1, 1, "len", 2, FALSE)>>),
       Data("AtoB", <<Unit("b", 1, "client", 1, 2)>>),
       Data("AtoB", <<Unit("b", 1, "client", 1, 3)>>),
       Data("BtoA", <<Rs(1, 1, 1, "chunked", 0, TRUE), Unit("c", 1, "server", 1, 2)>>),
       Data("BtoA", <<Unit("c", 1, "server", 1, 3)>>),
       Data("BtoA", <<Unit("z", 1, "server", 1, 4)>>),
       Data("AtoB", <<Rq(1, 2, 4, "chunked", 0, FALSE), Unit("c", 1, "client", 2, 5)>>),
       Data("AtoB", <<Unit("z", 1, "client", 2, 6)>>),
       Data("BtoA", <<Rs(1, 2, 5, "len", 2, FALSE)>>),
       Data("BtoA", <<Unit("b", 1, "server", 2, 6), Unit("b", 1, "server", 2, 7)>>),
       Control("BtoA", 1, 8, "fin"), Control("AtoB", 1, 7, "fin") >>

\* A capture that starts inside a response; then a HEAD call, a call whose
\* streamed body ends with the connection, and a reset.  The client is B.
MidStream ==
    << Data("AtoB", <<Unit("b", 1, "server", 0, 1)>>),
       Data("BtoA", <<Rq(1, 1, 1, "none", 0, TRUE)>>),
       Data("AtoB", <<Rs(1, 1, 2, "len", 2, FALSE)>>),
       Data("BtoA", <<Rq(1, 2, 2, "len", 1, FALSE), Unit("b", 1, "client", 2, 3)>>),
       Data("AtoB", <<Rs(1, 2, 3, "len", 1, TRUE)>>),
       Data("AtoB", <<Unit("b", 1, "server", 2, 4)>>),
       Data("BtoA", <<Rq(1, 3, 4, "none", 0, FALSE)>>),
       Data("AtoB", <<Rs(1, 3, 5, "close", 0, FALSE), Unit("b", 1, "server", 3, 6)>>),
       Data("AtoB", <<Unit("b", 1, "server", 3, 7)>>),
       Control("AtoB", 1, 8, "rst") >>

Capture(pkts, delay, maxLost, maxTrunc, repeats(_)) ==
    [pkts |-> pkts, delay |-> delay, maxLost |-> maxLost, maxTrunc |-> maxTrunc,
     repeatable |-> {i \in DOMAIN pkts : pkts[i].flag = "data" /\ repeats(pkts[i])}]

Never(p) == FALSE
Always(p) == TRUE
NotAHead(p) == ~LooksLikeRequest(p.bytes)

\* Reordering and retransmission on a connection seen from its SYN; loss and
\* truncation on that one and on one joined in the middle.
TapCaptures ==
    { Capture(Handshake, 2, 0, 0, NotAHead),
      Capture(Handshake, 0, 1, 2, Never),
      Capture(MidStream, 0, 1, 2, Never) }

\* A faithful tap on a connection whose sender retransmits.
RetransmitCaptures == { Capture(Handshake, 0, 0, 0, Always) }

-----------------------------------------------------------------------------
VARIABLE part

mcVars == <<part, segmentVars, tapVars, vars>>

\* The parts that are not exercised stay as they are.
MCInit ==
    /\ part \in {"direction", "flow", "table"}
    /\ ReassemblyInit /\ TapInit /\ Init
    /\ part = "direction" \/ isn = CHOOSE i \in Isns : TRUE
    /\ part = "flow" \/ capture = CHOOSE c \in Captures : TRUE

MCNext ==
    \/ part = "direction" /\ ReassemblyNext /\ UNCHANGED <<part, tapVars, vars>>
    \/ part = "flow" /\ TapNext /\ UNCHANGED <<part, segmentVars, vars>>
    \/ part = "table" /\ Next /\ UNCHANGED <<part, segmentVars, tapVars>>

MCSpec == MCInit /\ [][MCNext]_mcVars

=============================================================================
