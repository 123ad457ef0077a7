--------------------------- MODULE TcpReassembly ---------------------------
(***************************************************************************)
(* One direction of a TCP connection as a passive tap sees it: segments of *)
(* a byte stream arrive lost, duplicated, reordered and resegmented, and   *)
(* append_payload / drain_ooo of server/h-protocol/src/tcp.rs rebuild the  *)
(* stream.  A byte is its position in the stream, so that what is in the   *)
(* buffer can be compared with what was sent.                              *)
(***************************************************************************)
EXTENDS TcpDirState

CONSTANTS
    Isns,      \* initial sequence numbers to try
    StreamLen, \* bytes the sender sends
    MaxSeg     \* bound: bytes in one segment

ASSUME StreamAssumption ==
    /\ Isns \subseteq SeqNums /\ Isns # {}
    /\ StreamLen \in Nat /\ 2 * (StreamLen + 1) < Space
    /\ MaxSeg \in Nat \ {0}

Positions == 1..StreamLen

VARIABLES
    isn,      \* initial sequence number of this connection (the SYN's)
    dir,      \* the DirState
    base,     \* history: position of the first byte tracked; Nil before
    seen,     \* history: bytes in segments that reached append_payload
    evicted,  \* history: bytes of segments given up by a full OOO map
    replaced  \* history: bytes of segments overwritten by an equal key

segmentVars == <<isn, dir, base, seen, evicted, replaced>>

SeqNum(pos) == WrappingAdd(isn, pos)

BytesOf(pos, len) == [i \in 1..len |-> pos + i - 1]

Held(d) == UNION {Range(d.ooo[s]) : s \in DOMAIN d.ooo}

ReassemblyInit ==
    /\ isn \in Isns
    /\ dir = NewDir
    /\ base = Nil
    /\ seen = {} /\ evicted = {} /\ replaced = {}

\* The connection's SYN is captured ahead of its data.
Syn ==
    /\ dir = NewDir
    /\ dir' = SynSeen(dir, isn)
    /\ base' = 1
    /\ UNCHANGED <<isn, seen, evicted, replaced>>

\* The tap delivers bytes pos .. pos+len-1: the first time, again, early or late.
Segment(pos, len) ==
    LET seq == SeqNum(pos)
        ahead == dir.next # Nil /\ SeqDiff(seq, dir.next) > 0
        gone == IF ahead THEN Evictable(dir.ooo) ELSE {}
    IN  /\ pos + len - 1 =< StreamLen
        /\ dir' = AppendPayload(dir, seq, BytesOf(pos, len))
        /\ base' = IF base = Nil THEN pos ELSE base
        /\ seen' = seen \cup Range(BytesOf(pos, len))
        /\ evicted' = evicted \cup UNION {Range(dir.ooo[s]) : s \in gone}
        /\ replaced' = replaced \cup
               IF ahead /\ seq \in DOMAIN dir.ooo \ gone THEN Range(dir.ooo[seq]) ELSE {}
        /\ UNCHANGED isn

ReassemblyNext == Syn \/ \E pos \in Positions, len \in 1..MaxSeg : Segment(pos, len)

ReassemblySpec == ReassemblyInit /\ [][ReassemblyNext]_segmentVars

-----------------------------------------------------------------------------
\* The in-order buffer is a contiguous run of the stream.
BufferIsStream ==
    /\ \A i \in DOMAIN dir.buf : dir.buf[i] = base + i - 1
    /\ base # Nil => dir.next = SeqNum(base + Len(dir.buf))

\* Nothing that could be appended now is left in the OOO map: a byte that is
\* next in the stream and has been captured is in the in-order buffer as soon
\* as the packet that closes the gap has been handled (drain_ooo).
NothingStranded ==
    \A s \in DOMAIN dir.ooo : SeqDiff(s, dir.next) > 0

\* A captured byte is in the buffer, still held, or lost in a known way.
NothingVanishes ==
    \A p \in seen : \/ p < base
                    \/ p \in Range(dir.buf) \cup Held(dir) \cup evicted \cup replaced

\* Whatever the tap delivers, the in-order buffer is a contiguous run of the
\* sender's stream from the first byte tracked: no byte twice, none skipped,
\* none out of place, and the expected number is the one after it.  Nothing
\* that could be appended is left in the OOO map.  A captured byte at or after
\* the first one tracked is in the buffer, still held, or was lost by the two
\* ways the code has of losing it: the eviction that keeps the map at
\* OOO_CAP_SEGMENTS and a segment that replaces another one with the same
\* number (append_payload, drain_ooo).
ReassemblySound ==
    /\ BufferIsStream
    /\ NothingStranded
    /\ NothingVanishes
    /\ Cardinality(DOMAIN dir.ooo) =< OooCap

=============================================================================
