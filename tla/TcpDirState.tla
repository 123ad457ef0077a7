---------------------------- MODULE TcpDirState ----------------------------
(***************************************************************************)
(* DirState of server/h-protocol/src/tcp.rs: the reassembly state of one   *)
(* direction of a captured TCP flow, as pure operators.  Sequence numbers  *)
(* are integers modulo Space (2^32 in the code), payload bytes are opaque  *)
(* values; the operators never look inside a byte.                         *)
(***************************************************************************)
EXTENDS Integers, Sequences, SequencesExt

CONSTANTS
    Space,   \* number of sequence numbers: a power of two
    OooCap,  \* OOO_CAP_SEGMENTS
    Nil     \* Rust's Option::Nil

ASSUME SeqAssumption ==
    /\ Space \in Nat /\ Space > 1 /\ Space % 2 = 0
    /\ OooCap \in Nat \ {0}
    /\ Nil \notin Nat

SeqNums == 0..(Space - 1)

\* DirState::new(); an absent OOO map and an empty one behave alike.
NewDir == [buf |-> <<>>, next |-> Nil, ooo |-> <<>>]

\* u32::wrapping_add.
WrappingAdd(seq, n) == (seq + n) % Space

\* a.wrapping_sub(b) as i32.
SeqDiff(a, b) ==
    LET d == (a - b) % Space
    IN  IF 2 * d >= Space THEN d - Space ELSE d

\* discard_buffers.
DiscardBuffers(d) == [d EXCEPT !.buf = <<>>, !.ooo = <<>>]

\* Deviation: a resync keeps the stale expected number.
Resynced_KeepsNext(d) == DiscardBuffers(d)

\* Every resync site: discard_buffers and forget the expected number.
Resynced(d) == [DiscardBuffers(d) EXCEPT !.next = Nil]

\* The map without the keys in S.
Without(m, S) == [k \in DOMAIN m \ S |-> m[k]]

\* Deviation: a segment drained from the map is appended whole.
Splice_IgnoresOverlap(d, seq, bytes) ==
    LET behind == -SeqDiff(seq, d.next)
    IN  IF behind < Len(bytes)
        THEN [d EXCEPT !.buf = @ \o bytes, !.next = WrappingAdd(seq, Len(bytes))]
        ELSE d

\* Append what `bytes' at `seq' adds beyond the expected number; a run that is
\* entirely behind it adds nothing.
Splice(d, seq, bytes) ==
    LET behind == -SeqDiff(seq, d.next)
    IN  IF behind < Len(bytes)
        THEN [d EXCEPT !.buf = @ \o SubSeq(bytes, behind + 1, Len(bytes)),
                       !.next = WrappingAdd(seq, Len(bytes))]
        ELSE d

\* The BTreeMap's first key: keys ascend as natural numbers.
Lowest(ooo) == CHOOSE s \in DOMAIN ooo : \A t \in DOMAIN ooo : s =< t

\* The break of drain_ooo's loop: nothing is held, or the first entry still has
\* a gap before it.
AtGap(d) == DOMAIN d.ooo = {} \/ SeqDiff(Lowest(d.ooo), d.next) > 0

\* One turn of the loop.
DrainOne(d) ==
    IF AtGap(d) THEN d
    ELSE [Splice(d, Lowest(d.ooo), d.ooo[Lowest(d.ooo)])
          EXCEPT !.ooo = Without(@, {Lowest(d.ooo)})]

\* drain_ooo: every turn removes a segment, so there are no more turns than
\* segments.
Turns(d) ==
    LET Turn[n \in 0..Cardinality(DOMAIN d.ooo)] == IF n = 0 THEN d ELSE DrainOne(Turn[n - 1])
    IN Turn

DrainOoo(d) == Turns(d)[Cardinality(DOMAIN d.ooo)]

\* The key a full map gives up for a new segment: the lowest one.
Evictable(ooo) ==
    {s \in DOMAIN ooo : Cardinality(DOMAIN ooo) >= OooCap /\ \A t \in DOMAIN ooo : s =< t}

\* The out-of-order branch: evict if full, then insert (an equal key is replaced).
HoldOoo(d, seq, bytes) ==
    LET kept == Without(d.ooo, Evictable(d.ooo))
    IN  [d EXCEPT !.ooo = [k \in DOMAIN kept \cup {seq} |-> IF k = seq THEN bytes ELSE kept[k]]]

\* Deviation: a segment ahead of the expected number is appended at once.
AppendPayload_GapIgnored(d, seq, bytes) ==
    IF d.next = Nil \/ SeqDiff(seq, d.next) >= 0
    THEN [d EXCEPT !.buf = @ \o bytes, !.next = WrappingAdd(seq, Len(bytes))]
    ELSE Splice(d, seq, bytes)

\* After an append the map is drained; a pure retransmission changes nothing.
Drained(d, spliced) == IF spliced = d THEN d ELSE DrainOoo(spliced)

\* append_payload for a non-empty payload.
AppendPayload(d, seq, bytes) ==
    IF d.next = Nil
    THEN [d EXCEPT !.buf = @ \o bytes, !.next = WrappingAdd(seq, Len(bytes))]
    ELSE IF SeqDiff(seq, d.next) > 0
         THEN HoldOoo(d, seq, bytes)
         ELSE Drained(d, Splice(d, seq, bytes))

\* SYN or SYN-ACK on this direction: the number after it is expected next.
SynSeen(d, seq) == [d EXCEPT !.next = WrappingAdd(seq, 1)]

=============================================================================
