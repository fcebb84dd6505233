------------------------------ MODULE TcpStream ------------------------------
(***************************************************************************)
(* One direction of a TCP connection as reassembly.py keeps it: the next   *)
(* expected sequence position, and the out-of-order segments waiting       *)
(* beyond it.  Positions are sequence numbers unwrapped beyond 32 bits.    *)
(*                                                                         *)
(* The bytes of a packet are abstracted to one value, which tells whose    *)
(* bytes they are: a segment is an interval of positions with a value, and *)
(* two packets disagree about a position when their values differ.         *)
(*                                                                         *)
(* _drain, _skip_to_next_segment and _flush_direction all hand out the     *)
(* queued bytes in order up to some position, one chunk per contiguous     *)
(* run; they differ in how far they go.  Chunks and Advance describe the   *)
(* common part, with that position as a parameter.                         *)
(***************************************************************************)
EXTENDS Integers, Sequences, SequencesExt, FiniteSetsExt

CONSTANTS
    SeqModulus,    \* _SEQ_MODULUS, 2^32 in the code
    HistoryBytes   \* consumed_history_bytes

ASSUME TcpStreamAssumption ==
    /\ SeqModulus \in Nat /\ SeqModulus > 1 /\ SeqModulus % 2 = 0
    /\ HistoryBytes \in Nat \ {0}

\* None for a sequence position: below everything _unwrap_sequence returns.
NoSeq == -SeqModulus

\* Mutant: the sequence number is taken as it is, without unwrapping.
UnwrapRaw(sequence, reference) == sequence

\* _unwrap_sequence
Unwrap(sequence, reference) ==
    LET half == SeqModulus \div 2
        candidate == (reference \div SeqModulus) * SeqModulus + sequence
    IN  IF candidate - reference > half THEN candidate - SeqModulus
        ELSE IF reference - candidate > half THEN candidate + SeqModulus
        ELSE candidate

NewDirection ==
    [next |-> NoSeq, offset |-> 0, midstream |-> FALSE, gap |-> FALSE, syn |-> NoSeq,
     pending |-> {}, pendingBytes |-> 0, history |-> <<>>, acked |-> NoSeq,
     closed |-> FALSE]
-----------------------------------------------------------------------------
Bytes(segments) == SumFunction([s \in segments |-> s.end - s.start])

Covers(s, pos) == s.start <= pos /\ pos < s.end

Covered(segments, pos) == \E s \in segments : Covers(s, pos)

ValueAt(segments, pos) == (CHOOSE s \in segments : Covers(s, pos)).val

Overlap(s, t) == s.start < t.end /\ t.start < s.end

\* What is left of a piece when an older segment keeps its bytes.
Subtract(piece, old) ==
    IF ~Overlap(piece, old)
      THEN {piece}
      ELSE {p \in {[piece EXCEPT !.end = old.start], [piece EXCEPT !.start = old.end]} :
               p.start < p.end}

\* Mutant: a new segment is queued whole, whatever it overlaps.
UncoveredWhole(segment, existing) == {segment}

\* _tcp_uncovered_segments
Uncovered(segment, existing) ==
    FoldSet(LAMBDA old, pieces : UNION {Subtract(p, old) : p \in pieces},
            {segment}, existing)

\* The first position at or after pos that no segment covers.
RunEnd(segments, pos) ==
    Min({p \in {pos} \cup {s.end : s \in segments} : p >= pos /\ ~Covered(segments, p)})

\* Where a drain that skips gaps can stop: after the contiguous bytes, or after
\* any later run.
Stops(d) ==
    {RunEnd(d.pending, d.next)} \cup {RunEnd(d.pending, s.start) : s \in d.pending}

LastStop(d) == Max(Stops(d))

Gone(d, stop) == {s \in d.pending : s.start < stop}

\* The positions handed out when the direction advances to stop.
Fresh(d, stop) == {p \in d.next .. stop - 1 : Covered(d.pending, p)}

RunStarts(d, stop) == {p \in Fresh(d, stop) : p - 1 \notin Fresh(d, stop)}

\* Mutant: bytes after a skipped region are not marked.
CompletenessUnmarked(d, from) ==
    IF d.gap THEN "gapped" ELSE IF d.midstream THEN "midstream" ELSE "complete"

\* A chunk after a skipped region is marked, and so is every later one.
Completeness(d, from) ==
    IF d.gap \/ (\E p \in d.next .. from - 1 : ~Covered(d.pending, p)) THEN "gapped"
    ELSE IF d.midstream THEN "midstream" ELSE "complete"

\* The numbers of a finite set in ascending order.
Ascending(S) ==
    CHOOSE s \in [1 .. Cardinality(S) -> S] : \A i, j \in DOMAIN s : i < j => s[i] < s[j]

\* The chunks of that advance, in order: one for every contiguous run.
Chunks(d, stop) ==
    [i \in 1 .. Cardinality(RunStarts(d, stop)) |->
        LET from == Ascending(RunStarts(d, stop))[i]
            to   == RunEnd(d.pending, from)
        IN  [offset |-> d.offset + from - d.next,
             start |-> from,
             data |-> [j \in 1 .. to - from |-> ValueAt(d.pending, from + j - 1)],
             completeness |-> Completeness(d, from)]]

\* _remember_consumed: a bounded suffix of the last contiguous bytes.
Remember(d, stop) ==
    IF Fresh(d, stop) = {} THEN d.history
    ELSE LET from  == Max(RunStarts(d, stop))
             joins == IF from - 1 \in DOMAIN d.history THEN DOMAIN d.history ELSE {}
             kept  == {p \in joins \cup (from .. stop - 1) : p >= stop - HistoryBytes}
         IN  [p \in kept |-> IF p >= from THEN ValueAt(d.pending, p) ELSE d.history[p]]

\* Mutant: a skipped region does not count in the stream offset.
AdvanceWithoutGap(d, stop) ==
    [d EXCEPT !.next = stop,
              !.offset = @ + Cardinality(Fresh(d, stop)),
              !.gap = @ \/ Cardinality(Fresh(d, stop)) < stop - d.next,
              !.pending = @ \ Gone(d, stop),
              !.pendingBytes = @ - Bytes(Gone(d, stop)),
              !.history = Remember(d, stop)]

\* Mutant: the bytes a direction queues are not counted down.
AdvanceKeepsPendingBytes(d, stop) ==
    [d EXCEPT !.next = stop,
              !.offset = @ + stop - d.next,
              !.gap = @ \/ Cardinality(Fresh(d, stop)) < stop - d.next,
              !.pending = @ \ Gone(d, stop),
              !.history = Remember(d, stop)]

\* The direction after it.
Advance(d, stop) ==
    [d EXCEPT !.next = stop,
              !.offset = @ + stop - d.next,
              !.gap = @ \/ Cardinality(Fresh(d, stop)) < stop - d.next,
              !.pending = @ \ Gone(d, stop),
              !.pendingBytes = @ - Bytes(Gone(d, stop)),
              !.history = Remember(d, stop)]

\* _conflicts_with_consumed: 1 if a retransmission differs from emitted bytes.
ConsumedConflict(d, segment) ==
    IF \E p \in DOMAIN d.history : Covers(segment, p) /\ d.history[p] # segment.val
      THEN 1 ELSE 0

\* Queued segments that a retransmission contradicts.
PendingConflicts(d, segment) ==
    Cardinality({s \in d.pending : Overlap(s, segment) /\ s.val # segment.val})
==============================================================================
