-------------------------- MODULE FragmentReassembly --------------------------
(***************************************************************************)
(* FragmentReassembler of reassembly.py: a table of incomplete datagrams   *)
(* in the order of their last activity, bounded in datagrams, bytes, byte  *)
(* ranges and packet identifiers.                                          *)
(*                                                                         *)
(* The bytes of a fragment are abstracted to one value, so the ranges of a *)
(* datagram are a function from positions to values: its ranges, which the *)
(* code keeps disjoint and merges when adjacent, are the maximal runs of   *)
(* its domain.  Every call of process happens at a clock value of its own, *)
(* so the order of the table is the order of the activity stamps.          *)
(*                                                                         *)
(* A packet that is not a fragment is returned unchanged and does not      *)
(* appear here.  Peaks and capture timestamps are left out, and so is      *)
(* expire with an explicit capture clock, which no caller passes.          *)
(***************************************************************************)
EXTENDS Integers, FiniteSets, FiniteSetsExt, Functions

CONSTANTS
    Fragments,         \* [key, off, len, more, truncated, val] records
    Block,             \* the unit of fragment lengths, 8 in the code
    MaxDatagramBytes,  \* max_datagram_bytes
    MaxDatagrams,      \* max_datagrams
    MaxBytes,          \* max_buffered_bytes
    MaxRangesEach,     \* max_ranges_per_datagram
    MaxRanges,         \* max_buffered_ranges
    MaxSources,        \* max_buffered_provenance_entries
    Idle,              \* fragment_idle_seconds
    MaxTime            \* bound: clock values in a behaviour

ASSUME FragmentAssumption ==
    /\ {Block, MaxDatagramBytes, MaxDatagrams, MaxBytes, MaxRangesEach, MaxRanges,
        MaxSources} \subseteq Nat \ {0}
    /\ Idle \in Nat /\ MaxTime \in Nat
    /\ \A f \in Fragments : /\ f.off \in Nat /\ f.len \in Nat
                            /\ {f.more, f.truncated} \subseteq BOOLEAN
                            /\ f.off > 0 \/ f.more

VARIABLES
    states,     \* _states: key -> an incomplete datagram
    bytes,      \* _buffered_bytes
    ranges,     \* _buffered_ranges
    sources,    \* _buffered_provenance_entries
    stats,      \* the diagnostic counters
    clock,      \* time.monotonic_ns()
    created,    \* history: datagrams that entered the table
    delivered,  \* history: datagrams returned by process
    last        \* history: the last one, with everything its fragments said

vars == <<states, bytes, ranges, sources, stats, clock, created, delivered, last>>

NoEnd == -1   \* final_end is None

Empty == [first |-> FALSE, data |-> [p \in {} |-> 0], final |-> NoEnd, truncated |-> FALSE,
          bytes |-> 0, sources |-> 0, at |-> 0, said |-> {}]

Init ==
    /\ states = [k \in {} |-> Empty]
    /\ bytes = 0 /\ ranges = 0 /\ sources = 0
    /\ stats = [malformed |-> 0, conflicts |-> 0, evicted |-> 0, expired |-> 0]
    /\ clock = 0
    /\ created = 0 /\ delivered = 0
    /\ last = [data |-> [p \in {} |-> 0], said |-> {}]
-----------------------------------------------------------------------------
Positions(f) == f.off .. f.off + f.len - 1

\* len(state.ranges) after _merge_adjacent_byte_ranges
Runs(data) == Cardinality({p \in DOMAIN data : p - 1 \notin DOMAIN data})

Without(table, keys) == [k \in DOMAIN table \ keys |-> table[k]]

BytesOf(table, keys)   == SumFunctionOnSet([k \in keys |-> table[k].bytes], keys)
RangesOf(table, keys)  == SumFunctionOnSet([k \in keys |-> Runs(table[k].data)], keys)
SourcesOf(table, keys) == SumFunctionOnSet([k \in keys |-> table[k].sources], keys)

\* _discard, for every key of a set; b, r and s are the counters before it.
Discard(table, keys, b, r, s) ==
    LET gone == keys \cap DOMAIN table
    IN  /\ states' = Without(table, gone)
        /\ bytes' = b - BytesOf(table, gone)
        /\ ranges' = r - RangesOf(table, gone)
        /\ sources' = s - SourcesOf(table, gone)

IsMalformed(f) ==
    \/ f.off + f.len > MaxDatagramBytes
    \/ f.more /\ (f.len = 0 \/ f.len % Block # 0)

\* The datagram of the fragment, as the table has it.
Known(f) == IF f.key \in DOMAIN states THEN states[f.key] ELSE Empty

EndOf(f) == f.off + f.len

\* Mutant: only overlapping bytes that start at the same offset are compared.
ConflictsAtStart(f) ==
    \/ ~f.more /\ Known(f).final \notin {NoEnd, EndOf(f)}
    \/ f.off \in DOMAIN Known(f).data /\ f.len > 0 /\ Known(f).data[f.off] # f.val

\* Two last fragments that end at different places, or _has_conflicting_overlap.
Conflicts(f) ==
    \/ ~f.more /\ Known(f).final \notin {NoEnd, EndOf(f)}
    \/ \E p \in Positions(f) \cap DOMAIN Known(f).data : Known(f).data[p] # f.val

Additions(f) == Positions(f) \ DOMAIN Known(f).data

\* The datagram with what the fragment adds.
Merged(f) ==
    LET old == Known(f)
    IN  [first |-> old.first \/ f.off = 0,
         data |-> [p \in DOMAIN old.data \cup Positions(f) |->
                     IF p \in DOMAIN old.data THEN old.data[p] ELSE f.val],
         final |-> IF f.more THEN old.final ELSE EndOf(f),
         truncated |-> old.truncated \/ f.truncated,
         bytes |-> old.bytes + Cardinality(Additions(f)),
         sources |-> old.sources + (IF Additions(f) = {} THEN 0 ELSE 1),
         at |-> clock,
         said |-> old.said \cup {<<p, f.val>> : p \in Positions(f)}]

\* The datagrams last active up to a moment.
Oldest(table, moment) == {k \in DOMAIN table : table[k].at <= moment}

\* Mutant: an if instead of the while.
EvictedOnce(table, b, r, s) ==
    IF Cardinality(DOMAIN table) > MaxDatagrams \/ b > MaxBytes \/ r > MaxRanges \/ s > MaxSources
      THEN Oldest(table, Min({table[k].at : k \in DOMAIN table}))
      ELSE {}

\* _evict_to_limits: as many of the oldest datagrams as it takes.
Evicted(table, b, r, s) ==
    LET enough(moment) ==
            LET gone == Oldest(table, moment)
            IN  /\ Cardinality(DOMAIN table \ gone) <= MaxDatagrams
                /\ b - BytesOf(table, gone) <= MaxBytes
                /\ r - RangesOf(table, gone) <= MaxRanges
                /\ s - SourcesOf(table, gone) <= MaxSources
    IN  Oldest(table, Min({m \in {-1} \cup {table[k].at : k \in DOMAIN table} : enough(m)}))

Ready(d) == d.first /\ d.final # NoEnd /\ ~d.truncated

\* The run of bytes from position 0 ends where the datagram does.
IsComplete(d) ==
    Ready(d) /\ 0 .. d.final - 1 \subseteq DOMAIN d.data /\ d.final \notin DOMAIN d.data

\* It goes beyond the end.
Overruns(d) == Ready(d) /\ 0 .. d.final \subseteq DOMAIN d.data
-----------------------------------------------------------------------------
(***************************************************************************)
(* process                                                                 *)
(***************************************************************************)

InTime == clock < MaxTime

RejectMalformed(f) ==
    /\ InTime /\ IsMalformed(f)
    /\ stats' = [stats EXCEPT !.malformed = @ + 1]
    /\ Discard(states, {f.key}, bytes, ranges, sources)
    /\ clock' = clock + 1
    /\ UNCHANGED <<created, delivered, last>>

\* RFC 5722: an ambiguous datagram is dropped.
RejectConflict(f) ==
    /\ InTime /\ ~IsMalformed(f) /\ Conflicts(f)
    /\ stats' = [stats EXCEPT !.conflicts = @ + 1]
    /\ Discard(states, {f.key}, bytes, ranges, sources)
    /\ clock' = clock + 1
    /\ UNCHANGED <<created, delivered, last>>

\* The table and its counters with the fragment in it.
Grown(f) == [k \in DOMAIN states \cup {f.key} |-> IF k = f.key THEN Merged(f) ELSE states[k]]

GrownBytes(f)   == bytes + Cardinality(Additions(f))
GrownRanges(f)  == ranges + Runs(Merged(f).data) - Runs(Known(f).data)
GrownSources(f) == sources + (IF Additions(f) = {} THEN 0 ELSE 1)

\* What has to go: the datagram itself when it has too many ranges, else the
\* oldest ones, which may include it.
Victims(f) ==
    IF Runs(Merged(f).data) > MaxRangesEach
      THEN {f.key}
      ELSE Evicted(Grown(f), GrownBytes(f), GrownRanges(f), GrownSources(f))

\* Mutant: completeness is only tested when the last fragment arrives.
CompletesAtEnd(f) == ~f.more /\ f.key \notin Victims(f) /\ IsComplete(Merged(f))

Completes(f) == f.key \notin Victims(f) /\ IsComplete(Merged(f))

\* Mutant: datagrams evicted by the limits are not counted.
AcceptUncounted(f) ==
    LET datagram == Merged(f)
        spoilt == f.key \notin Victims(f) /\ Overruns(datagram)
        gone == Victims(f) \cup (IF Completes(f) \/ spoilt THEN {f.key} ELSE {})
    IN  /\ InTime /\ ~IsMalformed(f) /\ ~Conflicts(f)
        /\ Discard(Grown(f), gone, GrownBytes(f), GrownRanges(f), GrownSources(f))
        /\ stats' = [stats EXCEPT !.conflicts = @ + IF spoilt THEN 1 ELSE 0]
        /\ created' = created + IF f.key \in DOMAIN states THEN 0 ELSE 1
        /\ delivered' = delivered + IF Completes(f) THEN 1 ELSE 0
        /\ last' = IF Completes(f)
                     THEN [data |-> [p \in 0 .. datagram.final - 1 |-> datagram.data[p]],
                           said |-> datagram.said]
                     ELSE last
        /\ clock' = clock + 1

\* The fragment is taken; the limits are enforced; a datagram that is complete
\* is returned, and one whose bytes go beyond its end is dropped.
Accept(f) ==
    LET datagram == Merged(f)
        spoilt == f.key \notin Victims(f) /\ Overruns(datagram)
        gone == Victims(f) \cup (IF Completes(f) \/ spoilt THEN {f.key} ELSE {})
    IN  /\ InTime /\ ~IsMalformed(f) /\ ~Conflicts(f)
        /\ Discard(Grown(f), gone, GrownBytes(f), GrownRanges(f), GrownSources(f))
        /\ stats' = [stats EXCEPT !.evicted = @ + Cardinality(Victims(f)),
                                  !.conflicts = @ + IF spoilt THEN 1 ELSE 0]
        /\ created' = created + IF f.key \in DOMAIN states THEN 0 ELSE 1
        /\ delivered' = delivered + IF Completes(f) THEN 1 ELSE 0
        /\ last' = IF Completes(f)
                     THEN [data |-> [p \in 0 .. datagram.final - 1 |-> datagram.data[p]],
                           said |-> datagram.said]
                     ELSE last
        /\ clock' = clock + 1

\* Nothing arrives for a while.
Pause ==
    /\ InTime
    /\ clock' = clock + Idle
    /\ UNCHANGED <<states, bytes, ranges, sources, stats, created, delivered, last>>

\* expire(): the scan stops at the first datagram that is not idle.
Expire ==
    LET stale == Oldest(states, clock - Idle)
    IN  /\ stale # {}
        /\ Discard(states, stale, bytes, ranges, sources)
        /\ stats' = [stats EXCEPT !.expired = @ + Cardinality(stale)]
        /\ UNCHANGED <<clock, created, delivered, last>>

Next ==
    \/ \E f \in Fragments : RejectMalformed(f) \/ RejectConflict(f) \/ Accept(f)
    \/ Pause
    \/ Expire
    \/ ~InTime /\ UNCHANGED vars

Spec == Init /\ [][Next]_vars
-----------------------------------------------------------------------------
(***************************************************************************)
(* Properties                                                              *)
(***************************************************************************)

\* "strict ambiguity": a datagram that process returned consists of bytes its
\* fragments carried, and no fragment it was made of said anything else about
\* any of its positions.
Unambiguous ==
    /\ \A p \in DOMAIN last.data : <<p, last.data[p]>> \in last.said
    /\ \A pv \in last.said : pv[1] \in DOMAIN last.data => last.data[pv[1]] = pv[2]

\* A datagram whose bytes are all there is not left in the table, whatever the
\* order its fragments came in, unless a fragment was cut by the snap length.
NothingWithheld ==
    \A k \in DOMAIN states :
        LET d == states[k]
        IN  d.final # NoEnd /\ 0 .. d.final - 1 \subseteq DOMAIN d.data => d.truncated

\* "strict memory limits": the counters that the limits are tested on, and that
\* five paths keep, are what the table really holds, and it is within the limits.
MemoryBounded ==
    /\ bytes = SumFunctionOnSet([k \in DOMAIN states |-> Cardinality(DOMAIN states[k].data)],
                                DOMAIN states)
    /\ ranges = RangesOf(states, DOMAIN states)
    /\ sources = SourcesOf(states, DOMAIN states)
    /\ Cardinality(DOMAIN states) <= MaxDatagrams
    /\ bytes <= MaxBytes /\ ranges <= MaxRanges /\ sources <= MaxSources
    /\ \A k \in DOMAIN states : Runs(states[k].data) <= MaxRangesEach

\* Every datagram that entered the table is still there, or was delivered, or
\* one counter, and only one, says how it was lost: evicted, expired or in
\* conflict for each, malformed for those a malformed fragment spoilt.
LossCounted ==
    created - delivered - Cardinality(DOMAIN states) - stats.evicted - stats.expired
        - stats.conflicts \in 0 .. stats.malformed

==============================================================================
