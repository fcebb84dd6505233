---------------------------- MODULE DetectorState ----------------------------
(***************************************************************************)
(* The state a SensitiveDetector of detectors.py retains between two       *)
(* chunks, and the operations that keep it within its budgets.             *)
(*                                                                         *)
(* The state is one record d.  Each operation of the class is an operator  *)
(* from d to the next d, since a call of process_stream makes dozens of    *)
(* them and nothing runs in between.  The bytes at an offset of a stream   *)
(* never change, so a tail is its base offset and, for every byte, the     *)
(* packet its provenance span names (NoPacket: the span was dropped).      *)
(* Spans are maximal runs of the same packet, and name one packet each, so *)
(* the cap on packet references is the cap on spans.  A while loop that    *)
(* evicts in order is a fold that stops removing when its condition turns  *)
(* false.  Peaks are left out, and of the counters only the losses are     *)
(* kept: d.lost is the set of those that are not zero, without the ones    *)
(* that only repeat another (how much a victim had pending, the pressure   *)
(* on the metadata table).                                                 *)
(***************************************************************************)
EXTENDS Integers, SequencesExt

CONSTANTS
    Flows,
    Overlap,          \* overlap_bytes
    TrimSlack,        \* trim_slack
    MaxFlows,         \* max_flows
    MaxRetained,      \* max_retained_bytes
    MaxMetadata,      \* max_metadata_entries
    MaxSpans,         \* max_provenance_spans
    MaxNtlmBytes,     \* max_ntlm_correlation_bytes
    MaxFlowBytes,     \* max_ntlm_correlation_bytes_per_flow
    MaxNtlmObjects,   \* max_ntlm_correlation_objects
    MaxFlowObjects,   \* max_ntlm_correlation_objects_per_flow
    MarkerSize        \* what _state_pending_auth_size adds for a loss marker

ASSUME DetectorAssumption ==
    /\ {Overlap, MaxFlows, MaxRetained, MaxMetadata, MaxSpans, MaxNtlmBytes, MaxFlowBytes,
        MaxNtlmObjects, MaxFlowObjects, MarkerSize} \subseteq Nat \ {0}
    /\ TrimSlack \in Nat
    /\ MaxFlowBytes <= MaxNtlmBytes /\ MaxFlowObjects <= MaxNtlmObjects

Directions == {0, 1}
Scanners == {"ntlm", "line"}
NoPacket == 0
NoSession == -1     \* smb_session is None

-----------------------------------------------------------------------------
(* _FlowState, and SensitiveDetector.__init__ *)

NewFlow ==
    [ order     |-> <<>>,                                    \* keys of directions
      tail      |-> [dir \in Directions |-> [base |-> 0, carrier |-> <<>>]],
      highwater |-> <<>>,                                    \* emitted_highwater
      paired    |-> <<>>,                                    \* ntlm_pair_highwater
      challenges |-> {}, responses |-> {}, ntlmBytes |-> 0,
      smb2Seen |-> FALSE, ambiguous |-> FALSE, lastType3 |-> 0,
      users |-> {}, authLoss |-> {}, authBytes |-> 0,        \* plaintext_users, ...
      cursor  |-> <<>>,                                      \* scan_cursors
      pending |-> {},                                        \* ntlm_pending, line_pending
      opaque  |-> FALSE ]                                    \* tls_opaque_seen

NewDetector ==
    [ lru |-> <<>>, fs |-> [f \in Flows |-> NewFlow],        \* _flows
      tailBytes |-> 0, ntlmBytes |-> 0, authBytes |-> 0, metadata |-> 0, spans |-> 0,
      index |-> {}, nextId |-> 1,                            \* _ntlm_correlation_index
      lost |-> {}, out |-> {} ]

Live(d) == ToSet(d.lru)
Loses(d, counters) == [d EXCEPT !.lost = @ \cup counters]

SumOf(S, Size(_)) == MapThenSumSet(Size, S)
SizeOf(entry) == entry.size

EndOf(tail) == tail.base + Len(tail.carrier)
StateTailBytes(s) == Len(s.tail[0].carrier) + Len(s.tail[1].carrier)
StateEntries(s) == s.challenges \cup s.responses
StateMetadata(s) == Cardinality(DOMAIN s.highwater) + Cardinality(DOMAIN s.paired)
RetainedBytes(d) == d.tailBytes + d.ntlmBytes + d.authBytes

\* _state_pending_auth_size
PendingAuthSize(s) == SumOf(s.users, SizeOf) + MarkerSize * Cardinality(s.authLoss)

RefreshPendingAuth(d, f) ==
    [d EXCEPT !.authBytes = @ + PendingAuthSize(d.fs[f]) - d.fs[f].authBytes,
              !.fs[f].authBytes = PendingAuthSize(d.fs[f])]

-----------------------------------------------------------------------------
(* Provenance spans *)

IsSpanStart(carrier, i) ==
    carrier[i] # NoPacket /\ (i > 1 => carrier[i - 1] # carrier[i])
SpanCount(carrier) == Cardinality({i \in DOMAIN carrier : IsSpanStart(carrier, i)})
StateSpans(s) == SpanCount(s.tail[0].carrier) + SpanCount(s.tail[1].carrier)

\* provenance_spans.popleft()
PopSpan(carrier) ==
    LET first == Min({i \in DOMAIN carrier : IsSpanStart(carrier, i)})
    IN  [i \in DOMAIN carrier |->
            IF \A j \in first .. i : carrier[j] = carrier[first] THEN NoPacket ELSE carrier[i]]

\* A tail and the two totals that depend on it: _replace_direction_provenance,
\* _append_direction_provenance and the updates of _retained_tail_bytes.
SetTail(d, f, dir, tail) ==
    LET old == d.fs[f].tail[dir]
    IN  [d EXCEPT !.fs[f].tail[dir] = tail,
                  !.tailBytes = @ + Len(tail.carrier) - Len(old.carrier),
                  !.spans = @ + SpanCount(tail.carrier) - SpanCount(old.carrier)]

\* The last n bytes of a buffer, with the spans clipped to them.
Keep(tail, n) ==
    LET drop == Max({0, Len(tail.carrier) - n})
    IN  [base |-> tail.base + drop, carrier |-> SubSeq(tail.carrier, drop + 1, Len(tail.carrier))]

-----------------------------------------------------------------------------
(* Flows: _drop_flow, _flow_state, expire and the evictions *)

\* Mutant: the responses of a dropped flow are not counted.
DropFlowUncounted(d, f) ==
    LET s == d.fs[f]
    IN  [d EXCEPT !.lru = Remove(@, f),
                  !.fs[f] = NewFlow,
                  !.tailBytes = @ - StateTailBytes(s),
                  !.authBytes = @ - s.authBytes,
                  !.spans = @ - StateSpans(s),
                  !.ntlmBytes = @ - SumOf(StateEntries(s), SizeOf),
                  !.index = {e \in @ : e.flow # f},
                  !.metadata = @ - StateMetadata(s)]

DropFlow(d, f) ==
    LET s == d.fs[f]
    IN  [d EXCEPT !.lru = Remove(@, f),
                  !.fs[f] = NewFlow,
                  !.tailBytes = @ - StateTailBytes(s),
                  !.authBytes = @ - s.authBytes,
                  !.spans = @ - StateSpans(s),
                  !.ntlmBytes = @ - SumOf(StateEntries(s), SizeOf),
                  !.index = {e \in @ : e.flow # f},
                  !.metadata = @ - StateMetadata(s),
                  !.lost = @ \cup (IF s.responses = {} THEN {} ELSE {"ntlm_unmatched_at_eviction"})]

\* Drops victims in order until Done.
DropUntil(d, victims, Drop(_, _), Done(_)) ==
    LET Step(x, victim) == IF Done(x) THEN x ELSE Drop(x, victim)
    IN  FoldLeft(Step, d, victims)

\* The loops of _enforce_retained_cap, _enforce_provenance_cap and
\* _reserve_metadata_entry: whole flows other than f, least recently used first.
EvictFlows(d, f, Done(_), counter) ==
    LET Counted(e) == IF Live(e) = Live(d) THEN d ELSE Loses(e, {"evicted_flows", counter})
    IN  Counted(DropUntil(d, Remove(d.lru, f), DropFlow, Done))

FlowState(d, f) ==
    IF f \in Live(d)
    THEN [d EXCEPT !.lru = Append(Remove(@, f), f)]
    ELSE LET e == EvictFlows(d, f, LAMBDA x : Len(x.lru) < MaxFlows, "evicted_flows")
         IN  [e EXCEPT !.lru = Append(@, f)]

ReserveMetadata(d, f) ==
    LET Free(x) == x.metadata < MaxMetadata
        Take(e) == IF Free(e) THEN [d |-> [e EXCEPT !.metadata = @ + 1], ok |-> TRUE]
                   ELSE [d |-> Loses(e, {"metadata_cap_saturated"}), ok |-> FALSE]
    IN  Take(EvictFlows(d, f, Free, "metadata_cap_evicted_flows"))

\* One round of the last loop of _enforce_provenance_cap per direction.
EnforceProvenanceCap(d, f) ==
    LET Within(x) == x.spans <= MaxSpans
        Pop(x, dir) ==
            LET tail == x.fs[f].tail[dir]
            IN  IF Within(x) \/ SpanCount(tail.carrier) = 0 THEN x
                ELSE Loses(SetTail(x, f, dir, [tail EXCEPT !.carrier = PopSpan(@)]),
                           {"provenance_cap_trimmed_spans"})
        Rounds(e) == FoldLeft(Pop, e, FlattenSeq([i \in 1 .. e.spans |-> e.fs[f].order]))
    IN  IF Within(d) THEN d
        ELSE Loses(Rounds(EvictFlows(d, f, Within, "provenance_cap_evicted_flows")),
                   {"provenance_cap_pressure_events"})

-----------------------------------------------------------------------------
(* NTLM correlation entries: [id, flow, kind, dir, session, offset, ts, size, prov, usable] *)

EntryKey(e) == <<e.dir, e.session>>

\* Mutant: the total of the worker is not reduced.
RemoveEntryFromFlow(d, e) ==
    [d EXCEPT !.fs[e.flow].challenges = @ \ {e},
              !.fs[e.flow].responses = @ \ {e},
              !.fs[e.flow].ntlmBytes = @ - e.size,
              !.index = @ \ {e}]

RemoveEntry(d, e) ==
    [d EXCEPT !.fs[e.flow].challenges = @ \ {e},
              !.fs[e.flow].responses = @ \ {e},
              !.fs[e.flow].ntlmBytes = @ - e.size,
              !.ntlmBytes = @ - e.size,
              !.index = @ \ {e}]

Oldest(entries) == SetToSortSeq(entries, LAMBDA a, b : a.id < b.id)

EvictEntries(d, entries, Done(_)) ==
    LET Counted(e) == IF e.index = d.index THEN d
                      ELSE Loses(e, {"ntlm_correlation_cap_evicted_objects"})
    IN  Counted(DropUntil(d, Oldest(entries), RemoveEntry, Done))

ReserveEntry(d, f, size) ==
    LET FlowFits(x) == /\ Cardinality(StateEntries(x.fs[f])) < MaxFlowObjects
                       /\ x.fs[f].ntlmBytes + size <= MaxFlowBytes
        AllFits(x)  == Cardinality(x.index) < MaxNtlmObjects /\ x.ntlmBytes + size <= MaxNtlmBytes
        Pressed == IF FlowFits(d) /\ AllFits(d) THEN d
                   ELSE Loses(d, {"ntlm_correlation_cap_pressure_events"})
        OfFlow(x) == EvictEntries(x, StateEntries(x.fs[f]), FlowFits)
        OfAll(x) == EvictEntries(x, x.index, AllFits)
        Admit(x) == IF size <= MaxFlowBytes /\ FlowFits(x) /\ AllFits(x) THEN [d |-> x, ok |-> TRUE]
                    ELSE [d |-> Loses(x, {"ntlm_correlation_cap_dropped_objects"}), ok |-> FALSE]
    IN  Admit(IF size > MaxFlowBytes THEN Pressed ELSE OfAll(OfFlow(Pressed)))

\* The end of _retain_ntlm_challenge and _retain_ntlm_response.
AddEntry(d, e) ==
    LET Insert(x, new) ==
            [x EXCEPT !.nextId = @ + 1,
                      !.index = @ \cup {new},
                      !.fs[e.flow].challenges = IF e.kind = "challenge" THEN @ \cup {new} ELSE @,
                      !.fs[e.flow].responses = IF e.kind = "response" THEN @ \cup {new} ELSE @,
                      !.fs[e.flow].ntlmBytes = @ + e.size,
                      !.ntlmBytes = @ + e.size]
        Add(r) == IF r.ok THEN Insert(r.d, [e EXCEPT !.id = r.d.nextId]) ELSE r.d
    IN  Add(ReserveEntry(d, e.flow, e.size))

RetainResponse(d, e) == AddEntry(d, e)

RetainChallenge(d, e) ==
    LET same == {c \in d.fs[e.flow].challenges : EntryKey(c) = EntryKey(e)}
    IN  AddEntry(FoldLeft(RemoveEntry, d, Oldest(same)), e)

-----------------------------------------------------------------------------
(* _enforce_retained_cap *)

\* Every direction of f keeps its share of what correlation state leaves.
TrimTails(d, f) ==
    LET order == d.fs[f].order
        budget == Max({0, MaxRetained - d.ntlmBytes - d.authBytes})
        share == budget \div Max({1, Len(order)})
        Trim(x, i) ==
            SetTail(x, f, order[i],
                    Keep(x.fs[f].tail[order[i]],
                         share + (IF i <= budget - share * Len(order) THEN 1 ELSE 0)))
        Counted(e) == IF e.tailBytes = d.tailBytes THEN d ELSE Loses(e, {"tail_bytes_trimmed"})
    IN  Counted(FoldLeft(Trim, d, [i \in DOMAIN order |-> i]))

DiscardPendingAuth(d, f) ==
    LET Discard(x, user) ==
            Loses(RefreshPendingAuth([x EXCEPT !.fs[f].users = @ \ {user},
                                               !.fs[f].authLoss = @ \cup {user.dir}], f),
                  {"pending_auth_cap_dropped_objects"})
        victims == SetToSortSeq(d.fs[f].users, LAMBDA a, b : a.dir < b.dir)
    IN  DropUntil(d, victims, Discard, LAMBDA x : RetainedBytes(x) <= MaxRetained)

EnforceRetainedCap(d, f) ==
    LET Within(x) == RetainedBytes(x) <= MaxRetained
        Pressed == IF d.authBytes = 0 THEN d ELSE Loses(d, {"pending_auth_cap_pressure_events"})
        Trimmed(x) == IF Within(x) THEN x ELSE TrimTails(x, f)
        Unpaired(x) == EvictEntries(x, x.index, Within)
        OrDropped(x) == IF Within(x) THEN x
                        ELSE Loses(DropFlow(x, f), {"evicted_flows", "byte_cap_evicted_flows"})
    IN  IF Within(d) THEN d
        ELSE OrDropped(DiscardPendingAuth(Unpaired(Trimmed(
                 EvictFlows(Pressed, f, Within, "byte_cap_evicted_flows"))), f))
==============================================================================
