------------------------------- MODULE Detector -------------------------------
(***************************************************************************)
(* SensitiveDetector.process_stream of detectors.py: the chunks of TCP     *)
(* streams are merged into the retained tails, scanned for tokens, and     *)
(* NTLM challenges and responses of the two directions are paired.         *)
(*                                                                         *)
(* A stream is a sequence of cells.  The constants say what stands where:  *)
(* Tokens are NTLM messages (the first cell of one is its signature, the   *)
(* cell before it the SMB2 header, if it has a session) and the lines USER *)
(* and PASS (the first cell is the command); TlsRecords start a stream.    *)
(* The raw NTLM scanner and the USER/PASS part of the line scanner stand   *)
(* for all scanners.  HTTP framing, file bodies and datagrams are left     *)
(* out.  Every chunk carries one packet, numbered by its place in sent.    *)
(***************************************************************************)
EXTENDS DetectorState

CONSTANTS
    Tokens,       \* [flow, dir, start, end, kind, session, size, usable] records
    SmbFlows,     \* flows with port 139 or 445
    TlsRecords,   \* [flow, dir, end] records: a TLS record from offset 0
    Chunks,       \* [flow, dir, start, end, lag] records: what reassembly can deliver
    MaxSent,      \* bound: calls
    MaxExpiries   \* bound: sweeps among them

Kinds == {"negotiate", "challenge", "response", "user", "pass"}

ASSUME StreamAssumption ==
    /\ \A t \in Tokens : /\ t.flow \in Flows /\ t.dir \in Directions /\ t.kind \in Kinds
                         /\ {t.start, t.end, t.size} \subseteq Nat /\ t.start + 2 <= t.end
                         /\ t.end - t.start <= Overlap
                         /\ t.session = NoSession \/ (t.session \in Nat /\ t.start > 0)
    /\ \A c \in Chunks : c.flow \in Flows /\ c.dir \in Directions /\ c.start < c.end
    /\ SmbFlows \subseteq Flows
    /\ \A r \in TlsRecords : r.flow \in Flows /\ r.dir \in Directions /\ r.end > 0

VARIABLES
    det,     \* the detector between two calls
    found,   \* history: the findings returned
    sent     \* history: the chunks processed, and the flows that were expired

vars == <<det, found, sent>>

Expiry(flows) == [expired |-> flows]
IsExpiry(event) == "expired" \in DOMAIN event

-----------------------------------------------------------------------------
(* _merge_stream *)

\* _overlay_provenance on the union of the tail and the chunk.
Overlay(tail, c, pid) ==
    LET lo == Min({tail.base, c.start})
        hi == Max({EndOf(tail), c.end})
    IN  [base |-> lo,
         carrier |-> [i \in 1 .. hi - lo |->
             LET o == lo + i - 1
             IN  IF o \in c.start .. c.end - 1 THEN pid ELSE tail.carrier[o - tail.base + 1]]]

\* The buffer to scan and the new tail.  "shared": the buffer is the tail, and
\* loses the spans that the provenance cap takes from it.
Merge(tail, c, pid) ==
    LET chunk == [base |-> c.start, carrier |-> [i \in 1 .. c.end - c.start |-> pid]]
        joined == Overlay(tail, c, pid)
        rotated == IF Len(joined.carrier) > Overlap + TrimSlack THEN Keep(joined, Overlap) ELSE joined
        To(scan, kept, shared) == [scan |-> scan, tail |-> kept, shared |-> shared]
    IN  IF tail.carrier = <<>> THEN To(chunk, Keep(chunk, Overlap), FALSE)
        ELSE IF c.start >= tail.base /\ c.end <= EndOf(tail)
             THEN To([chunk EXCEPT !.carrier = <<>>], tail, FALSE)         \* exact replay
        ELSE IF c.start > EndOf(tail) \/ c.end < tail.base
             THEN To(chunk, Keep(chunk, Overlap), FALSE)                   \* a hole
        ELSE IF c.start = EndOf(tail)
             THEN IF c.end - c.start > Overlap
                  THEN To(joined, Keep(joined, Overlap), FALSE)
                  ELSE To(rotated, rotated, TRUE)
        ELSE To(joined, IF c.end >= EndOf(tail) THEN Keep(joined, Overlap) ELSE tail, FALSE)

\* The detector after the merge and the _ScanContext.
MergeStream(d, c, pid) ==
    LET f == c.flow
        m == Merge(d.fs[f].tail[c.dir], c, pid)
        opened == [d EXCEPT !.fs[f].order = IF Contains(@, c.dir) THEN @ ELSE Append(@, c.dir)]
        e == EnforceProvenanceCap(SetTail(opened, f, c.dir, m.tail), f)
        buffer == IF m.shared THEN e.fs[f].tail[c.dir] ELSE m.scan
    IN  [d |-> e,
         ctx |-> [flow |-> f, dir |-> c.dir, base |-> buffer.base, carrier |-> buffer.carrier,
                  ts |-> pid - c.lag]]

-----------------------------------------------------------------------------
(* Emission: _provenance_for_span, _set_highwater, _emit *)

\* Mutant: a span that was dropped goes unnoticed.
ProvenanceWithoutHoles(ctx, start, end) ==
    LET at == {ctx.carrier[o - ctx.base + 1] : o \in start .. end - 1}
    IN  [ids |-> at \ {NoPacket}, whole |-> at # {NoPacket}]

Provenance(ctx, start, end) ==
    LET at == {ctx.carrier[o - ctx.base + 1] : o \in start .. end - 1}
    IN  [ids |-> at \ {NoPacket}, whole |-> NoPacket \notin at]

Combine(p, q) == [ids |-> p.ids \cup q.ids, whole |-> p.whole /\ q.whole]

SetHighwater(d, f, scope, marker) ==
    LET high == d.fs[f].highwater
        Record(r) == IF ~r.ok THEN r
                     ELSE [r EXCEPT !.d.fs[f].highwater = (scope :> marker) @@ @]
    IN  Record(IF scope \in DOMAIN high THEN [d |-> d, ok |-> marker > high[scope]]
               ELSE ReserveMetadata(d, f))

Emit(d, scope, marker, finding) ==
    LET gaps == IF finding.whole THEN {} ELSE {"provenance_incomplete_findings"}
        Tell(r) == IF ~r.ok THEN r
                   ELSE [r EXCEPT !.d = Loses([@ EXCEPT !.out = @ \cup {finding}], gaps)]
    IN  Tell(SetHighwater(d, finding.flow, scope, marker))

Finding(what, flow, dir, start, prov, other) ==
    [what |-> what, flow |-> flow, dir |-> dir, start |-> start,
     ids |-> prov.ids, whole |-> prov.whole, other |-> other]

Alone == -1     \* a finding about one token

-----------------------------------------------------------------------------
(* NTLM: _correlate_ntlm, _handle_ntlm_blob, _scan_ntlm_raw *)

Candidates(s, r) ==
    {c \in s.challenges : c.dir # r.dir /\ c.ts <= r.ts /\ c.session = r.session}

CorrelateNtlm(d, r) ==
    LET s == d.fs[r.flow]
        cands == Candidates(s, r)
        c == CHOOSE x \in cands : \A y \in cands :
                 x.ts > y.ts \/ (x.ts = y.ts /\ x.offset >= y.offset)
        scope == EntryKey(r)
        seen == scope \in DOMAIN s.paired
        dequeued == IF r \in s.responses THEN RemoveEntry(d, r) ELSE d
        Marked(x) == [x EXCEPT !.fs[r.flow].paired = (scope :> r.offset) @@ @]
        Told(x) == Emit(x, <<"correlation", r.dir, r.session>>, r.offset + 1,
                        Finding("pair", r.flow, r.dir, r.offset, Combine(c.prov, r.prov), c.offset))
        Dated(e) == IF e.ok /\ r.session = 0
                    THEN [e.d EXCEPT !.fs[r.flow].lastType3 = Max({@, r.ts})] ELSE e.d
        Pair(reserved) == IF reserved.ok THEN Dated(Told(Marked(reserved.d))) ELSE reserved.d
    IN  IF cands = {} \/ (seen /\ r.offset <= s.paired[scope]) THEN d
        ELSE IF ~r.usable THEN Loses(dequeued, {"ntlm_response_format_unsupported"})
        ELSE Pair(IF seen THEN [d |-> dequeued, ok |-> TRUE] ELSE ReserveMetadata(dequeued, r.flow))

HandleNtlm(d, ctx, t, session, allowed) ==
    LET f == ctx.flow
        prov == Provenance(ctx, t.start, t.end)
        limit == IF session = 0 /\ d.fs[f].ambiguous
                 THEN "ntlm_zero_session_ambiguous" ELSE "ntlm_session_unavailable"
        entry == [id |-> 0, flow |-> f, kind |-> t.kind, dir |-> ctx.dir, session |-> session,
                  offset |-> t.start, ts |-> ctx.ts, size |-> t.size, prov |-> prov,
                  usable |-> t.usable]
        Stale(e) == \E c \in e.fs[f].challenges :
                        EntryKey(c) = EntryKey(entry) /\ c.offset >= t.start
        Queued(e) == \E r \in e.fs[f].responses : r.dir = ctx.dir /\ r.offset = t.start
        PairQueue(e) == FoldLeft(CorrelateNtlm, e, Oldest(e.fs[f].responses))
        Correlate(e) ==
            IF t.kind = "challenge"
            THEN PairQueue(IF Stale(e) THEN e ELSE RetainChallenge(e, entry))
            ELSE IF Candidates(e.fs[f], entry) # {} THEN CorrelateNtlm(e, entry)
            ELSE IF Queued(e) THEN e ELSE RetainResponse(e, entry)
        Told(e) == IF allowed THEN Correlate(e.d) ELSE IF e.ok THEN Loses(e.d, {limit}) ELSE e.d
    IN  Told(Emit(d, <<"raw_ntlmssp", ctx.dir>>, t.end,
                  Finding(t.kind, f, ctx.dir, t.start, prov, Alone)))

\* smb2_session_for_token and smb2_header_seen on the retained tail.
SessionFor(tail, t) ==
    IF t.session # NoSession /\ t.start - 1 >= tail.base /\ t.start < EndOf(tail)
    THEN t.session ELSE NoSession

HeaderSeen(tail, f, dir) ==
    \E t \in Tokens : /\ t.flow = f /\ t.dir = dir /\ t.session # NoSession
                      /\ t.start - 1 \in tail.base .. EndOf(tail) - 1

RawToken(d, ctx, t) ==
    LET s == d.fs[ctx.flow]
        tail == s.tail[ctx.dir]
        smb2 == s.smb2Seen \/ (ctx.flow \in SmbFlows /\ HeaderSeen(tail, ctx.flow, ctx.dir))
        session == SessionFor(tail, t)
        competes == /\ t.kind = "challenge" /\ session = 0
                    /\ \E c \in s.challenges :
                          /\ EntryKey(c) = <<ctx.dir, 0>> /\ c.offset # t.start
                          /\ c.ts >= s.lastType3 \/ ctx.ts <= s.lastType3
        ambiguous == s.ambiguous \/ competes
    IN  HandleNtlm([d EXCEPT !.fs[ctx.flow].smb2Seen = smb2, !.fs[ctx.flow].ambiguous = ambiguous],
                   ctx, t, session,
                   /\ smb2 => session # NoSession
                   /\ ~(session = 0 /\ ambiguous))

-----------------------------------------------------------------------------
(* USER and PASS in _scan_line_protocols *)

LoginLine(d, ctx, t) ==
    LET f == ctx.flow
        s == d.fs[f]
        prov == Provenance(ctx, t.start, t.end)
        prior == {u \in s.users : u.dir = ctx.dir}
        user == [dir |-> ctx.dir, offset |-> t.start, size |-> t.size, prov |-> prov]
        stored == [d EXCEPT !.fs[f].users = (@ \ prior) \cup {user},
                            !.fs[f].authLoss = @ \ {ctx.dir}]
        Login(p, other) == Finding(t.kind, f, ctx.dir, t.start, p, other)
        login == IF t.kind = "user" THEN Login(prov, Alone)
                 ELSE IF prior = {}
                      THEN Login([prov EXCEPT !.whole = @ /\ ctx.dir \notin s.authLoss], Alone)
                 ELSE LET u == CHOOSE x \in prior : TRUE
                      IN  Login(Combine(u.prov, prov), u.offset)
    IN  Emit(IF t.kind = "user" THEN stored ELSE d, <<"user_pass", ctx.dir>>, t.end, login).d

-----------------------------------------------------------------------------
(* _scan *)

ScannerOf(t) == IF t.kind \in {"negotiate", "challenge", "response"} THEN "ntlm" ELSE "line"

\* In cells: less than a token for NTLM (16 bytes); a line and more (256 bytes),
\* but a gate that looks less far back (128 bytes).
Lookback == [sc \in Scanners |-> IF sc = "ntlm" THEN 1 ELSE 2]
GateLookback == 1

CtxEnd(ctx) == ctx.base + Len(ctx.carrier)
Cursor(s, ctx, sc) ==
    IF <<sc, ctx.dir>> \in DOMAIN s.cursor THEN s.cursor[<<sc, ctx.dir>>] ELSE ctx.base

\* _scanner_range
RangeStart(s, ctx, sc, lookback) == Max({ctx.base, Min({Cursor(s, ctx, sc), CtxEnd(ctx)}) - lookback})

\* Tokens of scanner sc whose first cell lies in the buffer from offset lo on.
TokensFrom(ctx, sc, lo) ==
    {t \in Tokens : /\ t.flow = ctx.flow /\ t.dir = ctx.dir /\ ScannerOf(t) = sc
                    /\ t.start \in lo .. CtxEnd(ctx) - 1}

ScannerGate(s, ctx, sc) ==
    /\ ctx.carrier # <<>>
    /\ \/ <<sc, ctx.dir>> \in s.pending
       \/ TokensFrom(ctx, sc, RangeStart(s, ctx, sc, GateLookback)) # {}

AdvanceCursor(d, ctx, sc) ==
    [d EXCEPT !.fs[ctx.flow].cursor =
        (<<sc, ctx.dir>> :> Max({Cursor(d.fs[ctx.flow], ctx, sc), CtxEnd(ctx)})) @@ @]

\* Mutant: the window of a scanner begins at its cursor.
WindowStartAtCursor(s, ctx, sc) == Max({ctx.base, Cursor(s, ctx, sc)})

\* _scanner_window: where it starts.
WindowStart(s, ctx, sc) ==
    Max({ctx.base, Cursor(s, ctx, sc)
                   - (IF <<sc, ctx.dir>> \in s.pending THEN Overlap ELSE Lookback[sc])})

\* A token that ends beyond the buffer is not decoded, nor is any negotiate message
\* (Type 1): the scanner remembers that something is pending.
RunScanner(d, ctx, sc) ==
    LET s == d.fs[ctx.flow]
        lo == WindowStart(s, ctx, sc)
        seen == TokensFrom(ctx, sc, lo)
        whole == {t \in seen : t.end <= CtxEnd(ctx) /\ t.kind # "negotiate"}
        Handle(x, t) == IF sc = "ntlm" THEN RawToken(x, ctx, t) ELSE LoginLine(x, ctx, t)
        flag == {<<sc, ctx.dir>>}
    IN  IF ~ScannerGate(s, ctx, sc) \/ lo >= CtxEnd(ctx) THEN AdvanceCursor(d, ctx, sc)
        ELSE [FoldLeft(Handle, AdvanceCursor(d, ctx, sc),
                       SetToSortSeq(whole, LAMBDA a, b : a.start < b.start))
                EXCEPT !.fs[ctx.flow].pending = IF seen = whole THEN @ \ flag ELSE @ \cup flag]

\* A TLS record at the origin of the stream is awaited, then hides the flow.
Scan(d, ctx) ==
    LET f == ctx.flow
        tls == {r \in TlsRecords : r.flow = f /\ r.dir = ctx.dir /\ ctx.base = 0}
        opaque == d.fs[f].opaque \/ tls # {}
    IN  IF ctx.carrier # <<>> /\ opaque
        THEN IF ~d.fs[f].opaque /\ \E r \in tls : CtxEnd(ctx) < r.end THEN d
             ELSE [d EXCEPT !.fs[f].opaque = TRUE]
        ELSE RunScanner(RunScanner(d, ctx, "ntlm"), ctx, "line")

-----------------------------------------------------------------------------
(* The calls a worker makes *)

Init ==
    /\ det = NewDetector
    /\ found = {}
    /\ sent = <<>>

Data == {i \in DOMAIN sent : ~IsExpiry(sent[i])}
Delivered(f, dir) ==
    UNION {sent[i].start .. sent[i].end - 1 :
              i \in {j \in Data : sent[j].flow = f /\ sent[j].dir = dir}}

\* What reassembly hands over: bytes it has not skipped, and no retransmission
\* of what left the tail.  Bound: the same chunk once.
Deliverable(c) ==
    LET old == Delivered(c.flow, c.dir)
        fresh == (c.start .. c.end - 1) \ old
    IN  /\ \A i \in Data : sent[i] # c
        /\ \A o \in fresh, p \in old : p < o
        /\ c.start \in old => c.start >= det.fs[c.flow].tail[c.dir].base

ProcessStream(c) ==
    /\ Len(sent) < MaxSent
    /\ Deliverable(c)
    /\ LET pid == Len(sent) + 1
           m == MergeStream(FlowState(det, c.flow), c, pid)
           e == EnforceRetainedCap(RefreshPendingAuth(Scan(m.d, m.ctx), c.flow), c.flow)
       IN  /\ det' = [e EXCEPT !.out = {}]
           /\ found' = found \cup {[finding |-> x, call |-> pid] : x \in e.out}
    /\ sent' = Append(sent, c)

\* expire with a cutoff of last activity: the order of _flows is that of activity.
ExpireIdle(n) ==
    /\ Len(sent) < MaxSent
    /\ Cardinality(DOMAIN sent \ Data) < MaxExpiries
    /\ LET idle == SubSeq(det.lru, 1, n)
       IN  /\ det' = FoldLeft(DropFlow, det, idle)
           /\ sent' = Append(sent, Expiry(ToSet(idle)))
    /\ UNCHANGED found

Next ==
    \/ \E c \in Chunks : ProcessStream(c)
    \/ \E n \in 1 .. Len(det.lru) : ExpireIdle(n)

Spec == Init /\ [][Next]_vars
-----------------------------------------------------------------------------
(* Properties *)

\* Between two calls, every total the detector keeps is the sum over the flows
\* it holds, the correlation index names exactly their entries, and all of it
\* is within the configured limits, whatever was evicted, trimmed, superseded
\* or dropped on the way.
RetentionReconciles ==
    LET Total(Of(_)) == SumOf(Live(det), LAMBDA f : Of(det.fs[f]))
    IN  /\ det.tailBytes = Total(StateTailBytes)
        /\ det.authBytes = Total(PendingAuthSize)
        /\ det.metadata = Total(StateMetadata)
        /\ det.spans = Total(StateSpans)
        /\ det.ntlmBytes = SumOf(det.index, SizeOf)
        /\ det.index = UNION {StateEntries(det.fs[f]) : f \in Live(det)}
        /\ \A f \in Live(det) :
              /\ det.fs[f].ntlmBytes = SumOf(StateEntries(det.fs[f]), SizeOf)
              /\ det.fs[f].ntlmBytes <= MaxFlowBytes
              /\ Cardinality(StateEntries(det.fs[f])) <= MaxFlowObjects
        /\ Len(det.lru) <= MaxFlows /\ RetainedBytes(det) <= MaxRetained
        /\ det.metadata <= MaxMetadata /\ det.spans <= MaxSpans
        /\ det.ntlmBytes <= MaxNtlmBytes /\ Cardinality(det.index) <= MaxNtlmObjects

LifeOf(f) == {i \in DOMAIN sent : \A j \in i .. Len(sent) : IsExpiry(sent[j]) => f \notin sent[j].expired}
Streamed(t) ==
    \A o \in t.start .. t.end - 1 :
        \E i \in LifeOf(t.flow) \cap Data :
            /\ sent[i].flow = t.flow /\ sent[i].dir = t.dir
            /\ o \in sent[i].start .. sent[i].end - 1
FindingsOf(t) ==
    {r \in found : /\ r.finding.what = t.kind /\ r.finding.flow = t.flow
                   /\ r.finding.dir = t.dir /\ r.finding.start = t.start}

\* _merge_stream trims the tail before it is scanned: a chunk that nearly fills
\* the tail pushes out the beginning of the token that it completes.
CutByTrim(t) ==
    \E i \in Data : /\ sent[i].flow = t.flow /\ sent[i].dir = t.dir
                    /\ t.start < sent[i].start /\ sent[i].start < t.end
                    /\ sent[i].end - sent[i].start <= Overlap
                    /\ sent[i].end - t.start > Overlap

\* However a token is cut into chunks, and however often its bytes are scanned
\* again, it is reported once while its flow is retained; it goes unreported
\* only in a flow that TLS hides, with a counter that the verdict reads, or
\* where one chunk of about the size of the tail pushes its beginning out.
TokenFoundOnce ==
    \A t \in {u \in Tokens : u.kind # "negotiate"} :
        LET inLife == {r \in FindingsOf(t) : r.call \in LifeOf(t.flow)}
        IN  /\ "evicted_flows" \notin det.lost => Cardinality(inLife) <= 1
            /\ det.lost = {} /\ Streamed(t) /\ ~det.fs[t.flow].opaque =>
                  inLife # {} \/ CutByTrim(t)

\* A Type 3 message that was reported has been paired with a challenge, or
\* waits for one, or a counter that the verdict reads tells that it was given up.
ResponseAccounted ==
    det.lost = {} =>
        \A r \in found : r.finding.what = "response" =>
            \/ \E p \in found : /\ p.finding.what = "pair" /\ p.finding.flow = r.finding.flow
                                 /\ p.finding.dir = r.finding.dir
                                 /\ p.finding.start = r.finding.start
            \/ \E e \in det.fs[r.finding.flow].responses :
                   e.dir = r.finding.dir /\ e.offset = r.finding.start

TokenAt(f, dir, start) ==
    {t \in Tokens : t.flow = f /\ t.dir = dir /\ t.start = start}
\* The token of a finding and, for a pair or a login, the other one.
TokensOf(x) ==
    TokenAt(x.flow, x.dir, x.start)
      \cup TokenAt(x.flow, IF x.what = "pair" THEN 1 - x.dir ELSE x.dir, x.other)
Carries(i, t, o) ==
    sent[i].flow = t.flow /\ sent[i].dir = t.dir /\ o \in sent[i].start .. sent[i].end - 1

\* A finding that claims complete provenance names, for every byte of its
\* tokens, a packet that carried it, and no packet that carried none of them:
\* after trims, overlaps, merged spans, and spans given up to the cap.  (Each
\* finding is looked at in the state after its call.)
ProvenanceIsTrue ==
    \A r \in {q \in found : q.call = Len(sent)} :
        LET x == r.finding
        IN  /\ x.whole => \A t \in TokensOf(x) : \A o \in t.start .. t.end - 1 :
                              \E i \in x.ids : Carries(i, t, o)
            /\ \A i \in x.ids : \E t \in TokensOf(x) : \E o \in t.start .. t.end - 1 : Carries(i, t, o)

\* When the last byte of t was captured.
Captured(t) ==
    LET first == Min({i \in Data : Carries(i, t, t.end - 1)})
    IN  first - sent[first].lag

\* A challenge is paired only with a response that was captured after it.
PairsInOrder ==
    \A r \in found : r.finding.what = "pair" =>
        \A c, t \in TokensOf(r.finding) :
            c.kind = "challenge" /\ t.kind = "response" => Captured(c) <= Captured(t)
==============================================================================
