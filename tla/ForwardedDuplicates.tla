------------------------- MODULE ForwardedDuplicates -------------------------
(***************************************************************************)
(* forwarded_duplicates.py and the way _dispatch_batch of supervisor.py    *)
(* uses it: the copy of a frame that the local host forwards is left out   *)
(* of the analysis when the frame it copies was admitted to a queue.       *)
(*                                                                         *)
(* A packet is identified by its place in the order of dispatch, so the    *)
(* deque of a cache entry is a set of packets in that order, and the       *)
(* OrderedDict is the set of the cached packets with the order of their    *)
(* entries.  plan handles one packet per step; nothing else touches the    *)
(* suppressor between its first step and the commit.  The state of the     *)
(* queue (WorkerQueues) is a choice: whether there is pressure, and        *)
(* whether the batch is admitted.  Byte totals of packets are left out.    *)
(***************************************************************************)
EXTENDS Integers, Sequences, FiniteSets, FiniteSetsExt

CONSTANTS
    Packets,       \* [whole, src, dst, key, hop, sum] records: what is captured
    Keys,          \* datagrams without hop count and checksum
    KeySize,       \* KeySize[k]: bytes of the key
    Word,          \* 2^16: values of a checksum
    Unit,          \* 0x0100: what one hop adds to a checksum
    MaxBytes,      \* max_bytes
    MaxEntries,    \* max_entries
    MaxAge,        \* max_age_seconds
    ExpirePause,   \* the pause between two sweeps
    MaxCopies,     \* MAX_INGRESS_COPIES_PER_KEY
    Moments,       \* bound: latest timestamps of batches
    MaxSkew,       \* bound: how far timestamps of one batch lie apart
    MaxPackets     \* bound: packets in a behaviour

NoSum == -1    \* ip_checksum is None: IPv6

ASSUME DuplicateAssumption ==
    /\ KeySize \in [Keys -> Nat \ {0}]
    /\ {Word, Unit, MaxBytes, MaxEntries, MaxAge, MaxCopies} \subseteq Nat \ {0}
    /\ Unit < Word
    /\ ExpirePause \in Nat /\ ExpirePause <= MaxAge
    /\ Moments \subseteq Nat /\ {MaxSkew, MaxPackets} \subseteq Nat
    /\ \A p \in Packets : /\ p.key \in Keys /\ p.hop \in Nat
                          /\ p.sum \in (0 .. Word - 1) \cup {NoSum}

VARIABLES
    frames,      \* every packet handed to _dispatch_batch so far, in order
    cached,      \* _accepted: the packets in its deques
    order,       \* _accepted: its keys, oldest use first
    keyBytes,    \* _key_bytes
    nextExpire,  \* _next_expire_ns
    plan,        \* the DuplicatePlan under construction, or NoPlan
    counts,      \* dispatched, suppressed, dropped, expired, evicted
    analysed,    \* history: packets in admitted batches
    skipped,     \* history: pairs (copy, ingress) that were suppressed
    spent        \* history: ingress packets whose copy was seen

vars == <<frames, cached, order, keyBytes, nextExpire, plan, counts, analysed, skipped, spent>>

NoPlan == [first |-> 0]

Init ==
    /\ frames = <<>>
    /\ cached = {} /\ order = <<>> /\ keyBytes = 0 /\ nextExpire = 0
    /\ plan = NoPlan
    /\ counts = [dispatched |-> 0, suppressed |-> 0, dropped |-> 0, expired |-> 0, evicted |-> 0]
    /\ analysed = {} /\ skipped = {} /\ spent = {}
-----------------------------------------------------------------------------
(***************************************************************************)
(* describe_forwarded_frame                                                *)
(***************************************************************************)

\* "whole" stands for the checks of length, fragmentation, link type, VLAN
\* tags, IP header and transport protocol.  "none" is a packet without a frame.
Role(p) ==
    IF ~p.whole \/ p.hop < 1 THEN "none"
    ELSE IF p.dst = "local" /\ p.src # "local" THEN "ingress"
    ELSE IF p.src = "local" /\ p.dst = "peer" THEN "egress"   \* not a group address
    ELSE "none"

Describe(p, t) == [role |-> Role(p), key |-> p.key, hop |-> p.hop, sum |-> p.sum, ts |-> t]

\* The index of _accepted and of plan.ingress.
SlotOf(i) == <<frames[i].key, frames[i].hop>>

\* Mutant: the carry is not added back.
ChecksumMatchesWithoutCarry(ingress, egress, decremented) ==
    IF NoSum \in {ingress, egress} THEN ingress = egress
    ELSE IF ~decremented THEN ingress = egress
    ELSE egress = (ingress + Unit) % Word

ChecksumMatches(ingress, egress, decremented) ==
    IF NoSum \in {ingress, egress} THEN ingress = egress
    ELSE IF ~decremented THEN ingress = egress
    ELSE LET total == ingress + Unit
         IN  egress = (total % Word) + (total \div Word)
-----------------------------------------------------------------------------
(***************************************************************************)
(* The cache                                                               *)
(***************************************************************************)

InSlot(ids, slot) == {i \in ids : SlotOf(i) = slot}

\* The left end of a deque, as a set.
First(ids) == {i \in ids : \A j \in ids : i <= j}

SizeOf(slots) == MapThenSumSet(LAMBDA s : KeySize[s[1]], slots)
SlotsOf(ids) == {SlotOf(i) : i \in ids}

\* Slots of a sequence of packets, each where it occurs first.
SlotSequence(ids) ==
    LET isFirst(n) == \A m \in 1 .. n - 1 : SlotOf(ids[m]) # SlotOf(ids[n])
        pick[n \in 0 .. Len(ids)] ==
            IF n = 0 THEN <<>>
            ELSE IF isFirst(n) THEN Append(pick[n - 1], SlotOf(ids[n])) ELSE pick[n - 1]
    IN  pick[Len(ids)]

\* move_to_end for each slot of a sequence, in turn, dropping what is not kept.
MovedToEnd(slots, touched, kept) ==
    LET rest(s) == s \in kept /\ \A n \in DOMAIN touched : touched[n] # s
        still(s) == s \in kept
    IN  SelectSeq(slots, rest) \o SelectSeq(touched, still)

\* _expire: the stale packets at the left ends of the deques.
Stale(now) ==
    {i \in cached : \A j \in InSlot(cached, SlotOf(i)) :
                        j <= i => now - frames[j].ts > MaxAge}
Expire(now) ==
    LET gone == IF now < nextExpire THEN {} ELSE Stale(now)
        slots == SlotsOf(cached) \ SlotsOf(cached \ gone)
        live(s) == s \notin slots
    IN  /\ nextExpire' = IF now < nextExpire THEN nextExpire ELSE now + ExpirePause
        /\ cached' = cached \ gone
        /\ order' = SelectSeq(order, live)
        /\ keyBytes' = keyBytes - SizeOf(slots)
        /\ counts' = [counts EXCEPT !.expired = @ + Cardinality(gone)]
-----------------------------------------------------------------------------
(***************************************************************************)
(* plan                                                                    *)
(***************************************************************************)

Planning == plan # NoPlan
BatchIds == plan.first .. Len(frames)

\* A batch arrives; its latest timestamp drives the expiry.
Begin(latest, pressure) ==
    /\ ~Planning
    /\ Len(frames) < MaxPackets
    /\ Expire(latest)
    /\ plan' = [first |-> Len(frames) + 1, latest |-> latest, pressure |-> pressure,
                retained |-> {}, pairs |-> {}, prior |-> {}, uses |-> <<>>, ingress |-> <<>>,
                taken |-> {}]
    /\ UNCHANGED <<frames, analysed, skipped, spent>>

UsedIds == {plan.uses[n] : n \in DOMAIN plan.uses}

\* Packets of the plan's deques that are not matched yet.
Waiting == {plan.ingress[n] : n \in DOMAIN plan.ingress} \ plan.taken

\* Packets of the cache from admitted[used] on.
LeftInCache == cached \ UsedIds

Fitting(ids, p, slot, decremented) ==
    {i \in First(InSlot(ids, slot)) :
        /\ 0 <= p.ts - frames[i].ts /\ p.ts - frames[i].ts <= MaxAge
        /\ ChecksumMatches(frames[i].sum, p.sum, decremented)}

\* What an egress packet is compared with, in order, and the first that fits:
\* <<where, packets>>.
Match(p) ==
    LET comparisons ==
          <<<<"batch", Fitting(Waiting, p, <<p.key, p.hop + 1>>, TRUE)>>,
            <<"cache", Fitting(LeftInCache, p, <<p.key, p.hop + 1>>, TRUE)>>,
            <<"batch", Fitting(Waiting, p, <<p.key, p.hop>>, FALSE)>>,
            <<"cache", Fitting(LeftInCache, p, <<p.key, p.hop>>, FALSE)>>>>
        found == {n \in DOMAIN comparisons : comparisons[n][2] # {}}
    IN  IF found = {} THEN <<"none", {}>> ELSE comparisons[Min(found)]

Arrive(p) ==
    /\ Planning
    /\ Len(frames) < MaxPackets
    /\ frames' = Append(frames, p)
    /\ UNCHANGED <<cached, order, keyBytes, nextExpire, counts, analysed, skipped>>

Id == Len(frames) + 1

PlanOther(p) ==
    /\ p.role = "none"
    /\ Arrive(p)
    /\ plan' = [plan EXCEPT !.retained = @ \cup {Id}]
    /\ UNCHANGED spent

PlanIngress(p) ==
    /\ p.role = "ingress"
    /\ Arrive(p)
    /\ plan' = [plan EXCEPT !.retained = @ \cup {Id}, !.ingress = Append(@, Id)]
    /\ UNCHANGED spent

\* Without a match it is analysed.  With one it is a copy to skip under pressure;
\* otherwise it is analysed as usual, and the ingress is used up all the same.
PlanEgress(p) ==
    /\ p.role = "egress"
    /\ Arrive(p)
    /\ LET match == Match(p)
           where == match[1]
           pairs == IF plan.pressure THEN {<<Id, i>> : i \in match[2]} ELSE {}
       IN  /\ plan' = [plan EXCEPT
                 !.retained = IF pairs = {} THEN @ \cup {Id} ELSE @,
                 !.pairs = @ \cup pairs,
                 !.prior = IF where = "cache" THEN @ \cup pairs ELSE @,
                 !.uses = IF where = "cache" THEN Append(@, Min(match[2])) ELSE @,
                 !.taken = IF where = "batch" THEN @ \cup match[2] ELSE @]
           /\ spent' = spent \cup match[2]

Plan(p) == PlanOther(p) \/ PlanIngress(p) \/ PlanEgress(p)
-----------------------------------------------------------------------------
(***************************************************************************)
(* The end of _dispatch_batch                                              *)
(***************************************************************************)

\* The latest timestamp the batch was announced with is one of its packets'.
BatchClosed == \E i \in BatchIds : frames[i].ts = plan.latest

\* The packets of a slot beyond MAX_INGRESS_COPIES_PER_KEY, the left ones.
Surplus(ids) ==
    {i \in ids : Cardinality({j \in InSlot(ids, SlotOf(i)) : j > i}) >= MaxCopies}

\* The oldest entries that go so that the rest is within the limits.
EvictedSlots(slots) ==
    LET left(n) == {slots[m] : m \in n + 1 .. Len(slots)}
        enough(n) == Len(slots) - n <= MaxEntries /\ SizeOf(left(n)) <= MaxBytes
    IN  {slots[m] : m \in 1 .. Min({n \in 0 .. Len(slots) : enough(n)})}

\* The first loop of commit and of commit_prior_skips_on_failure.
Consumed == cached \ UsedIds

\* Mutant: also the ingress of a pair within the batch.
EnteringMatched == {i \in Waiting \cup plan.taken : KeySize[frames[i].key] <= MaxBytes}

\* Packets that commit adds: ingress without a copy in the batch.
Entering == {i \in Waiting : KeySize[frames[i].key] <= MaxBytes}

\* commit
Commit ==
    LET enters(slot) == slot \in SlotsOf(Entering)
        kept1 == SlotsOf(Consumed)
        order1 == MovedToEnd(order, SlotSequence(plan.uses), kept1)
        all == Consumed \cup Entering
        order2 == MovedToEnd(order1, SelectSeq(SlotSequence(plan.ingress), enters), SlotsOf(all))
        surplus == Surplus(all)
        evicted == EvictedSlots(order2)
        live(s) == s \notin evicted
    IN  /\ cached' = {i \in all \ surplus : SlotOf(i) \notin evicted}
        /\ order' = SelectSeq(order2, live)
        /\ keyBytes' = keyBytes - SizeOf(SlotsOf(cached) \ kept1) + SizeOf(SlotsOf(all) \ kept1)
                       - SizeOf(evicted)
        /\ counts' = [counts EXCEPT
             !.dispatched = @ + Cardinality(plan.retained),
             !.suppressed = @ + Cardinality(plan.pairs),
             !.evicted = @ + Cardinality({i \in all : i \in surplus \/ SlotOf(i) \in evicted})]

\* Nothing is left to queue, or the put succeeds.
Admit ==
    /\ Planning /\ BatchClosed
    /\ Commit
    /\ analysed' = analysed \cup plan.retained
    /\ skipped' = skipped \cup plan.pairs
    /\ plan' = NoPlan
    /\ UNCHANGED <<frames, nextExpire, spent>>

\* Mutant: every pair of the plan is a skip, as after a success.
SkippedOnAnyOutcome == plan.pairs

\* failed_admission_packets: the copies of packets admitted earlier.
SkippedOnFailure == plan.prior

\* Mutant: only what was retained is counted as dropped.
DroppedRetained == plan.retained

\* failed_admission_packets: everything but those copies.
DroppedOnFailure == BatchIds \ {pair[1] : pair \in SkippedOnFailure}

\* The byte budget or the queue refuses the batch.
Refuse ==
    /\ Planning /\ BatchClosed
    /\ plan.retained # {}
    /\ counts' = [counts EXCEPT !.suppressed = @ + Cardinality(SkippedOnFailure),
                                !.dropped = @ + Cardinality(DroppedOnFailure)]
    /\ cached' = Consumed
    /\ order' = MovedToEnd(order, SlotSequence(plan.uses), SlotsOf(Consumed))
    /\ keyBytes' = keyBytes - SizeOf(SlotsOf(cached) \ SlotsOf(Consumed))
    /\ skipped' = skipped \cup SkippedOnFailure
    /\ plan' = NoPlan
    /\ UNCHANGED <<frames, nextExpire, analysed, spent>>
-----------------------------------------------------------------------------
\* A packet that the bound leaves no room to follow carries the latest timestamp.
Times == {t \in plan.latest - MaxSkew .. plan.latest :
             t >= 0 /\ (Len(frames) + 1 = MaxPackets /\ ~BatchClosed => t = plan.latest)}

Finished == ~Planning /\ Len(frames) = MaxPackets /\ UNCHANGED vars

Next ==
    \/ \E t \in Moments, pressure \in BOOLEAN : Begin(t, pressure)
    \/ Planning /\ \E p \in Packets, t \in Times : Plan(Describe(p, t))
    \/ Admit
    \/ Refuse
    \/ Finished

Spec == Init /\ [][Next]_vars
-----------------------------------------------------------------------------
(***************************************************************************)
(* Properties                                                              *)
(***************************************************************************)

\* A packet that _dispatch_batch leaves out as a forwarded copy has an ingress
\* packet of its own, which came earlier and was admitted to a queue: no two
\* copies share one, and none relies on a batch that was refused.
CopyHasAnalysedOriginal ==
    \A s \in skipped :
        /\ s[2] \in analysed /\ s[2] < s[1] /\ s[1] \notin analysed
        /\ \A t \in skipped : t # s => t[1] # s[1] /\ t[2] # s[2]

\* One's-complement arithmetic: values that differ by a multiple of Word - 1
\* are the same header checksum.
IsForwarded(ingress, egress) ==
    /\ ingress.role = "ingress" /\ egress.role = "egress" /\ ingress.key = egress.key
    /\ egress.ts - ingress.ts \in 0 .. MaxAge
    /\ \/ egress.hop = ingress.hop /\ egress.sum = ingress.sum
       \/ /\ egress.hop = ingress.hop - 1
          /\ \/ {ingress.sum, egress.sum} = {NoSum}
             \/ /\ NoSum \notin {ingress.sum, egress.sum}
                /\ (egress.sum - ingress.sum - Unit) % (Word - 1) = 0

\* What is left out really is the datagram of its ingress after at most one hop:
\* same bytes, not older than the limit, and a header checksum that is right for
\* the new hop count whatever the carry.
CopyIsForwarded == \A s \in skipped : IsForwarded(frames[s[2]], frames[s[1]])

\* Between batches every packet handed to _dispatch_batch is counted exactly once:
\* dispatched, suppressed or dropped.
EveryPacketOnce ==
    ~Planning =>
        /\ counts.dispatched = Cardinality(analysed)
        /\ counts.suppressed = Cardinality(skipped)
        /\ counts.dispatched + counts.suppressed + counts.dropped = Len(frames)

AdmittedIngress ==
    {i \in analysed : frames[i].role = "ingress" /\ KeySize[frames[i].key] <= MaxBytes}

\* Between batches the cache is within its limits, its byte count and its order of
\* entries fit its contents, and every admitted ingress packet is in it, used up
\* by a copy, expired or evicted, each of them once.
CacheReconciles ==
    ~Planning =>
        /\ keyBytes = SizeOf(SlotsOf(cached)) /\ keyBytes <= MaxBytes
        /\ Len(order) <= MaxEntries /\ Len(order) = Cardinality(SlotsOf(cached))
        /\ {order[n] : n \in DOMAIN order} = SlotsOf(cached)
        /\ \A i \in cached : Cardinality(InSlot(cached, SlotOf(i))) <= MaxCopies
        /\ cached \subseteq AdmittedIngress \ spent
        /\ Cardinality(AdmittedIngress \ spent)
             = Cardinality(cached) + counts.expired + counts.evicted
==============================================================================
