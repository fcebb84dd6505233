---------------------- MODULE ForwardedDuplicatesProofs ----------------------
(***************************************************************************)
(* What _dispatch_batch leaves out as forwarded copies, for every set of   *)
(* packets, every limit of the cache and any number of batches: each copy  *)
(* has an original of its own that was admitted, really is its datagram    *)
(* after at most one hop, and is counted once.                             *)
(***************************************************************************)
EXTENDS ForwardedDuplicates, FiniteSetTheorems, TLAPS

FrameType ==
    [role : {"none", "ingress", "egress"}, key : Keys, hop : Nat,
     sum : (0 .. Word - 1) \cup {NoSum}, ts : Int]

PlanType ==
    [first : Nat \ {0}, latest : Nat, pressure : BOOLEAN, retained : SUBSET Nat,
     pairs : SUBSET (Nat \X Nat), prior : SUBSET (Nat \X Nat), uses : Seq(Nat),
     ingress : Seq(Nat), taken : SUBSET Nat]

CountsType == [dispatched : Nat, suppressed : Nat, dropped : Nat, expired : Nat, evicted : Nat]

Ids == 1 .. Len(frames)

Types ==
    /\ frames \in Seq(FrameType)
    /\ cached \subseteq Ids /\ analysed \subseteq Ids /\ spent \subseteq Ids
    /\ skipped \subseteq Ids \X Ids
    /\ plan \in PlanType \cup {NoPlan}
    /\ counts \in CountsType

Firsts(R)  == {s[1] : s \in R}
Seconds(R) == {s[2] : s \in R}

\* No two copies are the same packet or share an original.
Distinct(R) == \A s, t \in R : s # t => s[1] # t[1] /\ s[2] # t[2]

\* Copies come after their originals, which are used up.
Genuine(log, used, R) ==
    \A s \in R : s[2] < s[1] /\ s[2] \in used /\ IsForwarded(log[s[2]], log[s[1]])

Offered == {plan.ingress[n] : n \in DOMAIN plan.ingress}

SkipInv ==
    /\ Distinct(skipped) /\ Genuine(frames, spent, skipped)
    /\ Seconds(skipped) \subseteq analysed /\ Firsts(skipped) \cap analysed = {}

\* Only the packets the current plan uses may be in the cache and used up.
CacheInv ==
    /\ cached \subseteq analysed
    /\ \A i \in cached : frames[i].role = "ingress"
    /\ ~Planning => cached \cap spent = {}

\* A batch is split into what is kept and the copies, and no ingress packet
\* is offered to two of them.
PlanInv ==
    Planning =>
        /\ plan.first <= Len(frames) + 1
        /\ \A i \in analysed \cup Firsts(skipped) : i < plan.first
        /\ plan.retained \cup Firsts(plan.pairs) = BatchIds
        /\ plan.retained \cap Firsts(plan.pairs) = {}
        /\ Distinct(plan.pairs) /\ Genuine(frames, spent, plan.pairs)
        /\ Seconds(plan.pairs) \cap Seconds(skipped) = {}
        /\ plan.prior \subseteq plan.pairs
        /\ Seconds(plan.prior) \subseteq cached
        /\ Seconds(plan.pairs \ plan.prior) \subseteq plan.retained
        /\ UsedIds \subseteq cached /\ cached \cap spent \subseteq UsedIds
        /\ Offered \subseteq plan.retained /\ Offered \cap spent \subseteq plan.taken
        /\ \A i \in Offered : frames[i].role = "ingress"

CountInv ==
    /\ counts.dispatched = Cardinality(analysed)
    /\ counts.suppressed = Cardinality(skipped)
    /\ counts.dispatched + counts.suppressed + counts.dropped
         = IF Planning THEN plan.first - 1 ELSE Len(frames)

Inv == Types /\ SkipInv /\ CacheInv /\ PlanInv /\ CountInv
-----------------------------------------------------------------------------
(***************************************************************************)
(* What fits                                                               *)
(***************************************************************************)

\* The incremental checksum of RFC 1624 is the sum of the new header, whatever
\* the carry.
LEMMA CarryIsModular ==
    ASSUME NEW a \in 0 .. Word - 1, NEW e,
           e = ((a + Unit) % Word) + ((a + Unit) \div Word)
    PROVE  (e - a - Unit) % (Word - 1) = 0
  <1> DEFINE w == Word
             u == Unit
             m == Word - 1
  <1>1. w \in Nat /\ u \in Nat /\ u > 0 /\ u < w /\ a \in Nat /\ a < w /\ m \in Nat /\ m > 0
    BY DuplicateAssumption
  <1> HIDE DEF w, u, m
  <1>2. CASE a + u < w
    <2>1. (a + u) % w = a + u /\ (a + u) \div w = 0 BY <1>1, <1>2
    <2>2. e - a - u = 0 BY <1>1, <2>1 DEF w, u
    <2>3. 0 % m = 0 BY <1>1
    <2> QED BY <2>2, <2>3 DEF m, u
  <1>3. CASE a + u >= w
    <2>1. (a + u) % w = a + u - w /\ (a + u) \div w = 1 BY <1>1, <1>3
    <2>2. e - a - u = 0 - m BY <1>1, <2>1 DEF w, u, m
    <2>3. (0 - m) % m = 0 BY <1>1
    <2> QED BY <2>2, <2>3 DEF m, u
  <1> QED BY <1>1, <1>2, <1>3

\* A set of numbers has one first element.
LEMMA FirstIsOne ==
    ASSUME NEW S, S \subseteq Nat, NEW i \in First(S) PROVE First(S) = {i}
  <1>1. \A j \in First(S) : j \in Nat /\ i \in Nat /\ j <= i /\ i <= j BY DEF First
  <1>2. \A j \in First(S) : j = i BY <1>1
  <1> QED BY <1>2

\* The left end of a deque is one packet of its slot.
LEMMA LeftEnd ==
    ASSUME Types, NEW ids, ids \subseteq Ids, NEW slot, NEW i \in First(InSlot(ids, slot))
    PROVE  /\ i \in ids /\ First(InSlot(ids, slot)) = {i}
           /\ <<frames[i].key, frames[i].hop>> = slot /\ frames[i] \in FrameType
  <1>1. i \in ids /\ <<frames[i].key, frames[i].hop>> = slot BY DEF First, InSlot, SlotOf
  <1>2. InSlot(ids, slot) \subseteq Nat
    <2>1. Ids \subseteq Nat BY DEF Ids, Types
    <2>2. InSlot(ids, slot) \subseteq ids BY Zenon DEF InSlot
    <2> QED BY <2>1, <2>2
  <1>3. First(InSlot(ids, slot)) = {i} BY <1>2, FirstIsOne
  <1>4. frames[i] \in FrameType BY <1>1 DEF Types, Ids
  <1> QED BY <1>1, <1>3, <1>4

\* Ages within the limit, as the comparison computes them.
LEMMA AgeInRange ==
    ASSUME NEW f \in FrameType, NEW p \in FrameType, 0 <= p.ts - f.ts, p.ts - f.ts <= MaxAge
    PROVE  p.ts - f.ts \in 0 .. MaxAge
  <1>1. p.ts \in Int /\ f.ts \in Int /\ MaxAge \in Nat BY DuplicateAssumption DEF FrameType
  <1> QED BY <1>1

\* An ingress packet that fits with the hop count of the egress packet.
LEMMA SameHopIsForwarded ==
    ASSUME Types, NEW ids, ids \subseteq Ids, NEW p \in FrameType, p.role = "egress",
           NEW i \in Fitting(ids, p, <<p.key, p.hop>>, FALSE), frames[i].role = "ingress"
    PROVE  i \in ids /\ IsForwarded(frames[i], p) /\ Fitting(ids, p, <<p.key, p.hop>>, FALSE) = {i}
  <1> DEFINE f == frames[i]
             F == First(InSlot(ids, <<p.key, p.hop>>))
  <1>1. /\ i \in F /\ 0 <= p.ts - f.ts /\ p.ts - f.ts <= MaxAge
        /\ ChecksumMatches(f.sum, p.sum, FALSE)
    BY DEF Fitting
  <1>2. i \in ids /\ F = {i} /\ <<f.key, f.hop>> = <<p.key, p.hop>> /\ f \in FrameType
    BY <1>1, LeftEnd
  <1>3. Fitting(ids, p, <<p.key, p.hop>>, FALSE) = {i} BY <1>2 DEF Fitting
  <1>4. p.ts - f.ts \in 0 .. MaxAge /\ f.role = "ingress" BY <1>1, <1>2, AgeInRange
  <1> HIDE DEF f
  <1>5. p.sum = f.sum BY <1>1 DEF ChecksumMatches
  <1>6. IsForwarded(f, p) BY <1>2, <1>4, <1>5 DEF IsForwarded
  <1> QED BY <1>2, <1>3, <1>6 DEF f

\* An ingress packet that fits with one hop more than the egress packet has.
LEMMA NextHopIsForwarded ==
    ASSUME Types, NEW ids, ids \subseteq Ids, NEW p \in FrameType, p.role = "egress",
           NEW i \in Fitting(ids, p, <<p.key, p.hop + 1>>, TRUE), frames[i].role = "ingress"
    PROVE  i \in ids /\ IsForwarded(frames[i], p) /\ Fitting(ids, p, <<p.key, p.hop + 1>>, TRUE) = {i}
  <1> DEFINE f == frames[i]
             F == First(InSlot(ids, <<p.key, p.hop + 1>>))
  <1>1. /\ i \in F /\ 0 <= p.ts - f.ts /\ p.ts - f.ts <= MaxAge
        /\ ChecksumMatches(f.sum, p.sum, TRUE)
    BY DEF Fitting
  <1>2. i \in ids /\ F = {i} /\ <<f.key, f.hop>> = <<p.key, p.hop + 1>> /\ f \in FrameType
    BY <1>1, LeftEnd
  <1>3. Fitting(ids, p, <<p.key, p.hop + 1>>, TRUE) = {i} BY <1>2 DEF Fitting
  <1>4. p.ts - f.ts \in 0 .. MaxAge /\ f.role = "ingress" BY <1>1, <1>2, AgeInRange
  <1> HIDE DEF f
  <1>5. f.sum \in (0 .. Word - 1) \cup {NoSum} /\ f.hop \in Nat /\ p.hop \in Nat
    BY <1>2 DEF FrameType
  <1>6. f.key = p.key /\ p.hop = f.hop - 1 BY <1>2, <1>5
  <1>7. \/ {f.sum, p.sum} = {NoSum}
        \/ /\ NoSum \notin {f.sum, p.sum}
           /\ (p.sum - f.sum - Unit) % (Word - 1) = 0
    <2>1. CASE NoSum \in {f.sum, p.sum}
      <3>1. f.sum = p.sum BY <1>1, <2>1 DEF ChecksumMatches
      <3> QED BY <2>1, <3>1
    <2>2. CASE NoSum \notin {f.sum, p.sum}
      <3>1. p.sum = ((f.sum + Unit) % Word) + ((f.sum + Unit) \div Word)
        BY <1>1, <2>2 DEF ChecksumMatches
      <3>2. f.sum \in 0 .. Word - 1 BY <1>5, <2>2
      <3>3. (p.sum - f.sum - Unit) % (Word - 1) = 0 BY <3>1, <3>2, CarryIsModular
      <3> QED BY <2>2, <3>3
    <2> QED BY <2>1, <2>2
  <1>8. IsForwarded(f, p) BY <1>4, <1>6, <1>7 DEF IsForwarded
  <1> QED BY <1>2, <1>3, <1>8 DEF f

\* The least of some of the four ways to match is one of them.
LEMMA MinOfFour ==
    ASSUME NEW S \in SUBSET (1 .. 4), S # {} PROVE Min(S) \in S
  <1>1. \E x \in S : \A y \in S : x <= y
    <2>1. S \subseteq {1, 2, 3, 4} OBVIOUS
    <2>2. CASE 1 \in S BY <2>1, <2>2
    <2>3. CASE 1 \notin S /\ 2 \in S BY <2>1, <2>3
    <2>4. CASE 1 \notin S /\ 2 \notin S /\ 3 \in S BY <2>1, <2>4
    <2>5. CASE 1 \notin S /\ 2 \notin S /\ 3 \notin S
      <3>1. S = {4} BY <2>1, <2>5
      <3> QED BY <3>1
    <2> QED BY <2>2, <2>3, <2>4, <2>5
  <1> QED BY <1>1 DEF Min

\* The least of one number.
LEMMA MinOfOne == ASSUME NEW i \in Nat PROVE Min({i}) = i
  <1>1. \A x \in {i} : (\A y \in {i} : x <= y) => x = i OBVIOUS
  <1>2. \E x \in {i} : \A y \in {i} : x <= y OBVIOUS
  <1> QED BY <1>1, <1>2 DEF Min

\* What an egress packet is matched with: an ingress packet that waits in the batch
\* or is left in the cache, one at most.
Matched(p, m) ==
    \/ m[1] = "none" /\ m[2] = {}
    \/ \E i \in Waiting : m[1] = "batch" /\ m[2] = {i} /\ IsForwarded(frames[i], p)
    \/ \E i \in LeftInCache : m[1] = "cache" /\ m[2] = {i} /\ IsForwarded(frames[i], p)

\* What a match of an egress frame found fits the frame.
LEMMA MatchFacts ==
    ASSUME Inv, Planning, NEW p \in FrameType, p.role = "egress"
    PROVE  Matched(p, Match(p))
  <1> DEFINE A == Fitting(Waiting, p, <<p.key, p.hop + 1>>, TRUE)
             B == Fitting(LeftInCache, p, <<p.key, p.hop + 1>>, TRUE)
             C == Fitting(Waiting, p, <<p.key, p.hop>>, FALSE)
             D == Fitting(LeftInCache, p, <<p.key, p.hop>>, FALSE)
             cs == <<<<"batch", A>>, <<"cache", B>>, <<"batch", C>>, <<"cache", D>>>>
             found == {n \in DOMAIN cs : cs[n][2] # {}}
  <1>1. Match(p) = IF found = {} THEN <<"none", {}>> ELSE cs[Min(found)] BY DEF Match
  <1>2. /\ Types /\ Waiting \subseteq Ids /\ LeftInCache \subseteq Ids
        /\ \A i \in Waiting \cup LeftInCache : frames[i].role = "ingress"
    <2>1. Types /\ CacheInv /\ PlanInv BY DEF Inv
    <2>2. Waiting \subseteq Offered /\ LeftInCache \subseteq cached BY DEF Waiting, Offered, LeftInCache
    <2>3. plan \in PlanType BY <2>1 DEF Types, Planning
    <2>4. BatchIds \subseteq Ids
      <3>1. plan.first \in Nat \ {0} /\ Len(frames) \in Nat BY <2>1, <2>3 DEF PlanType, Types
      <3> QED BY <3>1 DEF BatchIds, Ids
    <2>5. Offered \subseteq BatchIds BY <2>1 DEF PlanInv
    <2> QED BY <2>1, <2>2, <2>4, <2>5 DEF Types, PlanInv, CacheInv
  <1>3. ASSUME NEW ids, ids = Waiting \/ ids = LeftInCache
        PROVE  /\ \A i \in Fitting(ids, p, <<p.key, p.hop + 1>>, TRUE) :
                     i \in ids /\ IsForwarded(frames[i], p)
                     /\ Fitting(ids, p, <<p.key, p.hop + 1>>, TRUE) = {i}
               /\ \A i \in Fitting(ids, p, <<p.key, p.hop>>, FALSE) :
                     i \in ids /\ IsForwarded(frames[i], p)
                     /\ Fitting(ids, p, <<p.key, p.hop>>, FALSE) = {i}
    <2>1. ids \subseteq Ids /\ \A i \in ids : frames[i].role = "ingress" BY <1>2, <1>3
    <2>2. \A i \in Fitting(ids, p, <<p.key, p.hop + 1>>, TRUE) : frames[i].role = "ingress"
      BY <2>1 DEF Fitting, First, InSlot
    <2>3. \A i \in Fitting(ids, p, <<p.key, p.hop>>, FALSE) : frames[i].role = "ingress"
      BY <2>1 DEF Fitting, First, InSlot
    <2>4. ASSUME NEW i \in Fitting(ids, p, <<p.key, p.hop + 1>>, TRUE)
          PROVE  i \in ids /\ IsForwarded(frames[i], p)
                 /\ Fitting(ids, p, <<p.key, p.hop + 1>>, TRUE) = {i}
      BY <1>2, <2>1, <2>2, NextHopIsForwarded
    <2>5. ASSUME NEW i \in Fitting(ids, p, <<p.key, p.hop>>, FALSE)
          PROVE  i \in ids /\ IsForwarded(frames[i], p)
                 /\ Fitting(ids, p, <<p.key, p.hop>>, FALSE) = {i}
      BY <1>2, <2>1, <2>3, SameHopIsForwarded
    <2> QED BY <2>4, <2>5
  <1>4. /\ \A i \in A : i \in Waiting /\ IsForwarded(frames[i], p) /\ A = {i}
        /\ \A i \in C : i \in Waiting /\ IsForwarded(frames[i], p) /\ C = {i}
        /\ \A i \in B : i \in LeftInCache /\ IsForwarded(frames[i], p) /\ B = {i}
        /\ \A i \in D : i \in LeftInCache /\ IsForwarded(frames[i], p) /\ D = {i}
    BY <1>3
  <1> HIDE DEF A, B, C, D
  <1>5. CASE found = {}
    <2>1. Match(p)[1] = "none" /\ Match(p)[2] = {} BY <1>1, <1>5
    <2> QED BY <2>1 DEF Matched
  <1>6. CASE found # {}
    <2>1. DOMAIN cs = 1 .. 4 OBVIOUS
    <2>2. found \in SUBSET (1 .. 4) /\ \A n \in found : cs[n][2] # {} BY <2>1
    <2>3. PICK k \in found : Min(found) = k BY <1>6, <2>2, MinOfFour
    <2>4. \/ cs[k] = <<"batch", A>> /\ A # {}
          \/ cs[k] = <<"cache", B>> /\ B # {}
          \/ cs[k] = <<"batch", C>> /\ C # {}
          \/ cs[k] = <<"cache", D>> /\ D # {}
      <3>1. k \in 1 .. 4 /\ cs[k][2] # {} BY <2>2
      <3>2. k = 1 \/ k = 2 \/ k = 3 \/ k = 4 BY <3>1
      <3> QED BY <3>1, <3>2
    <2>5. Match(p) = cs[k] BY <1>1, <1>6, <2>3
    <2> HIDE DEF cs, found
    <2>6. CASE cs[k] = <<"batch", A>> /\ A # {} BY <1>4, <2>5, <2>6 DEF Matched
    <2>7. CASE cs[k] = <<"cache", B>> /\ B # {} BY <1>4, <2>5, <2>7 DEF Matched
    <2>8. CASE cs[k] = <<"batch", C>> /\ C # {} BY <1>4, <2>5, <2>8 DEF Matched
    <2>9. CASE cs[k] = <<"cache", D>> /\ D # {} BY <1>4, <2>5, <2>9 DEF Matched
    <2> QED BY <2>4, <2>6, <2>7, <2>8, <2>9
  <1> QED BY <1>5, <1>6

-----------------------------------------------------------------------------
(***************************************************************************)
(* A packet joins the plan                                                 *)
(***************************************************************************)

\* What describe_forwarded_frame returns.
LEMMA DescribeType ==
    ASSUME NEW p \in Packets, NEW t \in Int PROVE Describe(p, t) \in FrameType
  <1>1. /\ p.key \in Keys /\ p.hop \in Nat /\ p.sum \in (0 .. Word - 1) \cup {NoSum}
    BY DuplicateAssumption
  <1>2. Role(p) \in {"none", "ingress", "egress"} BY DEF Role
  <1> QED BY <1>1, <1>2 DEF Describe, FrameType

\* The packets seen so far stay what they are.
LEMMA AppendKeeps ==
    ASSUME Types, NEW p \in FrameType, frames' = Append(frames, p)
    PROVE  /\ frames' \in Seq(FrameType) /\ Len(frames) \in Nat /\ Len(frames') = Len(frames) + 1
           /\ \A i \in Ids : i \in Nat /\ i < Id /\ frames'[i] = frames[i]
           /\ frames'[Id] = p /\ Ids' = Ids \cup {Id} /\ Id \notin Ids
  BY DEF Types, Ids, Id

\* Pairs stay genuine when packets and uses are added.
LEMMA GenuineStays ==
    ASSUME NEW log, NEW more, NEW used, NEW use, NEW S, NEW R, R \subseteq S \X S,
           \A i \in S : more[i] = log[i], used \subseteq use, Genuine(log, used, R)
    PROVE  Genuine(more, use, R)
  BY DEF Genuine

\* While a batch is planned there is a plan, and the batch is at the end of the frames.
LEMMA PlanningPlan ==
    ASSUME Types, Planning
    PROVE  /\ plan \in PlanType /\ plan.first \in Nat \ {0} /\ Len(frames) \in Nat
           /\ BatchIds \subseteq Ids /\ Ids \subseteq Nat
           /\ \A i \in BatchIds : plan.first <= i
  <1>1. plan \in PlanType BY DEF Types, Planning
  <1>2. plan.first \in Nat \ {0} /\ Len(frames) \in Nat BY <1>1 DEF PlanType, Types
  <1> QED BY <1>1, <1>2 DEF BatchIds, Ids

\* A plan is told from no plan.
LEMMA PlanIsNotNone == \A q \in PlanType : q # NoPlan /\ q.first # 0
  <1>1. \A q \in PlanType : q.first # 0 BY DEF PlanType
  <1>2. NoPlan.first = 0 BY DEF NoPlan
  <1> QED BY <1>1, <1>2

\* The pairs of a plan are pairs of packets seen so far, with originals used up.
LEMMA PairsSeen ==
    ASSUME Inv, Planning
    PROVE  /\ plan.pairs \subseteq Ids \X Ids /\ Seconds(plan.pairs) \subseteq spent
           /\ \A s \in plan.pairs : s[1] \in BatchIds /\ s[1] \in Ids /\ s[2] \in Ids /\ s[2] \in spent
  <1>1. Types /\ PlanInv BY DEF Inv
  <1>2. plan.pairs \subseteq Nat \X Nat BY <1>1, PlanningPlan DEF PlanType
  <1>3. \A s \in plan.pairs : s[1] \in BatchIds /\ s[2] \in spent
    BY <1>1 DEF PlanInv, Firsts, Genuine
  <1>4. \A s \in plan.pairs : s[1] \in Ids /\ s[2] \in Ids BY <1>1, <1>3, PlanningPlan DEF Types
  <1>5. plan.pairs \subseteq Ids \X Ids BY <1>2, <1>4
  <1> QED BY <1>3, <1>4, <1>5 DEF Seconds

\* What the skips and the counters say is not touched by a packet that joins the plan.
LEMMA ArrivalKeeps ==
    ASSUME Inv, Planning, NEW p \in FrameType, Arrive(p), spent \subseteq spent', spent' \subseteq Ids,
           plan' \in PlanType, plan'.first = plan.first
    PROVE  Types' /\ SkipInv' /\ CacheInv' /\ CountInv' /\ Planning'
  <1> USE DEF Arrive
  <1>1. Types BY DEF Inv
  <1>2. /\ frames' \in Seq(FrameType) /\ Ids \subseteq Ids' /\ \A i \in Ids : frames'[i] = frames[i]
    BY <1>1, AppendKeeps
  <1>3. Types' BY <1>1, <1>2 DEF Types
  <1>4. Planning' BY PlanIsNotNone DEF Planning
  <1>5. SkipInv'
    <2>1. SkipInv BY DEF Inv
    <2>2. skipped \subseteq Ids \X Ids /\ Genuine(frames, spent, skipped) BY <1>1, <2>1 DEF Types, SkipInv
    <2>3. Genuine(frames', spent', skipped) BY <1>2, <2>2, GenuineStays
    <2> QED BY <2>1, <2>3 DEF SkipInv
  <1>6. CacheInv'
    <2>1. CacheInv /\ cached \subseteq Ids BY <1>1 DEF Inv, Types
    <2> QED BY <1>2, <1>4, <2>1 DEF CacheInv
  <1>7. CountInv' BY <1>4 DEF Inv, CountInv
  <1> QED BY <1>3, <1>4, <1>5, <1>6, <1>7

\* The pairs a packet adds to the plan: itself with its match, under pressure.
NewPairs(M) == IF plan.pressure THEN {<<Id, i>> : i \in M} ELSE {}

\* The plan after a packet that was matched with the packets M, found at "where";
\* "mine" is the packet itself if it is an ingress.
PlannedAs(q, where, M, mine) ==
    /\ q \in PlanType /\ q.first = plan.first
    /\ q.retained = IF NewPairs(M) = {} THEN plan.retained \cup {Id} ELSE plan.retained
    /\ q.pairs = plan.pairs \cup NewPairs(M)
    /\ q.prior = IF where = "cache" THEN plan.prior \cup NewPairs(M) ELSE plan.prior
    /\ {q.uses[n] : n \in DOMAIN q.uses} = UsedIds \cup (IF where = "cache" THEN M ELSE {})
    /\ {q.ingress[n] : n \in DOMAIN q.ingress} = Offered \cup mine
    /\ q.taken = plan.taken \cup (IF where = "batch" THEN M ELSE {})

\* A packet without a match.
LEMMA UnmatchedKeeps ==
    ASSUME Inv, Planning, NEW p \in FrameType, Arrive(p), spent' = spent,
           NEW mine, mine = {} \/ (mine = {Id} /\ p.role = "ingress"),
           PlannedAs(plan', "none", {}, mine)
    PROVE  Inv'
  <1>1. Types /\ PlanInv /\ Types' /\ SkipInv' /\ CacheInv' /\ CountInv' /\ Planning'
    BY ArrivalKeeps DEF Inv, Types, PlannedAs
  <1>2. NewPairs({}) = {} BY DEF NewPairs
  <1>3. /\ plan'.first = plan.first /\ plan'.retained = plan.retained \cup {Id}
        /\ plan'.pairs = plan.pairs /\ plan'.prior = plan.prior /\ UsedIds' = UsedIds
        /\ Offered' = Offered \cup mine /\ plan'.taken = plan.taken
    BY <1>2 DEF PlannedAs, UsedIds, Offered
  <1>4. /\ Len(frames) \in Nat /\ Len(frames') = Len(frames) + 1 /\ Id \notin Ids /\ frames'[Id] = p
        /\ \A i \in Ids : frames'[i] = frames[i]
    BY <1>1, AppendKeeps DEF Arrive
  <1>5. UNCHANGED <<cached, analysed, skipped>> BY DEF Arrive
  <1>6. plan.first \in Nat \ {0} /\ BatchIds \subseteq Ids BY <1>1, PlanningPlan
  <1>7. plan.first <= Len(frames) + 1 BY <1>1 DEF PlanInv
  <1>8. BatchIds' = BatchIds \cup {Id} BY <1>3, <1>4, <1>6, <1>7 DEF BatchIds, Id
  <1>9. Genuine(frames', spent', plan'.pairs)
    <2>1. plan.pairs \subseteq Ids \X Ids BY PairsSeen
    <2>2. Genuine(frames, spent, plan.pairs) BY <1>1 DEF PlanInv
    <2>3. Genuine(frames', spent', plan.pairs) BY <1>4, <2>1, <2>2, GenuineStays
    <2> QED BY <1>3, <2>3
  <1>10. Id \notin Firsts(plan.pairs) /\ Id \notin spent /\ Offered \subseteq Ids
    BY <1>1, <1>4, <1>6 DEF PlanInv, Types
  <1>11. PlanInv'
    <2>1. plan'.first <= Len(frames') + 1 BY <1>3, <1>4, <1>6, <1>7
    <2>2. /\ plan'.retained \cup Firsts(plan'.pairs) = BatchIds'
          /\ plan'.retained \cap Firsts(plan'.pairs) = {}
      BY <1>1, <1>3, <1>8, <1>10 DEF PlanInv
    <2>3. Offered' \subseteq plan'.retained /\ Offered' \cap spent' \subseteq plan'.taken
      BY <1>1, <1>3, <1>10 DEF PlanInv
    <2>4. \A i \in Offered' : frames'[i].role = "ingress" BY <1>1, <1>3, <1>4, <1>10 DEF PlanInv
    <2>5. /\ \A i \in analysed' \cup Firsts(skipped') : i < plan'.first
          /\ Distinct(plan'.pairs) /\ Seconds(plan'.pairs) \cap Seconds(skipped') = {}
          /\ plan'.prior \subseteq plan'.pairs /\ Seconds(plan'.prior) \subseteq cached'
          /\ Seconds(plan'.pairs \ plan'.prior) \subseteq plan'.retained
          /\ UsedIds' \subseteq cached' /\ cached' \cap spent' \subseteq UsedIds'
      BY <1>1, <1>3, <1>5 DEF PlanInv
    <2> QED BY <1>9, <2>1, <2>2, <2>3, <2>4, <2>5 DEF PlanInv
  <1> QED BY <1>1, <1>11 DEF Inv

\* A matched packet waits in the batch or is left in the cache, so no copy has used
\* it: it is fresh.
LEMMA MatchIsFresh ==
    ASSUME Inv, Planning, NEW i, i \in Waiting \/ i \in LeftInCache
    PROVE  /\ i \in Ids /\ i \notin spent
           /\ i \in Waiting => i \in plan.retained /\ i \notin cached
           /\ i \in LeftInCache => i \in cached /\ i \notin Offered
  <1>1. Types /\ PlanInv /\ CacheInv BY DEF Inv
  <1>2. /\ Offered \subseteq plan.retained /\ Offered \cap spent \subseteq plan.taken
        /\ cached \cap spent \subseteq UsedIds /\ cached \subseteq analysed
        /\ plan.retained \subseteq BatchIds /\ \A j \in analysed : j < plan.first
    BY <1>1 DEF PlanInv, CacheInv
  <1>3. /\ BatchIds \subseteq Ids /\ \A j \in BatchIds : plan.first <= j
        /\ plan.first \in Nat /\ Ids \subseteq Nat /\ cached \subseteq Ids
    BY <1>1, PlanningPlan DEF Types
  <1>4. \A j \in Ids : ~(j < plan.first /\ plan.first <= j) BY <1>3
  <1>5. CASE i \in Waiting
    <2>1. i \in Offered /\ i \notin plan.taken BY <1>5 DEF Waiting, Offered
    <2>2. i \in BatchIds /\ i \in Ids /\ i \notin spent /\ i \in plan.retained BY <1>2, <1>3, <2>1
    <2>3. i \notin cached BY <1>2, <1>3, <1>4, <2>2
    <2>4. i \notin LeftInCache BY <2>3 DEF LeftInCache
    <2> QED BY <2>2, <2>3, <2>4
  <1>6. CASE i \in LeftInCache
    <2>1. i \in cached /\ i \notin UsedIds BY <1>6 DEF LeftInCache
    <2>2. i \in Ids /\ i \notin spent /\ i \in analysed BY <1>2, <1>3, <2>1
    <2>3. i \notin BatchIds BY <1>2, <1>3, <1>4, <2>2
    <2>4. i \notin Offered BY <1>2, <2>3
    <2>5. i \notin Waiting BY <2>4 DEF Waiting, Offered
    <2> QED BY <2>1, <2>2, <2>4, <2>5
  <1> QED BY <1>5, <1>6

\* One more pair, of new packets, keeps pairs distinct.
LEMMA DistinctGrows ==
    ASSUME NEW R, Distinct(R), NEW c, NEW i, c \notin Firsts(R), i \notin Seconds(R)
    PROVE  Distinct(R \cup {<<c, i>>})
  BY DEF Distinct, Firsts, Seconds

\* An egress packet with a match that waits in the batch or is left in the cache.
LEMMA MatchedKeeps ==
    ASSUME Inv, Planning, NEW p \in FrameType, Arrive(p), NEW i, NEW where,
           (where = "batch" /\ i \in Waiting) \/ (where = "cache" /\ i \in LeftInCache),
           IsForwarded(frames[i], p), spent' = spent \cup {i}, PlannedAs(plan', where, {i}, {})
    PROVE  Inv'
  <1>1. /\ i \in Ids /\ i \notin spent
        /\ where = "batch" => i \in plan.retained /\ i \notin cached
        /\ where = "cache" => i \in cached /\ i \notin Offered
    BY MatchIsFresh
  <1>2. Types /\ PlanInv /\ Types' /\ SkipInv' /\ CacheInv' /\ CountInv' /\ Planning'
    <2>1. spent \subseteq spent' /\ spent' \subseteq Ids BY <1>1 DEF Inv, Types
    <2>2. plan' \in PlanType /\ plan'.first = plan.first BY DEF PlannedAs
    <2> QED BY <2>1, <2>2, ArrivalKeeps DEF Inv
  <1>3. PICK P : P = NewPairs({i}) OBVIOUS
  <1>4. P = {} \/ P = {<<Id, i>>} BY <1>3 DEF NewPairs
  <1>5. /\ plan'.first = plan.first
        /\ plan'.retained = IF P = {} THEN plan.retained \cup {Id} ELSE plan.retained
        /\ plan'.pairs = plan.pairs \cup P
        /\ plan'.prior = IF where = "cache" THEN plan.prior \cup P ELSE plan.prior
        /\ UsedIds' = UsedIds \cup (IF where = "cache" THEN {i} ELSE {})
        /\ Offered' = Offered
        /\ plan'.taken = plan.taken \cup (IF where = "batch" THEN {i} ELSE {})
    BY <1>3 DEF PlannedAs, UsedIds, Offered
  <1>6. /\ Len(frames) \in Nat /\ Len(frames') = Len(frames) + 1 /\ Id \notin Ids /\ frames'[Id] = p
        /\ \A j \in Ids : j < Id /\ frames'[j] = frames[j]
    BY <1>2, AppendKeeps DEF Arrive
  <1>7. UNCHANGED <<cached, analysed, skipped>> BY DEF Arrive
  <1>8. plan.first \in Nat \ {0} /\ BatchIds \subseteq Ids BY <1>2, PlanningPlan
  <1>9. plan.first <= Len(frames) + 1 BY <1>2 DEF PlanInv
  <1>10. BatchIds' = BatchIds \cup {Id} BY <1>5, <1>6, <1>8, <1>9 DEF BatchIds, Id
  <1>11. /\ Firsts(plan.pairs) \subseteq Ids /\ Id \notin Firsts(plan.pairs)
         /\ plan.retained \subseteq Ids /\ Offered \subseteq Ids
    BY <1>2, <1>6, <1>8 DEF PlanInv
  <1>12. i \notin Seconds(plan.pairs) /\ i \notin Seconds(skipped)
    <2>1. Seconds(plan.pairs) \subseteq spent BY PairsSeen
    <2>2. Seconds(skipped) \subseteq spent BY DEF Inv, SkipInv, Genuine, Seconds
    <2> QED BY <1>1, <2>1, <2>2
  <1>13. /\ Firsts(plan'.pairs) = Firsts(plan.pairs) \cup Firsts(P)
         /\ Seconds(plan'.pairs) = Seconds(plan.pairs) \cup Seconds(P)
         /\ Firsts(P) = (IF P = {} THEN {} ELSE {Id}) /\ Seconds(P) = (IF P = {} THEN {} ELSE {i})
    BY <1>4, <1>5 DEF Firsts, Seconds
  <1>14. Genuine(frames', spent', plan'.pairs)
    <2>1. plan.pairs \subseteq Ids \X Ids BY PairsSeen
    <2>2. Genuine(frames, spent, plan.pairs) BY <1>2 DEF PlanInv
    <2>3. Genuine(frames', spent', plan.pairs) BY <1>6, <2>1, <2>2, GenuineStays
    <2>4. i < Id /\ i \in spent' /\ IsForwarded(frames'[i], frames'[Id]) BY <1>1, <1>6
    <2>5. Genuine(frames', spent', P) BY <1>4, <2>4 DEF Genuine
    <2> QED BY <1>5, <2>3, <2>5 DEF Genuine
  <1>15. Distinct(plan'.pairs)
    <2>1. Distinct(plan.pairs) BY <1>2 DEF PlanInv
    <2>2. CASE P = {} BY <1>5, <2>1, <2>2
    <2>3. CASE P = {<<Id, i>>}
      <3>1. Distinct(plan.pairs \cup {<<Id, i>>}) BY <1>11, <1>12, <2>1, DistinctGrows
      <3> QED BY <1>5, <2>3, <3>1
    <2> QED BY <1>4, <2>2, <2>3
  <1>16. /\ plan'.retained \cup Firsts(plan'.pairs) = BatchIds'
         /\ plan'.retained \cap Firsts(plan'.pairs) = {}
    <2>1. plan.retained \cup Firsts(plan.pairs) = BatchIds /\ plan.retained \cap Firsts(plan.pairs) = {}
      BY <1>2 DEF PlanInv
    <2>2. Id \notin plan.retained BY <1>6, <1>11
    <2> QED BY <1>5, <1>10, <1>11, <1>13, <2>1, <2>2
  <1>17. /\ plan'.prior \subseteq plan'.pairs /\ Seconds(plan'.prior) \subseteq cached'
    <2>1. plan.prior \subseteq plan.pairs /\ Seconds(plan.prior) \subseteq cached BY <1>2 DEF PlanInv
    <2>2. CASE where = "cache"
      <3>1. Seconds(plan.prior \cup P) = Seconds(plan.prior) \cup Seconds(P) BY DEF Seconds
      <3> QED BY <1>1, <1>5, <1>7, <1>13, <2>1, <2>2, <3>1
    <2>3. CASE where # "cache" BY <1>5, <1>7, <2>1, <2>3
    <2> QED BY <2>2, <2>3
  <1>18. Seconds(plan'.pairs \ plan'.prior) \subseteq plan'.retained
    <2>1. Seconds(plan.pairs \ plan.prior) \subseteq plan.retained BY <1>2 DEF PlanInv
    <2>2. plan.retained \subseteq plan'.retained BY <1>5
    <2>3. CASE where = "cache"
      <3>1. plan'.pairs \ plan'.prior \subseteq plan.pairs \ plan.prior BY <1>5, <2>3
      <3> QED BY <2>1, <2>2, <3>1 DEF Seconds
    <2>4. CASE where = "batch"
      <3>1. plan'.pairs \ plan'.prior \subseteq (plan.pairs \ plan.prior) \cup P BY <1>5, <2>4
      <3>2. Seconds(P) \subseteq plan.retained BY <1>1, <1>13, <2>4
      <3> QED BY <2>1, <2>2, <3>1, <3>2 DEF Seconds
    <2> QED BY <2>3, <2>4
  <1>19. /\ UsedIds' \subseteq cached' /\ cached' \cap spent' \subseteq UsedIds'
    <2>1. UsedIds \subseteq cached /\ cached \cap spent \subseteq UsedIds BY <1>2 DEF PlanInv
    <2> QED BY <1>1, <1>5, <1>7, <2>1
  <1>20. Offered' \subseteq plan'.retained /\ Offered' \cap spent' \subseteq plan'.taken
    <2>1. Offered \subseteq plan.retained /\ Offered \cap spent \subseteq plan.taken BY <1>2 DEF PlanInv
    <2> QED BY <1>1, <1>5, <2>1
  <1>21. \A j \in Offered' : frames'[j].role = "ingress" BY <1>2, <1>5, <1>6, <1>11 DEF PlanInv
  <1>22. /\ plan'.first <= Len(frames') + 1
         /\ \A j \in analysed' \cup Firsts(skipped') : j < plan'.first
         /\ Seconds(plan'.pairs) \cap Seconds(skipped') = {}
    <2>1. plan'.first <= Len(frames') + 1 BY <1>5, <1>6, <1>8, <1>9
    <2>2. \A j \in analysed' \cup Firsts(skipped') : j < plan'.first BY <1>2, <1>5, <1>7 DEF PlanInv
    <2>3. Seconds(plan.pairs) \cap Seconds(skipped) = {} BY <1>2 DEF PlanInv
    <2> QED BY <1>7, <1>12, <1>13, <2>1, <2>2, <2>3
  <1>23. PlanInv' BY <1>14, <1>15, <1>16, <1>17, <1>18, <1>19, <1>20, <1>21, <1>22 DEF PlanInv
  <1> QED BY <1>2, <1>23 DEF Inv

\* plan, one packet at a time: each of the three actions is one of the cases above.
LEMMA PlanOtherKeeps ==
    ASSUME Inv, Planning, NEW p \in FrameType, PlanOther(p) PROVE Inv'
  <1>1. Types /\ plan \in PlanType /\ Len(frames) \in Nat BY PlanningPlan DEF Inv
  <1>2. plan' = [plan EXCEPT !.retained = @ \cup {Id}] BY DEF PlanOther
  <1>3. plan.retained \cup {Id} \in SUBSET Nat BY <1>1 DEF PlanType, Id
  <1>4. plan' \in PlanType BY <1>1, <1>2, <1>3 DEF PlanType
  <1>5. PlannedAs(plan', "none", {}, {})
    BY <1>1, <1>2, <1>4 DEF PlannedAs, NewPairs, UsedIds, Offered, PlanType
  <1> QED BY <1>5, UnmatchedKeeps DEF PlanOther

\* The elements of a longer sequence.
Elements(q) == {q[n] : n \in DOMAIN q}

\* A longer sequence has one more element.
LEMMA AppendElements ==
    ASSUME NEW q \in Seq(Nat), NEW e \in Nat
    PROVE  \E r \in Seq(Nat) : r = Append(q, e) /\ Elements(r) = Elements(q) \cup {e}
  <1>1. Append(q, e) \in Seq(Nat) OBVIOUS
  <1>2. PICK r \in Seq(Nat) : r = Append(q, e) BY <1>1
  <1>3. /\ Len(q) \in Nat /\ DOMAIN q = 1 .. Len(q)
        /\ DOMAIN r = 1 .. Len(q) + 1
        /\ \A n \in 1 .. Len(q) : r[n] = q[n]
        /\ r[Len(q) + 1] = e
    BY <1>2
  <1>4. 1 .. Len(q) + 1 = (1 .. Len(q)) \cup {Len(q) + 1} BY <1>3
  <1>5. Elements(r) = Elements(q) \cup {e} BY <1>3, <1>4 DEF Elements
  <1> QED BY <1>2, <1>5

\* Planning an ingress frame keeps the invariant.
LEMMA PlanIngressKeeps ==
    ASSUME Inv, Planning, NEW p \in FrameType, PlanIngress(p) PROVE Inv'
  <1>1. Types /\ plan \in PlanType /\ Len(frames) \in Nat BY PlanningPlan DEF Inv
  <1>2. plan' = [plan EXCEPT !.retained = @ \cup {Id}, !.ingress = Append(@, Id)] BY DEF PlanIngress
  <1>3. Id \in Nat /\ plan.retained \cup {Id} \in SUBSET Nat /\ plan.ingress \in Seq(Nat)
    BY <1>1 DEF PlanType, Id
  <1>4. PICK q \in Seq(Nat) : q = Append(plan.ingress, Id) /\ Elements(q) = Elements(plan.ingress) \cup {Id}
    BY <1>3, AppendElements
  <1>5. {q[n] : n \in DOMAIN q} = Offered \cup {Id} BY <1>4 DEF Elements, Offered
  <1>6. plan' = [plan EXCEPT !.retained = @ \cup {Id}, !.ingress = q] BY <1>2, <1>4
  <1>7. plan' \in PlanType BY <1>1, <1>3, <1>5, <1>6 DEF PlanType
  <1>8. /\ plan'.first = plan.first /\ plan'.retained = plan.retained \cup {Id}
        /\ plan'.pairs = plan.pairs /\ plan'.prior = plan.prior /\ plan'.uses = plan.uses
        /\ plan'.ingress = q /\ plan'.taken = plan.taken
    BY <1>1, <1>6 DEF PlanType
  <1>9. PlannedAs(plan', "none", {}, {Id})
    BY <1>5, <1>7, <1>8 DEF PlannedAs, NewPairs, UsedIds
  <1> QED BY <1>9, UnmatchedKeeps DEF PlanIngress

\* Planning an egress frame keeps it.
LEMMA PlanEgressKeeps ==
    ASSUME Inv, Planning, NEW p \in FrameType, PlanEgress(p) PROVE Inv'
  <1>1. /\ Types /\ plan \in PlanType /\ Len(frames) \in Nat /\ Ids \subseteq Nat
    BY PlanningPlan DEF Inv
  <1> DEFINE m == Match(p)
             P == IF plan.pressure THEN {<<Id, i>> : i \in m[2]} ELSE {}
  <1>2. p.role = "egress" /\ Arrive(p) BY DEF PlanEgress
  <1>3. Matched(p, m) BY <1>2, MatchFacts
  <1>4. /\ plan' = [plan EXCEPT
              !.retained = IF P = {} THEN @ \cup {Id} ELSE @,
              !.pairs = @ \cup P,
              !.prior = IF m[1] = "cache" THEN @ \cup P ELSE @,
              !.uses = IF m[1] = "cache" THEN Append(@, Min(m[2])) ELSE @,
              !.taken = IF m[1] = "batch" THEN @ \cup m[2] ELSE @]
        /\ spent' = spent \cup m[2]
    BY DEF PlanEgress
  <1>5. P = NewPairs(m[2]) BY DEF NewPairs
  <1> HIDE DEF m, P
  <1>6. /\ plan.retained \in SUBSET Nat /\ plan.pairs \in SUBSET (Nat \X Nat) /\ plan.taken \in SUBSET Nat
        /\ plan.prior \in SUBSET (Nat \X Nat) /\ plan.uses \in Seq(Nat) /\ Id \in Nat
    BY <1>1 DEF PlanType, Id
  <1>7. CASE m[1] = "none" /\ m[2] = {}
    <2>1. P = {} BY <1>5, <1>7 DEF NewPairs
    <2>2. plan' = [plan EXCEPT !.retained = @ \cup {Id}] BY <1>1, <1>4, <1>7, <2>1 DEF PlanType
    <2>3. plan.retained \cup {Id} \in SUBSET Nat BY <1>6
    <2>4. plan' \in PlanType BY <1>1, <2>2, <2>3 DEF PlanType
    <2>5. PlannedAs(plan', "none", {}, {})
      BY <1>1, <2>2, <2>4 DEF PlannedAs, NewPairs, UsedIds, Offered, PlanType
    <2>6. spent' = spent BY <1>4, <1>7
    <2> QED BY <1>2, <2>5, <2>6, UnmatchedKeeps
  <1>8. ASSUME NEW i, m[2] = {i}, m[1] \in {"batch", "cache"}, IsForwarded(frames[i], p),
               (m[1] = "batch" /\ i \in Waiting) \/ (m[1] = "cache" /\ i \in LeftInCache)
        PROVE  Inv'
    <2>1. i \in Nat BY <1>1, <1>8, MatchIsFresh
    <2>2. Min(m[2]) = i BY <1>8, <2>1, MinOfOne
    <2>3. P \in SUBSET (Nat \X Nat) BY <1>5, <1>6, <1>8, <2>1 DEF NewPairs
    <2>4. PICK R : R = IF P = {} THEN plan.retained \cup {Id} ELSE plan.retained OBVIOUS
    <2>5. PICK O : O = IF m[1] = "cache" THEN plan.prior \cup P ELSE plan.prior OBVIOUS
    <2>6. PICK u : u = IF m[1] = "cache" THEN Append(plan.uses, i) ELSE plan.uses OBVIOUS
    <2>7. PICK t : t = plan.taken \cup (IF m[1] = "batch" THEN {i} ELSE {}) OBVIOUS
    <2>8. R \in SUBSET Nat /\ O \in SUBSET (Nat \X Nat) /\ t \in SUBSET Nat
      BY <1>6, <2>1, <2>3, <2>4, <2>5, <2>7
    <2>9. u \in Seq(Nat) /\ {u[n] : n \in DOMAIN u} = UsedIds \cup (IF m[1] = "cache" THEN {i} ELSE {})
      <3>1. CASE m[1] = "cache"
        <4>1. PICK q \in Seq(Nat) : q = Append(plan.uses, i) /\ Elements(q) = Elements(plan.uses) \cup {i}
          BY <1>6, <2>1, AppendElements
        <4>2. u = q BY <2>6, <3>1, <4>1
        <4> QED BY <3>1, <4>1, <4>2 DEF UsedIds, Elements
      <3>2. CASE m[1] # "cache" BY <1>6, <2>6, <3>2 DEF UsedIds
      <3> QED BY <3>1, <3>2
    <2>10. PICK Q : Q = plan.pairs \cup P OBVIOUS
    <2>11. plan' = [plan EXCEPT !.retained = R, !.pairs = Q, !.prior = O, !.uses = u, !.taken = t]
      <3>1. t = IF m[1] = "batch" THEN plan.taken \cup m[2] ELSE plan.taken BY <1>8, <2>7
      <3> QED BY <1>4, <2>2, <2>4, <2>5, <2>6, <2>10, <3>1
    <2>12. Q \in SUBSET (Nat \X Nat) BY <1>6, <2>3, <2>10
    <2>13. plan' \in PlanType BY <1>1, <2>8, <2>9, <2>11, <2>12 DEF PlanType
    <2>14. /\ plan'.first = plan.first /\ plan'.retained = R /\ plan'.pairs = Q /\ plan'.prior = O
           /\ plan'.uses = u /\ plan'.ingress = plan.ingress /\ plan'.taken = t
      BY <1>1, <2>11 DEF PlanType
    <2>15. P = NewPairs({i}) BY <1>5, <1>8
    <2>16. PlannedAs(plan', m[1], {i}, {})
      BY <2>4, <2>5, <2>7, <2>9, <2>10, <2>13, <2>14, <2>15 DEF PlannedAs, Offered
    <2>17. spent' = spent \cup {i} BY <1>4, <1>8
    <2> QED BY <1>2, <1>8, <2>16, <2>17, MatchedKeeps
  <1>9. CASE \E i \in Waiting : m[1] = "batch" /\ m[2] = {i} /\ IsForwarded(frames[i], p)
    BY <1>8, <1>9
  <1>10. CASE \E i \in LeftInCache : m[1] = "cache" /\ m[2] = {i} /\ IsForwarded(frames[i], p)
    BY <1>8, <1>10
  <1> QED BY <1>3, <1>7, <1>9, <1>10 DEF Matched

-----------------------------------------------------------------------------
(***************************************************************************)
(* Counting                                                                *)
(***************************************************************************)

\* A subset of the packets seen so far has a number of members.
LEMMA IdsFinite ==
    ASSUME Types, NEW S, S \subseteq Ids PROVE IsFiniteSet(S) /\ Cardinality(S) \in Nat
  <1>1. Len(frames) \in Nat BY DEF Types
  <1>2. IsFiniteSet(1 .. Len(frames)) BY <1>1, FS_Interval
  <1>3. IsFiniteSet(S) BY <1>2, FS_Subset DEF Ids
  <1> QED BY <1>3, FS_CardinalityType

\* Sets without common members are counted apart.
LEMMA DisjointUnion ==
    ASSUME NEW S, NEW T, IsFiniteSet(S), IsFiniteSet(T), S \cap T = {}
    PROVE  /\ IsFiniteSet(S \cup T)
           /\ Cardinality(S) \in Nat /\ Cardinality(T) \in Nat
           /\ Cardinality(S \cup T) = Cardinality(S) + Cardinality(T)
  <1>1. Cardinality(S) \in Nat /\ Cardinality(T) \in Nat BY FS_CardinalityType
  <1>2. IsFiniteSet(S \cup T)
        /\ Cardinality(S \cup T) = Cardinality(S) + Cardinality(T) - Cardinality(S \cap T)
    BY FS_Union
  <1>3. Cardinality(S \cap T) = 0 BY FS_EmptySet
  <1> QED BY <1>1, <1>2, <1>3

\* Distinct pairs are as many as their copies.
LEMMA CopiesCount ==
    ASSUME NEW R, Distinct(R), IsFiniteSet(Firsts(R))
    PROVE  IsFiniteSet(R) /\ Cardinality(R) = Cardinality(Firsts(R))
  <1> DEFINE f == [s \in R |-> s[1]]
  <1>1. f \in [R -> Firsts(R)] BY DEF Firsts
  <1>2. \A s, t \in R : f[s] = f[t] => s = t BY DEF Distinct
  <1>3. \A c \in Firsts(R) : \E s \in R : f[s] = c BY DEF Firsts
  <1> HIDE DEF f
  <1>4. f \in Injection(R, Firsts(R)) BY <1>1, <1>2 DEF Injection, IsInjective
  <1>5. f \in Surjection(R, Firsts(R)) BY <1>1, <1>3 DEF Surjection
  <1> QED BY <1>4, <1>5, FS_Injection

\* Every packet of the batch is kept or is the copy of one pair.
LEMMA BatchCount ==
    ASSUME Inv, Planning
    PROVE  /\ IsFiniteSet(plan.retained) /\ IsFiniteSet(plan.pairs) /\ IsFiniteSet(plan.prior)
           /\ Cardinality(plan.retained) \in Nat /\ Cardinality(plan.pairs) \in Nat
           /\ Cardinality(plan.prior) \in Nat /\ Cardinality(BatchIds \ Firsts(plan.prior)) \in Nat
           /\ Cardinality(plan.retained) + Cardinality(plan.pairs) = Len(frames) + 1 - plan.first
           /\ Cardinality(BatchIds \ Firsts(plan.prior)) + Cardinality(plan.prior)
                = Len(frames) + 1 - plan.first
  <1>1. Types /\ PlanInv BY DEF Inv
  <1>2. /\ plan.first \in Nat \ {0} /\ Len(frames) \in Nat /\ BatchIds \subseteq Ids
        /\ plan.first <= Len(frames) + 1
    BY <1>1, PlanningPlan DEF PlanInv
  <1>3. IsFiniteSet(BatchIds) /\ Cardinality(BatchIds) = Len(frames) + 1 - plan.first
    <2>1. PICK a \in Int, b \in Int : a = plan.first /\ b = Len(frames) BY <1>2
    <2>2. IsFiniteSet(a .. b) /\ Cardinality(a .. b) = IF a > b THEN 0 ELSE b - a + 1 BY FS_Interval
    <2>3. BatchIds = a .. b BY <2>1 DEF BatchIds
    <2> QED BY <1>2, <2>1, <2>2, <2>3
  <1>4. /\ plan.retained \cup Firsts(plan.pairs) = BatchIds /\ plan.retained \cap Firsts(plan.pairs) = {}
        /\ Distinct(plan.pairs) /\ plan.prior \subseteq plan.pairs
    BY <1>1 DEF PlanInv
  <1>5. Distinct(plan.prior) /\ Firsts(plan.prior) \subseteq Firsts(plan.pairs)
    BY <1>4 DEF Distinct, Firsts
  <1>6. /\ IsFiniteSet(plan.retained) /\ IsFiniteSet(Firsts(plan.pairs)) /\ IsFiniteSet(Firsts(plan.prior))
        /\ IsFiniteSet(BatchIds \ Firsts(plan.prior))
    BY <1>3, <1>4, <1>5, FS_Subset
  <1>7. /\ IsFiniteSet(plan.pairs) /\ Cardinality(plan.pairs) = Cardinality(Firsts(plan.pairs))
        /\ IsFiniteSet(plan.prior) /\ Cardinality(plan.prior) = Cardinality(Firsts(plan.prior))
    BY <1>4, <1>5, <1>6, CopiesCount
  <1>8. /\ Cardinality(plan.retained) \in Nat /\ Cardinality(Firsts(plan.pairs)) \in Nat
        /\ Cardinality(plan.retained \cup Firsts(plan.pairs))
             = Cardinality(plan.retained) + Cardinality(Firsts(plan.pairs))
    BY <1>4, <1>6, DisjointUnion
  <1>9. PICK D : D = BatchIds \ Firsts(plan.prior) OBVIOUS
  <1>10. IsFiniteSet(D) /\ D \cap Firsts(plan.prior) = {} /\ D \cup Firsts(plan.prior) = BatchIds
    BY <1>4, <1>5, <1>6, <1>9
  <1>11. /\ Cardinality(D) \in Nat /\ Cardinality(Firsts(plan.prior)) \in Nat
         /\ Cardinality(D \cup Firsts(plan.prior)) = Cardinality(D) + Cardinality(Firsts(plan.prior))
    BY <1>6, <1>10, DisjointUnion
  <1> QED BY <1>3, <1>4, <1>6, <1>7, <1>8, <1>9, <1>10, <1>11

-----------------------------------------------------------------------------
(***************************************************************************)
(* A batch begins and ends                                                 *)
(***************************************************************************)

\* The invariant holds before the first batch.
LEMMA InitInv == ASSUME Init PROVE Inv
  <1> USE DEF Init
  <1>1. ~Planning BY DEF Planning
  <1>2. Types BY DEF Types, Ids, CountsType
  <1>3. SkipInv BY DEF SkipInv, Distinct, Genuine, Seconds, Firsts
  <1>4. CacheInv BY DEF CacheInv
  <1>5. PlanInv BY <1>1 DEF PlanInv
  <1>6. CountInv
    <2>1. Cardinality({}) = 0 BY FS_EmptySet
    <2> QED BY <1>1, <2>1 DEF CountInv
  <1> QED BY <1>2, <1>3, <1>4, <1>5, <1>6 DEF Inv

\* The expiry only takes packets out of the cache.
LEMMA BeginKeeps ==
    ASSUME Inv, NEW latest \in Moments, NEW pressure \in BOOLEAN, Begin(latest, pressure)
    PROVE  Inv'
  <1>1. Types /\ SkipInv /\ CacheInv /\ CountInv /\ ~Planning BY DEF Inv, Begin
  <1>2. UNCHANGED <<frames, analysed, skipped, spent>> BY DEF Begin
  <1>3. PICK gone \in SUBSET cached :
          cached' = cached \ gone /\ counts' = [counts EXCEPT !.expired = @ + Cardinality(gone)]
    <2>1. Stale(latest) \in SUBSET cached BY Zenon DEF Stale
    <2> DEFINE gone == IF latest < nextExpire THEN {} ELSE Stale(latest)
    <2>2. gone \in SUBSET cached BY <2>1
    <2>3. cached' = cached \ gone /\ counts' = [counts EXCEPT !.expired = @ + Cardinality(gone)]
      BY DEF Begin, Expire
    <2> HIDE DEF gone
    <2> QED BY <2>2, <2>3
  <1>4. plan' = [first |-> Len(frames) + 1, latest |-> latest, pressure |-> pressure,
                 retained |-> {}, pairs |-> {}, prior |-> {}, uses |-> <<>>, ingress |-> <<>>,
                 taken |-> {}]
    BY DEF Begin
  <1>5. Len(frames) \in Nat /\ latest \in Nat
    BY <1>1, DuplicateAssumption DEF Types
  <1>6. plan' \in PlanType BY <1>4, <1>5 DEF PlanType
  <1>7. Planning' BY <1>6, PlanIsNotNone DEF Planning
  <1>8. Cardinality(gone) \in Nat BY <1>1, <1>3, IdsFinite DEF Types
  <1>9. /\ counts' \in CountsType /\ counts'.dispatched = counts.dispatched
        /\ counts'.suppressed = counts.suppressed /\ counts'.dropped = counts.dropped
    <2>1. counts \in CountsType BY <1>1 DEF Types
    <2> QED BY <1>3, <1>8, <2>1 DEF CountsType
  <1>10. Types' BY <1>1, <1>2, <1>3, <1>6, <1>9 DEF Types, Ids
  <1>11. SkipInv' BY <1>1, <1>2 DEF SkipInv
  <1>12. CacheInv' BY <1>1, <1>2, <1>3, <1>7 DEF CacheInv
  <1>13. CountInv'
    <2>1. plan'.first - 1 = Len(frames) BY <1>4, <1>5
    <2> QED BY <1>1, <1>2, <1>7, <1>9, <2>1 DEF CountInv
  <1>14. PlanInv'
    <2>1. /\ plan'.first = Len(frames) + 1 /\ plan'.retained = {} /\ plan'.pairs = {} /\ plan'.prior = {}
          /\ plan'.uses = <<>> /\ plan'.ingress = <<>>
      BY <1>4
    <2>2. BatchIds' = {} BY <1>2, <1>5, <2>1 DEF BatchIds
    <2>3. UsedIds' = {} /\ Offered' = {} BY <2>1 DEF UsedIds, Offered
    <2>4. \A i \in analysed' \cup Firsts(skipped') : i < plan'.first
      <3>1. \A i \in Ids : i < Len(frames) + 1 BY <1>5 DEF Ids
      <3>2. analysed \subseteq Ids /\ Firsts(skipped) \subseteq Ids BY <1>1 DEF Types, Firsts
      <3> QED BY <1>2, <2>1, <3>1, <3>2
    <2>5. cached' \cap spent' = {} BY <1>1, <1>2, <1>3 DEF CacheInv
    <2>6. Firsts({}) = {} /\ Seconds({}) = {} /\ Seconds({} \ {}) = {} /\ Distinct({})
          /\ Genuine(frames', spent', {})
      BY DEF Firsts, Seconds, Distinct, Genuine
    <2>7. plan'.first <= Len(frames') + 1 BY <1>2, <1>5, <2>1
    <2> QED BY <2>1, <2>2, <2>3, <2>4, <2>5, <2>6, <2>7 DEF PlanInv
  <1> QED BY <1>10, <1>11, <1>12, <1>13, <1>14 DEF Inv

\* The pairs that a plan settles join the skips.
LEMMA SkipsGrow ==
    ASSUME Inv, Planning, NEW R, R \subseteq plan.pairs
    PROVE  /\ skipped \cup R \subseteq Ids \X Ids
           /\ Distinct(skipped \cup R) /\ Genuine(frames, spent, skipped \cup R)
           /\ Firsts(R) \subseteq BatchIds /\ Firsts(R) \cap analysed = {}
           /\ IsFiniteSet(R) => /\ Cardinality(R) \in Nat
                                /\ Cardinality(skipped \cup R) = Cardinality(skipped) + Cardinality(R)
  <1>1. Types /\ SkipInv /\ PlanInv BY DEF Inv
  <1>2. /\ Distinct(plan.pairs) /\ Genuine(frames, spent, plan.pairs)
        /\ Seconds(plan.pairs) \cap Seconds(skipped) = {}
        /\ \A i \in analysed \cup Firsts(skipped) : i < plan.first
        /\ Firsts(plan.pairs) \subseteq BatchIds
    BY <1>1 DEF PlanInv
  <1>3. /\ BatchIds \subseteq Ids /\ \A j \in BatchIds : plan.first <= j
        /\ plan.first \in Nat /\ Ids \subseteq Nat
    BY <1>1, PlanningPlan
  <1>4. skipped \cup R \subseteq Ids \X Ids BY <1>1, PairsSeen DEF Types
  <1>5. Firsts(R) \subseteq BatchIds BY <1>2 DEF Firsts
  <1>6. \A j \in BatchIds : j \notin analysed /\ j \notin Firsts(skipped) BY <1>2, <1>3
  <1>7. \A s \in skipped, t \in R : s # t /\ s[1] # t[1] /\ s[2] # t[2]
    <2>1. \A s \in skipped : s[1] \in Firsts(skipped) /\ s[2] \in Seconds(skipped)
      BY DEF Firsts, Seconds
    <2>2. \A t \in R : t[1] \in BatchIds /\ t[2] \in Seconds(plan.pairs) BY <1>5 DEF Firsts, Seconds
    <2> QED BY <1>2, <1>6, <2>1, <2>2
  <1>8. Distinct(skipped \cup R)
    <2>1. Distinct(skipped) BY <1>1 DEF SkipInv
    <2> QED BY <1>2, <1>7, <2>1 DEF Distinct
  <1>9. Genuine(frames, spent, skipped \cup R) BY <1>1, <1>2 DEF SkipInv, Genuine
  <1>10. ASSUME IsFiniteSet(R)
         PROVE  Cardinality(R) \in Nat /\ Cardinality(skipped \cup R) = Cardinality(skipped) + Cardinality(R)
    <2>1. Firsts(skipped) \subseteq Ids BY <1>1 DEF Types, Firsts
    <2>2. IsFiniteSet(skipped) BY <1>1, <2>1, IdsFinite, CopiesCount DEF SkipInv
    <2>3. skipped \cap R = {} BY <1>7
    <2> QED BY <1>10, <2>2, <2>3, DisjointUnion
  <1> QED BY <1>4, <1>5, <1>6, <1>8, <1>9, <1>10

\* commit takes nothing into the cache but ingress packets of the batch that no
\* copy has used.
LEMMA CommitCache ==
    ASSUME Inv, Planning, Commit
    PROVE  /\ cached' \subseteq Consumed \cup Entering
           /\ \E n \in Nat : counts' = [counts EXCEPT
                !.dispatched = @ + Cardinality(plan.retained),
                !.suppressed = @ + Cardinality(plan.pairs),
                !.evicted = @ + n]
  <1> DEFINE enters(slot) == slot \in SlotsOf(Entering)
             kept1 == SlotsOf(Consumed)
             order1 == MovedToEnd(order, SlotSequence(plan.uses), kept1)
             all == Consumed \cup Entering
             order2 == MovedToEnd(order1, SelectSeq(SlotSequence(plan.ingress), enters), SlotsOf(all))
             surplus == Surplus(all)
             evicted == EvictedSlots(order2)
             lost == {i \in all : i \in surplus \/ SlotOf(i) \in evicted}
  <1>1. /\ cached' = {i \in all \ surplus : SlotOf(i) \notin evicted}
        /\ counts' = [counts EXCEPT
             !.dispatched = @ + Cardinality(plan.retained),
             !.suppressed = @ + Cardinality(plan.pairs),
             !.evicted = @ + Cardinality(lost)]
    BY Zenon DEF Commit
  <1>2. lost \subseteq all OBVIOUS
  <1> HIDE DEF lost, surplus, evicted
  <1>3. cached' \subseteq all BY <1>1
  <1>4. all \subseteq Ids
    <2>1. Types /\ PlanInv BY DEF Inv
    <2>2. Offered \subseteq Ids BY <2>1, PlanningPlan DEF PlanInv
    <2>3. Entering \subseteq Offered BY DEF Entering, Waiting, Offered
    <2>4. Consumed \subseteq cached BY DEF Consumed
    <2> QED BY <2>1, <2>2, <2>3, <2>4 DEF Types
  <1>5. Cardinality(lost) \in Nat BY <1>2, <1>4, IdsFinite DEF Inv
  <1> QED BY <1>1, <1>3, <1>5

\* What is left of the cache, and what may enter it, is not used up.
LEMMA CacheAfter ==
    ASSUME Inv, Planning
    PROVE  /\ Consumed \subseteq analysed /\ Consumed \cap spent = {}
           /\ Entering \subseteq plan.retained /\ Entering \cap spent = {}
           /\ \A i \in Consumed \cup Entering : frames[i].role = "ingress"
  <1>1. CacheInv /\ PlanInv BY DEF Inv
  <1>2. Consumed = cached \ UsedIds /\ Entering \subseteq Offered \ plan.taken
    BY DEF Consumed, Entering, Waiting, Offered
  <1>3. /\ cached \subseteq analysed /\ cached \cap spent \subseteq UsedIds
        /\ Offered \subseteq plan.retained /\ Offered \cap spent \subseteq plan.taken
        /\ \A i \in cached \cup Offered : frames[i].role = "ingress"
    BY <1>1 DEF CacheInv, PlanInv
  <1> QED BY <1>2, <1>3

\* The batch is admitted: what was kept is analysed, the copies are skips.
LEMMA AdmitKeeps == ASSUME Inv, Admit PROVE Inv'
  <1>1. Planning /\ Commit /\ plan' = NoPlan /\ UNCHANGED <<frames, spent>>
        /\ analysed' = analysed \cup plan.retained /\ skipped' = skipped \cup plan.pairs
    BY DEF Admit
  <1>2. Types /\ SkipInv /\ CacheInv /\ PlanInv /\ CountInv BY DEF Inv
  <1>3. ~Planning' BY <1>1 DEF Planning
  <1>4. cached' \subseteq Consumed \cup Entering BY <1>1, CommitCache
  <1>5. PICK n \in Nat : counts' = [counts EXCEPT
                !.dispatched = @ + Cardinality(plan.retained),
                !.suppressed = @ + Cardinality(plan.pairs),
                !.evicted = @ + n]
    BY <1>1, CommitCache
  <1>6. /\ plan.retained \cup Firsts(plan.pairs) = BatchIds /\ plan.retained \cap Firsts(plan.pairs) = {}
        /\ plan.prior \subseteq plan.pairs /\ Seconds(plan.prior) \subseteq cached
        /\ Seconds(plan.pairs \ plan.prior) \subseteq plan.retained
        /\ \A i \in analysed \cup Firsts(skipped) : i < plan.first
    BY <1>1, <1>2 DEF PlanInv
  <1>7. /\ BatchIds \subseteq Ids /\ Ids \subseteq Nat /\ \A j \in BatchIds : plan.first <= j
        /\ plan.first \in Nat \ {0} /\ Len(frames) \in Nat
    BY <1>1, <1>2, PlanningPlan
  <1>8. plan.retained \cap analysed = {} /\ plan.retained \cap Firsts(skipped) = {}
    <2>1. \A i \in analysed \cup Firsts(skipped) : i < plan.first BY <1>6
    <2>2. \A j \in BatchIds : j \notin analysed /\ j \notin Firsts(skipped) BY <1>7, <2>1
    <2>3. plan.retained \subseteq BatchIds BY <1>6
    <2> QED BY <2>2, <2>3
  <1>9. /\ skipped' \subseteq Ids \X Ids
        /\ Distinct(skipped') /\ Genuine(frames, spent, skipped')
        /\ Firsts(plan.pairs) \cap analysed = {}
        /\ Cardinality(skipped') = Cardinality(skipped) + Cardinality(plan.pairs)
    BY <1>1, SkipsGrow, BatchCount
  <1>10. /\ Cardinality(plan.retained) \in Nat /\ Cardinality(plan.pairs) \in Nat
         /\ IsFiniteSet(plan.retained)
         /\ Cardinality(plan.retained) + Cardinality(plan.pairs) = Len(frames) + 1 - plan.first
    BY <1>1, BatchCount
  <1>11. Cardinality(analysed') = Cardinality(analysed) + Cardinality(plan.retained)
    <2>1. IsFiniteSet(analysed) BY <1>2, IdsFinite DEF Types
    <2> QED BY <1>1, <1>8, <1>10, <2>1, DisjointUnion
  <1>12. /\ counts' \in CountsType
         /\ counts'.dispatched = counts.dispatched + Cardinality(plan.retained)
         /\ counts'.suppressed = counts.suppressed + Cardinality(plan.pairs)
         /\ counts'.dropped = counts.dropped
    <2>1. counts \in CountsType BY <1>2 DEF Types
    <2>2. PICK r \in Nat, k \in Nat : r = Cardinality(plan.retained) /\ k = Cardinality(plan.pairs)
      BY <1>10
    <2>3. PICK a \in Nat, b \in Nat, e \in Nat :
            a = counts.dispatched + r /\ b = counts.suppressed + k /\ e = counts.evicted + n
      BY <2>1 DEF CountsType
    <2>4. counts' = [counts EXCEPT !.dispatched = a, !.suppressed = b, !.evicted = e] BY <1>5, <2>2, <2>3
    <2>5. /\ counts' \in CountsType /\ counts'.dispatched = a /\ counts'.suppressed = b
          /\ counts'.dropped = counts.dropped
      BY <2>1, <2>4 DEF CountsType
    <2> QED BY <2>2, <2>3, <2>5
  <1>13. CacheInv'
    <2>1. /\ Consumed \subseteq analysed /\ Consumed \cap spent = {}
          /\ Entering \subseteq plan.retained /\ Entering \cap spent = {}
          /\ \A i \in Consumed \cup Entering : frames[i].role = "ingress"
      BY <1>1, CacheAfter
    <2>2. cached' \subseteq analysed' /\ cached' \cap spent' = {}
          /\ \A i \in cached' : frames'[i].role = "ingress"
      BY <1>1, <1>4, <2>1
    <2> QED BY <2>2 DEF CacheInv
  <1>14. Types'
    <2>1. analysed' \subseteq Ids BY <1>1, <1>2, <1>6, <1>7 DEF Types
    <2>2. cached' \subseteq Ids BY <1>13, <2>1 DEF CacheInv
    <2>3. Ids' = Ids BY <1>1 DEF Ids
    <2> QED BY <1>1, <1>2, <1>9, <1>12, <2>1, <2>2, <2>3 DEF Types
  <1>15. SkipInv'
    <2>1. Seconds(skipped') \subseteq analysed'
      <3>1. Seconds(skipped) \subseteq analysed BY <1>2 DEF SkipInv
      <3>2. Seconds(plan.pairs) = Seconds(plan.prior) \cup Seconds(plan.pairs \ plan.prior)
        BY <1>6 DEF Seconds
      <3>3. Seconds(plan.pairs) \subseteq analysed \cup plan.retained BY <1>2, <1>6, <3>2 DEF CacheInv
      <3>4. Seconds(skipped \cup plan.pairs) = Seconds(skipped) \cup Seconds(plan.pairs) BY DEF Seconds
      <3> QED BY <1>1, <3>1, <3>3, <3>4
    <2>2. Firsts(skipped') \cap analysed' = {}
      <3>1. Firsts(skipped \cup plan.pairs) = Firsts(skipped) \cup Firsts(plan.pairs) BY DEF Firsts
      <3>2. Firsts(skipped) \cap analysed = {} BY <1>2 DEF SkipInv
      <3> QED BY <1>1, <1>6, <1>8, <1>9, <3>1, <3>2
    <2> QED BY <1>1, <1>9, <2>1, <2>2 DEF SkipInv
  <1>16. PlanInv' BY <1>3 DEF PlanInv
  <1>17. CountInv'
    <2>1. counts \in CountsType BY <1>2 DEF Types
    <2>2. /\ counts.dispatched = Cardinality(analysed) /\ counts.suppressed = Cardinality(skipped)
          /\ counts.dispatched + counts.suppressed + counts.dropped = plan.first - 1
      BY <1>1, <1>2 DEF CountInv
    <2>3. counts.dispatched \in Nat /\ counts.suppressed \in Nat /\ counts.dropped \in Nat
      BY <2>1 DEF CountsType
    <2>4. counts'.dispatched = Cardinality(analysed') /\ counts'.suppressed = Cardinality(skipped')
      BY <1>9, <1>11, <1>12, <2>2
    <2>5. counts'.dispatched + counts'.suppressed + counts'.dropped = Len(frames)
      <3>1. PICK a \in Nat, b \in Nat, c \in Nat, x \in Nat, y \in Nat, f \in Nat, m \in Nat :
              /\ a = counts.dispatched /\ b = counts.suppressed /\ c = counts.dropped
              /\ x = Cardinality(plan.retained) /\ y = Cardinality(plan.pairs)
              /\ f = plan.first /\ m = Len(frames)
        BY <1>7, <1>10, <2>3
      <3>2. a + b + c = f - 1 /\ x + y = m + 1 - f BY <1>10, <2>2, <3>1
      <3>3. (a + x) + (b + y) + c = m BY <3>2
      <3> QED BY <1>12, <3>1, <3>3
    <2> QED BY <1>1, <1>3, <2>4, <2>5 DEF CountInv
  <1> QED BY <1>13, <1>14, <1>15, <1>16, <1>17 DEF Inv

\* The batch is refused: only copies of packets admitted earlier are skips.
LEMMA RefuseKeeps == ASSUME Inv, Refuse PROVE Inv'
  <1>1. /\ Planning /\ plan' = NoPlan /\ UNCHANGED <<frames, analysed, spent>>
        /\ cached' = Consumed /\ skipped' = skipped \cup plan.prior
        /\ counts' = [counts EXCEPT !.suppressed = @ + Cardinality(plan.prior),
                                    !.dropped = @ + Cardinality(BatchIds \ Firsts(plan.prior))]
    BY DEF Refuse, SkippedOnFailure, DroppedOnFailure, Firsts
  <1>2. Types /\ SkipInv /\ CacheInv /\ PlanInv /\ CountInv BY DEF Inv
  <1>3. ~Planning' BY <1>1 DEF Planning
  <1>4. plan.prior \subseteq plan.pairs /\ Seconds(plan.prior) \subseteq cached BY <1>1, <1>2 DEF PlanInv
  <1>5. /\ skipped' \subseteq Ids \X Ids
        /\ Distinct(skipped') /\ Genuine(frames, spent, skipped')
        /\ Firsts(plan.prior) \cap analysed = {}
        /\ Cardinality(skipped') = Cardinality(skipped) + Cardinality(plan.prior)
    BY <1>1, <1>4, SkipsGrow, BatchCount
  <1>6. PICK k \in Nat, d \in Nat :
          /\ k = Cardinality(plan.prior) /\ d = Cardinality(BatchIds \ Firsts(plan.prior))
          /\ d + k = Len(frames) + 1 - plan.first
    BY <1>1, BatchCount
  <1>7. plan.first \in Nat \ {0} /\ Len(frames) \in Nat BY <1>1, <1>2, PlanningPlan
  <1>8. /\ counts' \in CountsType /\ counts'.dispatched = counts.dispatched
        /\ counts'.suppressed = counts.suppressed + k /\ counts'.dropped = counts.dropped + d
    <2>1. counts \in CountsType BY <1>2 DEF Types
    <2>2. counts' = [counts EXCEPT !.suppressed = @ + k, !.dropped = @ + d] BY <1>1, <1>6
    <2>3. PICK a \in Nat, b \in Nat, c \in Nat, e \in Nat :
            a = counts.dispatched /\ b = counts.suppressed + k /\ c = counts.dropped + d /\ e = counts.evicted
      BY <2>1 DEF CountsType
    <2>4. counts' = [counts EXCEPT !.suppressed = b, !.dropped = c] BY <2>2, <2>3
    <2>5. counts' \in CountsType /\ counts'.dispatched = a /\ counts'.suppressed = b /\ counts'.dropped = c
      BY <2>1, <2>3, <2>4 DEF CountsType
    <2> QED BY <2>3, <2>5
  <1>9. CacheInv'
    <2>1. /\ Consumed \subseteq analysed /\ Consumed \cap spent = {}
          /\ \A i \in Consumed : frames[i].role = "ingress"
      BY <1>1, CacheAfter
    <2> QED BY <1>1, <2>1 DEF CacheInv
  <1>10. Types'
    <2>1. Ids' = Ids BY <1>1 DEF Ids
    <2>2. cached' \subseteq Ids BY <1>1, <1>2 DEF Types, Consumed
    <2> QED BY <1>1, <1>2, <1>5, <1>8, <2>1, <2>2 DEF Types
  <1>11. SkipInv'
    <2>1. Seconds(skipped \cup plan.prior) = Seconds(skipped) \cup Seconds(plan.prior)
          /\ Firsts(skipped \cup plan.prior) = Firsts(skipped) \cup Firsts(plan.prior)
      BY DEF Firsts, Seconds
    <2>2. Seconds(skipped) \subseteq analysed /\ Firsts(skipped) \cap analysed = {}
          /\ cached \subseteq analysed
      BY <1>2 DEF SkipInv, CacheInv
    <2>3. Seconds(skipped') \subseteq analysed' /\ Firsts(skipped') \cap analysed' = {}
      BY <1>1, <1>4, <1>5, <2>1, <2>2
    <2> QED BY <1>1, <1>5, <2>3 DEF SkipInv
  <1>12. PlanInv' BY <1>3 DEF PlanInv
  <1>13. CountInv'
    <2>1. counts \in CountsType BY <1>2 DEF Types
    <2>2. /\ counts.dispatched = Cardinality(analysed) /\ counts.suppressed = Cardinality(skipped)
          /\ counts.dispatched + counts.suppressed + counts.dropped = plan.first - 1
      BY <1>1, <1>2 DEF CountInv
    <2>3. counts.dispatched \in Nat /\ counts.suppressed \in Nat /\ counts.dropped \in Nat
      BY <2>1 DEF CountsType
    <2>4. counts'.dispatched = Cardinality(analysed') /\ counts'.suppressed = Cardinality(skipped')
      BY <1>1, <1>5, <1>6, <1>8, <2>2
    <2>5. counts'.dispatched + counts'.suppressed + counts'.dropped = Len(frames)
      <3>1. PICK a \in Nat, b \in Nat, c \in Nat, f \in Nat, m \in Nat :
              /\ a = counts.dispatched /\ b = counts.suppressed /\ c = counts.dropped
              /\ f = plan.first /\ m = Len(frames)
        BY <1>7, <2>3
      <3>2. a + b + c = f - 1 /\ d + k = m + 1 - f BY <1>6, <2>2, <3>1
      <3>3. a + (b + k) + (c + d) = m BY <3>2
      <3> QED BY <1>8, <3>1, <3>3
    <2> QED BY <1>1, <1>3, <2>4, <2>5 DEF CountInv
  <1> QED BY <1>9, <1>10, <1>11, <1>12, <1>13 DEF Inv
-----------------------------------------------------------------------------
(***************************************************************************)
(* The theorems                                                            *)
(***************************************************************************)

\* Nothing changes, nothing is broken.
LEMMA StutterKeeps == ASSUME Inv, UNCHANGED vars PROVE Inv'
  <1>1. /\ frames' = frames /\ cached' = cached /\ plan' = plan /\ counts' = counts
        /\ analysed' = analysed /\ skipped' = skipped /\ spent' = spent
    BY DEF vars
  <1>2. Ids' = Ids /\ (Planning' <=> Planning) /\ BatchIds' = BatchIds /\ UsedIds' = UsedIds
        /\ Offered' = Offered
    BY <1>1 DEF Ids, Planning, BatchIds, UsedIds, Offered
  <1>3. Types' BY <1>1, <1>2 DEF Inv, Types
  <1>4. SkipInv' BY <1>1 DEF Inv, SkipInv
  <1>5. CacheInv' BY <1>1, <1>2 DEF Inv, CacheInv
  <1>6. PlanInv' BY <1>1, <1>2 DEF Inv, PlanInv
  <1>7. CountInv' BY <1>1, <1>2 DEF Inv, CountInv
  <1> QED BY <1>3, <1>4, <1>5, <1>6, <1>7 DEF Inv

\* Every step keeps it.
LEMMA InvStep == ASSUME Inv, [Next]_vars PROVE Inv'
  <1>1. CASE \E t \in Moments, pressure \in BOOLEAN : Begin(t, pressure) BY <1>1, BeginKeeps
  <1>2. CASE Planning /\ \E p \in Packets, t \in Times : Plan(Describe(p, t))
    <2>1. PICK p \in Packets, t \in Times : Plan(Describe(p, t)) BY <1>2
    <2>2. t \in Int
      <3>1. plan.latest \in Nat /\ MaxSkew \in Nat BY <1>2, PlanningPlan, DuplicateAssumption DEF Inv, PlanType
      <3> QED BY <3>1 DEF Times
    <2>3. PICK f \in FrameType : f = Describe(p, t) BY <2>2, DescribeType
    <2> QED BY <1>2, <2>1, <2>3, PlanOtherKeeps, PlanIngressKeeps, PlanEgressKeeps DEF Plan
  <1>3. CASE Admit BY <1>3, AdmitKeeps
  <1>4. CASE Refuse BY <1>4, RefuseKeeps
  <1>5. CASE Finished \/ UNCHANGED vars BY <1>5, StutterKeeps DEF Finished
  <1> QED BY <1>1, <1>2, <1>3, <1>4, <1>5 DEF Next

\* The inductive invariant holds in every reachable state.
THEOREM DuplicatesInductive == Spec => []Inv
  <1>1. Init => Inv BY InitInv
  <1>2. Inv /\ [Next]_vars => Inv' BY InvStep
  <1> QED BY <1>1, <1>2, PTL DEF Spec

\* What the invariant says of the skipped copies and of the counters.
LEMMA InvSays == ASSUME Inv PROVE CopyHasAnalysedOriginal /\ CopyIsForwarded /\ EveryPacketOnce
  <1>1. SkipInv /\ CountInv BY DEF Inv
  <1>2. CopyHasAnalysedOriginal
    BY <1>1 DEF SkipInv, Distinct, Genuine, Firsts, Seconds, CopyHasAnalysedOriginal
  <1>3. CopyIsForwarded BY <1>1 DEF SkipInv, Genuine, CopyIsForwarded
  <1>4. EveryPacketOnce BY <1>1 DEF CountInv, EveryPacketOnce
  <1> QED BY <1>2, <1>3, <1>4

\* Whatever the order of batches, of queue pressure and of refusals, a packet that
\* _dispatch_batch leaves out as a copy has an ingress packet of its own that came
\* earlier and was admitted.
THEOREM CopiesHaveOriginals == Spec => []CopyHasAnalysedOriginal
  BY DuplicatesInductive, InvSays, PTL

\* What is left out is the datagram of its ingress after at most one hop, with the
\* checksum that is right for the new hop count, whatever the carry.
THEOREM CopiesAreForwarded == Spec => []CopyIsForwarded
  BY DuplicatesInductive, InvSays, PTL

\* Between batches, every packet is dispatched, suppressed or dropped, once.
THEOREM PacketsCountedOnce == Spec => []EveryPacketOnce
  BY DuplicatesInductive, InvSays, PTL
=============================================================================
