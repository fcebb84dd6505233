----------------------- MODULE FragmentReassemblyProofs -----------------------
(***************************************************************************)
(* What FragmentReassembler returns, what it keeps and what it counts, for *)
(* every set of fragments, every limit and any number of datagrams; and    *)
(* that its counters of bytes, ranges and sources are what the table       *)
(* holds, within the limits.                                               *)
(***************************************************************************)
EXTENDS FragmentReassembly, SumTheorems, FiniteSetTheorems, TLAPS

\* What every datagram of the table satisfies: it remembers exactly what its
\* fragments said, knows whether it has its first byte, and ends after it.
Sound(d) ==
    /\ d.said = {<<p, d.data[p]>> : p \in DOMAIN d.data}
    /\ 0 \in DOMAIN d.data => d.first
    /\ d.final = NoEnd \/ d.final \in Nat \ {0}

AllSound == \A k \in DOMAIN states : Sound(states[k])

\* A datagram that is whole is kept only when a fragment of it was cut.
Waits(d) == d.final # NoEnd /\ 0 .. d.final - 1 \subseteq DOMAIN d.data => d.truncated

\* A datagram of which nothing came is sound.
LEMMA EmptySound == Sound(Empty)
BY DEF Sound, Empty

\* So is what the table holds of a datagram.
LEMMA KnownSound ==
    ASSUME AllSound, NEW f PROVE Sound(Known(f))
BY EmptySound DEF AllSound, Known

\* Merging a fragment that contradicts nothing keeps a datagram sound.
LEMMA MergedSound ==
    ASSUME AllSound, NEW f \in Fragments, ~Conflicts(f)
    PROVE  Sound(Merged(f))
<1> DEFINE old == Known(f)
           new == Merged(f)
<1>1. Sound(old)
  BY KnownSound
<1>2. \A p \in Positions(f) \cap DOMAIN old.data : old.data[p] = f.val
  BY DEF Conflicts
<1>3. DOMAIN new.data = DOMAIN old.data \cup Positions(f)
  BY DEF Merged
<1>4. \A p \in DOMAIN old.data : new.data[p] = old.data[p]
  BY DEF Merged
<1>5. \A p \in Positions(f) : new.data[p] = f.val
  BY <1>2 DEF Merged
<1>6. new.said = old.said \cup {<<p, f.val>> : p \in Positions(f)}
  BY DEF Merged
<1>7. old.said = {<<p, old.data[p]>> : p \in DOMAIN old.data}
  BY <1>1 DEF Sound
<1>8. new.said = {<<p, new.data[p]>> : p \in DOMAIN new.data}
  <2> HIDE DEF old, new
  <2> QED BY <1>3, <1>4, <1>5, <1>6, <1>7
<1>9. 0 \in DOMAIN new.data => new.first
  <2>1. 0 \in Positions(f) => f.off = 0
    BY FragmentAssumption DEF Positions
  <2>2. new.first = (old.first \/ f.off = 0)
    BY DEF Merged
  <2> QED BY <1>1, <1>3, <2>1, <2>2 DEF Sound
<1>10. new.final = NoEnd \/ new.final \in Nat \ {0}
  <2>1. ~f.more => EndOf(f) \in Nat \ {0}
    BY FragmentAssumption DEF EndOf
  <2>2. new.final = IF f.more THEN old.final ELSE EndOf(f)
    BY DEF Merged
  <2> QED BY <1>1, <2>1, <2>2 DEF Sound
<1> QED BY <1>8, <1>9, <1>10 DEF Sound

\* And what it holds after a fragment that does not conflict.
LEMMA GrownSound ==
    ASSUME AllSound, NEW f \in Fragments, ~Conflicts(f),
           NEW k \in DOMAIN Grown(f)
    PROVE  Sound(Grown(f)[k])
BY MergedSound DEF Grown, AllSound

\* What is left after a discard was in the table before it.
LEMMA DiscardKeeps ==
    ASSUME NEW table, NEW keys, NEW b, NEW r, NEW s, Discard(table, keys, b, r, s)
    PROVE  /\ DOMAIN states' = DOMAIN table \ keys
           /\ \A k \in DOMAIN states' : states'[k] = table[k]
BY DEF Discard, Without

-----------------------------------------------------------------------------
\* All datagrams are sound when there are none.
LEMMA SoundInit == Init => AllSound
BY DEF Init, AllSound

\* Every step keeps all datagrams sound.
LEMMA SoundStep == AllSound /\ [Next]_vars => AllSound'
<1> SUFFICES ASSUME AllSound, [Next]_vars PROVE AllSound'
  OBVIOUS
<1>1. ASSUME NEW f \in Fragments, RejectMalformed(f) PROVE AllSound'
  BY <1>1, DiscardKeeps DEF RejectMalformed, AllSound
<1>2. ASSUME NEW f \in Fragments, RejectConflict(f) PROVE AllSound'
  BY <1>2, DiscardKeeps DEF RejectConflict, AllSound
<1>3. ASSUME NEW f \in Fragments, Accept(f) PROVE AllSound'
  <2>1. ~Conflicts(f)
    BY <1>3 DEF Accept
  <2>2. PICK gone : Discard(Grown(f), gone, GrownBytes(f), GrownRanges(f), GrownSources(f))
    BY <1>3 DEF Accept
  <2>3. /\ DOMAIN states' \subseteq DOMAIN Grown(f)
        /\ \A k \in DOMAIN states' : states'[k] = Grown(f)[k]
    BY <2>2, DiscardKeeps
  <2> QED BY <2>1, <2>3, GrownSound DEF AllSound
<1>4. CASE Pause
  BY <1>4 DEF Pause, AllSound
<1>5. CASE Expire
  BY <1>5, DiscardKeeps DEF Expire, AllSound
<1>6. CASE UNCHANGED vars
  BY <1>6 DEF vars, AllSound
<1> QED BY <1>1, <1>2, <1>3, <1>4, <1>5, <1>6 DEF Next

\* All datagrams are always sound.
LEMMA AlwaysSound == Spec => []AllSound
BY SoundInit, SoundStep, PTL DEF Spec

-----------------------------------------------------------------------------
\* Nothing ambiguous was emitted before the first fragment.
LEMMA UnambiguousInit == Init => Unambiguous
BY DEF Init, Unambiguous

\* No step emits an ambiguous datagram.
LEMMA UnambiguousStep == AllSound /\ Unambiguous /\ [Next]_vars => Unambiguous'
<1> SUFFICES ASSUME AllSound, Unambiguous, [Next]_vars PROVE Unambiguous'
  OBVIOUS
<1>1. CASE last' = last
  BY <1>1 DEF Unambiguous
<1>2. ASSUME NEW f \in Fragments, Accept(f) PROVE Unambiguous'
  <2>1. CASE ~Completes(f)
    BY <1>1, <1>2, <2>1 DEF Accept
  <2>2. CASE Completes(f)
    <3> DEFINE d == Merged(f)
    <3>1. Sound(d)
      BY <1>2, MergedSound DEF Accept
    <3>2. 0 .. d.final - 1 \subseteq DOMAIN d.data
      BY <2>2 DEF Completes, IsComplete
    <3>3. last' = [data |-> [p \in 0 .. d.final - 1 |-> d.data[p]], said |-> d.said]
      BY <1>2, <2>2 DEF Accept
    <3>4. d.said = {<<p, d.data[p]>> : p \in DOMAIN d.data}
      BY <3>1 DEF Sound
    <3> HIDE DEF d
    <3> QED BY <3>2, <3>3, <3>4 DEF Unambiguous
  <2> QED BY <2>1, <2>2
<1> QED BY <1>1, <1>2 DEF Next, vars, RejectMalformed, RejectConflict, Pause, Expire

\* A datagram that process returns holds what its fragments carried, and none
\* of them said anything else: for every overlap, order and limit.
THEOREM ReturnsWhatWasSaid == Spec => []Unambiguous
BY UnambiguousInit, UnambiguousStep, AlwaysSound, PTL DEF Spec

-----------------------------------------------------------------------------
\* Nothing is withheld before the first fragment.
LEMMA WithheldInit == Init => NothingWithheld
BY DEF Init, NothingWithheld

\* No step withholds a complete datagram.
LEMMA WithheldStep == AllSound /\ NothingWithheld /\ [Next]_vars => NothingWithheld'
<1> SUFFICES ASSUME AllSound, NothingWithheld, [Next]_vars PROVE NothingWithheld'
  OBVIOUS
<1>1. ASSUME \A k \in DOMAIN states' : k \in DOMAIN states /\ states'[k] = states[k]
      PROVE  NothingWithheld'
  BY <1>1 DEF NothingWithheld
<1>2. ASSUME NEW f \in Fragments, RejectMalformed(f) PROVE NothingWithheld'
  BY <1>1, <1>2, DiscardKeeps DEF RejectMalformed
<1>3. ASSUME NEW f \in Fragments, RejectConflict(f) PROVE NothingWithheld'
  BY <1>1, <1>3, DiscardKeeps DEF RejectConflict
<1>4. ASSUME NEW f \in Fragments, Accept(f) PROVE NothingWithheld'
  <2> DEFINE d == Merged(f)
             spoilt == f.key \notin Victims(f) /\ Overruns(d)
             gone == Victims(f) \cup (IF Completes(f) \/ spoilt THEN {f.key} ELSE {})
  <2>1. Discard(Grown(f), gone, GrownBytes(f), GrownRanges(f), GrownSources(f))
    BY <1>4 DEF Accept
  <2>2. /\ DOMAIN states' = DOMAIN Grown(f) \ gone
        /\ \A k \in DOMAIN states' : states'[k] = Grown(f)[k]
    <3> HIDE DEF gone
    <3> QED BY <2>1, DiscardKeeps
  <2>3. \A k \in DOMAIN states' : k # f.key => k \in DOMAIN states /\ states'[k] = states[k]
    BY <2>2 DEF Grown
  <2>4. f.key \in DOMAIN states' => states'[f.key] = d
    BY <2>2 DEF Grown
  <2>5. Sound(d)
    BY <1>4, MergedSound DEF Accept
  <2>6. ASSUME f.key \notin gone PROVE Waits(d)
    <3>1. ~IsComplete(d) /\ ~Overruns(d)
      BY <2>6 DEF Completes
    <3>2. SUFFICES ASSUME d.final # NoEnd, 0 .. d.final - 1 \subseteq DOMAIN d.data,
                          ~d.truncated
                   PROVE  FALSE
      BY DEF Waits
    <3>3. d.final \in Nat \ {0}
      BY <2>5, <3>2 DEF Sound
    <3>4. d.first
      BY <2>5, <3>2, <3>3 DEF Sound
    <3>5. 0 .. d.final = (0 .. d.final - 1) \cup {d.final}
      BY <3>3
    <3> QED BY <3>1, <3>2, <3>4, <3>5 DEF IsComplete, Overruns, Ready
  <2>7. \A k \in DOMAIN states : Waits(states[k])
    BY DEF NothingWithheld, Waits
  <2>8. \A k \in DOMAIN states' : Waits(states'[k])
    <3> HIDE DEF d, gone
    <3> QED BY <2>2, <2>3, <2>4, <2>6, <2>7
  <2> QED BY <2>8 DEF NothingWithheld, Waits
<1>5. CASE Pause
  BY <1>1, <1>5 DEF Pause
<1>6. CASE Expire
  BY <1>1, <1>6, DiscardKeeps DEF Expire
<1>7. CASE UNCHANGED vars
  BY <1>1, <1>7 DEF vars
<1> QED BY <1>2, <1>3, <1>4, <1>5, <1>6, <1>7 DEF Next

\* A whole datagram is returned by the very call that made it whole.
THEOREM ReturnsWhenWhole == Spec => []NothingWithheld
BY WithheldInit, WithheldStep, AlwaysSound, PTL DEF Spec

-----------------------------------------------------------------------------
\* The table is finite and the counters count.
Tallies ==
    /\ IsFiniteSet(DOMAIN states)
    /\ stats \in [malformed : Nat, conflicts : Nat, evicted : Nat, expired : Nat]
    /\ created \in Nat /\ delivered \in Nat

\* The oldest datagrams are in the table.
LEMMA OldestInTable == ASSUME NEW table, NEW moment PROVE Oldest(table, moment) \subseteq DOMAIN table
BY DEF Oldest

\* So are the victims of an eviction.
LEMMA VictimsInTable == ASSUME NEW f PROVE Victims(f) \subseteq DOMAIN Grown(f)
<1>1. f.key \in DOMAIN Grown(f)
  BY DEF Grown
<1>2. \A b, r, s : Evicted(Grown(f), b, r, s) \subseteq DOMAIN Grown(f)
  BY OldestInTable DEF Evicted
<1> QED BY <1>1, <1>2 DEF Victims

\* Discarding entries of a finite table makes it smaller by as many.
LEMMA DiscardShrinks ==
    ASSUME NEW table, NEW keys, NEW b, NEW r, NEW s, Discard(table, keys, b, r, s),
           IsFiniteSet(DOMAIN table), keys \subseteq DOMAIN table
    PROVE  /\ IsFiniteSet(DOMAIN states')
           /\ Cardinality(DOMAIN states') = Cardinality(DOMAIN table) - Cardinality(keys)
           /\ IsFiniteSet(keys) /\ Cardinality(keys) \in Nat
           /\ Cardinality(DOMAIN table) \in Nat
<1>1. DOMAIN states' = DOMAIN table \ keys
  BY DiscardKeeps
<1>2. IsFiniteSet(keys)
  BY FS_Subset
<1>3. keys \cap DOMAIN table = keys
  OBVIOUS
<1>4. Cardinality(DOMAIN table \ keys) = Cardinality(DOMAIN table) - Cardinality(keys)
  BY <1>3, FS_Difference
<1>5. IsFiniteSet(DOMAIN table \ keys)
  BY FS_Difference
<1> QED BY <1>1, <1>2, <1>4, <1>5, FS_CardinalityType

\* A conflict needs a datagram to be in conflict with.
LEMMA ConflictIsKnown == ASSUME NEW f, Conflicts(f) PROVE f.key \in DOMAIN states
BY DEF Conflicts, Known, Empty

\* Nothing is lost or counted before the first fragment.
LEMMA CountedInit == Init => Tallies /\ LossCounted
<1> SUFFICES ASSUME Init PROVE Tallies /\ LossCounted
  OBVIOUS
<1>1. DOMAIN states = {}
  BY DEF Init
<1>2. IsFiniteSet(DOMAIN states) /\ Cardinality(DOMAIN states) = 0
  BY <1>1, FS_EmptySet
<1> QED BY <1>2 DEF Init, Tallies, LossCounted

\* Every step counts what it loses.
LEMMA CountedStep ==
    AllSound /\ Tallies /\ LossCounted /\ [Next]_vars => (Tallies /\ LossCounted)'
<1> SUFFICES ASSUME AllSound, Tallies, LossCounted, [Next]_vars
             PROVE  (Tallies /\ LossCounted)'
  OBVIOUS
<1> DEFINE size == Cardinality(DOMAIN states)
<1>1. size \in Nat
  BY FS_CardinalityType DEF Tallies
<1>2. ASSUME NEW f \in Fragments, RejectMalformed(f) PROVE (Tallies /\ LossCounted)'
  <2>1. IsFiniteSet(DOMAIN states') /\ Cardinality(DOMAIN states') \in {size, size - 1}
    <3>1. CASE f.key \in DOMAIN states
      <4>1. IsFiniteSet(DOMAIN states') /\ Cardinality(DOMAIN states') = size - Cardinality({f.key})
        BY <1>2, <3>1, DiscardShrinks DEF RejectMalformed, Tallies
      <4> QED BY <4>1, FS_Singleton
    <3>2. CASE f.key \notin DOMAIN states
      <4>1. DOMAIN states' = DOMAIN states \ {f.key}
        BY <1>2, DiscardKeeps DEF RejectMalformed
      <4> QED BY <3>2, <4>1 DEF Tallies
    <3> QED BY <3>1, <3>2
  <2>2. /\ stats' = [stats EXCEPT !.malformed = @ + 1]
        /\ created' = created /\ delivered' = delivered
    BY <1>2 DEF RejectMalformed
  <2> QED BY <1>1, <2>1, <2>2 DEF Tallies, LossCounted
<1>3. ASSUME NEW f \in Fragments, RejectConflict(f) PROVE (Tallies /\ LossCounted)'
  <2>1. f.key \in DOMAIN states
    BY <1>3, ConflictIsKnown DEF RejectConflict
  <2>2. IsFiniteSet(DOMAIN states') /\ Cardinality(DOMAIN states') = size - Cardinality({f.key})
    BY <1>3, <2>1, DiscardShrinks DEF RejectConflict, Tallies
  <2>3. Cardinality(DOMAIN states') = size - 1
    BY <2>2, FS_Singleton
  <2>4. /\ stats' = [stats EXCEPT !.conflicts = @ + 1]
        /\ created' = created /\ delivered' = delivered
    BY <1>3 DEF RejectConflict
  <2> QED BY <1>1, <2>2, <2>3, <2>4 DEF Tallies, LossCounted
<1>4. ASSUME NEW f \in Fragments, Accept(f) PROVE (Tallies /\ LossCounted)'
  <2> DEFINE spoilt == f.key \notin Victims(f) /\ Overruns(Merged(f))
             done == Completes(f) \/ spoilt
             gone == Victims(f) \cup (IF done THEN {f.key} ELSE {})
             entered == IF f.key \in DOMAIN states THEN 0 ELSE 1
             lost == Cardinality(Victims(f))
  <2>1. Discard(Grown(f), gone, GrownBytes(f), GrownRanges(f), GrownSources(f))
    BY <1>4 DEF Accept
  <2>2. /\ stats' = [stats EXCEPT !.evicted = @ + lost,
                                  !.conflicts = @ + IF spoilt THEN 1 ELSE 0]
        /\ created' = created + entered
        /\ delivered' = delivered + IF Completes(f) THEN 1 ELSE 0
    BY <1>4 DEF Accept
  <2>3. DOMAIN Grown(f) = DOMAIN states \cup {f.key}
    BY DEF Grown
  <2>4. IsFiniteSet(DOMAIN Grown(f)) /\ Cardinality(DOMAIN Grown(f)) = size + entered
    <3>1. CASE f.key \in DOMAIN states
      <4>1. DOMAIN Grown(f) = DOMAIN states
        BY <2>3, <3>1
      <4> QED BY <1>1, <3>1, <4>1 DEF Tallies
    <3>2. CASE f.key \notin DOMAIN states
      BY <2>3, <3>2, FS_AddElement DEF Tallies
    <3> QED BY <3>1, <3>2
  <2>5. Victims(f) \subseteq DOMAIN Grown(f) /\ gone \subseteq DOMAIN Grown(f)
    BY <2>3, VictimsInTable
  <2>6. IsFiniteSet(Victims(f)) /\ lost \in Nat
    BY <2>4, <2>5, FS_Subset, FS_CardinalityType
  <2>7. Cardinality(gone) = lost + IF done THEN 1 ELSE 0
    <3>1. done => f.key \notin Victims(f)
      BY DEF Completes
    <3>2. CASE done
      BY <2>6, <3>1, <3>2, FS_AddElement
    <3>3. CASE ~done
      BY <2>6, <3>3
    <3> QED BY <3>2, <3>3
  <2>8. /\ IsFiniteSet(DOMAIN states')
        /\ Cardinality(DOMAIN states') = (size + entered) - Cardinality(gone)
    <3> HIDE DEF gone
    <3>1. /\ IsFiniteSet(DOMAIN states')
          /\ Cardinality(DOMAIN states')
               = Cardinality(DOMAIN Grown(f)) - Cardinality(gone)
      BY <2>1, <2>4, <2>5, DiscardShrinks
    <3> QED BY <2>4, <3>1
  <2>9. ~(Completes(f) /\ spoilt)
    <3> DEFINE d == Merged(f)
    <3>1. Sound(d)
      BY <1>4, MergedSound DEF Accept
    <3> HIDE DEF d
    <3>2. IsComplete(d) => ~Overruns(d)
      BY <3>1 DEF Sound, IsComplete, Overruns, Ready
    <3> QED BY <3>2 DEF Completes, d
  <2>10. /\ stats'.evicted = stats.evicted + lost /\ stats'.expired = stats.expired
         /\ stats'.malformed = stats.malformed
         /\ stats'.conflicts = stats.conflicts + IF spoilt THEN 1 ELSE 0
         /\ stats' \in [malformed : Nat, conflicts : Nat, evicted : Nat, expired : Nat]
    <3> DEFINE one == IF spoilt THEN 1 ELSE 0
               Counters == [malformed : Nat, conflicts : Nat, evicted : Nat, expired : Nat]
               lossy == [stats EXCEPT !.evicted = @ + lost]
    <3>1. one \in Nat
      OBVIOUS
    <3> HIDE DEF spoilt, lost, one
    <3>2. /\ lossy \in Counters
          /\ lossy.evicted = stats.evicted + lost /\ lossy.expired = stats.expired
          /\ lossy.malformed = stats.malformed /\ lossy.conflicts = stats.conflicts
      BY <2>6 DEF Tallies
    <3>3. stats' = [lossy EXCEPT !.conflicts = stats.conflicts + one]
      BY <2>2, Zenon DEF one
    <3> HIDE DEF lossy
    <3>4. /\ stats' \in Counters
          /\ stats'.evicted = lossy.evicted /\ stats'.expired = lossy.expired
          /\ stats'.malformed = lossy.malformed /\ stats'.conflicts = stats.conflicts + one
      BY <3>1, <3>2, <3>3
    <3> QED BY <3>2, <3>4 DEF one
  <2>11. created' - delivered' - Cardinality(DOMAIN states') - stats'.evicted
           - stats'.expired - stats'.conflicts
         = created - delivered - size - stats.evicted - stats.expired - stats.conflicts
    <3> HIDE DEF size, spoilt, gone, lost, entered
    <3>1. entered \in Nat
      BY DEF entered
    <3>2. Cardinality(DOMAIN states')
            = (size + entered) - (lost + IF Completes(f) \/ spoilt THEN 1 ELSE 0)
      BY <2>7, <2>8
    <3>3. (IF Completes(f) \/ spoilt THEN 1 ELSE 0)
            = (IF Completes(f) THEN 1 ELSE 0) + (IF spoilt THEN 1 ELSE 0)
      BY <2>9
    <3> QED BY <1>1, <2>2, <2>6, <2>10, <3>1, <3>2, <3>3 DEF Tallies
  <2>12. Tallies'
    BY <2>2, <2>8, <2>10 DEF Tallies
  <2> QED BY <2>10, <2>11, <2>12 DEF LossCounted
<1>5. CASE Pause
  BY <1>5 DEF Pause, Tallies, LossCounted
<1>6. CASE Expire
  <2> DEFINE stale == Oldest(states, clock - Idle)
  <2>1. Discard(states, stale, bytes, ranges, sources)
    BY <1>6 DEF Expire
  <2>2. stale \subseteq DOMAIN states
    BY OldestInTable
  <2>3. /\ stats' = [stats EXCEPT !.expired = @ + Cardinality(stale)]
        /\ created' = created /\ delivered' = delivered
    BY <1>6 DEF Expire
  <2> HIDE DEF stale
  <2>4. /\ IsFiniteSet(DOMAIN states')
        /\ Cardinality(DOMAIN states') = size - Cardinality(stale)
        /\ Cardinality(stale) \in Nat
    BY <2>1, <2>2, DiscardShrinks DEF Tallies
  <2> QED BY <1>1, <2>3, <2>4 DEF Tallies, LossCounted
<1>7. CASE UNCHANGED vars
  BY <1>7 DEF vars, Tallies, LossCounted
<1> QED BY <1>2, <1>3, <1>4, <1>5, <1>6, <1>7 DEF Next

\* No datagram disappears unseen, however many limits a fragment exceeds: it is
\* in the table, was delivered, or exactly one counter has it.
THEOREM EveryLossCounted == Spec => []LossCounted
BY CountedInit, CountedStep, AlwaysSound, PTL DEF Spec
-----------------------------------------------------------------------------
\* The byte count of a datagram is what it holds.
Measured(d) ==
    /\ IsFiniteSet(DOMAIN d.data) /\ d.bytes = Cardinality(DOMAIN d.data)
    /\ d.sources \in Nat

\* The three counters of a table.
Holds(table, b, r, s) ==
    /\ IsFiniteSet(DOMAIN table) /\ \A k \in DOMAIN table : Measured(table[k])
    /\ b = BytesOf(table, DOMAIN table)
    /\ r = RangesOf(table, DOMAIN table)
    /\ s = SourcesOf(table, DOMAIN table)

\* The table would be within the limits without these keys.
Fits(table, keys, b, r, s) ==
    /\ Cardinality(DOMAIN table \ keys) <= MaxDatagrams
    /\ b - BytesOf(table, keys) <= MaxBytes
    /\ r - RangesOf(table, keys) <= MaxRanges
    /\ s - SourcesOf(table, keys) <= MaxSources

\* No datagram was active after now, so giving up the oldest gives up any of them.
Timed == clock \in Nat /\ \A k \in DOMAIN states : states[k].at \in 0 .. clock

Limited ==
    /\ Holds(states, bytes, ranges, sources) /\ Fits(states, {}, bytes, ranges, sources)
    /\ \A k \in DOMAIN states : Runs(states[k].data) <= MaxRangesEach

ByteWeights(table)   == [k \in DOMAIN table |-> table[k].bytes]
RangeWeights(table)  == [k \in DOMAIN table |-> Runs(table[k].data)]
SourceWeights(table) == [k \in DOMAIN table |-> table[k].sources]

\* The ranges of a datagram are a number.
LEMMA RunsIsNat == ASSUME NEW d, Measured(d) PROVE Runs(d.data) \in Nat
<1>1. {p \in DOMAIN d.data : p - 1 \notin DOMAIN d.data} \in SUBSET DOMAIN d.data
  OBVIOUS
<1> QED BY <1>1, FS_Subset, FS_CardinalityType DEF Measured, Runs

\* The sums of the model are sums of one function per counter.
LEMMA WeightsSum ==
    ASSUME NEW table, IsFiniteSet(DOMAIN table), \A k \in DOMAIN table : Measured(table[k]),
           NEW keys, keys \subseteq DOMAIN table
    PROVE  /\ Natural(ByteWeights(table), DOMAIN table)
           /\ Natural(RangeWeights(table), DOMAIN table)
           /\ Natural(SourceWeights(table), DOMAIN table)
           /\ BytesOf(table, keys) = SumFunctionOnSet(ByteWeights(table), keys)
           /\ RangesOf(table, keys) = SumFunctionOnSet(RangeWeights(table), keys)
           /\ SourcesOf(table, keys) = SumFunctionOnSet(SourceWeights(table), keys)
<1>1. \A k \in DOMAIN table :
        table[k].bytes \in Nat /\ Runs(table[k].data) \in Nat /\ table[k].sources \in Nat
  BY RunsIsNat, FS_CardinalityType DEF Measured
<1>2. /\ Natural(ByteWeights(table), DOMAIN table)
      /\ Natural(RangeWeights(table), DOMAIN table)
      /\ Natural(SourceWeights(table), DOMAIN table)
  BY <1>1 DEF Natural, ByteWeights, RangeWeights, SourceWeights
<1>3. IsFiniteSet(keys)
  BY FS_Subset
<1>4. /\ Integral(ByteWeights(table), keys) /\ Integral(RangeWeights(table), keys)
      /\ Integral(SourceWeights(table), keys)
  BY <1>2, <1>3 DEF Natural, Integral
<1>5. BytesOf(table, keys) = SumFunctionOnSet(ByteWeights(table), keys)
  <2> DEFINE g == [k \in keys |-> table[k].bytes]
  <2>1. \A k \in keys : ByteWeights(table)[k] = g[k]
    BY DEF ByteWeights
  <2> HIDE DEF g
  <2>2. SumFunctionOnSet(ByteWeights(table), keys) = SumFunctionOnSet(g, keys)
    BY <1>4, <2>1, SumSame
  <2> QED BY <2>2 DEF BytesOf, g
<1>6. RangesOf(table, keys) = SumFunctionOnSet(RangeWeights(table), keys)
  <2> DEFINE g == [k \in keys |-> Runs(table[k].data)]
  <2>1. \A k \in keys : RangeWeights(table)[k] = g[k]
    BY DEF RangeWeights
  <2> HIDE DEF g
  <2>2. SumFunctionOnSet(RangeWeights(table), keys) = SumFunctionOnSet(g, keys)
    BY <1>4, <2>1, SumSame
  <2> QED BY <2>2 DEF RangesOf, g
<1>7. SourcesOf(table, keys) = SumFunctionOnSet(SourceWeights(table), keys)
  <2> DEFINE g == [k \in keys |-> table[k].sources]
  <2>1. \A k \in keys : SourceWeights(table)[k] = g[k]
    BY DEF SourceWeights
  <2> HIDE DEF g
  <2>2. SumFunctionOnSet(SourceWeights(table), keys) = SumFunctionOnSet(g, keys)
    BY <1>4, <2>1, SumSame
  <2> QED BY <2>2 DEF SourcesOf, g
<1> QED BY <1>2, <1>5, <1>6, <1>7

\* What a smaller table holds.
LEMMA RestSums ==
    ASSUME NEW table, NEW rest, NEW keys, keys \subseteq DOMAIN table,
           IsFiniteSet(DOMAIN table), \A k \in DOMAIN table : Measured(table[k]),
           DOMAIN rest = DOMAIN table \ keys, \A k \in DOMAIN rest : rest[k] = table[k]
    PROVE  /\ BytesOf(rest, DOMAIN rest) = BytesOf(table, DOMAIN table) - BytesOf(table, keys)
           /\ RangesOf(rest, DOMAIN rest) = RangesOf(table, DOMAIN table) - RangesOf(table, keys)
           /\ SourcesOf(rest, DOMAIN rest) = SourcesOf(table, DOMAIN table) - SourcesOf(table, keys)
<1> DEFINE D == DOMAIN table
           E == DOMAIN rest
<1>1. E \in SUBSET D /\ keys \in SUBSET D /\ E = D \ keys /\ D \subseteq D
  OBVIOUS
<1>2. /\ BytesOf(rest, E) = BytesOf(table, E) /\ RangesOf(rest, E) = RangesOf(table, E)
      /\ SourcesOf(rest, E) = SourcesOf(table, E)
  <2>1. [k \in E |-> rest[k].bytes] = [k \in E |-> table[k].bytes]
    OBVIOUS
  <2>2. [k \in E |-> Runs(rest[k].data)] = [k \in E |-> Runs(table[k].data)]
    OBVIOUS
  <2>3. [k \in E |-> rest[k].sources] = [k \in E |-> table[k].sources]
    OBVIOUS
  <2> QED BY <2>1, <2>2, <2>3 DEF BytesOf, RangesOf, SourcesOf
<1>3. BytesOf(table, E) = BytesOf(table, D) - BytesOf(table, keys)
  BY <1>1, WeightsSum, SumPart
<1>4. RangesOf(table, E) = RangesOf(table, D) - RangesOf(table, keys)
  BY <1>1, WeightsSum, SumPart
<1>5. SourcesOf(table, E) = SourcesOf(table, D) - SourcesOf(table, keys)
  BY <1>1, WeightsSum, SumPart
<1> QED BY <1>2, <1>3, <1>4, <1>5

\* The more goes, the less is left.
LEMMA FitsMore ==
    ASSUME NEW table, NEW keys, NEW more, keys \subseteq more, more \subseteq DOMAIN table,
           NEW b, NEW r, NEW s, Holds(table, b, r, s), Fits(table, keys, b, r, s)
    PROVE  Fits(table, more, b, r, s)
<1> DEFINE D == DOMAIN table
<1>1. /\ IsFiniteSet(D) /\ (\A k \in D : Measured(table[k])) /\ D \subseteq D
      /\ keys \subseteq D /\ keys \in SUBSET more
  BY DEF Holds
<1>2. /\ b \in Int /\ r \in Int /\ s \in Int
  <2>1. /\ SumFunctionOnSet(ByteWeights(table), D) \in Nat
        /\ SumFunctionOnSet(RangeWeights(table), D) \in Nat
        /\ SumFunctionOnSet(SourceWeights(table), D) \in Nat
    BY <1>1, WeightsSum, SumNat
  <2> QED BY <1>1, <2>1, WeightsSum DEF Holds
<1>3. ASSUME NEW w, Natural(w, D)
      PROVE  /\ SumFunctionOnSet(w, keys) \in Nat /\ SumFunctionOnSet(w, more) \in Nat
             /\ SumFunctionOnSet(w, keys) <= SumFunctionOnSet(w, more)
  <2>1. Natural(w, more)
    BY <1>1, <1>3, FS_Subset DEF Natural
  <2> QED BY <1>1, <2>1, SumPart
<1>4. b - BytesOf(table, more) <= MaxBytes
  <2>1. /\ BytesOf(table, keys) \in Nat /\ BytesOf(table, more) \in Nat
        /\ BytesOf(table, keys) <= BytesOf(table, more)
    BY <1>1, <1>3, WeightsSum
  <2> QED BY <1>2, <2>1, FragmentAssumption DEF Fits
<1>5. r - RangesOf(table, more) <= MaxRanges
  <2>1. /\ RangesOf(table, keys) \in Nat /\ RangesOf(table, more) \in Nat
        /\ RangesOf(table, keys) <= RangesOf(table, more)
    BY <1>1, <1>3, WeightsSum
  <2> QED BY <1>2, <2>1, FragmentAssumption DEF Fits
<1>6. s - SourcesOf(table, more) <= MaxSources
  <2>1. /\ SourcesOf(table, keys) \in Nat /\ SourcesOf(table, more) \in Nat
        /\ SourcesOf(table, keys) <= SourcesOf(table, more)
    BY <1>1, <1>3, WeightsSum
  <2> QED BY <1>2, <2>1, FragmentAssumption DEF Fits
<1>7. Cardinality(D \ more) <= MaxDatagrams
  <2>1. IsFiniteSet(D \ keys) /\ D \ more \in SUBSET (D \ keys)
    BY <1>1, FS_Subset
  <2>2. /\ Cardinality(D \ more) <= Cardinality(D \ keys)
        /\ Cardinality(D \ more) \in Nat /\ Cardinality(D \ keys) \in Nat
    BY <2>1, FS_Subset, FS_CardinalityType
  <2> QED BY <2>2, FragmentAssumption DEF Fits
<1> QED BY <1>4, <1>5, <1>6, <1>7 DEF Fits

\* _discard leaves the counters right, and the limits kept if they would be kept
\* without some of the keys.
LEMMA DiscardLimits ==
    ASSUME NEW table, NEW keys, NEW V, V \subseteq keys, keys \subseteq DOMAIN table,
           NEW b, NEW r, NEW s, Holds(table, b, r, s), Fits(table, V, b, r, s),
           Discard(table, keys, b, r, s),
           \A k \in DOMAIN table \ keys : Runs(table[k].data) <= MaxRangesEach
    PROVE  Limited'
<1>1. /\ DOMAIN states' = DOMAIN table \ keys /\ \A k \in DOMAIN states' : states'[k] = table[k]
  BY DiscardKeeps
<1>2. /\ IsFiniteSet(DOMAIN table) /\ (\A k \in DOMAIN table : Measured(table[k]))
      /\ b = BytesOf(table, DOMAIN table) /\ r = RangesOf(table, DOMAIN table)
      /\ s = SourcesOf(table, DOMAIN table)
  BY DEF Holds
<1>3. keys \cap DOMAIN table = keys
  OBVIOUS
<1>4. /\ bytes' = b - BytesOf(table, keys) /\ ranges' = r - RangesOf(table, keys)
      /\ sources' = s - SourcesOf(table, keys)
  BY <1>3 DEF Discard
<1>5. PICK rest : rest = states'
  OBVIOUS
<1>6. /\ BytesOf(rest, DOMAIN rest) = b - BytesOf(table, keys)
      /\ RangesOf(rest, DOMAIN rest) = r - RangesOf(table, keys)
      /\ SourcesOf(rest, DOMAIN rest) = s - SourcesOf(table, keys)
  BY <1>1, <1>2, <1>5, RestSums
<1>7. IsFiniteSet(DOMAIN rest)
  BY <1>1, <1>2, <1>5, FS_Subset
<1>8. Holds(rest, bytes', ranges', sources')
  BY <1>1, <1>2, <1>4, <1>5, <1>6, <1>7 DEF Holds
<1>9. Fits(table, keys, b, r, s)
  BY FitsMore
<1>10. Fits(rest, {}, bytes', ranges', sources')
  <2>1. BytesOf(rest, {}) = 0 /\ RangesOf(rest, {}) = 0 /\ SourcesOf(rest, {}) = 0
    BY SumEmpty DEF BytesOf, RangesOf, SourcesOf
  <2>2. DOMAIN rest \ {} = DOMAIN table \ keys
    BY <1>1, <1>5
  <2>3. bytes' \in Int /\ ranges' \in Int /\ sources' \in Int
    <3>1. /\ SumFunctionOnSet(ByteWeights(rest), DOMAIN rest) \in Nat
          /\ SumFunctionOnSet(RangeWeights(rest), DOMAIN rest) \in Nat
          /\ SumFunctionOnSet(SourceWeights(rest), DOMAIN rest) \in Nat
      BY <1>7, <1>8, WeightsSum, SumNat DEF Holds
    <3> QED BY <1>7, <1>8, <3>1, WeightsSum DEF Holds
  <2>4. /\ Cardinality(DOMAIN rest \ {}) <= MaxDatagrams
        /\ bytes' <= MaxBytes /\ ranges' <= MaxRanges /\ sources' <= MaxSources
    BY <1>4, <1>9, <2>2 DEF Fits
  <2> QED BY <2>1, <2>3, <2>4 DEF Fits
<1>11. \A k \in DOMAIN rest : Runs(rest[k].data) <= MaxRangesEach
  BY <1>1, <1>5
<1> QED BY <1>5, <1>8, <1>10, <1>11 DEF Limited

\* The keys of a set that are not in the table do not matter to _discard.
LEMMA DiscardInTable ==
    ASSUME NEW table, NEW keys, NEW b, NEW r, NEW s, Discard(table, keys, b, r, s)
    PROVE  Discard(table, keys \cap DOMAIN table, b, r, s)
<1>1. (keys \cap DOMAIN table) \cap DOMAIN table = keys \cap DOMAIN table
  OBVIOUS
<1> QED BY <1>1 DEF Discard

\* Datagrams that are given up leave a limited table limited.
LEMMA LimitedDiscard ==
    ASSUME Limited, NEW keys, Discard(states, keys, bytes, ranges, sources) PROVE Limited'
<1> DEFINE gone == keys \cap DOMAIN states
<1>1. Discard(states, gone, bytes, ranges, sources) /\ {} \subseteq gone /\ gone \subseteq DOMAIN states
  BY DiscardInTable
<1> HIDE DEF gone
<1> QED BY <1>1, DiscardLimits DEF Limited

\* The datagram with the fragment is measured as it was.
LEMMA MergedMeasured ==
    ASSUME Holds(states, bytes, ranges, sources), NEW f \in Fragments
    PROVE  /\ Measured(Known(f)) /\ Measured(Merged(f))
           /\ Cardinality(Additions(f)) \in Nat
           /\ Merged(f).bytes = Known(f).bytes + Cardinality(Additions(f))
           /\ Merged(f).sources = Known(f).sources + (IF Additions(f) = {} THEN 0 ELSE 1)
           /\ Merged(f).at = clock
<1>1. Measured(Known(f))
  <2>1. Measured(Empty)
    <3>1. DOMAIN Empty.data = {} /\ Empty.bytes = 0 /\ Empty.sources = 0
      BY DEF Empty
    <3> QED BY <3>1, FS_EmptySet DEF Measured
  <2> QED BY <2>1 DEF Known, Holds
<1>2. IsFiniteSet(Positions(f))
  <2>1. PICK a \in Int, b \in Int : a = f.off /\ b = f.off + f.len - 1
    BY FragmentAssumption
  <2>2. IsFiniteSet(a .. b)
    BY FS_Interval
  <2> QED BY <2>1, <2>2 DEF Positions
<1> DEFINE old == DOMAIN Known(f).data
           new == Additions(f)
<1>3. IsFiniteSet(old) /\ Known(f).bytes = Cardinality(old) /\ Known(f).sources \in Nat
  BY <1>1 DEF Measured
<1>4. IsFiniteSet(new) /\ old \cap new = {} /\ old \cup new = old \cup Positions(f)
  BY <1>2, FS_Subset DEF Additions
<1>5. /\ DOMAIN Merged(f).data = old \cup Positions(f)
      /\ Merged(f).bytes = Known(f).bytes + Cardinality(new)
      /\ Merged(f).sources = Known(f).sources + (IF new = {} THEN 0 ELSE 1)
      /\ Merged(f).at = clock
  BY DEF Merged
<1> HIDE DEF old, new
<1>6. /\ IsFiniteSet(old \cup new) /\ Cardinality(old) \in Nat /\ Cardinality(new) \in Nat
      /\ Cardinality(old \cup new) = Cardinality(old) + Cardinality(new) - Cardinality(old \cap new)
  BY <1>3, <1>4, FS_Union, FS_CardinalityType
<1>7. Cardinality(old \cap new) = 0
  BY <1>4, FS_EmptySet
<1>8. IsFiniteSet(DOMAIN Merged(f).data) /\ Merged(f).bytes = Cardinality(DOMAIN Merged(f).data)
  <2>1. DOMAIN Merged(f).data = old \cup new
    BY <1>4, <1>5
  <2>2. Cardinality(old \cup new) = Cardinality(old) + Cardinality(new)
    BY <1>6, <1>7
  <2> QED BY <1>3, <1>5, <1>6, <2>1, <2>2
<1>9. Merged(f).sources \in Nat
  BY <1>3, <1>5
<1> QED BY <1>1, <1>5, <1>6, <1>8, <1>9 DEF Measured, new

\* The counters follow the fragment into the table.
LEMMA GrownHolds ==
    ASSUME Holds(states, bytes, ranges, sources), NEW f \in Fragments
    PROVE  Holds(Grown(f), GrownBytes(f), GrownRanges(f), GrownSources(f))
<1> DEFINE D == DOMAIN states
           x == f.key
           table == Grown(f)
           d == Merged(f)
           o == Known(f)
<1>1. /\ DOMAIN table = D \cup {x} /\ table[x] = d /\ \A k \in D \ {x} : table[k] = states[k]
      /\ IsFiniteSet(D) /\ D \subseteq D /\ \A k \in D : Measured(states[k])
  BY DEF Grown, Holds
<1>2. /\ Measured(o) /\ Measured(d) /\ Cardinality(Additions(f)) \in Nat
      /\ d.bytes = o.bytes + Cardinality(Additions(f))
      /\ d.sources = o.sources + (IF Additions(f) = {} THEN 0 ELSE 1)
  BY MergedMeasured
<1>3. IF x \in D THEN o = states[x]
      ELSE o.bytes = 0 /\ o.sources = 0 /\ Runs(o.data) = 0
  <2>1. Runs(Empty.data) = 0 /\ Empty.bytes = 0 /\ Empty.sources = 0
    <3>1. DOMAIN Empty.data = {}
      BY DEF Empty
    <3>2. {p \in DOMAIN Empty.data : p - 1 \notin DOMAIN Empty.data} = {}
      BY <3>1
    <3>3. Runs(Empty.data) = 0
      BY <3>2, FS_EmptySet DEF Runs
    <3> QED BY <3>3 DEF Empty
  <2> QED BY <2>1 DEF Known
<1>4. /\ d.bytes \in Nat /\ o.bytes \in Nat /\ d.sources \in Nat /\ o.sources \in Nat
      /\ Runs(d.data) \in Nat /\ Runs(o.data) \in Nat
  BY <1>2, RunsIsNat, FS_CardinalityType DEF Measured
<1> HIDE DEF D, x, table, d, o
<1>5. IsFiniteSet(DOMAIN table) /\ (\A k \in DOMAIN table : Measured(table[k]))
      /\ DOMAIN table \subseteq DOMAIN table
  BY <1>1, <1>2, FS_AddElement
<1>6. GrownBytes(f) = BytesOf(table, DOMAIN table)
  <2> DEFINE w == ByteWeights(states)
             v == ByteWeights(table)
  <2>1. /\ v[x] = d.bytes /\ (\A k \in D \ {x} : v[k] = w[k])
        /\ (IF x \in D THEN w[x] ELSE 0) = o.bytes
    BY <1>1, <1>3 DEF ByteWeights, D
  <2>2. Integral(w, D) /\ bytes = SumFunctionOnSet(w, D) /\ bytes \in Int
    <3>1. Natural(w, D) /\ BytesOf(states, D) = SumFunctionOnSet(w, D)
      BY <1>1, WeightsSum DEF D
    <3> QED BY <3>1, SumNat DEF Natural, Integral, Holds, D
  <2>3. BytesOf(table, DOMAIN table) = SumFunctionOnSet(v, D \cup {x})
    BY <1>1, <1>5, WeightsSum
  <2> HIDE DEF w, v
  <2>4. SumFunctionOnSet(v, D \cup {x}) = SumFunctionOnSet(w, D) - (IF x \in D THEN w[x] ELSE 0) + v[x]
    BY <1>4, <2>1, <2>2, SumPut
  <2> QED BY <1>2, <1>4, <2>1, <2>2, <2>3, <2>4 DEF GrownBytes
<1>7. GrownRanges(f) = RangesOf(table, DOMAIN table)
  <2> DEFINE w == RangeWeights(states)
             v == RangeWeights(table)
  <2>1. /\ v[x] = Runs(d.data) /\ (\A k \in D \ {x} : v[k] = w[k])
        /\ (IF x \in D THEN w[x] ELSE 0) = Runs(o.data)
    BY <1>1, <1>3 DEF RangeWeights, D
  <2>2. Integral(w, D) /\ ranges = SumFunctionOnSet(w, D) /\ ranges \in Int
    <3>1. Natural(w, D) /\ RangesOf(states, D) = SumFunctionOnSet(w, D)
      BY <1>1, WeightsSum DEF D
    <3> QED BY <3>1, SumNat DEF Natural, Integral, Holds, D
  <2>3. RangesOf(table, DOMAIN table) = SumFunctionOnSet(v, D \cup {x})
    BY <1>1, <1>5, WeightsSum
  <2> HIDE DEF w, v
  <2>4. SumFunctionOnSet(v, D \cup {x}) = SumFunctionOnSet(w, D) - (IF x \in D THEN w[x] ELSE 0) + v[x]
    BY <1>4, <2>1, <2>2, SumPut
  <2>5. GrownRanges(f) = ranges + Runs(d.data) - Runs(o.data)
    BY DEF GrownRanges, d, o
  <2> QED BY <1>4, <2>1, <2>2, <2>3, <2>4, <2>5
<1>8. GrownSources(f) = SourcesOf(table, DOMAIN table)
  <2> DEFINE w == SourceWeights(states)
             v == SourceWeights(table)
             one == IF Additions(f) = {} THEN 0 ELSE 1
  <2>1. /\ v[x] = d.sources /\ (\A k \in D \ {x} : v[k] = w[k])
        /\ (IF x \in D THEN w[x] ELSE 0) = o.sources
    BY <1>1, <1>3 DEF SourceWeights, D
  <2>2. Integral(w, D) /\ sources = SumFunctionOnSet(w, D) /\ sources \in Int
    <3>1. Natural(w, D) /\ SourcesOf(states, D) = SumFunctionOnSet(w, D)
      BY <1>1, WeightsSum DEF D
    <3> QED BY <3>1, SumNat DEF Natural, Integral, Holds, D
  <2>3. SourcesOf(table, DOMAIN table) = SumFunctionOnSet(v, D \cup {x})
    BY <1>1, <1>5, WeightsSum
  <2> HIDE DEF w, v
  <2>4. SumFunctionOnSet(v, D \cup {x}) = SumFunctionOnSet(w, D) - (IF x \in D THEN w[x] ELSE 0) + v[x]
    BY <1>4, <2>1, <2>2, SumPut
  <2>5. GrownSources(f) = sources + one /\ one \in Nat /\ d.sources = o.sources + one
    BY <1>2 DEF GrownSources
  <2> HIDE DEF one
  <2> QED BY <1>4, <2>1, <2>2, <2>3, <2>4, <2>5
<1> QED BY <1>5, <1>6, <1>7, <1>8 DEF Holds, table

\* _evict_to_limits stops, and it stops within the limits: at the latest when it has
\* given up everything.
LEMMA EvictedFits ==
    ASSUME NEW table, NEW b, NEW r, NEW s, Holds(table, b, r, s), NEW c \in Nat,
           \A k \in DOMAIN table : table[k].at \in 0 .. c, \E k \in DOMAIN table : table[k].at = c
    PROVE  Fits(table, Evicted(table, b, r, s), b, r, s)
<1> DEFINE ats == {-1} \cup {table[k].at : k \in DOMAIN table}
           T == {m \in ats : Fits(table, Oldest(table, m), b, r, s)}
<1>1. Evicted(table, b, r, s) = Oldest(table, Min(T))
  BY DEF Evicted, Fits
<1>2. Fits(table, DOMAIN table, b, r, s)
  <2> DEFINE D == DOMAIN table
  <2>1. /\ b = BytesOf(table, D) /\ r = RangesOf(table, D) /\ s = SourcesOf(table, D)
        /\ IsFiniteSet(D) /\ D \subseteq D /\ \A k \in D : Measured(table[k])
    BY DEF Holds
  <2>2. /\ SumFunctionOnSet(ByteWeights(table), D) \in Nat
        /\ SumFunctionOnSet(RangeWeights(table), D) \in Nat
        /\ SumFunctionOnSet(SourceWeights(table), D) \in Nat
    BY <2>1, WeightsSum, SumNat
  <2>3. b \in Nat /\ r \in Nat /\ s \in Nat
    BY <2>1, <2>2, WeightsSum
  <2>4. b - b = 0 /\ r - r = 0 /\ s - s = 0
    BY <2>3
  <2>5. D \ D = {} /\ Cardinality({}) = 0
    BY FS_EmptySet
  <2>6. 0 <= MaxBytes /\ 0 <= MaxRanges /\ 0 <= MaxSources /\ 0 <= MaxDatagrams
    BY FragmentAssumption
  <2> QED BY <2>1, <2>4, <2>5, <2>6 DEF Fits
<1>3. Oldest(table, c) = DOMAIN table
  BY DEF Oldest
<1>4. T \subseteq Int /\ (\A m \in T : -1 <= m) /\ T # {} /\ -1 \in Int
  <2>1. \A m \in ats : m \in Int /\ -1 <= m
    OBVIOUS
  <2>2. c \in ats
    OBVIOUS
  <2> HIDE DEF ats
  <2>3. c \in T
    BY <1>2, <1>3, <2>2
  <2>4. T \subseteq ats
    OBVIOUS
  <2> HIDE DEF T
  <2> QED BY <2>1, <2>3, <2>4
<1>5. \A m \in T : Fits(table, Oldest(table, m), b, r, s)
  OBVIOUS
<1> HIDE DEF T
<1>6. \E m \in T : \A k \in T : m <= k
  BY <1>4, LeastInteger
<1>7. Min(T) \in T
  BY <1>6 DEF Min
<1> QED BY <1>1, <1>5, <1>7

\* process, when it takes the fragment.
LEMMA AcceptLimits ==
    ASSUME Limited, Timed, NEW f \in Fragments, Accept(f) PROVE Limited'
<1> DEFINE table == Grown(f)
           b == GrownBytes(f)
           r == GrownRanges(f)
           s == GrownSources(f)
           x == f.key
           V == Victims(f)
<1>1. Holds(table, b, r, s)
  BY GrownHolds DEF Limited
<1>2. PICK gone : gone \in {V, V \cup {x}} /\ Discard(table, gone, b, r, s)
  BY DEF Accept
<1>3. /\ DOMAIN table = DOMAIN states \cup {x} /\ table[x] = Merged(f)
      /\ \A k \in DOMAIN states \ {x} : table[k] = states[k]
  BY DEF Grown
<1>4. V \subseteq DOMAIN table
  BY VictimsInTable
<1>5. V \subseteq gone /\ gone \subseteq DOMAIN table
  BY <1>2, <1>3, <1>4
<1>6. \A k \in DOMAIN table \ {x} : Runs(table[k].data) <= MaxRangesEach
  BY <1>3 DEF Limited
<1>7. CASE Runs(Merged(f).data) > MaxRangesEach
  <2>1. V = {x}
    BY <1>7 DEF Victims
  <2>2. Fits(table, V, b, r, s)
    <3> DEFINE rest == Without(table, {x})
               E == DOMAIN states \ {x}
    <3>1. DOMAIN rest = DOMAIN table \ {x} /\ \A k \in DOMAIN rest : rest[k] = table[k]
      BY DEF Without
    <3>2. PICK old : old = Without(states, {x} \cap DOMAIN states)
      OBVIOUS
    <3>3. DOMAIN old = E /\ \A k \in E : old[k] = states[k]
      BY <3>2 DEF Without
    <3>4. DOMAIN rest = E /\ \A k \in E : rest[k] = old[k]
      BY <1>3, <3>1, <3>3
    <3> HIDE DEF rest
    <3>5. /\ BytesOf(rest, E) = BytesOf(old, E) /\ RangesOf(rest, E) = RangesOf(old, E)
          /\ SourcesOf(rest, E) = SourcesOf(old, E)
      <4>1. [k \in E |-> rest[k].bytes] = [k \in E |-> old[k].bytes]
        BY <3>4
      <4>2. [k \in E |-> Runs(rest[k].data)] = [k \in E |-> Runs(old[k].data)]
        BY <3>4
      <4>3. [k \in E |-> rest[k].sources] = [k \in E |-> old[k].sources]
        BY <3>4
      <4> QED BY <4>1, <4>2, <4>3 DEF BytesOf, RangesOf, SourcesOf
    <3>6. /\ BytesOf(rest, E) = b - BytesOf(table, {x}) /\ RangesOf(rest, E) = r - RangesOf(table, {x})
          /\ SourcesOf(rest, E) = s - SourcesOf(table, {x})
      <4>1. {x} \subseteq DOMAIN table
        BY <1>3
      <4> QED BY <1>1, <3>1, <3>4, <4>1, RestSums DEF Holds
    <3> DEFINE mine == {x} \cap DOMAIN states
    <3>7. mine \subseteq DOMAIN states /\ {} \subseteq mine /\ E = DOMAIN states \ mine
      OBVIOUS
    <3> HIDE DEF mine
    <3>8. Fits(states, mine, bytes, ranges, sources)
      BY <3>7, FitsMore DEF Limited
    <3>9. /\ BytesOf(old, E) = bytes - BytesOf(states, mine)
          /\ RangesOf(old, E) = ranges - RangesOf(states, mine)
          /\ SourcesOf(old, E) = sources - SourcesOf(states, mine)
      BY <3>3, <3>7, RestSums DEF Limited, Holds
    <3>10. DOMAIN table \ V = E
      BY <1>3, <2>1
    <3> HIDE DEF E, table, b, r, s, V
    <3> QED BY <2>1, <3>5, <3>6, <3>7, <3>8, <3>9, <3>10 DEF Fits
  <2>3. \A k \in DOMAIN table \ gone : Runs(table[k].data) <= MaxRangesEach
    BY <1>5, <1>6, <2>1
  <2> HIDE DEF table, b, r, s, V
  <2> QED BY <1>1, <1>2, <1>5, <2>2, <2>3, DiscardLimits
<1>8. CASE ~(Runs(Merged(f).data) > MaxRangesEach)
  <2>1. V = Evicted(table, b, r, s)
    BY <1>8 DEF Victims
  <2>2. clock \in Nat /\ (\A k \in DOMAIN table : table[k].at \in 0 .. clock)
        /\ \E k \in DOMAIN table : table[k].at = clock
    <3>1. Merged(f).at = clock
      BY MergedMeasured DEF Limited
    <3>2. clock \in Nat /\ \A k \in DOMAIN states : states[k].at \in 0 .. clock
      BY DEF Timed
    <3> HIDE DEF table
    <3> QED BY <1>3, <3>1, <3>2
  <2>3. Runs(Merged(f).data) \in Nat
    BY MergedMeasured, RunsIsNat DEF Limited
  <2>4. Runs(Merged(f).data) <= MaxRangesEach
    BY <1>8, <2>3, FragmentAssumption
  <2>5. \A k \in DOMAIN table \ gone : Runs(table[k].data) <= MaxRangesEach
    BY <1>3, <1>6, <2>4
  <2> HIDE DEF table, b, r, s, V
  <2>6. Fits(table, V, b, r, s)
    BY <1>1, <2>1, <2>2, EvictedFits
  <2> QED BY <1>1, <1>2, <1>5, <2>5, <2>6, DiscardLimits
<1> QED BY <1>7, <1>8

\* The activity stamps are clock values.
LEMMA TimedStep == ASSUME Limited, Timed, [Next]_vars PROVE Timed'
<1> DEFINE Stamped(table, now) == \A k \in DOMAIN table : table[k].at \in 0 .. now
<1>1. clock \in Nat /\ Stamped(states, clock) /\ Idle \in Nat
  BY FragmentAssumption DEF Timed
<1>2. ASSUME NEW keys, NEW b, NEW r, NEW s, Discard(states, keys, b, r, s) PROVE Stamped(states', clock)
  BY <1>1, <1>2, DiscardKeeps
<1>3. ASSUME NEW f \in Fragments, Accept(f) PROVE Stamped(states', clock)
  <2>1. PICK gone : Discard(Grown(f), gone, GrownBytes(f), GrownRanges(f), GrownSources(f))
    BY <1>3 DEF Accept
  <2>2. Merged(f).at = clock
    BY MergedMeasured DEF Limited
  <2>3. Stamped(Grown(f), clock)
    BY <1>1, <2>2 DEF Grown
  <2> QED BY <2>1, <2>3, DiscardKeeps
<1>4. ASSUME Stamped(states', clock), clock' \in Nat, clock <= clock' PROVE Timed'
  BY <1>1, <1>4 DEF Timed
<1>5. ASSUME NEW f \in Fragments, RejectMalformed(f) \/ RejectConflict(f) \/ Accept(f) PROVE Timed'
  <2>1. clock' = clock + 1
    BY <1>5 DEF RejectMalformed, RejectConflict, Accept
  <2>2. Stamped(states', clock)
    BY <1>2, <1>3, <1>5 DEF RejectMalformed, RejectConflict
  <2> QED BY <1>1, <1>4, <2>1, <2>2
<1>6. CASE Pause
  BY <1>1, <1>4, <1>6 DEF Pause
<1>7. CASE Expire
  <2>1. clock' = clock
    BY <1>7 DEF Expire
  <2>2. Stamped(states', clock)
    BY <1>2, <1>7 DEF Expire
  <2> QED BY <1>1, <1>4, <2>1, <2>2
<1>8. CASE UNCHANGED vars
  BY <1>1, <1>8 DEF vars, Timed
<1> QED BY <1>5, <1>6, <1>7, <1>8 DEF Next

\* The table starts within its limits.
LEMMA LimitedInit == ASSUME Init PROVE Limited /\ Timed
<1>1. DOMAIN states = {} /\ bytes = 0 /\ ranges = 0 /\ sources = 0 /\ clock = 0
  BY DEF Init
<1>2. IsFiniteSet({}) /\ Cardinality({}) = 0
  BY FS_EmptySet
<1>3. \A table : BytesOf(table, {}) = 0 /\ RangesOf(table, {}) = 0 /\ SourcesOf(table, {}) = 0
  BY SumEmpty DEF BytesOf, RangesOf, SourcesOf
<1>4. Holds(states, bytes, ranges, sources)
  BY <1>1, <1>2, <1>3 DEF Holds
<1>5. Fits(states, {}, bytes, ranges, sources)
  <2>1. DOMAIN states \ {} = {}
    BY <1>1
  <2>2. /\ 0 <= MaxBytes /\ 0 <= MaxRanges /\ 0 <= MaxSources /\ 0 <= MaxDatagrams
        /\ 0 - 0 = 0
    BY FragmentAssumption
  <2> QED BY <1>1, <1>2, <1>3, <2>1, <2>2 DEF Fits
<1> QED BY <1>1, <1>4, <1>5 DEF Limited, Timed

\* Every step keeps it within them.
LEMMA LimitedStep == ASSUME Limited, Timed, [Next]_vars PROVE Limited'
<1>1. ASSUME NEW f \in Fragments, RejectMalformed(f) PROVE Limited'
  BY <1>1, LimitedDiscard DEF RejectMalformed
<1>2. ASSUME NEW f \in Fragments, RejectConflict(f) PROVE Limited'
  BY <1>2, LimitedDiscard DEF RejectConflict
<1>3. ASSUME NEW f \in Fragments, Accept(f) PROVE Limited'
  BY <1>3, AcceptLimits
<1>4. CASE Pause
  BY <1>4 DEF Pause, Limited
<1>5. CASE Expire
  BY <1>5, LimitedDiscard DEF Expire
<1>6. CASE UNCHANGED vars
  BY <1>6 DEF vars, Limited
<1> QED BY <1>1, <1>2, <1>3, <1>4, <1>5, <1>6 DEF Next

\* What the invariant says in the words of the property.
LEMMA LimitedSays == ASSUME Limited PROVE MemoryBounded
<1>1. /\ Holds(states, bytes, ranges, sources) /\ Fits(states, {}, bytes, ranges, sources)
      /\ \A k \in DOMAIN states : Runs(states[k].data) <= MaxRangesEach
  BY DEF Limited
<1>2. [k \in DOMAIN states |-> states[k].bytes]
        = [k \in DOMAIN states |-> Cardinality(DOMAIN states[k].data)]
  BY <1>1 DEF Holds, Measured
<1>3. /\ bytes = SumFunctionOnSet([k \in DOMAIN states |-> Cardinality(DOMAIN states[k].data)],
                                  DOMAIN states)
      /\ ranges = RangesOf(states, DOMAIN states) /\ sources = SourcesOf(states, DOMAIN states)
  BY <1>1, <1>2 DEF Holds, BytesOf
<1>4. BytesOf(states, {}) = 0 /\ RangesOf(states, {}) = 0 /\ SourcesOf(states, {}) = 0
  BY SumEmpty DEF BytesOf, RangesOf, SourcesOf
<1>5. bytes \in Nat /\ ranges \in Nat /\ sources \in Nat
  <2>1. /\ SumFunctionOnSet(ByteWeights(states), DOMAIN states) \in Nat
        /\ SumFunctionOnSet(RangeWeights(states), DOMAIN states) \in Nat
        /\ SumFunctionOnSet(SourceWeights(states), DOMAIN states) \in Nat
    BY <1>1, WeightsSum, SumNat DEF Holds
  <2> QED BY <1>1, <2>1, WeightsSum DEF Holds
<1>6. /\ bytes - 0 = bytes /\ ranges - 0 = ranges /\ sources - 0 = sources
  BY <1>5
<1>7. DOMAIN states \ {} = DOMAIN states
  OBVIOUS
<1>8. /\ Cardinality(DOMAIN states) <= MaxDatagrams
      /\ bytes <= MaxBytes /\ ranges <= MaxRanges /\ sources <= MaxSources
  BY <1>1, <1>4, <1>6, <1>7 DEF Fits
<1> QED BY <1>1, <1>3, <1>8 DEF MemoryBounded

\* The counters that the limits are tested on are what the table really holds, after
\* any fragments, evictions and expiries, and the table is within every limit.
THEOREM MemoryStaysBounded == Spec => []MemoryBounded
<1>1. Init => Limited /\ Timed
  BY LimitedInit
<1>2. Limited /\ Timed /\ [Next]_vars => (Limited /\ Timed)'
  BY LimitedStep, TimedStep
<1>3. Limited => MemoryBounded
  BY LimitedSays
<1> QED BY <1>1, <1>2, <1>3, PTL DEF Spec
==============================================================================
