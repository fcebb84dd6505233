------------------------ MODULE TcpReassemblyProofs ------------------------
(***************************************************************************)
(* Proofs about TcpStream and TcpReassembly.                               *)
(*                                                                         *)
(* One call of process runs through several stages, and only the first and *)
(* the last state are good ones.  The invariant therefore comes in layers: *)
(* Core holds between any two stages (the counters are the queued bytes    *)
(* and segments, the outputs of a direction are in order and end at its    *)
(* next position), Tidy adds that every direction has handed out what it   *)
(* could and keeps its own limits, Good that no flow is closed on both     *)
(* sides, Bounded that the table keeps the limits of the configuration.    *)
(* Balance is the payload a table accounts for, in whichever place.        *)
(*                                                                         *)
(* One lemma per stage says which layers it needs, which it leaves and     *)
(* what it does to the balance: EmitStage, FlushStage, RemoveStage,        *)
(* RetireStage, RetireFirstStage, EvictStage, BudgetStage, TouchStage,     *)
(* TrackAckStage, AnchorStage, AcceptStage, CloseStage, KeepaliveStage;    *)
(* ProcessStage puts them in the order of the code.  Every stage that      *)
(* hands out bytes is an instance of Changes, which carries the facts      *)
(* about the outputs.  InvReceive, InvPause, InvExpire and InvFlushAll are *)
(* the actions, InvNext the induction step, and the theorems at the end    *)
(* read the properties of TcpReassembly off the invariant.                 *)
(***************************************************************************)
EXTENDS TcpReassembly, SumTheorems, SequenceTheorems

-----------------------------------------------------------------------------
(***************************************************************************)
(* Finite sets of numbers                                                  *)
(***************************************************************************)

\* A nonempty finite set of numbers has a greatest member.
LEMMA FiniteMax ==
    ASSUME NEW S, \A x \in S : x \in Int, IsFiniteSet(S), S # {}
    PROVE  Max(S) \in S /\ \A x \in S : x <= Max(S)
  <1> DEFINE Ok(u) == u # {} => \E m \in u : \A x \in u : x <= m
             T == {u \in SUBSET S : ~Ok(u)}
  <1>1. /\ T \subseteq SUBSET S
        /\ \A u \in T : ~Ok(u)
        /\ \A u \in SUBSET S : u \notin T => Ok(u)
    OBVIOUS
  <1>2. T = {}
    <2> SUFFICES ASSUME T # {} PROVE FALSE OBVIOUS
    <2>1. T \subseteq SUBSET S BY <1>1
    <2> HIDE DEF T
    <2>2. PICK u \in T : \A v \in T : v \subseteq u => v = u BY <2>1, MinimalSubset
    <2>3. u \in SUBSET S /\ u # {} /\ ~\E m \in u : \A x \in u : x <= m BY <1>1
    <2>4. PICK y \in u : TRUE BY <2>3
    <2>5. u \ {y} \in SUBSET S /\ u \ {y} \notin T BY <2>2, <2>3
    <2>6. Ok(u \ {y}) BY <1>1, <2>5
    <2>7. CASE u \ {y} = {}
      <3>1. \A x \in u : x = y BY <2>7
      <3> QED BY <2>3, <3>1
    <2>8. CASE u \ {y} # {}
      <3>1. PICK m \in u \ {y} : \A x \in u \ {y} : x <= m BY <2>6, <2>8
      <3>2. m \in Int /\ y \in Int BY <2>3
      <3>3. CASE y <= m BY <2>3, <3>1, <3>3
      <3>4. CASE ~(y <= m)
        <4>1. \A x \in u : x \in Int BY <2>3
        <4>2. \A x \in u : x <= y BY <3>1, <3>2, <3>4, <4>1
        <4> QED BY <2>3, <4>2
      <3> QED BY <3>3, <3>4
    <2> QED BY <2>7, <2>8
  <1>3. S \notin T BY <1>2
  <1>4. Ok(S) BY <1>1, <1>3
  <1>5. \E m \in S : \A y \in S : m >= y BY <1>4
  <1>6. Max(S) \in S /\ \A y \in S : Max(S) >= y BY <1>5 DEF Max
  <1> QED BY <1>6

\* A nonempty finite set of numbers has a least member.
LEMMA FiniteMin ==
    ASSUME NEW S, \A x \in S : x \in Int, IsFiniteSet(S), S # {}
    PROVE  Min(S) \in S /\ \A x \in S : Min(S) <= x
  <1> DEFINE Ok(u) == u # {} => \E m \in u : \A x \in u : m <= x
             T == {u \in SUBSET S : ~Ok(u)}
  <1>1. /\ T \subseteq SUBSET S
        /\ \A u \in T : ~Ok(u)
        /\ \A u \in SUBSET S : u \notin T => Ok(u)
    OBVIOUS
  <1>2. T = {}
    <2> SUFFICES ASSUME T # {} PROVE FALSE OBVIOUS
    <2>1. T \subseteq SUBSET S BY <1>1
    <2> HIDE DEF T
    <2>2. PICK u \in T : \A v \in T : v \subseteq u => v = u BY <2>1, MinimalSubset
    <2>3. u \in SUBSET S /\ u # {} /\ ~\E m \in u : \A x \in u : m <= x BY <1>1
    <2>4. PICK y \in u : TRUE BY <2>3
    <2>5. u \ {y} \in SUBSET S /\ u \ {y} \notin T BY <2>2, <2>3
    <2>6. Ok(u \ {y}) BY <1>1, <2>5
    <2>7. CASE u \ {y} = {}
      <3>1. \A x \in u : x = y BY <2>7
      <3> QED BY <2>3, <3>1
    <2>8. CASE u \ {y} # {}
      <3>1. PICK m \in u \ {y} : \A x \in u \ {y} : m <= x BY <2>6, <2>8
      <3>2. m \in Int /\ y \in Int BY <2>3
      <3>3. CASE m <= y BY <2>3, <3>1, <3>3
      <3>4. CASE ~(m <= y)
        <4>1. \A x \in u : x \in Int BY <2>3
        <4>2. \A x \in u : y <= x BY <3>1, <3>2, <3>4, <4>1
        <4> QED BY <2>3, <4>2
      <3> QED BY <3>3, <3>4
    <2> QED BY <2>7, <2>8
  <1>3. S \notin T BY <1>2
  <1>4. Ok(S) BY <1>1, <1>3
  <1>5. \E m \in S : \A y \in S : m <= y BY <1>4
  <1> QED BY <1>5 DEF Min

\* A finite set of numbers can be listed in ascending order.
LEMMA AscendingLists ==
    ASSUME NEW S, \A x \in S : x \in Int, IsFiniteSet(S)
    PROVE  /\ Cardinality(S) \in Nat
           /\ Ascending(S) \in [1 .. Cardinality(S) -> S]
           /\ \A i, j \in 1 .. Cardinality(S) : i < j => Ascending(S)[i] < Ascending(S)[j]
           /\ \A x \in S : \E i \in 1 .. Cardinality(S) : Ascending(S)[i] = x
  <1> DEFINE Sorted(u, s) == \A i, j \in 1 .. Cardinality(u) : i < j => s[i] < s[j]
             Ok(u) == \E s \in [1 .. Cardinality(u) -> u] : Sorted(u, s)
             T == {u \in SUBSET S : ~Ok(u)}
  <1>1. /\ T \subseteq SUBSET S
        /\ \A u \in T : ~Ok(u)
        /\ \A u \in SUBSET S : u \notin T => Ok(u)
    OBVIOUS
  <1>2. T = {}
    <2> SUFFICES ASSUME T # {} PROVE FALSE OBVIOUS
    <2>1. T \subseteq SUBSET S BY <1>1
    <2> HIDE DEF T
    <2>2. PICK u \in T : \A v \in T : v \subseteq u => v = u BY <2>1, MinimalSubset
    <2>3. ~Ok(u) BY <1>1
    <2>4. u \in SUBSET S /\ u \subseteq Int BY <2>1
    <2>5. IsFiniteSet(u) BY <2>4, FS_Subset
    <2>6. CASE u = {}
      <3>1. Cardinality(u) = 0 BY <2>6, FS_EmptySet
      <3>2. 1 .. Cardinality(u) = {} BY <3>1
      <3>3. [i \in 1 .. Cardinality(u) |-> 0] \in [1 .. Cardinality(u) -> u] BY <3>2
      <3> QED BY <2>3, <3>2, <3>3
    <2>7. CASE u # {}
      <3> DEFINE y == Max(u)
                 v == u \ {y}
                 n == Cardinality(v)
      <3>1. y \in u /\ \A x \in u : x <= y BY <2>4, <2>5, <2>7, FiniteMax
      <3>2. v \in SUBSET S /\ v \notin T BY <2>2, <2>4, <3>1
      <3>3. Ok(v) BY <1>1, <3>2
      <3>4. /\ IsFiniteSet(v) /\ n \in Nat
            /\ Cardinality(u) = n + 1
        <4> HIDE DEF y
        <4>1. IsFiniteSet(v) /\ Cardinality(v) = Cardinality(u) - 1 BY <2>5, <3>1, FS_RemoveElement
        <4>2. Cardinality(v) \in Nat /\ Cardinality(u) \in Nat BY <2>5, <4>1, FS_CardinalityType
        <4> QED BY <4>1, <4>2
      <3> HIDE DEF y, n
      <3>5. PICK s \in [1 .. n -> v] : \A i, j \in 1 .. n : i < j => s[i] < s[j]
        BY <3>3 DEF n
      <3> DEFINE r == [i \in 1 .. n + 1 |-> IF i = n + 1 THEN y ELSE s[i]]
      <3>6. \A i \in 1 .. n + 1 : i # n + 1 => i \in 1 .. n BY <3>4
      <3>7. \A i \in 1 .. n : s[i] \in u /\ s[i] # y /\ s[i] \in Int /\ s[i] < y
        <4>1. \A i \in 1 .. n : s[i] \in v OBVIOUS
        <4>2. \A x \in v : x \in u /\ x # y /\ x \in Int /\ x <= y /\ y \in Int BY <3>1, <2>4
        <4> QED BY <4>1, <4>2
      <3>8. r \in [1 .. n + 1 -> u] BY <3>1, <3>6, <3>7
      <3>9. ASSUME NEW i \in 1 .. n + 1, NEW j \in 1 .. n + 1, i < j PROVE r[i] < r[j]
        <4>1. i \in 1 .. n /\ r[i] = s[i] BY <3>4, <3>9
        <4>2. CASE j = n + 1 BY <4>1, <4>2, <3>7
        <4>3. CASE j # n + 1 BY <4>1, <4>3, <3>5, <3>6, <3>9
        <4> QED BY <4>2, <4>3
      <3> HIDE DEF r
      <3> QED BY <2>3, <3>4, <3>8, <3>9
    <2> QED BY <2>6, <2>7
  <1>3. S \notin T BY <1>2
  <1>4. PICK s \in [1 .. Cardinality(S) -> S] : Sorted(S, s) BY <1>1, <1>3
  <1> DEFINE n == Cardinality(S)
             a == Ascending(S)
  <1>5. a \in [1 .. n -> S] /\ \A i, j \in DOMAIN a : i < j => a[i] < a[j]
    <2>1. \A i, j \in DOMAIN s : i < j => s[i] < s[j] BY <1>4
    <2> HIDE DEF n
    <2>2. a = CHOOSE q \in [1 .. n -> S] : \A i, j \in DOMAIN q : i < j => q[i] < q[j]
      BY DEF Ascending, n
    <2>3. s \in [1 .. n -> S] BY <1>4 DEF n
    <2> QED BY <2>1, <2>2, <2>3
  <1> HIDE DEF a
  <1>6. n \in Nat BY FS_CardinalityType
  <1> HIDE DEF n
  <1>7. \A i, j \in 1 .. n : i < j => a[i] < a[j] BY <1>5
  <1>8. \A i, j \in 1 .. n : a[i] = a[j] => i = j
    <2> SUFFICES ASSUME NEW i \in 1 .. n, NEW j \in 1 .. n, a[i] = a[j], i # j PROVE FALSE
      OBVIOUS
    <2>1. a[i] \in Int /\ a[j] \in Int BY <1>5
    <2>2. i < j \/ j < i BY <1>6
    <2> QED BY <1>7, <2>1, <2>2
  <1>9. a \in Injection(1 .. n, S) BY <1>5, <1>8 DEF Injection, IsInjective
  <1>10. IsFiniteSet(1 .. n) /\ Cardinality(1 .. n) = n
    BY <1>6, FS_Interval
  <1>11. a \in Surjection(1 .. n, S)
    BY <1>9, <1>10, FS_Injection DEF n
  <1>12. \A x \in S : \E i \in 1 .. n : a[i] = x BY <1>11 DEF Surjection
  <1> QED BY <1>5, <1>6, <1>7, <1>12 DEF n, a

-----------------------------------------------------------------------------
(***************************************************************************)
(* Runs of a queue                                                         *)
(***************************************************************************)

Segment == [start : Int, end : Int, val : {p.val : p \in Packets}]

\* What a direction may have queued: segments with bytes that do not overlap.
Queue(Q) ==
    /\ Q \subseteq Segment /\ IsFiniteSet(Q)
    /\ \A s \in Q : s.start < s.end
    /\ \A s, t \in Q : s # t => ~Overlap(s, t)

\* Segments are intervals of numbers.
LEMMA SegmentFields == \A s \in Segment : s.start \in Int /\ s.end \in Int
  BY DEF Segment

\* A finite set of segments has finitely many ends.
LEMMA EndsFinite ==
    ASSUME NEW Q, IsFiniteSet(Q)
    PROVE  IsFiniteSet({s.end : s \in Q})
  <1> DEFINE f == [s \in Q |-> s.end]
  <1>1. f \in Surjection(Q, {s.end : s \in Q}) BY DEF Surjection
  <1> QED BY <1>1, FS_Surjection

\* A run ends at the first position after its start that no segment covers.
LEMMA RunEndIs ==
    ASSUME NEW Q, Queue(Q), NEW pos \in Int
    PROVE  /\ RunEnd(Q, pos) \in Int
           /\ pos <= RunEnd(Q, pos)
           /\ ~Covered(Q, RunEnd(Q, pos))
           /\ \A p \in pos .. RunEnd(Q, pos) - 1 : Covered(Q, p)
           /\ RunEnd(Q, pos) \in {pos} \cup {s.end : s \in Q}
  <1> DEFINE E == {s.end : s \in Q}
             C == {pos} \cup E
             S == {p \in C : p >= pos /\ ~Covered(Q, p)}
             m == RunEnd(Q, pos)
  <1>1. \A s \in Q : s.start \in Int /\ s.end \in Int /\ s.start < s.end /\ s.end \in E
    BY SegmentFields DEF Queue
  <1>2. \A e \in E : \E s \in Q : e = s.end OBVIOUS
  <1>3. IsFiniteSet(E) BY EndsFinite DEF Queue
  <1>4. m = Min(S) BY DEF RunEnd
  <1> HIDE DEF E, m
  <1>5. \A e \in C : e \in Int BY <1>1, <1>2
  <1>6. IsFiniteSet(C)
    <2>1. IsFiniteSet({pos}) BY FS_Singleton
    <2> QED BY <1>3, <2>1, FS_Union
  <1>7. Max(C) \in C /\ \A e \in C : e <= Max(C) BY <1>5, <1>6, FiniteMax
  <1>8. S # {}
    <2>1. CASE ~Covered(Q, pos) BY <2>1
    <2>2. CASE Covered(Q, pos)
      <3>1. ASSUME Covered(Q, Max(C)) PROVE FALSE
        <4>1. PICK s \in Q : s.start <= Max(C) /\ Max(C) < s.end BY <3>1 DEF Covered, Covers
        <4>2. s.end <= Max(C) BY <1>1, <1>7
        <4>3. Max(C) \in Int /\ s.end \in Int BY <1>1, <1>5, <1>7
        <4> QED BY <4>1, <4>2, <4>3
      <3>2. Max(C) >= pos BY <1>5, <1>7
      <3> QED BY <1>7, <3>1, <3>2
    <2> QED BY <2>1, <2>2
  <1>9. IsFiniteSet(S) /\ \A p \in S : p \in Int BY <1>5, <1>6, FS_Subset
  <1>10. Min(S) \in S /\ \A p \in S : Min(S) <= p BY <1>8, <1>9, FiniteMin
  <1>11. m \in Int /\ pos <= m /\ ~Covered(Q, m) /\ m \in C BY <1>4, <1>5, <1>10
  <1>12. ASSUME NEW q \in pos .. m - 1, ~Covered(Q, q) PROVE FALSE
    <2> DEFINE U == {p \in pos .. m - 1 : ~Covered(Q, p)}
    <2>1. q \in U /\ U \subseteq Int /\ \A p \in U : pos <= p BY <1>12, <1>11
    <2>2. PICK p \in U : \A r \in U : p <= r BY <2>1, LeastInteger
    <2>3. p \in Int /\ pos <= p /\ p < m /\ ~Covered(Q, p) BY <1>11, <2>2
    <2>4. p # pos
      <3>1. pos \in C OBVIOUS
      <3> QED BY <1>4, <1>10, <1>11, <2>3, <3>1
    <2>5. p - 1 \in pos .. m - 1 /\ p - 1 \notin U BY <1>11, <2>2, <2>3, <2>4
    <2>6. Covered(Q, p - 1) BY <2>5
    <2>7. PICK s \in Q : s.start <= p - 1 /\ p - 1 < s.end BY <2>6 DEF Covered, Covers
    <2>8. ~(s.start <= p /\ p < s.end) BY <2>3 DEF Covered, Covers
    <2>9. p = s.end BY <1>1, <2>3, <2>7, <2>8
    <2>10. p \in S BY <1>1, <2>3, <2>9
    <2>11. m <= p BY <1>4, <1>10, <2>10
    <2> QED BY <1>11, <2>3, <2>11
  <1> QED BY <1>11, <1>12 DEF E, m

\* A run that starts in a segment contains its end.
LEMMA RunPassesSegment ==
    ASSUME NEW Q, Queue(Q), NEW s \in Q
    PROVE  s.end <= RunEnd(Q, s.start)
  <1>1. s.start \in Int /\ s.end \in Int /\ s.start < s.end BY SegmentFields DEF Queue
  <1>2. RunEnd(Q, s.start) \in Int /\ s.start <= RunEnd(Q, s.start)
        /\ ~Covered(Q, RunEnd(Q, s.start))
    BY <1>1, RunEndIs
  <1>3. ~(RunEnd(Q, s.start) < s.end) BY <1>2 DEF Covered, Covers
  <1> QED BY <1>1, <1>2, <1>3

\* What a direction knows of its queue: nothing is queued before the stream has
\* a beginning, nor below the next position, and the queued bytes are counted.
Waiting(d) ==
    /\ d.next \in Int /\ Queue(d.pending)
    /\ d.next = NoSeq \/ d.next >= 0
    /\ \A s \in d.pending : d.next # NoSeq /\ d.next <= s.start
    /\ d.pendingBytes = Bytes(d.pending)

\* A position to which the queue may be handed out: no segment crosses it.
GoodStop(d, stop) == stop \in Int /\ d.next <= stop /\ ~Covered(d.pending, stop)

\* The stops of a drain are finitely many good stops; one lies behind all segments.
LEMMA StopsGood ==
    ASSUME NEW d, Waiting(d)
    PROVE  /\ IsFiniteSet(Stops(d)) /\ \A stop \in Stops(d) : GoodStop(d, stop)
           /\ RunEnd(d.pending, d.next) \in Stops(d)
           /\ \A s \in d.pending : \E stop \in Stops(d) : s.end <= stop
  <1> DEFINE Q == d.pending
             R == {RunEnd(Q, s.start) : s \in Q}
             r == RunEnd(Q, d.next)
  <1>1. Queue(Q) /\ d.next \in Int /\ IsFiniteSet(Q) BY DEF Waiting, Queue
  <1>2. Stops(d) = {r} \cup R BY DEF Stops
  <1>3. GoodStop(d, r) BY <1>1, RunEndIs DEF GoodStop
  <1>4. ASSUME NEW s \in Q PROVE GoodStop(d, RunEnd(Q, s.start)) /\ s.end <= RunEnd(Q, s.start)
    <2>1. s.start \in Int /\ d.next <= s.start BY SegmentFields DEF Waiting, Queue
    <2>2. /\ RunEnd(Q, s.start) \in Int /\ s.start <= RunEnd(Q, s.start)
          /\ ~Covered(Q, RunEnd(Q, s.start))
      BY <1>1, <2>1, RunEndIs
    <2>3. s.end <= RunEnd(Q, s.start) BY <1>1, RunPassesSegment
    <2> QED BY <1>1, <2>1, <2>2, <2>3 DEF GoodStop
  <1>5. IsFiniteSet(R)
    <2> DEFINE f == [s \in Q |-> RunEnd(Q, s.start)]
    <2>1. f \in Surjection(Q, R) BY DEF Surjection
    <2> HIDE DEF f, R, Q
    <2> QED BY <1>1, <2>1, FS_Surjection
  <1>6. IsFiniteSet({r} \cup R)
    <2> HIDE DEF R, r
    <2>1. IsFiniteSet({r}) BY FS_Singleton
    <2> QED BY <1>5, <2>1, FS_Union
  <1>7. \A stop \in {r} \cup R : GoodStop(d, stop)
    <2>1. \A stop \in R : GoodStop(d, stop) BY <1>4
    <2> HIDE DEF R, r
    <2> QED BY <1>3, <2>1
  <1>8. \A s \in Q : \E stop \in {r} \cup R : s.end <= stop BY <1>4
  <1> HIDE DEF R, r
  <1> QED BY <1>2, <1>6, <1>7, <1>8 DEF r

\* The size of a segment.
Size(Q) == [s \in Q |-> s.end - s.start]

\* The bytes of a queue are those of any part of it and of the rest.
LEMMA BytesSplit ==
    ASSUME NEW Q, Q \subseteq Segment, IsFiniteSet(Q), \A s \in Q : s.start < s.end,
           NEW U \in SUBSET Q
    PROVE  /\ Bytes(Q) \in Nat /\ Bytes(U) \in Nat /\ Bytes(Q \ U) \in Nat
           /\ Bytes(Q) = Bytes(U) + Bytes(Q \ U)
  <1> DEFINE f == Size(Q)
  <1>1. \A s \in Q : f[s] \in Nat /\ s.end - s.start \in Nat BY SegmentFields DEF Size
  <1>2. \A V \in SUBSET Q : Bytes(V) = SumFunctionOnSet(f, V)
    <2> SUFFICES ASSUME NEW V \in SUBSET Q PROVE Bytes(V) = SumFunctionOnSet(f, V)
      OBVIOUS
    <2>1. Bytes(V) = SumFunctionOnSet(Size(V), V) BY DEF Bytes, SumFunction, Size
    <2>2. \A s \in V : Size(V)[s] = f[s] /\ Size(V)[s] \in Int BY <1>1 DEF Size
    <2>3. Integral(Size(V), V) BY <2>2, FS_Subset DEF Integral
    <2> HIDE DEF f
    <2> QED BY <2>1, <2>2, <2>3, SumSame
  <1>3. Natural(f, Q) BY <1>1 DEF Natural
  <1> HIDE DEF f
  <1>4. /\ SumFunctionOnSet(f, Q) \in Nat /\ SumFunctionOnSet(f, U) \in Nat
        /\ SumFunctionOnSet(f, Q \ U) \in Nat
        /\ SumFunctionOnSet(f, Q) - SumFunctionOnSet(f, U) = SumFunctionOnSet(f, Q \ U)
    BY <1>3, SumPart
  <1>5. Q \in SUBSET Q /\ Q \ U \in SUBSET Q OBVIOUS
  <1> QED BY <1>2, <1>4, <1>5

\* No bytes in no segments.
LEMMA BytesEmpty == Bytes({}) = 0
  <1>1. Bytes({}) = SumFunctionOnSet(Size({}), {}) BY DEF Bytes, SumFunction, Size
  <1> QED BY <1>1, SumEmpty

\* A part of a queue is a queue.
LEMMA QueuePart == ASSUME NEW Q, Queue(Q), NEW U \in SUBSET Q PROVE Queue(U)
  <1>1. IsFiniteSet(U) BY FS_Subset DEF Queue
  <1> QED BY <1>1 DEF Queue

\* A good stop parts the queue: segments before it, and segments that wait beyond it.
LEMMA StopParts ==
    ASSUME NEW d, Waiting(d), NEW stop, GoodStop(d, stop)
    PROVE  /\ Gone(d, stop) \subseteq d.pending
           /\ \A s \in Gone(d, stop) : s.end <= stop
           /\ \A s \in d.pending \ Gone(d, stop) : stop < s.start
  <1>1. ASSUME NEW s \in d.pending
        PROVE  (s.start < stop => s.end <= stop) /\ (~(s.start < stop) => stop < s.start)
    <2>1. s.start \in Int /\ s.end \in Int /\ s.start < s.end BY SegmentFields DEF Waiting, Queue
    <2>2. ~(s.start <= stop /\ stop < s.end) /\ stop \in Int BY DEF GoodStop, Covered, Covers
    <2> QED BY <2>1, <2>2
  <1> QED BY <1>1 DEF Gone

\* LastStop hands out the whole queue.
LEMMA LastStopGood ==
    ASSUME NEW d, Waiting(d)
    PROVE  GoodStop(d, LastStop(d)) /\ Gone(d, LastStop(d)) = d.pending
           /\ RunEnd(d.pending, d.next) <= LastStop(d) /\ LastStop(d) \in Stops(d)
  <1>1. /\ IsFiniteSet(Stops(d)) /\ \A stop \in Stops(d) : GoodStop(d, stop)
        /\ RunEnd(d.pending, d.next) \in Stops(d)
        /\ \A s \in d.pending : \E stop \in Stops(d) : s.end <= stop
    BY StopsGood
  <1>2. \A stop \in Stops(d) : stop \in Int BY <1>1 DEF GoodStop
  <1>3. LastStop(d) \in Stops(d) /\ \A stop \in Stops(d) : stop <= LastStop(d)
    BY <1>1, <1>2, FiniteMax DEF LastStop
  <1>4. ASSUME NEW s \in d.pending PROVE s.start < LastStop(d)
    <2>1. s.start \in Int /\ s.end \in Int /\ s.start < s.end BY SegmentFields DEF Waiting, Queue
    <2>2. PICK stop \in Stops(d) : s.end <= stop BY <1>1
    <2>3. stop \in Int /\ LastStop(d) \in Int /\ stop <= LastStop(d) BY <1>2, <1>3
    <2> QED BY <2>1, <2>2, <2>3
  <1>5. Gone(d, LastStop(d)) = d.pending BY <1>4 DEF Gone
  <1> QED BY <1>1, <1>3, <1>5

\* There is a stop that brings a direction within its limits.
LEMMA StopWithinLimitsGood ==
    ASSUME NEW d, Waiting(d)
    PROVE  /\ GoodStop(d, StopWithinLimits(d))
           /\ Bytes(d.pending \ Gone(d, StopWithinLimits(d))) <= MaxPending
           /\ Cardinality(d.pending \ Gone(d, StopWithinLimits(d))) <= MaxSegments
  <1> DEFINE Fits(stop) == /\ Bytes(d.pending \ Gone(d, stop)) <= MaxPending
                           /\ Cardinality(d.pending \ Gone(d, stop)) <= MaxSegments
             S == {stop \in Stops(d) : stop >= RunEnd(d.pending, d.next) /\ Fits(stop)}
  <1>1. StopWithinLimits(d) = Min(S) BY DEF StopWithinLimits
  <1>2. /\ IsFiniteSet(Stops(d)) /\ \A stop \in Stops(d) : GoodStop(d, stop)
        /\ RunEnd(d.pending, d.next) \in Stops(d)
    BY StopsGood
  <1>3. \A stop \in Stops(d) : stop \in Int BY <1>2 DEF GoodStop
  <1>4. S # {}
    <2>1. /\ Gone(d, LastStop(d)) = d.pending /\ LastStop(d) \in Stops(d)
          /\ RunEnd(d.pending, d.next) <= LastStop(d)
      BY LastStopGood
    <2>2. d.pending \ Gone(d, LastStop(d)) = {} BY <2>1
    <2>3. MaxPending \in Nat /\ MaxSegments \in Nat BY TcpReassemblyAssumption
    <2>4. Fits(LastStop(d))
      <3>1. Bytes(d.pending \ Gone(d, LastStop(d))) = 0 BY <2>2, BytesEmpty
      <3>2. Cardinality(d.pending \ Gone(d, LastStop(d))) = 0 BY <2>2, FS_EmptySet
      <3> QED BY <2>3, <3>1, <3>2
    <2>5. LastStop(d) >= RunEnd(d.pending, d.next) BY <1>2, <1>3, <2>1
    <2> HIDE DEF Fits
    <2> QED BY <2>1, <2>4, <2>5
  <1>5. S \subseteq Stops(d) /\ \A stop \in S : Fits(stop)
    <2> HIDE DEF Fits
    <2> QED OBVIOUS
  <1> HIDE DEF S, Fits
  <1>6. IsFiniteSet(S) /\ \A stop \in S : stop \in Int BY <1>2, <1>3, <1>5, FS_Subset
  <1>7. Min(S) \in S BY <1>4, <1>6, FiniteMin
  <1>8. GoodStop(d, Min(S)) /\ Fits(Min(S)) BY <1>2, <1>5, <1>7
  <1> QED BY <1>1, <1>8 DEF Fits

-----------------------------------------------------------------------------
(***************************************************************************)
(* What an advance hands out                                               *)
(***************************************************************************)

\* The runs of an advance: each lies within it, they do not overlap, and
\* together they are all that is handed out.
LEMMA FreshRuns ==
    ASSUME NEW d, Waiting(d), NEW stop, GoodStop(d, stop)
    PROVE  /\ IsFiniteSet(Fresh(d, stop)) /\ Fresh(d, stop) \subseteq d.next .. stop - 1
           /\ IsFiniteSet(RunStarts(d, stop)) /\ RunStarts(d, stop) \subseteq Fresh(d, stop)
           /\ \A p \in RunStarts(d, stop) :
                 /\ RunEnd(d.pending, p) \in Int
                 /\ p < RunEnd(d.pending, p) /\ RunEnd(d.pending, p) <= stop
                 /\ p .. RunEnd(d.pending, p) - 1 \subseteq Fresh(d, stop)
           /\ \A p, q \in RunStarts(d, stop) : p < q => RunEnd(d.pending, p) <= q
           /\ \A q \in Fresh(d, stop) :
                 \E p \in RunStarts(d, stop) : p <= q /\ q < RunEnd(d.pending, p)
  <1> DEFINE Q == d.pending
             F == Fresh(d, stop)
             R == RunStarts(d, stop)
             I == d.next .. stop - 1
  <1>1. Queue(Q) /\ d.next \in Int /\ stop \in Int /\ d.next <= stop /\ ~Covered(Q, stop)
    BY DEF Waiting, GoodStop
  <1>2. \A p : p \in F <=> p \in I /\ Covered(Q, p) BY DEF Fresh
  <1>3. \A p : p \in R <=> p \in F /\ p - 1 \notin F BY DEF RunStarts
  <1> HIDE DEF Q, F, R
  <1>4. F \subseteq I /\ R \subseteq F BY <1>2, <1>3
  <1>5. \A p \in F : p \in Int /\ d.next <= p /\ p < stop BY <1>1, <1>2
  <1>6. IsFiniteSet(F) /\ IsFiniteSet(R)
    <2>1. IsFiniteSet(I) BY <1>1, FS_Interval
    <2>2. IsFiniteSet(F) BY <1>4, <2>1, FS_Subset
    <2> QED BY <1>4, <2>2, FS_Subset
  <1>7. ASSUME NEW p \in F
        PROVE  /\ RunEnd(Q, p) \in Int
               /\ p < RunEnd(Q, p) /\ RunEnd(Q, p) <= stop
               /\ \A q \in p .. RunEnd(Q, p) - 1 : q \in F
    <2>1. p \in Int /\ d.next <= p /\ p < stop /\ Covered(Q, p) BY <1>2, <1>5
    <2>2. /\ RunEnd(Q, p) \in Int
          /\ p <= RunEnd(Q, p)
          /\ ~Covered(Q, RunEnd(Q, p))
          /\ \A q \in p .. RunEnd(Q, p) - 1 : Covered(Q, q)
      BY <1>1, <2>1, RunEndIs
    <2>3. RunEnd(Q, p) # p BY <2>1, <2>2
    <2>4. p < RunEnd(Q, p) BY <2>1, <2>2, <2>3
    <2>5. RunEnd(Q, p) <= stop
      <3> SUFFICES ASSUME stop < RunEnd(Q, p) PROVE FALSE BY <1>1, <2>2
      <3>1. stop \in p .. RunEnd(Q, p) - 1 BY <1>1, <2>1, <2>2
      <3> QED BY <1>1, <2>2, <3>1
    <2>6. \A q \in p .. RunEnd(Q, p) - 1 : q \in I BY <1>1, <2>1, <2>2, <2>5
    <2> QED BY <1>2, <2>2, <2>4, <2>5, <2>6
  <1>8. ASSUME NEW p \in R, NEW q \in R, p < q PROVE RunEnd(Q, p) <= q
    <2>1. p \in F /\ q \in F /\ q - 1 \notin F /\ p \in Int /\ q \in Int BY <1>3, <1>5
    <2>2. RunEnd(Q, p) \in Int /\ \A r \in p .. RunEnd(Q, p) - 1 : r \in F BY <1>7, <2>1
    <2>3. q - 1 \notin p .. RunEnd(Q, p) - 1 BY <2>1, <2>2
    <2> QED BY <1>8, <2>1, <2>2, <2>3
  <1>9. ASSUME NEW q \in F PROVE \E p \in R : p <= q /\ q < RunEnd(Q, p)
    <2> DEFINE U == {p \in F : p <= q /\ \A r \in p .. q : r \in F}
    <2>1. q \in Int BY <1>5
    <2>2. q \in U
      <3>1. \A r \in q .. q : r = q BY <2>1
      <3> QED BY <2>1, <3>1
    <2>3. U \subseteq Int /\ \A p \in U : d.next <= p BY <1>5
    <2>4. PICK p \in U : \A r \in U : p <= r BY <1>1, <2>2, <2>3, LeastInteger
    <2>5. p \in F /\ p \in Int /\ p <= q /\ \A r \in p .. q : r \in F BY <1>5, <2>4
    <2>6. p - 1 \notin F
      <3> SUFFICES ASSUME p - 1 \in F PROVE FALSE OBVIOUS
      <3>1. \A r \in p - 1 .. q : r = p - 1 \/ r \in p .. q BY <2>1, <2>5
      <3>2. p - 1 \in U BY <2>1, <2>5, <3>1
      <3> QED BY <2>4, <2>5, <3>2
    <2>7. p \in R BY <1>3, <2>5, <2>6
    <2>8. RunEnd(Q, p) \in Int /\ ~Covered(Q, RunEnd(Q, p)) /\ p < RunEnd(Q, p)
      BY <1>1, <1>7, <2>5, RunEndIs
    <2>9. RunEnd(Q, p) \notin p .. q BY <1>2, <2>5, <2>8
    <2> QED BY <2>1, <2>5, <2>7, <2>8, <2>9
  <1>10. \A p \in R : p \in F BY <1>4
  <1> QED BY <1>4, <1>6, <1>7, <1>8, <1>9, <1>10 DEF Q, F, R

\* A sequence, whatever its elements are.
Listed(s) == s \in Seq({s[i] : i \in DOMAIN s})

\* A function on 1 .. n is a sequence.
LEMMA ListedFunction ==
    ASSUME NEW n \in Nat, NEW f, f = [i \in 1 .. n |-> f[i]]
    PROVE  Listed(f) /\ Len(f) = n /\ DOMAIN f = 1 .. n
  <1>1. DOMAIN f = 1 .. n OBVIOUS
  <1>2. f \in [1 .. n -> {f[i] : i \in DOMAIN f}] OBVIOUS
  <1>3. f \in Seq({f[i] : i \in DOMAIN f}) BY <1>2
  <1> QED BY <1>1, <1>3 DEF Listed

\* The length and the places of a sequence.
LEMMA ListedLength ==
    ASSUME NEW s, Listed(s)
    PROVE  Len(s) \in Nat /\ DOMAIN s = 1 .. Len(s) /\ s = [i \in 1 .. Len(s) |-> s[i]]
  BY DEF Listed

\* A sequence of members of a set is one.
LEMMA ListedIn == ASSUME NEW S, NEW s \in Seq(S) PROVE Listed(s)
  <1>1. Len(s) \in Nat /\ s \in [1 .. Len(s) -> S] BY LenProperties
  <1>2. s = [i \in 1 .. Len(s) |-> s[i]] BY <1>1
  <1> QED BY <1>1, <1>2, ListedFunction

\* What stands where in a concatenation.
LEMMA ListedConcat ==
    ASSUME NEW a, NEW b, Listed(a), Listed(b)
    PROVE  /\ Listed(a \o b) /\ Len(a \o b) = Len(a) + Len(b)
           /\ \A i \in 1 .. Len(a) : (a \o b)[i] = a[i]
           /\ \A i \in 1 .. Len(b) : (a \o b)[Len(a) + i] = b[i]
  <1> DEFINE A == {a[i] : i \in DOMAIN a}
             B == {b[i] : i \in DOMAIN b}
             S == A \cup B
  <1>1. a \in Seq(A) /\ b \in Seq(B) BY DEF Listed
  <1> HIDE DEF A, B
  <1>2. A \subseteq S /\ B \subseteq S OBVIOUS
  <1>3. a \in Seq(S) /\ b \in Seq(S) BY <1>1, <1>2, SeqMonotonic
  <1> HIDE DEF S
  <1>4. /\ a \o b \in Seq(S) /\ Len(a \o b) = Len(a) + Len(b)
        /\ \A i \in 1 .. Len(a) + Len(b) : (a \o b)[i] = IF i <= Len(a) THEN a[i] ELSE b[i - Len(a)]
    BY <1>3, ConcatProperties
  <1>5. Len(a) \in Nat /\ Len(b) \in Nat BY <1>3
  <1>6. Listed(a \o b) BY <1>4, ListedIn
  <1>7. \A i \in 1 .. Len(a) : (a \o b)[i] = a[i] BY <1>4, <1>5
  <1>8. \A i \in 1 .. Len(b) : (a \o b)[Len(a) + i] = b[i] BY <1>4, <1>5
  <1> QED BY <1>4, <1>6, <1>7, <1>8

\* The length of the data of a chunk.
LenOf(s) == [i \in DOMAIN s |-> Len(s[i].data)]

\* The chunks of an advance: they lie within it, in order, at the offsets of their
\* positions, and only one at its very beginning is not marked.
LEMMA ChunkFacts ==
    ASSUME NEW d, Waiting(d), d.offset \in Int, NEW stop, GoodStop(d, stop)
    PROVE  LET C == Chunks(d, stop)
               R == RunStarts(d, stop)
               n == Cardinality(R)
               a == Ascending(R)
           IN  /\ n \in Nat /\ C = [i \in 1 .. n |-> C[i]]
               /\ a \in [1 .. n -> R]
               /\ \A i, j \in 1 .. n : i < j => a[i] < a[j]
               /\ \A x \in R : \E i \in 1 .. n : a[i] = x
               /\ \A i \in 1 .. n :
                     /\ a[i] \in Int /\ C[i].start = a[i]
                     /\ C[i].offset \in Int
                     /\ C[i].start - C[i].offset = d.next - d.offset
                     /\ Len(C[i].data) \in Nat
                     /\ Len(C[i].data) = RunEnd(d.pending, a[i]) - a[i]
                     /\ d.offset <= C[i].offset
                     /\ C[i].offset + Len(C[i].data) <= d.offset + stop - d.next
                     /\ C[i].completeness # "gapped" => ~d.gap /\ C[i].offset = d.offset
               /\ \A i, j \in 1 .. n : i < j => C[i].offset + Len(C[i].data) <= C[j].offset
  <1> DEFINE C == Chunks(d, stop)
             R == RunStarts(d, stop)
             n == Cardinality(R)
             a == Ascending(R)
             To(p) == RunEnd(d.pending, p)
             F == Fresh(d, stop)
             Data(p) == [j \in 1 .. To(p) - p |-> ValueAt(d.pending, p + j - 1)]
  <1>1. /\ IsFiniteSet(R) /\ R \subseteq F /\ F \subseteq d.next .. stop - 1
        /\ \A p \in R : To(p) \in Int /\ p < To(p) /\ To(p) <= stop
        /\ \A p, q \in R : p < q => To(p) <= q
    BY FreshRuns
  <1>2. d.next \in Int /\ stop \in Int /\ Queue(d.pending) BY DEF Waiting, GoodStop
  <1>3. \A p \in R : p \in Int /\ d.next <= p /\ p < stop BY <1>1, <1>2
  <1>4. /\ n \in Nat /\ a \in [1 .. n -> R]
        /\ \A i, j \in 1 .. n : i < j => a[i] < a[j]
        /\ \A x \in R : \E i \in 1 .. n : a[i] = x
    <2> HIDE DEF R
    <2> QED BY <1>1, <1>3, AscendingLists
  <1>5. C = [i \in 1 .. n |-> [offset |-> d.offset + a[i] - d.next, start |-> a[i],
                               data |-> Data(a[i]), completeness |-> Completeness(d, a[i])]]
    BY DEF Chunks
  <1> HIDE DEF C, R, n, a, F, To, Data
  <1>6. C = [i \in 1 .. n |-> C[i]] BY <1>5
  <1>7. ASSUME NEW i \in 1 .. n
        PROVE  /\ a[i] \in R /\ C[i].start = a[i] /\ C[i].offset = d.offset + a[i] - d.next
               /\ C[i].data = Data(a[i]) /\ C[i].completeness = Completeness(d, a[i])
    BY <1>4, <1>5
  <1>8. ASSUME NEW p \in R PROVE Len(Data(p)) = To(p) - p /\ To(p) - p \in Nat
    <2>1. To(p) - p \in Nat BY <1>1, <1>3
    <2>2. Data(p) = [j \in 1 .. To(p) - p |-> Data(p)[j]] BY DEF Data
    <2> QED BY <2>1, <2>2, ListedFunction
  <1>9. ASSUME NEW p \in R, Completeness(d, p) # "gapped" PROVE ~d.gap /\ p = d.next
    <2>1. ~d.gap /\ \A q \in d.next .. p - 1 : Covered(d.pending, q) BY <1>9 DEF Completeness
    <2>2. p - 1 \notin F BY DEF R, RunStarts, F
    <2>3. p = d.next
      <3> SUFFICES ASSUME p # d.next PROVE FALSE OBVIOUS
      <3>1. p - 1 \in d.next .. p - 1 /\ p - 1 \in d.next .. stop - 1 BY <1>2, <1>3
      <3>2. p - 1 \in F BY <2>1, <3>1 DEF F, Fresh
      <3> QED BY <2>2, <3>2
    <2> QED BY <2>1, <2>3
  <1>10. ASSUME NEW i \in 1 .. n
         PROVE  /\ a[i] \in Int /\ C[i].start = a[i]
                /\ C[i].offset \in Int
                /\ C[i].start - C[i].offset = d.next - d.offset
                /\ Len(C[i].data) \in Nat
                /\ Len(C[i].data) = To(a[i]) - a[i]
                /\ d.offset <= C[i].offset
                /\ C[i].offset + Len(C[i].data) <= d.offset + stop - d.next
                /\ C[i].completeness # "gapped" => ~d.gap /\ C[i].offset = d.offset
    <2>1. /\ a[i] \in R /\ C[i].start = a[i] /\ C[i].offset = d.offset + a[i] - d.next
          /\ C[i].data = Data(a[i]) /\ C[i].completeness = Completeness(d, a[i])
      BY <1>7
    <2>2. a[i] \in Int /\ d.next <= a[i] /\ a[i] < stop /\ To(a[i]) \in Int /\ To(a[i]) <= stop
      BY <1>1, <1>3, <2>1
    <2>3. Len(C[i].data) = To(a[i]) - a[i] /\ Len(C[i].data) \in Nat BY <1>8, <2>1
    <2>4. C[i].completeness # "gapped" => ~d.gap /\ a[i] = d.next BY <1>9, <2>1
    <2> QED BY <1>2, <2>1, <2>2, <2>3, <2>4
  <1>11. ASSUME NEW i \in 1 .. n, NEW j \in 1 .. n, i < j
         PROVE  C[i].offset + Len(C[i].data) <= C[j].offset
    <2>1. a[i] \in R /\ a[j] \in R /\ a[i] < a[j] BY <1>4, <1>11
    <2>2. To(a[i]) <= a[j] BY <1>1, <2>1
    <2>3. Len(C[i].data) = To(a[i]) - a[i] /\ To(a[i]) \in Int /\ a[i] \in Int /\ a[j] \in Int
      BY <1>1, <1>10, <2>1
    <2> QED BY <1>2, <1>7, <2>2, <2>3
  <1> QED BY <1>4, <1>6, <1>10, <1>11 DEF C, R, n, a, To

\* Together the chunks have as many bytes as there are positions handed out.
LEMMA ChunkSum ==
    ASSUME NEW d, Waiting(d), d.offset \in Int, NEW stop, GoodStop(d, stop)
    PROVE  LET C == Chunks(d, stop)
           IN  SumFunctionOnSet(LenOf(C), DOMAIN C) = Cardinality(Fresh(d, stop))
  <1> DEFINE C == Chunks(d, stop)
             R == RunStarts(d, stop)
             n == Cardinality(R)
             a == Ascending(R)
             To(p) == RunEnd(d.pending, p)
             F == Fresh(d, stop)
             f == LenOf(C)
             Run(i) == a[i] .. To(a[i]) - 1
             Part(m) == {q \in F : \E i \in 1 .. m : q \in Run(i)}
             Ok(m) == SumFunctionOnSet(f, 1 .. m) = Cardinality(Part(m))
             T == {m \in 0 .. n : ~Ok(m)}
  <1>1. /\ n \in Nat /\ C = [i \in 1 .. n |-> C[i]]
        /\ a \in [1 .. n -> R]
        /\ \A i, j \in 1 .. n : i < j => a[i] < a[j]
        /\ \A x \in R : \E i \in 1 .. n : a[i] = x
        /\ \A i \in 1 .. n : /\ a[i] \in Int
                             /\ Len(C[i].data) \in Nat /\ Len(C[i].data) = To(a[i]) - a[i]
    BY ChunkFacts
  <1>2. /\ IsFiniteSet(F) /\ IsFiniteSet(R) /\ R \subseteq F /\ F \subseteq d.next .. stop - 1
        /\ \A p \in R : To(p) \in Int /\ p < To(p) /\ p .. To(p) - 1 \subseteq F
        /\ \A p, q \in R : p < q => To(p) <= q
        /\ \A q \in F : \E p \in R : p <= q /\ q < To(p)
    BY FreshRuns
  <1>3. d.next \in Int /\ stop \in Int BY DEF Waiting, GoodStop
  <1> HIDE DEF C, R, n, a, To, F
  <1>4. DOMAIN C = 1 .. n BY <1>1
  <1>5. \A i \in 1 .. n : f[i] = To(a[i]) - a[i] /\ f[i] \in Int BY <1>1, <1>4 DEF LenOf
  <1> HIDE DEF f
  <1>6. \A i \in 1 .. n : Run(i) \subseteq F /\ a[i] \in Int /\ To(a[i]) \in Int /\ a[i] < To(a[i])
    BY <1>1, <1>2
  <1>7. \A i, j \in 1 .. n : i < j => To(a[i]) <= a[j] BY <1>1, <1>2
  <1>8. Part(0) = {} OBVIOUS
  <1>9. ASSUME NEW m \in 1 .. n
        PROVE  Part(m) = Part(m - 1) \cup Run(m) /\ Part(m - 1) \cap Run(m) = {}
    <2>1. ASSUME NEW q \in Part(m - 1) PROVE q \notin Run(m)
      <3>1. PICK i \in 1 .. m - 1 : q \in Run(i) OBVIOUS
      <3>2. i \in 1 .. n /\ i < m BY <1>1
      <3>3. To(a[i]) <= a[m] /\ To(a[i]) \in Int /\ a[m] \in Int /\ To(a[m]) \in Int /\ a[i] \in Int
        BY <1>6, <1>7, <3>2
      <3> QED BY <3>1, <3>3
    <2>2. ASSUME NEW q \in Part(m) PROVE q \in Part(m - 1) \cup Run(m)
      <3>1. PICK i \in 1 .. m : q \in Run(i) OBVIOUS
      <3>2. i = m \/ i \in 1 .. m - 1 BY <1>1
      <3> QED BY <3>1, <3>2
    <2>3. ASSUME NEW q \in Part(m - 1) PROVE q \in Part(m)
      <3>1. PICK i \in 1 .. m - 1 : q \in Run(i) OBVIOUS
      <3>2. i \in 1 .. m BY <1>1
      <3> QED BY <3>1, <3>2
    <2>4. ASSUME NEW q \in Run(m) PROVE q \in Part(m)
      <3>1. m \in 1 .. m BY <1>1
      <3>2. q \in F BY <1>6
      <3> QED BY <3>1, <3>2
    <2> HIDE DEF Part, Run
    <2> QED BY <2>1, <2>2, <2>3, <2>4
  <1>10. ASSUME NEW m \in 1 .. n
         PROVE  Cardinality(Part(m)) = Cardinality(Part(m - 1)) + f[m]
    <2>1. IsFiniteSet(Run(m)) /\ Cardinality(Run(m)) = f[m]
      <3> DEFINE x == a[m]
                 y == To(a[m]) - 1
      <3>1. x \in Int /\ y \in Int /\ x <= y /\ f[m] = y - x + 1 BY <1>5, <1>6
      <3> HIDE DEF x, y
      <3>2. IsFiniteSet(x .. y) /\ Cardinality(x .. y) = y - x + 1 BY <3>1, FS_Interval
      <3> QED BY <3>1, <3>2 DEF x, y
    <2>2. IsFiniteSet(Part(m - 1)) BY <1>2, FS_Subset
    <2>3. Part(m) = Part(m - 1) \cup Run(m) /\ Part(m - 1) \cap Run(m) = {} BY <1>9
    <2> HIDE DEF Part, Run
    <2>4. Cardinality(Part(m)) = Cardinality(Part(m - 1)) + Cardinality(Run(m)) - Cardinality({})
      BY <2>1, <2>2, <2>3, FS_Union
    <2>5. Cardinality(Part(m - 1)) \in Int /\ f[m] \in Int BY <1>5, <2>2, FS_CardinalityType
    <2> QED BY <2>1, <2>4, <2>5, FS_EmptySet
  <1>11. \A m \in 0 .. n : Integral(f, 1 .. m)
    <2> SUFFICES ASSUME NEW m \in 0 .. n PROVE Integral(f, 1 .. m) OBVIOUS
    <2>1. m \in Int BY <1>1
    <2>2. IsFiniteSet(1 .. m) BY <2>1, FS_Interval
    <2>3. \A i \in 1 .. m : i \in 1 .. n BY <1>1
    <2> QED BY <1>5, <2>2, <2>3 DEF Integral
  <1>12. ASSUME NEW m \in 1 .. n
         PROVE  SumFunctionOnSet(f, 1 .. m) = f[m] + SumFunctionOnSet(f, 1 .. m - 1)
    <2>1. m \in 1 .. m /\ (1 .. m) \ {m} = 1 .. m - 1 /\ m \in 0 .. n BY <1>1
    <2> QED BY <1>11, <2>1, SumRemove
  <1>13. Part(n) = F
    <2>1. ASSUME NEW q \in F PROVE q \in Part(n)
      <3>1. PICK p \in R : p <= q /\ q < To(p) BY <1>2
      <3>2. PICK i \in 1 .. n : a[i] = p BY <1>1
      <3>3. q \in Int /\ To(p) \in Int /\ p \in Int BY <1>2, <1>3, <1>6, <3>2
      <3>4. q \in a[i] .. To(a[i]) - 1 BY <3>1, <3>2, <3>3
      <3> QED BY <3>4
    <2> QED BY <2>1
  <1>14. \A m \in 0 .. n : IsFiniteSet(Part(m)) BY <1>2, FS_Subset
  <1> HIDE DEF Part, Run
  <1>15. T = {}
    <2> SUFFICES ASSUME T # {} PROVE FALSE OBVIOUS
    <2>1. T \subseteq Nat /\ \A m \in T : m \in 0 .. n /\ ~Ok(m) BY <1>1
    <2>2. \A m \in 0 .. n : m \notin T => Ok(m) OBVIOUS
    <2> HIDE DEF T
    <2>3. PICK m \in T : \A k \in T : m <= k BY <2>1, LeastNatural
    <2>4. m \in 0 .. n /\ ~Ok(m) BY <2>1
    <2>5. m # 0
      <3>1. 1 .. 0 = {} OBVIOUS
      <3>2. Ok(0) BY <1>8, <3>1, SumEmpty, FS_EmptySet
      <3> QED BY <2>4, <3>2
    <2>6. m \in 1 .. n /\ m - 1 \in 0 .. n /\ m - 1 \notin T BY <1>1, <2>3, <2>4, <2>5
    <2>7. Ok(m - 1) BY <2>2, <2>6
    <2>8. SumFunctionOnSet(f, 1 .. m) = f[m] + SumFunctionOnSet(f, 1 .. m - 1) BY <1>12, <2>6
    <2>9. Cardinality(Part(m)) = Cardinality(Part(m - 1)) + f[m] BY <1>10, <2>6
    <2>10. Cardinality(Part(m - 1)) \in Int /\ f[m] \in Int
      BY <1>5, <1>14, <2>6, FS_CardinalityType
    <2> QED BY <2>4, <2>7, <2>8, <2>9, <2>10
  <1>16. n \in 0 .. n /\ n \notin T BY <1>1, <1>15
  <1>17. Ok(n) BY <1>16
  <1>18. SumFunctionOnSet(f, 1 .. n) = Cardinality(F) BY <1>13, <1>17
  <1> QED BY <1>4, <1>18 DEF C, F, f

-----------------------------------------------------------------------------
(***************************************************************************)
(* _tcp_uncovered_segments                                                 *)
(***************************************************************************)

\* What one queued segment leaves of a set of pieces.
CutAll(pieces, old) == UNION {Subtract(p, old) : p \in pieces}

\* The equation that defines the pieces left by every part of a queue.
Cuts(segment, S, g) ==
    g = [u \in SUBSET S |-> IF u = {} THEN {segment} ELSE CutAll(g[u \ {Pick(u)}], Pick(u))]

\* The uncovered pieces are read from such a table.
LEMMA UncoveredIsTable ==
    \A segment, S : Uncovered(segment, S) = (CHOOSE g : Cuts(segment, S, g))[S]
  BY Zenon DEF Uncovered, FoldSet, MapThenFoldSet, Cuts, CutAll, Pick

\* The tables of a finite set and of a part of it agree on the part.
LEMMA CutsAgree ==
    ASSUME NEW segment, NEW S, IsFiniteSet(S), NEW U \in SUBSET S, NEW g, NEW h,
           Cuts(segment, S, g), Cuts(segment, U, h)
    PROVE  \A s \in SUBSET U : g[s] = h[s]
  <1> DEFINE T == {s \in SUBSET U : g[s] # h[s]}
  <1> SUFFICES ASSUME T # {} PROVE FALSE OBVIOUS
  <1>1. IsFiniteSet(U) BY FS_Subset
  <1>2. T \subseteq SUBSET U OBVIOUS
  <1>3. \A s \in SUBSET U : s \notin T => g[s] = h[s] OBVIOUS
  <1>4. \A s \in T : g[s] # h[s] OBVIOUS
  <1> HIDE DEF T
  <1>5. PICK m \in T : \A u \in T : u \subseteq m => u = m BY <1>1, <1>2, MinimalSubset
  <1>6. m \in SUBSET S /\ m \in SUBSET U /\ g[m] # h[m] BY <1>2, <1>4
  <1>7. CASE m = {}
    BY <1>6, <1>7 DEF Cuts
  <1>8. CASE m # {}
    <2>1. Pick(m) \in m BY <1>6, <1>8, PickIn
    <2>2. /\ g[m] = CutAll(g[m \ {Pick(m)}], Pick(m))
          /\ h[m] = CutAll(h[m \ {Pick(m)}], Pick(m))
      BY <1>6, <1>8 DEF Cuts
    <2>3. m \ {Pick(m)} \notin T BY <1>5, <2>1
    <2>4. g[m \ {Pick(m)}] = h[m \ {Pick(m)}] BY <2>3, <1>6, <1>3
    <2> QED BY <2>2, <2>4, <1>6
  <1> QED BY <1>7, <1>8

\* Every finite set has such a table.
LEMMA CutsExist ==
    ASSUME NEW segment, NEW S, IsFiniteSet(S)
    PROVE  \E g : Cuts(segment, S, g)
  <1> DEFINE T == {s \in SUBSET S : ~\E g : Cuts(segment, s, g)}
  <1> SUFFICES ASSUME T # {} PROVE FALSE OBVIOUS
  <1>1. /\ T \subseteq SUBSET S
        /\ \A s \in T : ~\E g : Cuts(segment, s, g)
        /\ \A s \in SUBSET S : s \notin T => \E g : Cuts(segment, s, g)
    OBVIOUS
  <1> HIDE DEF T
  <1>2. PICK m \in T : \A u \in T : u \subseteq m => u = m BY <1>1, MinimalSubset
  <1> DEFINE Tab(u) == CHOOSE g : Cuts(segment, u, g)
             rest == m \ {Pick(m)}
             H == [u \in SUBSET m |->
                     IF u = {} THEN {segment}
                     ELSE IF u = m THEN CutAll(Tab(rest)[rest], Pick(m))
                     ELSE Tab(u)[u]]
  <1>3. ASSUME NEW u \in SUBSET m, u # m PROVE Cuts(segment, u, Tab(u))
    <2>1. u \in SUBSET S /\ u \notin T BY <1>1, <1>2, <1>3
    <2>2. \E g : Cuts(segment, u, g) BY <2>1, <1>1
    <2> QED BY <2>2
  <1>4. ASSUME NEW u \in SUBSET m, u # {} PROVE Pick(u) \in u
    <2>1. u \in SUBSET S BY <1>1
    <2> QED BY <1>4, <2>1, PickIn
  <1>5. ASSUME NEW u \in SUBSET m, u # m, u # {}
        PROVE  Tab(u)[u] = CutAll(Tab(u \ {Pick(u)})[u \ {Pick(u)}], Pick(u))
    <2> DEFINE v == u \ {Pick(u)}
    <2>1. Pick(u) \in u BY <1>4, <1>5
    <2>2. v \in SUBSET u /\ v \in SUBSET m /\ v # m BY <2>1
    <2>3. Cuts(segment, u, Tab(u)) /\ Cuts(segment, v, Tab(v)) BY <1>3, <1>5, <2>2
    <2>4. IsFiniteSet(u) BY FS_Subset, <1>1
    <2> HIDE DEF Tab
    <2>5. Tab(u)[v] = Tab(v)[v] BY <2>2, <2>3, <2>4, CutsAgree
    <2>6. Tab(u)[u] = CutAll(Tab(u)[v], Pick(u)) BY <2>3, <1>5 DEF Cuts
    <2> QED BY <2>5, <2>6
  <1>6. {} # m => Tab({})[{}] = {segment}
    <2> HAVE {} # m
    <2>1. Cuts(segment, {}, Tab({})) BY <1>3
    <2> HIDE DEF Tab
    <2> QED BY <2>1 DEF Cuts
  <1> HIDE DEF Tab
  <1>7. ASSUME NEW u \in SUBSET m
        PROVE  H[u] = IF u = {} THEN {segment} ELSE CutAll(H[u \ {Pick(u)}], Pick(u))
    <2> DEFINE v == u \ {Pick(u)}
    <2>1. CASE u = {} BY <2>1
    <2>2. CASE u # {}
      <3>1. Pick(u) \in u BY <1>4, <2>2
      <3>2. v \in SUBSET m /\ v # m BY <3>1
      <3>3. H[v] = Tab(v)[v] BY <3>2, <1>6
      <3>4. H[u] = CutAll(Tab(v)[v], Pick(u))
        <4>1. CASE u = m BY <4>1, <2>2
        <4>2. CASE u # m BY <4>2, <2>2, <1>5
        <4> QED BY <4>1, <4>2
      <3> QED BY <2>2, <3>3, <3>4
    <2> QED BY <2>1, <2>2
  <1>8. Cuts(segment, m, H)
    <2>1. H = [u \in SUBSET m |-> H[u]] OBVIOUS
    <2> HIDE DEF H
    <2>2. H = [u \in SUBSET m |-> IF u = {} THEN {segment} ELSE CutAll(H[u \ {Pick(u)}], Pick(u))]
      BY <2>1, <1>7
    <2> QED BY <2>2 DEF Cuts
  <1> QED BY <1>1, <1>2, <1>8


\* Pieces of a segment: disjoint, within it, and clear of what is queued.
Pieces(P, segment, u) ==
    /\ P \subseteq Segment /\ IsFiniteSet(P)
    /\ \A p \in P : /\ p.start < p.end
                    /\ segment.start <= p.start /\ p.end <= segment.end
                    /\ \A o \in u : ~Overlap(p, o)
    /\ \A p, q \in P : p # q => ~Overlap(p, q)

\* What an older segment leaves of a piece.
LEMMA SubtractPieces ==
    ASSUME NEW piece \in Segment, NEW old \in Segment,
           piece.start < piece.end, old.start < old.end
    PROVE  Pieces(Subtract(piece, old), piece, {old})
  <1> DEFINE l == [piece EXCEPT !.end = old.start]
             r == [piece EXCEPT !.start = old.end]
  <1>1. /\ l \in Segment /\ l.start = piece.start /\ l.end = old.start
        /\ r \in Segment /\ r.start = old.end /\ r.end = piece.end
    BY DEF Segment
  <1>2. piece.start \in Int /\ piece.end \in Int /\ old.start \in Int /\ old.end \in Int
    BY SegmentFields
  <1>3. CASE ~Overlap(piece, old)
    <2>1. Subtract(piece, old) = {piece} BY <1>3 DEF Subtract
    <2>2. IsFiniteSet({piece}) BY FS_Singleton
    <2> QED BY <1>2, <1>3, <2>1, <2>2 DEF Pieces
  <1>4. CASE Overlap(piece, old)
    <2>1. Subtract(piece, old) = {p \in {l, r} : p.start < p.end} BY <1>4 DEF Subtract
    <2> DEFINE X == Subtract(piece, old)
    <2>2. \A p \in X : (p = l \/ p = r) /\ p.start < p.end BY <2>1
    <2>3. IsFiniteSet(X)
      <3>1. IsFiniteSet({l} \cup {r}) BY FS_Singleton, FS_Union
      <3>2. X \subseteq {l} \cup {r} BY <2>2
      <3> HIDE DEF X, l, r
      <3> QED BY <3>1, <3>2, FS_Subset
    <2> HIDE DEF X, l, r
    <2>4. piece.start < old.end /\ old.start < piece.end BY <1>4 DEF Overlap
    <2>5. \A p \in X : /\ p \in Segment /\ p.start < p.end
                       /\ piece.start <= p.start /\ p.end <= piece.end
                       /\ p.end <= old.start \/ old.end <= p.start
      BY <1>1, <1>2, <2>2, <2>4
    <2>6. \A p \in X : ~Overlap(p, old)
      <3>1. \A p \in X : p.start \in Int /\ p.end \in Int BY <2>5, SegmentFields
      <3> QED BY <1>2, <2>5, <3>1 DEF Overlap
    <2>7. \A p, q \in X : p # q => ~Overlap(p, q)
      <3>1. ~Overlap(l, r) /\ ~Overlap(r, l) BY <1>1, <1>2 DEF Overlap
      <3> QED BY <2>2, <3>1
    <2>8. X \subseteq Segment BY <2>5
    <2>9. Pieces(X, piece, {old})
      <3>1. \A p \in X : \A o \in {old} : ~Overlap(p, o) BY <2>6
      <3> QED BY <2>3, <2>5, <2>7, <2>8, <3>1 DEF Pieces
    <2> QED BY <2>9 DEF X
  <1> QED BY <1>3, <1>4

\* One more queued segment.
LEMMA CutPieces ==
    ASSUME NEW segment \in Segment, NEW P, NEW u, u \subseteq Segment, Pieces(P, segment, u),
           NEW old \in Segment, old.start < old.end
    PROVE  Pieces(CutAll(P, old), segment, u \cup {old})
  <1> DEFINE X == CutAll(P, old)
             F == {Subtract(p, old) : p \in P}
  <1>1. \A p \in P : p \in Segment /\ p.start < p.end BY DEF Pieces
  <1>2. \A p \in P : Pieces(Subtract(p, old), p, {old}) BY <1>1, SubtractPieces
  <1>3. ASSUME NEW x \in X PROVE \E p \in P : x \in Subtract(p, old) BY DEF CutAll
  <1>4. IsFiniteSet(X)
    <2>1. IsFiniteSet(F)
      <3> DEFINE f == [p \in P |-> Subtract(p, old)]
      <3>1. f \in Surjection(P, F) BY DEF Surjection
      <3>2. IsFiniteSet(P) BY DEF Pieces
      <3> HIDE DEF f, F
      <3> QED BY <3>1, <3>2, FS_Surjection
    <2>2. \A s \in F : IsFiniteSet(s) BY <1>2 DEF Pieces
    <2>3. X = UNION F BY DEF CutAll
    <2> HIDE DEF F, X
    <2> QED BY <2>1, <2>2, <2>3, FS_UNION
  <1> HIDE DEF X, F
  <1>5. ASSUME NEW x \in X
        PROVE  /\ x \in Segment /\ x.start < x.end
               /\ segment.start <= x.start /\ x.end <= segment.end
               /\ \A o \in u \cup {old} : ~Overlap(x, o)
    <2>1. PICK p \in P : x \in Subtract(p, old) BY <1>3
    <2>2. /\ x \in Segment /\ x.start < x.end /\ p.start <= x.start /\ x.end <= p.end
          /\ ~Overlap(x, old)
      BY <1>2, <2>1 DEF Pieces
    <2>3. /\ p \in Segment /\ segment.start <= p.start /\ p.end <= segment.end
          /\ \A o \in u : ~Overlap(p, o)
      BY DEF Pieces
    <2>4. /\ x.start \in Int /\ x.end \in Int /\ p.start \in Int /\ p.end \in Int
          /\ segment.start \in Int /\ segment.end \in Int
      BY <2>2, <2>3, SegmentFields
    <2>5. segment.start <= x.start /\ x.end <= segment.end BY <2>2, <2>3, <2>4
    <2>6. ASSUME NEW o \in u PROVE ~Overlap(x, o)
      <3>1. o.start \in Int /\ o.end \in Int BY SegmentFields
      <3> QED BY <2>2, <2>3, <2>4, <3>1 DEF Overlap
    <2> QED BY <2>2, <2>5, <2>6
  <1>6. ASSUME NEW x \in X, NEW y \in X, x # y PROVE ~Overlap(x, y)
    <2>1. PICK p \in P : x \in Subtract(p, old) BY <1>3
    <2>2. PICK q \in P : y \in Subtract(q, old) BY <1>3
    <2>3. CASE p = q BY <1>2, <1>6, <2>1, <2>2, <2>3 DEF Pieces
    <2>4. CASE p # q
      <3>1. ~Overlap(p, q) BY <2>4 DEF Pieces
      <3>2. p.start <= x.start /\ x.end <= p.end /\ q.start <= y.start /\ y.end <= q.end
        BY <1>2, <2>1, <2>2 DEF Pieces
      <3>3. /\ x.start \in Int /\ x.end \in Int /\ p.start \in Int /\ p.end \in Int
            /\ y.start \in Int /\ y.end \in Int /\ q.start \in Int /\ q.end \in Int
        BY <1>1, <1>5, SegmentFields
      <3> QED BY <3>1, <3>2, <3>3 DEF Overlap
    <2> QED BY <2>3, <2>4
  <1>7. X \subseteq Segment BY <1>5
  <1>8. Pieces(X, segment, u \cup {old}) BY <1>4, <1>5, <1>6, <1>7 DEF Pieces
  <1> QED BY <1>8 DEF X

\* What no queued segment covers are disjoint pieces of the new segment.
LEMMA UncoveredPieces ==
    ASSUME NEW Q, Queue(Q), NEW segment \in Segment, segment.start < segment.end
    PROVE  Pieces(Uncovered(segment, Q), segment, Q)
  <1>1. IsFiniteSet(Q) /\ Q \subseteq Segment /\ \A s \in Q : s.start < s.end BY DEF Queue
  <1>2. PICK g : Cuts(segment, Q, g) /\ Uncovered(segment, Q) = g[Q]
    <2>1. Cuts(segment, Q, CHOOSE g : Cuts(segment, Q, g)) BY <1>1, CutsExist
    <2> QED BY <2>1, UncoveredIsTable
  <1> DEFINE T == {u \in SUBSET Q : ~Pieces(g[u], segment, u)}
  <1>3. T = {}
    <2> SUFFICES ASSUME T # {} PROVE FALSE OBVIOUS
    <2>1. T \subseteq SUBSET Q /\ \A u \in T : ~Pieces(g[u], segment, u) OBVIOUS
    <2>2. \A u \in SUBSET Q : u \notin T => Pieces(g[u], segment, u) OBVIOUS
    <2> HIDE DEF T
    <2>3. PICK m \in T : \A u \in T : u \subseteq m => u = m BY <1>1, <2>1, MinimalSubset
    <2>4. m \in SUBSET Q /\ ~Pieces(g[m], segment, m) BY <2>1
    <2>5. CASE m = {}
      <3>1. g[m] = {segment} BY <1>2, <2>4, <2>5 DEF Cuts
      <3>2. IsFiniteSet({segment}) BY FS_Singleton
      <3>3. segment.start \in Int /\ segment.end \in Int BY SegmentFields
      <3> QED BY <2>4, <2>5, <3>1, <3>2, <3>3 DEF Pieces
    <2>6. CASE m # {}
      <3> DEFINE x == Pick(m)
                 v == m \ {x}
      <3>1. x \in m BY <2>6, PickIn
      <3>2. v \in SUBSET Q /\ v \notin T /\ v \cup {x} = m BY <2>3, <2>4, <3>1
      <3>3. Pieces(g[v], segment, v) BY <2>2, <3>2
      <3>4. g[m] = CutAll(g[v], x) BY <1>2, <2>4, <2>6 DEF Cuts
      <3>5. x \in Segment /\ x.start < x.end /\ v \subseteq Segment BY <1>1, <2>4, <3>1
      <3> HIDE DEF x, v
      <3>6. Pieces(CutAll(g[v], x), segment, v \cup {x}) BY <3>3, <3>5, CutPieces
      <3> QED BY <2>4, <3>2, <3>4, <3>6
    <2> QED BY <2>5, <2>6
  <1>4. Q \in SUBSET Q /\ Q \notin T BY <1>3
  <1> QED BY <1>2, <1>4

\* A queue stays one when the uncovered pieces join it, and they are new to it.
LEMMA QueueGrows ==
    ASSUME NEW Q, Queue(Q), NEW segment \in Segment, segment.start < segment.end
    PROVE  /\ Queue(Q \cup Uncovered(segment, Q))
           /\ Q \cap Uncovered(segment, Q) = {}
           /\ \A s \in Uncovered(segment, Q) : segment.start <= s.start
  <1> DEFINE P == Uncovered(segment, Q)
  <1>1. Pieces(P, segment, Q) BY UncoveredPieces
  <1> HIDE DEF P
  <1>2. IsFiniteSet(Q \cup P) BY <1>1, FS_Union DEF Pieces, Queue
  <1>3. Q \cup P \subseteq Segment /\ \A s \in Q \cup P : s.start < s.end
    BY <1>1 DEF Pieces, Queue
  <1>4. \A s, t \in Segment : Overlap(s, t) <=> Overlap(t, s) BY DEF Overlap
  <1>5. \A s, t \in Q \cup P : s # t => ~Overlap(s, t) BY <1>1, <1>3, <1>4 DEF Pieces, Queue
  <1>6. ASSUME NEW s \in Q, s \in P PROVE FALSE
    <2>1. ~Overlap(s, s) BY <1>1, <1>6 DEF Pieces
    <2>2. s.start \in Int /\ s.end \in Int /\ s.start < s.end BY SegmentFields DEF Queue
    <2> QED BY <2>1, <2>2 DEF Overlap
  <1>7. Queue(Q \cup P) BY <1>2, <1>3, <1>5 DEF Queue
  <1>8. \A s \in P : segment.start <= s.start BY <1>1 DEF Pieces
  <1> QED BY <1>6, <1>7, <1>8 DEF P

-----------------------------------------------------------------------------
(***************************************************************************)
(* Tables                                                                  *)
(***************************************************************************)

IsDirection(d) ==
    /\ d = [next |-> d.next, offset |-> d.offset, midstream |-> d.midstream, gap |-> d.gap,
            syn |-> d.syn, pending |-> d.pending, pendingBytes |-> d.pendingBytes,
            history |-> d.history, acked |-> d.acked, closed |-> d.closed]
    /\ d.offset \in Int /\ d.gap \in BOOLEAN
    /\ Waiting(d)

IsFlow(f) ==
    /\ f = [epoch |-> f.epoch, activity |-> f.activity, dirs |-> f.dirs]
    /\ f.epoch \in Nat /\ f.activity \in Nat
    /\ f.dirs = [dir \in {0, 1} |-> f.dirs[dir]]
    /\ \A dir \in {0, 1} : IsDirection(f.dirs[dir])

IsStats(s) ==
    /\ s = [retransmitted |-> s.retransmitted, keepalive |-> s.keepalive,
            conflicts |-> s.conflicts, gapBytes |-> s.gapBytes, evicted |-> s.evicted,
            budgetEvicted |-> s.budgetEvicted, expired |-> s.expired]
    /\ s.retransmitted \in Int /\ s.keepalive \in Int

Record(t) ==
    t = [flows |-> t.flows, order |-> t.order, nextEpoch |-> t.nextEpoch,
         buffered |-> t.buffered, segments |-> t.segments, stats |-> t.stats, out |-> t.out]

\* The shape of a table: what the fields are.
IsTable(t) ==
    /\ Record(t)
    /\ t.flows = [k \in DOMAIN t.flows |-> t.flows[k]]
    /\ \A k \in DOMAIN t.flows : IsFlow(t.flows[k])
    /\ t.nextEpoch \in Nat /\ t.buffered \in Int /\ t.segments \in Int
    /\ IsStats(t.stats)
    /\ Listed(t.order) /\ Listed(t.out)

\* u is t with another direction e in one place; the counters and the output may differ.
Replaces(u, t, k, dir, e) ==
    /\ Record(u)
    /\ u.order = t.order /\ u.nextEpoch = t.nextEpoch
    /\ u.flows = [j \in DOMAIN t.flows |->
                    IF j = k THEN [epoch |-> t.flows[k].epoch, activity |-> t.flows[k].activity,
                                   dirs |-> [x \in {0, 1} |-> IF x = dir THEN e
                                                              ELSE t.flows[k].dirs[x]]]
                    ELSE t.flows[j]]

\* Putting a direction in its place.
LEMMA ReplaceDirection ==
    ASSUME NEW t, IsTable(t), NEW k \in DOMAIN t.flows, NEW dir \in {0, 1}, NEW e
    PROVE  [t.flows EXCEPT ![k].dirs[dir] = e]
             = [j \in DOMAIN t.flows |->
                  IF j = k THEN [epoch |-> t.flows[k].epoch, activity |-> t.flows[k].activity,
                                 dirs |-> [x \in {0, 1} |-> IF x = dir THEN e
                                                            ELSE t.flows[k].dirs[x]]]
                  ELSE t.flows[j]]
  <1>1. /\ t.flows = [j \in DOMAIN t.flows |-> t.flows[j]]
        /\ t.flows[k] = [epoch |-> t.flows[k].epoch, activity |-> t.flows[k].activity,
                         dirs |-> t.flows[k].dirs]
        /\ t.flows[k].dirs = [x \in {0, 1} |-> t.flows[k].dirs[x]]
    BY DEF IsTable, IsFlow
  <1>2. [t.flows[k] EXCEPT !.dirs[dir] = e]
          = [epoch |-> t.flows[k].epoch, activity |-> t.flows[k].activity,
             dirs |-> [x \in {0, 1} |-> IF x = dir THEN e ELSE t.flows[k].dirs[x]]]
    BY <1>1
  <1> QED BY <1>1, <1>2

\* The chunks of an advance with their labels.
Handed(k, epoch, dir, C) ==
    [i \in DOMAIN C |-> [flow |-> k, epoch |-> epoch, dir |-> dir, offset |-> C[i].offset,
                         start |-> C[i].start, data |-> C[i].data,
                         completeness |-> C[i].completeness]]

\* What Emit changes.
Emitted(u, t, k, dir, stop) ==
    LET d == t.flows[k].dirs[dir]
    IN  /\ Replaces(u, t, k, dir, Advance(d, stop))
        /\ u.buffered = t.buffered - Bytes(Gone(d, stop))
        /\ u.segments = t.segments - Cardinality(Gone(d, stop))
        /\ u.stats = [t.stats EXCEPT
              !.retransmitted = @ + Bytes(Gone(d, stop)) - Cardinality(Fresh(d, stop)),
              !.gapBytes = @ + (stop - d.next) - Cardinality(Fresh(d, stop))]
        /\ u.out = t.out \o Handed(k, t.flows[k].epoch, dir, Chunks(d, stop))

\* Emit changes one direction, the counters and the output.
LEMMA EmitEffect ==
    ASSUME NEW t, IsTable(t), NEW k \in DOMAIN t.flows, NEW dir \in {0, 1}, NEW stop
    PROVE  Emitted(Emit(t, k, dir, stop), t, k, dir, stop)
  <1> DEFINE d == t.flows[k].dirs[dir]
             u == Emit(t, k, dir, stop)
  <1>1. Record(t) /\ IsStats(t.stats) BY DEF IsTable
  <1>2. u.flows = [t.flows EXCEPT ![k].dirs[dir] = Advance(d, stop)] BY <1>1 DEF Record, Emit
  <1>3. /\ u.order = t.order /\ u.nextEpoch = t.nextEpoch
        /\ u.buffered = t.buffered - Bytes(Gone(d, stop))
        /\ u.segments = t.segments - Cardinality(Gone(d, stop))
    <2>1. u.order = t.order BY <1>1 DEF Record, Emit
    <2>2. u.nextEpoch = t.nextEpoch BY <1>1 DEF Record, Emit
    <2>3. u.buffered = t.buffered - Bytes(Gone(d, stop)) BY <1>1 DEF Record, Emit
    <2>4. u.segments = t.segments - Cardinality(Gone(d, stop)) BY <1>1 DEF Record, Emit
    <2> QED BY <2>1, <2>2, <2>3, <2>4
  <1>4. Record(u)
    <2>1. DOMAIN u = DOMAIN t BY DEF Emit
    <2>2. DOMAIN t = {"flows", "order", "nextEpoch", "buffered", "segments", "stats", "out"}
      BY <1>1 DEF Record
    <2>3. u = [x \in DOMAIN u |-> u[x]] BY DEF Emit
    <2> HIDE DEF u
    <2> QED BY <2>1, <2>2, <2>3 DEF Record
  <1>5. u.stats = [t.stats EXCEPT
                     !.retransmitted = @ + Bytes(Gone(d, stop)) - Cardinality(Fresh(d, stop)),
                     !.gapBytes = @ + (stop - d.next) - Cardinality(Fresh(d, stop))]
    BY <1>1 DEF Record, Emit
  <1>6. u.out = t.out \o Handed(k, t.flows[k].epoch, dir, Chunks(d, stop))
    BY <1>1 DEF Record, Emit, Handed
  <1>7. Replaces(u, t, k, dir, Advance(d, stop)) BY <1>2, <1>3, <1>4, ReplaceDirection DEF Replaces
  <1> QED BY <1>3, <1>5, <1>6, <1>7 DEF Emitted

-----------------------------------------------------------------------------
(***************************************************************************)
(* The invariant                                                           *)
(***************************************************************************)

\* The flows of a table are the ones its order lists, each once.
Keys(t) ==
    /\ \A i \in DOMAIN t.order : t.order[i] \in DOMAIN t.flows
    /\ \A k \in DOMAIN t.flows : \E i \in DOMAIN t.order : t.order[i] = k
    /\ \A i, j \in DOMAIN t.order : t.order[i] = t.order[j] => i = j

\* The order is that of the last activity, which is not in the future.
Timed(t, now) ==
    /\ \A k \in DOMAIN t.flows : t.flows[k].activity <= now
    /\ \A i, j \in DOMAIN t.order :
          i < j => t.flows[t.order[i]].activity <= t.flows[t.order[j]].activity

Places(t) == {<<k, dir>> : k \in DOMAIN t.flows, dir \in {0, 1}}

Held(t) == [kd \in Places(t) |-> Bytes(t.flows[kd[1]].dirs[kd[2]].pending)]

Number(t) == [kd \in Places(t) |-> Cardinality(t.flows[kd[1]].dirs[kd[2]].pending)]

\* The counters of the budgets are the queued bytes and segments.
Counted(t) ==
    /\ t.buffered = SumFunctionOnSet(Held(t), Places(t))
    /\ t.segments = SumFunctionOnSet(Number(t), Places(t))

\* The first n chunks that belong to a direction of a connection.
Of(s, epoch, dir, n) == {i \in 1 .. n : s[i].epoch = epoch /\ s[i].dir = dir}

Total(s, epoch, dir, n) == SumFunctionOnSet(LenOf(s), Of(s, epoch, dir, n))

\* Epochs tell connections apart.
Epochs(t) ==
    /\ \A k \in DOMAIN t.flows : t.flows[k].epoch < t.nextEpoch
    /\ \A k, j \in DOMAIN t.flows : t.flows[k].epoch = t.flows[j].epoch => k = j

\* Every chunk belongs to a direction of a connection that has been opened.
Labelled(t) ==
    \A i \in DOMAIN t.out :
        /\ t.out[i].epoch \in Nat /\ t.out[i].epoch < t.nextEpoch
        /\ t.out[i].offset \in Int /\ t.out[i].start \in Int /\ Len(t.out[i].data) \in Nat

\* The chunks of an open direction lie behind it, and it began where they did.
Behind(t) ==
    \A k \in DOMAIN t.flows, dir \in {0, 1}, i \in DOMAIN t.out :
        t.out[i].epoch = t.flows[k].epoch /\ t.out[i].dir = dir =>
            /\ t.out[i].flow = k /\ t.flows[k].dirs[dir].next # NoSeq
            /\ t.out[i].offset + Len(t.out[i].data) <= t.flows[k].dirs[dir].offset
            /\ t.out[i].start - t.out[i].offset
                 = t.flows[k].dirs[dir].next - t.flows[k].dirs[dir].offset

\* Chunks of a direction follow one another.
InOrder(t) ==
    \A i, j \in DOMAIN t.out :
        i < j /\ t.out[i].epoch = t.out[j].epoch /\ t.out[i].dir = t.out[j].dir =>
            /\ t.out[i].flow = t.out[j].flow
            /\ t.out[i].offset + Len(t.out[i].data) <= t.out[j].offset
            /\ t.out[i].start - t.out[i].offset = t.out[j].start - t.out[j].offset

\* What is not marked follows on all that came before.
Joined(t) ==
    /\ \A j \in DOMAIN t.out :
          t.out[j].completeness # "gapped" =>
              t.out[j].offset = Total(t.out, t.out[j].epoch, t.out[j].dir, j - 1)
    /\ \A k \in DOMAIN t.flows, dir \in {0, 1} :
          ~t.flows[k].dirs[dir].gap =>
              t.flows[k].dirs[dir].offset
                = Total(t.out, t.flows[k].epoch, dir, Len(t.out))

\* What holds between any two stages of process.
Core(t, now) ==
    /\ IsTable(t) /\ Keys(t) /\ Timed(t, now) /\ Counted(t)
    /\ Epochs(t) /\ Labelled(t) /\ Behind(t) /\ InOrder(t) /\ Joined(t)

\* A direction that has handed out what it could and keeps its limits.
Settled(d) ==
    /\ \A s \in d.pending : d.next < s.start
    /\ d.pendingBytes <= MaxPending /\ Cardinality(d.pending) <= MaxSegments

\* What holds between two stages while no segment is being taken.
Tidy(t, now) ==
    /\ Core(t, now)
    /\ \A k \in DOMAIN t.flows, dir \in {0, 1} : Settled(t.flows[k].dirs[dir])

\* A flow in the table has a direction that is not closed.
OneOpen(f) == ~(f.dirs[0].closed /\ f.dirs[1].closed)

\* What holds before and after process.
Good(t, now) == Tidy(t, now) /\ \A k \in DOMAIN t.flows : OneOpen(t.flows[k])

\* The payload bytes a table accounts for.
Balance(t) == SumFunctionOnSet(LenOf(t.out), DOMAIN t.out)
              + t.buffered + t.stats.retransmitted + t.stats.keepalive

\* The table is within the limits of the configuration.
Bounded(t) == Len(t.order) <= MaxFlows /\ WithinBudget(t)

\* The inductive invariant: between calls the table is good and within its limits, and
\* what it accounts for is exactly the payload received.
Inv ==
    /\ Good(Table, clock) /\ Bounded(Table)
    /\ clock \in Nat /\ received = Balance(Table)

-----------------------------------------------------------------------------
(***************************************************************************)
(* Lengths of outputs                                                      *)
(***************************************************************************)

\* A sum does not depend on where its terms stand.
LEMMA SumMoved ==
    ASSUME NEW m \in Nat, NEW U, IsFiniteSet(U), \A i \in U : i \in Nat, NEW f, NEW h,
           \A i \in U : h[i] \in Int /\ f[m + i] = h[i]
    PROVE  SumFunctionOnSet(f, {m + i : i \in U}) = SumFunctionOnSet(h, U)
  <1> DEFINE To(s) == {m + i : i \in s}
             Ok(s) == SumFunctionOnSet(f, To(s)) = SumFunctionOnSet(h, s)
             T == {s \in SUBSET U : ~Ok(s)}
  <1>1. /\ T \subseteq SUBSET U
        /\ \A s \in T : ~Ok(s)
        /\ \A s \in SUBSET U : s \notin T => Ok(s)
    OBVIOUS
  <1>2. T = {}
    <2> SUFFICES ASSUME T # {} PROVE FALSE OBVIOUS
    <2>1. T \subseteq SUBSET U BY <1>1
    <2> HIDE DEF T
    <2>2. PICK s \in T : \A u \in T : u \subseteq s => u = s BY <2>1, MinimalSubset
    <2>3. s \in SUBSET U /\ ~Ok(s) BY <1>1
    <2>4. s # {}
      <3> SUFFICES ASSUME s = {} PROVE FALSE OBVIOUS
      <3>1. To(s) = {} OBVIOUS
      <3> QED BY <2>3, <3>1, SumEmpty
    <2>5. PICK x \in s : TRUE BY <2>4
    <2> DEFINE v == s \ {x}
               y == m + x
    <2>6. v \in SUBSET U /\ v \notin T BY <2>2, <2>3
    <2>7. Ok(v) BY <1>1, <2>6
    <2>8. y \in To(s) /\ To(s) \ {y} = To(v)
      <3>1. \A i \in s : i \in Nat BY <2>3
      <3>2. \A i \in s : m + i = y => i = x BY <3>1
      <3> QED BY <3>1, <3>2
    <2>9. Integral(h, s)
      <3>1. IsFiniteSet(s) BY <2>3, FS_Subset
      <3> QED BY <2>3, <3>1 DEF Integral
    <2>10. Integral(f, To(s))
      <3>1. IsFiniteSet(To(s))
        <4> DEFINE g == [i \in s |-> m + i]
        <4>1. g \in Surjection(s, To(s)) BY DEF Surjection
        <4>2. IsFiniteSet(s) BY <2>3, FS_Subset
        <4> HIDE DEF g, To
        <4> QED BY <4>1, <4>2, FS_Surjection
      <3>2. \A j \in To(s) : f[j] \in Int BY <2>3
      <3> HIDE DEF To
      <3> QED BY <3>1, <3>2 DEF Integral
    <2>11. SumFunctionOnSet(h, s) = h[x] + SumFunctionOnSet(h, v) BY <2>9, SumRemove
    <2>12. f[y] = h[x] BY <2>3
    <2> HIDE DEF To, y
    <2>13. SumFunctionOnSet(f, To(s)) = f[y] + SumFunctionOnSet(f, To(s) \ {y})
      BY <2>8, <2>10, SumRemove
    <2> QED BY <2>3, <2>7, <2>8, <2>11, <2>12, <2>13
  <1>3. U \in SUBSET U /\ U \notin T BY <1>2
  <1> QED BY <1>1, <1>3

\* Chunks have a length.
Sized(s) == Listed(s) /\ \A i \in DOMAIN s : Len(s[i].data) \in Nat

\* Numbers moved up.
Shifted(m, U) == {m + i : i \in U}

\* Sums of lengths in a concatenation.
LEMMA SumConcat ==
    ASSUME NEW a, NEW b, Sized(a), Sized(b),
           NEW A \in SUBSET (1 .. Len(a)), NEW B \in SUBSET (1 .. Len(b))
    PROVE  /\ SumFunctionOnSet(LenOf(a \o b), A \cup Shifted(Len(a), B))
                = SumFunctionOnSet(LenOf(a), A) + SumFunctionOnSet(LenOf(b), B)
           /\ SumFunctionOnSet(LenOf(a), A) \in Nat /\ SumFunctionOnSet(LenOf(b), B) \in Nat
           /\ Sized(a \o b)
  <1> DEFINE m == Len(a)
             n == Len(b)
             c == a \o b
             f == LenOf(c)
             g == LenOf(a)
             h == LenOf(b)
             M == Shifted(m, B)
             S == A \cup M
  <1>1. /\ m \in Nat /\ n \in Nat /\ DOMAIN a = 1 .. m /\ DOMAIN b = 1 .. n
        /\ Listed(c) /\ Len(c) = m + n /\ DOMAIN c = 1 .. m + n
        /\ \A i \in 1 .. m : c[i] = a[i]
        /\ \A i \in 1 .. n : c[m + i] = b[i]
    <2>1. Listed(a) /\ Listed(b) BY DEF Sized
    <2>2. /\ Listed(c) /\ Len(c) = Len(a) + Len(b)
          /\ \A i \in 1 .. Len(a) : c[i] = a[i]
          /\ \A i \in 1 .. Len(b) : c[Len(a) + i] = b[i]
      BY <2>1, ListedConcat
    <2>3. Len(a) \in Nat /\ DOMAIN a = 1 .. Len(a) /\ Len(b) \in Nat /\ DOMAIN b = 1 .. Len(b)
      BY <2>1, ListedLength
    <2>4. DOMAIN c = 1 .. Len(c) BY <2>2, ListedLength
    <2> QED BY <2>2, <2>3, <2>4
  <1> HIDE DEF c, m, n
  <1>2. \A i \in 1 .. m : f[i] = g[i] /\ g[i] \in Nat
    <2>1. \A i \in 1 .. m : i \in 1 .. m + n BY <1>1
    <2> QED BY <1>1, <2>1 DEF LenOf, Sized
  <1>3. \A i \in 1 .. n : f[m + i] = h[i] /\ h[i] \in Nat
    <2>1. \A i \in 1 .. n : m + i \in 1 .. m + n BY <1>1
    <2> QED BY <1>1, <2>1 DEF LenOf, Sized
  <1>4. \A j \in 1 .. m + n : j \in 1 .. m \/ \E i \in 1 .. n : j = m + i
    <2> SUFFICES ASSUME NEW j \in 1 .. m + n, ~(j <= m) PROVE \E i \in 1 .. n : j = m + i
      BY <1>1
    <2>1. j - m \in 1 .. n /\ j = m + (j - m) BY <1>1
    <2> QED BY <2>1
  <1>5. Sized(c)
    <2>1. \A j \in 1 .. m + n : Len(c[j].data) \in Nat BY <1>1, <1>4 DEF Sized
    <2> QED BY <1>1, <2>1 DEF Sized
  <1>6. A \subseteq 1 .. m /\ B \subseteq 1 .. n BY DEF m, n
  <1> HIDE DEF f, g, h
  <1>7. IsFiniteSet(A) /\ IsFiniteSet(B)
    <2>1. IsFiniteSet(1 .. m) /\ IsFiniteSet(1 .. n) BY <1>1, FS_Interval
    <2> QED BY <2>1, <1>6, FS_Subset
  <1>8. Natural(g, A) /\ Natural(h, B) BY <1>2, <1>3, <1>7, <1>6 DEF Natural
  <1>9. SumFunctionOnSet(g, A) \in Nat /\ SumFunctionOnSet(h, B) \in Nat BY <1>8, SumNat
  <1>10. SumFunctionOnSet(f, M) = SumFunctionOnSet(h, B)
    <2>1. \A i \in B : h[i] \in Int /\ f[m + i] = h[i] BY <1>1, <1>3, <1>6
    <2>2. \A i \in B : i \in Nat BY <1>1, <1>6
    <2>3. IsFiniteSet(B) /\ m \in Nat BY <1>1, <1>7
    <2> QED BY <2>1, <2>2, <2>3, SumMoved DEF Shifted
  <1>11. SumFunctionOnSet(f, A) = SumFunctionOnSet(g, A)
    <2>1. Integral(g, A) /\ \A i \in A : g[i] = f[i] BY <1>2, <1>7, <1>6 DEF Integral
    <2> QED BY <2>1, SumSame
  <1>12. Integral(f, S)
    <2>1. IsFiniteSet(M)
      <3> DEFINE q == [i \in B |-> m + i]
      <3>1. q \in Surjection(B, M) BY DEF Surjection, Shifted
      <3> HIDE DEF q, M
      <3> QED BY <1>7, <3>1, FS_Surjection
    <2>2. \A j \in M : f[j] \in Int
      <3>1. \A j \in M : \E i \in B : j = m + i BY DEF Shifted
      <3>2. \A i \in B : f[m + i] \in Int BY <1>3, <1>6
      <3> QED BY <3>1, <3>2
    <2>3. \A j \in A : f[j] \in Int BY <1>2, <1>6
    <2> HIDE DEF M
    <2>4. IsFiniteSet(A \cup M) BY <1>7, <2>1, FS_Union
    <2> QED BY <2>2, <2>3, <2>4 DEF Integral
  <1>13. S \ A = M /\ A \in SUBSET S
    <2>1. \A i \in A : i \in Int /\ i <= m BY <1>1, <1>6
    <2>2. \A j \in M : ~(j <= m)
      <3>1. \A j \in M : \E i \in B : j = m + i BY DEF Shifted
      <3>2. \A i \in B : ~(m + i <= m) BY <1>1, <1>6
      <3> QED BY <3>1, <3>2
    <2> HIDE DEF M
    <2> QED BY <2>1, <2>2
  <1> HIDE DEF S, M
  <1>14. SumFunctionOnSet(f, S) = SumFunctionOnSet(f, A) + SumFunctionOnSet(f, S \ A)
    <2>1. \A U \in SUBSET S : SumFunctionOnSet(f, S)
                                = SumFunctionOnSet(f, U) + SumFunctionOnSet(f, S \ U)
      BY <1>12, SumSplit
    <2> QED BY <2>1, <1>13
  <1>15. SumFunctionOnSet(f, S) = SumFunctionOnSet(g, A) + SumFunctionOnSet(h, B)
    BY <1>10, <1>11, <1>13, <1>14
  <1> QED BY <1>5, <1>9, <1>15 DEF S, M, f, g, h, c, m

\* All lengths of a concatenation.
LEMMA LengthConcat ==
    ASSUME NEW a, NEW b, Sized(a), Sized(b)
    PROVE  SumFunctionOnSet(LenOf(a \o b), DOMAIN (a \o b))
             = SumFunctionOnSet(LenOf(a), DOMAIN a) + SumFunctionOnSet(LenOf(b), DOMAIN b)
  <1> DEFINE A == 1 .. Len(a)
             B == 1 .. Len(b)
             m == Len(a)
             n == Len(b)
  <1>1. m \in Nat /\ n \in Nat /\ DOMAIN a = 1 .. m /\ DOMAIN b = 1 .. n
    BY ListedLength DEF Sized
  <1>2. A \in SUBSET (1 .. Len(a)) /\ B \in SUBSET (1 .. Len(b)) OBVIOUS
  <1>3. DOMAIN (a \o b) = 1 .. m + n
    <2>1. Listed(a) /\ Listed(b) BY DEF Sized
    <2>2. Listed(a \o b) /\ Len(a \o b) = m + n BY <2>1, ListedConcat
    <2> QED BY <2>2, ListedLength
  <1>4. A \cup Shifted(m, B) = 1 .. m + n
    <2>1. ASSUME NEW j \in 1 .. m + n PROVE j \in A \cup Shifted(m, B)
      <3>1. j <= m => j \in A BY <1>1
      <3>2. ~(j <= m) => j - m \in B /\ j = m + (j - m) BY <1>1
      <3> QED BY <3>1, <3>2 DEF Shifted
    <2>2. \A j \in A : j \in 1 .. m + n BY <1>1
    <2>3. \A i \in B : m + i \in 1 .. m + n BY <1>1
    <2> QED BY <2>1, <2>2, <2>3 DEF Shifted
  <1> HIDE DEF A, B
  <1>5. SumFunctionOnSet(LenOf(a \o b), A \cup Shifted(m, B))
          = SumFunctionOnSet(LenOf(a), A) + SumFunctionOnSet(LenOf(b), B)
    BY <1>2, SumConcat
  <1> QED BY <1>1, <1>3, <1>4, <1>5 DEF A, B

\* The lengths of one direction in a concatenation.
LEMMA TotalConcat ==
    ASSUME NEW a, NEW b, Sized(a), Sized(b), NEW epoch, NEW dir, NEW j \in 0 .. Len(b)
    PROVE  /\ Total(a \o b, epoch, dir, Len(a) + j)
                = Total(a, epoch, dir, Len(a)) + Total(b, epoch, dir, j)
           /\ Total(a, epoch, dir, Len(a)) \in Nat /\ Total(b, epoch, dir, j) \in Nat
  <1> DEFINE m == Len(a)
             n == Len(b)
             c == a \o b
             A == Of(a, epoch, dir, m)
             B == Of(b, epoch, dir, j)
  <1>1. /\ m \in Nat /\ n \in Nat
        /\ \A i \in 1 .. m : c[i] = a[i]
        /\ \A i \in 1 .. n : c[m + i] = b[i]
    <2>1. Listed(a) /\ Listed(b) BY DEF Sized
    <2> QED BY <2>1, ListedConcat, ListedLength
  <1>2. j \in Nat /\ j <= n BY <1>1
  <1> HIDE DEF m, n, c
  <1>3. A \subseteq 1 .. m /\ B \subseteq 1 .. j BY DEF Of
  <1>4. B \subseteq 1 .. n BY <1>1, <1>2, <1>3
  <1>5. Of(c, epoch, dir, m + j) = A \cup Shifted(m, B)
    <2>1. ASSUME NEW x \in Of(c, epoch, dir, m + j) PROVE x \in A \cup Shifted(m, B)
      <3>1. x \in 1 .. m + j /\ c[x].epoch = epoch /\ c[x].dir = dir BY DEF Of
      <3>2. CASE x <= m
        <4>1. x \in 1 .. m /\ c[x] = a[x] BY <1>1, <1>2, <3>1, <3>2
        <4> QED BY <3>1, <4>1 DEF Of
      <3>3. CASE ~(x <= m)
        <4>1. x - m \in 1 .. j /\ x - m \in 1 .. n /\ x = m + (x - m) BY <1>1, <1>2, <3>1, <3>3
        <4>2. c[x] = b[x - m] BY <1>1, <4>1
        <4>3. x - m \in B BY <3>1, <4>1, <4>2 DEF Of
        <4> QED BY <4>1, <4>3 DEF Shifted
      <3> QED BY <3>2, <3>3
    <2>2. ASSUME NEW x \in A PROVE x \in Of(c, epoch, dir, m + j)
      <3>1. x \in 1 .. m /\ x \in 1 .. m + j /\ c[x] = a[x] BY <1>1, <1>2, <1>3
      <3> QED BY <3>1 DEF Of
    <2>3. ASSUME NEW i \in B PROVE m + i \in Of(c, epoch, dir, m + j)
      <3>1. i \in 1 .. n /\ m + i \in 1 .. m + j /\ c[m + i] = b[i] BY <1>1, <1>2, <1>3, <1>4
      <3> QED BY <3>1 DEF Of
    <2> HIDE DEF A, B
    <2> QED BY <2>1, <2>2, <2>3 DEF Shifted
  <1> HIDE DEF A, B
  <1>6. A \in SUBSET (1 .. Len(a)) /\ B \in SUBSET (1 .. Len(b)) BY <1>3, <1>4 DEF m, n
  <1>7. /\ SumFunctionOnSet(LenOf(a \o b), A \cup Shifted(Len(a), B))
             = SumFunctionOnSet(LenOf(a), A) + SumFunctionOnSet(LenOf(b), B)
        /\ SumFunctionOnSet(LenOf(a), A) \in Nat /\ SumFunctionOnSet(LenOf(b), B) \in Nat
    <2>1. SumFunctionOnSet(LenOf(a \o b), A \cup Shifted(Len(a), B))
            = SumFunctionOnSet(LenOf(a), A) + SumFunctionOnSet(LenOf(b), B)
      BY <1>6, SumConcat
    <2>2. SumFunctionOnSet(LenOf(a), A) \in Nat BY <1>6, SumConcat
    <2>3. SumFunctionOnSet(LenOf(b), B) \in Nat BY <1>6, SumConcat
    <2> QED BY <2>1, <2>2, <2>3
  <1> QED BY <1>5, <1>7 DEF Total, A, B, m, c

\* The lengths in a part of the first sequence.
LEMMA TotalPrefix ==
    ASSUME NEW a, NEW b, Sized(a), Sized(b), NEW epoch, NEW dir, NEW j \in 0 .. Len(a)
    PROVE  Total(a \o b, epoch, dir, j) = Total(a, epoch, dir, j)
  <1> DEFINE c == a \o b
             S == Of(a, epoch, dir, j)
  <1>1. Listed(a) /\ Listed(b) BY DEF Sized
  <1>2. Len(a) \in Nat /\ DOMAIN a = 1 .. Len(a) /\ Len(b) \in Nat BY <1>1, ListedLength
  <1>3. /\ \A i \in 1 .. Len(a) : c[i] = a[i]
        /\ Listed(c) /\ Len(c) = Len(a) + Len(b)
    BY <1>1, ListedConcat
  <1>4. DOMAIN c = 1 .. Len(a) + Len(b) BY <1>3, ListedLength
  <1> HIDE DEF c
  <1>5. \A i \in 1 .. j : i \in DOMAIN a /\ i \in DOMAIN c /\ c[i] = a[i] BY <1>2, <1>3, <1>4
  <1>6. Of(c, epoch, dir, j) = S BY <1>5 DEF Of
  <1>7. \A i \in S : LenOf(a)[i] \in Int /\ LenOf(a)[i] = LenOf(c)[i] BY <1>5 DEF Of, LenOf, Sized
  <1>8. IsFiniteSet(S)
    <2>1. IsFiniteSet(1 .. j) /\ S \subseteq 1 .. j BY <1>2, FS_Interval DEF Of
    <2> QED BY <2>1, FS_Subset
  <1>9. Integral(LenOf(a), S) BY <1>7, <1>8 DEF Integral
  <1> HIDE DEF S
  <1>10. SumFunctionOnSet(LenOf(a), S) = SumFunctionOnSet(LenOf(c), S) BY <1>7, <1>9, SumSame
  <1> QED BY <1>6, <1>10 DEF Total, S, c

\* A sequence with nothing, or nothing but, chunks of a direction.
LEMMA TotalExtreme ==
    ASSUME NEW b, NEW epoch, NEW dir, NEW n \in Nat
    PROVE  /\ (\A i \in 1 .. n : b[i].epoch # epoch \/ b[i].dir # dir)
                => Total(b, epoch, dir, n) = 0
           /\ (\A i \in 1 .. n : b[i].epoch = epoch /\ b[i].dir = dir)
                => Total(b, epoch, dir, n) = SumFunctionOnSet(LenOf(b), 1 .. n)
  <1>1. ASSUME \A i \in 1 .. n : b[i].epoch # epoch \/ b[i].dir # dir
        PROVE  Total(b, epoch, dir, n) = 0
    <2>1. Of(b, epoch, dir, n) = {} BY <1>1 DEF Of
    <2> QED BY <2>1, SumEmpty DEF Total
  <1>2. ASSUME \A i \in 1 .. n : b[i].epoch = epoch /\ b[i].dir = dir
        PROVE  Total(b, epoch, dir, n) = SumFunctionOnSet(LenOf(b), 1 .. n)
    <2>1. Of(b, epoch, dir, n) = 1 .. n BY <1>2 DEF Of
    <2> QED BY <2>1 DEF Total
  <1> QED BY <1>1, <1>2

-----------------------------------------------------------------------------
(***************************************************************************)
(* Changing one direction                                                  *)
(***************************************************************************)

\* The flows of u are those of t, but for the direction e.
Swapped(u, t, k, dir, e) ==
    /\ DOMAIN u.flows = DOMAIN t.flows
    /\ u.flows = [j \in DOMAIN u.flows |-> u.flows[j]]
    /\ \A j \in DOMAIN t.flows : /\ IsFlow(u.flows[j])
                                 /\ u.flows[j].epoch = t.flows[j].epoch
                                 /\ u.flows[j].activity = t.flows[j].activity
    /\ \A j \in DOMAIN t.flows, x \in {0, 1} :
          j # k \/ x # dir => u.flows[j].dirs[x] = t.flows[j].dirs[x]
    /\ u.flows[k].dirs[dir] = e

\* The fields of a table after a direction has been replaced.
LEMMA ReplacedFlows ==
    ASSUME NEW t, IsTable(t), NEW k \in DOMAIN t.flows, NEW dir \in {0, 1},
           NEW e, IsDirection(e), NEW u, Replaces(u, t, k, dir, e)
    PROVE  Swapped(u, t, k, dir, e)
  <1> DEFINE D == [x \in {0, 1} |-> IF x = dir THEN e ELSE t.flows[k].dirs[x]]
             F == [epoch |-> t.flows[k].epoch, activity |-> t.flows[k].activity, dirs |-> D]
  <1>1. u.flows = [j \in DOMAIN t.flows |-> IF j = k THEN F ELSE t.flows[j]] BY DEF Replaces
  <1>2. \A j \in DOMAIN t.flows : IsFlow(t.flows[j]) BY DEF IsTable
  <1>3. D = [x \in {0, 1} |-> D[x]] /\ D[dir] = e
        /\ \A x \in {0, 1} : x # dir => D[x] = t.flows[k].dirs[x]
    OBVIOUS
  <1>4. \A x \in {0, 1} : IsDirection(D[x]) BY <1>2, <1>3 DEF IsFlow
  <1> HIDE DEF D
  <1>5. /\ F = [epoch |-> F.epoch, activity |-> F.activity, dirs |-> F.dirs]
        /\ F.epoch = t.flows[k].epoch /\ F.activity = t.flows[k].activity /\ F.dirs = D
    OBVIOUS
  <1> HIDE DEF F
  <1>6. IsFlow(F)
    <2>1. F.epoch \in Nat /\ F.activity \in Nat BY <1>2, <1>5 DEF IsFlow
    <2> QED BY <1>3, <1>4, <1>5, <2>1 DEF IsFlow
  <1>7. DOMAIN u.flows = DOMAIN t.flows /\ u.flows[k] = F
        /\ \A j \in DOMAIN t.flows : j # k => u.flows[j] = t.flows[j]
    BY <1>1
  <1>8. u.flows = [j \in DOMAIN u.flows |-> u.flows[j]] BY <1>1
  <1>9. \A j \in DOMAIN t.flows : /\ IsFlow(u.flows[j])
                                  /\ u.flows[j].epoch = t.flows[j].epoch
                                  /\ u.flows[j].activity = t.flows[j].activity
    BY <1>2, <1>5, <1>6, <1>7
  <1>10. \A j \in DOMAIN t.flows, x \in {0, 1} :
            j # k \/ x # dir => u.flows[j].dirs[x] = t.flows[j].dirs[x]
    BY <1>3, <1>5, <1>7
  <1>11. u.flows[k].dirs[dir] = e BY <1>3, <1>5, <1>7
  <1> QED BY <1>7, <1>8, <1>9, <1>10, <1>11 DEF Swapped

\* A table has finitely many directions, each with finitely many bytes.
LEMMA PlacesFinite ==
    ASSUME NEW t, IsTable(t), Keys(t)
    PROVE  /\ IsFiniteSet(DOMAIN t.flows) /\ IsFiniteSet(Places(t))
           /\ Natural(Held(t), Places(t)) /\ Natural(Number(t), Places(t))
  <1> DEFINE D == DOMAIN t.flows
  <1>1. Listed(t.order) BY DEF IsTable
  <1>2. Len(t.order) \in Nat /\ DOMAIN t.order = 1 .. Len(t.order) BY <1>1, ListedLength
  <1>3. IsFiniteSet(D)
    <2> DEFINE f == [i \in DOMAIN t.order |-> t.order[i]]
    <2>1. f \in Surjection(DOMAIN t.order, D) BY DEF Surjection, Keys
    <2>2. IsFiniteSet(DOMAIN t.order) BY <1>2, FS_Interval
    <2> HIDE DEF f
    <2> QED BY <2>1, <2>2, FS_Surjection
  <1>4. IsFiniteSet(Places(t))
    <2>1. Places(t) = D \X {0, 1} BY DEF Places
    <2>2. IsFiniteSet({0} \cup {1}) BY FS_Singleton, FS_Union
    <2>3. {0, 1} = {0} \cup {1} OBVIOUS
    <2>4. IsFiniteSet({0, 1}) BY <2>2, <2>3
    <2> QED BY <1>3, <2>1, <2>4, FS_Product
  <1>5. ASSUME NEW kd \in Places(t) PROVE Held(t)[kd] \in Nat /\ Number(t)[kd] \in Nat
    <2>1. PICK k \in D, dir \in {0, 1} : kd = <<k, dir>> BY DEF Places
    <2> DEFINE d == t.flows[k].dirs[dir]
    <2>2. Queue(d.pending) BY DEF IsTable, IsFlow, IsDirection, Waiting
    <2>3. Held(t)[kd] = Bytes(d.pending) /\ Number(t)[kd] = Cardinality(d.pending)
      BY <2>1 DEF Held, Number
    <2> HIDE DEF d
    <2>4. Bytes(d.pending) \in Nat
      <3>1. d.pending \in SUBSET d.pending OBVIOUS
      <3> QED BY <2>2, <3>1, BytesSplit DEF Queue
    <2>5. Cardinality(d.pending) \in Nat BY <2>2, FS_CardinalityType DEF Queue
    <2> QED BY <2>3, <2>4, <2>5
  <1> QED BY <1>3, <1>4, <1>5 DEF Natural

\* What a direction hands out when it becomes e.
Follows(C, k, epoch, dir, d, e) ==
    /\ Listed(C)
    /\ \A i \in DOMAIN C :
          /\ C[i].flow = k /\ C[i].epoch = epoch /\ C[i].dir = dir
          /\ C[i].offset \in Int /\ C[i].start \in Int
          /\ Len(C[i].data) \in Nat /\ Len(C[i].data) > 0
          /\ d.offset <= C[i].offset /\ C[i].offset + Len(C[i].data) <= e.offset
          /\ C[i].start - C[i].offset = d.next - d.offset
          /\ C[i].completeness # "gapped" => ~d.gap /\ C[i].offset = d.offset
          /\ d.next # NoSeq
    /\ \A i, j \in DOMAIN C : i < j => C[i].offset + Len(C[i].data) <= C[j].offset
    /\ d.offset <= e.offset
    /\ d.next # NoSeq => e.next # NoSeq /\ e.next - e.offset = d.next - d.offset
    /\ ~e.gap => ~d.gap /\ e.offset - d.offset = SumFunctionOnSet(LenOf(C), DOMAIN C)

\* u is t after its direction has become e and handed out C.
Changes(u, t, k, dir, e, C) ==
    LET d == t.flows[k].dirs[dir]
    IN  /\ Replaces(u, t, k, dir, e) /\ IsDirection(e)
        /\ u.buffered = t.buffered + Bytes(e.pending) - Bytes(d.pending)
        /\ u.segments = t.segments + Cardinality(e.pending) - Cardinality(d.pending)
        /\ IsStats(u.stats)
        /\ u.out = t.out \o C
        /\ Follows(C, k, t.flows[k].epoch, dir, d, e)

\* The queue of a direction has a number of bytes and of segments.
LEMMA QueueCounts ==
    ASSUME NEW d, IsDirection(d)
    PROVE  Bytes(d.pending) \in Nat /\ Cardinality(d.pending) \in Nat /\ IsFiniteSet(d.pending)
  <1>1. Queue(d.pending) BY DEF IsDirection, Waiting
  <1>2. d.pending \in SUBSET d.pending OBVIOUS
  <1>3. Bytes(d.pending) \in Nat BY <1>1, <1>2, BytesSplit DEF Queue
  <1>4. Cardinality(d.pending) \in Nat BY <1>1, FS_CardinalityType DEF Queue
  <1> QED BY <1>1, <1>3, <1>4 DEF Queue

\* The shape of the table stays, and so do its keys, times and epochs.
LEMMA ChangeTable ==
    ASSUME NEW t, NEW now, Core(t, now), NEW k \in DOMAIN t.flows, NEW dir \in {0, 1},
           NEW e, NEW C, NEW u, Changes(u, t, k, dir, e, C)
    PROVE  IsTable(u) /\ Keys(u) /\ Timed(u, now) /\ Epochs(u)
  <1>1. /\ Replaces(u, t, k, dir, e) /\ IsDirection(e) /\ IsTable(t) /\ Keys(t)
        /\ Timed(t, now) /\ Epochs(t)
    BY DEF Changes, Core
  <1>2. /\ DOMAIN u.flows = DOMAIN t.flows
        /\ u.flows = [j \in DOMAIN u.flows |-> u.flows[j]]
        /\ \A j \in DOMAIN t.flows : /\ IsFlow(u.flows[j])
                                     /\ u.flows[j].epoch = t.flows[j].epoch
                                     /\ u.flows[j].activity = t.flows[j].activity
    <2>1. Swapped(u, t, k, dir, e) BY <1>1, ReplacedFlows
    <2> QED BY <2>1 DEF Swapped
  <1>3. Record(u) /\ u.order = t.order /\ u.nextEpoch = t.nextEpoch BY <1>1 DEF Replaces
  <1>4. Listed(u.out)
    <2>1. Listed(t.out) /\ Listed(C) /\ u.out = t.out \o C
      BY <1>1 DEF IsTable, Changes, Follows
    <2> QED BY <2>1, ListedConcat
  <1>5. u.buffered \in Int /\ u.segments \in Int
    <2> DEFINE d == t.flows[k].dirs[dir]
    <2>1. IsDirection(d) BY <1>1 DEF IsTable, IsFlow
    <2>2. /\ u.buffered = t.buffered + Bytes(e.pending) - Bytes(d.pending)
          /\ u.segments = t.segments + Cardinality(e.pending) - Cardinality(d.pending)
      BY DEF Changes
    <2>3. t.buffered \in Int /\ t.segments \in Int BY <1>1 DEF IsTable
    <2> HIDE DEF d
    <2>4. Bytes(d.pending) \in Nat /\ Cardinality(d.pending) \in Nat BY <2>1, QueueCounts
    <2>5. Bytes(e.pending) \in Nat /\ Cardinality(e.pending) \in Nat BY <1>1, QueueCounts
    <2> QED BY <2>2, <2>3, <2>4, <2>5
  <1>6. IsTable(u)
    <2>1. Listed(u.order) /\ u.nextEpoch \in Nat BY <1>1, <1>3 DEF IsTable
    <2>2. IsStats(u.stats) BY DEF Changes
    <2> QED BY <1>2, <1>3, <1>4, <1>5, <2>1, <2>2 DEF IsTable
  <1>7. Keys(u) BY <1>1, <1>2, <1>3 DEF Keys
  <1>8. Timed(u, now) BY <1>1, <1>2, <1>3 DEF Timed, Keys
  <1>9. Epochs(u) BY <1>1, <1>2, <1>3 DEF Epochs
  <1> QED BY <1>6, <1>7, <1>8, <1>9

\* The counters stay the queued bytes and segments.
LEMMA ChangeCounted ==
    ASSUME NEW t, NEW now, Core(t, now), NEW k \in DOMAIN t.flows, NEW dir \in {0, 1},
           NEW e, NEW C, NEW u, Changes(u, t, k, dir, e, C)
    PROVE  Counted(u)
  <1>1. IsTable(t) /\ Keys(t) /\ Counted(t) BY DEF Core
  <1>2. Replaces(u, t, k, dir, e) /\ IsDirection(e) BY DEF Changes
  <1>3. /\ DOMAIN u.flows = DOMAIN t.flows
        /\ \A j \in DOMAIN t.flows, y \in {0, 1} :
              j # k \/ y # dir => u.flows[j].dirs[y] = t.flows[j].dirs[y]
        /\ u.flows[k].dirs[dir] = e
    <2>1. Swapped(u, t, k, dir, e) BY <1>1, <1>2, ReplacedFlows
    <2> QED BY <2>1 DEF Swapped
  <1> DEFINE d == t.flows[k].dirs[dir]
             S == Places(t)
             x == <<k, dir>>
  <1>4. Places(u) = S /\ x \in S BY <1>3 DEF Places
  <1>5. IsFiniteSet(S) /\ Natural(Held(t), S) /\ Natural(Number(t), S) BY <1>1, PlacesFinite
  <1>6. Integral(Held(t), S) /\ Integral(Number(t), S) BY <1>5 DEF Natural, Integral
  <1>7. /\ Held(t)[x] = Bytes(d.pending) /\ Held(u)[x] = Bytes(e.pending)
        /\ Number(t)[x] = Cardinality(d.pending) /\ Number(u)[x] = Cardinality(e.pending)
    BY <1>3, <1>4 DEF Held, Number
  <1>8. ASSUME NEW y \in S \ {x} PROVE Held(u)[y] = Held(t)[y] /\ Number(u)[y] = Number(t)[y]
    <2>1. PICK j \in DOMAIN t.flows, z \in {0, 1} : y = <<j, z>> BY DEF Places
    <2>2. j # k \/ z # dir BY <2>1
    <2>3. u.flows[j].dirs[z] = t.flows[j].dirs[z] BY <1>3, <2>2
    <2> QED BY <1>4, <2>1, <2>3 DEF Held, Number
  <1>9. Bytes(e.pending) \in Nat /\ Cardinality(e.pending) \in Nat BY <1>2, QueueCounts
  <1>10. /\ u.buffered = t.buffered + Bytes(e.pending) - Bytes(d.pending)
        /\ u.segments = t.segments + Cardinality(e.pending) - Cardinality(d.pending)
    BY DEF Changes
  <1>11. /\ t.buffered = SumFunctionOnSet(Held(t), S)
         /\ t.segments = SumFunctionOnSet(Number(t), S)
    BY <1>1 DEF Counted
  <1>12. Bytes(d.pending) \in Nat /\ Cardinality(d.pending) \in Nat
         /\ t.buffered \in Int /\ t.segments \in Int
    <2>1. IsDirection(d) BY <1>1 DEF IsTable, IsFlow
    <2>2. t.buffered \in Int /\ t.segments \in Int BY <1>1 DEF IsTable
    <2> HIDE DEF d
    <2> QED BY <2>1, <2>2, QueueCounts
  <1> HIDE DEF d, S, x
  <1>13. SumFunctionOnSet(Held(u), S) = SumFunctionOnSet(Held(t), S) - Held(t)[x] + Held(u)[x]
    <2>1. Held(u)[x] \in Int /\ \A y \in S \ {x} : Held(u)[y] = Held(t)[y] BY <1>7, <1>8, <1>9
    <2> QED BY <1>4, <1>6, <2>1, SumUpdate
  <1>14. SumFunctionOnSet(Number(u), S)
           = SumFunctionOnSet(Number(t), S) - Number(t)[x] + Number(u)[x]
    <2>1. Number(u)[x] \in Int /\ \A y \in S \ {x} : Number(u)[y] = Number(t)[y]
      BY <1>7, <1>8, <1>9
    <2> QED BY <1>4, <1>6, <2>1, SumUpdate
  <1>15. u.buffered = SumFunctionOnSet(Held(u), S) BY <1>7, <1>9, <1>10, <1>11, <1>12, <1>13
  <1>16. u.segments = SumFunctionOnSet(Number(u), S) BY <1>7, <1>9, <1>10, <1>11, <1>12, <1>14
  <1> QED BY <1>4, <1>15, <1>16 DEF Counted

\* Where the chunks of an extended output come from.
Extended(v, s, C) ==
    /\ v = s \o C /\ Sized(s) /\ Sized(C)
    /\ Len(s) \in Nat /\ Len(C) \in Nat /\ Len(v) = Len(s) + Len(C)
    /\ DOMAIN s = 1 .. Len(s) /\ DOMAIN C = 1 .. Len(C) /\ DOMAIN v = 1 .. Len(s) + Len(C)
    /\ \A i \in DOMAIN s : v[i] = s[i]
    /\ \A i \in DOMAIN C : v[Len(s) + i] = C[i]
    /\ \A j \in DOMAIN v : j \in DOMAIN s \/ \E i \in DOMAIN C : j = Len(s) + i

\* The output of a change is an extended one.
LEMMA ChangedOut ==
    ASSUME NEW t, NEW now, Core(t, now), NEW k \in DOMAIN t.flows, NEW dir \in {0, 1},
           NEW e, NEW C, NEW u, Changes(u, t, k, dir, e, C)
    PROVE  Extended(u.out, t.out, C)
  <1>1. Listed(t.out) /\ Listed(C) /\ u.out = t.out \o C /\ Labelled(t)
        /\ \A i \in DOMAIN C : Len(C[i].data) \in Nat
    BY DEF Core, IsTable, Changes, Follows
  <1>2. Sized(t.out) /\ Sized(C) BY <1>1 DEF Sized, Labelled
  <1>3. /\ Len(t.out) \in Nat /\ Len(C) \in Nat
        /\ DOMAIN t.out = 1 .. Len(t.out) /\ DOMAIN C = 1 .. Len(C)
    BY <1>1, ListedLength
  <1>4. /\ Listed(u.out) /\ Len(u.out) = Len(t.out) + Len(C)
        /\ \A i \in 1 .. Len(t.out) : u.out[i] = t.out[i]
        /\ \A i \in 1 .. Len(C) : u.out[Len(t.out) + i] = C[i]
    BY <1>1, ListedConcat
  <1>5. DOMAIN u.out = 1 .. Len(t.out) + Len(C) BY <1>4, ListedLength
  <1>6. ASSUME NEW j \in 1 .. Len(t.out) + Len(C), ~(j <= Len(t.out))
        PROVE  \E i \in 1 .. Len(C) : j = Len(t.out) + i
    <2>1. j - Len(t.out) \in 1 .. Len(C) /\ j = Len(t.out) + (j - Len(t.out)) BY <1>3, <1>6
    <2> QED BY <2>1
  <1>7. \A j \in 1 .. Len(t.out) + Len(C) : j <= Len(t.out) => j \in 1 .. Len(t.out) BY <1>3
  <1> QED BY <1>1, <1>2, <1>3, <1>4, <1>5, <1>6, <1>7 DEF Extended

\* The chunks stay labelled, in order, and behind the direction they belong to.
LEMMA ChangeChunks ==
    ASSUME NEW t, NEW now, Core(t, now), NEW k \in DOMAIN t.flows, NEW dir \in {0, 1},
           NEW e, NEW C, NEW u, Changes(u, t, k, dir, e, C)
    PROVE  Labelled(u) /\ InOrder(u) /\ Behind(u)
  <1> DEFINE d == t.flows[k].dirs[dir]
             m == Len(t.out)
             epoch == t.flows[k].epoch
  <1>1. IsTable(t) /\ Epochs(t) /\ Labelled(t) /\ InOrder(t) /\ Behind(t) BY DEF Core
  <1>2. Replaces(u, t, k, dir, e) /\ IsDirection(e) /\ Follows(C, k, epoch, dir, d, e)
    BY DEF Changes
  <1>3. Swapped(u, t, k, dir, e) BY <1>1, <1>2, ReplacedFlows
  <1>4. Extended(u.out, t.out, C) BY ChangedOut
  <1>5. u.nextEpoch = t.nextEpoch BY <1>2 DEF Replaces
  <1>6. /\ epoch \in Nat /\ epoch < t.nextEpoch /\ d.offset \in Int /\ d.next \in Int
        /\ t.nextEpoch \in Nat
    BY <1>1 DEF IsTable, IsFlow, Epochs, IsDirection, Waiting
  <1>7. e.offset \in Int /\ e.next \in Int BY <1>2 DEF IsDirection, Waiting
  <1>8. ASSUME NEW i \in DOMAIN C
        PROVE  /\ C[i].flow = k /\ C[i].epoch = epoch /\ C[i].dir = dir
               /\ C[i].offset \in Int /\ C[i].start \in Int /\ Len(C[i].data) \in Nat
               /\ d.offset <= C[i].offset /\ C[i].offset + Len(C[i].data) <= e.offset
               /\ C[i].start - C[i].offset = d.next - d.offset
               /\ d.next # NoSeq
    BY <1>2 DEF Follows
  <1>9. /\ d.next # NoSeq => e.next # NoSeq /\ e.next - e.offset = d.next - d.offset
        /\ d.offset <= e.offset
    BY <1>2 DEF Follows
  <1>10. \A i, j \in DOMAIN C : i < j => C[i].offset + Len(C[i].data) <= C[j].offset
    BY <1>2 DEF Follows
  <1>11. /\ m \in Nat /\ DOMAIN t.out = 1 .. m /\ DOMAIN C = 1 .. Len(C) /\ Len(C) \in Nat
         /\ \A i \in DOMAIN t.out : u.out[i] = t.out[i]
         /\ \A i \in DOMAIN C : u.out[m + i] = C[i]
         /\ \A j \in DOMAIN u.out : j \in DOMAIN t.out \/ \E i \in DOMAIN C : j = m + i
    BY <1>4 DEF Extended
  <1> HIDE DEF m, d, epoch
  <1>12. Labelled(u)
    <2> SUFFICES ASSUME NEW j \in DOMAIN u.out
                 PROVE  /\ u.out[j].epoch \in Nat /\ u.out[j].epoch < u.nextEpoch
                        /\ u.out[j].offset \in Int /\ u.out[j].start \in Int
                        /\ Len(u.out[j].data) \in Nat
      BY DEF Labelled
    <2>1. CASE j \in DOMAIN t.out
      <3>1. u.out[j] = t.out[j] BY <1>11, <2>1
      <3> QED BY <1>1, <1>5, <2>1, <3>1 DEF Labelled
    <2>2. ASSUME NEW i \in DOMAIN C, j = m + i
          PROVE  /\ u.out[j].epoch \in Nat /\ u.out[j].epoch < u.nextEpoch
                 /\ u.out[j].offset \in Int /\ u.out[j].start \in Int
                 /\ Len(u.out[j].data) \in Nat
      <3>1. u.out[j] = C[i] BY <1>11, <2>2
      <3> QED BY <1>5, <1>6, <1>8, <3>1
    <2> QED BY <1>11, <2>1, <2>2
  <1>13. \A i \in DOMAIN t.out : t.out[i].offset \in Int /\ t.out[i].start \in Int
                                 /\ Len(t.out[i].data) \in Nat
    BY <1>1 DEF Labelled
  <1>14. ASSUME NEW i \in DOMAIN t.out, t.out[i].epoch = epoch, t.out[i].dir = dir
         PROVE  /\ t.out[i].flow = k /\ d.next # NoSeq
                /\ t.out[i].offset + Len(t.out[i].data) <= d.offset
                /\ t.out[i].start - t.out[i].offset = d.next - d.offset
    BY <1>1, <1>14 DEF Behind, d, epoch
  <1>15. InOrder(u)
    <2> SUFFICES ASSUME NEW i \in DOMAIN u.out, NEW j \in DOMAIN u.out, i < j,
                        u.out[i].epoch = u.out[j].epoch, u.out[i].dir = u.out[j].dir
                 PROVE  /\ u.out[i].flow = u.out[j].flow
                        /\ u.out[i].offset + Len(u.out[i].data) <= u.out[j].offset
                        /\ u.out[i].start - u.out[i].offset = u.out[j].start - u.out[j].offset
      BY DEF InOrder
    <2> DEFINE Goal == /\ u.out[i].flow = u.out[j].flow
                       /\ u.out[i].offset + Len(u.out[i].data) <= u.out[j].offset
                       /\ u.out[i].start - u.out[i].offset = u.out[j].start - u.out[j].offset
    <2>1. CASE i \in DOMAIN t.out /\ j \in DOMAIN t.out
      <3>1. u.out[i] = t.out[i] /\ u.out[j] = t.out[j] BY <1>11, <2>1
      <3> QED BY <1>1, <2>1, <3>1 DEF InOrder
    <2>2. ASSUME i \in DOMAIN t.out, NEW y \in DOMAIN C, j = m + y PROVE Goal
      <3>1. u.out[i] = t.out[i] /\ u.out[j] = C[y] BY <1>11, <2>2
      <3>2. t.out[i].epoch = epoch /\ t.out[i].dir = dir BY <1>8, <3>1
      <3>3. /\ t.out[i].flow = k
            /\ t.out[i].offset + Len(t.out[i].data) <= d.offset
            /\ t.out[i].start - t.out[i].offset = d.next - d.offset
        BY <1>14, <2>2, <3>2
      <3>4. /\ C[y].flow = k /\ C[y].offset \in Int /\ d.offset <= C[y].offset
            /\ C[y].start - C[y].offset = d.next - d.offset
        BY <1>8
      <3>5. t.out[i].offset \in Int /\ Len(t.out[i].data) \in Nat BY <1>13, <2>2
      <3>6. t.out[i].offset + Len(t.out[i].data) <= C[y].offset BY <1>6, <3>3, <3>4, <3>5
      <3> QED BY <3>1, <3>3, <3>4, <3>6
    <2>3. ASSUME NEW x \in DOMAIN C, i = m + x, NEW y \in DOMAIN C, j = m + y PROVE Goal
      <3>1. u.out[i] = C[x] /\ u.out[j] = C[y] BY <1>11, <2>3
      <3>2. x < y BY <1>11, <2>3
      <3>3. C[x].offset + Len(C[x].data) <= C[y].offset BY <1>10, <3>2
      <3>4. C[x].flow = k /\ C[y].flow = k /\ C[x].start - C[x].offset = C[y].start - C[y].offset
        BY <1>8
      <3> QED BY <3>1, <3>3, <3>4
    <2>4. ASSUME NEW x \in DOMAIN C, i = m + x PROVE j \notin DOMAIN t.out
      BY <1>11, <2>4
    <2> QED BY <1>11, <2>1, <2>2, <2>3, <2>4
  <1>16. Behind(u)
    <2> SUFFICES ASSUME NEW j \in DOMAIN u.flows, NEW x \in {0, 1}, NEW i \in DOMAIN u.out,
                        u.out[i].epoch = u.flows[j].epoch, u.out[i].dir = x
                 PROVE  /\ u.out[i].flow = j /\ u.flows[j].dirs[x].next # NoSeq
                        /\ u.out[i].offset + Len(u.out[i].data) <= u.flows[j].dirs[x].offset
                        /\ u.out[i].start - u.out[i].offset
                             = u.flows[j].dirs[x].next - u.flows[j].dirs[x].offset
      BY DEF Behind
    <2> DEFINE Goal == /\ u.out[i].flow = j /\ u.flows[j].dirs[x].next # NoSeq
                       /\ u.out[i].offset + Len(u.out[i].data) <= u.flows[j].dirs[x].offset
                       /\ u.out[i].start - u.out[i].offset
                            = u.flows[j].dirs[x].next - u.flows[j].dirs[x].offset
    <2>1. j \in DOMAIN t.flows /\ u.flows[j].epoch = t.flows[j].epoch BY <1>3 DEF Swapped
    <2>2. CASE j = k /\ x = dir
      <3>1. u.flows[j].dirs[x] = e BY <1>3, <2>2 DEF Swapped
      <3>2. u.out[i].epoch = epoch /\ u.out[i].dir = dir BY <2>1, <2>2 DEF epoch
      <3>3. CASE i \in DOMAIN t.out
        <4>1. u.out[i] = t.out[i] BY <1>11, <3>3
        <4>2. /\ t.out[i].flow = k /\ d.next # NoSeq
              /\ t.out[i].offset + Len(t.out[i].data) <= d.offset
              /\ t.out[i].start - t.out[i].offset = d.next - d.offset
          BY <1>14, <3>2, <3>3, <4>1
        <4>3. t.out[i].offset \in Int /\ Len(t.out[i].data) \in Nat BY <1>13, <3>3
        <4>4. t.out[i].offset + Len(t.out[i].data) <= e.offset BY <1>6, <1>7, <1>9, <4>2, <4>3
        <4> QED BY <1>9, <2>2, <3>1, <4>1, <4>2, <4>4
      <3>4. ASSUME NEW y \in DOMAIN C, i = m + y PROVE Goal
        <4>1. u.out[i] = C[y] BY <1>11, <3>4
        <4> QED BY <1>8, <1>9, <2>2, <3>1, <4>1
      <3> QED BY <1>11, <3>3, <3>4
    <2>3. CASE ~(j = k /\ x = dir)
      <3>1. u.flows[j].dirs[x] = t.flows[j].dirs[x] BY <1>3, <2>1, <2>3 DEF Swapped
      <3>2. CASE i \in DOMAIN t.out
        <4>1. u.out[i] = t.out[i] BY <1>11, <3>2
        <4> QED BY <1>1, <2>1, <3>1, <3>2, <4>1 DEF Behind
      <3>3. ASSUME NEW y \in DOMAIN C, i = m + y PROVE FALSE
        <4>1. u.out[i] = C[y] BY <1>11, <3>3
        <4>2. t.flows[j].epoch = epoch /\ x = dir BY <1>8, <2>1, <4>1
        <4>3. j = k BY <1>1, <2>1, <4>2 DEF Epochs, epoch
        <4> QED BY <2>3, <4>2, <4>3
      <3> QED BY <1>11, <3>2, <3>3
    <2> QED BY <2>2, <2>3
  <1> QED BY <1>12, <1>15, <1>16

\* What is not marked still follows on all that came before.
LEMMA ChangeJoined ==
    ASSUME NEW t, NEW now, Core(t, now), NEW k \in DOMAIN t.flows, NEW dir \in {0, 1},
           NEW e, NEW C, NEW u, Changes(u, t, k, dir, e, C)
    PROVE  Joined(u)
  <1> DEFINE d == t.flows[k].dirs[dir]
             m == Len(t.out)
             n == Len(C)
             epoch == t.flows[k].epoch
  <1>1. IsTable(t) /\ Epochs(t) /\ Labelled(t) /\ Joined(t) BY DEF Core
  <1>2. Replaces(u, t, k, dir, e) /\ IsDirection(e) /\ Follows(C, k, epoch, dir, d, e)
    BY DEF Changes
  <1>3. Swapped(u, t, k, dir, e) BY <1>1, <1>2, ReplacedFlows
  <1>4. Extended(u.out, t.out, C) BY ChangedOut
  <1>5. d.offset \in Int /\ e.offset \in Int BY <1>1, <1>2 DEF IsTable, IsFlow, IsDirection
  <1>6. ASSUME NEW i \in DOMAIN C
        PROVE  /\ C[i].epoch = epoch /\ C[i].dir = dir
               /\ C[i].offset \in Int /\ Len(C[i].data) \in Nat /\ Len(C[i].data) > 0
               /\ d.offset <= C[i].offset
               /\ C[i].completeness # "gapped" => ~d.gap /\ C[i].offset = d.offset
    BY <1>2 DEF Follows
  <1>7. \A i, j \in DOMAIN C : i < j => C[i].offset + Len(C[i].data) <= C[j].offset
    BY <1>2 DEF Follows
  <1>8. ~e.gap => ~d.gap /\ e.offset - d.offset = SumFunctionOnSet(LenOf(C), DOMAIN C)
    BY <1>2 DEF Follows
  <1>9. /\ u.out = t.out \o C /\ Sized(t.out) /\ Sized(C)
        /\ m \in Nat /\ n \in Nat /\ Len(u.out) = m + n
        /\ DOMAIN t.out = 1 .. m /\ DOMAIN C = 1 .. n
        /\ \A i \in DOMAIN t.out : u.out[i] = t.out[i]
        /\ \A i \in DOMAIN C : u.out[m + i] = C[i]
        /\ \A j \in DOMAIN u.out : j \in DOMAIN t.out \/ \E i \in DOMAIN C : j = m + i
    BY <1>4 DEF Extended
  <1>10. ~d.gap => d.offset = Total(t.out, epoch, dir, m) BY <1>1 DEF Joined
  <1>11. \A ep, dr : \A j \in 0 .. n :
            /\ Total(u.out, ep, dr, m + j) = Total(t.out, ep, dr, m) + Total(C, ep, dr, j)
            /\ Total(t.out, ep, dr, m) \in Nat
    <2> SUFFICES ASSUME NEW ep, NEW dr, NEW j \in 0 .. n
                 PROVE  /\ Total(u.out, ep, dr, m + j)
                             = Total(t.out, ep, dr, m) + Total(C, ep, dr, j)
                        /\ Total(t.out, ep, dr, m) \in Nat
      OBVIOUS
    <2>1. j \in 0 .. Len(C) OBVIOUS
    <2>2. Total(t.out \o C, ep, dr, Len(t.out) + j)
            = Total(t.out, ep, dr, Len(t.out)) + Total(C, ep, dr, j)
      BY <1>9, <2>1, TotalConcat
    <2>3. Total(t.out, ep, dr, Len(t.out)) \in Nat BY <1>9, <2>1, TotalConcat
    <2> QED BY <1>9, <2>2, <2>3
  <1> HIDE DEF d, m, n, epoch
  <1>12. ASSUME NEW j \in DOMAIN u.out, u.out[j].completeness # "gapped"
         PROVE  u.out[j].offset = Total(u.out, u.out[j].epoch, u.out[j].dir, j - 1)
    <2>1. CASE j \in DOMAIN t.out
      <3>1. u.out[j] = t.out[j] BY <1>9, <2>1
      <3>2. t.out[j].offset = Total(t.out, t.out[j].epoch, t.out[j].dir, j - 1)
        BY <1>1, <1>12, <2>1, <3>1 DEF Joined
      <3>3. j - 1 \in 0 .. Len(t.out) BY <1>9, <2>1 DEF m
      <3>4. \A ep, dr : Total(t.out \o C, ep, dr, j - 1) = Total(t.out, ep, dr, j - 1)
        BY <1>9, <3>3, TotalPrefix
      <3> QED BY <1>9, <3>1, <3>2, <3>4
    <2>2. ASSUME NEW i \in DOMAIN C, j = m + i
          PROVE  u.out[j].offset = Total(u.out, u.out[j].epoch, u.out[j].dir, j - 1)
      <3>1. u.out[j] = C[i] BY <1>9, <2>2
      <3>2. ~d.gap /\ C[i].offset = d.offset /\ C[i].epoch = epoch /\ C[i].dir = dir
        BY <1>6, <1>12, <3>1
      <3>3. i = 1
        <4> SUFFICES ASSUME i # 1 PROVE FALSE OBVIOUS
        <4>1. 1 \in DOMAIN C /\ 1 < i BY <1>9
        <4>2. C[1].offset + Len(C[1].data) <= C[i].offset BY <1>7, <4>1
        <4>3. /\ C[1].offset \in Int /\ Len(C[1].data) \in Nat /\ Len(C[1].data) > 0
              /\ d.offset <= C[1].offset
          BY <1>6, <4>1
        <4> QED BY <1>5, <3>2, <4>2, <4>3
      <3>4. j - 1 = m + 0 /\ 0 \in 0 .. n BY <1>9, <2>2, <3>3
      <3>5. Total(C, epoch, dir, 0) = 0
        <4>1. \A q \in 1 .. 0 : C[q].epoch # epoch \/ C[q].dir # dir OBVIOUS
        <4> QED BY <4>1, TotalExtreme
      <3>6. Total(u.out, epoch, dir, m + 0) = d.offset BY <1>10, <1>11, <3>2, <3>4, <3>5
      <3> QED BY <3>1, <3>2, <3>4, <3>6
    <2> QED BY <1>9, <2>1, <2>2
  <1>13. ASSUME NEW j \in DOMAIN u.flows, NEW x \in {0, 1}, ~u.flows[j].dirs[x].gap
         PROVE  u.flows[j].dirs[x].offset = Total(u.out, u.flows[j].epoch, x, Len(u.out))
    <2>1. j \in DOMAIN t.flows /\ u.flows[j].epoch = t.flows[j].epoch BY <1>3 DEF Swapped
    <2>2. n \in 0 .. n BY <1>9
    <2>3. CASE j = k /\ x = dir
      <3>1. u.flows[j].dirs[x] = e BY <1>3, <2>3 DEF Swapped
      <3>2. ~d.gap /\ e.offset - d.offset = SumFunctionOnSet(LenOf(C), 1 .. n)
        BY <1>8, <1>9, <1>13, <3>1
      <3>3. Total(C, epoch, dir, n) = SumFunctionOnSet(LenOf(C), 1 .. n)
        <4>1. \A i \in 1 .. n : C[i].epoch = epoch /\ C[i].dir = dir BY <1>6, <1>9
        <4> QED BY <1>9, <4>1, TotalExtreme
      <3>4. Total(u.out, epoch, dir, m + n) = d.offset + Total(C, epoch, dir, n)
        BY <1>10, <1>11, <2>2, <3>2
      <3>5. e.offset = d.offset + Total(C, epoch, dir, n) BY <1>5, <3>2, <3>3
      <3> QED BY <1>9, <2>1, <2>3, <3>1, <3>4, <3>5 DEF epoch
    <2>4. CASE ~(j = k /\ x = dir)
      <3> DEFINE ep == t.flows[j].epoch
      <3>1. u.flows[j].dirs[x] = t.flows[j].dirs[x] BY <1>3, <2>1, <2>4 DEF Swapped
      <3>2. t.flows[j].dirs[x].offset = Total(t.out, ep, x, m)
        BY <1>1, <1>13, <2>1, <3>1 DEF Joined, m
      <3>3. ep = epoch => j = k BY <1>1, <2>1 DEF Epochs, epoch
      <3> HIDE DEF ep
      <3>4. Total(C, ep, x, n) = 0
        <4>1. \A i \in 1 .. n : C[i].epoch # ep \/ C[i].dir # x BY <1>6, <1>9, <2>4, <3>3
        <4> QED BY <1>9, <4>1, TotalExtreme
      <3>5. /\ Total(u.out, ep, x, m + n) = Total(t.out, ep, x, m) + Total(C, ep, x, n)
            /\ Total(t.out, ep, x, m) \in Nat
        BY <1>11, <2>2
      <3>6. Total(u.out, ep, x, m + n) = Total(t.out, ep, x, m) BY <3>4, <3>5
      <3> QED BY <1>9, <2>1, <3>1, <3>2, <3>6 DEF ep
    <2> QED BY <2>3, <2>4
  <1> QED BY <1>12, <1>13 DEF Joined

\* A change keeps what holds between stages.
LEMMA ChangeCore ==
    ASSUME NEW t, NEW now, Core(t, now), NEW k \in DOMAIN t.flows, NEW dir \in {0, 1},
           NEW e, NEW C, NEW u, Changes(u, t, k, dir, e, C)
    PROVE  Core(u, now) /\ Swapped(u, t, k, dir, e) /\ u.order = t.order
  <1>1. IsTable(u) /\ Keys(u) /\ Timed(u, now) /\ Epochs(u) BY ChangeTable
  <1>2. Counted(u) BY ChangeCounted
  <1>3. Labelled(u) /\ InOrder(u) /\ Behind(u) BY ChangeChunks
  <1>4. Joined(u) BY ChangeJoined
  <1>5. IsTable(t) /\ IsDirection(e) /\ Replaces(u, t, k, dir, e) BY DEF Core, Changes
  <1>6. Swapped(u, t, k, dir, e) BY <1>5, ReplacedFlows
  <1> QED BY <1>1, <1>2, <1>3, <1>4, <1>5, <1>6 DEF Core, Replaces

-----------------------------------------------------------------------------
(***************************************************************************)
(* Handing out                                                             *)
(***************************************************************************)

\* No position is none.
LEMMA NoSeqNegative == NoSeq \in Int /\ NoSeq < 0
  BY TcpStreamAssumption DEF NoSeq

\* A direction after an advance: what remains of its queue waits beyond it.
LEMMA AdvanceDirection ==
    ASSUME NEW d, IsDirection(d), d.next # NoSeq, NEW stop, GoodStop(d, stop)
    PROVE  LET e == Advance(d, stop)
           IN  /\ IsDirection(e)
               /\ e.next = stop /\ e.offset = d.offset + stop - d.next
               /\ e.gap = (d.gap \/ Cardinality(Fresh(d, stop)) < stop - d.next)
               /\ e.pending = d.pending \ Gone(d, stop)
               /\ \A s \in e.pending : e.next < s.start
               /\ e.next # NoSeq
               /\ e.closed = d.closed
  <1> DEFINE e == Advance(d, stop)
  <1>1. d = [next |-> d.next, offset |-> d.offset, midstream |-> d.midstream, gap |-> d.gap,
             syn |-> d.syn, pending |-> d.pending, pendingBytes |-> d.pendingBytes,
             history |-> d.history, acked |-> d.acked, closed |-> d.closed]
    BY DEF IsDirection
  <1>2. DOMAIN e = DOMAIN d /\ e = [x \in DOMAIN e |-> e[x]] BY DEF Advance
  <1>3. /\ e.next = stop /\ e.offset = d.offset + stop - d.next
        /\ e.pending = d.pending \ Gone(d, stop)
        /\ e.pendingBytes = d.pendingBytes - Bytes(Gone(d, stop))
        /\ e.closed = d.closed
    <2>1. e.next = stop BY <1>1 DEF Advance
    <2>2. e.offset = d.offset + stop - d.next BY <1>1 DEF Advance
    <2>3. e.pending = d.pending \ Gone(d, stop) BY <1>1 DEF Advance
    <2>4. e.pendingBytes = d.pendingBytes - Bytes(Gone(d, stop)) BY <1>1 DEF Advance
    <2>5. e.closed = d.closed BY <1>1 DEF Advance
    <2> QED BY <2>1, <2>2, <2>3, <2>4, <2>5
  <1>4. e.gap = (d.gap \/ Cardinality(Fresh(d, stop)) < stop - d.next) BY <1>1 DEF Advance
  <1>5. e = [next |-> e.next, offset |-> e.offset, midstream |-> e.midstream, gap |-> e.gap,
             syn |-> e.syn, pending |-> e.pending, pendingBytes |-> e.pendingBytes,
             history |-> e.history, acked |-> e.acked, closed |-> e.closed]
    <2>1. DOMAIN d = {"next", "offset", "midstream", "gap", "syn", "pending", "pendingBytes",
                      "history", "acked", "closed"}
      BY <1>1
    <2> HIDE DEF e
    <2> QED BY <1>2, <2>1
  <1> HIDE DEF e
  <1>6. Waiting(d) /\ d.offset \in Int /\ d.gap \in BOOLEAN BY DEF IsDirection
  <1>7. /\ Queue(d.pending) /\ d.next \in Int /\ d.next >= 0
        /\ d.pendingBytes = Bytes(d.pending)
    BY <1>6 DEF Waiting
  <1>8. stop \in Int /\ d.next <= stop BY DEF GoodStop
  <1>9. /\ Gone(d, stop) \subseteq d.pending
        /\ \A s \in d.pending \ Gone(d, stop) : stop < s.start
    BY <1>6, StopParts
  <1>10. Queue(e.pending)
    <2>1. d.pending \ Gone(d, stop) \in SUBSET d.pending OBVIOUS
    <2> QED BY <1>3, <1>7, <2>1, QueuePart
  <1>11. e.pendingBytes = Bytes(e.pending)
    <2>1. Gone(d, stop) \in SUBSET d.pending BY <1>9
    <2>2. /\ Bytes(d.pending) \in Nat /\ Bytes(Gone(d, stop)) \in Nat
          /\ Bytes(d.pending \ Gone(d, stop)) \in Nat
          /\ Bytes(d.pending) = Bytes(Gone(d, stop)) + Bytes(d.pending \ Gone(d, stop))
      BY <1>7, <2>1, BytesSplit DEF Queue
    <2> QED BY <1>3, <1>7, <2>2
  <1>12. \A s \in e.pending : e.next < s.start BY <1>3, <1>9
  <1>13. \A s \in e.pending : s.start \in Int BY <1>10, SegmentFields DEF Queue
  <1>14. e.next \in Int /\ e.next >= 0 /\ e.next # NoSeq BY <1>3, <1>7, <1>8, NoSeqNegative
  <1>15. \A s \in e.pending : e.next # NoSeq /\ e.next <= s.start BY <1>12, <1>13, <1>14
  <1>16. Waiting(e) BY <1>10, <1>11, <1>14, <1>15 DEF Waiting
  <1>17. e.offset \in Int BY <1>3, <1>6, <1>7, <1>8
  <1>18. e.gap \in BOOLEAN BY <1>4
  <1>19. IsDirection(e) BY <1>5, <1>16, <1>17, <1>18 DEF IsDirection
  <1> QED BY <1>3, <1>4, <1>12, <1>14, <1>19 DEF e

\* They follow on what the direction handed out before.
LEMMA HandedFollows ==
    ASSUME NEW d, IsDirection(d), d.next # NoSeq, NEW stop, GoodStop(d, stop),
           NEW k, NEW epoch, NEW dir
    PROVE  LET C == Handed(k, epoch, dir, Chunks(d, stop))
           IN  /\ Follows(C, k, epoch, dir, d, Advance(d, stop))
               /\ SumFunctionOnSet(LenOf(C), DOMAIN C) = Cardinality(Fresh(d, stop))
               /\ Cardinality(Fresh(d, stop)) \in Nat
  <1> DEFINE B == Chunks(d, stop)
             C == Handed(k, epoch, dir, B)
             R == RunStarts(d, stop)
             n == Cardinality(R)
             a == Ascending(R)
             e == Advance(d, stop)
  <1>1. Waiting(d) /\ d.offset \in Int BY DEF IsDirection
  <1>2. d.next \in Int /\ stop \in Int /\ d.next <= stop BY <1>1 DEF Waiting, GoodStop
  <1>3. /\ n \in Nat /\ B = [i \in 1 .. n |-> B[i]]
        /\ a \in [1 .. n -> R]
        /\ \A i \in 1 .. n :
              /\ B[i].start = a[i] /\ a[i] \in Int
              /\ B[i].offset \in Int
              /\ B[i].start - B[i].offset = d.next - d.offset
              /\ Len(B[i].data) \in Nat
              /\ Len(B[i].data) = RunEnd(d.pending, a[i]) - a[i]
              /\ d.offset <= B[i].offset
              /\ B[i].offset + Len(B[i].data) <= d.offset + stop - d.next
              /\ B[i].completeness # "gapped" => ~d.gap /\ B[i].offset = d.offset
        /\ \A i, j \in 1 .. n : i < j => B[i].offset + Len(B[i].data) <= B[j].offset
    BY <1>1, ChunkFacts
  <1>4. /\ IsFiniteSet(Fresh(d, stop)) /\ Fresh(d, stop) \subseteq d.next .. stop - 1
        /\ \A p \in R : RunEnd(d.pending, p) \in Int /\ p < RunEnd(d.pending, p)
    BY <1>1, FreshRuns
  <1>5. SumFunctionOnSet(LenOf(B), DOMAIN B) = Cardinality(Fresh(d, stop)) BY <1>1, ChunkSum
  <1>6. /\ e.offset = d.offset + stop - d.next /\ e.next = stop /\ e.next # NoSeq
        /\ e.gap = (d.gap \/ Cardinality(Fresh(d, stop)) < stop - d.next)
    BY AdvanceDirection
  <1>7. /\ Cardinality(Fresh(d, stop)) \in Nat
        /\ Cardinality(Fresh(d, stop)) <= stop - d.next
    <2>1. IsFiniteSet(d.next .. stop - 1) /\ Cardinality(d.next .. stop - 1) = stop - d.next
      <3>1. stop - 1 \in Int BY <1>2
      <3>2. /\ IsFiniteSet(d.next .. stop - 1)
            /\ Cardinality(d.next .. stop - 1)
                 = IF d.next > stop - 1 THEN 0 ELSE (stop - 1) - d.next + 1
        BY <1>2, <3>1, FS_Interval
      <3> QED BY <1>2, <3>2
    <2>2. Cardinality(Fresh(d, stop)) <= Cardinality(d.next .. stop - 1)
      BY <1>4, <2>1, FS_Subset
    <2> QED BY <1>4, <2>1, <2>2, FS_CardinalityType
  <1> HIDE DEF B, R, n, a, e
  <1>8. DOMAIN C = 1 .. n /\ C = [i \in 1 .. n |-> C[i]] BY <1>3 DEF Handed
  <1>9. ASSUME NEW i \in 1 .. n
        PROVE  /\ C[i].flow = k /\ C[i].epoch = epoch /\ C[i].dir = dir
               /\ C[i].offset = B[i].offset /\ C[i].start = B[i].start
               /\ C[i].data = B[i].data /\ C[i].completeness = B[i].completeness
    BY <1>3 DEF Handed
  <1>10. LenOf(C) = LenOf(B) /\ DOMAIN C = DOMAIN B BY <1>3, <1>8, <1>9 DEF LenOf
  <1> HIDE DEF C
  <1>11. Listed(C) BY <1>3, <1>8, ListedFunction
  <1>12. \A i \in 1 .. n : Len(B[i].data) > 0
    <2> SUFFICES ASSUME NEW i \in 1 .. n PROVE Len(B[i].data) > 0 OBVIOUS
    <2>1. a[i] \in R /\ a[i] \in Int /\ Len(B[i].data) = RunEnd(d.pending, a[i]) - a[i] BY <1>3
    <2>2. RunEnd(d.pending, a[i]) \in Int /\ a[i] < RunEnd(d.pending, a[i]) BY <1>4, <2>1
    <2> QED BY <2>1, <2>2
  <1>13. ASSUME NEW i \in DOMAIN C
         PROVE  /\ C[i].flow = k /\ C[i].epoch = epoch /\ C[i].dir = dir
                /\ C[i].offset \in Int /\ C[i].start \in Int
                /\ Len(C[i].data) \in Nat /\ Len(C[i].data) > 0
                /\ d.offset <= C[i].offset /\ C[i].offset + Len(C[i].data) <= e.offset
                /\ C[i].start - C[i].offset = d.next - d.offset
                /\ C[i].completeness # "gapped" => ~d.gap /\ C[i].offset = d.offset
                /\ d.next # NoSeq
    <2>1. i \in 1 .. n BY <1>8
    <2> QED BY <1>3, <1>6, <1>9, <1>12, <2>1
  <1>14. \A i, j \in DOMAIN C : i < j => C[i].offset + Len(C[i].data) <= C[j].offset
    BY <1>3, <1>8, <1>9
  <1>15. SumFunctionOnSet(LenOf(C), DOMAIN C) = Cardinality(Fresh(d, stop)) BY <1>5, <1>10
  <1>16. d.offset <= e.offset /\ e.next - e.offset = d.next - d.offset /\ e.next # NoSeq
    BY <1>1, <1>2, <1>6
  <1>17. ~e.gap => ~d.gap /\ e.offset - d.offset = SumFunctionOnSet(LenOf(C), DOMAIN C)
    <2> HAVE ~e.gap
    <2>1. ~d.gap /\ ~(Cardinality(Fresh(d, stop)) < stop - d.next) BY <1>6
    <2>2. Cardinality(Fresh(d, stop)) = stop - d.next BY <1>2, <1>7, <2>1
    <2> QED BY <1>1, <1>2, <1>6, <1>15, <2>1, <2>2
  <1>18. Follows(C, k, epoch, dir, d, e) BY <1>11, <1>13, <1>14, <1>16, <1>17 DEF Follows
  <1> QED BY <1>7, <1>15, <1>18 DEF B, C, e

\* The bytes of chunks are counted by a natural number.
LEMMA LengthNat ==
    ASSUME NEW s, Sized(s)
    PROVE  SumFunctionOnSet(LenOf(s), DOMAIN s) \in Nat
  <1>1. Len(s) \in Nat /\ DOMAIN s = 1 .. Len(s) BY ListedLength DEF Sized
  <1>2. IsFiniteSet(DOMAIN s) BY <1>1, FS_Interval
  <1>3. \A i \in DOMAIN s : LenOf(s)[i] \in Nat BY DEF Sized, LenOf
  <1>4. Natural(LenOf(s), DOMAIN s) BY <1>2, <1>3 DEF Natural
  <1> QED BY <1>4, SumNat

\* u queues no more than t, and accounts for the same bytes.
Shrinks(u, t) ==
    /\ u.buffered <= t.buffered /\ u.segments <= t.segments
    /\ Len(u.order) <= Len(t.order)
    /\ Balance(u) = Balance(t)

\* Nothing queued or emitted is lost between two stages that shrink.
LEMMA ShrinksTransitive ==
    ASSUME NEW r, NEW s, NEW t, IsTable(r), IsTable(s), IsTable(t), Shrinks(r, s), Shrinks(s, t)
    PROVE  Shrinks(r, t)
  <1>1. /\ r.buffered \in Int /\ s.buffered \in Int /\ t.buffered \in Int
        /\ r.segments \in Int /\ s.segments \in Int /\ t.segments \in Int
    BY DEF IsTable
  <1>2. Len(r.order) \in Nat /\ Len(s.order) \in Nat /\ Len(t.order) \in Nat
    BY ListedLength DEF IsTable
  <1>3. Balance(r) = Balance(t) BY DEF Shrinks
  <1>4. r.buffered <= t.buffered /\ r.segments <= t.segments BY <1>1 DEF Shrinks
  <1>5. Len(r.order) <= Len(t.order) BY <1>2 DEF Shrinks
  <1> QED BY <1>3, <1>4, <1>5 DEF Shrinks

\* The counters after some of them have changed.
LEMMA StatsShape ==
    ASSUME NEW s, IsStats(s), NEW r, DOMAIN r = DOMAIN s, r = [z \in DOMAIN r |-> r[z]],
           r.retransmitted \in Int, r.keepalive \in Int
    PROVE  IsStats(r)
  <1>1. s = [retransmitted |-> s.retransmitted, keepalive |-> s.keepalive,
             conflicts |-> s.conflicts, gapBytes |-> s.gapBytes, evicted |-> s.evicted,
             budgetEvicted |-> s.budgetEvicted, expired |-> s.expired]
    BY DEF IsStats
  <1>2. DOMAIN s = {"retransmitted", "keepalive", "conflicts", "gapBytes", "evicted",
                    "budgetEvicted", "expired"}
    BY <1>1
  <1> QED BY <1>2 DEF IsStats

\* The members of a part and of the rest.
LEMMA CardinalityParts ==
    ASSUME NEW S, IsFiniteSet(S), NEW U \in SUBSET S
    PROVE  /\ Cardinality(S) \in Nat /\ Cardinality(U) \in Nat /\ Cardinality(S \ U) \in Nat
           /\ Cardinality(S) = Cardinality(U) + Cardinality(S \ U)
           /\ IsFiniteSet(U) /\ IsFiniteSet(S \ U)
  <1>1. IsFiniteSet(U) /\ IsFiniteSet(S \ U) BY FS_Subset
  <1>2. Cardinality(S) \in Nat /\ Cardinality(U) \in Nat /\ Cardinality(S \ U) \in Nat
    BY <1>1, FS_CardinalityType
  <1>3. S \cap U = U OBVIOUS
  <1>4. Cardinality(S \ U) = Cardinality(S) - Cardinality(S \cap U) BY FS_Difference
  <1>5. Cardinality(S \ U) = Cardinality(S) - Cardinality(U) BY <1>3, <1>4
  <1> QED BY <1>1, <1>2, <1>5

\* Emit is a change that accounts for every byte it takes from the queue.
LEMMA EmitStage ==
    ASSUME NEW t, NEW now, Core(t, now), NEW k \in DOMAIN t.flows, NEW dir \in {0, 1},
           t.flows[k].dirs[dir].next # NoSeq,
           NEW stop, GoodStop(t.flows[k].dirs[dir], stop)
    PROVE  LET d == t.flows[k].dirs[dir]
               u == Emit(t, k, dir, stop)
           IN  /\ Changes(u, t, k, dir, Advance(d, stop),
                          Handed(k, t.flows[k].epoch, dir, Chunks(d, stop)))
               /\ Core(u, now) /\ Swapped(u, t, k, dir, Advance(d, stop))
               /\ Shrinks(u, t) /\ u.order = t.order
  <1> DEFINE d == t.flows[k].dirs[dir]
             u == Emit(t, k, dir, stop)
             e == Advance(d, stop)
             C == Handed(k, t.flows[k].epoch, dir, Chunks(d, stop))
             g == Gone(d, stop)
             n == Cardinality(Fresh(d, stop))
  <1>1. IsTable(t) /\ Labelled(t) BY DEF Core
  <1>2. IsDirection(d) BY <1>1 DEF IsTable, IsFlow
  <1>3. Emitted(u, t, k, dir, stop) BY <1>1, EmitEffect
  <1>4. /\ Replaces(u, t, k, dir, e)
        /\ u.buffered = t.buffered - Bytes(g)
        /\ u.segments = t.segments - Cardinality(g)
        /\ u.out = t.out \o C
    <2> HIDE DEF u
    <2> QED BY <1>3 DEF Emitted
  <1>5. u.stats = [t.stats EXCEPT !.retransmitted = @ + Bytes(g) - n,
                                  !.gapBytes = @ + (stop - d.next) - n]
    <2> HIDE DEF u
    <2> QED BY <1>3 DEF Emitted
  <1> DEFINE epoch == t.flows[k].epoch
  <1>6. d.next # NoSeq /\ GoodStop(d, stop) OBVIOUS
  <1> HIDE DEF d
  <1>7. IsDirection(e) /\ e.pending = d.pending \ g BY <1>2, <1>6, AdvanceDirection
  <1>8. /\ Follows(C, k, epoch, dir, d, e)
         /\ SumFunctionOnSet(LenOf(C), DOMAIN C) = n /\ n \in Nat
    <2> HIDE DEF epoch
    <2> QED BY <1>2, <1>6, HandedFollows DEF epoch
  <1>9. /\ Bytes(d.pending) \in Nat /\ Bytes(g) \in Nat /\ Bytes(e.pending) \in Nat
         /\ Bytes(d.pending) = Bytes(g) + Bytes(e.pending)
         /\ Cardinality(g) \in Nat /\ Cardinality(e.pending) \in Nat
         /\ Cardinality(d.pending) = Cardinality(g) + Cardinality(e.pending)
    <2>1. Waiting(d) /\ Queue(d.pending) BY <1>2 DEF IsDirection, Waiting
    <2>2. g \in SUBSET d.pending BY DEF Gone
    <2> HIDE DEF g, e
    <2>3. /\ Bytes(d.pending) \in Nat /\ Bytes(g) \in Nat /\ Bytes(d.pending \ g) \in Nat
          /\ Bytes(d.pending) = Bytes(g) + Bytes(d.pending \ g)
      BY <2>1, <2>2, BytesSplit DEF Queue
    <2>4. IsFiniteSet(d.pending) BY <2>1 DEF Queue
    <2>5. /\ Cardinality(g) \in Nat /\ Cardinality(d.pending \ g) \in Nat
          /\ Cardinality(d.pending) = Cardinality(g) + Cardinality(d.pending \ g)
      BY <2>2, <2>4, CardinalityParts
    <2> QED BY <1>7, <2>3, <2>5
  <1>10. /\ t.buffered \in Int /\ t.segments \in Int /\ IsStats(t.stats)
         /\ t.stats.retransmitted \in Int /\ t.stats.keepalive \in Int
    BY <1>1 DEF IsTable, IsStats
  <1> HIDE DEF e, g, n, C, u
  <1>11. /\ IsStats(u.stats) /\ u.stats.keepalive = t.stats.keepalive
         /\ u.stats.retransmitted = t.stats.retransmitted + Bytes(g) - n
    <2>1. t.stats.retransmitted + Bytes(g) - n \in Int BY <1>8, <1>9, <1>10
    <2>2. DOMAIN u.stats = DOMAIN t.stats /\ u.stats = [z \in DOMAIN u.stats |-> u.stats[z]]
      BY <1>5
    <2>3. /\ u.stats.retransmitted = t.stats.retransmitted + Bytes(g) - n
          /\ u.stats.keepalive = t.stats.keepalive
      BY <1>5, <1>10 DEF IsStats
    <2> QED BY <1>10, <2>1, <2>2, <2>3, StatsShape
  <1>12. Changes(u, t, k, dir, e, C)
    <2>1. u.buffered = t.buffered + Bytes(e.pending) - Bytes(d.pending) BY <1>4, <1>9, <1>10
    <2>2. u.segments = t.segments + Cardinality(e.pending) - Cardinality(d.pending)
      BY <1>4, <1>9, <1>10
    <2> QED BY <1>4, <1>7, <1>8, <1>11, <2>1, <2>2 DEF Changes, d, epoch
  <1>13. Core(u, now) /\ Swapped(u, t, k, dir, e) /\ u.order = t.order BY <1>12, ChangeCore
  <1>14. Shrinks(u, t)
    <2>1. Sized(t.out) /\ Sized(C)
      <3>1. Listed(t.out) /\ Listed(C) BY <1>1, <1>8 DEF IsTable, Follows
      <3> QED BY <1>1, <1>8, <3>1 DEF Sized, Labelled, Follows
    <2>2. SumFunctionOnSet(LenOf(u.out), DOMAIN u.out)
            = SumFunctionOnSet(LenOf(t.out), DOMAIN t.out) + n
      <3>1. SumFunctionOnSet(LenOf(t.out \o C), DOMAIN (t.out \o C))
              = SumFunctionOnSet(LenOf(t.out), DOMAIN t.out) + SumFunctionOnSet(LenOf(C), DOMAIN C)
        BY <2>1, LengthConcat
      <3> QED BY <1>4, <1>8, <3>1
    <2>3. SumFunctionOnSet(LenOf(t.out), DOMAIN t.out) \in Nat BY <2>1, LengthNat
    <2>4. Balance(u) = Balance(t)
      <3> DEFINE a == SumFunctionOnSet(LenOf(u.out), DOMAIN u.out)
                 b == SumFunctionOnSet(LenOf(t.out), DOMAIN t.out)
      <3>1. /\ Balance(u) = a + u.buffered + u.stats.retransmitted + u.stats.keepalive
            /\ Balance(t) = b + t.buffered + t.stats.retransmitted + t.stats.keepalive
        BY DEF Balance
      <3>2. a = b + n /\ b \in Nat /\ n \in Nat /\ u.buffered = t.buffered - Bytes(g)
        BY <1>4, <1>8, <2>2, <2>3
      <3> HIDE DEF a, b
      <3> QED BY <1>9, <1>10, <1>11, <3>1, <3>2
    <2>5. Len(t.order) \in Nat BY <1>1, ListedLength DEF IsTable
    <2>6. u.buffered <= t.buffered /\ u.segments <= t.segments BY <1>4, <1>9, <1>10
    <2> QED BY <1>13, <2>4, <2>5, <2>6 DEF Shrinks
  <1> QED BY <1>12, <1>13, <1>14 DEF d, u, e, C

\* A table shrinks to itself.
LEMMA ShrinksSame == ASSUME NEW t, IsTable(t) PROVE Shrinks(t, t)
  <1>1. t.buffered \in Int /\ t.segments \in Int /\ Len(t.order) \in Nat
    BY ListedLength DEF IsTable
  <1> QED BY <1>1 DEF Shrinks

\* A table is tidy when the direction that changed is settled.
LEMMA TidyAfter ==
    ASSUME NEW t, NEW now, NEW k \in DOMAIN t.flows, NEW dir \in {0, 1}, NEW e, NEW u,
           Core(u, now), Swapped(u, t, k, dir, e), Settled(e),
           \A j \in DOMAIN t.flows, x \in {0, 1} :
              j # k \/ x # dir => Settled(t.flows[j].dirs[x])
    PROVE  Tidy(u, now)
  <1>1. ASSUME NEW j \in DOMAIN u.flows, NEW x \in {0, 1} PROVE Settled(u.flows[j].dirs[x])
    <2>1. j \in DOMAIN t.flows BY DEF Swapped
    <2>2. CASE j = k /\ x = dir BY <2>2 DEF Swapped
    <2>3. CASE ~(j = k /\ x = dir) BY <2>1, <2>3 DEF Swapped
    <2> QED BY <2>2, <2>3
  <1> QED BY <1>1 DEF Tidy

\* What a flush of one direction leaves.
Flushed(u, t, k, dir, now) ==
    /\ Tidy(u, now) /\ Shrinks(u, t) /\ u.order = t.order
    /\ DOMAIN u.flows = DOMAIN t.flows
    /\ u.flows[k].dirs[dir].pending = {}
    /\ \A x \in {0, 1} : x # dir => u.flows[k].dirs[x] = t.flows[k].dirs[x]
    /\ \A j \in DOMAIN t.flows, x \in {0, 1} :
          u.flows[j].dirs[x].closed = t.flows[j].dirs[x].closed

\* A flush hands out all that its direction queues.
LEMMA FlushStage ==
    ASSUME NEW t, NEW now, Tidy(t, now), NEW k \in DOMAIN t.flows, NEW dir \in {0, 1}
    PROVE  Flushed(Flush(t, k, dir), t, k, dir, now)
  <1> DEFINE d == t.flows[k].dirs[dir]
             stop == LastStop(d)
             e == Advance(d, stop)
             u == Emit(t, k, dir, stop)
  <1>1. Core(t, now) /\ IsTable(t) BY DEF Tidy, Core
  <1>2. CASE d.pending = {}
    <2>1. Flush(t, k, dir) = t BY <1>2 DEF Flush
    <2>2. Shrinks(t, t) BY <1>1, ShrinksSame
    <2> QED BY <1>2, <2>1, <2>2 DEF Flushed
  <1>3. CASE d.pending # {}
    <2>1. Flush(t, k, dir) = u BY <1>3 DEF Flush
    <2>2. IsDirection(d) /\ Waiting(d) /\ d.next # NoSeq
      BY <1>1, <1>3 DEF IsTable, IsFlow, IsDirection, Waiting
    <2>3. GoodStop(d, stop) /\ Gone(d, stop) = d.pending BY <2>2, LastStopGood
    <2>4. /\ Core(u, now) /\ Swapped(u, t, k, dir, e)
          /\ Shrinks(u, t) /\ u.order = t.order
      BY <1>1, <2>2, <2>3, EmitStage
    <2>5. IsDirection(e) /\ e.pending = d.pending \ Gone(d, stop) /\ e.closed = d.closed
      <3> HIDE DEF d, stop
      <3> QED BY <2>2, <2>3, AdvanceDirection
    <2>6. e.pending = {} BY <2>3, <2>5
    <2> HIDE DEF u, e, stop
    <2>7. Settled(e)
      <3>1. e.pendingBytes = Bytes(e.pending) BY <2>5 DEF IsDirection, Waiting
      <3>2. e.pendingBytes = 0 BY <2>6, <3>1, BytesEmpty
      <3>3. Cardinality(e.pending) = 0 BY <2>6, FS_EmptySet
      <3>4. MaxPending \in Nat /\ MaxSegments \in Nat BY TcpReassemblyAssumption
      <3> QED BY <2>6, <3>2, <3>3, <3>4 DEF Settled
    <2>8. Tidy(u, now)
      <3>1. \A j \in DOMAIN t.flows, x \in {0, 1} : Settled(t.flows[j].dirs[x]) BY DEF Tidy
      <3> QED BY <2>4, <2>7, <3>1, TidyAfter
    <2>9. ASSUME NEW j \in DOMAIN t.flows, NEW x \in {0, 1}
          PROVE  u.flows[j].dirs[x].closed = t.flows[j].dirs[x].closed
      <3>1. CASE j = k /\ x = dir BY <2>4, <2>5, <3>1 DEF Swapped
      <3>2. CASE ~(j = k /\ x = dir) BY <2>4, <3>2 DEF Swapped
      <3> QED BY <3>1, <3>2
    <2>10. /\ DOMAIN u.flows = DOMAIN t.flows
           /\ u.flows[k].dirs[dir].pending = {}
           /\ \A x \in {0, 1} : x # dir => u.flows[k].dirs[x] = t.flows[k].dirs[x]
      BY <2>4, <2>6 DEF Swapped
    <2>11. Flushed(u, t, k, dir, now) BY <2>4, <2>8, <2>9, <2>10 DEF Flushed
    <2> QED BY <2>1, <2>11
  <1> QED BY <1>2, <1>3

\* A sequence without the place where an element stands.
Without(r, s, p) ==
    /\ Listed(r) /\ Len(r) = Len(s) - 1
    /\ \A i \in DOMAIN r : r[i] = s[IF i < p THEN i ELSE i + 1]

\* RemoveFirst takes out the place of an element that occurs once.
LEMMA RemoveFirstOnce ==
    ASSUME NEW s, Listed(s), NEW p \in DOMAIN s, \A i \in DOMAIN s : s[i] = s[p] => i = p
    PROVE  Without(RemoveFirst(s, s[p]), s, p)
  <1> DEFINE n == Len(s)
             I == {i \in 1 .. n : s[i] = s[p]}
             a == SubSeq(s, 1, p - 1)
             b == SubSeq(s, p + 1, n)
             r == RemoveFirst(s, s[p])
  <1>1. n \in Nat /\ DOMAIN s = 1 .. n BY ListedLength
  <1>2. I = {p} BY <1>1
  <1>3. Min(I) = p
    <2>1. \A i \in {p} : i \in Int BY <1>1
    <2>2. IsFiniteSet({p}) /\ {p} # {} BY FS_Singleton
    <2>3. Min({p}) \in {p} BY <2>1, <2>2, FiniteMin
    <2> QED BY <1>2, <2>3
  <1>4. r = a \o b
    <2>1. \E i \in 1 .. Len(s) : s[i] = s[p] BY <1>1
    <2>2. SelectInSeq(s, LAMBDA v : v = s[p]) = IF I # {} THEN Min(I) ELSE 0
      BY Zenon DEF SelectInSeq
    <2>3. SelectInSeq(s, LAMBDA v : v = s[p]) = p BY <1>2, <1>3, <2>2
    <2>4. r = RemoveAt(s, SelectInSeq(s, LAMBDA v : v = s[p])) BY <2>1, Zenon DEF RemoveFirst
    <2>5. r = RemoveAt(s, p) BY <2>3, <2>4
    <2> QED BY <2>5 DEF RemoveAt
  <1>5. /\ Listed(a) /\ Len(a) = p - 1 /\ DOMAIN a = 1 .. p - 1
        /\ \A i \in 1 .. p - 1 : a[i] = s[i]
    <2>1. a = [i \in 1 .. (p - 1) - 1 + 1 |-> s[1 + i - 1]] BY <1>1
    <2>2. a = [i \in 1 .. p - 1 |-> s[i]] BY <1>1, <2>1
    <2>3. p - 1 \in Nat BY <1>1
    <2>4. a = [i \in 1 .. p - 1 |-> a[i]] BY <2>2
    <2> HIDE DEF a
    <2> QED BY <2>2, <2>3, <2>4, ListedFunction
  <1>6. /\ Listed(b) /\ Len(b) = n - p /\ DOMAIN b = 1 .. n - p
        /\ \A i \in 1 .. n - p : b[i] = s[p + i]
    <2>1. b = [i \in 1 .. n - (p + 1) + 1 |-> s[(p + 1) + i - 1]] BY <1>1
    <2>2. b = [i \in 1 .. n - p |-> s[p + i]] BY <1>1, <2>1
    <2>3. n - p \in Nat BY <1>1
    <2>4. b = [i \in 1 .. n - p |-> b[i]] BY <2>2
    <2> HIDE DEF b
    <2> QED BY <2>2, <2>3, <2>4, ListedFunction
  <1> HIDE DEF n, a, b, r
  <1>7. /\ Listed(r) /\ Len(r) = Len(a) + Len(b)
        /\ \A i \in 1 .. Len(a) : r[i] = a[i]
        /\ \A i \in 1 .. Len(b) : r[Len(a) + i] = b[i]
    <2>1. /\ Listed(a \o b) /\ Len(a \o b) = Len(a) + Len(b)
          /\ \A i \in 1 .. Len(a) : (a \o b)[i] = a[i]
          /\ \A i \in 1 .. Len(b) : (a \o b)[Len(a) + i] = b[i]
      BY <1>5, <1>6, ListedConcat
    <2> QED BY <1>4, <2>1
  <1>8. Len(r) = n - 1 /\ DOMAIN r = 1 .. n - 1
    <2>1. Len(r) = n - 1 BY <1>1, <1>5, <1>6, <1>7
    <2> QED BY <1>7, <2>1, ListedLength
  <1>9. ASSUME NEW i \in 1 .. n - 1 PROVE r[i] = s[IF i < p THEN i ELSE i + 1]
    <2>1. CASE i < p
      <3>1. i \in 1 .. p - 1 BY <1>1, <2>1
      <3> QED BY <1>5, <1>7, <2>1, <3>1
    <2>2. CASE ~(i < p)
      <3>1. i - (p - 1) \in 1 .. n - p /\ (p - 1) + (i - (p - 1)) = i
            /\ p + (i - (p - 1)) = i + 1
        BY <1>1, <2>2
      <3>2. r[(p - 1) + (i - (p - 1))] = b[i - (p - 1)] BY <1>5, <1>6, <1>7, <3>1
      <3>3. b[i - (p - 1)] = s[p + (i - (p - 1))] BY <1>6, <3>1
      <3> QED BY <2>2, <3>1, <3>2, <3>3
    <2> QED BY <2>1, <2>2
  <1>10. Without(r, s, p) BY <1>7, <1>8, <1>9 DEF Without, n
  <1> QED BY <1>10 DEF r

\* The elements that are left, in the order they had.
LEMMA WithoutPlaces ==
    ASSUME NEW s, Listed(s), NEW p \in DOMAIN s, NEW r, Without(r, s, p)
    PROVE  /\ \A i \in DOMAIN r : \E q \in DOMAIN s : q # p /\ r[i] = s[q]
           /\ \A q \in DOMAIN s : q # p => \E i \in DOMAIN r : r[i] = s[q]
           /\ \A i, j \in DOMAIN r :
                 i < j => \E x, y \in DOMAIN s : x < y /\ r[i] = s[x] /\ r[j] = s[y]
  <1> DEFINE n == Len(s)
             At(i) == IF i < p THEN i ELSE i + 1
  <1>1. n \in Nat /\ DOMAIN s = 1 .. n BY ListedLength
  <1>2. Listed(r) /\ Len(r) = n - 1 /\ \A i \in DOMAIN r : r[i] = s[At(i)] BY DEF Without
  <1>3. DOMAIN r = 1 .. n - 1 BY <1>2, ListedLength
  <1> HIDE DEF n
  <1>4. \A i \in 1 .. n - 1 : At(i) \in 1 .. n /\ At(i) # p BY <1>1
  <1>5. \A i, j \in 1 .. n - 1 : i < j => At(i) < At(j) BY <1>1
  <1>6. ASSUME NEW q \in 1 .. n, q # p PROVE \E i \in 1 .. n - 1 : At(i) = q
    <2>1. CASE q < p
      <3>1. q \in 1 .. n - 1 /\ At(q) = q BY <1>1, <2>1
      <3> QED BY <3>1
    <2>2. CASE ~(q < p)
      <3>1. q - 1 \in 1 .. n - 1 /\ At(q - 1) = q BY <1>1, <1>6, <2>2
      <3> QED BY <3>1
    <2> QED BY <2>1, <2>2
  <1> HIDE DEF At
  <1>7. \A i \in DOMAIN r : \E q \in DOMAIN s : q # p /\ r[i] = s[q] BY <1>1, <1>2, <1>3, <1>4
  <1>8. \A q \in DOMAIN s : q # p => \E i \in DOMAIN r : r[i] = s[q] BY <1>1, <1>2, <1>3, <1>6
  <1>9. \A i, j \in DOMAIN r :
           i < j => \E x, y \in DOMAIN s : x < y /\ r[i] = s[x] /\ r[j] = s[y]
    BY <1>1, <1>2, <1>3, <1>4, <1>5
  <1> QED BY <1>7, <1>8, <1>9

\* Terms that are zero may be left out of a sum.
LEMMA SumWithoutZeros ==
    ASSUME NEW f, NEW S, Natural(f, S), NEW U \in SUBSET S, \A x \in U : f[x] = 0
    PROVE  SumFunctionOnSet(f, S \ U) = SumFunctionOnSet(f, S)
  <1> DEFINE T == {u \in SUBSET U : SumFunctionOnSet(f, u) # 0}
  <1>1. IsFiniteSet(U) BY FS_Subset DEF Natural
  <1>2. T = {}
    <2> SUFFICES ASSUME T # {} PROVE FALSE OBVIOUS
    <2>1. T \subseteq SUBSET U /\ \A u \in T : SumFunctionOnSet(f, u) # 0 OBVIOUS
    <2>2. \A u \in SUBSET U : u \notin T => SumFunctionOnSet(f, u) = 0 OBVIOUS
    <2> HIDE DEF T
    <2>3. PICK m \in T : \A u \in T : u \subseteq m => u = m BY <1>1, <2>1, MinimalSubset
    <2>4. m # {} BY <2>1, SumEmpty
    <2>5. PICK x \in m : TRUE BY <2>4
    <2>6. m \ {x} \in SUBSET U /\ m \ {x} \notin T BY <2>1, <2>3
    <2>7. Integral(f, m)
      <3>1. IsFiniteSet(m) BY <1>1, <2>1, FS_Subset
      <3> QED BY <2>1, <3>1 DEF Integral, Natural
    <2>8. SumFunctionOnSet(f, m) = f[x] + SumFunctionOnSet(f, m \ {x}) BY <2>7, SumRemove
    <2>9. f[x] = 0 /\ SumFunctionOnSet(f, m \ {x}) = 0 BY <2>1, <2>2, <2>6
    <2> QED BY <2>1, <2>8, <2>9
  <1>3. SumFunctionOnSet(f, U) = 0
    <2>1. U \in SUBSET U /\ U \notin T BY <1>2
    <2> QED BY <2>1
  <1>4. /\ SumFunctionOnSet(f, S) \in Nat /\ SumFunctionOnSet(f, S \ U) \in Nat
        /\ SumFunctionOnSet(f, S) - SumFunctionOnSet(f, U) = SumFunctionOnSet(f, S \ U)
    BY SumPart
  <1> QED BY <1>3, <1>4

\* u is t without the flow k.
Removed(u, t, k, now) ==
    /\ Tidy(u, now) /\ Shrinks(u, t)
    /\ DOMAIN u.flows = DOMAIN t.flows \ {k}
    /\ \A j \in DOMAIN u.flows : u.flows[j] = t.flows[j]
    /\ \E p \in DOMAIN t.order : t.order[p] = k /\ Without(u.order, t.order, p)

\* A flow with nothing queued can be removed.
LEMMA RemoveStage ==
    ASSUME NEW t, NEW now, Tidy(t, now), NEW k \in DOMAIN t.flows,
           \A x \in {0, 1} : t.flows[k].dirs[x].pending = {}
    PROVE  Removed(RemoveFlow(t, k), t, k, now)
  <1> DEFINE u == RemoveFlow(t, k)
             dirs == t.flows[k].dirs
  <1>1. /\ IsTable(t) /\ Keys(t) /\ Timed(t, now) /\ Counted(t) /\ Epochs(t) /\ Labelled(t)
        /\ Behind(t) /\ InOrder(t) /\ Joined(t)
    BY DEF Tidy, Core
  <1>2. Record(t) BY <1>1 DEF IsTable
  <1>3. \A x \in {0, 1} : dirs[x].pendingBytes = 0 /\ Cardinality(dirs[x].pending) = 0
    <2> SUFFICES ASSUME NEW x \in {0, 1}
                 PROVE  dirs[x].pendingBytes = 0 /\ Cardinality(dirs[x].pending) = 0
      OBVIOUS
    <2>1. dirs[x].pendingBytes = Bytes(dirs[x].pending)
      BY <1>1 DEF IsTable, IsFlow, IsDirection, Waiting
    <2>2. dirs[x].pending = {} OBVIOUS
    <2> QED BY <2>1, <2>2, BytesEmpty, FS_EmptySet
  <1>4. /\ DOMAIN u = DOMAIN t /\ u = [x \in DOMAIN u |-> u[x]] BY DEF RemoveFlow
  <1>5. u.flows = [j \in DOMAIN t.flows \ {k} |-> t.flows[j]] BY <1>2 DEF RemoveFlow, Record
  <1>6. u.order = RemoveFirst(t.order, k) BY <1>2 DEF RemoveFlow, Record
  <1>7. u.buffered = t.buffered - dirs[0].pendingBytes - dirs[1].pendingBytes
    BY <1>2 DEF RemoveFlow, Record
  <1>8. u.segments = t.segments - Cardinality(dirs[0].pending) - Cardinality(dirs[1].pending)
    BY <1>2 DEF RemoveFlow, Record
  <1>9. u.nextEpoch = t.nextEpoch /\ u.stats = t.stats /\ u.out = t.out
    BY <1>2 DEF RemoveFlow, Record
  <1> HIDE DEF u
  <1>10. Record(u)
    <2>1. DOMAIN t = {"flows", "order", "nextEpoch", "buffered", "segments", "stats", "out"}
      BY <1>2 DEF Record
    <2> QED BY <1>4, <2>1 DEF Record
  <1>11. /\ t.buffered \in Int /\ t.segments \in Int
         /\ u.buffered = t.buffered /\ u.segments = t.segments
    <2>1. t.buffered \in Int /\ t.segments \in Int BY <1>1 DEF IsTable
    <2>2. /\ dirs[0].pendingBytes = 0 /\ dirs[1].pendingBytes = 0
          /\ Cardinality(dirs[0].pending) = 0 /\ Cardinality(dirs[1].pending) = 0
      BY <1>3
    <2> HIDE DEF dirs
    <2> QED BY <1>7, <1>8, <2>1, <2>2
  <1>12. DOMAIN u.flows = DOMAIN t.flows \ {k} /\ \A j \in DOMAIN u.flows : u.flows[j] = t.flows[j]
    BY <1>5
  <1>13. Listed(t.order) /\ Listed(t.out) BY <1>1 DEF IsTable
  <1>14. PICK p \in DOMAIN t.order : t.order[p] = k BY <1>1 DEF Keys
  <1>15. Without(u.order, t.order, p)
    <2>1. \A i \in DOMAIN t.order : t.order[i] = t.order[p] => i = p BY <1>1 DEF Keys
    <2>2. Without(RemoveFirst(t.order, t.order[p]), t.order, p) BY <1>13, <2>1, RemoveFirstOnce
    <2> QED BY <1>6, <1>14, <2>2
  <1>16. /\ \A i \in DOMAIN u.order : \E q \in DOMAIN t.order : q # p /\ u.order[i] = t.order[q]
         /\ \A q \in DOMAIN t.order : q # p => \E i \in DOMAIN u.order : u.order[i] = t.order[q]
         /\ \A i, j \in DOMAIN u.order :
               i < j => \E x, y \in DOMAIN t.order :
                           x < y /\ u.order[i] = t.order[x] /\ u.order[j] = t.order[y]
    BY <1>13, <1>15, WithoutPlaces
  <1>17. IsTable(u)
    <2>1. u.flows = [j \in DOMAIN u.flows |-> u.flows[j]] BY <1>5
    <2>2. \A j \in DOMAIN u.flows : IsFlow(u.flows[j]) BY <1>1, <1>12 DEF IsTable
    <2>3. u.nextEpoch \in Nat /\ IsStats(u.stats) /\ Listed(u.out) BY <1>1, <1>9 DEF IsTable
    <2>4. Listed(u.order) BY <1>15 DEF Without
    <2> QED BY <1>10, <1>11, <2>1, <2>2, <2>3, <2>4 DEF IsTable
  <1>18. DOMAIN u.order \subseteq Int
    <2>1. Listed(u.order) BY <1>15 DEF Without
    <2>2. Len(u.order) \in Nat /\ DOMAIN u.order = 1 .. Len(u.order) BY <2>1, ListedLength
    <2> QED BY <2>2
  <1>19. DOMAIN t.order \subseteq Int
    <2>1. Len(t.order) \in Nat /\ DOMAIN t.order = 1 .. Len(t.order) BY <1>13, ListedLength
    <2> QED BY <2>1
  <1>20. Keys(u)
    <2>1. \A i \in DOMAIN u.order : u.order[i] \in DOMAIN u.flows
      BY <1>1, <1>12, <1>14, <1>16 DEF Keys
    <2>2. \A j \in DOMAIN u.flows : \E i \in DOMAIN u.order : u.order[i] = j
      <3> SUFFICES ASSUME NEW j \in DOMAIN u.flows PROVE \E i \in DOMAIN u.order : u.order[i] = j
        OBVIOUS
      <3>1. j \in DOMAIN t.flows /\ j # k BY <1>12
      <3>2. PICK q \in DOMAIN t.order : t.order[q] = j BY <1>1, <3>1 DEF Keys
      <3>3. q # p BY <1>14, <3>1, <3>2
      <3> QED BY <1>16, <3>2, <3>3
    <2>3. \A i, j \in DOMAIN u.order : i < j => u.order[i] # u.order[j]
      <3> SUFFICES ASSUME NEW i \in DOMAIN u.order, NEW j \in DOMAIN u.order, i < j
                   PROVE  u.order[i] # u.order[j]
        OBVIOUS
      <3>1. PICK x \in DOMAIN t.order, y \in DOMAIN t.order :
                x < y /\ u.order[i] = t.order[x] /\ u.order[j] = t.order[y]
        BY <1>16
      <3>2. x # y BY <1>19, <3>1
      <3> QED BY <1>1, <3>1, <3>2 DEF Keys
    <2>4. \A i, j \in DOMAIN u.order : u.order[i] = u.order[j] => i = j
      <3>1. \A i, j \in DOMAIN u.order : i = j \/ i < j \/ j < i BY <1>18
      <3> QED BY <2>3, <3>1
    <2> QED BY <2>1, <2>2, <2>4 DEF Keys
  <1>21. Timed(u, now)
    <2>1. \A j \in DOMAIN u.flows : u.flows[j].activity <= now BY <1>1, <1>12 DEF Timed
    <2>2. ASSUME NEW i \in DOMAIN u.order, NEW j \in DOMAIN u.order, i < j
          PROVE  u.flows[u.order[i]].activity <= u.flows[u.order[j]].activity
      <3>1. PICK x \in DOMAIN t.order, y \in DOMAIN t.order :
                x < y /\ u.order[i] = t.order[x] /\ u.order[j] = t.order[y]
        BY <1>16, <2>2
      <3>2. u.order[i] \in DOMAIN u.flows /\ u.order[j] \in DOMAIN u.flows BY <1>20 DEF Keys
      <3>3. t.flows[t.order[x]].activity <= t.flows[t.order[y]].activity
        BY <1>1, <3>1 DEF Timed
      <3> QED BY <1>12, <3>1, <3>2, <3>3
    <2> QED BY <2>1, <2>2 DEF Timed
  <1>22. Counted(u)
    <2> DEFINE U == {<<k, x>> : x \in {0, 1}}
               S == Places(t)
    <2>1. Natural(Held(t), S) /\ Natural(Number(t), S) BY <1>1, PlacesFinite
    <2>2. Places(u) = S \ U /\ U \in SUBSET S BY <1>12 DEF Places
    <2>3. \A x \in U : Held(t)[x] = 0 /\ Number(t)[x] = 0
      <3> SUFFICES ASSUME NEW x \in {0, 1}
                   PROVE  Held(t)[<<k, x>>] = 0 /\ Number(t)[<<k, x>>] = 0
        OBVIOUS
      <3>1. <<k, x>> \in S /\ t.flows[k].dirs[x].pending = {} BY DEF Places
      <3>2. Bytes({}) = 0 /\ Cardinality({}) = 0 BY BytesEmpty, FS_EmptySet
      <3> QED BY <3>1, <3>2 DEF Held, Number
    <2>4. \A y \in Places(u) : Held(u)[y] = Held(t)[y] /\ Number(u)[y] = Number(t)[y]
      <3> SUFFICES ASSUME NEW y \in Places(u)
                   PROVE  Held(u)[y] = Held(t)[y] /\ Number(u)[y] = Number(t)[y]
        OBVIOUS
      <3>1. PICK j \in DOMAIN u.flows, x \in {0, 1} : y = <<j, x>> BY DEF Places
      <3>2. <<j, x>> \in Places(u) /\ <<j, x>> \in Places(t) BY <1>12 DEF Places
      <3>3. u.flows[j] = t.flows[j] BY <1>12
      <3> QED BY <3>1, <3>2, <3>3 DEF Held, Number
    <2> HIDE DEF U, S
    <2>5. /\ SumFunctionOnSet(Held(t), S \ U) = SumFunctionOnSet(Held(t), S)
          /\ SumFunctionOnSet(Number(t), S \ U) = SumFunctionOnSet(Number(t), S)
      BY <2>1, <2>2, <2>3, SumWithoutZeros
    <2>6. Integral(Held(t), S \ U) /\ Integral(Number(t), S \ U)
      BY <2>1, FS_Subset DEF Natural, Integral
    <2>7. /\ SumFunctionOnSet(Held(t), S \ U) = SumFunctionOnSet(Held(u), S \ U)
          /\ SumFunctionOnSet(Number(t), S \ U) = SumFunctionOnSet(Number(u), S \ U)
      BY <2>2, <2>4, <2>6, SumSame
    <2> QED BY <1>1, <1>11, <2>2, <2>5, <2>7 DEF Counted, S
  <1>23. Epochs(u) BY <1>1, <1>9, <1>12 DEF Epochs
  <1>24. Labelled(u) /\ InOrder(u) BY <1>1, <1>9 DEF Labelled, InOrder
  <1>25. Behind(u) BY <1>1, <1>9, <1>12 DEF Behind
  <1>26. Joined(u) BY <1>1, <1>9, <1>12 DEF Joined
  <1>27. Core(u, now) BY <1>17, <1>20, <1>21, <1>22, <1>23, <1>24, <1>25, <1>26 DEF Core
  <1>28. Tidy(u, now) BY <1>12, <1>27 DEF Tidy
  <1>29. Shrinks(u, t)
    <2>1. Len(u.order) = Len(t.order) - 1 /\ Len(t.order) \in Nat
      BY <1>13, <1>15, ListedLength DEF Without
    <2>2. Balance(u) = Balance(t) BY <1>9, <1>11 DEF Balance
    <2> QED BY <1>11, <2>1, <2>2 DEF Shrinks
  <1>30. Removed(u, t, k, now) BY <1>12, <1>14, <1>15, <1>28, <1>29 DEF Removed
  <1> QED BY <1>30 DEF u

\* u is t without the flow k, and holds what holds before and after process.
Retired(u, t, k, now) ==
    /\ Good(u, now) /\ Shrinks(u, t)
    /\ DOMAIN u.flows = DOMAIN t.flows \ {k}
    /\ \E p \in DOMAIN t.order : t.order[p] = k /\ Without(u.order, t.order, p)

\* A flow whose other direction is flushed last can be removed.
LEMMA FlushAndRemove ==
    ASSUME NEW t, NEW now, Tidy(t, now), NEW k \in DOMAIN t.flows, NEW dir \in {0, 1},
           t.flows[k].dirs[1 - dir].pending = {},
           \A j \in DOMAIN t.flows : j # k => OneOpen(t.flows[j])
    PROVE  Retired(RemoveFlow(Flush(t, k, dir), k), t, k, now)
  <1> DEFINE s == Flush(t, k, dir)
             u == RemoveFlow(s, k)
  <1>1. Flushed(s, t, k, dir, now) BY FlushStage
  <1> HIDE DEF s
  <1>2. /\ Tidy(s, now) /\ Shrinks(s, t) /\ s.order = t.order /\ DOMAIN s.flows = DOMAIN t.flows
        /\ s.flows[k].dirs[dir].pending = {}
        /\ \A x \in {0, 1} : x # dir => s.flows[k].dirs[x] = t.flows[k].dirs[x]
        /\ \A j \in DOMAIN t.flows, x \in {0, 1} :
              s.flows[j].dirs[x].closed = t.flows[j].dirs[x].closed
    BY <1>1 DEF Flushed
  <1>3. 1 - dir \in {0, 1} /\ 1 - dir # dir /\ \A x \in {0, 1} : x = dir \/ x = 1 - dir OBVIOUS
  <1>4. \A x \in {0, 1} : s.flows[k].dirs[x].pending = {} BY <1>2, <1>3
  <1>5. Removed(u, s, k, now) BY <1>2, <1>4, RemoveStage
  <1> HIDE DEF u
  <1>6. /\ Tidy(u, now) /\ Shrinks(u, s) /\ DOMAIN u.flows = DOMAIN s.flows \ {k}
        /\ \A j \in DOMAIN u.flows : u.flows[j] = s.flows[j]
        /\ \E p \in DOMAIN s.order : s.order[p] = k /\ Without(u.order, s.order, p)
    BY <1>5 DEF Removed
  <1>7. IsTable(u) /\ IsTable(s) /\ IsTable(t) BY <1>2, <1>6 DEF Tidy, Core
  <1>8. Shrinks(u, t) BY <1>2, <1>6, <1>7, ShrinksTransitive
  <1>9. \A j \in DOMAIN u.flows : OneOpen(u.flows[j]) BY <1>2, <1>6 DEF OneOpen
  <1>10. Retired(u, t, k, now) BY <1>2, <1>6, <1>8, <1>9 DEF Retired, Good
  <1> QED BY <1>10 DEF u, s

\* Retiring a flow loses nothing of what it queues.
LEMMA RetireStage ==
    ASSUME NEW t, NEW now, Good(t, now), NEW k \in DOMAIN t.flows
    PROVE  Retired(Retire(t, k), t, k, now)
  <1> DEFINE s == Flush(t, k, 0)
             u == RemoveFlow(Flush(s, k, 1), k)
  <1>1. Tidy(t, now) /\ \A j \in DOMAIN t.flows : OneOpen(t.flows[j]) BY DEF Good
  <1>2. Flushed(s, t, k, 0, now) BY <1>1, FlushStage
  <1> HIDE DEF s
  <1>3. /\ Tidy(s, now) /\ Shrinks(s, t) /\ s.order = t.order /\ DOMAIN s.flows = DOMAIN t.flows
        /\ s.flows[k].dirs[0].pending = {}
        /\ \A j \in DOMAIN t.flows, x \in {0, 1} :
              s.flows[j].dirs[x].closed = t.flows[j].dirs[x].closed
    BY <1>2 DEF Flushed
  <1>4. \A j \in DOMAIN s.flows : OneOpen(s.flows[j]) BY <1>1, <1>3 DEF OneOpen
  <1>5. 1 - 1 = 0 /\ 1 \in {0, 1} OBVIOUS
  <1>6. s.flows[k].dirs[1 - 1].pending = {} BY <1>3, <1>5
  <1>7. Retired(u, s, k, now) BY <1>3, <1>4, <1>5, <1>6, FlushAndRemove
  <1>8. Retire(t, k) = u BY DEF Retire, FlushFlow, s
  <1> HIDE DEF u
  <1>9. IsTable(u) /\ IsTable(s) /\ IsTable(t) BY <1>1, <1>3, <1>7 DEF Retired, Good, Tidy, Core
  <1>10. Shrinks(u, s) BY <1>7 DEF Retired
  <1>11. Shrinks(u, t) BY <1>3, <1>9, <1>10, ShrinksTransitive
  <1>12. Retired(u, t, k, now) BY <1>3, <1>7, <1>11 DEF Retired
  <1> QED BY <1>8, <1>12

-----------------------------------------------------------------------------
(***************************************************************************)
(* Retiring the oldest flows                                               *)
(***************************************************************************)

\* The equation that defines the tables left by retiring what stands at some places.
Retirements(t, q, S, g) ==
    g = [u \in SUBSET S |-> IF u = {} THEN t ELSE Retire(g[u \ {Max(u)}], q[Max(u)])]

\* RetireFirst is read from such a table.
LEMMA RetireFirstIsTable ==
    \A t, n : RetireFirst(t, n)
                = (CHOOSE g : Retirements(t, SubSeq(t.order, 1, n), DOMAIN SubSeq(t.order, 1, n), g))
                    [DOMAIN SubSeq(t.order, 1, n)]
  BY Zenon DEF RetireFirst, FoldLeft, MapThenFoldSet, Retirements


\* The tables of a finite set and of a part of it agree on the part.
LEMMA RetirementsAgree ==
    ASSUME NEW t, NEW q, NEW S, IsFiniteSet(S), \A x \in S : x \in Int, NEW U \in SUBSET S, NEW g, NEW h,
           Retirements(t, q, S, g), Retirements(t, q, U, h)
    PROVE  \A s \in SUBSET U : g[s] = h[s]
  <1> DEFINE T == {s \in SUBSET U : g[s] # h[s]}
  <1> SUFFICES ASSUME T # {} PROVE FALSE OBVIOUS
  <1>1. IsFiniteSet(U) BY FS_Subset
  <1>2. T \subseteq SUBSET U OBVIOUS
  <1>3. \A s \in SUBSET U : s \notin T => g[s] = h[s] OBVIOUS
  <1>4. \A s \in T : g[s] # h[s] OBVIOUS
  <1> HIDE DEF T
  <1>5. PICK m \in T : \A u \in T : u \subseteq m => u = m BY <1>1, <1>2, MinimalSubset
  <1>6. m \in SUBSET S /\ m \in SUBSET U /\ g[m] # h[m] BY <1>2, <1>4
  <1>7. CASE m = {}
    BY <1>6, <1>7 DEF Retirements
  <1>8. CASE m # {}
    <2>1. Max(m) \in m BY <1>6, <1>8, FS_Subset, FiniteMax
    <2>2. /\ g[m] = Retire(g[m \ {Max(m)}], q[Max(m)])
          /\ h[m] = Retire(h[m \ {Max(m)}], q[Max(m)])
      BY <1>6, <1>8 DEF Retirements
    <2>3. m \ {Max(m)} \notin T BY <1>5, <2>1
    <2>4. g[m \ {Max(m)}] = h[m \ {Max(m)}] BY <2>3, <1>6, <1>3
    <2> QED BY <2>2, <2>4, <1>6
  <1> QED BY <1>7, <1>8

\* Every finite set has such a table.
LEMMA RetirementsExist ==
    ASSUME NEW t, NEW q, NEW S, IsFiniteSet(S), \A x \in S : x \in Int
    PROVE  \E g : Retirements(t, q, S, g)
  <1> DEFINE T == {s \in SUBSET S : ~\E g : Retirements(t, q, s, g)}
  <1> SUFFICES ASSUME T # {} PROVE FALSE OBVIOUS
  <1>1. /\ T \subseteq SUBSET S
        /\ \A s \in T : ~\E g : Retirements(t, q, s, g)
        /\ \A s \in SUBSET S : s \notin T => \E g : Retirements(t, q, s, g)
    OBVIOUS
  <1> HIDE DEF T
  <1>2. PICK m \in T : \A u \in T : u \subseteq m => u = m BY <1>1, MinimalSubset
  <1> DEFINE Tab(u) == CHOOSE g : Retirements(t, q, u, g)
             rest == m \ {Max(m)}
             H == [u \in SUBSET m |->
                     IF u = {} THEN t
                     ELSE IF u = m THEN Retire(Tab(rest)[rest], q[Max(m)])
                     ELSE Tab(u)[u]]
  <1>3. ASSUME NEW u \in SUBSET m, u # m PROVE Retirements(t, q, u, Tab(u))
    <2>1. u \in SUBSET S /\ u \notin T BY <1>1, <1>2, <1>3
    <2>2. \E g : Retirements(t, q, u, g) BY <2>1, <1>1
    <2> QED BY <2>2
  <1>4. ASSUME NEW u \in SUBSET m, u # {} PROVE Max(u) \in u
    <2>1. u \in SUBSET S BY <1>1
    <2> QED BY <1>4, <2>1, FS_Subset, FiniteMax
  <1>5. ASSUME NEW u \in SUBSET m, u # m, u # {}
        PROVE  Tab(u)[u] = Retire(Tab(u \ {Max(u)})[u \ {Max(u)}], q[Max(u)])
    <2> DEFINE v == u \ {Max(u)}
    <2>1. Max(u) \in u BY <1>4, <1>5
    <2>2. v \in SUBSET u /\ v \in SUBSET m /\ v # m BY <2>1
    <2>3. Retirements(t, q, u, Tab(u)) /\ Retirements(t, q, v, Tab(v)) BY <1>3, <1>5, <2>2
    <2>4. IsFiniteSet(u) /\ \A x \in u : x \in Int BY FS_Subset, <1>1
    <2> HIDE DEF Tab
    <2>5. Tab(u)[v] = Tab(v)[v] BY <2>2, <2>3, <2>4, RetirementsAgree
    <2>6. Tab(u)[u] = Retire(Tab(u)[v], q[Max(u)]) BY <2>3, <1>5 DEF Retirements
    <2> QED BY <2>5, <2>6
  <1>6. {} # m => Tab({})[{}] = t
    <2> HAVE {} # m
    <2>1. Retirements(t, q, {}, Tab({})) BY <1>3
    <2> HIDE DEF Tab
    <2> QED BY <2>1 DEF Retirements
  <1> HIDE DEF Tab
  <1>7. ASSUME NEW u \in SUBSET m
        PROVE  H[u] = IF u = {} THEN t ELSE Retire(H[u \ {Max(u)}], q[Max(u)])
    <2> DEFINE v == u \ {Max(u)}
    <2>1. CASE u = {} BY <2>1
    <2>2. CASE u # {}
      <3>1. Max(u) \in u BY <1>4, <2>2
      <3>2. v \in SUBSET m /\ v # m BY <3>1
      <3>3. H[v] = Tab(v)[v] BY <3>2, <1>6
      <3>4. H[u] = Retire(Tab(v)[v], q[Max(u)])
        <4>1. CASE u = m BY <4>1, <2>2
        <4>2. CASE u # m BY <4>2, <2>2, <1>5
        <4> QED BY <4>1, <4>2
      <3> QED BY <2>2, <3>3, <3>4
    <2> QED BY <2>1, <2>2
  <1>8. Retirements(t, q, m, H)
    <2>1. H = [u \in SUBSET m |-> H[u]] OBVIOUS
    <2> HIDE DEF H
    <2>2. H = [u \in SUBSET m |-> IF u = {} THEN t ELSE Retire(H[u \ {Max(u)}], q[Max(u)])]
      BY <2>1, <1>7
    <2> QED BY <2>2 DEF Retirements
  <1> QED BY <1>1, <1>2, <1>8

\* The places of the table are those of the whole order.
LEMMA RetireFirstRead ==
    ASSUME NEW t, Listed(t.order), NEW n \in 0 .. Len(t.order)
    PROVE  \E g : Retirements(t, t.order, 1 .. n, g) /\ RetireFirst(t, n) = g[1 .. n]
  <1> DEFINE q == SubSeq(t.order, 1, n)
             g == CHOOSE h : Retirements(t, q, 1 .. n, h)
  <1>1. /\ Len(t.order) \in Nat /\ DOMAIN t.order = 1 .. Len(t.order) BY ListedLength
  <1>2. n \in Nat BY <1>1
  <1>3. /\ DOMAIN q = 1 .. n /\ \A i \in 1 .. n : q[i] = t.order[i]
    <2>1. t.order \in Seq({t.order[i] : i \in DOMAIN t.order}) BY DEF Listed
    <2>2. Len(q) = n /\ q \in Seq({t.order[i] : i \in DOMAIN t.order})
          /\ \A i \in 1 .. n : q[i] = t.order[i]
      BY <1>1, <1>2, <2>1, SubSeqProperties
    <2> QED BY <2>2
  <1>4. IsFiniteSet(1 .. n) /\ \A x \in 1 .. n : x \in Int BY <1>2, FS_Interval
  <1>5. Retirements(t, q, 1 .. n, g)
    <2>1. \E h : Retirements(t, q, 1 .. n, h) BY <1>4, RetirementsExist
    <2> QED BY <2>1
  <1>6. RetireFirst(t, n) = g[1 .. n] BY <1>3, RetireFirstIsTable
  <1> HIDE DEF q, g
  <1>7. \A u \in SUBSET (1 .. n) : u # {} => q[Max(u)] = t.order[Max(u)]
    <2> SUFFICES ASSUME NEW u \in SUBSET (1 .. n), u # {} PROVE q[Max(u)] = t.order[Max(u)]
      OBVIOUS
    <2>1. IsFiniteSet(u) BY <1>4, FS_Subset
    <2>2. \A x \in u : x \in Int BY <1>4
    <2>3. Max(u) \in u BY <2>1, <2>2, FiniteMax
    <2> QED BY <1>3, <2>3
  <1>8. Retirements(t, t.order, 1 .. n, g)
    <2>1. \A u \in SUBSET (1 .. n) :
             (IF u = {} THEN t ELSE Retire(g[u \ {Max(u)}], q[Max(u)]))
               = (IF u = {} THEN t ELSE Retire(g[u \ {Max(u)}], t.order[Max(u)]))
      BY <1>7
    <2> QED BY <1>5, <2>1 DEF Retirements
  <1> QED BY <1>6, <1>8

\* Flows are retired one after the other, in the order of the table.
LEMMA RetireFirstSteps ==
    ASSUME NEW t, Listed(t.order)
    PROVE  /\ RetireFirst(t, 0) = t
           /\ \A n \in 0 .. Len(t.order) - 1 :
                 RetireFirst(t, n + 1) = Retire(RetireFirst(t, n), t.order[n + 1])
  <1>1. Len(t.order) \in Nat BY ListedLength
  <1>2. RetireFirst(t, 0) = t
    <2>1. PICK g : Retirements(t, t.order, 1 .. 0, g) /\ RetireFirst(t, 0) = g[1 .. 0]
      BY <1>1, RetireFirstRead
    <2>2. 1 .. 0 = {} OBVIOUS
    <2>3. Retirements(t, t.order, {}, g) /\ RetireFirst(t, 0) = g[{}] BY <2>1, <2>2
    <2> QED BY <2>3 DEF Retirements
  <1>3. ASSUME NEW n \in 0 .. Len(t.order) - 1
        PROVE  RetireFirst(t, n + 1) = Retire(RetireFirst(t, n), t.order[n + 1])
    <2> DEFINE S == 1 .. n + 1
               U == 1 .. n
    <2>1. n \in Nat /\ n \in 0 .. Len(t.order) /\ n + 1 \in 0 .. Len(t.order) BY <1>1
    <2>2. PICK g : Retirements(t, t.order, S, g) /\ RetireFirst(t, n + 1) = g[S]
      BY <2>1, RetireFirstRead
    <2>3. PICK h : Retirements(t, t.order, U, h) /\ RetireFirst(t, n) = h[U]
      BY <2>1, RetireFirstRead
    <2>4. IsFiniteSet(S) /\ (\A x \in S : x \in Int) /\ U \in SUBSET S BY <2>1, FS_Interval
    <2>5. S # {} /\ Max(S) = n + 1
      <3>1. n + 1 \in S /\ \A x \in S : x <= n + 1 BY <2>1
      <3> HIDE DEF S
      <3>2. Max(S) \in S /\ \A x \in S : x <= Max(S) BY <2>4, <3>1, FiniteMax
      <3>3. Max(S) <= n + 1 /\ n + 1 <= Max(S) BY <3>1, <3>2
      <3> QED BY <2>1, <2>4, <3>1, <3>2, <3>3
    <2>6. S \ {n + 1} = U BY <2>1
    <2> HIDE DEF S, U
    <2>7. g[U] = h[U] BY <2>2, <2>3, <2>4, RetirementsAgree
    <2>8. g[S] = Retire(g[S \ {Max(S)}], t.order[Max(S)]) BY <2>2, <2>5 DEF Retirements
    <2> QED BY <2>2, <2>3, <2>5, <2>6, <2>7, <2>8
  <1> QED BY <1>2, <1>3

\* What is left when the oldest n flows are retired.
Oldest(r, t, n, now) ==
    /\ Good(r, now) /\ Shrinks(r, t)
    /\ Len(r.order) = Len(t.order) - n
    /\ \A i \in DOMAIN r.order : r.order[i] = t.order[i + n]
    /\ DOMAIN r.flows \subseteq DOMAIN t.flows

\* Retiring the oldest flows loses nothing of what they queue.
LEMMA RetireFirstStage ==
    ASSUME NEW t, NEW now, Good(t, now), NEW n \in 0 .. Len(t.order)
    PROVE  Oldest(RetireFirst(t, n), t, n, now)
  <1> DEFINE Ok(m) == Oldest(RetireFirst(t, m), t, m, now)
             T == {m \in 0 .. Len(t.order) : ~Ok(m)}
  <1>1. IsTable(t) /\ Listed(t.order) BY DEF Good, Tidy, Core, IsTable
  <1>2. Len(t.order) \in Nat /\ DOMAIN t.order = 1 .. Len(t.order) BY <1>1, ListedLength
  <1>3. /\ RetireFirst(t, 0) = t
        /\ \A m \in 0 .. Len(t.order) - 1 :
              RetireFirst(t, m + 1) = Retire(RetireFirst(t, m), t.order[m + 1])
    BY <1>1, RetireFirstSteps
  <1>4. Ok(0)
    <2>1. Shrinks(t, t) BY <1>1, ShrinksSame
    <2>2. \A i \in DOMAIN t.order : i + 0 = i BY <1>2
    <2> QED BY <1>2, <1>3, <2>1, <2>2 DEF Oldest
  <1>5. ASSUME NEW m \in 0 .. Len(t.order) - 1, Ok(m) PROVE Ok(m + 1)
    <2> DEFINE r == RetireFirst(t, m)
               k == t.order[m + 1]
               u == RetireFirst(t, m + 1)
    <2>1. u = Retire(r, k) BY <1>3
    <2>2. Oldest(r, t, m, now) BY <1>5
    <2> HIDE DEF u, r, Ok
    <2>3. /\ Good(r, now) /\ Shrinks(r, t) /\ Len(r.order) = Len(t.order) - m
          /\ \A i \in DOMAIN r.order : r.order[i] = t.order[i + m]
          /\ DOMAIN r.flows \subseteq DOMAIN t.flows
      BY <2>2 DEF Oldest
    <2>4. IsTable(r) /\ Keys(r) /\ Listed(r.order) BY <2>3 DEF Good, Tidy, Core, IsTable
    <2>5. DOMAIN r.order = 1 .. Len(r.order) /\ Len(r.order) \in Nat BY <2>4, ListedLength
    <2>6. 1 \in DOMAIN r.order BY <1>2, <2>3, <2>5
    <2>7. r.order[1] = k
      <3>1. 1 + m = m + 1 OBVIOUS
      <3> QED BY <2>3, <2>6, <3>1
    <2>8. k \in DOMAIN r.flows BY <2>4, <2>6, <2>7 DEF Keys
    <2>9. Retired(Retire(r, k), r, k, now) BY <2>3, <2>8, RetireStage
    <2>10. Retired(u, r, k, now) BY <2>1, <2>9
    <2> HIDE DEF k
    <2>11. PICK p \in DOMAIN r.order : r.order[p] = k /\ Without(u.order, r.order, p)
      BY <2>10 DEF Retired
    <2>12. p = 1 BY <2>4, <2>6, <2>7, <2>11 DEF Keys
    <2>13. /\ Listed(u.order) /\ Len(u.order) = Len(r.order) - 1
           /\ \A i \in DOMAIN u.order : u.order[i] = r.order[IF i < 1 THEN i ELSE i + 1]
      BY <2>11, <2>12 DEF Without
    <2>14. DOMAIN u.order = 1 .. Len(u.order) /\ Len(u.order) \in Nat BY <2>13, ListedLength
    <2>15. Len(u.order) = Len(t.order) - (m + 1) BY <1>2, <2>3, <2>13
    <2>16. \A i \in DOMAIN u.order : u.order[i] = t.order[i + (m + 1)]
      <3> SUFFICES ASSUME NEW i \in DOMAIN u.order PROVE u.order[i] = t.order[i + (m + 1)]
        OBVIOUS
      <3>1. i \in Nat /\ ~(i < 1) /\ i + 1 \in DOMAIN r.order BY <2>5, <2>13, <2>14
      <3>2. (i + 1) + m = i + (m + 1) BY <1>2, <3>1
      <3>3. u.order[i] = r.order[i + 1] BY <2>13, <3>1
      <3>4. r.order[i + 1] = t.order[(i + 1) + m] BY <2>3, <3>1
      <3> QED BY <3>3, <3>4, <3>2
    <2>17. IsTable(u) /\ Good(u, now) BY <2>10 DEF Retired, Good, Tidy, Core
    <2>18. Shrinks(u, t)
      <3>1. Shrinks(u, r) BY <2>10 DEF Retired
      <3> QED BY <1>1, <2>3, <2>4, <2>17, <3>1, ShrinksTransitive
    <2>19. DOMAIN u.flows \subseteq DOMAIN t.flows BY <2>3, <2>10 DEF Retired
    <2>20. Oldest(u, t, m + 1, now) BY <2>15, <2>16, <2>17, <2>18, <2>19 DEF Oldest
    <2> QED BY <2>20 DEF u, Ok
  <1> SUFFICES ASSUME T # {} PROVE FALSE OBVIOUS
  <1>6. /\ T \subseteq 0 .. Len(t.order)
        /\ \A m \in T : ~Ok(m)
        /\ \A m \in 0 .. Len(t.order) : m \notin T => Ok(m)
    OBVIOUS
  <1> HIDE DEF T, Ok
  <1>7. T \subseteq Nat BY <1>2, <1>6
  <1>8. PICK m \in T : \A j \in T : m <= j BY <1>7, LeastNatural
  <1>9. m # 0 BY <1>4, <1>6
  <1>10. m \in Nat /\ m - 1 \in 0 .. Len(t.order) - 1 /\ m - 1 \in 0 .. Len(t.order) /\ (m - 1) + 1 = m
    BY <1>2, <1>6, <1>7, <1>8, <1>9
  <1>11. m - 1 \notin T BY <1>8, <1>10
  <1>12. Ok(m - 1) BY <1>6, <1>10, <1>11
  <1>13. Ok((m - 1) + 1) BY <1>5, <1>10, <1>12
  <1> QED BY <1>6, <1>8, <1>10, <1>13

-----------------------------------------------------------------------------
(***************************************************************************)
(* Evictions                                                               *)
(***************************************************************************)

\* u is t with other diagnostic counters.
Recounted(u, t) ==
    /\ Record(u) /\ IsStats(u.stats)
    /\ u.flows = t.flows /\ u.order = t.order /\ u.nextEpoch = t.nextEpoch
    /\ u.buffered = t.buffered /\ u.segments = t.segments /\ u.out = t.out

\* The counters do not matter to the rest of the table.
LEMMA RecountedGood ==
    ASSUME NEW t, NEW now, Good(t, now), NEW u, Recounted(u, t)
    PROVE  Good(u, now)
  <1>1. /\ IsTable(t) /\ Keys(t) /\ Timed(t, now) /\ Counted(t) /\ Epochs(t) /\ Labelled(t)
        /\ Behind(t) /\ InOrder(t) /\ Joined(t)
    BY DEF Good, Tidy, Core
  <1>2. /\ u.flows = t.flows /\ u.order = t.order /\ u.nextEpoch = t.nextEpoch
        /\ u.buffered = t.buffered /\ u.segments = t.segments /\ u.out = t.out
    BY DEF Recounted
  <1>3. IsTable(u) BY <1>1, <1>2 DEF IsTable, Recounted
  <1>4. Keys(u) /\ Timed(u, now) BY <1>1, <1>2 DEF Keys, Timed
  <1>5. Counted(u)
    <2>1. Places(u) = Places(t) BY <1>2 DEF Places
    <2>2. Held(u) = Held(t) BY <1>2, <2>1 DEF Held
    <2>3. Number(u) = Number(t) BY <1>2, <2>1 DEF Number
    <2> QED BY <1>1, <1>2, <2>1, <2>2, <2>3 DEF Counted
  <1>6. Epochs(u) /\ Labelled(u) BY <1>1, <1>2 DEF Epochs, Labelled
  <1>7. Behind(u) /\ InOrder(u) BY <1>1, <1>2 DEF Behind, InOrder
  <1>8. Joined(u) BY <1>1, <1>2 DEF Joined
  <1>9. Core(u, now) BY <1>3, <1>4, <1>5, <1>6, <1>7, <1>8 DEF Core
  <1> QED BY <1>2, <1>9 DEF Good, Tidy

\* Putting counters in their place.
LEMMA PutStats ==
    ASSUME NEW t, IsTable(t), NEW r, IsStats(r)
    PROVE  Recounted([t EXCEPT !.stats = r], t) /\ [t EXCEPT !.stats = r].stats = r
  <1> DEFINE u == [t EXCEPT !.stats = r]
  <1>1. Record(t) BY DEF IsTable
  <1>2. /\ u.flows = t.flows /\ u.order = t.order /\ u.nextEpoch = t.nextEpoch
        /\ u.buffered = t.buffered /\ u.segments = t.segments
    OBVIOUS
  <1>3. u.out = t.out /\ u.stats = r BY <1>1 DEF Record
  <1>4. Record(u) BY <1>1 DEF Record
  <1> HIDE DEF u
  <1>5. Recounted(u, t) BY <1>2, <1>3, <1>4 DEF Recounted
  <1> QED BY <1>3, <1>5 DEF u

\* u has the bytes of t, in a table of the same order.
LEMMA RecountedShrinks ==
    ASSUME NEW t, IsTable(t), NEW u, Recounted(u, t),
           u.stats.retransmitted = t.stats.retransmitted, u.stats.keepalive = t.stats.keepalive
    PROVE  Shrinks(u, t)
  <1>1. /\ u.order = t.order /\ u.buffered = t.buffered /\ u.segments = t.segments
        /\ u.out = t.out
    BY DEF Recounted
  <1>2. Balance(u) = Balance(t) BY <1>1 DEF Balance
  <1>3. t.buffered \in Int /\ t.segments \in Int /\ Listed(t.order) BY DEF IsTable
  <1>4. Len(t.order) \in Nat BY <1>3, ListedLength
  <1> QED BY <1>1, <1>2, <1>3, <1>4 DEF Shrinks

\* Counting evictions.
LEMMA CountEvicted ==
    ASSUME NEW t, IsTable(t), NEW n
    PROVE  LET u == [t EXCEPT !.stats.evicted = @ + n]
           IN  Recounted(u, t) /\ Shrinks(u, t)
  <1> DEFINE r == [t.stats EXCEPT !.evicted = @ + n]
             u == [t EXCEPT !.stats = r]
  <1>1. IsStats(t.stats) BY DEF IsTable
  <1>2. /\ DOMAIN r = DOMAIN t.stats /\ r = [z \in DOMAIN r |-> r[z]]
        /\ r.retransmitted = t.stats.retransmitted /\ r.keepalive = t.stats.keepalive
    OBVIOUS
  <1>3. t.stats.retransmitted \in Int /\ t.stats.keepalive \in Int BY <1>1 DEF IsStats
  <1> HIDE DEF r
  <1>4. IsStats(r) BY <1>1, <1>2, <1>3, StatsShape
  <1>5. Recounted(u, t) /\ u.stats = r BY <1>4, PutStats
  <1>6. Shrinks(u, t) BY <1>2, <1>5, RecountedShrinks
  <1>7. u = [t EXCEPT !.stats.evicted = @ + n] BY DEF r
  <1> QED BY <1>5, <1>6, <1>7

\* Counting evictions the budgets have caused.
LEMMA CountBudgetEvicted ==
    ASSUME NEW t, IsTable(t), NEW n
    PROVE  LET u == [t EXCEPT !.stats.budgetEvicted = @ + n]
           IN  Recounted(u, t) /\ Shrinks(u, t)
  <1> DEFINE r == [t.stats EXCEPT !.budgetEvicted = @ + n]
             u == [t EXCEPT !.stats = r]
  <1>1. IsStats(t.stats) BY DEF IsTable
  <1>2. /\ DOMAIN r = DOMAIN t.stats /\ r = [z \in DOMAIN r |-> r[z]]
        /\ r.retransmitted = t.stats.retransmitted /\ r.keepalive = t.stats.keepalive
    OBVIOUS
  <1>3. t.stats.retransmitted \in Int /\ t.stats.keepalive \in Int BY <1>1 DEF IsStats
  <1> HIDE DEF r
  <1>4. IsStats(r) BY <1>1, <1>2, <1>3, StatsShape
  <1>5. Recounted(u, t) /\ u.stats = r BY <1>4, PutStats
  <1>6. Shrinks(u, t) BY <1>2, <1>5, RecountedShrinks
  <1>7. u = [t EXCEPT !.stats.budgetEvicted = @ + n] BY DEF r
  <1> QED BY <1>5, <1>6, <1>7

\* Counting expiries.
LEMMA CountExpired ==
    ASSUME NEW t, IsTable(t), NEW n
    PROVE  LET u == [t EXCEPT !.stats.expired = @ + n]
           IN  Recounted(u, t) /\ Shrinks(u, t)
  <1> DEFINE r == [t.stats EXCEPT !.expired = @ + n]
             u == [t EXCEPT !.stats = r]
  <1>1. IsStats(t.stats) BY DEF IsTable
  <1>2. /\ DOMAIN r = DOMAIN t.stats /\ r = [z \in DOMAIN r |-> r[z]]
        /\ r.retransmitted = t.stats.retransmitted /\ r.keepalive = t.stats.keepalive
    OBVIOUS
  <1>3. t.stats.retransmitted \in Int /\ t.stats.keepalive \in Int BY <1>1 DEF IsStats
  <1> HIDE DEF r
  <1>4. IsStats(r) BY <1>1, <1>2, <1>3, StatsShape
  <1>5. Recounted(u, t) /\ u.stats = r BY <1>4, PutStats
  <1>6. Shrinks(u, t) BY <1>2, <1>5, RecountedShrinks
  <1>7. u = [t EXCEPT !.stats.expired = @ + n] BY DEF r
  <1> QED BY <1>5, <1>6, <1>7

\* A table with the counters of another keeps what was retired.
LEMMA OldestRecounted ==
    ASSUME NEW t, IsTable(t), NEW n, NEW now, NEW r, Oldest(r, t, n, now),
           NEW u, Recounted(u, r), Shrinks(u, r)
    PROVE  Oldest(u, t, n, now) /\ u.nextEpoch = r.nextEpoch
  <1>1. /\ Good(r, now) /\ Shrinks(r, t) /\ Len(r.order) = Len(t.order) - n
        /\ \A i \in DOMAIN r.order : r.order[i] = t.order[i + n]
        /\ DOMAIN r.flows \subseteq DOMAIN t.flows
    BY DEF Oldest
  <1>2. Good(u, now) BY <1>1, RecountedGood
  <1>3. IsTable(u) /\ IsTable(r) BY <1>1, <1>2 DEF Good, Tidy, Core
  <1>4. Shrinks(u, t) BY <1>1, <1>3, ShrinksTransitive
  <1>5. u.order = r.order /\ u.flows = r.flows /\ u.nextEpoch = r.nextEpoch BY DEF Recounted
  <1> QED BY <1>1, <1>2, <1>4, <1>5 DEF Oldest

\* Evictions retire the oldest flows.
LEMMA EvictStage ==
    ASSUME NEW t, NEW now, Good(t, now), NEW n \in 0 .. Len(t.order)
    PROVE  Oldest(Evict(t, n), t, n, now)
  <1> DEFINE r == RetireFirst(t, n)
             u == [r EXCEPT !.stats.evicted = @ + n]
  <1>1. Oldest(r, t, n, now) BY RetireFirstStage
  <1> HIDE DEF r
  <1>2. IsTable(r) /\ IsTable(t) BY <1>1 DEF Oldest, Good, Tidy, Core
  <1>3. Recounted(u, r) /\ Shrinks(u, r) BY <1>2, CountEvicted
  <1> HIDE DEF u
  <1>4. Oldest(u, t, n, now) BY <1>1, <1>2, <1>3, OldestRecounted
  <1> QED BY <1>4 DEF Evict, r, u

\* A table whose order is empty queues nothing.
LEMMA EmptyOrder ==
    ASSUME NEW t, NEW now, Good(t, now), Len(t.order) = 0
    PROVE  DOMAIN t.flows = {} /\ t.buffered = 0 /\ t.segments = 0
  <1>1. IsTable(t) /\ Keys(t) /\ Counted(t) BY DEF Good, Tidy, Core
  <1>2. Listed(t.order) BY <1>1 DEF IsTable
  <1>3. DOMAIN t.order = 1 .. Len(t.order) BY <1>2, ListedLength
  <1>4. DOMAIN t.order = {} BY <1>3
  <1>5. DOMAIN t.flows = {} BY <1>1, <1>4 DEF Keys
  <1>6. Places(t) = {} BY <1>5 DEF Places
  <1>7. t.buffered = SumFunctionOnSet(Held(t), {}) /\ t.segments = SumFunctionOnSet(Number(t), {})
    BY <1>1, <1>6 DEF Counted
  <1> QED BY <1>5, <1>7, SumEmpty

\* What is left when the budgets have been enforced.
Trimmed(u, t, now) ==
    /\ Good(u, now) /\ Shrinks(u, t) /\ DOMAIN u.flows \subseteq DOMAIN t.flows
    /\ WithinBudget(u)

\* The evictions stop, and then the budgets hold.
LEMMA BudgetStage ==
    ASSUME NEW t, NEW now, Good(t, now)
    PROVE  Trimmed(EvictOverBudget(t), t, now)
  <1> DEFINE N == {k \in 0 .. Len(t.order) : WithinBudget(RetireFirst(t, k)) \/ k = Len(t.order)}
             n == Min(N)
             r == RetireFirst(t, n)
             v == Evict(t, n)
             u == [v EXCEPT !.stats.budgetEvicted = @ + n]
  <1>1. IsTable(t) /\ Listed(t.order) BY DEF Good, Tidy, Core, IsTable
  <1>2. Len(t.order) \in Nat BY <1>1, ListedLength
  <1>3. n \in 0 .. Len(t.order) /\ (WithinBudget(r) \/ n = Len(t.order))
    <2>1. Len(t.order) \in N BY <1>2
    <2>2. N \subseteq 0 .. Len(t.order) OBVIOUS
    <2>3. IsFiniteSet(0 .. Len(t.order)) BY <1>2, FS_Interval
    <2>4. IsFiniteSet(N) /\ \A x \in N : x \in Int BY <1>2, <2>2, <2>3, FS_Subset
    <2>5. \A x \in N : x \in 0 .. Len(t.order) /\ (WithinBudget(RetireFirst(t, x)) \/ x = Len(t.order))
      OBVIOUS
    <2> HIDE DEF N
    <2>6. Min(N) \in N BY <2>1, <2>4, FiniteMin
    <2> QED BY <2>5, <2>6
  <1> HIDE DEF N, n
  <1>4. Oldest(r, t, n, now) BY <1>3, RetireFirstStage
  <1>5. Good(r, now) /\ IsTable(r) BY <1>4 DEF Oldest, Good, Tidy, Core
  <1>6. WithinBudget(r)
    <2> SUFFICES ASSUME n = Len(t.order) PROVE WithinBudget(r) BY <1>3
    <2>1. Len(r.order) = Len(t.order) - n BY <1>4 DEF Oldest
    <2>2. Len(r.order) = 0 BY <1>2, <2>1
    <2>3. r.buffered = 0 /\ r.segments = 0 BY <1>5, <2>2, EmptyOrder
    <2>4. MaxBuffered \in Nat /\ MaxBufferedSegments \in Nat BY TcpReassemblyAssumption
    <2> QED BY <2>3, <2>4 DEF WithinBudget
  <1>7. Oldest(v, t, n, now) /\ v.buffered = r.buffered /\ v.segments = r.segments
    <2>1. Oldest(v, t, n, now) BY <1>3, EvictStage
    <2>2. Recounted([r EXCEPT !.stats.evicted = @ + n], r) BY <1>5, CountEvicted
    <2>3. v = [r EXCEPT !.stats.evicted = @ + n] BY DEF Evict
    <2>4. Recounted(v, r) BY <2>2, <2>3
    <2> QED BY <2>1, <2>4 DEF Recounted
  <1> HIDE DEF v, r
  <1>8. IsTable(v) BY <1>7 DEF Oldest, Good, Tidy, Core
  <1>9. Recounted(u, v) /\ Shrinks(u, v) BY <1>8, CountBudgetEvicted
  <1> HIDE DEF u
  <1>10. Oldest(u, t, n, now) BY <1>1, <1>7, <1>9, OldestRecounted
  <1>11. WithinBudget(u) BY <1>6, <1>7, <1>9 DEF WithinBudget, Recounted
  <1>12. Trimmed(u, t, now) BY <1>10, <1>11 DEF Trimmed, Oldest
  <1> QED BY <1>12 DEF EvictOverBudget, N, n, v, u

-----------------------------------------------------------------------------
(***************************************************************************)
(* The most recent flow                                                    *)
(***************************************************************************)

\* q lists the members of D, each once.
Lists(q, D) ==
    /\ Listed(q)
    /\ \A i \in DOMAIN q : q[i] \in D
    /\ \A k \in D : \E i \in DOMAIN q : q[i] = k
    /\ \A i, j \in DOMAIN q : q[i] = q[j] => i = j

\* The activity of what q lists does not decrease and is not in the future.
Aged(q, f, now) ==
    /\ \A i \in DOMAIN q : f[q[i]].activity \in Nat /\ f[q[i]].activity <= now
    /\ \A i, j \in DOMAIN q : i < j => f[q[i]].activity <= f[q[j]].activity

\* What stands where when an element is appended.
LEMMA Appended ==
    ASSUME NEW q, Listed(q), NEW k
    PROVE  LET o == Append(q, k)
           IN  /\ Listed(o) /\ Len(q) \in Nat /\ Len(o) = Len(q) + 1
               /\ DOMAIN q = 1 .. Len(q) /\ DOMAIN o = 1 .. Len(q) + 1
               /\ \A i \in DOMAIN q : o[i] = q[i]
               /\ o[Len(q) + 1] = k
               /\ \A i \in DOMAIN o : i \in DOMAIN q \/ i = Len(q) + 1
  <1> DEFINE o == Append(q, k)
             S == {q[i] : i \in DOMAIN q} \cup {k}
  <1>1. Len(q) \in Nat /\ DOMAIN q = 1 .. Len(q) /\ q = [i \in 1 .. Len(q) |-> q[i]]
    BY ListedLength
  <1>2. q \in Seq(S) /\ k \in S
    <2>1. \A i \in 1 .. Len(q) : q[i] \in S BY <1>1
    <2> HIDE DEF S
    <2>2. q \in [1 .. Len(q) -> S] BY <1>1, <2>1
    <2>3. k \in S BY DEF S
    <2> QED BY <1>1, <2>2, <2>3
  <1> HIDE DEF S
  <1>3. o \in Seq(S) /\ Len(o) = Len(q) + 1 /\ o[Len(q) + 1] = k
        /\ \A i \in 1 .. Len(q) : o[i] = q[i]
    BY <1>2
  <1> HIDE DEF o
  <1>4. Listed(o) BY <1>3, ListedIn
  <1>5. DOMAIN o = 1 .. Len(q) + 1 BY <1>3, <1>4, ListedLength
  <1>6. \A i \in DOMAIN o : i \in DOMAIN q \/ i = Len(q) + 1 BY <1>1, <1>5
  <1> QED BY <1>1, <1>3, <1>4, <1>5, <1>6 DEF o

\* A new element is listed last.
LEMMA AppendLists ==
    ASSUME NEW q, NEW D, Lists(q, D), NEW k, k \notin D
    PROVE  Lists(Append(q, k), D \cup {k}) /\ Len(Append(q, k)) = Len(q) + 1
  <1> DEFINE o == Append(q, k)
             l == Len(q) + 1
  <1>1. Listed(q) BY DEF Lists
  <1>2. /\ Listed(o) /\ Len(q) \in Nat /\ Len(o) = l
        /\ DOMAIN q = 1 .. Len(q) /\ DOMAIN o = 1 .. l
        /\ \A i \in DOMAIN q : o[i] = q[i]
        /\ o[l] = k
        /\ \A i \in DOMAIN o : i \in DOMAIN q \/ i = l
    BY <1>1, Appended
  <1>3. l \in DOMAIN o /\ DOMAIN q \subseteq DOMAIN o BY <1>2
  <1> HIDE DEF o, l
  <1>4. \A i \in DOMAIN o : o[i] \in D \cup {k} BY <1>2 DEF Lists
  <1>5. \A j \in D \cup {k} : \E i \in DOMAIN o : o[i] = j
    <2>1. \A j \in D : \E i \in DOMAIN o : o[i] = j BY <1>2, <1>3 DEF Lists
    <2> QED BY <1>2, <1>3, <2>1
  <1>6. \A i, j \in DOMAIN o : o[i] = o[j] => i = j
    <2>1. \A i \in DOMAIN q : o[i] # k BY <1>2 DEF Lists
    <2> QED BY <1>2, <2>1 DEF Lists
  <1>7. Lists(o, D \cup {k}) BY <1>2, <1>4, <1>5, <1>6 DEF Lists
  <1> QED BY <1>2, <1>7 DEF o, l

\* The most recent flow may stand last.
LEMMA AppendAged ==
    ASSUME NEW q, Listed(q), NEW f, NEW now \in Nat, Aged(q, f, now),
           NEW k, f[k].activity = now
    PROVE  Aged(Append(q, k), f, now)
  <1> DEFINE o == Append(q, k)
             l == Len(q) + 1
  <1>1. /\ DOMAIN q = 1 .. Len(q) /\ DOMAIN o = 1 .. l /\ Len(q) \in Nat
        /\ \A i \in DOMAIN q : o[i] = q[i]
        /\ o[l] = k
        /\ \A i \in DOMAIN o : i \in DOMAIN q \/ i = l
    BY Appended
  <1>2. \A i, j \in DOMAIN o : i < j => i \in DOMAIN q BY <1>1
  <1> HIDE DEF o, l
  <1>3. \A i \in DOMAIN o : f[o[i]].activity \in Nat /\ f[o[i]].activity <= now
    BY <1>1 DEF Aged
  <1>4. ASSUME NEW i \in DOMAIN o, NEW j \in DOMAIN o, i < j
        PROVE  f[o[i]].activity <= f[o[j]].activity
    <2>1. i \in DOMAIN q BY <1>2, <1>4
    <2>2. CASE j \in DOMAIN q BY <1>1, <1>4, <2>1, <2>2 DEF Aged
    <2>3. CASE j = l BY <1>1, <1>3, <2>3
    <2> QED BY <1>1, <2>2, <2>3
  <1>5. Aged(o, f, now) BY <1>3, <1>4 DEF Aged
  <1> QED BY <1>5 DEF o

\* The others stay listed when one is taken out.
LEMMA WithoutLists ==
    ASSUME NEW s, NEW D, Lists(s, D), NEW p \in DOMAIN s, NEW q, Without(q, s, p),
           NEW f, NEW now, Aged(s, f, now)
    PROVE  Lists(q, D \ {s[p]}) /\ Aged(q, f, now)
  <1>1. Listed(s) /\ Listed(q) BY DEF Lists, Without
  <1>2. /\ \A i \in DOMAIN q : \E x \in DOMAIN s : x # p /\ q[i] = s[x]
        /\ \A x \in DOMAIN s : x # p => \E i \in DOMAIN q : q[i] = s[x]
        /\ \A i, j \in DOMAIN q :
              i < j => \E x, y \in DOMAIN s : x < y /\ q[i] = s[x] /\ q[j] = s[y]
    BY <1>1, WithoutPlaces
  <1>3. DOMAIN s \subseteq Int /\ DOMAIN q \subseteq Int
    <2>1. Len(s) \in Nat /\ DOMAIN s = 1 .. Len(s) BY <1>1, ListedLength
    <2>2. Len(q) \in Nat /\ DOMAIN q = 1 .. Len(q) BY <1>1, ListedLength
    <2> QED BY <2>1, <2>2
  <1>4. \A i \in DOMAIN q : q[i] \in D \ {s[p]} BY <1>2 DEF Lists
  <1>5. \A k \in D \ {s[p]} : \E i \in DOMAIN q : q[i] = k BY <1>2 DEF Lists
  <1>6. \A i, j \in DOMAIN q : i < j => q[i] # q[j]
    <2> SUFFICES ASSUME NEW i \in DOMAIN q, NEW j \in DOMAIN q, i < j PROVE q[i] # q[j]
      OBVIOUS
    <2>1. PICK x \in DOMAIN s, y \in DOMAIN s : x < y /\ q[i] = s[x] /\ q[j] = s[y] BY <1>2
    <2>2. x # y BY <1>3, <2>1
    <2> QED BY <2>1, <2>2 DEF Lists
  <1>7. \A i, j \in DOMAIN q : q[i] = q[j] => i = j
    <2>1. \A i, j \in DOMAIN q : i = j \/ i < j \/ j < i BY <1>3
    <2> QED BY <1>6, <2>1
  <1>8. Lists(q, D \ {s[p]}) BY <1>1, <1>4, <1>5, <1>7 DEF Lists
  <1>9. Aged(q, f, now) BY <1>2 DEF Aged
  <1> QED BY <1>8, <1>9

\* What a table keeps when a flow is touched.
Touched(u, t, k, now) ==
    /\ Good(u, now) /\ k \in DOMAIN u.flows
    /\ u.buffered = t.buffered /\ u.segments = t.segments
    /\ u.stats = t.stats /\ u.out = t.out

\* The order of a good table.
LEMMA GoodOrder ==
    ASSUME NEW t, NEW now \in Nat, Good(t, now)
    PROVE  Lists(t.order, DOMAIN t.flows) /\ Aged(t.order, t.flows, now)
  <1>1. IsTable(t) /\ Keys(t) /\ Timed(t, now) BY DEF Good, Tidy, Core
  <1>2. \A k \in DOMAIN t.flows : t.flows[k].activity \in Nat BY <1>1 DEF IsTable, IsFlow
  <1>3. Lists(t.order, DOMAIN t.flows) BY <1>1 DEF Keys, Lists, IsTable
  <1>4. Aged(t.order, t.flows, now) BY <1>1, <1>2 DEF Keys, Timed, Aged
  <1> QED BY <1>3, <1>4

\* The order of a table that lists its flows by age.
LEMMA ListsTimed ==
    ASSUME NEW u, NEW now, Lists(u.order, DOMAIN u.flows), Aged(u.order, u.flows, now)
    PROVE  Keys(u) /\ Timed(u, now)
  <1>1. Keys(u) BY DEF Lists, Keys
  <1>2. \A k \in DOMAIN u.flows : u.flows[k].activity <= now BY DEF Lists, Aged
  <1> QED BY <1>1, <1>2 DEF Aged, Timed

\* A known flow becomes the most recent one.
LEMMA TouchKnown ==
    ASSUME NEW t, NEW now \in Nat, Good(t, now), NEW k \in DOMAIN t.flows
    PROVE  LET u == [t EXCEPT !.flows[k].activity = now,
                              !.order = Append(RemoveFirst(@, k), k)]
           IN  Touched(u, t, k, now) /\ Len(u.order) = Len(t.order)
  <1> DEFINE u == [t EXCEPT !.flows[k].activity = now, !.order = Append(RemoveFirst(@, k), k)]
             f == [epoch |-> t.flows[k].epoch, activity |-> now, dirs |-> t.flows[k].dirs]
             q == RemoveFirst(t.order, k)
  <1>1. /\ IsTable(t) /\ Keys(t) /\ Timed(t, now) /\ Counted(t) /\ Epochs(t) /\ Labelled(t)
        /\ Behind(t) /\ InOrder(t) /\ Joined(t)
    BY DEF Good, Tidy, Core
  <1>2. Record(t) /\ IsFlow(t.flows[k]) /\ Listed(t.order)
        /\ t.flows = [j \in DOMAIN t.flows |-> t.flows[j]]
    BY <1>1 DEF IsTable
  <1>3. Lists(t.order, DOMAIN t.flows) /\ Aged(t.order, t.flows, now) BY GoodOrder
  <1>4. [t.flows[k] EXCEPT !.activity = now] = f BY <1>2 DEF IsFlow
  <1>5. u.flows = [t.flows EXCEPT ![k] = f]
    <2>1. u.flows = [t.flows EXCEPT ![k].activity = now] BY <1>2 DEF Record
    <2> QED BY <1>4, <2>1
  <1>6. u.order = Append(q, k) BY <1>2 DEF Record
  <1>7. u.buffered = t.buffered /\ u.segments = t.segments /\ u.nextEpoch = t.nextEpoch
    BY <1>2 DEF Record
  <1>8. u.stats = t.stats /\ u.out = t.out BY <1>2 DEF Record
  <1>9. Record(u)
    <2>1. DOMAIN u = DOMAIN t /\ u = [x \in DOMAIN u |-> u[x]] OBVIOUS
    <2>2. DOMAIN t = {"flows", "order", "nextEpoch", "buffered", "segments", "stats", "out"}
      BY <1>2 DEF Record
    <2> HIDE DEF u
    <2> QED BY <2>1, <2>2 DEF Record
  <1> HIDE DEF u, q
  <1>10. /\ DOMAIN u.flows = DOMAIN t.flows /\ u.flows = [j \in DOMAIN u.flows |-> u.flows[j]]
         /\ u.flows[k] = f /\ \A j \in DOMAIN t.flows : j # k => u.flows[j] = t.flows[j]
    BY <1>2, <1>5
  <1>11. /\ u.flows[k].epoch = t.flows[k].epoch /\ u.flows[k].activity = now
         /\ u.flows[k].dirs = t.flows[k].dirs
    BY <1>10
  <1>12. IsFlow(u.flows[k])
    <2>1. f.epoch \in Nat /\ f.activity \in Nat BY <1>2 DEF IsFlow
    <2>2. f.dirs = [x \in {0, 1} |-> f.dirs[x]] BY <1>2 DEF IsFlow
    <2>3. \A x \in {0, 1} : IsDirection(f.dirs[x]) BY <1>2 DEF IsFlow
    <2>4. IsFlow(f) BY <2>1, <2>2, <2>3 DEF IsFlow
    <2> QED BY <1>10, <2>4
  <1> HIDE DEF f
  <1>13. \A j \in DOMAIN t.flows : /\ IsFlow(u.flows[j])
                                   /\ u.flows[j].epoch = t.flows[j].epoch
                                   /\ u.flows[j].dirs = t.flows[j].dirs
    BY <1>1, <1>10, <1>11, <1>12 DEF IsTable
  <1>14. PICK p \in DOMAIN t.order : t.order[p] = k BY <1>1 DEF Keys
  <1>15. Without(q, t.order, p)
    <2>1. \A i \in DOMAIN t.order : t.order[i] = t.order[p] => i = p BY <1>1 DEF Keys
    <2>2. Without(RemoveFirst(t.order, t.order[p]), t.order, p) BY <1>2, <2>1, RemoveFirstOnce
    <2> QED BY <1>14, <2>2 DEF q
  <1>16. Lists(q, DOMAIN t.flows \ {k}) /\ Aged(q, t.flows, now)
    BY <1>3, <1>14, <1>15, WithoutLists
  <1>17. Lists(u.order, DOMAIN u.flows) /\ Len(u.order) = Len(t.order)
    <2>1. /\ Lists(Append(q, k), (DOMAIN t.flows \ {k}) \cup {k})
          /\ Len(Append(q, k)) = Len(q) + 1
      BY <1>16, AppendLists
    <2>2. (DOMAIN t.flows \ {k}) \cup {k} = DOMAIN t.flows OBVIOUS
    <2>3. Len(q) = Len(t.order) - 1 BY <1>15 DEF Without
    <2>4. Len(t.order) \in Nat BY <1>2, ListedLength
    <2>5. Len(u.order) = Len(q) + 1 BY <1>6, <2>1
    <2>6. Len(u.order) = Len(t.order) BY <2>3, <2>4, <2>5
    <2> QED BY <1>6, <1>10, <2>1, <2>2, <2>6
  <1>18. Aged(u.order, u.flows, now)
    <2>1. \A i \in DOMAIN q : u.flows[q[i]] = t.flows[q[i]] BY <1>10, <1>16 DEF Lists
    <2>2. Aged(q, u.flows, now) BY <1>16, <2>1 DEF Aged
    <2>3. Listed(q) BY <1>16 DEF Lists
    <2> QED BY <1>6, <1>11, <2>2, <2>3, AppendAged
  <1>19. Keys(u) /\ Timed(u, now) BY <1>17, <1>18, ListsTimed
  <1>20. IsTable(u)
    <2>1. \A j \in DOMAIN u.flows : IsFlow(u.flows[j]) BY <1>10, <1>13
    <2>2. u.nextEpoch \in Nat /\ IsStats(u.stats) /\ Listed(u.out) BY <1>1, <1>7, <1>8 DEF IsTable
    <2>3. u.buffered \in Int /\ u.segments \in Int BY <1>1, <1>7 DEF IsTable
    <2>4. Listed(u.order) BY <1>17 DEF Lists
    <2> QED BY <1>9, <1>10, <2>1, <2>2, <2>3, <2>4 DEF IsTable
  <1>21. Counted(u)
    <2>1. Places(u) = Places(t) BY <1>10 DEF Places
    <2>2. \A y \in Places(t) : u.flows[y[1]].dirs = t.flows[y[1]].dirs
      <3> SUFFICES ASSUME NEW y \in Places(t) PROVE u.flows[y[1]].dirs = t.flows[y[1]].dirs
        OBVIOUS
      <3>1. PICK j \in DOMAIN t.flows, x \in {0, 1} : y = <<j, x>> BY DEF Places
      <3> QED BY <1>13, <3>1
    <2>3. Held(u) = Held(t) BY <2>1, <2>2 DEF Held
    <2>4. Number(u) = Number(t) BY <2>1, <2>2 DEF Number
    <2> QED BY <1>1, <1>7, <2>1, <2>3, <2>4 DEF Counted
  <1>22. Epochs(u) BY <1>1, <1>7, <1>10, <1>13 DEF Epochs
  <1>23. Labelled(u) /\ InOrder(u) BY <1>1, <1>7, <1>8 DEF Labelled, InOrder
  <1>24. Behind(u) BY <1>1, <1>8, <1>10, <1>13 DEF Behind
  <1>25. Joined(u) BY <1>1, <1>8, <1>10, <1>13 DEF Joined
  <1>26. Core(u, now) BY <1>19, <1>20, <1>21, <1>22, <1>23, <1>24, <1>25 DEF Core
  <1>27. Tidy(u, now) BY <1>10, <1>13, <1>26 DEF Good, Tidy
  <1>28. Good(u, now) BY <1>10, <1>13, <1>27 DEF Good, OneOpen
  <1>29. Touched(u, t, k, now) BY <1>7, <1>8, <1>10, <1>28 DEF Touched
  <1> QED BY <1>17, <1>29 DEF u

\* A direction of which nothing is known is a direction.
LEMMA NewDirectionIs ==
    /\ IsDirection(NewDirection) /\ Settled(NewDirection)
    /\ NewDirection.next = NoSeq /\ NewDirection.offset = 0 /\ NewDirection.gap = FALSE
    /\ NewDirection.pending = {} /\ NewDirection.closed = FALSE
  <1> DEFINE d == NewDirection
  <1>1. /\ d.next = NoSeq /\ d.offset = 0 /\ d.gap = FALSE /\ d.pending = {} /\ d.closed = FALSE
        /\ d.pendingBytes = 0
    BY DEF NewDirection
  <1>2. d = [next |-> d.next, offset |-> d.offset, midstream |-> d.midstream, gap |-> d.gap,
             syn |-> d.syn, pending |-> d.pending, pendingBytes |-> d.pendingBytes,
             history |-> d.history, acked |-> d.acked, closed |-> d.closed]
    BY DEF NewDirection
  <1>3. Bytes({}) = 0 /\ Cardinality({}) = 0 /\ IsFiniteSet({}) BY BytesEmpty, FS_EmptySet
  <1>4. Queue({}) BY <1>3 DEF Queue
  <1>5. NoSeq \in Int BY NoSeqNegative
  <1> HIDE DEF d
  <1>6. Waiting(d) BY <1>1, <1>3, <1>4, <1>5 DEF Waiting
  <1>7. d.offset \in Int BY <1>1
  <1>8. d.gap \in BOOLEAN BY <1>1, Zenon
  <1>9. IsDirection(d) BY <1>2, <1>6, <1>7, <1>8, Zenon DEF IsDirection
  <1>10. MaxPending \in Nat /\ MaxSegments \in Nat BY TcpReassemblyAssumption
  <1>11. Settled(d) BY <1>1, <1>3, <1>10 DEF Settled
  <1> QED BY <1>1, <1>9, <1>11 DEF d

\* A new flow begins a connection no chunk belongs to.
LEMMA TouchNew ==
    ASSUME NEW t, NEW now \in Nat, Good(t, now), NEW k, k \notin DOMAIN t.flows
    PROVE  LET u == [t EXCEPT !.flows = [j \in DOMAIN t.flows \cup {k} |->
                                           IF j = k
                                             THEN [epoch |-> t.nextEpoch, activity |-> now,
                                                   dirs |-> [d \in {0, 1} |-> NewDirection]]
                                             ELSE t.flows[j]],
                              !.order = Append(@, k),
                              !.nextEpoch = @ + 1]
           IN  Touched(u, t, k, now) /\ Len(u.order) = Len(t.order) + 1
  <1> DEFINE f == [epoch |-> t.nextEpoch, activity |-> now,
                   dirs |-> [d \in {0, 1} |-> NewDirection]]
             F == [j \in DOMAIN t.flows \cup {k} |-> IF j = k THEN f ELSE t.flows[j]]
             u == [t EXCEPT !.flows = F, !.order = Append(@, k), !.nextEpoch = @ + 1]
  <1>1. /\ IsTable(t) /\ Keys(t) /\ Timed(t, now) /\ Counted(t) /\ Epochs(t) /\ Labelled(t)
        /\ Behind(t) /\ InOrder(t) /\ Joined(t)
    BY DEF Good, Tidy, Core
  <1>2. Record(t) /\ Listed(t.order) /\ Listed(t.out) /\ t.nextEpoch \in Nat BY <1>1 DEF IsTable
  <1>3. Lists(t.order, DOMAIN t.flows) /\ Aged(t.order, t.flows, now) BY GoodOrder
  <1> HIDE DEF F
  <1>4. u.flows = F BY <1>2 DEF Record
  <1>5. u.order = Append(t.order, k) BY <1>2 DEF Record
  <1>6. u.nextEpoch = t.nextEpoch + 1 BY <1>2 DEF Record
  <1>7. u.buffered = t.buffered /\ u.segments = t.segments BY <1>2 DEF Record
  <1>8. u.stats = t.stats /\ u.out = t.out BY <1>2 DEF Record
  <1>9. Record(u)
    <2>1. DOMAIN u = DOMAIN t /\ u = [x \in DOMAIN u |-> u[x]] OBVIOUS
    <2>2. DOMAIN t = {"flows", "order", "nextEpoch", "buffered", "segments", "stats", "out"}
      BY <1>2 DEF Record
    <2> HIDE DEF u
    <2> QED BY <2>1, <2>2 DEF Record
  <1> HIDE DEF u
  <1>10. /\ DOMAIN u.flows = DOMAIN t.flows \cup {k}
         /\ u.flows = [j \in DOMAIN u.flows |-> u.flows[j]]
         /\ u.flows[k] = f /\ \A j \in DOMAIN t.flows : u.flows[j] = t.flows[j]
    BY <1>4 DEF F
  <1>11. /\ u.flows[k].epoch = t.nextEpoch /\ u.flows[k].activity = now
         /\ \A x \in {0, 1} : u.flows[k].dirs[x] = NewDirection
    BY <1>10
  <1>12. IsFlow(u.flows[k])
    <2>1. IsDirection(NewDirection) BY NewDirectionIs
    <2>2. f.epoch \in Nat /\ f.activity \in Nat BY <1>2
    <2>3. IsFlow(f) BY <2>1, <2>2 DEF IsFlow
    <2> QED BY <1>10, <2>3
  <1> HIDE DEF f
  <1>13. Lists(u.order, DOMAIN u.flows) /\ Len(u.order) = Len(t.order) + 1
    BY <1>3, <1>5, <1>10, AppendLists
  <1>14. Aged(u.order, u.flows, now)
    <2>1. \A i \in DOMAIN t.order : u.flows[t.order[i]] = t.flows[t.order[i]]
      BY <1>3, <1>10 DEF Lists
    <2>2. /\ \A i \in DOMAIN t.order : /\ u.flows[t.order[i]].activity \in Nat
                                       /\ u.flows[t.order[i]].activity <= now
          /\ \A i, j \in DOMAIN t.order :
                i < j => u.flows[t.order[i]].activity <= u.flows[t.order[j]].activity
      BY <1>3, <2>1 DEF Aged
    <2>3. Aged(t.order, u.flows, now) BY <2>2 DEF Aged
    <2> QED BY <1>2, <1>5, <1>11, <2>3, AppendAged
  <1>15. Keys(u) /\ Timed(u, now) BY <1>13, <1>14, ListsTimed
  <1>16. IsTable(u)
    <2>1. \A j \in DOMAIN u.flows : IsFlow(u.flows[j]) BY <1>1, <1>10, <1>12 DEF IsTable
    <2>2. u.nextEpoch \in Nat /\ IsStats(u.stats) /\ Listed(u.out)
      BY <1>1, <1>2, <1>6, <1>8 DEF IsTable
    <2>3. u.buffered \in Int /\ u.segments \in Int BY <1>1, <1>7 DEF IsTable
    <2>4. Listed(u.order) BY <1>13 DEF Lists
    <2> QED BY <1>9, <1>10, <2>1, <2>2, <2>3, <2>4 DEF IsTable
  <1>17. Counted(u)
    <2> DEFINE U == {<<k, x>> : x \in {0, 1}}
               S == Places(u)
    <2>1. Natural(Held(u), S) /\ Natural(Number(u), S) BY <1>15, <1>16, PlacesFinite
    <2>2. Places(t) = S \ U /\ U \in SUBSET S BY <1>10 DEF Places
    <2>3. \A y \in U : Held(u)[y] = 0 /\ Number(u)[y] = 0
      <3> SUFFICES ASSUME NEW x \in {0, 1}
                   PROVE  Held(u)[<<k, x>>] = 0 /\ Number(u)[<<k, x>>] = 0
        OBVIOUS
      <3>1. <<k, x>> \in S BY <1>10 DEF Places
      <3>2. u.flows[k].dirs[x].pending = {} BY <1>11, NewDirectionIs
      <3>3. Bytes({}) = 0 /\ Cardinality({}) = 0 BY BytesEmpty, FS_EmptySet
      <3> QED BY <3>1, <3>2, <3>3 DEF Held, Number
    <2>4. \A y \in Places(t) : Held(u)[y] = Held(t)[y] /\ Number(u)[y] = Number(t)[y]
      <3> SUFFICES ASSUME NEW y \in Places(t)
                   PROVE  Held(u)[y] = Held(t)[y] /\ Number(u)[y] = Number(t)[y]
        OBVIOUS
      <3>1. PICK j \in DOMAIN t.flows, x \in {0, 1} : y = <<j, x>> BY DEF Places
      <3>2. <<j, x>> \in Places(u) /\ <<j, x>> \in Places(t) BY <1>10 DEF Places
      <3>3. u.flows[j] = t.flows[j] BY <1>10
      <3> QED BY <3>1, <3>2, <3>3 DEF Held, Number
    <2> HIDE DEF U, S
    <2>5. /\ SumFunctionOnSet(Held(u), S \ U) = SumFunctionOnSet(Held(u), S)
          /\ SumFunctionOnSet(Number(u), S \ U) = SumFunctionOnSet(Number(u), S)
      BY <2>1, <2>2, <2>3, SumWithoutZeros
    <2>6. Integral(Held(u), S \ U) /\ Integral(Number(u), S \ U)
      BY <2>1, FS_Subset DEF Natural, Integral
    <2>7. /\ SumFunctionOnSet(Held(u), S \ U) = SumFunctionOnSet(Held(t), S \ U)
          /\ SumFunctionOnSet(Number(u), S \ U) = SumFunctionOnSet(Number(t), S \ U)
      BY <2>2, <2>4, <2>6, SumSame
    <2> QED BY <1>1, <1>7, <2>2, <2>5, <2>7 DEF Counted, S
  <1>18. \A j \in DOMAIN t.flows : t.flows[j].epoch \in Nat /\ t.flows[j].epoch < t.nextEpoch
    BY <1>1 DEF IsTable, IsFlow, Epochs
  <1>19. Epochs(u)
    <2>1. \A j \in DOMAIN u.flows : u.flows[j].epoch < u.nextEpoch
      BY <1>2, <1>6, <1>10, <1>11, <1>18
    <2>2. \A j \in DOMAIN t.flows : t.flows[j].epoch # t.nextEpoch BY <1>2, <1>18
    <2>3. \A i, j \in DOMAIN u.flows : u.flows[i].epoch = u.flows[j].epoch => i = j
      BY <1>1, <1>10, <1>11, <2>2 DEF Epochs
    <2> QED BY <2>1, <2>3 DEF Epochs
  <1>20. Labelled(u) BY <1>1, <1>2, <1>6, <1>8 DEF Labelled
  <1>21. \A i \in DOMAIN u.out : u.out[i].epoch # t.nextEpoch BY <1>1, <1>2, <1>8 DEF Labelled
  <1>22. InOrder(u) BY <1>1, <1>8 DEF InOrder
  <1>23. Behind(u)
    <2> SUFFICES ASSUME NEW j \in DOMAIN u.flows, NEW x \in {0, 1}, NEW i \in DOMAIN u.out,
                        u.out[i].epoch = u.flows[j].epoch, u.out[i].dir = x
                 PROVE  /\ u.out[i].flow = j /\ u.flows[j].dirs[x].next # NoSeq
                        /\ u.out[i].offset + Len(u.out[i].data) <= u.flows[j].dirs[x].offset
                        /\ u.out[i].start - u.out[i].offset
                             = u.flows[j].dirs[x].next - u.flows[j].dirs[x].offset
      BY DEF Behind
    <2>1. j # k BY <1>11, <1>21
    <2>2. j \in DOMAIN t.flows /\ u.flows[j] = t.flows[j] BY <1>10, <2>1
    <2> QED BY <1>1, <1>8, <2>2 DEF Behind
  <1>24. Joined(u)
    <2>1. \A x \in {0, 1} : Total(u.out, t.nextEpoch, x, Len(u.out)) = 0
      <3>1. Len(u.out) \in Nat /\ DOMAIN u.out = 1 .. Len(u.out) BY <1>2, <1>8, ListedLength
      <3> QED BY <1>21, <3>1, TotalExtreme
    <2>2. \A x \in {0, 1} : u.flows[k].dirs[x].offset = 0 BY <1>11, NewDirectionIs
    <2>3. \A j \in DOMAIN u.flows, x \in {0, 1} :
             ~u.flows[j].dirs[x].gap =>
                u.flows[j].dirs[x].offset = Total(u.out, u.flows[j].epoch, x, Len(u.out))
      <3> SUFFICES ASSUME NEW j \in DOMAIN u.flows, NEW x \in {0, 1}, ~u.flows[j].dirs[x].gap
                   PROVE  u.flows[j].dirs[x].offset
                            = Total(u.out, u.flows[j].epoch, x, Len(u.out))
        OBVIOUS
      <3>1. CASE j = k BY <1>11, <2>1, <2>2, <3>1
      <3>2. CASE j # k BY <1>1, <1>8, <1>10, <3>2 DEF Joined
      <3> QED BY <3>1, <3>2
    <2> QED BY <1>1, <1>8, <2>3 DEF Joined
  <1>25. Core(u, now)
    BY <1>15, <1>16, <1>17, <1>19, <1>20, <1>22, <1>23, <1>24 DEF Core
  <1>26. \A x \in {0, 1} : Settled(u.flows[k].dirs[x]) /\ u.flows[k].dirs[x].closed = FALSE
    BY <1>11, NewDirectionIs
  <1>27. Tidy(u, now) BY <1>10, <1>25, <1>26 DEF Good, Tidy
  <1>28. Good(u, now) BY <1>10, <1>26, <1>27 DEF Good, OneOpen
  <1>29. Touched(u, t, k, now) BY <1>7, <1>8, <1>10, <1>28 DEF Touched
  <1> QED BY <1>13, <1>29 DEF u, F, f

-----------------------------------------------------------------------------
(***************************************************************************)
(* The stages of process                                                   *)
(***************************************************************************)

\* A stage that keeps the limits of the table and accounts for the same bytes.
Kept(u, t, now) == Good(u, now) /\ Bounded(u) /\ Balance(u) = Balance(t)

\* A table that shrinks stays within its limits.
LEMMA ShrinksBounded ==
    ASSUME NEW t, NEW u, IsTable(t), IsTable(u), Bounded(t), Shrinks(u, t)
    PROVE  Bounded(u) /\ Balance(u) = Balance(t)
  <1>1. /\ t.buffered \in Int /\ t.segments \in Int /\ Listed(t.order)
        /\ u.buffered \in Int /\ u.segments \in Int /\ Listed(u.order)
    BY DEF IsTable
  <1>2. Len(t.order) \in Nat /\ Len(u.order) \in Nat BY <1>1, ListedLength
  <1>3. MaxFlows \in Nat /\ MaxBuffered \in Nat /\ MaxBufferedSegments \in Nat
    BY TcpReassemblyAssumption
  <1>4. /\ u.buffered <= t.buffered /\ u.segments <= t.segments /\ Len(u.order) <= Len(t.order)
        /\ Balance(u) = Balance(t)
    BY DEF Shrinks
  <1>5. Len(t.order) <= MaxFlows /\ t.buffered <= MaxBuffered /\ t.segments <= MaxBufferedSegments
    BY DEF Bounded, WithinBudget
  <1>6. Len(u.order) <= MaxFlows BY <1>2, <1>3, <1>4, <1>5
  <1>7. u.buffered <= MaxBuffered /\ u.segments <= MaxBufferedSegments BY <1>1, <1>3, <1>4, <1>5
  <1> QED BY <1>4, <1>6, <1>7 DEF Bounded, WithinBudget

\* A good table is a table.
LEMMA GoodTable == ASSUME NEW t, NEW now, Good(t, now) PROVE IsTable(t)
  BY DEF Good, Tidy, Core

\* The old connection of a reused flow is retired.
LEMMA NewConnectionStage ==
    ASSUME NEW t, NEW now, Good(t, now), Bounded(t), NEW p
    PROVE  Kept(NewConnection(t, p), t, now)
  <1> DEFINE u == NewConnection(t, p)
  <1>1. CASE u = t BY <1>1 DEF Kept
  <1>2. CASE p.flow \in DOMAIN t.flows /\ u = Retire(t, p.flow)
    <2>1. Retired(Retire(t, p.flow), t, p.flow, now) BY <1>2, RetireStage
    <2>2. Retired(u, t, p.flow, now) BY <1>2, <2>1
    <2> HIDE DEF u
    <2>3. Good(u, now) /\ Shrinks(u, t) BY <2>2 DEF Retired
    <2>4. IsTable(u) /\ IsTable(t) BY <2>3, GoodTable
    <2>5. Kept(u, t, now) BY <2>3, <2>4, ShrinksBounded DEF Kept
    <2> QED BY <2>5 DEF u
  <1>3. u = t \/ (p.flow \in DOMAIN t.flows /\ u = Retire(t, p.flow)) BY DEF NewConnection
  <1> QED BY <1>1, <1>2, <1>3

\* There is room for one more flow.
LEMMA RoomStage ==
    ASSUME NEW t, NEW now, Good(t, now), Bounded(t)
    PROVE  LET r == RoomForFlow(t)
           IN  /\ Kept(r, t, now) /\ Len(r.order) + 1 <= MaxFlows
               /\ DOMAIN r.flows \subseteq DOMAIN t.flows
  <1> DEFINE x == Len(t.order) - MaxFlows + 1
             n == Max({0, x})
             r == Evict(t, n)
  <1>1. IsTable(t) BY GoodTable
  <1>2. Listed(t.order) BY <1>1 DEF IsTable
  <1>3. Len(t.order) \in Nat BY <1>2, ListedLength
  <1>4. MaxFlows \in Nat /\ MaxFlows > 0 BY TcpReassemblyAssumption
  <1>5. Len(t.order) <= MaxFlows BY DEF Bounded
  <1>6. n \in {0, x} /\ x <= n /\ 0 <= n /\ x \in Int
    <2>1. x \in Int BY <1>3, <1>4
    <2> HIDE DEF x
    <2>2. IsFiniteSet({0} \cup {x}) BY FS_Singleton, FS_Union
    <2>3. {0} \cup {x} = {0, x} OBVIOUS
    <2>4. IsFiniteSet({0, x}) BY <2>2, <2>3
    <2>5. (\A y \in {0, x} : y \in Int) /\ {0, x} # {} /\ x \in {0, x} /\ 0 \in {0, x} BY <2>1
    <2>6. Max({0, x}) \in {0, x} /\ \A y \in {0, x} : y <= Max({0, x}) BY <2>4, <2>5, FiniteMax
    <2> QED BY <2>1, <2>5, <2>6
  <1> HIDE DEF n
  <1>7. n \in 0 .. Len(t.order)
    <2>1. n = 0 \/ n = x BY <1>6
    <2>2. CASE n = 0 BY <1>3, <2>2
    <2>3. CASE n = x BY <1>3, <1>4, <1>5, <1>6, <2>3
    <2> QED BY <2>1, <2>2, <2>3
  <1>8. Oldest(r, t, n, now) BY <1>7, EvictStage
  <1> HIDE DEF r
  <1>9. /\ Good(r, now) /\ Shrinks(r, t) /\ Len(r.order) = Len(t.order) - n
        /\ DOMAIN r.flows \subseteq DOMAIN t.flows
    BY <1>8 DEF Oldest
  <1>10. IsTable(r) BY <1>9, GoodTable
  <1>11. Kept(r, t, now) BY <1>1, <1>9, <1>10, ShrinksBounded DEF Kept
  <1>12. Len(r.order) + 1 <= MaxFlows BY <1>3, <1>4, <1>6, <1>7, <1>9
  <1> QED BY <1>9, <1>11, <1>12 DEF RoomForFlow, n, r

\* A touched flow is in the table.
LEMMA TouchStage ==
    ASSUME NEW t, clock \in Nat, Good(t, clock), Bounded(t), NEW p
    PROVE  Kept(Touch(t, p), t, clock) /\ p.flow \in DOMAIN Touch(t, p).flows
  <1> DEFINE k == p.flow
             u == Touch(t, p)
  <1>1. CASE k \in DOMAIN t.flows
    <2>1. u = [t EXCEPT !.flows[k].activity = clock, !.order = Append(RemoveFirst(@, k), k)]
      BY <1>1 DEF Touch
    <2> HIDE DEF u
    <2>2. Touched(u, t, k, clock) /\ Len(u.order) = Len(t.order)
      BY <1>1, <2>1, TouchKnown
    <2>3. /\ Good(u, clock) /\ k \in DOMAIN u.flows
          /\ u.buffered = t.buffered /\ u.segments = t.segments
          /\ u.stats = t.stats /\ u.out = t.out
      BY <2>2 DEF Touched
    <2>4. Balance(u) = Balance(t) BY <2>3 DEF Balance
    <2>5. Bounded(u) BY <2>2, <2>3 DEF Bounded, WithinBudget
    <2> QED BY <2>3, <2>4, <2>5 DEF Kept, u
  <1>2. CASE k \notin DOMAIN t.flows
    <2> DEFINE r == RoomForFlow(t)
    <2>1. /\ Kept(r, t, clock) /\ Len(r.order) + 1 <= MaxFlows
          /\ DOMAIN r.flows \subseteq DOMAIN t.flows
      BY RoomStage
    <2>2. u = [r EXCEPT !.flows = [j \in DOMAIN r.flows \cup {k} |->
                                           IF j = k
                                             THEN [epoch |-> r.nextEpoch, activity |-> clock,
                                                   dirs |-> [d \in {0, 1} |-> NewDirection]]
                                             ELSE r.flows[j]],
                        !.order = Append(@, k),
                        !.nextEpoch = @ + 1]
      BY <1>2 DEF Touch
    <2> HIDE DEF r, u
    <2>3. Good(r, clock) /\ Bounded(r) /\ Balance(r) = Balance(t) BY <2>1 DEF Kept
    <2>4. k \notin DOMAIN r.flows BY <1>2, <2>1
    <2>5. Touched(u, r, k, clock) /\ Len(u.order) = Len(r.order) + 1
      BY <2>2, <2>3, <2>4, TouchNew
    <2>6. /\ Good(u, clock) /\ k \in DOMAIN u.flows
          /\ u.buffered = r.buffered /\ u.segments = r.segments
          /\ u.stats = r.stats /\ u.out = r.out
      BY <2>5 DEF Touched
    <2>7. Balance(u) = Balance(t) BY <2>3, <2>6 DEF Balance
    <2>8. Bounded(u) BY <2>1, <2>3, <2>5, <2>6 DEF Bounded, WithinBudget
    <2> QED BY <2>6, <2>7, <2>8 DEF Kept, u
  <1> QED BY <1>1, <1>2

\* e has the stream and the queue of d; it may learn where the stream begins.
Like(e, d) ==
    /\ IsDirection(e)
    /\ e.pending = d.pending /\ e.offset = d.offset /\ e.gap = d.gap
    /\ d.next # NoSeq => e.next = d.next

\* u is t after a direction has become e, with all else as it was.
Quiet(u, t, k, dir, e, now) ==
    /\ Tidy(u, now) /\ Swapped(u, t, k, dir, e) /\ u.order = t.order /\ Shrinks(u, t)

\* Nothing is handed out when nothing is put at the end.
LEMMA NothingFollows ==
    ASSUME NEW d, IsDirection(d), NEW e, IsDirection(e), NEW k, NEW epoch, NEW dir,
           e.offset = d.offset, e.gap = d.gap, d.next # NoSeq => e.next = d.next
    PROVE  Follows(<<>>, k, epoch, dir, d, e)
  <1>1. <<>> \in Seq({}) OBVIOUS
  <1>2. Listed(<<>>) BY <1>1, ListedIn
  <1>3. DOMAIN <<>> = {} OBVIOUS
  <1>4. SumFunctionOnSet(LenOf(<<>>), DOMAIN <<>>) = 0 BY <1>3, SumEmpty
  <1>5. d.offset \in Int /\ d.next \in Int BY DEF IsDirection, Waiting
  <1>6. d.offset <= e.offset BY <1>5
  <1>7. d.next # NoSeq => e.next # NoSeq /\ e.next - e.offset = d.next - d.offset BY <1>5
  <1>8. ~e.gap => ~d.gap /\ e.offset - d.offset = 0 BY <1>5
  <1> QED BY <1>2, <1>3, <1>4, <1>6, <1>7, <1>8 DEF Follows

\* A direction changes, but neither its stream nor its queue.
LEMMA QuietStage ==
    ASSUME NEW t, NEW now, Tidy(t, now), NEW k \in DOMAIN t.flows, NEW dir \in {0, 1},
           NEW e, Like(e, t.flows[k].dirs[dir])
    PROVE  Quiet([t EXCEPT !.flows[k].dirs[dir] = e], t, k, dir, e, now)
  <1> DEFINE d == t.flows[k].dirs[dir]
             u == [t EXCEPT !.flows[k].dirs[dir] = e]
  <1>1. Core(t, now) /\ IsTable(t) /\ Settled(d) BY DEF Tidy, Core
  <1>2. Record(t) /\ Listed(t.out) /\ Listed(t.order) /\ IsStats(t.stats) BY <1>1 DEF IsTable
  <1>3. IsDirection(d) BY <1>1 DEF IsTable, IsFlow
  <1>4. /\ IsDirection(e) /\ e.pending = d.pending /\ e.offset = d.offset /\ e.gap = d.gap
        /\ d.next # NoSeq => e.next = d.next
    BY DEF Like
  <1>5. u.flows = [t.flows EXCEPT ![k].dirs[dir] = e] BY <1>2 DEF Record
  <1>6. u.order = t.order /\ u.nextEpoch = t.nextEpoch /\ u.buffered = t.buffered
    BY <1>2 DEF Record
  <1>7. u.segments = t.segments /\ u.stats = t.stats /\ u.out = t.out BY <1>2 DEF Record
  <1>8. Record(u)
    <2>1. DOMAIN u = DOMAIN t /\ u = [x \in DOMAIN u |-> u[x]] OBVIOUS
    <2>2. DOMAIN t = {"flows", "order", "nextEpoch", "buffered", "segments", "stats", "out"}
      BY <1>2 DEF Record
    <2> HIDE DEF u
    <2> QED BY <2>1, <2>2 DEF Record
  <1> HIDE DEF u
  <1>9. Replaces(u, t, k, dir, e) BY <1>1, <1>5, <1>6, <1>8, ReplaceDirection DEF Replaces
  <1>10. t.out \o <<>> = t.out
    <2>1. t.out \in Seq({t.out[i] : i \in DOMAIN t.out}) BY <1>2 DEF Listed
    <2> QED BY <2>1
  <1>11. Follows(<<>>, k, t.flows[k].epoch, dir, d, e) BY <1>3, <1>4, NothingFollows
  <1>12. /\ u.buffered = t.buffered + Bytes(e.pending) - Bytes(d.pending)
         /\ u.segments = t.segments + Cardinality(e.pending) - Cardinality(d.pending)
    <2>1. Bytes(d.pending) \in Nat /\ Cardinality(d.pending) \in Nat BY <1>3, QueueCounts
    <2>2. t.buffered \in Int /\ t.segments \in Int BY <1>1 DEF IsTable
    <2>3. Bytes(e.pending) = Bytes(d.pending) /\ Cardinality(e.pending) = Cardinality(d.pending)
      BY <1>4
    <2> HIDE DEF d
    <2> QED BY <1>6, <1>7, <2>1, <2>2, <2>3
  <1>13. Changes(u, t, k, dir, e, <<>>)
    BY <1>2, <1>4, <1>7, <1>9, <1>10, <1>11, <1>12 DEF Changes
  <1>14. Core(u, now) /\ Swapped(u, t, k, dir, e) BY <1>1, <1>13, ChangeCore
  <1>15. Settled(e)
    <2>1. e.pendingBytes = Bytes(e.pending) /\ d.pendingBytes = Bytes(d.pending)
          /\ \A s \in d.pending : d.next # NoSeq
      BY <1>3, <1>4 DEF IsDirection, Waiting
    <2>2. \A s \in d.pending : d.next < s.start BY <1>1 DEF Settled
    <2>3. \A s \in e.pending : e.next < s.start BY <1>4, <2>1, <2>2
    <2> QED BY <1>1, <1>4, <2>1, <2>3 DEF Settled
  <1>16. Tidy(u, now)
    <2>1. \A j \in DOMAIN t.flows, x \in {0, 1} : Settled(t.flows[j].dirs[x]) BY DEF Tidy
    <2> QED BY <1>14, <1>15, <2>1, TidyAfter
  <1>17. Shrinks(u, t)
    <2>1. Balance(u) = Balance(t) BY <1>6, <1>7 DEF Balance
    <2>2. t.buffered \in Int /\ t.segments \in Int BY <1>1 DEF IsTable
    <2>3. Len(t.order) \in Nat BY <1>2, ListedLength
    <2> QED BY <1>6, <1>7, <2>1, <2>2, <2>3 DEF Shrinks
  <1>18. Quiet(u, t, k, dir, e, now) BY <1>6, <1>14, <1>16, <1>17 DEF Quiet
  <1> QED BY <1>18 DEF u

\* A quiet change that closes nothing keeps the table good.
LEMMA QuietGood ==
    ASSUME NEW t, NEW now, Good(t, now), Bounded(t), NEW k \in DOMAIN t.flows, NEW dir \in {0, 1},
           NEW e, Like(e, t.flows[k].dirs[dir]), e.closed = t.flows[k].dirs[dir].closed
    PROVE  LET u == [t EXCEPT !.flows[k].dirs[dir] = e]
           IN  Kept(u, t, now) /\ DOMAIN u.flows = DOMAIN t.flows /\ u.flows[k].dirs[dir] = e
  <1> DEFINE u == [t EXCEPT !.flows[k].dirs[dir] = e]
  <1>1. Tidy(t, now) BY DEF Good
  <1>2. Quiet(u, t, k, dir, e, now) BY <1>1, QuietStage
  <1> HIDE DEF u
  <1>3. Tidy(u, now) /\ Swapped(u, t, k, dir, e) /\ Shrinks(u, t) BY <1>2 DEF Quiet
  <1>4. /\ DOMAIN u.flows = DOMAIN t.flows /\ u.flows[k].dirs[dir] = e
        /\ \A j \in DOMAIN t.flows, x \in {0, 1} :
              j # k \/ x # dir => u.flows[j].dirs[x] = t.flows[j].dirs[x]
    BY <1>3 DEF Swapped
  <1>5. \A j \in DOMAIN t.flows, x \in {0, 1} :
           u.flows[j].dirs[x].closed = t.flows[j].dirs[x].closed
    BY <1>4
  <1>6. \A j \in DOMAIN u.flows : OneOpen(u.flows[j]) BY <1>4, <1>5 DEF Good, OneOpen
  <1>7. Good(u, now) BY <1>3, <1>6 DEF Good
  <1>8. IsTable(u) /\ IsTable(t) BY <1>7, GoodTable
  <1>9. Kept(u, t, now) BY <1>3, <1>7, <1>8, ShrinksBounded DEF Kept
  <1> QED BY <1>4, <1>9 DEF u

\* Which fields make a direction like another.
LEMMA LikeFields ==
    ASSUME NEW d, IsDirection(d), NEW e, DOMAIN e = DOMAIN d, e = [x \in DOMAIN e |-> e[x]],
           e.pending = d.pending, e.pendingBytes = d.pendingBytes, e.offset = d.offset,
           e.gap = d.gap, e.next \in Int, e.next = NoSeq \/ e.next >= 0,
           d.next # NoSeq => e.next = d.next
    PROVE  Like(e, d)
  <1>1. DOMAIN d = {"next", "offset", "midstream", "gap", "syn", "pending", "pendingBytes",
                    "history", "acked", "closed"}
    BY DEF IsDirection
  <1>2. e = [next |-> e.next, offset |-> e.offset, midstream |-> e.midstream, gap |-> e.gap,
             syn |-> e.syn, pending |-> e.pending, pendingBytes |-> e.pendingBytes,
             history |-> e.history, acked |-> e.acked, closed |-> e.closed]
    BY <1>1
  <1>3. /\ Queue(d.pending) /\ d.pendingBytes = Bytes(d.pending)
        /\ \A s \in d.pending : d.next # NoSeq /\ d.next <= s.start
    BY DEF IsDirection, Waiting
  <1>4. Waiting(e) BY <1>3 DEF Waiting
  <1>5. e.offset \in Int /\ e.gap \in BOOLEAN BY DEF IsDirection
  <1>6. IsDirection(e) BY <1>2, <1>4, <1>5, Zenon DEF IsDirection
  <1> QED BY <1>6 DEF Like

\* The acknowledgement is noted in the direction of the peer.
LEMMA TrackAckStage ==
    ASSUME NEW t, NEW now, Good(t, now), Bounded(t), NEW p \in Packets, p.flow \in DOMAIN t.flows
    PROVE  Kept(TrackAck(t, p), t, now) /\ DOMAIN TrackAck(t, p).flows = DOMAIN t.flows
  <1> DEFINE k == p.flow
             x == 1 - p.dir
             d == t.flows[k].dirs[x]
             v == Unwrap(p.ackno, d.next)
             e == [d EXCEPT !.acked = v]
             u == [t EXCEPT !.flows[k].dirs[x].acked = v]
             w == [t EXCEPT !.flows[k].dirs[x] = e]
  <1>1. p.dir \in {0, 1} BY TcpReassemblyAssumption
  <1>2. x \in {0, 1} BY <1>1
  <1>3. TrackAck(t, p) = t \/ TrackAck(t, p) = u BY DEF TrackAck
  <1>4. IsTable(t) BY GoodTable
  <1>5. IsDirection(d) BY <1>2, <1>4 DEF IsTable, IsFlow
  <1>6. u = w BY <1>2, <1>4
  <1>7. Like(e, d) /\ e.closed = d.closed
    <2>1. DOMAIN e = DOMAIN d /\ e = [z \in DOMAIN e |-> e[z]] OBVIOUS
    <2>2. e.pending = d.pending /\ e.pendingBytes = d.pendingBytes /\ e.offset = d.offset OBVIOUS
    <2>3. e.gap = d.gap /\ e.next = d.next /\ e.closed = d.closed OBVIOUS
    <2>4. d.next \in Int /\ (d.next = NoSeq \/ d.next >= 0) BY <1>5 DEF IsDirection, Waiting
    <2> HIDE DEF e, d
    <2> QED BY <1>5, <2>1, <2>2, <2>3, <2>4, LikeFields
  <1> HIDE DEF e, x, k
  <1>8. Kept(w, t, now) /\ DOMAIN w.flows = DOMAIN t.flows BY <1>2, <1>7, QuietGood DEF k
  <1>9. Kept(t, t, now) BY DEF Kept
  <1> QED BY <1>3, <1>6, <1>8, <1>9

\* A stream begins at a sequence number.
LEMMA PayloadSequenceIs ==
    ASSUME NEW p \in Packets
    PROVE  PayloadSequence(p) \in Nat /\ PayloadSequence(p) # NoSeq
  <1>1. SeqModulus \in Nat /\ SeqModulus > 1 BY TcpStreamAssumption
  <1>2. p.seq \in Nat BY <1>1, TcpReassemblyAssumption
  <1>3. p.seq + (IF p.syn THEN 1 ELSE 0) \in Nat BY <1>2
  <1>4. PayloadSequence(p) \in Nat BY <1>1, <1>3 DEF PayloadSequence
  <1>5. NoSeq \in Int /\ NoSeq < 0 BY NoSeqNegative
  <1> QED BY <1>4, <1>5

\* What a packet makes of a direction.
Anchored(d, p) ==
    LET anchored == IF d.next = NoSeq /\ (p.syn \/ p.len > 0)
                      THEN [d EXCEPT !.next = PayloadSequence(p), !.midstream = ~p.syn]
                      ELSE d
    IN  IF p.syn /\ d.syn = NoSeq THEN [anchored EXCEPT !.syn = p.seq] ELSE anchored

\* It only learns where its stream begins.
LEMMA AnchoredLike ==
    ASSUME NEW d, IsDirection(d), NEW p \in Packets
    PROVE  LET e == Anchored(d, p)
           IN  Like(e, d) /\ e.closed = d.closed /\ (p.len > 0 => e.next # NoSeq)
  <1> DEFINE a == IF d.next = NoSeq /\ (p.syn \/ p.len > 0)
                    THEN [d EXCEPT !.next = PayloadSequence(p), !.midstream = ~p.syn]
                    ELSE d
             e == Anchored(d, p)
  <1>1. PayloadSequence(p) \in Nat /\ PayloadSequence(p) # NoSeq BY PayloadSequenceIs
  <1>2. d.next \in Int /\ (d.next = NoSeq \/ d.next >= 0) BY DEF IsDirection, Waiting
  <1>3. /\ DOMAIN d = {"next", "offset", "midstream", "gap", "syn", "pending", "pendingBytes",
                       "history", "acked", "closed"}
        /\ d = [z \in DOMAIN d |-> d[z]]
    BY DEF IsDirection
  <1> HIDE DEF Anchored
  <1>4. /\ DOMAIN a = DOMAIN d /\ a = [z \in DOMAIN a |-> a[z]]
    BY <1>3
  <1>5. /\ a.pending = d.pending /\ a.pendingBytes = d.pendingBytes /\ a.offset = d.offset
        /\ a.gap = d.gap /\ a.closed = d.closed
    OBVIOUS
  <1>6. a.next = IF d.next = NoSeq /\ (p.syn \/ p.len > 0) THEN PayloadSequence(p) ELSE d.next
    BY <1>3
  <1>7. e = IF p.syn /\ d.syn = NoSeq THEN [a EXCEPT !.syn = p.seq] ELSE a BY DEF Anchored
  <1> HIDE DEF a, e
  <1>8. DOMAIN e = DOMAIN d /\ e = [z \in DOMAIN e |-> e[z]] BY <1>4, <1>7
  <1>9. /\ e.pending = d.pending /\ e.pendingBytes = d.pendingBytes /\ e.offset = d.offset
        /\ e.gap = d.gap /\ e.closed = d.closed /\ e.next = a.next
    BY <1>5, <1>7
  <1>10. /\ e.next \in Int /\ (e.next = NoSeq \/ e.next >= 0)
         /\ d.next # NoSeq => e.next = d.next
         /\ p.len > 0 => e.next # NoSeq
    BY <1>1, <1>2, <1>6, <1>9
  <1>11. Like(e, d) BY <1>8, <1>9, <1>10, LikeFields
  <1> QED BY <1>9, <1>10, <1>11 DEF e

\* The table after the packet has found its direction.
LEMMA AnchorStage ==
    ASSUME NEW t, NEW now, Good(t, now), Bounded(t), NEW p \in Packets, p.flow \in DOMAIN t.flows
    PROVE  LET u == Anchor(t, p)
           IN  /\ Kept(u, t, now) /\ p.flow \in DOMAIN u.flows
               /\ p.len > 0 => u.flows[p.flow].dirs[p.dir].next # NoSeq
  <1> DEFINE k == p.flow
             d == t.flows[k].dirs[p.dir]
             e == Anchored(d, p)
             u == [t EXCEPT !.flows[k].dirs[p.dir] = e]
  <1>1. p.dir \in {0, 1} BY TcpReassemblyAssumption
  <1>2. IsTable(t) BY GoodTable
  <1>3. IsDirection(d) BY <1>1, <1>2 DEF IsTable, IsFlow
  <1>4. Like(e, d) /\ e.closed = d.closed /\ (p.len > 0 => e.next # NoSeq)
    <2> HIDE DEF d
    <2> QED BY <1>3, AnchoredLike
  <1>5. Anchor(t, p) = u BY DEF Anchor, Anchored
  <1>6. k \in DOMAIN t.flows OBVIOUS
  <1> HIDE DEF e, k
  <1>7. Kept(u, t, now) /\ DOMAIN u.flows = DOMAIN t.flows /\ u.flows[k].dirs[p.dir] = e
    BY <1>1, <1>4, <1>6, QuietGood
  <1> QED BY <1>4, <1>5, <1>6, <1>7 DEF k

\* The payload of a packet is accounted for.
Accepted(u, t, p, now) == Good(u, now) /\ Bounded(u) /\ Balance(u) = Balance(t) + p.len

\* A sequence number has a position.
LEMMA UnwrapInt ==
    ASSUME NEW sequence \in Int, NEW reference \in Int
    PROVE  Unwrap(sequence, reference) \in Int
  <1> DEFINE half == SeqModulus \div 2
             q == reference \div SeqModulus
             c == q * SeqModulus + sequence
  <1>1. SeqModulus \in Nat /\ SeqModulus > 1 BY TcpStreamAssumption
  <1>2. q \in Int BY <1>1
  <1> HIDE DEF q
  <1>3. q * SeqModulus \in Int BY <1>1, <1>2
  <1>4. c \in Int BY <1>3
  <1> HIDE DEF c
  <1>5. c - SeqModulus \in Int /\ c + SeqModulus \in Int BY <1>1, <1>4
  <1> QED BY <1>4, <1>5 DEF Unwrap, c, q

\* What a packet offers to a direction is a segment, and so is what is new of it.
LEMMA NewSegment ==
    ASSUME NEW d, IsDirection(d), NEW p \in Packets, p.len > 0,
           d.next < SegmentOf(d, p).end
    PROVE  LET segment == SegmentOf(d, p)
               new == [segment EXCEPT !.start = Max({@, d.next})]
           IN  new \in Segment /\ new.start < new.end /\ d.next <= new.start
  <1> DEFINE segment == SegmentOf(d, p)
             a == Unwrap(PayloadSequence(p), d.next)
             m == Max({a, d.next})
             new == [segment EXCEPT !.start = Max({@, d.next})]
  <1>1. d.next \in Int BY DEF IsDirection, Waiting
  <1>2. PayloadSequence(p) \in Nat BY PayloadSequenceIs
  <1>3. PayloadSequence(p) \in Int BY <1>2
  <1>4. a \in Int BY <1>1, <1>3, UnwrapInt
  <1>5. p.len \in Nat BY TcpReassemblyAssumption
  <1> HIDE DEF a
  <1>6. segment = [start |-> a, end |-> a + p.len, val |-> p.val] BY DEF SegmentOf, a
  <1>7. m \in {a, d.next} /\ a <= m /\ d.next <= m
    <2> DEFINE y == d.next
    <2> HIDE DEF y
    <2>1. y \in Int BY <1>1 DEF y
    <2>2. IsFiniteSet({a} \cup {y}) BY FS_Singleton, FS_Union
    <2>3. {a} \cup {y} = {a, y} OBVIOUS
    <2>4. IsFiniteSet({a, y}) BY <2>2, <2>3
    <2>5. (\A z \in {a, y} : z \in Int) /\ {a, y} # {} /\ a \in {a, y} /\ y \in {a, y}
      BY <1>4, <2>1
    <2>6. Max({a, y}) \in {a, y} /\ \A z \in {a, y} : z <= Max({a, y}) BY <2>4, <2>5, FiniteMax
    <2>7. Max({a, y}) \in {a, y} /\ a <= Max({a, y}) /\ y <= Max({a, y}) BY <2>5, <2>6
    <2> QED BY <2>7 DEF y
  <1>8. new = [start |-> m, end |-> a + p.len, val |-> p.val] BY <1>6
  <1> HIDE DEF m, new
  <1>9. m \in Int BY <1>1, <1>4, <1>7
  <1>10. d.next < a + p.len BY <1>6
  <1>11. m < a + p.len BY <1>1, <1>4, <1>5, <1>7, <1>10
  <1>12. new \in Segment BY <1>4, <1>5, <1>8, <1>9 DEF Segment
  <1> QED BY <1>7, <1>8, <1>11, <1>12 DEF new

\* The direction with more in its queue.
Grows(e, d, A) ==
    /\ IsDirection(e)
    /\ e.next = d.next /\ e.offset = d.offset /\ e.gap = d.gap /\ e.closed = d.closed
    /\ Bytes(A) \in Nat /\ Bytes(e.pending) = Bytes(d.pending) + Bytes(A)
    /\ Cardinality(A) \in Nat
    /\ Cardinality(e.pending) = Cardinality(d.pending) + Cardinality(A)

\* A queue takes the pieces it does not have.
LEMMA QueuedGrows ==
    ASSUME NEW d, IsDirection(d), d.next # NoSeq, NEW new \in Segment,
           new.start < new.end, d.next <= new.start
    PROVE  LET A == Uncovered(new, d.pending)
           IN  Grows([d EXCEPT !.pending = @ \cup A, !.pendingBytes = @ + Bytes(A)], d, A)
  <1> DEFINE A == Uncovered(new, d.pending)
             Q == d.pending \cup A
             e == [d EXCEPT !.pending = @ \cup A, !.pendingBytes = @ + Bytes(A)]
  <1>1. /\ Waiting(d) /\ Queue(d.pending) /\ d.next \in Int
        /\ \A s \in d.pending : d.next <= s.start
    BY DEF IsDirection, Waiting
  <1>2. Queue(Q) /\ d.pending \cap A = {} /\ \A s \in A : new.start <= s.start
    BY <1>1, QueueGrows
  <1>3. /\ DOMAIN d = {"next", "offset", "midstream", "gap", "syn", "pending", "pendingBytes",
                       "history", "acked", "closed"}
        /\ d = [z \in DOMAIN d |-> d[z]]
    BY DEF IsDirection
  <1> HIDE DEF A
  <1>4. DOMAIN e = DOMAIN d /\ e = [z \in DOMAIN e |-> e[z]] OBVIOUS
  <1>5. e.pending = Q /\ e.pendingBytes = d.pendingBytes + Bytes(A) BY <1>3
  <1>6. e.next = d.next /\ e.offset = d.offset /\ e.gap = d.gap /\ e.closed = d.closed OBVIOUS
  <1> HIDE DEF e
  <1>7. Q \ d.pending = A /\ d.pending \in SUBSET Q BY <1>2
  <1>8. /\ Bytes(A) \in Nat /\ Bytes(Q) = Bytes(d.pending) + Bytes(A)
    <2>1. Q \subseteq Segment /\ IsFiniteSet(Q) /\ \A s \in Q : s.start < s.end
      BY <1>2 DEF Queue
    <2> HIDE DEF Q
    <2> QED BY <1>7, <2>1, BytesSplit
  <1>9. Cardinality(A) \in Nat /\ Cardinality(Q) = Cardinality(d.pending) + Cardinality(A)
    <2>1. IsFiniteSet(Q) BY <1>2 DEF Queue
    <2> HIDE DEF Q
    <2> QED BY <1>7, <2>1, CardinalityParts
  <1>10. \A s \in Q : d.next <= s.start
    <2>1. \A s \in Q : s.start \in Int BY <1>2, SegmentFields DEF Queue
    <2>2. new.start \in Int BY SegmentFields
    <2>3. \A s \in A : d.next <= s.start BY <1>1, <1>2, <2>1, <2>2
    <2> QED BY <1>1, <2>3
  <1>11. d.pendingBytes = Bytes(d.pending) BY <1>1 DEF Waiting
  <1>12. d.next = NoSeq \/ d.next >= 0 BY <1>1 DEF Waiting
  <1> HIDE DEF Q
  <1>13. Waiting(e) BY <1>1, <1>2, <1>5, <1>6, <1>8, <1>10, <1>11, <1>12 DEF Waiting
  <1>14. e = [next |-> e.next, offset |-> e.offset, midstream |-> e.midstream, gap |-> e.gap,
              syn |-> e.syn, pending |-> e.pending, pendingBytes |-> e.pendingBytes,
              history |-> e.history, acked |-> e.acked, closed |-> e.closed]
    BY <1>3, <1>4
  <1>15. e.offset \in Int /\ e.gap \in BOOLEAN BY <1>6 DEF IsDirection
  <1>16. IsDirection(e) BY <1>13, <1>14, <1>15, Zenon DEF IsDirection
  <1>17. Grows(e, d, A) BY <1>5, <1>6, <1>8, <1>9, <1>16 DEF Grows
  <1> QED BY <1>17 DEF e, A

\* Old bytes are counted as retransmitted.
LEMMA StaleStage ==
    ASSUME NEW t, NEW now, Good(t, now), Bounded(t), NEW p \in Packets, NEW c
    PROVE  LET u == [t EXCEPT !.stats.conflicts = @ + c, !.stats.retransmitted = @ + p.len]
           IN  Accepted(u, t, p, now)
  <1> DEFINE r == [t.stats EXCEPT !.conflicts = @ + c, !.retransmitted = @ + p.len]
             u == [t EXCEPT !.stats = r]
  <1>1. IsTable(t) BY GoodTable
  <1>2. IsStats(t.stats) /\ Record(t) BY <1>1 DEF IsTable
  <1>3. DOMAIN r = DOMAIN t.stats /\ r = [z \in DOMAIN r |-> r[z]] OBVIOUS
  <1>4. r.retransmitted = t.stats.retransmitted + p.len /\ r.keepalive = t.stats.keepalive
    BY <1>2 DEF IsStats
  <1>5. t.stats.retransmitted \in Int /\ t.stats.keepalive \in Int BY <1>2 DEF IsStats
  <1>6. p.len \in Nat BY TcpReassemblyAssumption
  <1>7. u = [t EXCEPT !.stats.conflicts = @ + c, !.stats.retransmitted = @ + p.len]
    BY <1>2 DEF Record
  <1> HIDE DEF r
  <1>8. r.retransmitted \in Int /\ r.keepalive \in Int BY <1>4, <1>5, <1>6
  <1>9. IsStats(r) BY <1>2, <1>3, <1>8, StatsShape
  <1>10. Recounted(u, t) /\ u.stats = r BY <1>1, <1>9, PutStats
  <1> HIDE DEF u
  <1>11. Good(u, now) BY <1>10, RecountedGood
  <1>12. /\ u.order = t.order /\ u.buffered = t.buffered /\ u.segments = t.segments
         /\ u.out = t.out
    BY <1>10 DEF Recounted
  <1>13. Bounded(u) BY <1>12 DEF Bounded, WithinBudget
  <1>14. Balance(u) = Balance(t) + p.len
    <2> DEFINE l == SumFunctionOnSet(LenOf(t.out), DOMAIN t.out)
    <2>1. /\ Balance(u) = l + t.buffered + (t.stats.retransmitted + p.len) + t.stats.keepalive
          /\ Balance(t) = l + t.buffered + t.stats.retransmitted + t.stats.keepalive
      BY <1>4, <1>10, <1>12 DEF Balance
    <2>2. l \in Nat
      <3>1. Sized(t.out) BY DEF Good, Tidy, Core, IsTable, Labelled, Sized
      <3> QED BY <3>1, LengthNat
    <2>3. t.buffered \in Int BY <1>1 DEF IsTable
    <2> HIDE DEF l
    <2> QED BY <1>5, <1>6, <2>1, <2>2, <2>3
  <1>15. Accepted(u, t, p, now) BY <1>11, <1>13, <1>14 DEF Accepted
  <1> QED BY <1>7, <1>15

\* u is t with more in the queue of a direction, which has become e.
Enqueued(u, t, k, dir, e, len, now) ==
    /\ Core(u, now) /\ Swapped(u, t, k, dir, e) /\ u.order = t.order
    /\ Balance(u) = Balance(t) + len

\* The table with A in the queue of a direction, for len bytes of payload.
Enqueue(t, k, dir, e, A, len, c) ==
    [t EXCEPT !.flows[k].dirs[dir] = e,
              !.buffered = @ + Bytes(A),
              !.segments = @ + Cardinality(A),
              !.stats.retransmitted = @ + len - Bytes(A),
              !.stats.conflicts = c]

\* What is new of a packet joins the queue.
LEMMA EnqueueStage ==
    ASSUME NEW t, NEW now, Good(t, now), NEW k \in DOMAIN t.flows, NEW dir \in {0, 1},
           NEW A, NEW e, Grows(e, t.flows[k].dirs[dir], A), NEW len \in Nat, NEW c
    PROVE  Enqueued(Enqueue(t, k, dir, e, A, len, c), t, k, dir, e, len, now)
  <1> DEFINE d == t.flows[k].dirs[dir]
             b == Bytes(A)
             r == [t.stats EXCEPT !.retransmitted = @ + len - b, !.conflicts = c]
             u == [t EXCEPT !.flows[k].dirs[dir] = e,
                            !.buffered = @ + b,
                            !.segments = @ + Cardinality(A),
                            !.stats.retransmitted = @ + len - b,
                            !.stats.conflicts = c]
  <1>1. Core(t, now) /\ IsTable(t) /\ Labelled(t) BY DEF Good, Tidy, Core
  <1>2. Record(t) /\ Listed(t.out) /\ Listed(t.order) /\ IsStats(t.stats) BY <1>1 DEF IsTable
  <1>3. IsDirection(d) BY <1>1 DEF IsTable, IsFlow
  <1>4. /\ IsDirection(e)
        /\ e.next = d.next /\ e.offset = d.offset /\ e.gap = d.gap /\ e.closed = d.closed
        /\ b \in Nat /\ Bytes(e.pending) = Bytes(d.pending) + b
        /\ Cardinality(A) \in Nat
        /\ Cardinality(e.pending) = Cardinality(d.pending) + Cardinality(A)
    BY DEF Grows
  <1> HIDE DEF b
  <1>5. u.flows = [t.flows EXCEPT ![k].dirs[dir] = e] BY <1>2 DEF Record
  <1>6. u.order = t.order /\ u.nextEpoch = t.nextEpoch /\ u.out = t.out BY <1>2 DEF Record
  <1>7. u.buffered = t.buffered + b BY <1>2 DEF Record
  <1>8. u.segments = t.segments + Cardinality(A) BY <1>2 DEF Record
  <1>9. u.stats = r BY <1>2 DEF Record
  <1>10. Record(u)
    <2>1. DOMAIN u = DOMAIN t /\ u = [x \in DOMAIN u |-> u[x]] OBVIOUS
    <2>2. DOMAIN t = {"flows", "order", "nextEpoch", "buffered", "segments", "stats", "out"}
      BY <1>2 DEF Record
    <2> HIDE DEF u
    <2> QED BY <2>1, <2>2 DEF Record
  <1> HIDE DEF u
  <1>11. IsStats(u.stats) /\ u.stats.retransmitted = t.stats.retransmitted + len - b
         /\ u.stats.keepalive = t.stats.keepalive
         /\ t.stats.retransmitted \in Int /\ t.stats.keepalive \in Int
    <2>1. DOMAIN r = DOMAIN t.stats /\ r = [z \in DOMAIN r |-> r[z]] OBVIOUS
    <2>2. r.retransmitted = t.stats.retransmitted + len - b /\ r.keepalive = t.stats.keepalive
      BY <1>2 DEF IsStats
    <2>3. t.stats.retransmitted \in Int /\ t.stats.keepalive \in Int BY <1>2 DEF IsStats
    <2> HIDE DEF r
    <2>4. r.retransmitted \in Int /\ r.keepalive \in Int BY <1>4, <2>2, <2>3
    <2>5. IsStats(r) BY <1>2, <2>1, <2>4, StatsShape
    <2> QED BY <1>9, <2>2, <2>3, <2>5
  <1>12. Replaces(u, t, k, dir, e) BY <1>1, <1>5, <1>6, <1>10, ReplaceDirection DEF Replaces
  <1>13. t.out \o <<>> = t.out
    <2>1. t.out \in Seq({t.out[i] : i \in DOMAIN t.out}) BY <1>2 DEF Listed
    <2> QED BY <2>1
  <1>14. Follows(<<>>, k, t.flows[k].epoch, dir, d, e) BY <1>3, <1>4, NothingFollows
  <1>15. t.buffered \in Int /\ t.segments \in Int BY <1>1 DEF IsTable
  <1>16. /\ u.buffered = t.buffered + Bytes(e.pending) - Bytes(d.pending)
         /\ u.segments = t.segments + Cardinality(e.pending) - Cardinality(d.pending)
    <2>1. /\ Bytes(d.pending) \in Nat /\ Cardinality(d.pending) \in Nat
          /\ Bytes(e.pending) \in Nat /\ Cardinality(e.pending) \in Nat
      BY <1>3, <1>4, QueueCounts
    <2> DEFINE x == Bytes(d.pending)
               y == Cardinality(d.pending)
               z == Cardinality(A)
    <2>2. /\ u.buffered = t.buffered + b /\ Bytes(e.pending) = x + b
          /\ u.segments = t.segments + z /\ Cardinality(e.pending) = y + z
      BY <1>4, <1>7, <1>8
    <2>3. z \in Nat BY <1>4
    <2> HIDE DEF x, y, z
    <2>4. u.buffered = t.buffered + (x + b) - x BY <1>4, <1>15, <2>1, <2>2 DEF x
    <2>5. u.segments = t.segments + (y + z) - y BY <1>15, <2>1, <2>2, <2>3 DEF y
    <2> QED BY <2>2, <2>4, <2>5 DEF x, y
  <1>17. Changes(u, t, k, dir, e, <<>>)
    BY <1>4, <1>6, <1>11, <1>12, <1>13, <1>14, <1>16 DEF Changes
  <1>18. Core(u, now) /\ Swapped(u, t, k, dir, e) BY <1>1, <1>17, ChangeCore
  <1>19. Balance(u) = Balance(t) + len
    <2> DEFINE l == SumFunctionOnSet(LenOf(t.out), DOMAIN t.out)
    <2>1. /\ Balance(u) = l + (t.buffered + b) + (t.stats.retransmitted + len - b)
                          + t.stats.keepalive
          /\ Balance(t) = l + t.buffered + t.stats.retransmitted + t.stats.keepalive
      BY <1>6, <1>7, <1>11 DEF Balance
    <2>2. l \in Nat
      <3>1. Sized(t.out) BY <1>1, <1>2 DEF Labelled, Sized
      <3> QED BY <3>1, LengthNat
    <2> HIDE DEF l
    <2> QED BY <1>4, <1>11, <1>15, <2>1, <2>2
  <1>20. Enqueued(u, t, k, dir, e, len, now) BY <1>6, <1>18, <1>19 DEF Enqueued
  <1> QED BY <1>20 DEF u, b, Enqueue

\* The contiguous bytes are handed out and the direction is brought within its limits.
LEMMA DrainStage ==
    ASSUME NEW t, NEW now, Good(t, now), NEW k \in DOMAIN t.flows, NEW dir \in {0, 1},
           NEW e, IsDirection(e), e.next # NoSeq, e.closed = t.flows[k].dirs[dir].closed,
           NEW g, NEW len, Enqueued(g, t, k, dir, e, len, now)
    PROVE  LET v == Emit(g, k, dir, StopWithinLimits(e))
           IN  Good(v, now) /\ Balance(v) = Balance(t) + len /\ v.order = t.order
  <1> DEFINE stop == StopWithinLimits(e)
             f == Advance(e, stop)
             v == Emit(g, k, dir, stop)
  <1>1. /\ Core(g, now) /\ Swapped(g, t, k, dir, e) /\ g.order = t.order
        /\ Balance(g) = Balance(t) + len
    BY DEF Enqueued
  <1>2. k \in DOMAIN g.flows /\ g.flows[k].dirs[dir] = e BY <1>1 DEF Swapped
  <1>3. Waiting(e) BY DEF IsDirection
  <1>4. /\ GoodStop(e, stop)
        /\ Bytes(e.pending \ Gone(e, stop)) <= MaxPending
        /\ Cardinality(e.pending \ Gone(e, stop)) <= MaxSegments
    BY <1>3, StopWithinLimitsGood
  <1> HIDE DEF stop
  <1>5. Core(v, now) /\ Swapped(v, g, k, dir, f) /\ Shrinks(v, g) /\ v.order = g.order
    BY <1>1, <1>2, <1>4, EmitStage
  <1>6. /\ IsDirection(f) /\ f.pending = e.pending \ Gone(e, stop)
        /\ (\A s \in f.pending : f.next < s.start) /\ f.closed = e.closed
    BY <1>4, AdvanceDirection
  <1> HIDE DEF v, f
  <1>7. Settled(f)
    <2>1. f.pendingBytes = Bytes(f.pending) BY <1>6 DEF IsDirection, Waiting
    <2> QED BY <1>4, <1>6, <2>1 DEF Settled
  <1>8. /\ DOMAIN g.flows = DOMAIN t.flows /\ DOMAIN v.flows = DOMAIN t.flows
        /\ \A j \in DOMAIN t.flows, x \in {0, 1} :
              j # k \/ x # dir => /\ g.flows[j].dirs[x] = t.flows[j].dirs[x]
                                  /\ v.flows[j].dirs[x] = t.flows[j].dirs[x]
        /\ v.flows[k].dirs[dir] = f
    BY <1>1, <1>5 DEF Swapped
  <1>9. Tidy(v, now)
    <2>1. \A j \in DOMAIN t.flows, x \in {0, 1} : Settled(t.flows[j].dirs[x]) BY DEF Good, Tidy
    <2>2. \A j \in DOMAIN g.flows, x \in {0, 1} :
             j # k \/ x # dir => Settled(g.flows[j].dirs[x])
      BY <1>8, <2>1
    <2> QED BY <1>2, <1>5, <1>7, <2>2, TidyAfter
  <1>10. \A j \in DOMAIN t.flows, x \in {0, 1} :
            v.flows[j].dirs[x].closed = t.flows[j].dirs[x].closed
    BY <1>6, <1>8
  <1>11. \A j \in DOMAIN v.flows : OneOpen(v.flows[j]) BY <1>8, <1>10 DEF Good, OneOpen
  <1>12. Good(v, now) BY <1>9, <1>11 DEF Good
  <1>13. Balance(v) = Balance(g) BY <1>5 DEF Shrinks
  <1> QED BY <1>1, <1>5, <1>12, <1>13 DEF v, stop

\* The payload of a packet is emitted, queued or counted.
LEMMA AcceptStage ==
    ASSUME NEW t, NEW now, Good(t, now), Bounded(t), NEW p \in Packets, p.len > 0,
           p.flow \in DOMAIN t.flows, t.flows[p.flow].dirs[p.dir].next # NoSeq
    PROVE  Accepted(AcceptPayload(t, p), t, p, now)
  <1> DEFINE k == p.flow
             dir == p.dir
             d == t.flows[k].dirs[dir]
             segment == SegmentOf(d, p)
             new == [segment EXCEPT !.start = Max({@, d.next})]
             A == Uncovered(new, d.pending)
             e == [d EXCEPT !.pending = @ \cup A, !.pendingBytes = @ + Bytes(A)]
             c == t.stats.conflicts + ConsumedConflict(d, segment) + PendingConflicts(d, new)
             g == [t EXCEPT !.flows[k].dirs[dir] = e,
                            !.buffered = @ + Bytes(A),
                            !.segments = @ + Cardinality(A),
                            !.stats.retransmitted = @ + p.len - Bytes(A),
                            !.stats.conflicts = @ + ConsumedConflict(d, segment)
                                                  + PendingConflicts(d, new)]
             h == [t EXCEPT !.flows[k].dirs[dir] = e,
                            !.buffered = @ + Bytes(A),
                            !.segments = @ + Cardinality(A),
                            !.stats.retransmitted = @ + p.len - Bytes(A),
                            !.stats.conflicts = c]
             v == Emit(g, k, dir, StopWithinLimits(e))
  <1>1. IsTable(t) BY GoodTable
  <1>2. dir \in {0, 1} /\ p.len \in Nat BY TcpReassemblyAssumption
  <1>3. IsDirection(d) /\ d.next # NoSeq BY <1>1, <1>2 DEF IsTable, IsFlow
  <1>4. CASE segment.end <= d.next
    <2>1. AcceptPayload(t, p) = [t EXCEPT !.stats.conflicts = @ + ConsumedConflict(d, segment),
                                          !.stats.retransmitted = @ + p.len]
      BY <1>4 DEF AcceptPayload
    <2> DEFINE x == ConsumedConflict(d, segment)
    <2> HIDE DEF x
    <2>2. Accepted([t EXCEPT !.stats.conflicts = @ + x, !.stats.retransmitted = @ + p.len],
                   t, p, now)
      BY StaleStage
    <2> QED BY <2>1, <2>2 DEF x
  <1>5. CASE ~(segment.end <= d.next)
    <2>1. AcceptPayload(t, p) = EvictOverBudget(v) BY <1>5 DEF AcceptPayload
    <2>2. d.next < segment.end
      <3>1. d.next \in Int BY <1>3 DEF IsDirection, Waiting
      <3>2. PayloadSequence(p) \in Int BY PayloadSequenceIs
      <3>3. Unwrap(PayloadSequence(p), d.next) \in Int BY <3>1, <3>2, UnwrapInt
      <3>4. segment.end = Unwrap(PayloadSequence(p), d.next) + p.len BY DEF SegmentOf
      <3>5. segment.end \in Int BY <1>2, <3>3, <3>4
      <3> HIDE DEF segment, d
      <3> QED BY <1>5, <3>1, <3>5
    <2>3. new \in Segment /\ new.start < new.end /\ d.next <= new.start
      <3> HIDE DEF d
      <3> QED BY <1>3, <2>2, NewSegment
    <2>4. Grows(e, d, A)
      <3> HIDE DEF d, new
      <3> QED BY <1>3, <2>3, QueuedGrows
    <2>5. IsDirection(e) /\ e.next # NoSeq /\ e.closed = d.closed BY <1>3, <2>4 DEF Grows
    <2>6. g = h
      <3>1. Record(t) /\ IsStats(t.stats) BY <1>1 DEF IsTable
      <3> DEFINE x == ConsumedConflict(d, segment)
                 y == PendingConflicts(d, new)
      <3> HIDE DEF x, y, e, A
      <3> QED BY <3>1 DEF Record, IsStats, x, y
    <2>7. k \in DOMAIN t.flows OBVIOUS
    <2> HIDE DEF c, e, A, k, dir, g
    <2>8. Enqueued(h, t, k, dir, e, p.len, now)
      <3>1. Grows(e, t.flows[k].dirs[dir], A) BY <2>4
      <3>2. Enqueued(Enqueue(t, k, dir, e, A, p.len, c), t, k, dir, e, p.len, now)
        BY <1>2, <2>7, <3>1, EnqueueStage
      <3> QED BY <3>2 DEF Enqueue
    <2> HIDE DEF h
    <2>9. Enqueued(g, t, k, dir, e, p.len, now) BY <2>6, <2>8
    <2>10. Good(v, now) /\ Balance(v) = Balance(t) + p.len /\ v.order = t.order
      BY <1>2, <2>5, <2>7, <2>9, DrainStage
    <2> HIDE DEF v
    <2> DEFINE u == EvictOverBudget(v)
    <2>11. Trimmed(u, v, now) BY <2>10, BudgetStage
    <2> HIDE DEF u
    <2>12. Good(u, now) /\ Shrinks(u, v) /\ WithinBudget(u) BY <2>11 DEF Trimmed
    <2>13. Balance(u) = Balance(v) /\ Len(u.order) <= Len(v.order) BY <2>12 DEF Shrinks
    <2>14. Len(u.order) <= MaxFlows
      <3>1. Len(t.order) <= MaxFlows /\ Len(u.order) <= Len(t.order) BY <2>10, <2>13 DEF Bounded
      <3>2. IsTable(u) BY <2>12, GoodTable
      <3>3. Listed(u.order) /\ Listed(t.order) BY <1>1, <3>2 DEF IsTable
      <3>4. Len(u.order) \in Nat /\ Len(t.order) \in Nat BY <3>3, ListedLength
      <3>5. MaxFlows \in Nat BY TcpReassemblyAssumption
      <3> QED BY <3>1, <3>4, <3>5
    <2>15. Accepted(u, t, p, now) BY <2>10, <2>12, <2>13, <2>14 DEF Accepted, Bounded
    <2> QED BY <2>1, <2>15 DEF u
  <1> QED BY <1>4, <1>5

\* The end of a direction or of its flow loses nothing of what they queue.
LEMMA CloseStage ==
    ASSUME NEW t, NEW now, Good(t, now), Bounded(t), NEW p \in Packets, p.flow \in DOMAIN t.flows
    PROVE  Kept(Close(t, p), t, now)
  <1> DEFINE k == p.flow
             dir == p.dir
             s == Flush(t, k, dir)
             d == s.flows[k].dirs[dir]
             e == [d EXCEPT !.closed = TRUE]
             v == [s EXCEPT !.flows[k].dirs[dir] = e]
             w == [s EXCEPT !.flows[k].dirs[dir].closed = TRUE]
  <1>1. IsTable(t) /\ Tidy(t, now) /\ \A j \in DOMAIN t.flows : OneOpen(t.flows[j])
    BY GoodTable DEF Good
  <1>2. dir \in {0, 1} /\ 1 - dir \in {0, 1} /\ 1 - (1 - dir) = dir /\ 1 - dir # dir
    <2>1. dir \in {0, 1} BY TcpReassemblyAssumption
    <2> QED BY <2>1
  <1>3. k \in DOMAIN t.flows OBVIOUS
  <1>4. CASE ~(p.fin \/ p.rst)
    <2>1. ~\A x \in {0, 1} : t.flows[k].dirs[x].closed BY <1>1, <1>3 DEF OneOpen
    <2>2. Close(t, p) = t BY <1>4, <2>1 DEF Close
    <2> QED BY <2>2 DEF Kept
  <1>5. CASE p.fin \/ p.rst
    <2>1. Flushed(s, t, k, dir, now) BY <1>1, <1>2, FlushStage
    <2>2. Close(t, p) = IF p.rst \/ \A x \in {0, 1} : w.flows[k].dirs[x].closed
                          THEN RemoveFlow(Flush(w, k, 1 - dir), k) ELSE w
      BY <1>5 DEF Close
    <2> HIDE DEF s, k, dir
    <2>3. /\ Tidy(s, now) /\ Shrinks(s, t) /\ DOMAIN s.flows = DOMAIN t.flows
          /\ d.pending = {}
          /\ \A j \in DOMAIN t.flows, x \in {0, 1} :
                s.flows[j].dirs[x].closed = t.flows[j].dirs[x].closed
      BY <2>1 DEF Flushed
    <2>4. IsTable(s) BY <2>3 DEF Tidy, Core
    <2>5. IsDirection(d) BY <1>2, <1>3, <2>3, <2>4 DEF IsTable, IsFlow
    <2>6. w = v BY <1>2, <2>4
    <2>7. Like(e, d) /\ e.pending = d.pending
      <3>1. DOMAIN e = DOMAIN d /\ e = [z \in DOMAIN e |-> e[z]] OBVIOUS
      <3>2. e.pending = d.pending /\ e.pendingBytes = d.pendingBytes /\ e.offset = d.offset
        OBVIOUS
      <3>3. e.gap = d.gap /\ e.next = d.next OBVIOUS
      <3>4. d.next \in Int /\ (d.next = NoSeq \/ d.next >= 0) BY <2>5 DEF IsDirection, Waiting
      <3> HIDE DEF e, d
      <3> QED BY <2>5, <3>1, <3>2, <3>3, <3>4, LikeFields
    <2> HIDE DEF e
    <2>8. Quiet(v, s, k, dir, e, now) BY <1>2, <1>3, <2>3, <2>7, QuietStage
    <2>9. Quiet(w, s, k, dir, e, now) BY <2>6, <2>8
    <2> HIDE DEF w, v
    <2>10. Tidy(w, now) /\ Swapped(w, s, k, dir, e) /\ Shrinks(w, s) BY <2>9 DEF Quiet
    <2>11. IsTable(w) BY <2>10 DEF Tidy, Core
    <2>12. Shrinks(w, t) BY <1>1, <2>3, <2>4, <2>10, <2>11, ShrinksTransitive
    <2>13. /\ DOMAIN w.flows = DOMAIN t.flows /\ w.flows[k].dirs[dir] = e
           /\ \A j \in DOMAIN t.flows, x \in {0, 1} :
                 j # k \/ x # dir => w.flows[j].dirs[x] = s.flows[j].dirs[x]
      BY <2>3, <2>10 DEF Swapped
    <2>14. \A j \in DOMAIN w.flows : j # k => OneOpen(w.flows[j])
      BY <1>1, <2>3, <2>13 DEF OneOpen
    <2>15. CASE p.rst \/ \A x \in {0, 1} : w.flows[k].dirs[x].closed
      <3> DEFINE u == RemoveFlow(Flush(w, k, 1 - dir), k)
      <3>1. Close(t, p) = u BY <2>2, <2>15
      <3>2. w.flows[k].dirs[1 - (1 - dir)].pending = {} BY <1>2, <2>3, <2>7, <2>13
      <3> DEFINE x == 1 - dir
      <3>3. x \in {0, 1} /\ w.flows[k].dirs[1 - x].pending = {} /\ u = RemoveFlow(Flush(w, k, x), k)
        BY <1>2, <3>2
      <3> HIDE DEF x, u
      <3>4. Retired(RemoveFlow(Flush(w, k, x), k), w, k, now)
        BY <1>3, <2>10, <2>13, <2>14, <3>3, FlushAndRemove
      <3>5. Retired(u, w, k, now) BY <3>3, <3>4
      <3>6. Good(u, now) /\ Shrinks(u, w) BY <3>5 DEF Retired
      <3>7. IsTable(u) BY <3>6, GoodTable
      <3>8. Shrinks(u, t) BY <1>1, <2>11, <2>12, <3>6, <3>7, ShrinksTransitive
      <3>9. Kept(u, t, now) BY <1>1, <3>6, <3>7, <3>8, ShrinksBounded DEF Kept
      <3> QED BY <3>1, <3>9
    <2>16. CASE ~(p.rst \/ \A x \in {0, 1} : w.flows[k].dirs[x].closed)
      <3>1. Close(t, p) = w BY <2>2, <2>16
      <3>2. OneOpen(w.flows[k]) BY <2>16 DEF OneOpen
      <3>3. Good(w, now) BY <2>10, <2>14, <3>2 DEF Good
      <3>4. Kept(w, t, now) BY <1>1, <2>11, <2>12, <3>3, ShrinksBounded DEF Kept
      <3> QED BY <3>1, <3>4
    <2> QED BY <2>15, <2>16
  <1> QED BY <1>4, <1>5

\* What a table accounts for is a number.
LEMMA BalanceInt ==
    ASSUME NEW t, NEW now, Good(t, now)
    PROVE  Balance(t) \in Int
  <1>1. IsTable(t) /\ Labelled(t) BY DEF Good, Tidy, Core
  <1>2. Sized(t.out) BY <1>1 DEF IsTable, Labelled, Sized
  <1>3. SumFunctionOnSet(LenOf(t.out), DOMAIN t.out) \in Nat BY <1>2, LengthNat
  <1>4. t.buffered \in Int /\ t.stats.retransmitted \in Int /\ t.stats.keepalive \in Int
    BY <1>1 DEF IsTable, IsStats
  <1> QED BY <1>3, <1>4 DEF Balance

\* A keepalive is counted.
LEMMA KeepaliveStage ==
    ASSUME NEW t, NEW now, Good(t, now), Bounded(t), NEW p \in Packets, p.len = 1
    PROVE  Accepted([t EXCEPT !.stats.keepalive = @ + 1], t, p, now)
  <1> DEFINE r == [t.stats EXCEPT !.keepalive = @ + 1]
             u == [t EXCEPT !.stats = r]
  <1>1. IsTable(t) BY GoodTable
  <1>2. IsStats(t.stats) /\ Record(t) BY <1>1 DEF IsTable
  <1>3. DOMAIN r = DOMAIN t.stats /\ r = [z \in DOMAIN r |-> r[z]] OBVIOUS
  <1>4. r.retransmitted = t.stats.retransmitted /\ r.keepalive = t.stats.keepalive + 1
    BY <1>2 DEF IsStats
  <1>5. t.stats.retransmitted \in Int /\ t.stats.keepalive \in Int BY <1>2 DEF IsStats
  <1>6. u = [t EXCEPT !.stats.keepalive = @ + 1] BY <1>2 DEF Record
  <1> HIDE DEF r
  <1>7. r.retransmitted \in Int /\ r.keepalive \in Int BY <1>4, <1>5
  <1>8. IsStats(r) BY <1>2, <1>3, <1>7, StatsShape
  <1>9. Recounted(u, t) /\ u.stats = r BY <1>1, <1>8, PutStats
  <1> HIDE DEF u
  <1>10. Good(u, now) BY <1>9, RecountedGood
  <1>11. /\ u.order = t.order /\ u.buffered = t.buffered /\ u.segments = t.segments
         /\ u.out = t.out
    BY <1>9 DEF Recounted
  <1>12. Bounded(u) BY <1>11 DEF Bounded, WithinBudget
  <1>13. Balance(u) = Balance(t) + p.len
    <2> DEFINE l == SumFunctionOnSet(LenOf(t.out), DOMAIN t.out)
    <2>1. /\ Balance(u) = l + t.buffered + t.stats.retransmitted + (t.stats.keepalive + 1)
          /\ Balance(t) = l + t.buffered + t.stats.retransmitted + t.stats.keepalive
      BY <1>4, <1>9, <1>11 DEF Balance
    <2>2. l \in Nat
      <3>1. Sized(t.out) BY DEF Good, Tidy, Core, IsTable, Labelled, Sized
      <3> QED BY <3>1, LengthNat
    <2>3. t.buffered \in Int BY <1>1 DEF IsTable
    <2> HIDE DEF l
    <2> QED BY <1>5, <2>1, <2>2, <2>3
  <1>14. Accepted(u, t, p, now) BY <1>10, <1>12, <1>13 DEF Accepted
  <1> QED BY <1>6, <1>14

\* The whole of process: whatever the packet, the table stays good and within its
\* limits, and accounts for the payload.
LEMMA ProcessStage ==
    ASSUME NEW t, clock \in Nat, Good(t, clock), Bounded(t), NEW p \in Packets
    PROVE  Accepted(Process(t, p), t, p, clock)
  <1> DEFINE a == NewConnection(t, p)
             b == Touch(a, p)
             c == TrackAck(b, p)
             open == Anchor(c, p)
             d == open.flows[p.flow].dirs[p.dir]
             w == AcceptPayload(open, p)
  <1>1. Process(t, p) = IF p.len = 0 THEN Close(open, p)
                        ELSE IF IsKeepalive(d, p)
                          THEN [open EXCEPT !.stats.keepalive = @ + 1]
                          ELSE Finish(w, p)
    BY DEF Process
  <1>2. Kept(a, t, clock) BY NewConnectionStage
  <1> HIDE DEF a
  <1>3. Good(a, clock) /\ Bounded(a) /\ Balance(a) = Balance(t) BY <1>2 DEF Kept
  <1>4. Kept(b, a, clock) /\ p.flow \in DOMAIN b.flows BY <1>3, TouchStage
  <1> HIDE DEF b
  <1>5. Good(b, clock) /\ Bounded(b) /\ Balance(b) = Balance(t) BY <1>3, <1>4 DEF Kept
  <1>6. Kept(c, b, clock) /\ DOMAIN c.flows = DOMAIN b.flows BY <1>4, <1>5, TrackAckStage
  <1> HIDE DEF c
  <1>7. Good(c, clock) /\ Bounded(c) /\ Balance(c) = Balance(t) /\ p.flow \in DOMAIN c.flows
    BY <1>4, <1>5, <1>6 DEF Kept
  <1>8. /\ Kept(open, c, clock) /\ p.flow \in DOMAIN open.flows
        /\ p.len > 0 => d.next # NoSeq
    BY <1>7, AnchorStage
  <1> HIDE DEF open
  <1>9. Good(open, clock) /\ Bounded(open) /\ Balance(open) = Balance(t) BY <1>7, <1>8 DEF Kept
  <1>10. Balance(t) \in Int BY BalanceInt
  <1>11. p.len \in Nat BY TcpReassemblyAssumption
  <1>12. CASE p.len = 0
    <2> DEFINE u == Close(open, p)
    <2>1. Kept(u, open, clock) BY <1>8, <1>9, CloseStage
    <2> HIDE DEF u
    <2>2. Good(u, clock) /\ Bounded(u) /\ Balance(u) = Balance(t) BY <1>9, <2>1 DEF Kept
    <2>3. Balance(u) = Balance(t) + p.len BY <1>10, <1>12, <2>2
    <2>4. Accepted(u, t, p, clock) BY <2>2, <2>3 DEF Accepted
    <2> QED BY <1>1, <1>12, <2>4 DEF u
  <1>13. CASE p.len # 0 /\ IsKeepalive(d, p)
    <2> DEFINE u == [open EXCEPT !.stats.keepalive = @ + 1]
    <2>1. p.len = 1 BY <1>13 DEF IsKeepalive
    <2>2. Accepted(u, open, p, clock) BY <1>9, <2>1, KeepaliveStage
    <2> HIDE DEF u
    <2>3. Accepted(u, t, p, clock) BY <1>9, <2>2 DEF Accepted
    <2>4. Process(t, p) = u BY <1>1, <1>13 DEF u
    <2> QED BY <2>3, <2>4
  <1>14. CASE p.len # 0 /\ ~IsKeepalive(d, p)
    <2>1. p.len > 0 BY <1>11, <1>14
    <2>2. Accepted(w, open, p, clock) BY <1>8, <1>9, <2>1, AcceptStage
    <2> HIDE DEF w
    <2>3. Good(w, clock) /\ Bounded(w) /\ Balance(w) = Balance(t) + p.len
      BY <1>9, <2>2 DEF Accepted
    <2>4. Process(t, p) = Finish(w, p) BY <1>1, <1>14
    <2>5. CASE p.flow \in DOMAIN w.flows
      <3>1. Kept(Close(w, p), w, clock) BY <2>3, <2>5, CloseStage
      <3>2. Finish(w, p) = Close(w, p) BY <2>5 DEF Finish
      <3>3. Accepted(Finish(w, p), t, p, clock) BY <2>3, <3>1, <3>2 DEF Kept, Accepted
      <3> QED BY <2>4, <3>3
    <2>6. CASE p.flow \notin DOMAIN w.flows
      <3>1. Finish(w, p) = w BY <2>6 DEF Finish
      <3>2. Accepted(w, t, p, clock) BY <2>3 DEF Accepted
      <3> QED BY <2>4, <3>1, <3>2
    <2> QED BY <2>5, <2>6
  <1> QED BY <1>12, <1>13, <1>14

-----------------------------------------------------------------------------
(***************************************************************************)
(* The invariant holds                                                     *)
(***************************************************************************)

\* Time passes and changes nothing.
LEMMA TimePasses ==
    ASSUME NEW t, NEW now \in Nat, Good(t, now), NEW then \in Nat, now <= then
    PROVE  Good(t, then)
  <1>1. Core(t, now) /\ IsTable(t) /\ Timed(t, now) BY DEF Good, Tidy, Core
  <1>2. \A k \in DOMAIN t.flows : t.flows[k].activity \in Nat /\ t.flows[k].activity <= now
    BY <1>1 DEF IsTable, IsFlow, Timed
  <1>3. \A k \in DOMAIN t.flows : t.flows[k].activity <= then BY <1>2
  <1>4. Timed(t, then) BY <1>1, <1>3 DEF Timed
  <1>5. Core(t, then) BY <1>1, <1>4 DEF Core
  <1> QED BY <1>5 DEF Good, Tidy

\* u is t with some of its chunks marked.
Remarked(u, t) ==
    /\ Record(u)
    /\ u.flows = t.flows /\ u.order = t.order /\ u.nextEpoch = t.nextEpoch
    /\ u.buffered = t.buffered /\ u.segments = t.segments /\ u.stats = t.stats
    /\ DOMAIN u.out = DOMAIN t.out /\ Listed(u.out)
    /\ \A i \in DOMAIN t.out :
          /\ u.out[i].flow = t.out[i].flow /\ u.out[i].epoch = t.out[i].epoch
          /\ u.out[i].dir = t.out[i].dir /\ u.out[i].offset = t.out[i].offset
          /\ u.out[i].start = t.out[i].start /\ u.out[i].data = t.out[i].data
          /\ u.out[i].completeness # "gapped" => t.out[i].completeness # "gapped"

\* A chunk that is marked promises less.
LEMMA RemarkedGood ==
    ASSUME NEW t, NEW now, Good(t, now), NEW u, Remarked(u, t)
    PROVE  Good(u, now) /\ Balance(u) = Balance(t)
  <1>1. /\ IsTable(t) /\ Keys(t) /\ Timed(t, now) /\ Counted(t) /\ Epochs(t) /\ Labelled(t)
        /\ Behind(t) /\ InOrder(t) /\ Joined(t)
    BY DEF Good, Tidy, Core
  <1>2. /\ u.flows = t.flows /\ u.order = t.order /\ u.nextEpoch = t.nextEpoch
        /\ u.buffered = t.buffered /\ u.segments = t.segments /\ u.stats = t.stats
        /\ Record(u) /\ DOMAIN u.out = DOMAIN t.out /\ Listed(u.out)
    BY DEF Remarked
  <1>3. \A i \in DOMAIN t.out :
          /\ u.out[i].flow = t.out[i].flow /\ u.out[i].epoch = t.out[i].epoch
          /\ u.out[i].dir = t.out[i].dir /\ u.out[i].offset = t.out[i].offset
          /\ u.out[i].start = t.out[i].start /\ u.out[i].data = t.out[i].data
          /\ u.out[i].completeness # "gapped" => t.out[i].completeness # "gapped"
    BY DEF Remarked
  <1>4. IsTable(u) BY <1>1, <1>2 DEF IsTable
  <1>5. Keys(u) /\ Timed(u, now) BY <1>1, <1>2 DEF Keys, Timed
  <1>6. Counted(u)
    <2>1. Places(u) = Places(t) BY <1>2 DEF Places
    <2>2. Held(u) = Held(t) BY <1>2, <2>1 DEF Held
    <2>3. Number(u) = Number(t) BY <1>2, <2>1 DEF Number
    <2> QED BY <1>1, <1>2, <2>1, <2>2, <2>3 DEF Counted
  <1>7. Epochs(u) BY <1>1, <1>2 DEF Epochs
  <1>8. Labelled(u) BY <1>1, <1>2, <1>3 DEF Labelled
  <1>9. Behind(u) BY <1>1, <1>2, <1>3 DEF Behind
  <1>10. InOrder(u) BY <1>1, <1>2, <1>3 DEF InOrder
  <1>11. LenOf(u.out) = LenOf(t.out) BY <1>2, <1>3 DEF LenOf
  <1>12. Listed(t.out) BY <1>1 DEF IsTable
  <1>13. /\ Len(t.out) \in Nat /\ DOMAIN t.out = 1 .. Len(t.out) /\ Len(u.out) = Len(t.out)
    <2>1. Len(t.out) \in Nat /\ DOMAIN t.out = 1 .. Len(t.out) BY <1>12, ListedLength
    <2>2. Len(u.out) \in Nat /\ DOMAIN u.out = 1 .. Len(u.out) BY <1>2, ListedLength
    <2>3. 1 .. Len(u.out) = 1 .. Len(t.out) BY <1>2, <2>1, <2>2
    <2> DEFINE a == Len(u.out)
               b == Len(t.out)
    <2> HIDE DEF a, b
    <2>4. a \in Nat /\ b \in Nat /\ 1 .. a = 1 .. b BY <2>1, <2>2, <2>3 DEF a, b
    <2>5. a = b BY <2>4
    <2> QED BY <2>1, <2>5 DEF a, b
  <1>14. \A epoch, dir : \A n \in 0 .. Len(t.out) :
            Total(u.out, epoch, dir, n) = Total(t.out, epoch, dir, n)
    <2> SUFFICES ASSUME NEW epoch, NEW dir, NEW n \in 0 .. Len(t.out)
                 PROVE  Total(u.out, epoch, dir, n) = Total(t.out, epoch, dir, n)
      OBVIOUS
    <2>1. \A i \in 1 .. n : i \in DOMAIN t.out BY <1>13
    <2>2. Of(u.out, epoch, dir, n) = Of(t.out, epoch, dir, n) BY <1>3, <2>1 DEF Of
    <2> QED BY <1>11, <2>2 DEF Total
  <1>15. Joined(u)
    <2>1. ASSUME NEW j \in DOMAIN u.out, u.out[j].completeness # "gapped"
          PROVE  u.out[j].offset = Total(u.out, u.out[j].epoch, u.out[j].dir, j - 1)
      <3>1. j \in DOMAIN t.out /\ j - 1 \in 0 .. Len(t.out) BY <1>2, <1>13, <2>1
      <3>2. t.out[j].offset = Total(t.out, t.out[j].epoch, t.out[j].dir, j - 1)
        BY <1>1, <1>3, <2>1, <3>1 DEF Joined
      <3> QED BY <1>3, <1>14, <3>1, <3>2
    <2>2. \A k \in DOMAIN u.flows, dir \in {0, 1} :
             ~u.flows[k].dirs[dir].gap =>
               u.flows[k].dirs[dir].offset = Total(u.out, u.flows[k].epoch, dir, Len(u.out))
      <3>1. Len(t.out) \in 0 .. Len(t.out) BY <1>13
      <3> QED BY <1>1, <1>2, <1>13, <1>14, <3>1 DEF Joined
    <2> QED BY <2>1, <2>2 DEF Joined
  <1>16. Core(u, now) BY <1>4, <1>5, <1>6, <1>7, <1>8, <1>9, <1>10, <1>15 DEF Core
  <1>17. Good(u, now) BY <1>2, <1>16 DEF Good, Tidy
  <1>18. Balance(u) = Balance(t) BY <1>2, <1>11 DEF Balance
  <1> QED BY <1>17, <1>18

\* The state after a step is the table it commits.
LEMMA CommitTable ==
    ASSUME NEW t, Record(t), Commit(t)
    PROVE  Table' = t
  BY DEF Commit, Record, Table

\* expire and flush_all retire flows of the table.
LEMMA StaleIn ==
    ASSUME Inv
    PROVE  Stale \in 0 .. Len(order)
  <1> DEFINE S == {n \in 0 .. Len(order) : \A i \in 1 .. n : IsIdle(order[i])}
  <1>1. Listed(Table.order) BY DEF Inv, Good, Tidy, Core, IsTable
  <1>2. Listed(order) BY <1>1 DEF Table
  <1>3. Len(order) \in Nat BY <1>2, ListedLength
  <1>4. 0 \in S BY <1>3
  <1>5. S \subseteq 0 .. Len(order) OBVIOUS
  <1>6. Stale = Max(S) BY Zenon DEF Stale
  <1> HIDE DEF S
  <1>7. IsFiniteSet(0 .. Len(order)) BY <1>3, FS_Interval
  <1>8. IsFiniteSet(S) /\ (\A x \in S : x \in Int)
    <2>1. IsFiniteSet(S) BY <1>5, <1>7, FS_Subset
    <2>2. \A x \in S : x \in Int BY <1>3, <1>5
    <2> QED BY <2>1, <2>2
  <1>9. Max(S) \in S BY <1>4, <1>8, FiniteMax
  <1> QED BY <1>5, <1>6, <1>9

\* The invariant holds at the start.
LEMMA InvInit == Init => Inv
  <1> SUFFICES ASSUME Init PROVE Inv OBVIOUS
  <1> DEFINE t == Table
  <1>1. /\ t.flows = <<>> /\ t.order = <<>> /\ t.nextEpoch = 1 /\ t.buffered = 0
        /\ t.segments = 0 /\ t.stats = NoStats /\ t.out = <<>>
    BY DEF Init, Table
  <1>2. Record(t) BY DEF Record, Table
  <1> HIDE DEF t
  <1>3. DOMAIN <<>> = {} /\ Len(<<>>) = 0 OBVIOUS
  <1>4. Listed(<<>>)
    <2>1. <<>> \in Seq({}) OBVIOUS
    <2> QED BY <2>1, ListedIn
  <1>5. <<>> = [k \in DOMAIN <<>> |-> <<>>[k]]
    <2>1. <<>> = [k \in 1 .. Len(<<>>) |-> <<>>[k]] BY <1>4, ListedLength
    <2>2. 1 .. Len(<<>>) = DOMAIN <<>> BY <1>4, ListedLength
    <2> QED BY <2>1, <2>2
  <1>6. IsStats(NoStats) BY DEF NoStats, IsStats
  <1>7. IsTable(t)
    <2>1. t.flows = [k \in DOMAIN t.flows |-> t.flows[k]] BY <1>1, <1>5
    <2>2. \A k \in DOMAIN t.flows : IsFlow(t.flows[k]) BY <1>1, <1>3
    <2>3. t.nextEpoch \in Nat /\ t.buffered \in Int /\ t.segments \in Int BY <1>1
    <2>4. IsStats(t.stats) /\ Listed(t.order) /\ Listed(t.out) BY <1>1, <1>4, <1>6
    <2> QED BY <1>2, <2>1, <2>2, <2>3, <2>4 DEF IsTable
  <1>8. DOMAIN t.flows = {} /\ DOMAIN t.order = {} /\ DOMAIN t.out = {} BY <1>1, <1>3
  <1>9. Keys(t) /\ Timed(t, 0) BY <1>8 DEF Keys, Timed
  <1>10. Counted(t)
    <2>1. Places(t) = {} BY <1>8 DEF Places
    <2> QED BY <1>1, <2>1, SumEmpty DEF Counted
  <1>11. Epochs(t) /\ Labelled(t) /\ Behind(t) /\ InOrder(t) /\ Joined(t)
    BY <1>8 DEF Epochs, Labelled, Behind, InOrder, Joined
  <1>12. Core(t, 0) BY <1>7, <1>9, <1>10, <1>11 DEF Core
  <1>13. Good(t, 0) BY <1>8, <1>12 DEF Good, Tidy
  <1>14. Bounded(t)
    <2>1. MaxFlows \in Nat /\ MaxBuffered \in Nat /\ MaxBufferedSegments \in Nat
      BY TcpReassemblyAssumption
    <2>2. Len(t.order) = 0 BY <1>1, <1>3
    <2> QED BY <1>1, <2>1, <2>2 DEF Bounded, WithinBudget
  <1>15. Balance(t) = 0
    <2>1. SumFunctionOnSet(LenOf(t.out), DOMAIN t.out) = 0 BY <1>8, SumEmpty
    <2>2. t.stats.retransmitted = 0 /\ t.stats.keepalive = 0 BY <1>1 DEF NoStats
    <2> QED BY <1>1, <2>1, <2>2 DEF Balance
  <1>16. clock = 0 /\ received = 0 BY DEF Init
  <1> QED BY <1>13, <1>14, <1>15, <1>16 DEF Inv, t

\* A step that commits a good table within its limits keeps the invariant.
LEMMA InvCommit ==
    ASSUME NEW t, Commit(t), clock' \in Nat, Good(t, clock'), Bounded(t),
           received' = Balance(t)
    PROVE  Inv'
  <1>1. IsTable(t) BY GoodTable
  <1>2. Record(t) BY <1>1 DEF IsTable
  <1>3. Table' = t BY <1>2, CommitTable
  <1> QED BY <1>3 DEF Inv

\* process keeps the invariant.
LEMMA InvReceive ==
    ASSUME Inv, NEW p \in Packets, Receive(p)
    PROVE  Inv'
  <1> DEFINE t == Table
             u == Process(t, p)
  <1>1. Good(t, clock) /\ Bounded(t) /\ clock \in Nat /\ received = Balance(t) BY DEF Inv
  <1>2. Accepted(u, t, p, clock) BY <1>1, ProcessStage
  <1>3. Commit(u) /\ clock' = clock + 1 /\ received' = received + p.len BY DEF Receive
  <1> HIDE DEF u, t
  <1>4. Good(u, clock) /\ Bounded(u) /\ Balance(u) = Balance(t) + p.len BY <1>2 DEF Accepted
  <1>5. clock' \in Nat /\ clock <= clock' BY <1>1, <1>3
  <1>6. Good(u, clock') BY <1>1, <1>4, <1>5, TimePasses
  <1>7. received' = Balance(u) BY <1>1, <1>3, <1>4
  <1> QED BY <1>3, <1>4, <1>5, <1>6, <1>7, InvCommit

\* A pause keeps the invariant.
LEMMA InvPause ==
    ASSUME Inv, Pause
    PROVE  Inv'
  <1> DEFINE t == Table
  <1>1. Good(t, clock) /\ Bounded(t) /\ clock \in Nat /\ received = Balance(t) BY DEF Inv
  <1>2. clock' = clock + Idle /\ Table' = t /\ received' = received BY DEF Pause, Table
  <1>3. Idle \in Nat BY TcpReassemblyAssumption
  <1> HIDE DEF t
  <1>4. clock' \in Nat /\ clock <= clock' BY <1>1, <1>2, <1>3
  <1>5. Good(t, clock') BY <1>1, <1>4, TimePasses
  <1> QED BY <1>1, <1>2, <1>4, <1>5 DEF Inv

\* expire keeps the invariant.
LEMMA InvExpire ==
    ASSUME Inv, Expire
    PROVE  Inv'
  <1> DEFINE t == Table
             n == Stale
             r == RetireFirst(t, n)
             u == [r EXCEPT !.stats.expired = @ + n]
  <1>1. Good(t, clock) /\ Bounded(t) /\ clock \in Nat /\ received = Balance(t) BY DEF Inv
  <1>2. Commit(u) /\ clock' = clock /\ received' = received BY DEF Expire
  <1>3. n \in 0 .. Len(t.order)
    <2>1. t.order = order BY DEF Table
    <2>2. Stale \in 0 .. Len(order) BY StaleIn
    <2> QED BY <2>1, <2>2
  <1> HIDE DEF t, n
  <1>4. Oldest(r, t, n, clock) BY <1>1, <1>3, RetireFirstStage
  <1> HIDE DEF r
  <1>5. IsTable(r) /\ IsTable(t) BY <1>1, <1>4, GoodTable DEF Oldest
  <1>6. Recounted(u, r) /\ Shrinks(u, r) BY <1>5, CountExpired
  <1> HIDE DEF u
  <1>7. Oldest(u, t, n, clock) BY <1>4, <1>5, <1>6, OldestRecounted
  <1>8. Good(u, clock) /\ Shrinks(u, t) BY <1>7 DEF Oldest
  <1>9. IsTable(u) BY <1>8, GoodTable
  <1>10. Bounded(u) /\ Balance(u) = Balance(t) BY <1>1, <1>5, <1>8, <1>9, ShrinksBounded
  <1>11. clock' \in Nat /\ Good(u, clock') /\ received' = Balance(u) BY <1>1, <1>2, <1>8, <1>10
  <1> QED BY <1>2, <1>10, <1>11, InvCommit

\* flush_all keeps the invariant.
LEMMA InvFlushAll ==
    ASSUME Inv, FlushAll
    PROVE  Inv'
  <1> DEFINE t == Table
             n == Len(order)
             r == RetireFirst(t, n)
             o == [i \in DOMAIN r.out |->
                     IF i > Len(out) THEN [r.out[i] EXCEPT !.completeness = "gapped"] ELSE r.out[i]]
             u == [r EXCEPT !.out = o]
  <1>1. Good(t, clock) /\ Bounded(t) /\ clock \in Nat /\ received = Balance(t) BY DEF Inv
  <1>2. Commit(u) /\ clock' = clock /\ received' = received BY DEF FlushAll
  <1>3. IsTable(t) BY <1>1, GoodTable
  <1>4. t.order = order BY DEF Table
  <1>5. n \in 0 .. Len(t.order)
    <2>1. Listed(t.order) BY <1>3 DEF IsTable
    <2>2. Len(t.order) \in Nat BY <2>1, ListedLength
    <2> QED BY <1>4, <2>2
  <1> HIDE DEF t, n
  <1>6. Oldest(r, t, n, clock) BY <1>1, <1>5, RetireFirstStage
  <1> HIDE DEF r
  <1>7. Good(r, clock) /\ Shrinks(r, t) BY <1>6 DEF Oldest
  <1>8. IsTable(r) BY <1>7, GoodTable
  <1>9. Bounded(r) /\ Balance(r) = Balance(t) BY <1>1, <1>3, <1>7, <1>8, ShrinksBounded
  <1>10. Remarked(u, r)
    <2>1. Record(r) /\ Listed(r.out) BY <1>8 DEF IsTable
    <2>2. Len(r.out) \in Nat /\ DOMAIN r.out = 1 .. Len(r.out) BY <2>1, ListedLength
    <2>3. /\ DOMAIN o = DOMAIN r.out /\ o = [i \in DOMAIN o |-> o[i]] OBVIOUS
    <2>4. \A i \in DOMAIN r.out :
            /\ o[i].flow = r.out[i].flow /\ o[i].epoch = r.out[i].epoch
            /\ o[i].dir = r.out[i].dir /\ o[i].offset = r.out[i].offset
            /\ o[i].start = r.out[i].start /\ o[i].data = r.out[i].data
      OBVIOUS
    <2>5. \A i \in DOMAIN r.out :
             o[i].completeness # "gapped" => r.out[i].completeness # "gapped"
      OBVIOUS
    <2> HIDE DEF o
    <2>6. Listed(o)
      <3>1. o = [i \in 1 .. Len(r.out) |-> o[i]] BY <2>2, <2>3
      <3> QED BY <2>2, <3>1, ListedFunction
    <2>7. /\ u.flows = r.flows /\ u.order = r.order /\ u.nextEpoch = r.nextEpoch
          /\ u.buffered = r.buffered /\ u.segments = r.segments /\ u.stats = r.stats
      OBVIOUS
    <2>8. u.out = o /\ Record(u) BY <2>1 DEF Record
    <2> HIDE DEF u
    <2> QED BY <2>3, <2>4, <2>5, <2>6, <2>7, <2>8 DEF Remarked
  <1> HIDE DEF u
  <1>11. Good(u, clock) /\ Balance(u) = Balance(r) BY <1>7, <1>10, RemarkedGood
  <1>12. Bounded(u) BY <1>9, <1>10 DEF Bounded, WithinBudget, Remarked
  <1>13. clock' \in Nat /\ Good(u, clock') /\ received' = Balance(u) BY <1>1, <1>2, <1>9, <1>11
  <1> QED BY <1>2, <1>12, <1>13, InvCommit

\* The invariant is inductive.
LEMMA InvNext == Inv /\ [Next]_vars => Inv'
  <1> SUFFICES ASSUME Inv, [Next]_vars PROVE Inv' OBVIOUS
  <1>1. CASE \E p \in Packets : Receive(p) BY <1>1, InvReceive
  <1>2. CASE Pause BY <1>2, InvPause
  <1>3. CASE Expire BY <1>3, InvExpire
  <1>4. CASE FlushAll BY <1>4, InvFlushAll
  <1>5. CASE UNCHANGED vars
    <2>1. Table' = Table /\ clock' = clock /\ received' = received BY <1>5 DEF vars, Table
    <2> QED BY <2>1 DEF Inv
  <1> QED BY <1>1, <1>2, <1>3, <1>4, <1>5 DEF Next

\* Whatever packets arrive and whenever flows expire, the table is well-formed,
\* within its limits, and accounts for the payload it has taken.
THEOREM ReassemblyInvariant == Spec => []Inv
  BY InvInit, InvNext, PTL DEF Spec

-----------------------------------------------------------------------------
(***************************************************************************)
(* What follows from the invariant                                         *)
(***************************************************************************)

\* The parts of the invariant, in terms of the variables.
LEMMA InvParts ==
    ASSUME Inv
    PROVE  /\ IsTable(Table) /\ Keys(Table) /\ Timed(Table, clock) /\ Counted(Table)
           /\ Labelled(Table) /\ InOrder(Table) /\ Joined(Table) /\ Sized(out)
           /\ Table.flows = flows /\ Table.order = order /\ Table.buffered = buffered
           /\ Table.segments = segments /\ Table.stats = stats /\ Table.out = out
  <1>1. /\ IsTable(Table) /\ Keys(Table) /\ Timed(Table, clock) /\ Counted(Table)
        /\ Labelled(Table) /\ InOrder(Table) /\ Joined(Table)
    BY DEF Inv, Good, Tidy, Core
  <1>2. /\ Table.flows = flows /\ Table.order = order /\ Table.buffered = buffered
        /\ Table.segments = segments /\ Table.stats = stats /\ Table.out = out
    BY DEF Table
  <1>3. Sized(Table.out) BY <1>1 DEF IsTable, Labelled, Sized
  <1> QED BY <1>1, <1>2, <1>3

\* A list without repetitions is as long as the set it lists is large.
LEMMA ListsCardinality ==
    ASSUME NEW q, NEW D, Lists(q, D)
    PROVE  ToSet(q) = D /\ IsFiniteSet(D) /\ Cardinality(D) = Len(q)
  <1>1. Listed(q) BY DEF Lists
  <1>2. Len(q) \in Nat /\ DOMAIN q = 1 .. Len(q) /\ q = [i \in 1 .. Len(q) |-> q[i]]
    BY <1>1, ListedLength
  <1> DEFINE n == Len(q)
  <1> HIDE DEF n
  <1>3. n \in Nat /\ DOMAIN q = 1 .. n /\ q = [i \in 1 .. n |-> q[i]] BY <1>2 DEF n
  <1>4. \A i \in 1 .. n : q[i] \in D BY <1>3 DEF Lists
  <1>5. q \in [1 .. n -> D] BY <1>3, <1>4
  <1>6. IsInjective(q) BY DEF Lists, IsInjective
  <1>7. \A k \in D : \E i \in 1 .. n : q[i] = k BY <1>3 DEF Lists
  <1>8. q \in Bijection(1 .. n, D) BY <1>5, <1>6, <1>7 DEF Bijection, Injection, Surjection
  <1>9. ExistsBijection(1 .. n, D) BY <1>8 DEF ExistsBijection
  <1>10. IsFiniteSet(1 .. n) /\ Cardinality(1 .. n) = n BY <1>3, FS_Interval
  <1>11. IsFiniteSet(D) /\ Cardinality(D) = n BY <1>9, <1>10, FS_Bijection
  <1>12. ToSet(q) = D BY <1>3, <1>4, <1>7 DEF ToSet
  <1> QED BY <1>11, <1>12 DEF n

\* Queued segments are disjoint and wait behind a gap.
THEOREM QueuesWait == Spec => []PendingWaits
  <1>1. Inv => PendingWaits
    <2> SUFFICES ASSUME Inv, NEW kd \in Directions
                 PROVE  /\ \A s \in Dir(kd).pending : /\ Dir(kd).next # NoSeq
                                                      /\ Dir(kd).next < s.start
                                                      /\ s.start < s.end
                        /\ \A s, t \in Dir(kd).pending : s # t => ~Overlap(s, t)
      BY DEF PendingWaits
    <2>1. PICK k \in DOMAIN flows, x \in {0, 1} : kd = <<k, x>> BY DEF Directions
    <2>2. Dir(kd) = flows[k].dirs[x] BY <2>1 DEF Dir
    <2>3. IsTable(Table) /\ Table.flows = flows BY InvParts
    <2>4. IsDirection(flows[k].dirs[x]) BY <2>3 DEF IsTable, IsFlow
    <2>5. Settled(flows[k].dirs[x]) BY <2>3 DEF Inv, Good, Tidy
    <2> DEFINE d == flows[k].dirs[x]
    <2> HIDE DEF d
    <2>6. IsDirection(d) /\ Settled(d) BY <2>4, <2>5 DEF d
    <2>7. Queue(d.pending) /\ \A s \in d.pending : d.next # NoSeq
      BY <2>6 DEF IsDirection, Waiting
    <2>8. \A s \in d.pending : d.next < s.start BY <2>6 DEF Settled
    <2>9. /\ \A s \in d.pending : d.next # NoSeq /\ d.next < s.start /\ s.start < s.end
          /\ \A s, t \in d.pending : s # t => ~Overlap(s, t)
      BY <2>7, <2>8 DEF Queue
    <2>10. Dir(kd) = d BY <2>2 DEF d
    <2> QED BY <2>9, <2>10
  <1> QED BY <1>1, ReassemblyInvariant, PTL

\* The scan of expire stops at the first flow that is not idle, and misses none.
THEOREM ExpiryComplete == Spec => []ExpiryFindsAllIdle
  <1>1. Inv => ExpiryFindsAllIdle
    <2> SUFFICES ASSUME Inv, NEW i \in DOMAIN order, NEW j \in DOMAIN order, i < j,
                        IsIdle(order[j])
                 PROVE  IsIdle(order[i])
      BY DEF ExpiryFindsAllIdle
    <2>1. /\ IsTable(Table) /\ Keys(Table) /\ Timed(Table, clock)
          /\ Table.flows = flows /\ Table.order = order
      BY InvParts
    <2> DEFINE a == flows[order[i]].activity
               b == flows[order[j]].activity
    <2>2. order[i] \in DOMAIN flows /\ order[j] \in DOMAIN flows BY <2>1 DEF Keys
    <2>3. a \in Nat /\ b \in Nat BY <2>1, <2>2 DEF IsTable, IsFlow
    <2>4. a <= b BY <2>1 DEF Timed
    <2>5. clock - b >= Idle BY DEF IsIdle
    <2>6. clock \in Nat /\ Idle \in Nat BY TcpReassemblyAssumption DEF Inv
    <2> HIDE DEF a, b
    <2>7. clock - a >= Idle BY <2>3, <2>4, <2>5, <2>6
    <2> QED BY <2>7 DEF IsIdle, a
  <1> QED BY <1>1, ReassemblyInvariant, PTL

\* Whenever process has returned, the counters are the queued bytes and segments,
\* and the limits hold.
THEOREM BudgetsHold == Spec => []BudgetsReconcile
  <1>1. Inv => BudgetsReconcile
    <2> SUFFICES ASSUME Inv PROVE BudgetsReconcile OBVIOUS
    <2>1. /\ IsTable(Table) /\ Keys(Table) /\ Counted(Table)
          /\ Table.flows = flows /\ Table.order = order /\ Table.buffered = buffered
          /\ Table.segments = segments
      BY InvParts
    <2>2. Bounded(Table) BY DEF Inv
    <2>3. /\ ToSet(order) = DOMAIN flows /\ Cardinality(DOMAIN flows) = Len(order)
      <3>1. Lists(order, DOMAIN flows) BY <2>1 DEF Keys, Lists, IsTable
      <3> QED BY <3>1, ListsCardinality
    <2>4. Directions = Places(Table) BY <2>1 DEF Directions, Places
    <2>5. buffered = SumFunction([kd \in Directions |-> Bytes(Dir(kd).pending)])
      <3>1. Held(Table) = [kd \in Directions |-> Bytes(Dir(kd).pending)]
        BY <2>1, <2>4 DEF Held, Dir
      <3>2. DOMAIN Held(Table) = Places(Table) BY DEF Held
      <3>3. buffered = SumFunctionOnSet(Held(Table), Places(Table)) BY <2>1 DEF Counted
      <3>4. SumFunction(Held(Table)) = SumFunctionOnSet(Held(Table), DOMAIN Held(Table))
        BY Zenon DEF SumFunction
      <3> QED BY <3>1, <3>2, <3>3, <3>4
    <2>6. segments = SumFunction([kd \in Directions |-> Cardinality(Dir(kd).pending)])
      <3>1. Number(Table) = [kd \in Directions |-> Cardinality(Dir(kd).pending)]
        BY <2>1, <2>4 DEF Number, Dir
      <3>2. DOMAIN Number(Table) = Places(Table) BY DEF Number
      <3>3. segments = SumFunctionOnSet(Number(Table), Places(Table)) BY <2>1 DEF Counted
      <3>4. SumFunction(Number(Table)) = SumFunctionOnSet(Number(Table), DOMAIN Number(Table))
        BY Zenon DEF SumFunction
      <3> QED BY <3>1, <3>2, <3>3, <3>4
    <2>7. ASSUME NEW kd \in Directions
          PROVE  /\ Dir(kd).pendingBytes = Bytes(Dir(kd).pending)
                 /\ Dir(kd).pendingBytes <= MaxPending
                 /\ Cardinality(Dir(kd).pending) <= MaxSegments
      <3>1. PICK k \in DOMAIN flows, x \in {0, 1} : kd = <<k, x>> BY DEF Directions
      <3>2. Dir(kd) = flows[k].dirs[x] BY <3>1 DEF Dir
      <3>3. IsDirection(flows[k].dirs[x]) BY <2>1 DEF IsTable, IsFlow
      <3>4. Settled(flows[k].dirs[x]) BY <2>1 DEF Inv, Good, Tidy
      <3>5. flows[k].dirs[x].pendingBytes = Bytes(flows[k].dirs[x].pending)
        BY <3>3 DEF IsDirection, Waiting
      <3>6. /\ flows[k].dirs[x].pendingBytes <= MaxPending
            /\ Cardinality(flows[k].dirs[x].pending) <= MaxSegments
        BY <3>4 DEF Settled
      <3> QED BY <3>2, <3>5, <3>6
    <2>8. /\ Len(order) <= MaxFlows /\ buffered <= MaxBuffered /\ segments <= MaxBufferedSegments
      BY <2>1, <2>2 DEF Bounded, WithinBudget
    <2> QED BY <2>3, <2>5, <2>6, <2>7, <2>8 DEF BudgetsReconcile
  <1> QED BY <1>1, ReassemblyInvariant, PTL

\* Each byte is emitted at most once and in order.
THEOREM NothingEmittedTwice == Spec => []EmittedOnce
  <1>1. Inv => EmittedOnce
    <2> SUFFICES ASSUME Inv, NEW i \in DOMAIN out, NEW j \in DOMAIN out, i < j, SameStream(i, j)
                 PROVE  ChunkEnd(i) <= out[j].offset /\ out[i].flow = out[j].flow
      BY DEF EmittedOnce
    <2>1. InOrder(Table) /\ Table.out = out BY InvParts
    <2> QED BY <2>1 DEF InOrder, SameStream, ChunkEnd
  <1> QED BY <1>1, ReassemblyInvariant, PTL

\* Offset and sequence position of a direction move in step.
THEOREM OffsetsInStep == Spec => []OffsetsFollowSequence
  <1>1. Inv => OffsetsFollowSequence
    <2> SUFFICES ASSUME Inv, NEW i \in DOMAIN out, NEW j \in DOMAIN out, SameStream(i, j)
                 PROVE  out[j].start - out[i].start = out[j].offset - out[i].offset
      BY DEF OffsetsFollowSequence
    <2>1. InOrder(Table) /\ Labelled(Table) /\ Sized(out) /\ Table.out = out BY InvParts
    <2>2. /\ out[i].start \in Int /\ out[i].offset \in Int
          /\ out[j].start \in Int /\ out[j].offset \in Int
      BY <2>1 DEF Labelled
    <2>3. i = j \/ i < j \/ j < i
      <3>1. Listed(out) BY <2>1 DEF Sized
      <3>2. Len(out) \in Nat /\ DOMAIN out = 1 .. Len(out) BY <3>1, ListedLength
      <3> QED BY <3>2
    <2>4. i = j \/ out[i].start - out[i].offset = out[j].start - out[j].offset
      BY <2>1, <2>3 DEF InOrder, SameStream
    <2> QED BY <2>2, <2>4
  <1> QED BY <1>1, ReassemblyInvariant, PTL

\* The places of a sequence are finitely many.
LEMMA IndicesFinite ==
    ASSUME NEW n \in Nat
    PROVE  IsFiniteSet(1 .. n)
  <1>1. 1 \in Int /\ n \in Int OBVIOUS
  <1> QED BY <1>1, FS_Interval

\* A chunk that is not marked gapped has everything before it.
THEOREM GapsAreMarked == Spec => []NoHiddenGap
  <1>1. Inv => NoHiddenGap
    <2> SUFFICES ASSUME Inv, NEW j \in DOMAIN out, out[j].completeness # "gapped"
                 PROVE  out[j].offset = SumFunction([i \in {i \in DOMAIN out :
                                                              i < j /\ SameStream(i, j)} |->
                                                        Len(out[i].data)])
      BY DEF NoHiddenGap
    <2> DEFINE S == {i \in DOMAIN out : i < j /\ SameStream(i, j)}
               f == [i \in S |-> Len(out[i].data)]
    <2>1. Joined(Table) /\ Sized(out) /\ Table.out = out BY InvParts
    <2>2. Listed(out) /\ \A i \in DOMAIN out : Len(out[i].data) \in Nat BY <2>1 DEF Sized
    <2>3. Len(out) \in Nat /\ DOMAIN out = 1 .. Len(out) BY <2>2, ListedLength
    <2>4. out[j].offset = Total(out, out[j].epoch, out[j].dir, j - 1) BY <2>1 DEF Joined
    <2>5. Of(out, out[j].epoch, out[j].dir, j - 1) = S
      <3>1. \A i : i \in 1 .. j - 1 <=> i \in DOMAIN out /\ i < j BY <2>3
      <3> QED BY <3>1 DEF Of, SameStream
    <2>6. out[j].offset = SumFunctionOnSet(LenOf(out), S) BY <2>4, <2>5 DEF Total
    <2>7. IsFiniteSet(S)
      <3>1. IsFiniteSet(1 .. Len(out)) BY <2>3, IndicesFinite
      <3>2. IsFiniteSet(DOMAIN out) BY <2>3, <3>1
      <3>3. S \subseteq DOMAIN out OBVIOUS
      <3> QED BY <3>2, <3>3, FS_Subset
    <2>8. DOMAIN f = S /\ \A i \in S : LenOf(out)[i] = f[i] /\ LenOf(out)[i] \in Int
      BY <2>2 DEF LenOf
    <2> HIDE DEF S, f
    <2>9. Integral(LenOf(out), S) BY <2>7, <2>8 DEF Integral
    <2>10. SumFunctionOnSet(LenOf(out), S) = SumFunctionOnSet(f, S) BY <2>8, <2>9, SumSame
    <2>11. SumFunction(f) = SumFunctionOnSet(f, DOMAIN f) BY Zenon DEF SumFunction
    <2>12. out[j].offset = SumFunction(f) BY <2>6, <2>8, <2>10, <2>11
    <2> QED BY <2>12 DEF f, S
  <1> QED BY <1>1, ReassemblyInvariant, PTL

\* Every payload byte is emitted, queued, or counted.
THEOREM NoPayloadLost == Spec => []PayloadConserved
  <1>1. Inv => PayloadConserved
    <2> SUFFICES ASSUME Inv PROVE PayloadConserved OBVIOUS
    <2>1. Table.out = out /\ Table.buffered = buffered /\ Table.stats = stats BY InvParts
    <2>2. received = SumFunctionOnSet(LenOf(out), DOMAIN out)
                     + buffered + stats.retransmitted + stats.keepalive
      BY <2>1 DEF Inv, Balance
    <2>3. SumFunction(LenOf(out)) = SumFunctionOnSet(LenOf(out), DOMAIN LenOf(out))
      BY Zenon DEF SumFunction
    <2>4. DOMAIN LenOf(out) = DOMAIN out BY DEF LenOf
    <2>5. LenOf(out) = [i \in DOMAIN out |-> Len(out[i].data)] BY DEF LenOf
    <2>6. SumFunction([i \in DOMAIN out |-> Len(out[i].data)])
            = SumFunctionOnSet(LenOf(out), DOMAIN out)
      BY <2>3, <2>4, <2>5
    <2> QED BY <2>2, <2>6 DEF PayloadConserved
  <1> QED BY <1>1, ReassemblyInvariant, PTL
============================================================================
