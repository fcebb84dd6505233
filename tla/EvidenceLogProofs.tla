-------------------------- MODULE EvidenceLogProofs --------------------------
(***************************************************************************)
(* The evidence file implements RecordLog for every set of records, every  *)
(* length of their lines and every bound.                                  *)
(*                                                                         *)
(* First what the refinement mapping makes of a file that grows or is cut: *)
(* a line end has a rank that bytes after it do not change, so the records *)
(* of a prefix of the file are a prefix of its records.  Then an inductive *)
(* invariant says what a torn line looks like, while its writer lives and  *)
(* after, and that the lines counted by a "stopped" report lie within what *)
(* fsync covered.  Then every step of the file is a step of the log, or    *)
(* none.                                                                   *)
(***************************************************************************)
EXTENDS EvidenceLog, SumTheorems, SequenceTheorems

-----------------------------------------------------------------------------
(***************************************************************************)
(* Ranks                                                                   *)
(***************************************************************************)

\* What is below a bound.
UpTo(S, b) == {n \in S : n <= b}

\* The ranks of numbers up to a bound do not depend on the numbers above it.
LEMMA RankedPrefix ==
    ASSUME NEW S \in SUBSET Int, IsFiniteSet(S), NEW b \in Int,
           NEW k \in 1 .. Cardinality(UpTo(S, b))
    PROVE  Ranked(S, k) = Ranked(UpTo(S, b), k)
  <1>1. PICK T : T = UpTo(S, b) OBVIOUS
  <1>2. T \in SUBSET S /\ \A n \in S : n \in T <=> n <= b BY <1>1 DEF UpTo
  <1>3. IsFiniteSet(T) /\ Cardinality(T) \in Nat /\ k <= Cardinality(T) /\ k \in Nat
    BY <1>1, <1>2, FS_Subset, FS_CardinalityType
  <1>4. \A n \in S : n \in Int OBVIOUS
  <1>5. ASSUME NEW n \in T PROVE {m \in S : m <= n} = {m \in T : m <= n}
    <2>1. n \in Int /\ n <= b BY <1>2, <1>4
    <2>2. \A m \in S : m <= n => m \in T BY <1>2, <1>4, <2>1
    <2> QED BY <1>2, <2>2
  <1>6. ASSUME NEW n \in S, n \notin T PROVE Cardinality({m \in S : m <= n}) # k
    <2>1. PICK U : U = {m \in S : m <= n} OBVIOUS
    <2>2. U \in SUBSET S /\ T \cup {n} \in SUBSET U BY <1>2, <1>6, <2>1
    <2>3. IsFiniteSet(U) /\ Cardinality(U) \in Nat BY <2>2, FS_Subset, FS_CardinalityType
    <2>4. Cardinality(T \cup {n}) = Cardinality(T) + 1 BY <1>3, <1>6, FS_AddElement
    <2>5. Cardinality(T \cup {n}) <= Cardinality(U) BY <2>2, <2>3, FS_Subset
    <2> QED BY <1>3, <2>1, <2>3, <2>4, <2>5
  <1>7. ASSUME NEW n \in Ranked(S, k) PROVE n \in Ranked(T, k)
    BY <1>5, <1>6, <1>7 DEF Ranked
  <1>8. ASSUME NEW n \in Ranked(T, k) PROVE n \in Ranked(S, k)
    BY <1>2, <1>5, <1>8 DEF Ranked
  <1> QED BY <1>1, <1>7, <1>8

\* A number above all others has the highest rank, alone.
LEMMA RankedTop ==
    ASSUME NEW S \in SUBSET Int, IsFiniteSet(S), NEW x \in Int, \A n \in S : n < x
    PROVE  Ranked(S \cup {x}, Cardinality(S) + 1) = {x}
  <1>1. PICK U : U = S \cup {x} OBVIOUS
  <1>2. x \notin S OBVIOUS
  <1>3. Cardinality(S) \in Nat /\ Cardinality(U) = Cardinality(S) + 1
    BY <1>1, <1>2, FS_AddElement, FS_CardinalityType
  <1>4. \A n \in U : n \in Int /\ n <= x BY <1>1
  <1>5. {m \in U : m <= x} = U BY <1>4
  <1>6. ASSUME NEW n \in S PROVE Cardinality({m \in U : m <= n}) <= Cardinality(S)
    <2>1. \A m \in U : m <= n => m \in S BY <1>1
    <2>2. {m \in U : m <= n} \in SUBSET S BY <2>1
    <2> QED BY <2>2, FS_Subset
  <1>7. ASSUME NEW n \in S PROVE Cardinality({m \in U : m <= n}) # Cardinality(S) + 1
    BY <1>3, <1>6
  <1>8. x \in Ranked(U, Cardinality(S) + 1) BY <1>1, <1>3, <1>5 DEF Ranked
  <1>9. ASSUME NEW n \in Ranked(U, Cardinality(S) + 1) PROVE n = x
    BY <1>1, <1>7, <1>9 DEF Ranked
  <1> QED BY <1>1, <1>8, <1>9

\* Every rank up to the number of elements is taken.
LEMMA RankedExists ==
    ASSUME NEW l \in Nat, NEW S \in SUBSET (1 .. l), NEW k \in 1 .. Cardinality(S)
    PROVE  Ranked(S, k) # {}
  <1> DEFINE Ok(b) == \A i \in 1 .. Cardinality(UpTo(S, b)) : Ranked(UpTo(S, b), i) # {}
             T == {b \in 0 .. l : ~Ok(b)}
  <1>1. S \in SUBSET Int /\ IsFiniteSet(S)
    <2>1. IsFiniteSet(1 .. l) BY FS_Interval
    <2>2. 1 .. l \in SUBSET Int OBVIOUS
    <2> QED BY <2>1, <2>2, FS_Subset
  <1>2. \A n \in S : n \in Int /\ 1 <= n /\ n <= l OBVIOUS
  <1>3. UpTo(S, l) = S BY <1>2 DEF UpTo
  <1>4. SUFFICES ASSUME T # {} PROVE FALSE
    <2>1. Ok(l) BY <1>4
    <2> QED BY <1>3, <2>1
  <1>5. T \subseteq Int /\ \A b \in T : b \in 0 .. l /\ ~Ok(b) OBVIOUS
  <1>6. \A b \in 0 .. l : b \notin T => Ok(b) OBVIOUS
  <1>7. T \subseteq Int OBVIOUS
  <1>8. \A c \in T : 0 <= c OBVIOUS
  <1> HIDE DEF T, Ok
  <1>9. PICK b \in T : \A c \in T : b <= c
    <2>1. PICK z \in Int : z = 0 OBVIOUS
    <2> QED BY <1>4, <1>7, <1>8, <2>1, LeastInteger
  <1>10. CASE b = 0
    <2>1. \A n \in S : ~(n <= b) BY <1>10, <1>2
    <2>2. UpTo(S, b) = {} BY <2>1 DEF UpTo
    <2>3. Cardinality(UpTo(S, b)) = 0 BY <2>2, FS_EmptySet
    <2>4. Ok(b) BY <2>3 DEF Ok
    <2> QED BY <1>5, <1>9, <2>4
  <1>11. CASE b # 0
    <2>1. PICK c \in Int : c = b - 1 BY <1>5, <1>9
    <2>2. c \in 0 .. l /\ c \notin T BY <1>5, <1>9, <1>11, <2>1
    <2>3. Ok(c) BY <1>6, <2>2
    <2>4. CASE b \notin S
      <3>1. b \in Int BY <1>5, <1>9
      <3>2. \A n \in S : n <= b <=> n <= c BY <1>2, <2>1, <2>4, <3>1
      <3>3. UpTo(S, b) = UpTo(S, c) BY <3>2 DEF UpTo
      <3> QED BY <1>5, <1>9, <2>3, <3>3 DEF Ok
    <2>5. CASE b \in S
      <3>1. PICK V : V = UpTo(S, c) OBVIOUS
      <3>2. PICK W : W = UpTo(S, b) OBVIOUS
      <3>3. /\ W = V \cup {b} /\ V = UpTo(W, c)
            /\ V \in SUBSET S /\ W \in SUBSET S
            /\ \A n \in V : n < b
        <4>1. b \in Int BY <1>5, <1>9
        <4>2. \A n \in S : n <= b <=> n <= c \/ n = b BY <1>2, <2>1, <4>1
        <4>3. \A n \in S : n <= c => n <= b /\ n < b BY <1>2, <2>1, <4>1
        <4>4. ~(b <= c) BY <2>1, <4>1
        <4> QED BY <2>5, <3>1, <3>2, <4>1, <4>2, <4>3, <4>4 DEF UpTo
      <3>4. IsFiniteSet(V) /\ IsFiniteSet(W) /\ Cardinality(V) \in Nat
        BY <1>1, <3>3, FS_Subset, FS_CardinalityType
      <3>5. Cardinality(W) = Cardinality(V) + 1 
        <4>1. b \notin V BY <1>5, <1>9, <3>3
        <4> QED BY <3>3, <3>4, <4>1, FS_AddElement
      <3>6. ASSUME NEW i \in 1 .. Cardinality(W) PROVE Ranked(W, i) # {}
        <4>1. CASE i = Cardinality(V) + 1
          <5>1. V \in SUBSET Int /\ b \in Int BY <1>1, <1>5, <1>9, <3>3
          <5>2. Ranked(V \cup {b}, Cardinality(V) + 1) = {b} BY <3>3, <3>4, <5>1, RankedTop
          <5> QED BY <3>3, <4>1, <5>2
        <4>2. CASE i # Cardinality(V) + 1
          <5>1. i \in 1 .. Cardinality(V) BY <3>4, <3>5, <4>2
          <5>2. W \in SUBSET Int BY <1>1, <3>3
          <5>3. Ranked(W, i) = Ranked(V, i) BY <3>3, <3>4, <5>1, <5>2, RankedPrefix
          <5> QED BY <2>3, <3>1, <5>1, <5>3 DEF Ok
        <4> QED BY <4>1, <4>2
      <3> QED BY <1>5, <1>9, <3>2, <3>6 DEF Ok
    <2> QED BY <2>4, <2>5
  <1> QED BY <1>10, <1>11
-----------------------------------------------------------------------------
(***************************************************************************)
(* The records of a prefix                                                 *)
(***************************************************************************)

\* Whether e is the beginning of d.
Begins(e, d) == Len(e) <= Len(d) /\ \A n \in 1 .. Len(e) : e[n] = d[n]

\* The line ends of a file are a finite set of places.
LEMMA EndsFinite ==
    ASSUME NEW d \in Seq(Nat)
    PROVE  /\ Len(d) \in Nat
           /\ Ends(d) \in SUBSET (1 .. Len(d)) /\ Ends(d) \in SUBSET Int
           /\ IsFiniteSet(Ends(d)) /\ Cardinality(Ends(d)) \in Nat
  <1>1. Len(d) \in Nat OBVIOUS
  <1>2. Ends(d) \in SUBSET (1 .. Len(d)) BY DEF Ends
  <1>3. IsFiniteSet(1 .. Len(d)) BY <1>1, FS_Interval
  <1> QED BY <1>1, <1>2, <1>3, FS_Subset, FS_CardinalityType

\* The records of a file, and 0 for the lines that are none.
LEMMA RecordsAreNumbers ==
    ASSUME NEW d \in Seq(Nat)
    PROVE  RecordsOf(d) \in Seq(Nat) /\ Len(RecordsOf(d)) = Cardinality(Ends(d))
  <1>1. \A n : RecordAt(d, n) \in Nat BY EvidenceAssumption DEF RecordAt
  <1>2. PICK c \in Nat : c = Cardinality(Ends(d)) BY EndsFinite
  <1>3. PICK g : g = RecordsOf(d) OBVIOUS
  <1>4. ASSUME NEW k \in 1 .. c
        PROVE  (CHOOSE r \in {RecordAt(d, n) : n \in Ranked(Ends(d), k)} : TRUE) \in Nat
    <2>1. Ranked(Ends(d), k) # {} BY <1>2, EndsFinite, RankedExists
    <2>2. {RecordAt(d, n) : n \in Ranked(Ends(d), k)} # {} BY <2>1
    <2>3. {RecordAt(d, n) : n \in Ranked(Ends(d), k)} \in SUBSET Nat BY <1>1
    <2> QED BY <2>2, <2>3
  <1>5. g \in [1 .. c -> Nat] BY <1>2, <1>3, <1>4 DEF RecordsOf
  <1>6. g \in Seq(Nat) /\ Len(g) = c BY <1>5
  <1> QED BY <1>2, <1>3, <1>6

\* The record of a line does not depend on the bytes after its end.
LEMMA RecordAtPrefix ==
    ASSUME NEW d \in Seq(Nat), NEW e \in Seq(Nat), Begins(e, d), NEW n \in 1 .. Len(e)
    PROVE  RecordAt(e, n) = RecordAt(d, n)
  <1>1. n \in Nat /\ 1 <= n /\ n <= Len(e) /\ Len(e) \in Nat OBVIOUS
  <1>2. \A k \in Int : 1 <= k /\ k <= n => e[k] = d[k] BY <1>1 DEF Begins
  <1>3. PICK q : q = IF n = 1 THEN 0 ELSE e[n - 1] OBVIOUS
  <1>4. q = IF n = 1 THEN 0 ELSE d[n - 1]
    <2>1. n # 1 => n - 1 \in Int /\ 1 <= n - 1 /\ n - 1 <= n BY <1>1
    <2> QED BY <1>3, <1>2, <2>1
  <1>5. CASE q \in Records /\ n >= Size[q]
    <2>1. Size[q] \in Nat \ {0, 1} BY <1>5, EvidenceAssumption
    <2>2. PICK s \in Nat : s = Size[q] /\ s >= 2 BY <2>1
    <2>3. n >= s BY <1>5, <2>2
    <2>4. PICK t \in Nat : t = n - s BY <1>1, <2>3
    <2>5. t <= n - 1 /\ n \in Int BY <1>1, <2>2, <2>4
    <2>6. \A k \in t + 1 .. n - 1 : k \in Int /\ 1 <= k /\ k <= n BY <2>5
    <2>7. \A k \in n - s + 1 .. n - 1 : e[k] = d[k]
      <3>1. \A k \in t + 1 .. n - 1 : e[k] = d[k] BY <1>2, <2>6
      <3> QED BY <2>4, <3>1
    <2>8. n # s => e[n - s] = d[n - s]
      <3>1. n # s => t \in Int /\ 1 <= t /\ t <= n BY <1>1, <2>2, <2>4, <2>5
      <3>2. n # s => e[t] = d[t] BY <1>2, <3>1
      <3> QED BY <2>4, <3>2
    <2> QED BY <1>3, <1>4, <2>2, <2>7, <2>8 DEF RecordAt
  <1>6. CASE ~(q \in Records /\ n >= Size[q])
    BY <1>3, <1>4, <1>6 DEF RecordAt
  <1> QED BY <1>5, <1>6

\* The records of a prefix are a prefix of the records.
LEMMA RecordsPrefix ==
    ASSUME NEW d \in Seq(Nat), NEW e \in Seq(Nat), Begins(e, d)
    PROVE  /\ Ends(e) = UpTo(Ends(d), Len(e))
           /\ Cardinality(Ends(e)) <= Cardinality(Ends(d))
           /\ \A k \in 1 .. Cardinality(Ends(e)) : RecordsOf(e)[k] = RecordsOf(d)[k]
  <1>1. Ends(e) = UpTo(Ends(d), Len(e)) BY DEF Ends, UpTo, Begins
  <1>2. Ends(e) \in SUBSET Ends(d) BY <1>1 DEF UpTo
  <1>3. Cardinality(Ends(e)) <= Cardinality(Ends(d)) BY <1>2, EndsFinite, FS_Subset
  <1>4. ASSUME NEW k \in 1 .. Cardinality(Ends(e)) PROVE RecordsOf(e)[k] = RecordsOf(d)[k]
    <2>1. Ranked(Ends(d), k) = Ranked(Ends(e), k)
      <3>1. Ends(d) \in SUBSET Int /\ IsFiniteSet(Ends(d)) /\ Len(e) \in Int BY EndsFinite
      <3> QED BY <1>1, <3>1, RankedPrefix
    <2> DEFINE R == Ranked(Ends(e), k)
    <2>2. \A n \in R : n \in 1 .. Len(e) BY EndsFinite DEF Ranked
    <2>3. \A n \in R : RecordAt(e, n) = RecordAt(d, n) BY <2>2, RecordAtPrefix
    <2>4. k \in 1 .. Cardinality(Ends(d)) BY <1>3, EndsFinite
    <2>5. RecordsOf(e)[k] = CHOOSE r \in {RecordAt(e, n) : n \in R} : TRUE BY DEF RecordsOf
    <2>6. RecordsOf(d)[k] = CHOOSE r \in {RecordAt(d, n) : n \in R} : TRUE
      BY <2>1, <2>4 DEF RecordsOf
    <2>7. {RecordAt(e, n) : n \in R} = {RecordAt(d, n) : n \in R} BY <2>3
    <2> QED BY <2>5, <2>6, <2>7
  <1> QED BY <1>1, <1>3, <1>4
-----------------------------------------------------------------------------
(***************************************************************************)
(* A line that is being written                                            *)
(***************************************************************************)

\* The byte of a line at n.
Byte(r, n) == IF n = Size[r] THEN Newline ELSE r

\* The file ends in the first j bytes of a line, with nothing before them on it.
Torn(d, r, j) ==
    /\ j <= Len(d)
    /\ \A n \in 1 .. j : d[Len(d) - j + n] = Byte(r, n)
    /\ j < Len(d) => d[Len(d) - j] = Newline

\* What is left of a line after its first j bytes.
Rest(l, r, j) == Len(l) = Size[r] - j /\ \A n \in 1 .. Len(l) : l[n] = Byte(r, j + n)

\* An inductive invariant, in parts: the types, a writer that is down has nothing left
\* to write, a live one stands after a whole line or within one, and no report counts
\* a line that fsync did not cover.
Typed ==
    /\ file \in [inode : Nat, data : Seq(Nat)]
    /\ synced \in Nat /\ synced <= Len(file.data)
    /\ writer \in [pc : {"down", "open", "synced"}, line : Seq(Nat), written : SUBSET (Nat \X Records)]
    /\ acked \in SUBSET (Nat \X Records)
    /\ bound \in [lines : Nat, faults : Nat, moves : Nat]

Standing ==
    /\ writer.pc = "down" => writer = Down
    /\ writer.pc # "down" /\ writer.line = <<>> => AppendReady(file.data)
    /\ writer.pc = "synced" => writer.line = <<>>
    /\ writer.line # <<>> => \E r \in Records : \E j \in 1 .. Size[r] - 1 :
                               Rest(writer.line, r, j) /\ Torn(file.data, r, j)

\* Whether every counted line ends by a place.
Within(lines, b) == \A a \in lines : a[1] + Size[a[2]] <= b

Covered ==
    /\ Within(writer.written, Len(file.data) + Len(writer.line))
    /\ writer.pc = "synced" => Within(writer.written, synced)
    /\ Within(acked, synced)

Inv == Typed /\ Standing /\ Covered

\* n more bytes of a torn line reach the file.
Grown(d, l, r, j, n, e) ==
    /\ d \in Seq(Nat) /\ l \in Seq(Nat) /\ r \in Records
    /\ j \in Nat /\ j < Size[r]
    /\ Rest(l, r, j) /\ Torn(d, r, j)
    /\ n \in 1 .. Len(l) /\ e = d \o SubSeq(l, 1, n)

\* The file is then torn further on, or not at all; what it held stays.
LEMMA GrownFacts ==
    ASSUME NEW d, NEW l, NEW r, NEW j, NEW n, NEW e, Grown(d, l, r, j, n, e)
    PROVE  /\ e \in Seq(Nat) /\ Len(e) = Len(d) + n /\ Begins(d, e)
           /\ n \in Nat /\ 1 <= n /\ j + n <= Size[r]
           /\ \A i \in 1 .. n : e[Len(d) + i] = Byte(r, j + i)
           /\ Torn(e, r, j + n)
  <1>1. /\ d \in Seq(Nat) /\ l \in Seq(Nat) /\ j \in Nat /\ n \in Nat /\ 1 <= n /\ n <= Len(l)
        /\ Len(l) = Size[r] - j /\ e = d \o SubSeq(l, 1, n) /\ j <= Len(d)
        /\ Len(d) \in Nat /\ Len(l) \in Nat
    BY DEF Grown, Rest, Torn
  <1>2. Size[r] \in Nat /\ Size[r] >= 2
    <2>1. r \in Records BY DEF Grown
    <2>2. Size[r] \in Nat \ {0, 1} BY <2>1, EvidenceAssumption
    <2> QED BY <2>2
  <1>3. PICK x \in Seq(Nat) : x = SubSeq(l, 1, n) /\ Len(x) = n /\ \A i \in 1 .. n : x[i] = l[i]
    <2>1. \A i \in 1 .. n : l[i] \in Nat
      <3>1. \A i \in 1 .. n : i \in 1 .. Len(l) BY <1>1
      <3> QED BY <1>1, <3>1, ElementOfSeq
    <2>2. PICK one \in Int : one = 1 OBVIOUS
    <2>3. /\ SubSeq(l, one, n) \in Seq(Nat)
          /\ Len(SubSeq(l, one, n)) = IF one <= n THEN n - one + 1 ELSE 0
          /\ \A i \in 1 .. n - one + 1 : SubSeq(l, one, n)[i] = l[one + i - 1]
      BY <1>1, <2>1, <2>2, SubSeqProperties
    <2>4. PICK x : x = SubSeq(l, one, n) OBVIOUS
    <2>5. x \in Seq(Nat) /\ Len(x) = n BY <1>1, <2>2, <2>3, <2>4
    <2>6. \A i \in 1 .. n : x[i] = l[i] BY <1>1, <2>2, <2>3, <2>4
    <2> QED BY <2>2, <2>4, <2>5, <2>6
  <1>4. Len(x) = n /\ \A i \in 1 .. n : x[i] = l[i] BY <1>3
  <1>5. e = d \o x BY <1>1, <1>3
  <1>6. /\ e \in Seq(Nat) /\ Len(e) = Len(d) + n
        /\ \A i \in 1 .. Len(d) + n : e[i] = IF i <= Len(d) THEN d[i] ELSE x[i - Len(d)]
    <2>1. /\ d \o x \in Seq(Nat) /\ Len(d \o x) = Len(d) + Len(x)
          /\ \A i \in 1 .. Len(d) + Len(x) : (d \o x)[i] = IF i <= Len(d) THEN d[i] ELSE x[i - Len(d)]
      <3>1. d \in Seq(Nat) BY <1>1
      <3> QED BY <3>1, ConcatProperties
    <2> QED BY <1>4, <1>5, <2>1
  <1>7. \A i \in 1 .. Len(d) : e[i] = d[i] BY <1>1, <1>6
  <1>8. \A i \in 1 .. n : e[Len(d) + i] = x[i]
    <2>1. \A i \in 1 .. n : /\ Len(d) + i \in 1 .. Len(d) + n /\ ~(Len(d) + i <= Len(d))
                            /\ (Len(d) + i) - Len(d) = i
      BY <1>1
    <2> QED BY <1>6, <2>1
  <1>9. \A i \in 1 .. n : l[i] = Byte(r, j + i) BY <1>1 DEF Grown, Rest
  <1>10. \A i \in 1 .. n : e[Len(d) + i] = Byte(r, j + i) BY <1>4, <1>8, <1>9
  <1>11. Torn(e, r, j + n)
    <2>1. j + n <= Len(e) BY <1>1, <1>6
    <2>2. Len(e) - (j + n) = Len(d) - j BY <1>1, <1>6
    <2>3. ASSUME NEW i \in 1 .. j + n PROVE e[(Len(d) - j) + i] = Byte(r, i)
      <3>1. CASE i <= j
        <4>1. i \in 1 .. j /\ (Len(d) - j) + i \in 1 .. Len(d) BY <1>1, <3>1
        <4>2. d[(Len(d) - j) + i] = Byte(r, i) BY <4>1 DEF Grown, Torn
        <4> QED BY <1>7, <4>1, <4>2
      <3>2. CASE i > j
        <4>1. i - j \in 1 .. n /\ (Len(d) - j) + i = Len(d) + (i - j) /\ j + (i - j) = i BY <1>1, <3>2
        <4> QED BY <1>10, <4>1
      <3> QED BY <1>1, <3>1, <3>2
    <2>4. j + n < Len(e) => e[Len(d) - j] = Newline
      <3>1. j + n < Len(e) => j < Len(d) /\ Len(d) - j \in 1 .. Len(d) BY <1>1, <1>6
      <3> QED BY <1>7, <3>1 DEF Grown, Torn
    <2> QED BY <2>1, <2>2, <2>3, <2>4 DEF Torn
  <1> QED BY <1>1, <1>2, <1>6, <1>7, <1>10, <1>11 DEF Begins

\* As long as the line is not complete, the records are the same.
LEMMA GrownPart ==
    ASSUME NEW d, NEW l, NEW r, NEW j, NEW n, NEW e, Grown(d, l, r, j, n, e), j + n < Size[r]
    PROVE  RecordsOf(e) = RecordsOf(d)
  <1>1. /\ e \in Seq(Nat) /\ d \in Seq(Nat) /\ Begins(d, e) /\ Len(e) = Len(d) + n
        /\ n \in Nat /\ j \in Nat /\ Size[r] \in Nat /\ r # Newline
    <2>1. e \in Seq(Nat) /\ Begins(d, e) /\ Len(e) = Len(d) + n /\ n \in Nat BY GrownFacts
    <2>2. d \in Seq(Nat) /\ j \in Nat /\ r \in Records BY DEF Grown
    <2>3. Size[r] \in Nat /\ r # Newline BY <2>2, EvidenceAssumption DEF Newline
    <2> QED BY <2>1, <2>2, <2>3
  <1>2. \A i \in 1 .. n : e[Len(d) + i] = r
    <2>1. \A i \in 1 .. n : Byte(r, j + i) = r BY <1>1 DEF Byte
    <2> QED BY <2>1, GrownFacts
  <1>3. \A i \in Ends(e) : i <= Len(d)
    <2>1. SUFFICES ASSUME NEW i \in Ends(e), ~(i <= Len(d)) PROVE FALSE OBVIOUS
    <2>2. i \in 1 .. Len(e) /\ e[i] = Newline BY DEF Ends
    <2>3. i - Len(d) \in 1 .. n /\ Len(d) + (i - Len(d)) = i BY <1>1, <2>1, <2>2
    <2>4. e[i] = r BY <1>2, <2>3
    <2> QED BY <1>1, <2>2, <2>4
  <1>4. Ends(d) = Ends(e)
    <2>1. Ends(d) = UpTo(Ends(e), Len(d)) BY <1>1, RecordsPrefix
    <2> QED BY <1>3, <2>1 DEF UpTo
  <1>5. \A k \in 1 .. Cardinality(Ends(d)) : RecordsOf(d)[k] = RecordsOf(e)[k]
    BY <1>1, RecordsPrefix
  <1> QED BY <1>4, <1>5 DEF RecordsOf

\* The last byte adds the record.
LEMMA GrownLine ==
    ASSUME NEW d, NEW l, NEW r, NEW j, NEW n, NEW e, Grown(d, l, r, j, n, e), j + n = Size[r]
    PROVE  /\ AppendReady(e)
           /\ RecordsOf(e) = Append(RecordsOf(d), r)
  <1>1. /\ e \in Seq(Nat) /\ d \in Seq(Nat) /\ Begins(d, e) /\ Len(e) = Len(d) + n
        /\ n \in Nat /\ 1 <= n /\ j \in Nat /\ Size[r] \in Nat /\ Size[r] >= 2 /\ r # Newline
        /\ r \in Records /\ Len(d) \in Nat
    <2>1. e \in Seq(Nat) /\ Begins(d, e) /\ Len(e) = Len(d) + n /\ n \in Nat /\ 1 <= n BY GrownFacts
    <2>2. d \in Seq(Nat) /\ j \in Nat /\ r \in Records BY DEF Grown
    <2>3. Size[r] \in Nat /\ Size[r] >= 2 /\ r # Newline BY <2>2, EvidenceAssumption DEF Newline
    <2> QED BY <2>1, <2>2, <2>3
  <1>2. Torn(e, r, Size[r]) BY GrownFacts
  <1>3. PICK s \in Nat : s = Size[r] BY <1>1
  <1>4. PICK m \in Nat : m = Len(e) BY <1>1
  <1>5. s <= m /\ s >= 2 BY <1>1, <1>2, <1>3, <1>4 DEF Torn
  <1>6. \A i \in 1 .. s : e[(m - s) + i] = Byte(r, i) BY <1>2, <1>3, <1>4 DEF Torn
  <1>7. e[m] = Newline
    <2>1. s \in 1 .. s /\ (m - s) + s = m BY <1>5
    <2> QED BY <1>3, <1>6, <2>1 DEF Byte
  <1>8. \A k \in m - s + 1 .. m - 1 : e[k] = r
    <2>1. \A k \in m - s + 1 .. m - 1 : k - (m - s) \in 1 .. s /\ (m - s) + (k - (m - s)) = k /\ k - (m - s) # s
      OBVIOUS
    <2>2. \A i \in 1 .. s : i # s => Byte(r, i) = r BY <1>3 DEF Byte
    <2> QED BY <1>6, <2>1, <2>2
  <1>9. RecordAt(e, m) = r
    <2>1. m # 1 /\ m - 1 \in m - s + 1 .. m - 1 BY <1>5
    <2>2. e[m - 1] = r BY <1>8, <2>1
    <2>3. m = s \/ e[m - s] = Newline BY <1>2, <1>3, <1>4, <1>5 DEF Torn
    <2>4. m >= s BY <1>5
    <2> QED BY <1>1, <1>3, <1>8, <2>1, <2>2, <2>3, <2>4 DEF RecordAt
  <1>10. AppendReady(e) BY <1>4, <1>7 DEF AppendReady, Last
  <1>11. \A i \in 1 .. n - 1 : e[Len(d) + i] = r
    <2>1. \A i \in 1 .. n - 1 : i \in 1 .. n /\ Byte(r, j + i) = r BY <1>1 DEF Byte
    <2> QED BY <2>1, GrownFacts
  <1>12. Ends(e) = Ends(d) \cup {m}
    <2>1. Ends(d) = UpTo(Ends(e), Len(d)) BY <1>1, RecordsPrefix
    <2>2. m \in Ends(e)
      <3>1. m \in 1 .. Len(e) BY <1>4, <1>5
      <3> QED BY <1>7, <3>1 DEF Ends
    <2>3. ASSUME NEW i \in Ends(e), i # m PROVE i <= Len(d)
      <3>1. i \in 1 .. Len(e) /\ e[i] = Newline BY DEF Ends
      <3>2. SUFFICES ASSUME ~(i <= Len(d)) PROVE FALSE OBVIOUS
      <3>3. i - Len(d) \in 1 .. n - 1 /\ Len(d) + (i - Len(d)) = i BY <1>1, <1>4, <2>3, <3>1, <3>2
      <3>4. e[i] = r BY <1>11, <3>3
      <3> QED BY <1>1, <3>1, <3>4
    <2> QED BY <2>1, <2>2, <2>3 DEF UpTo
  <1>13. PICK D : D = Ends(d) OBVIOUS
  <1>14. PICK c \in Nat : c = Cardinality(D) BY <1>1, <1>13, EndsFinite
  <1>15. IsFiniteSet(D) /\ D \in SUBSET Int /\ D \in SUBSET (1 .. Len(d)) BY <1>1, <1>13, EndsFinite
  <1>16. \A i \in D : i < m BY <1>1, <1>4, <1>15
  <1>17. Cardinality(D \cup {m}) = c + 1
    <2>1. m \notin D BY <1>16
    <2> QED BY <1>14, <1>15, <2>1, FS_AddElement
  <1>18. Ranked(D \cup {m}, c + 1) = {m} BY <1>14, <1>15, <1>16, RankedTop
  <1>19. /\ RecordsOf(e) = [k \in 1 .. c + 1 |-> RecordsOf(e)[k]]
         /\ RecordsOf(d) = [k \in 1 .. c |-> RecordsOf(d)[k]]
    BY <1>12, <1>13, <1>14, <1>17 DEF RecordsOf
  <1>20. RecordsOf(e)[c + 1] = r
    <2>1. c + 1 \in 1 .. c + 1 BY <1>14
    <2>2. RecordsOf(e)[c + 1] = CHOOSE x \in {RecordAt(e, i) : i \in Ranked(Ends(e), c + 1)} : TRUE
      BY <1>12, <1>13, <1>17, <2>1 DEF RecordsOf
    <2>3. {RecordAt(e, i) : i \in Ranked(Ends(e), c + 1)} = {r} BY <1>9, <1>12, <1>13, <1>18
    <2>4. (CHOOSE x \in {r} : TRUE) = r OBVIOUS
    <2> QED BY <2>2, <2>3, <2>4
  <1>21. \A k \in 1 .. c : RecordsOf(e)[k] = RecordsOf(d)[k]
    BY <1>1, <1>13, <1>14, RecordsPrefix
  <1>22. RecordsOf(e) = Append(RecordsOf(d), r)
    <2>1. PICK x : x = RecordsOf(d) OBVIOUS
    <2>2. PICK y : y = RecordsOf(e) OBVIOUS
    <2>3. x \in Seq(Nat) /\ y \in Seq(Nat) /\ r \in Nat
      BY <1>1, <2>1, <2>2, RecordsAreNumbers, EvidenceAssumption
    <2>4. Len(x) = c /\ Len(y) = c + 1 BY <1>19, <2>1, <2>2, <2>3
    <2>5. Append(x, r) \in Seq(Nat) BY <2>3
    <2>6. PICK z \in Seq(Nat) : z = Append(x, r) BY <2>5
    <2>7. Len(z) = c + 1 /\ \A k \in 1 .. c + 1 : z[k] = IF k = c + 1 THEN r ELSE x[k]
      BY <2>3, <2>4, <2>6
    <2>8. \A k \in 1 .. c + 1 : y[k] = z[k] BY <1>20, <1>21, <2>1, <2>2, <2>7
    <2>9. y = z BY <2>3, <2>4, <2>7, <2>8, SeqEqual
    <2> QED BY <2>1, <2>2, <2>6, <2>9
  <1> QED BY <1>10, <1>22
-----------------------------------------------------------------------------
(***************************************************************************)
(* A file that is cut, and what was reported of it                         *)
(***************************************************************************)

\* A host failure leaves a prefix of the records.
LEMMA CutRecords ==
    ASSUME NEW d \in Seq(Nat), NEW n \in Nat, n <= Len(d), NEW e, e = SubSeq(d, 1, n)
    PROVE  /\ e \in Seq(Nat) /\ Len(e) = n /\ Begins(e, d)
           /\ Cardinality(Ends(e)) \in 0 .. Len(RecordsOf(d))
           /\ RecordsOf(e) = SubSeq(RecordsOf(d), 1, Cardinality(Ends(e)))
  <1>1. e \in Seq(Nat) /\ Len(e) = n /\ \A i \in 1 .. n : e[i] = d[i]
    <2>1. \A i \in 1 .. n : d[i] \in Nat
      <3>1. \A i \in 1 .. n : i \in 1 .. Len(d) OBVIOUS
      <3> QED BY <3>1, ElementOfSeq
    <2>2. PICK one \in Int : one = 1 OBVIOUS
    <2>3. /\ SubSeq(d, one, n) \in Seq(Nat)
          /\ Len(SubSeq(d, one, n)) = IF one <= n THEN n - one + 1 ELSE 0
          /\ \A i \in 1 .. n - one + 1 : SubSeq(d, one, n)[i] = d[one + i - 1]
      BY <2>1, <2>2, SubSeqProperties
    <2>4. e = SubSeq(d, one, n) BY <2>2
    <2>5. e \in Seq(Nat) /\ Len(e) = n BY <2>2, <2>3, <2>4
    <2>6. \A i \in 1 .. n : e[i] = d[i] BY <2>2, <2>3, <2>4
    <2> QED BY <2>5, <2>6
  <1>2. Begins(e, d) BY <1>1 DEF Begins
  <1>3. PICK c \in Nat : c = Cardinality(Ends(e)) BY <1>1, EndsFinite
  <1>4. PICK x \in Seq(Nat) : x = RecordsOf(d) BY RecordsAreNumbers
  <1>5. PICK y \in Seq(Nat) : y = RecordsOf(e) BY <1>1, RecordsAreNumbers
  <1>6. Len(y) = c /\ c <= Len(x) /\ Len(x) \in Nat
    <2>1. Len(y) = c BY <1>1, <1>3, <1>5, RecordsAreNumbers
    <2>2. Len(x) = Cardinality(Ends(d)) BY <1>4, RecordsAreNumbers
    <2>3. Cardinality(Ends(e)) <= Cardinality(Ends(d)) BY <1>1, <1>2, RecordsPrefix
    <2> QED BY <1>3, <2>1, <2>2, <2>3
  <1>7. \A k \in 1 .. c : y[k] = x[k] BY <1>1, <1>2, <1>3, <1>4, <1>5, RecordsPrefix
  <1>8. y = SubSeq(x, 1, c)
    <2>1. \A i \in 1 .. c : x[i] \in Nat
      <3>1. \A i \in 1 .. c : i \in 1 .. Len(x) BY <1>6
      <3> QED BY <3>1, ElementOfSeq
    <2>2. PICK one \in Int : one = 1 OBVIOUS
    <2>3. /\ SubSeq(x, one, c) \in Seq(Nat)
          /\ Len(SubSeq(x, one, c)) = IF one <= c THEN c - one + 1 ELSE 0
          /\ \A i \in 1 .. c - one + 1 : SubSeq(x, one, c)[i] = x[one + i - 1]
      BY <2>1, <2>2, SubSeqProperties
    <2>4. PICK z : z = SubSeq(x, one, c) OBVIOUS
    <2>5. z \in Seq(Nat) /\ Len(z) = c BY <2>2, <2>3, <2>4
    <2>6. \A k \in 1 .. c : z[k] = x[k] BY <2>2, <2>3, <2>4
    <2>7. \A k \in 1 .. Len(y) : y[k] = z[k] BY <1>6, <1>7, <2>6
    <2>8. y = z BY <1>6, <2>5, <2>7, SeqEqual
    <2> QED BY <2>2, <2>4, <2>8
  <1>9. c \in 0 .. Len(x) BY <1>6
  <1> QED BY <1>1, <1>2, <1>3, <1>4, <1>5, <1>8, <1>9

\* The records of a file whose lines end by a place.
KeptOf(d, b) == Cardinality({n \in 1 .. b : n > Len(d) \/ d[n] = Newline})

\* They are the first ones of the file, as long as the place is in it.
LEMMA KeptIsUpTo ==
    ASSUME NEW d \in Seq(Nat), NEW b \in Nat, b <= Len(d)
    PROVE  /\ KeptOf(d, b) = Cardinality(UpTo(Ends(d), b))
           /\ UpTo(Ends(d), b) \in SUBSET Ends(d) /\ IsFiniteSet(UpTo(Ends(d), b))
           /\ KeptOf(d, b) \in 0 .. Len(RecordsOf(d))
  <1>1. {n \in 1 .. b : n > Len(d) \/ d[n] = Newline} = UpTo(Ends(d), b)
    <2>1. Len(d) \in Nat OBVIOUS
    <2>2. \A n \in 1 .. b : n \in 1 .. Len(d) /\ ~(n > Len(d)) BY <2>1
    <2>3. \A n \in 1 .. Len(d) : n \in 1 .. b <=> n <= b BY <2>1
    <2> QED BY <2>2, <2>3 DEF UpTo, Ends
  <1>2. UpTo(Ends(d), b) \in SUBSET Ends(d) BY DEF UpTo
  <1>3. IsFiniteSet(Ends(d)) /\ Cardinality(Ends(d)) \in Nat BY EndsFinite
  <1>4. /\ IsFiniteSet(UpTo(Ends(d), b))
        /\ Cardinality(UpTo(Ends(d), b)) \in Nat
        /\ Cardinality(UpTo(Ends(d), b)) <= Cardinality(Ends(d))
    BY <1>2, <1>3, FS_Subset, FS_CardinalityType
  <1>5. Len(RecordsOf(d)) = Cardinality(Ends(d)) BY RecordsAreNumbers
  <1>6. KeptOf(d, b) = Cardinality(UpTo(Ends(d), b)) BY <1>1 DEF KeptOf
  <1> QED BY <1>2, <1>3, <1>4, <1>5, <1>6

\* Bytes after the place do not change them.
LEMMA KeptPrefix ==
    ASSUME NEW d \in Seq(Nat), NEW e \in Seq(Nat), Begins(e, d), NEW b \in Nat, b <= Len(e)
    PROVE  KeptOf(e, b) = KeptOf(d, b)
  <1>1. b <= Len(d) BY DEF Begins
  <1>2. Ends(e) = UpTo(Ends(d), Len(e)) BY RecordsPrefix
  <1>3. \A n \in Ends(d) : n \in Int BY EndsFinite
  <1>4. \A n \in Ends(d) : n <= b => n <= Len(e) BY <1>3
  <1>5. UpTo(Ends(e), b) = UpTo(Ends(d), b) BY <1>2, <1>4 DEF UpTo
  <1> QED BY <1>1, <1>5, KeptIsUpTo

\* A place further on leaves no fewer, and no more than there are.
LEMMA KeptGrows ==
    ASSUME NEW d \in Seq(Nat), NEW b \in Nat, NEW c \in Nat, b <= c, c <= Len(d)
    PROVE  KeptOf(d, c) \in KeptOf(d, b) .. Len(RecordsOf(d))
  <1>1. b <= Len(d) OBVIOUS
  <1>2. /\ KeptOf(d, b) = Cardinality(UpTo(Ends(d), b)) /\ KeptOf(d, b) \in 0 .. Len(RecordsOf(d))
        /\ KeptOf(d, c) = Cardinality(UpTo(Ends(d), c)) /\ KeptOf(d, c) \in 0 .. Len(RecordsOf(d))
        /\ IsFiniteSet(UpTo(Ends(d), c))
    BY <1>1, KeptIsUpTo
  <1>3. \A n \in Ends(d) : n \in Int BY EndsFinite
  <1>4. \A n \in Ends(d) : n <= b => n <= c BY <1>3
  <1>5. UpTo(Ends(d), b) \in SUBSET UpTo(Ends(d), c) BY <1>4 DEF UpTo
  <1>6. Cardinality(UpTo(Ends(d), b)) <= Cardinality(UpTo(Ends(d), c)) BY <1>2, <1>5, FS_Subset
  <1>7. Len(RecordsOf(d)) \in Nat BY RecordsAreNumbers
  <1> QED BY <1>2, <1>6, <1>7

\* Where the last of some lines ends.
EndOf(lines) == Max({0} \cup {a[1] + Size[a[2]] : a \in lines})

\* It exists when all of them end by some place, and is where that place was not passed.
LEMMA EndOfFacts ==
    ASSUME NEW A \in SUBSET (Nat \X Records), NEW b \in Nat, Within(A, b)
    PROVE  EndOf(A) \in Nat /\ EndOf(A) <= b /\ Within(A, EndOf(A))
  <1> DEFINE M == {0} \cup {a[1] + Size[a[2]] : a \in A}
             T == {b - m : m \in M}
  <1>1. \A m \in M : m \in Nat /\ m <= b
    <2>1. \A a \in A : a[1] \in Nat /\ a[2] \in Records OBVIOUS
    <2>2. \A q \in Records : Size[q] \in Nat BY EvidenceAssumption
    <2>3. \A a \in A : a[1] + Size[a[2]] \in Nat BY <2>1, <2>2
    <2> QED BY <2>3 DEF Within
  <1>2. 0 \in M /\ \A a \in A : a[1] + Size[a[2]] \in M OBVIOUS
  <1>3. EndOf(A) = Max(M) BY DEF EndOf
  <1> HIDE DEF M
  <1>4. T \subseteq Int BY <1>1
  <1>5. \A t \in T : 0 <= t BY <1>1
  <1>6. T # {} BY <1>2
  <1>7. \A t \in T : \E m \in M : t = b - m OBVIOUS
  <1>8. \A m \in M : b - m \in T OBVIOUS
  <1> HIDE DEF T
  <1>9. PICK z \in Int : z = 0 OBVIOUS
  <1>10. PICK t \in T : \A u \in T : t <= u BY <1>4, <1>5, <1>6, <1>9, LeastInteger
  <1>11. PICK x \in M : t = b - x BY <1>7
  <1>12. \A m \in M : b - x <= b - m BY <1>8, <1>10, <1>11
  <1>13. \A m \in M : x >= m BY <1>1, <1>12
  <1>14. Max(M) \in M /\ \A m \in M : Max(M) >= m BY <1>13 DEF Max
  <1>15. \A a \in A : a[1] + Size[a[2]] <= Max(M) BY <1>1, <1>2, <1>14
  <1> QED BY <1>1, <1>3, <1>14, <1>15 DEF Within

\* With more lines it is no smaller.
LEMMA EndOfGrows ==
    ASSUME NEW A \in SUBSET (Nat \X Records), NEW B \in SUBSET (Nat \X Records), A \subseteq B,
           NEW b \in Nat, Within(B, b)
    PROVE  EndOf(A) <= EndOf(B)
  <1>1. EndOf(B) \in Nat /\ Within(B, EndOf(B)) BY EndOfFacts
  <1>2. Within(A, EndOf(B)) BY <1>1 DEF Within
  <1> QED BY <1>1, <1>2, EndOfFacts

\* Nothing is reported of a new file.
LEMMA EndOfNothing == EndOf({}) = 0
  <1>1. Within({}, 0) BY DEF Within
  <1>2. {} \in SUBSET (Nat \X Records) OBVIOUS
  <1>3. PICK z \in Nat : z = 0 OBVIOUS
  <1>4. Within({}, z) BY <1>1, <1>3
  <1>5. EndOf({}) \in Nat /\ EndOf({}) <= z BY <1>2, <1>4, EndOfFacts
  <1> QED BY <1>3, <1>5
-----------------------------------------------------------------------------
(***************************************************************************)
(* Every step of the file is a step of the log                             *)
(***************************************************************************)

\* What one step makes of a file d, whose reported lines end by b.
LogStep(d, b, e, c) ==
    \/ RecordsOf(e) = RecordsOf(d) /\ KeptOf(e, c) \in KeptOf(d, b) .. Len(RecordsOf(d))
    \/ \E r \in Records : RecordsOf(e) = Append(RecordsOf(d), r) /\ KeptOf(e, c) = KeptOf(d, b)
    \/ \E n \in KeptOf(d, b) .. Len(RecordsOf(d)) :
         RecordsOf(e) = SubSeq(RecordsOf(d), 1, n) /\ KeptOf(e, c) = KeptOf(d, b)
    \/ RecordsOf(e) = <<>> /\ KeptOf(e, c) = 0

\* The abstract step is this one, of the file and the reported lines.
LEMMA LogStepIsNext ==
    ASSUME LogStep(file.data, EndOf(acked), file'.data, EndOf(acked'))
    PROVE  Promised!Next
  BY DEF LogStep, Promised!Next, Promised!Promise, Promised!Extend, Promised!Lose, Promised!Renew,
         KeptOf, EndOf, ReportedLength

\* A step that leaves the file and the reports alone.
LEMMA SameIsStutter ==
    ASSUME file'.data = file.data, acked' = acked
    PROVE  UNCHANGED Promised!vars
  BY DEF Promised!vars, ReportedLength

\* An empty file has no records, and keeps none.
LEMMA EmptyLog == RecordsOf(<<>>) = <<>> /\ KeptOf(<<>>, 0) = 0
  <1>1. <<>> \in Seq(Nat) /\ Len(<<>>) = 0 OBVIOUS
  <1>2. Ends(<<>>) = {} BY <1>1 DEF Ends
  <1>3. Cardinality(Ends(<<>>)) = 0 BY <1>2, FS_EmptySet
  <1>4. RecordsOf(<<>>) \in Seq(Nat) /\ Len(RecordsOf(<<>>)) = 0 BY <1>1, <1>3, RecordsAreNumbers
  <1>5. RecordsOf(<<>>) = <<>> BY <1>4
  <1>6. {n \in 1 .. 0 : n > Len(<<>>) \/ (<<>>)[n] = Newline} = {} OBVIOUS
  <1>7. KeptOf(<<>>, 0) = 0 BY <1>6, FS_EmptySet DEF KeptOf
  <1> QED BY <1>5, <1>7

\* What is left of a line once n more bytes are out.
Left(l, n) == SubSeq(l, n + 1, Len(l))

\* It is the rest of the line, and empty when the line is complete.
LEMMA GrownRest ==
    ASSUME NEW d, NEW l, NEW r, NEW j, NEW n, NEW e, Grown(d, l, r, j, n, e)
    PROVE  /\ Left(l, n) \in Seq(Nat) /\ Len(Left(l, n)) = Len(l) - n
           /\ j + n < Size[r] => Rest(Left(l, n), r, j + n) /\ Left(l, n) # <<>>
           /\ j + n = Size[r] => Left(l, n) = <<>>
  <1>1. PICK x : x = Left(l, n) OBVIOUS
  <1>2. /\ l \in Seq(Nat) /\ j \in Nat /\ n \in Nat /\ 1 <= n /\ n <= Len(l) /\ Len(l) \in Nat
        /\ Len(l) = Size[r] - j /\ r \in Records
    BY DEF Grown, Rest
  <1>3. Size[r] \in Nat BY <1>2, EvidenceAssumption
  <1>4. PICK p \in Int : p = n + 1 BY <1>2
  <1>5. \A i \in p .. Len(l) : l[i] \in Nat
    <2>1. \A i \in p .. Len(l) : i \in 1 .. Len(l) BY <1>2, <1>4
    <2> QED BY <1>2, <2>1, ElementOfSeq
  <1>6. PICK q \in Int : q = Len(l) BY <1>2
  <1>7. /\ SubSeq(l, p, q) \in Seq(Nat)
        /\ Len(SubSeq(l, p, q)) = IF p <= q THEN q - p + 1 ELSE 0
        /\ \A i \in 1 .. q - p + 1 : SubSeq(l, p, q)[i] = l[p + i - 1]
    BY <1>5, <1>6, SubSeqProperties
  <1>8. x = SubSeq(l, p, q) BY <1>4, <1>6, <1>1 DEF Left
  <1>9. x \in Seq(Nat) /\ Len(x) = Len(l) - n BY <1>2, <1>4, <1>6, <1>7, <1>8
  <1>10. \A i \in 1 .. Len(x) : x[i] = l[n + i]
    <2>1. \A i \in 1 .. Len(x) : i \in 1 .. q - p + 1 /\ p + i - 1 = n + i BY <1>2, <1>4, <1>6, <1>9
    <2> QED BY <1>7, <1>8, <2>1
  <1>11. ASSUME j + n < Size[r] PROVE Rest(x, r, j + n) /\ x # <<>>
    <2>1. Len(x) = Size[r] - (j + n) /\ Len(x) # 0 BY <1>2, <1>3, <1>9, <1>11
    <2>2. \A i \in 1 .. Len(x) : n + i \in 1 .. Len(l) /\ j + (n + i) = (j + n) + i BY <1>2, <1>9
    <2>3. \A i \in 1 .. Len(l) : l[i] = Byte(r, j + i) BY DEF Grown, Rest
    <2>4. \A i \in 1 .. Len(x) : x[i] = Byte(r, (j + n) + i) BY <1>10, <2>2, <2>3
    <2> QED BY <1>9, <2>1, <2>4 DEF Rest
  <1>12. ASSUME j + n = Size[r] PROVE x = <<>>
    <2>1. Len(x) = 0 BY <1>2, <1>3, <1>9, <1>12
    <2> QED BY <1>9, <2>1
  <1> QED BY <1>9, <1>11, <1>12, <1>1

\* The writer gets n bytes further with line r, of which l was left.
Advances(l, r, j, n) ==
    /\ Grown(file.data, l, r, j, n, file.data \o SubSeq(l, 1, n))
    /\ file' = [file EXCEPT !.data = file.data \o SubSeq(l, 1, n)]
    /\ writer.pc = "open" /\ writer'.pc = "open"
    /\ writer'.line = SubSeq(l, n + 1, Len(l))
    /\ writer' \in [pc : {"open"}, line : {writer'.line}, written : SUBSET (Nat \X Records)]
    /\ Within(writer'.written, Len(file.data) + Len(l))
    /\ bound' \in [lines : Nat, faults : Nat, moves : Nat]
    /\ synced' = synced /\ acked' = acked

\* Then the invariant holds again, and the log gained the record or is the same.
LEMMA AdvancesKeeps ==
    ASSUME Inv, NEW l, NEW r, NEW j, NEW n, Advances(l, r, j, n)
    PROVE  Inv' /\ LogStep(file.data, EndOf(acked), file'.data, EndOf(acked'))
  <1>1. PICK d : d = file.data OBVIOUS
  <1>2. PICK e : e = d \o SubSeq(l, 1, n) OBVIOUS
  <1>3. Grown(d, l, r, j, n, e) BY <1>1, <1>2 DEF Advances
  <1>4. PICK x : x = Left(l, n) OBVIOUS
  <1>5. /\ d \in Seq(Nat) /\ Len(d) \in Nat /\ j \in Nat /\ r \in Records /\ Len(l) \in Nat
        /\ j < Size[r]
    BY <1>3 DEF Grown
  <1>6. e \in Seq(Nat) /\ Len(e) = Len(d) + n /\ Begins(d, e) /\ n \in Nat /\ 1 <= n /\ j + n <= Size[r]
    BY <1>3, GrownFacts
  <1>7. Torn(e, r, j + n) BY <1>3, GrownFacts
  <1>8. /\ x \in Seq(Nat) /\ Len(x) = Len(l) - n
        /\ j + n < Size[r] => Rest(x, r, j + n) /\ x # <<>>
        /\ j + n = Size[r] => x = <<>>
    BY <1>3, <1>4, GrownRest
  <1>9. file' = [file EXCEPT !.data = e] /\ file \in [inode : Nat, data : Seq(Nat)]
    BY <1>1, <1>2 DEF Advances, Inv, Typed
  <1>10. file'.data = e /\ file' \in [inode : Nat, data : Seq(Nat)] BY <1>6, <1>9
  <1>11. /\ writer'.line = x /\ writer'.pc = "open" /\ synced' = synced /\ acked' = acked
         /\ bound' \in [lines : Nat, faults : Nat, moves : Nat]
         /\ writer' \in [pc : {"open"}, line : {x}, written : SUBSET (Nat \X Records)]
    BY <1>4 DEF Advances, Left
  <1>12. Size[r] \in Nat /\ Size[r] >= 2 BY <1>5, EvidenceAssumption
  <1>13. /\ synced \in Nat /\ synced <= Len(d) /\ acked \in SUBSET (Nat \X Records)
         /\ Within(acked, synced)
    BY <1>1 DEF Inv, Typed, Covered
  <1>14. Typed'
    <2>1. synced' \in Nat /\ synced' <= Len(file'.data) BY <1>5, <1>6, <1>10, <1>11, <1>13
    <2>2. writer' \in [pc : {"down", "open", "synced"}, line : Seq(Nat), written : SUBSET (Nat \X Records)]
      BY <1>8, <1>11
    <2> QED BY <1>10, <1>11, <1>13, <2>1, <2>2 DEF Typed
  <1>15. Covered'
    <2>1. Within(writer'.written, Len(d) + Len(l)) BY <1>1 DEF Advances
    <2>2. Len(e) + Len(x) = Len(d) + Len(l) BY <1>5, <1>6, <1>8
    <2> QED BY <1>10, <1>11, <1>13, <2>1, <2>2 DEF Covered
  <1>16. KeptOf(e, EndOf(acked)) = KeptOf(d, EndOf(acked))
    <2>1. EndOf(acked) \in Nat /\ EndOf(acked) <= synced BY <1>13, EndOfFacts
    <2>2. EndOf(acked) <= Len(d) BY <1>5, <1>13, <2>1
    <2> QED BY <1>5, <1>6, <2>1, <2>2, KeptPrefix
  <1>17. KeptOf(d, EndOf(acked)) \in 0 .. Len(RecordsOf(d)) /\ Len(RecordsOf(d)) \in Nat
    <2>1. EndOf(acked) \in Nat /\ EndOf(acked) <= synced BY <1>13, EndOfFacts
    <2>2. EndOf(acked) <= Len(d) BY <1>5, <1>13, <2>1
    <2> QED BY <1>5, <2>1, <2>2, KeptIsUpTo, RecordsAreNumbers
  <1>18. CASE j + n < Size[r]
    <2>1. RecordsOf(e) = RecordsOf(d) BY <1>3, <1>18, GrownPart
    <2>2. Rest(x, r, j + n) /\ x # <<>> BY <1>8, <1>18
    <2>3. j + n \in 1 .. Size[r] - 1 BY <1>5, <1>6, <1>12, <1>18
    <2>4. Standing' BY <1>5, <1>7, <1>10, <1>11, <2>2, <2>3 DEF Standing
    <2>5. LogStep(d, EndOf(acked), e, EndOf(acked)) BY <1>16, <1>17, <2>1 DEF LogStep
    <2> QED BY <1>1, <1>10, <1>11, <1>14, <1>15, <2>4, <2>5 DEF Inv
  <1>19. CASE j + n = Size[r]
    <2>1. AppendReady(e) /\ RecordsOf(e) = Append(RecordsOf(d), r) BY <1>3, <1>19, GrownLine
    <2>2. x = <<>> BY <1>8, <1>19
    <2>3. Standing' BY <1>10, <1>11, <2>1, <2>2 DEF Standing
    <2>4. LogStep(d, EndOf(acked), e, EndOf(acked)) BY <1>5, <1>16, <2>1 DEF LogStep
    <2> QED BY <1>1, <1>10, <1>11, <1>14, <1>15, <2>3, <2>4 DEF Inv
  <1> QED BY <1>5, <1>6, <1>12, <1>18, <1>19

\* The first bytes of a line.
LEMMA WriteLineAdvances ==
    ASSUME Inv, NEW r \in Records, NEW n \in 1 .. Size[r], WriteLine(r, n)
    PROVE  Advances(Line(r), r, 0, n)
  <1>1. PICK d : d = file.data OBVIOUS
  <1>2. PICK l : l = Line(r) OBVIOUS
  <1>3. Size[r] \in Nat /\ Size[r] >= 2 /\ r \in Nat BY EvidenceAssumption
  <1>4. l \in Seq(Nat) /\ Len(l) = Size[r] /\ \A i \in 1 .. Len(l) : l[i] = Byte(r, i)
    <2>1. l = [i \in 1 .. Size[r] |-> Byte(r, i)] BY <1>2 DEF Line, Byte
    <2>2. \A i \in 1 .. Size[r] : Byte(r, i) \in Nat BY <1>3 DEF Byte, Newline
    <2>3. l \in [1 .. Size[r] -> Nat] BY <2>1, <2>2
    <2>4. l \in Seq(Nat) /\ Len(l) = Size[r] BY <1>3, <2>3
    <2> QED BY <2>1, <2>4
  <1>5. Rest(l, r, 0)
    <2>1. \A i \in 1 .. Len(l) : 0 + i = i BY <1>3, <1>4
    <2> QED BY <1>3, <1>4, <2>1 DEF Rest
  <1>6. d \in Seq(Nat) /\ Len(d) \in Nat BY <1>1 DEF Inv, Typed
  <1>7. Torn(d, r, 0)
    <2>1. AppendReady(d) BY <1>1 DEF WriteLine, Inv, Standing
    <2>2. 0 < Len(d) => d # <<>> BY <1>6
    <2>3. 0 < Len(d) => d[Len(d) - 0] = Newline BY <1>6, <2>1, <2>2 DEF AppendReady, Last
    <2> QED BY <1>6, <2>3 DEF Torn
  <1>8. Grown(d, l, r, 0, n, d \o SubSeq(l, 1, n))
    <2>1. 0 \in Nat /\ 0 < Size[r] BY <1>3
    <2> QED BY <1>4, <1>5, <1>6, <1>7, <2>1 DEF Grown
  <1>9. writer \in [pc : {"down", "open", "synced"}, line : Seq(Nat), written : SUBSET (Nat \X Records)]
    BY DEF Inv, Typed
  <1>10. writer.pc = "open" /\ writer.line = <<>> BY DEF WriteLine
  <1>11. writer' = [writer EXCEPT !.line = SubSeq(l, n + 1, Len(l)), !.written = @ \cup {<<Len(d), r>>}]
    BY <1>1, <1>2, <1>4 DEF WriteLine
  <1>12. writer.written \cup {<<Len(d), r>>} \in SUBSET (Nat \X Records) BY <1>6, <1>9
  <1>13. /\ writer'.pc = "open" /\ writer'.line = SubSeq(l, n + 1, Len(l))
         /\ writer'.written = writer.written \cup {<<Len(d), r>>}
         /\ writer' \in [pc : {"open"}, line : {writer'.line}, written : SUBSET (Nat \X Records)]
    BY <1>9, <1>10, <1>11, <1>12
  <1>14. Within(writer'.written, Len(d) + Len(l))
    <2>1. Within(writer.written, Len(d)) BY <1>1, <1>6, <1>10 DEF Inv, Covered
    <2>2. ASSUME NEW a \in writer.written PROVE a[1] + Size[a[2]] <= Len(d) + Len(l)
      <3>1. a[1] \in Nat /\ a[2] \in Records BY <1>9
      <3>2. Size[a[2]] \in Nat BY <3>1, EvidenceAssumption
      <3>3. a[1] + Size[a[2]] <= Len(d) BY <2>1 DEF Within
      <3>4. PICK u \in Nat : u = a[1] + Size[a[2]] BY <3>1, <3>2
      <3>5. PICK v \in Nat, w \in Nat : v = Len(d) /\ w = Len(l) BY <1>3, <1>4, <1>6
      <3>6. u <= v BY <3>3, <3>4, <3>5
      <3>7. u <= v + w BY <3>6
      <3> QED BY <3>4, <3>5, <3>7
    <2>3. <<Len(d), r>>[1] + Size[<<Len(d), r>>[2]] <= Len(d) + Len(l) BY <1>3, <1>4, <1>6
    <2> QED BY <1>13, <2>2, <2>3 DEF Within
  <1>15. bound' \in [lines : Nat, faults : Nat, moves : Nat] BY DEF Inv, Typed, WriteLine
  <1>16. file' = [file EXCEPT !.data = d \o SubSeq(l, 1, n)] /\ synced' = synced /\ acked' = acked
    BY <1>1, <1>2 DEF WriteLine, Write
  <1> QED BY <1>1, <1>2, <1>8, <1>10, <1>13, <1>14, <1>15, <1>16 DEF Advances

\* The next bytes of a line.
LEMMA WriteRestAdvances ==
    ASSUME Inv, NEW n \in 1 .. Len(writer.line), WriteRest(n)
    PROVE  \E r, j : Advances(writer.line, r, j, n)
  <1>1. PICK d : d = file.data OBVIOUS
  <1>2. PICK l : l = writer.line OBVIOUS
  <1>3. d \in Seq(Nat) /\ l \in Seq(Nat) BY <1>1, <1>2 DEF Inv, Typed
  <1>4. l # <<>> BY <1>2, <1>3
  <1>5. PICK r \in Records : \E j \in 1 .. Size[r] - 1 : Rest(l, r, j) /\ Torn(d, r, j)
    BY <1>1, <1>2, <1>4 DEF Inv, Standing
  <1>6. Size[r] \in Nat BY EvidenceAssumption
  <1>7. PICK j \in 1 .. Size[r] - 1 : Rest(l, r, j) /\ Torn(d, r, j) BY <1>5
  <1>8. j \in Nat /\ j < Size[r] BY <1>6
  <1>9. Grown(d, l, r, j, n, d \o SubSeq(l, 1, n)) BY <1>2, <1>3, <1>7, <1>8 DEF Grown
  <1>10. writer \in [pc : {"down", "open", "synced"}, line : Seq(Nat), written : SUBSET (Nat \X Records)]
    BY DEF Inv, Typed
  <1>11. writer.pc = "open"
    <2>1. writer.pc # "down" BY <1>2, <1>4 DEF Inv, Standing, Down
    <2>2. writer.pc # "synced" BY <1>2, <1>4 DEF Inv, Standing
    <2> QED BY <1>10, <2>1, <2>2
  <1>12. writer' = [writer EXCEPT !.line = SubSeq(l, n + 1, Len(l))] BY <1>2 DEF WriteRest
  <1>13. /\ writer'.pc = "open" /\ writer'.line = SubSeq(l, n + 1, Len(l))
         /\ writer'.written = writer.written
         /\ writer' \in [pc : {"open"}, line : {writer'.line}, written : SUBSET (Nat \X Records)]
    BY <1>10, <1>11, <1>12
  <1>14. Within(writer'.written, Len(d) + Len(l)) BY <1>1, <1>2, <1>13 DEF Inv, Covered
  <1>15. bound' \in [lines : Nat, faults : Nat, moves : Nat] BY DEF Inv, Typed, WriteRest
  <1>16. file' = [file EXCEPT !.data = d \o SubSeq(l, 1, n)] /\ synced' = synced /\ acked' = acked
    BY <1>1, <1>2 DEF WriteRest, Write
  <1>17. Advances(l, r, j, n) BY <1>1, <1>2, <1>9, <1>11, <1>13, <1>14, <1>15, <1>16 DEF Advances
  <1> QED BY <1>2, <1>17

\* A session starts: the log is the same.
LEMMA OpenKeeps ==
    ASSUME Inv, Open
    PROVE  Inv' /\ file'.data = file.data /\ acked' = acked
  <1>1. file \in [inode : Nat, data : Seq(Nat)] /\ bound \in [lines : Nat, faults : Nat, moves : Nat]
    BY DEF Inv, Typed
  <1>2. file' \in [inode : Nat, data : Seq(Nat)] /\ file'.data = file.data
    <2>1. bound.moves + 1 \in Nat BY <1>1
    <2>2. CASE file = NoFile
      <3>1. file' = [inode |-> bound.moves + 1, data |-> <<>>] BY <2>2 DEF Open
      <3>2. file.data = <<>> BY <2>2 DEF NoFile
      <3>3. <<>> \in Seq(Nat) OBVIOUS
      <3> QED BY <2>1, <3>1, <3>2, <3>3
    <2>3. CASE file # NoFile BY <1>1, <2>3 DEF Open
    <2> QED BY <2>2, <2>3
  <1>3. writer' = [pc |-> "open", line |-> <<>>, written |-> {}] BY DEF Open, Down
  <1>4. AppendReady(file'.data) BY <1>2 DEF Open
  <1>5. synced' = synced /\ acked' = acked /\ bound' = bound BY DEF Open
  <1>6. writer'.pc = "open" /\ writer'.line = <<>> /\ writer'.written = {} BY <1>3
  <1>7. Typed'
    <2>1. <<>> \in Seq(Nat) OBVIOUS
    <2>2. writer' \in [pc : {"down", "open", "synced"}, line : Seq(Nat), written : SUBSET (Nat \X Records)]
      BY <1>3, <2>1
    <2> QED BY <1>2, <1>5, <2>2 DEF Inv, Typed
  <1>8. Standing' BY <1>4, <1>6 DEF Standing
  <1>9. Covered' BY <1>2, <1>5, <1>6 DEF Inv, Covered, Within
  <1> QED BY <1>2, <1>5, <1>7, <1>8, <1>9 DEF Inv

\* The writer syncs: the log is the same.
LEMMA SyncKeeps ==
    ASSUME Inv, Sync
    PROVE  Inv' /\ file'.data = file.data /\ acked' = acked
  <1>1. PICK m : m = Len(file.data) OBVIOUS
  <1>2. /\ file \in [inode : Nat, data : Seq(Nat)] /\ synced \in Nat /\ synced <= m
        /\ writer \in [pc : {"down", "open", "synced"}, line : Seq(Nat), written : SUBSET (Nat \X Records)]
        /\ acked \in SUBSET (Nat \X Records)
    BY <1>1 DEF Inv, Typed
  <1>3. m \in Nat BY <1>1, <1>2
  <1>4. file' = file /\ acked' = acked /\ bound' = bound /\ synced' = m BY <1>1 DEF Sync, SyncedByStop
  <1>5. writer' = [writer EXCEPT !.pc = "synced"] /\ writer.pc = "open" /\ writer.line = <<>> BY DEF Sync
  <1>6. /\ writer'.pc = "synced" /\ writer'.line = <<>> /\ writer'.written = writer.written
        /\ writer' \in [pc : {"down", "open", "synced"}, line : Seq(Nat), written : SUBSET (Nat \X Records)]
    BY <1>2, <1>5
  <1>7. Typed' BY <1>1, <1>2, <1>3, <1>4, <1>6 DEF Inv, Typed
  <1>8. Standing'
    <2>1. AppendReady(file.data) BY <1>5 DEF Inv, Standing
    <2> QED BY <1>4, <1>6, <2>1 DEF Standing
  <1>9. Covered'
    <2>1. Within(writer.written, m) BY <1>1, <1>3, <1>5 DEF Inv, Covered
    <2>2. Within(acked, m)
      <3>1. \A a \in acked : a[1] \in Nat /\ a[2] \in Records BY <1>2
      <3>2. \A q \in Records : Size[q] \in Nat BY EvidenceAssumption
      <3>3. \A a \in acked : a[1] + Size[a[2]] <= synced BY DEF Inv, Covered, Within
      <3>4. \A a \in acked : a[1] + Size[a[2]] \in Nat BY <3>1, <3>2
      <3> QED BY <1>2, <1>3, <3>3, <3>4 DEF Within
    <2>3. m + Len(writer'.line) = m BY <1>3, <1>6
    <2> QED BY <1>1, <1>4, <1>6, <2>1, <2>2, <2>3 DEF Covered
  <1> QED BY <1>4, <1>7, <1>8, <1>9 DEF Inv

\* A writer that is down, with a file and reports that fit each other.
LEMMA DownHolds ==
    ASSUME NEW f \in [inode : Nat, data : Seq(Nat)], NEW y \in Nat, y <= Len(f.data),
           NEW A \in SUBSET (Nat \X Records), Within(A, y),
           file' = f, synced' = y, acked' = A, writer' = Down,
           bound' \in [lines : Nat, faults : Nat, moves : Nat]
    PROVE  Inv'
  <1>1. /\ writer' = [pc |-> "down", line |-> <<>>, written |-> {}]
        /\ writer'.pc = "down" /\ writer'.line = <<>> /\ writer'.written = {}
    BY DEF Down
  <1>2. Typed'
    <2>1. <<>> \in Seq(Nat) OBVIOUS
    <2>2. writer' \in [pc : {"down", "open", "synced"}, line : Seq(Nat), written : SUBSET (Nat \X Records)]
      BY <1>1, <2>1
    <2> QED BY <2>2 DEF Typed
  <1>3. Standing'
    <2>1. Down' = Down BY DEF Down
    <2> QED BY <1>1, <2>1 DEF Standing
  <1>4. Covered' BY <1>1 DEF Covered, Within
  <1> QED BY <1>2, <1>3, <1>4 DEF Inv

\* The writer reports: the log is the same, and no less of it is promised.
LEMMA ReportKeeps ==
    ASSUME Inv, Report
    PROVE  Inv' /\ LogStep(file.data, EndOf(acked), file'.data, EndOf(acked'))
  <1>1. PICK d : d = file.data OBVIOUS
  <1>2. PICK B : B = acked \cup writer.written OBVIOUS
  <1>3. /\ file \in [inode : Nat, data : Seq(Nat)] /\ synced \in Nat /\ synced <= Len(d)
        /\ acked \in SUBSET (Nat \X Records) /\ writer.written \in SUBSET (Nat \X Records)
        /\ bound \in [lines : Nat, faults : Nat, moves : Nat]
    BY <1>1 DEF Inv, Typed
  <1>4. B \in SUBSET (Nat \X Records) /\ acked \subseteq B BY <1>2, <1>3
  <1>5. Within(B, synced) /\ Within(acked, synced) BY <1>2 DEF Report, Inv, Covered, Within
  <1>6. file' = file /\ synced' = synced /\ acked' = B /\ writer' = Down /\ bound' = bound
    BY <1>2 DEF Report
  <1>7. Inv' BY <1>1, <1>3, <1>4, <1>5, <1>6, DownHolds
  <1>8. d \in Seq(Nat) /\ Len(d) \in Nat BY <1>1, <1>3
  <1>9. EndOf(acked) \in Nat /\ EndOf(B) \in Nat /\ EndOf(B) <= synced BY <1>3, <1>4, <1>5, EndOfFacts
  <1>10. EndOf(acked) <= EndOf(B) BY <1>3, <1>4, <1>5, EndOfGrows
  <1>11. EndOf(B) <= Len(d) BY <1>3, <1>8, <1>9
  <1>12. KeptOf(d, EndOf(B)) \in KeptOf(d, EndOf(acked)) .. Len(RecordsOf(d))
    BY <1>8, <1>9, <1>10, <1>11, KeptGrows
  <1>13. LogStep(d, EndOf(acked), d, EndOf(B)) BY <1>12 DEF LogStep
  <1> QED BY <1>1, <1>6, <1>7, <1>13

\* The writer dies: the log is the same.
LEMMA KillWriterKeeps ==
    ASSUME Inv, KillWriter
    PROVE  Inv' /\ file'.data = file.data /\ acked' = acked
  <1>1. /\ file \in [inode : Nat, data : Seq(Nat)] /\ synced \in Nat /\ synced <= Len(file.data)
        /\ acked \in SUBSET (Nat \X Records) /\ Within(acked, synced)
    BY DEF Inv, Typed, Covered
  <1>2. file' = file /\ synced' = synced /\ acked' = acked /\ writer' = Down BY DEF KillWriter
  <1>3. bound' \in [lines : Nat, faults : Nat, moves : Nat] BY DEF Inv, Typed, KillWriter, Fault
  <1> QED BY <1>1, <1>2, <1>3, DownHolds

\* A fault is counted.
LEMMA FaultTyped == ASSUME Inv, Fault PROVE bound' \in [lines : Nat, faults : Nat, moves : Nat]
  <1>1. bound \in [lines : Nat, faults : Nat, moves : Nat] BY DEF Inv, Typed
  <1>2. bound' = [bound EXCEPT !.faults = @ + 1] BY DEF Fault
  <1> QED BY <1>1, <1>2

\* The host fails: the log is cut, and holds all that was promised.
LEMMA FailHostKeeps ==
    ASSUME Inv, NEW n \in 0 .. Len(file.data), FailHost(n)
    PROVE  Inv' /\ LogStep(file.data, EndOf(acked), file'.data, EndOf(acked'))
  <1>1. PICK d : d = file.data OBVIOUS
  <1>2. PICK e : e = SubSeq(d, 1, n) OBVIOUS
  <1>3. /\ file \in [inode : Nat, data : Seq(Nat)] /\ synced \in Nat /\ synced <= Len(d)
        /\ acked \in SUBSET (Nat \X Records) /\ Within(acked, synced)
    BY <1>1 DEF Inv, Typed, Covered
  <1>4. d \in Seq(Nat) /\ Len(d) \in Nat BY <1>1, <1>3
  <1>5. n \in Nat /\ n <= Len(d) /\ synced <= n BY <1>1, <1>3, <1>4 DEF FailHost
  <1>6. /\ e \in Seq(Nat) /\ Len(e) = n /\ Begins(e, d)
        /\ Cardinality(Ends(e)) \in 0 .. Len(RecordsOf(d))
        /\ RecordsOf(e) = SubSeq(RecordsOf(d), 1, Cardinality(Ends(e)))
    BY <1>2, <1>4, <1>5, CutRecords
  <1>7. file' = [file EXCEPT !.data = e] /\ synced' = synced /\ acked' = acked /\ writer' = Down
    BY <1>1, <1>2 DEF FailHost
  <1>8. file' \in [inode : Nat, data : Seq(Nat)] /\ file'.data = e BY <1>3, <1>6, <1>7
  <1>9. bound' \in [lines : Nat, faults : Nat, moves : Nat] BY FaultTyped DEF FailHost
  <1>10. Inv' BY <1>3, <1>5, <1>6, <1>7, <1>8, <1>9, DownHolds
  <1>11. PICK b \in Nat : b = EndOf(acked) /\ b <= synced BY <1>3, EndOfFacts
  <1>12. b <= Len(e) BY <1>3, <1>5, <1>6, <1>11
  <1>13. KeptOf(e, b) = KeptOf(d, b) BY <1>4, <1>6, <1>12, KeptPrefix
  <1>14. KeptOf(e, b) \in 0 .. Cardinality(Ends(e))
    <2>1. KeptOf(e, b) \in 0 .. Len(RecordsOf(e)) BY <1>6, <1>12, KeptIsUpTo
    <2>2. Len(RecordsOf(e)) = Cardinality(Ends(e)) BY <1>6, RecordsAreNumbers
    <2> QED BY <2>1, <2>2
  <1>15. Cardinality(Ends(e)) \in KeptOf(d, b) .. Len(RecordsOf(d)) BY <1>6, <1>13, <1>14
  <1>16. LogStep(d, b, e, b) BY <1>6, <1>13, <1>15 DEF LogStep
  <1> QED BY <1>1, <1>7, <1>8, <1>10, <1>11, <1>16

\* The file is put aside: the log is renewed.
LEMMA MoveAwayKeeps ==
    ASSUME Inv, MoveAway
    PROVE  Inv' /\ LogStep(file.data, EndOf(acked), file'.data, EndOf(acked'))
  <1>1. PICK f : f = NoFile OBVIOUS
  <1>2. f.data = <<>> /\ Len(f.data) = 0 /\ f \in [inode : Nat, data : Seq(Nat)]
    <2>1. <<>> \in Seq(Nat) OBVIOUS
    <2> QED BY <1>1, <2>1 DEF NoFile
  <1>3. PICK z \in Nat : z = 0 OBVIOUS
  <1>4. file' = f /\ synced' = z /\ acked' = {} /\ writer' = Down BY <1>1, <1>3 DEF MoveAway
  <1>5. bound' \in [lines : Nat, faults : Nat, moves : Nat] BY DEF Inv, Typed, MoveAway
  <1>6. Within({}, z) /\ {} \in SUBSET (Nat \X Records)
    <2>1. Within({}, z) BY DEF Within
    <2> QED BY <2>1
  <1>7. z <= Len(f.data) BY <1>2, <1>3
  <1>8. Inv' BY <1>2, <1>4, <1>5, <1>6, <1>7, DownHolds
  <1>9. RecordsOf(<<>>) = <<>> /\ KeptOf(<<>>, 0) = 0 BY EmptyLog
  <1>10. EndOf({}) = 0 BY EndOfNothing
  <1>11. LogStep(file.data, EndOf(acked), <<>>, EndOf({})) BY <1>9, <1>10 DEF LogStep
  <1> QED BY <1>2, <1>4, <1>8, <1>11

\* The dashboard and the browser leave the file alone.
LEMMA ViewKeeps ==
    ASSUME Inv, Poll \/ LoseReply
    PROVE  Inv' /\ file'.data = file.data /\ acked' = acked
  <1>1. file' = file /\ synced' = synced /\ acked' = acked /\ writer' = writer
    BY DEF Poll, AnswerMissing, AnswerPage, Receive, LoseReply
  <1>2. bound' \in [lines : Nat, faults : Nat, moves : Nat]
    <2>1. CASE Poll
      <3>1. bound' = bound BY <2>1 DEF Poll, AnswerMissing, AnswerPage, Receive
      <3> QED BY <3>1 DEF Inv, Typed
    <2>2. CASE LoseReply BY <2>2, FaultTyped DEF LoseReply
    <2> QED BY <2>1, <2>2
  <1>3. Down' = Down BY DEF Down
  <1> QED BY <1>1, <1>2, <1>3 DEF Inv, Typed, Standing, Covered
-----------------------------------------------------------------------------
\* The invariant holds when nothing was written yet.
LEMMA InitInv == Init => Inv
  <1> SUFFICES ASSUME Init PROVE Inv OBVIOUS
  <1>1. <<>> \in Seq(Nat) /\ Len(<<>>) = 0 OBVIOUS
  <1>2. file = [inode |-> 0, data |-> <<>>] /\ file.data = <<>> BY DEF Init, NoFile
  <1>3. /\ writer = [pc |-> "down", line |-> <<>>, written |-> {}]
        /\ writer.pc = "down" /\ writer.line = <<>> /\ writer.written = {} /\ writer = Down
    BY DEF Init, Down
  <1>4. synced = 0 /\ acked = {} /\ bound \in [lines : Nat, faults : Nat, moves : Nat] BY DEF Init
  <1>5. Typed BY <1>1, <1>2, <1>3, <1>4 DEF Typed
  <1>6. Standing BY <1>3 DEF Standing
  <1>7. Covered BY <1>3, <1>4 DEF Covered, Within
  <1> QED BY <1>5, <1>6, <1>7 DEF Inv

\* Every step keeps the invariant, and is a step of the log or none.
LEMMA NextKeeps ==
    ASSUME Inv, [Next]_vars
    PROVE  Inv' /\ [Promised!Next]_Promised!vars
  <1>1. ASSUME Inv', file'.data = file.data, acked' = acked PROVE Inv' /\ [Promised!Next]_Promised!vars
    <2>1. UNCHANGED Promised!vars BY <1>1, SameIsStutter
    <2> QED BY <1>1, <2>1
  <1>2. ASSUME Inv', LogStep(file.data, EndOf(acked), file'.data, EndOf(acked'))
        PROVE  Inv' /\ [Promised!Next]_Promised!vars
    <2>1. Promised!Next BY <1>2, LogStepIsNext
    <2> QED BY <1>2, <2>1
  <1>3. CASE Open BY <1>1, <1>3, OpenKeeps
  <1>4. CASE \E r \in Records : \E n \in 1 .. Size[r] : WriteLine(r, n)
    <2>1. PICK r \in Records : \E n \in 1 .. Size[r] : WriteLine(r, n) BY <1>4
    <2>2. PICK n \in 1 .. Size[r] : WriteLine(r, n) BY <2>1
    <2>3. Advances(Line(r), r, 0, n) BY <2>2, WriteLineAdvances
    <2> QED BY <1>2, <2>3, AdvancesKeeps
  <1>5. CASE \E n \in 1 .. Len(writer.line) : WriteRest(n)
    <2>1. PICK n \in 1 .. Len(writer.line) : WriteRest(n) BY <1>5
    <2>2. PICK r, j : Advances(writer.line, r, j, n) BY <2>1, WriteRestAdvances
    <2> QED BY <1>2, <2>2, AdvancesKeeps
  <1>6. CASE Sync BY <1>1, <1>6, SyncKeeps
  <1>7. CASE Report BY <1>2, <1>7, ReportKeeps
  <1>8. CASE KillWriter BY <1>1, <1>8, KillWriterKeeps
  <1>9. CASE \E n \in 0 .. Len(file.data) : FailHost(n) BY <1>2, <1>9, FailHostKeeps
  <1>10. CASE MoveAway BY <1>2, <1>10, MoveAwayKeeps
  <1>11. CASE Poll \/ LoseReply BY <1>1, <1>11, ViewKeeps
  <1>12. CASE UNCHANGED vars
    <2>1. /\ file' = file /\ synced' = synced /\ acked' = acked /\ writer' = writer /\ bound' = bound
          /\ Down' = Down
      BY <1>12 DEF vars, Down
    <2>2. Inv' BY <2>1 DEF Inv, Typed, Standing, Covered
    <2> QED BY <1>1, <2>1, <2>2
  <1> QED BY <1>3, <1>4, <1>5, <1>6, <1>7, <1>8, <1>9, <1>10, <1>11, <1>12 DEF Next

\* The evidence file implements RecordLog, whatever the records and the bounds: the
\* writer, a kill in the middle of a line, a host failure, the check of
\* _restricted_text_append and the operator's recovery never glue or reorder records,
\* and never lose one that a "stopped" report counted.
THEOREM EvidenceIsRecordLog == Spec => ImplementsRecordLog
  <1>1. Init => Promised!Init
    <2> SUFFICES ASSUME Init PROVE Promised!Init OBVIOUS
    <2>1. file.data = <<>> /\ acked = {} BY DEF Init, NoFile
    <2>2. RecordsOf(<<>>) = <<>> /\ KeptOf(<<>>, 0) = 0 /\ EndOf({}) = 0 BY EmptyLog, EndOfNothing
    <2> QED BY <2>1, <2>2 DEF Promised!Init, KeptOf, EndOf, ReportedLength
  <1>2. Inv /\ [Next]_vars => Inv' /\ [Promised!Next]_Promised!vars BY NextKeeps
  <1> QED BY <1>1, <1>2, InitInv, PTL DEF Spec, ImplementsRecordLog, Promised!Spec
==============================================================================
