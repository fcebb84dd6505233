----------------------------- MODULE SumTheorems -----------------------------
(***************************************************************************)
(* What the sums of the community modules compute, for every finite set    *)
(* and every function: how a sum changes when a term is added, taken away  *)
(* or replaced, and how sums compare. Induction over the set is the choice *)
(* of a minimal counterexample, whose existence FiniteSetTheorems states   *)
(* without an operator parameter.                                          *)
(***************************************************************************)
EXTENDS Integers, Sequences, FiniteSets, Functions, FiniteSetTheorems, TLAPS

\* Every nonempty set of subsets of a finite set has a minimal member.
LEMMA MinimalSubset ==
    ASSUME NEW S, IsFiniteSet(S), NEW T, T \subseteq SUBSET S, T # {}
    PROVE  \E m \in T : \A u \in T : u \subseteq m => u = m
  <1>1. IsWellFoundedOn(StrictSubsetOrdering(S), SUBSET S)
    BY FS_StrictSubsetOrderingWellFounded, FS_FiniteSubsetsOfFinite
  <1>2. PICK m \in T : \A u \in T : ~ (<<u, m>> \in StrictSubsetOrdering(S))
    BY <1>1, WFMin
  <1>3. ASSUME NEW u \in T, u \subseteq m PROVE u = m
    <2>1. u \in SUBSET S /\ m \in SUBSET S OBVIOUS
    <2>2. CASE u # m
      <3>1. <<u, m>> \in (SUBSET S) \X (SUBSET S) BY <2>1
      <3>2. <<u, m>>[1] \subseteq <<u, m>>[2] /\ <<u, m>>[1] # <<u, m>>[2] BY <2>2, <1>3
      <3>3. <<u, m>> \in StrictSubsetOrdering(S) BY <3>1, <3>2 DEF StrictSubsetOrdering
      <3> QED BY <3>3, <1>2
    <2> QED BY <2>2
  <1> QED BY <1>2, <1>3

Pick(s) == CHOOSE x \in s : TRUE

\* The equation that defines the table of partial sums.
Sums(f, S, g) ==
    g = [s \in SUBSET S |-> IF s = {} THEN 0 ELSE f[Pick(s)] + g[s \ {Pick(s)}]]

\* The sum over a set is read from such a table.
LEMMA SumIsTable == \A f, S : SumFunctionOnSet(f, S) = (CHOOSE g : Sums(f, S, g))[S]
  BY Zenon DEF SumFunctionOnSet, FoldFunctionOnSet, MapThenFoldSet, Sums, Pick

\* What is picked from a set is in it.
LEMMA PickIn == \A s : s # {} => Pick(s) \in s
  BY DEF Pick

\* The table of a set and the one of a subset agree on the subset.
LEMMA SumsAgree ==
    ASSUME NEW f, NEW S, IsFiniteSet(S), NEW U \in SUBSET S, NEW g, NEW h, Sums(f, S, g), Sums(f, U, h)
    PROVE  \A s \in SUBSET U : g[s] = h[s]
  <1> DEFINE T == {s \in SUBSET U : g[s] # h[s]}
  <1> SUFFICES ASSUME T # {} PROVE FALSE OBVIOUS
  <1>1. IsFiniteSet(U) BY FS_Subset
  <1>2. T \subseteq SUBSET U OBVIOUS
  <1>3. \A s \in SUBSET U : s \notin T => g[s] = h[s] OBVIOUS
  <1>4. \A s \in T : g[s] # h[s] OBVIOUS
  <1> HIDE DEF T
  <1>5. PICK m \in T : \A u \in T : u \subseteq m => u = m BY <1>1, <1>2, MinimalSubset
  <1>6. m \in SUBSET S /\ m \in SUBSET U /\ g[m] # h[m] BY <1>2, <1>4
  <1>7. CASE m = {}
    BY <1>6, <1>7 DEF Sums
  <1>8. CASE m # {}
    <2>1. Pick(m) \in m BY <1>8, PickIn
    <2>2. /\ g[m] = f[Pick(m)] + g[m \ {Pick(m)}]
          /\ h[m] = f[Pick(m)] + h[m \ {Pick(m)}]
      BY <1>6, <1>8 DEF Sums
    <2>3. m \ {Pick(m)} \notin T BY <1>5, <2>1
    <2>4. g[m \ {Pick(m)}] = h[m \ {Pick(m)}] BY <2>3, <1>6, <1>3
    <2> QED BY <2>2, <2>4, <1>6
  <1> QED BY <1>7, <1>8

\* Every finite set has a table of partial sums.
LEMMA SumsExist ==
    ASSUME NEW f, NEW S, IsFiniteSet(S)
    PROVE  \E g : Sums(f, S, g)
  <1> DEFINE T == {s \in SUBSET S : ~\E g : Sums(f, s, g)}
  <1> SUFFICES ASSUME T # {} PROVE FALSE OBVIOUS
  <1>1. /\ T \subseteq SUBSET S
        /\ \A s \in T : ~\E g : Sums(f, s, g)
        /\ \A s \in SUBSET S : s \notin T => \E g : Sums(f, s, g)
    OBVIOUS
  <1> HIDE DEF T
  <1>2. PICK m \in T : \A u \in T : u \subseteq m => u = m BY <1>1, MinimalSubset
  <1> DEFINE Tab(u) == CHOOSE g : Sums(f, u, g)
             rest == m \ {Pick(m)}
             H == [u \in SUBSET m |->
                     IF u = {} THEN 0
                     ELSE IF u = m THEN f[Pick(m)] + Tab(rest)[rest]
                     ELSE Tab(u)[u]]
  <1>3. ASSUME NEW u \in SUBSET m, u # m PROVE Sums(f, u, Tab(u))
    <2>1. u \in SUBSET S /\ u \notin T BY <1>1, <1>2, <1>3
    <2>2. \E g : Sums(f, u, g) BY <2>1, <1>1
    <2> QED BY <2>2
  <1>4. ASSUME NEW u \in SUBSET m, u # m, u # {}
        PROVE  Tab(u)[u] = f[Pick(u)] + Tab(u \ {Pick(u)})[u \ {Pick(u)}]
    <2> DEFINE v == u \ {Pick(u)}
    <2>1. Pick(u) \in u BY <1>4, PickIn
    <2>2. v \in SUBSET u /\ v \in SUBSET m /\ v # m BY <2>1
    <2>3. Sums(f, u, Tab(u)) /\ Sums(f, v, Tab(v)) BY <1>3, <1>4, <2>2
    <2>4. IsFiniteSet(u) BY FS_Subset, <1>1
    <2> HIDE DEF Tab
    <2>5. Tab(u)[v] = Tab(v)[v] BY <2>2, <2>3, <2>4, SumsAgree
    <2>6. Tab(u)[u] = f[Pick(u)] + Tab(u)[v] BY <2>3, <1>4 DEF Sums
    <2> QED BY <2>5, <2>6
  <1>5. {} # m => Tab({})[{}] = 0
    <2> HAVE {} # m
    <2>1. Sums(f, {}, Tab({})) BY <1>3
    <2> HIDE DEF Tab
    <2> QED BY <2>1 DEF Sums
  <1> HIDE DEF Tab
  <1>6. ASSUME NEW u \in SUBSET m
        PROVE  H[u] = IF u = {} THEN 0 ELSE f[Pick(u)] + H[u \ {Pick(u)}]
    <2> DEFINE v == u \ {Pick(u)}
    <2>1. CASE u = {} BY <2>1
    <2>2. CASE u # {}
      <3>1. Pick(u) \in u BY <2>2, PickIn
      <3>2. v \in SUBSET m /\ v # m BY <3>1
      <3>3. H[v] = Tab(v)[v] BY <3>2, <1>5
      <3>4. H[u] = f[Pick(u)] + Tab(v)[v]
        <4>1. CASE u = m BY <4>1, <2>2
        <4>2. CASE u # m BY <4>2, <2>2, <1>4
        <4> QED BY <4>1, <4>2
      <3> QED BY <2>2, <3>3, <3>4
    <2> QED BY <2>1, <2>2
  <1>7. Sums(f, m, H)
    <2>1. H = [u \in SUBSET m |-> H[u]] OBVIOUS
    <2> HIDE DEF H
    <2>2. H = [u \in SUBSET m |-> IF u = {} THEN 0 ELSE f[Pick(u)] + H[u \ {Pick(u)}]]
      BY <2>1, <1>6
    <2> QED BY <2>2 DEF Sums
  <1> QED BY <1>1, <1>2, <1>7

\* The table that the sum over a finite set is read from.
LEMMA SumTable ==
    ASSUME NEW f, NEW S, IsFiniteSet(S)
    PROVE  \E g : Sums(f, S, g) /\ SumFunctionOnSet(f, S) = g[S]
  <1>1. Sums(f, S, CHOOSE g : Sums(f, S, g)) BY SumsExist
  <1> QED BY <1>1, SumIsTable

\* The sum over the empty set, and over a finite set from which one element is taken.
LEMMA SumUnfold ==
    ASSUME NEW f, NEW S, IsFiniteSet(S)
    PROVE  SumFunctionOnSet(f, S) =
             IF S = {} THEN 0
             ELSE f[Pick(S)] + SumFunctionOnSet(f, S \ {Pick(S)})
  <1>1. PICK g : Sums(f, S, g) /\ SumFunctionOnSet(f, S) = g[S] BY SumTable
  <1>2. CASE S = {} BY <1>1, <1>2 DEF Sums
  <1>3. CASE S # {}
    <2>1. PICK v : v = S \ {Pick(S)} OBVIOUS
    <2>2. v \in SUBSET S /\ v \in SUBSET v BY <2>1
    <2>3. IsFiniteSet(v) BY <2>2, FS_Subset
    <2>4. PICK h : Sums(f, v, h) /\ SumFunctionOnSet(f, v) = h[v] BY <2>3, SumTable
    <2>5. \A s \in SUBSET v : g[s] = h[s] BY <1>1, <2>2, <2>4, SumsAgree
    <2>6. g[v] = h[v] BY <2>2, <2>5
    <2>7. g[S] = f[Pick(S)] + g[v] BY <1>1, <1>3, <2>1 DEF Sums
    <2> QED BY <1>1, <1>3, <2>1, <2>4, <2>6, <2>7
  <1> QED BY <1>2, <1>3

Integral(f, S) == IsFiniteSet(S) /\ \A x \in S : f[x] \in Int

\* The sum over nothing.
LEMMA SumEmpty == \A f : SumFunctionOnSet(f, {}) = 0
  BY SumUnfold, FS_EmptySet

\* A sum of integers is an integer.
LEMMA SumInt ==
    ASSUME NEW f, NEW S, Integral(f, S)
    PROVE  SumFunctionOnSet(f, S) \in Int
  <1> DEFINE T == {s \in SUBSET S : SumFunctionOnSet(f, s) \notin Int}
  <1> SUFFICES ASSUME T # {} PROVE FALSE OBVIOUS
  <1>1. /\ T \subseteq SUBSET S
        /\ \A s \in T : SumFunctionOnSet(f, s) \notin Int
        /\ \A s \in SUBSET S : s \notin T => SumFunctionOnSet(f, s) \in Int
    OBVIOUS
  <1> HIDE DEF T
  <1>2. PICK m \in T : \A u \in T : u \subseteq m => u = m
    BY <1>1, MinimalSubset DEF Integral
  <1>3. m # {} BY <1>1, SumEmpty
  <1>4. Pick(m) \in m BY <1>3, PickIn
  <1>5. m \ {Pick(m)} \notin T BY <1>2, <1>4
  <1>6. SumFunctionOnSet(f, m \ {Pick(m)}) \in Int /\ f[Pick(m)] \in Int
    BY <1>1, <1>4, <1>5 DEF Integral
  <1>7. IsFiniteSet(m) BY <1>1, FS_Subset DEF Integral
  <1>8. SumFunctionOnSet(f, m) = f[Pick(m)] + SumFunctionOnSet(f, m \ {Pick(m)})
    BY <1>3, <1>7, SumUnfold
  <1> QED BY <1>1, <1>6, <1>8

\* Any element may be taken out first.
LEMMA SumRemove ==
    ASSUME NEW f, NEW S, Integral(f, S), NEW x \in S
    PROVE  SumFunctionOnSet(f, S) = f[x] + SumFunctionOnSet(f, S \ {x})
  <1> DEFINE Ok(s) == \A y \in s : SumFunctionOnSet(f, s) = f[y] + SumFunctionOnSet(f, s \ {y})
             T == {s \in SUBSET S : ~Ok(s)}
  <1> SUFFICES ASSUME T # {} PROVE FALSE OBVIOUS
  <1>1. /\ T \subseteq SUBSET S
        /\ \A s \in T : ~Ok(s)
        /\ \A s \in SUBSET S : s \notin T => Ok(s)
    OBVIOUS
  <1> HIDE DEF T
  <1>2. PICK m \in T : \A u \in T : u \subseteq m => u = m
    BY <1>1, MinimalSubset DEF Integral
  <1>3. PICK y \in m : SumFunctionOnSet(f, m) # f[y] + SumFunctionOnSet(f, m \ {y})
    BY <1>1
  <1> DEFINE c == Pick(m)
  <1>4. c \in m BY <1>3, PickIn
  <1>5. IsFiniteSet(m) BY <1>1, FS_Subset DEF Integral
  <1> HIDE DEF c
  <1>6. SumFunctionOnSet(f, m) = f[c] + SumFunctionOnSet(f, m \ {c})
    BY <1>3, <1>5, SumUnfold DEF c
  <1>7. c # y BY <1>6, <1>3
  <1>8. Ok(m \ {c}) /\ Ok(m \ {y}) BY <1>1, <1>2, <1>3, <1>4
  <1>9. /\ SumFunctionOnSet(f, m \ {c}) = f[y] + SumFunctionOnSet(f, (m \ {c}) \ {y})
        /\ SumFunctionOnSet(f, m \ {y}) = f[c] + SumFunctionOnSet(f, (m \ {y}) \ {c})
    BY <1>8, <1>7, <1>3, <1>4
  <1>10. (m \ {c}) \ {y} = (m \ {y}) \ {c} OBVIOUS
  <1>11. /\ f[c] \in Int /\ f[y] \in Int
         /\ SumFunctionOnSet(f, (m \ {y}) \ {c}) \in Int
    <2>1. f[c] \in Int /\ f[y] \in Int BY <1>1, <1>3, <1>4 DEF Integral
    <2>2. Integral(f, (m \ {y}) \ {c}) BY <1>1, <1>5, FS_Subset DEF Integral
    <2> QED BY <2>1, <2>2, SumInt
  <1>12. /\ SumFunctionOnSet(f, m) = f[c] + (f[y] + SumFunctionOnSet(f, (m \ {y}) \ {c}))
         /\ SumFunctionOnSet(f, m \ {y}) = f[c] + SumFunctionOnSet(f, (m \ {y}) \ {c})
    BY <1>6, <1>9, <1>10
  <1> QED BY <1>3, <1>11, <1>12

\* Adding an element.
LEMMA SumAdd ==
    ASSUME NEW f, NEW S, Integral(f, S), NEW x, x \notin S, f[x] \in Int
    PROVE  SumFunctionOnSet(f, S \cup {x}) = f[x] + SumFunctionOnSet(f, S)
  <1>1. Integral(f, S \cup {x}) BY FS_AddElement DEF Integral
  <1>2. (S \cup {x}) \ {x} = S OBVIOUS
  <1> QED BY <1>1, <1>2, SumRemove

\* Only the values on the set count.
LEMMA SumSame ==
    ASSUME NEW f, NEW g, NEW S, Integral(f, S), \A x \in S : f[x] = g[x]
    PROVE  SumFunctionOnSet(f, S) = SumFunctionOnSet(g, S)
  <1> DEFINE T == {s \in SUBSET S : SumFunctionOnSet(f, s) # SumFunctionOnSet(g, s)}
  <1> SUFFICES ASSUME T # {} PROVE FALSE OBVIOUS
  <1>1. /\ T \subseteq SUBSET S
        /\ \A s \in T : SumFunctionOnSet(f, s) # SumFunctionOnSet(g, s)
        /\ \A s \in SUBSET S : s \notin T => SumFunctionOnSet(f, s) = SumFunctionOnSet(g, s)
    OBVIOUS
  <1> HIDE DEF T
  <1>2. PICK m \in T : \A u \in T : u \subseteq m => u = m
    BY <1>1, MinimalSubset DEF Integral
  <1>3. m # {} BY <1>1, SumEmpty
  <1>4. Pick(m) \in m BY <1>3, PickIn
  <1>5. m \ {Pick(m)} \notin T BY <1>2, <1>4
  <1>6. IsFiniteSet(m) BY <1>1, FS_Subset DEF Integral
  <1>7. /\ SumFunctionOnSet(f, m) = f[Pick(m)] + SumFunctionOnSet(f, m \ {Pick(m)})
        /\ SumFunctionOnSet(g, m) = g[Pick(m)] + SumFunctionOnSet(g, m \ {Pick(m)})
    BY <1>3, <1>6, SumUnfold
  <1>8. f[Pick(m)] = g[Pick(m)] BY <1>1, <1>4
  <1>9. SumFunctionOnSet(f, m \ {Pick(m)}) = SumFunctionOnSet(g, m \ {Pick(m)})
    BY <1>1, <1>5
  <1> QED BY <1>1, <1>7, <1>8, <1>9

\* Changing one value changes the sum by the difference.
LEMMA SumUpdate ==
    ASSUME NEW f, NEW g, NEW S, Integral(f, S), NEW x \in S, g[x] \in Int,
           \A y \in S \ {x} : g[y] = f[y]
    PROVE  SumFunctionOnSet(g, S) = SumFunctionOnSet(f, S) - f[x] + g[x]
  <1>1. Integral(g, S) BY DEF Integral
  <1>2. Integral(f, S \ {x}) BY FS_Subset DEF Integral
  <1>3. SumFunctionOnSet(f, S \ {x}) = SumFunctionOnSet(g, S \ {x}) BY <1>2, SumSame
  <1>4. /\ SumFunctionOnSet(f, S) = f[x] + SumFunctionOnSet(f, S \ {x})
        /\ SumFunctionOnSet(g, S) = g[x] + SumFunctionOnSet(g, S \ {x})
    BY <1>1, SumRemove
  <1>5. f[x] \in Int /\ SumFunctionOnSet(f, S \ {x}) \in Int BY <1>2, SumInt DEF Integral
  <1> QED BY <1>3, <1>4, <1>5

\* The sum over a part and over the rest.
LEMMA SumSplit ==
    ASSUME NEW f, NEW S, Integral(f, S), NEW U \in SUBSET S
    PROVE  SumFunctionOnSet(f, S) = SumFunctionOnSet(f, U) + SumFunctionOnSet(f, S \ U)
  <1> DEFINE Ok(s) == SumFunctionOnSet(f, S) = SumFunctionOnSet(f, s) + SumFunctionOnSet(f, S \ s)
             T == {s \in SUBSET S : ~Ok(s)}
  <1> SUFFICES ASSUME T # {} PROVE FALSE OBVIOUS
  <1>1. /\ T \subseteq SUBSET S
        /\ \A s \in T : ~Ok(s)
        /\ \A s \in SUBSET S : s \notin T => Ok(s)
    OBVIOUS
  <1> HIDE DEF T
  <1>2. PICK m \in T : \A u \in T : u \subseteq m => u = m
    BY <1>1, MinimalSubset DEF Integral
  <1>3. \A u \in SUBSET S : Integral(f, u) /\ SumFunctionOnSet(f, u) \in Int
    BY FS_Subset, SumInt DEF Integral
  <1>4. m # {}
    <2> SUFFICES ASSUME m = {} PROVE FALSE OBVIOUS
    <2>1. S \ m = S /\ SumFunctionOnSet(f, m) = 0 BY SumEmpty
    <2>2. SumFunctionOnSet(f, S) \in Int BY SumInt
    <2> QED BY <1>1, <2>1, <2>2
  <1>5. PICK c \in m : TRUE BY <1>4
  <1> DEFINE n == m \ {c}
  <1>6. Ok(n) BY <1>1, <1>2, <1>5
  <1>7. SumFunctionOnSet(f, m) = f[c] + SumFunctionOnSet(f, n)
    BY <1>3, <1>1, SumRemove
  <1>8. SumFunctionOnSet(f, S \ n) = f[c] + SumFunctionOnSet(f, S \ m)
    <2>1. Integral(f, S \ n) /\ c \in S \ n /\ (S \ n) \ {c} = S \ m BY <1>3, <1>1
    <2> QED BY <2>1, SumRemove
  <1>9. f[c] \in Int /\ SumFunctionOnSet(f, n) \in Int /\ SumFunctionOnSet(f, S \ m) \in Int
    BY <1>3, <1>1 DEF Integral
  <1> HIDE DEF n
  <1>10. Ok(m) BY <1>6, <1>7, <1>8, <1>9
  <1> QED BY <1>1, <1>10

Natural(f, S) == IsFiniteSet(S) /\ \A x \in S : f[x] \in Nat

\* A sum of natural numbers is one, and no member exceeds it.
LEMMA SumNat ==
    ASSUME NEW f, NEW S, Natural(f, S)
    PROVE  SumFunctionOnSet(f, S) \in Nat
  <1> DEFINE T == {s \in SUBSET S : SumFunctionOnSet(f, s) \notin Nat}
  <1> SUFFICES ASSUME T # {} PROVE FALSE OBVIOUS
  <1>1. /\ T \subseteq SUBSET S
        /\ \A s \in T : SumFunctionOnSet(f, s) \notin Nat
        /\ \A s \in SUBSET S : s \notin T => SumFunctionOnSet(f, s) \in Nat
    OBVIOUS
  <1> HIDE DEF T
  <1>2. PICK m \in T : \A u \in T : u \subseteq m => u = m
    BY <1>1, MinimalSubset DEF Natural
  <1>3. SumFunctionOnSet(f, {}) \in Nat BY SumEmpty
  <1>4. m # {} BY <1>3, <1>1
  <1>5. Pick(m) \in m BY <1>4, PickIn
  <1>6. m \ {Pick(m)} \notin T BY <1>2, <1>5
  <1>7. SumFunctionOnSet(f, m \ {Pick(m)}) \in Nat /\ f[Pick(m)] \in Nat
    BY <1>1, <1>5, <1>6 DEF Natural
  <1>8. IsFiniteSet(m) BY <1>1, FS_Subset DEF Natural
  <1>9. SumFunctionOnSet(f, m) = f[Pick(m)] + SumFunctionOnSet(f, m \ {Pick(m)})
    BY <1>4, <1>8, SumUnfold
  <1> QED BY <1>1, <1>7, <1>9

\* No term is larger than the sum of natural numbers.
LEMMA SumMember ==
    ASSUME NEW f, NEW S, Natural(f, S), NEW x \in S
    PROVE  f[x] <= SumFunctionOnSet(f, S)
  <1>1. Integral(f, S) BY DEF Integral, Natural
  <1>2. SumFunctionOnSet(f, S) = f[x] + SumFunctionOnSet(f, S \ {x}) BY <1>1, SumRemove
  <1>3. Natural(f, S \ {x}) BY FS_Subset DEF Natural
  <1>4. SumFunctionOnSet(f, S \ {x}) \in Nat /\ f[x] \in Nat BY <1>3, SumNat DEF Natural
  <1> QED BY <1>2, <1>4

\* What a part contributes, and what is left without it.
LEMMA SumPart ==
    ASSUME NEW f, NEW S, Natural(f, S), NEW U \in SUBSET S
    PROVE  /\ SumFunctionOnSet(f, S) \in Nat /\ SumFunctionOnSet(f, U) \in Nat
           /\ SumFunctionOnSet(f, S \ U) \in Nat
           /\ SumFunctionOnSet(f, S) - SumFunctionOnSet(f, U) = SumFunctionOnSet(f, S \ U)
           /\ SumFunctionOnSet(f, U) <= SumFunctionOnSet(f, S)
  <1>1. Integral(f, S) BY DEF Integral, Natural
  <1>2. Natural(f, U) /\ Natural(f, S \ U) BY FS_Subset DEF Natural
  <1>3. /\ SumFunctionOnSet(f, S) \in Nat /\ SumFunctionOnSet(f, U) \in Nat
        /\ SumFunctionOnSet(f, S \ U) \in Nat
    BY <1>2, SumNat
  <1>4. SumFunctionOnSet(f, S) = SumFunctionOnSet(f, U) + SumFunctionOnSet(f, S \ U)
    BY <1>1, SumSplit
  <1> QED BY <1>3, <1>4

\* A member gets a new value, or joins.
LEMMA SumPut ==
    ASSUME NEW f, NEW g, NEW S, Integral(f, S), NEW x, g[x] \in Int,
           \A y \in S \ {x} : g[y] = f[y]
    PROVE  SumFunctionOnSet(g, S \cup {x})
             = SumFunctionOnSet(f, S) - (IF x \in S THEN f[x] ELSE 0) + g[x]
  <1>1. CASE x \in S
    <2>1. S \cup {x} = S BY <1>1
    <2> QED BY <1>1, <2>1, SumUpdate
  <1>2. CASE x \notin S
    <2>1. Integral(g, S) /\ \A y \in S : f[y] = g[y] BY <1>2 DEF Integral
    <2>2. SumFunctionOnSet(f, S) = SumFunctionOnSet(g, S) BY <2>1, SumSame
    <2>3. SumFunctionOnSet(g, S \cup {x}) = g[x] + SumFunctionOnSet(g, S) BY <1>2, <2>1, SumAdd
    <2>4. SumFunctionOnSet(g, S) \in Int BY <2>1, SumInt
    <2> QED BY <1>2, <2>2, <2>3, <2>4
  <1> QED BY <1>1, <1>2

\* Every nonempty set of natural numbers has a least one.
LEMMA LeastNatural ==
    ASSUME NEW T, T \subseteq Nat, T # {}
    PROVE  \E m \in T : \A k \in T : m <= k
  <1>1. PICK m \in T : \A k \in T : ~ (<<k, m>> \in OpToRel(<, Nat))
    BY NatLessThanWellFounded, WFMin
  <1>2. ASSUME NEW k \in T PROVE m <= k
    <2>1. ~ (<<k, m>> \in OpToRel(<, Nat)) BY <1>1
    <2>2. k \in Nat /\ m \in Nat OBVIOUS
    <2>3. k < m => <<k, m>> \in OpToRel(<, Nat) BY <2>2 DEF OpToRel
    <2>4. ~(k < m) BY <2>1, <2>3, Zenon
    <2> QED BY <2>2, <2>4
  <1> QED BY <1>2

\* Every nonempty set of numbers that are bounded below has a least one.
LEMMA LeastInteger ==
    ASSUME NEW T, T \subseteq Int, NEW b \in Int, \A k \in T : b <= k, T # {}
    PROVE  \E m \in T : \A k \in T : m <= k
  <1> DEFINE U == {k - b : k \in T}
  <1>1. U \subseteq Nat /\ U # {}
    <2>1. \A k \in T : k - b \in Nat OBVIOUS
    <2>2. U \subseteq Nat BY <2>1
    <2> QED BY <2>2
  <1>2. \A k \in T : k - b \in U OBVIOUS
  <1>3. \A u \in U : \E k \in T : u = k - b OBVIOUS
  <1> HIDE DEF U
  <1>4. PICK u \in U : \A v \in U : u <= v BY <1>1, LeastNatural
  <1>5. PICK m \in T : u = m - b BY <1>3
  <1>6. \A k \in T : m - b <= k - b BY <1>2, <1>4, <1>5
  <1> QED BY <1>6

\* Taking the first number off a list.
LEMMA SumShift ==
    ASSUME NEW n \in Nat, NEW f, NEW g, \A i \in 1 .. n + 1 : f[i] \in Int,
           \A i \in 1 .. n : g[i] = f[i + 1]
    PROVE  SumFunctionOnSet(f, 1 .. n + 1) = f[1] + SumFunctionOnSet(g, 1 .. n)
  <1> DEFINE Ok(k) == SumFunctionOnSet(f, 1 .. k + 1) = f[1] + SumFunctionOnSet(g, 1 .. k)
             T == {k \in 0 .. n : ~Ok(k)}
  <1> SUFFICES ASSUME T # {} PROVE FALSE OBVIOUS
  <1>1. /\ T \subseteq Nat
        /\ \A k \in T : k \in 0 .. n /\ ~Ok(k)
        /\ \A k \in 0 .. n : k \notin T => Ok(k)
    OBVIOUS
  <1> HIDE DEF T
  <1>2. PICK m \in T : \A k \in T : m <= k BY <1>1, LeastNatural
  <1>3. m \in 0 .. n /\ m \in Nat /\ ~Ok(m) BY <1>1
  <1>4. ASSUME NEW k \in 0 .. n + 1 PROVE Integral(f, 1 .. k)
    <2>1. IsFiniteSet(1 .. k) BY FS_Interval
    <2>2. \A i \in 1 .. k : i \in 1 .. n + 1 OBVIOUS
    <2> QED BY <2>1, <2>2 DEF Integral
  <1>5. ASSUME NEW k \in 0 .. n PROVE Integral(g, 1 .. k)
    <2>1. IsFiniteSet(1 .. k) BY FS_Interval
    <2>2. \A i \in 1 .. k : i \in 1 .. n /\ i + 1 \in 1 .. n + 1 OBVIOUS
    <2>3. \A i \in 1 .. k : g[i] \in Int BY <2>2
    <2> QED BY <2>1, <2>3 DEF Integral
  <1>6. m + 1 \in 0 .. n + 1 BY <1>3
  <1>7. m # 0
    <2> SUFFICES ASSUME m = 0 PROVE FALSE OBVIOUS
    <2>1. 1 .. m = {} /\ 1 .. m + 1 = {1} /\ {1} \ {1} = {} BY <1>3
    <2>2. SumFunctionOnSet(g, 1 .. m) = 0 BY <2>1, SumEmpty
    <2>3. Integral(f, {1}) BY <1>6, <1>4, <2>1
    <2>4. SumFunctionOnSet(f, {1}) = f[1] + SumFunctionOnSet(f, {}) BY <2>1, <2>3, SumRemove
    <2>5. SumFunctionOnSet(f, 1 .. m + 1) = f[1] + 0 BY <2>1, <2>4, SumEmpty
    <2> QED BY <1>3, <2>2, <2>5
  <1>8. m - 1 \in 0 .. n /\ m - 1 \notin T BY <1>3, <1>2, <1>7
  <1>9. SumFunctionOnSet(f, 1 .. m) = f[1] + SumFunctionOnSet(g, 1 .. m - 1)
    <2>1. Ok(m - 1) BY <1>1, <1>8
    <2>2. (m - 1) + 1 = m BY <1>3
    <2> QED BY <2>1, <2>2
  <1>10. SumFunctionOnSet(f, 1 .. m + 1) = f[m + 1] + SumFunctionOnSet(f, 1 .. m)
    <2> DEFINE S == 1 .. m + 1
               x == m + 1
    <2>1. x \in S /\ S \ {x} = 1 .. m BY <1>3
    <2>2. Integral(f, S) BY <1>6, <1>4
    <2> HIDE DEF S, x
    <2>3. SumFunctionOnSet(f, S) = f[x] + SumFunctionOnSet(f, S \ {x})
      BY <2>1, <2>2, SumRemove
    <2> QED BY <2>1, <2>3 DEF S, x
  <1>11. SumFunctionOnSet(g, 1 .. m) = g[m] + SumFunctionOnSet(g, 1 .. m - 1)
    <2>1. m \in 1 .. m /\ (1 .. m) \ {m} = 1 .. m - 1 BY <1>3, <1>7
    <2>2. Integral(g, 1 .. m) BY <1>3, <1>5
    <2> QED BY <2>1, <2>2, SumRemove
  <1>12. g[m] = f[m + 1] /\ f[1] \in Int /\ f[m + 1] \in Int BY <1>3, <1>7
  <1>13. SumFunctionOnSet(g, 1 .. m - 1) \in Int BY <1>5, <1>8, SumInt
  <1>14. Ok(m) BY <1>9, <1>10, <1>11, <1>12, <1>13
  <1> QED BY <1>3, <1>14

\* The sum of a list of numbers, when one is appended and when the first is taken.
LEMMA SumList ==
    ASSUME NEW s \in Seq(Nat)
    PROVE  /\ SumFunction(s) \in Nat
           /\ \A x \in Nat : SumFunction(Append(s, x)) = SumFunction(s) + x
           /\ s # <<>> => SumFunction(s) = Head(s) + SumFunction(Tail(s))
           /\ s = <<>> => SumFunction(s) = 0
  <1> DEFINE n == Len(s)
  <1>1. n \in Nat /\ DOMAIN s = 1 .. n /\ \A i \in 1 .. n : s[i] \in Nat OBVIOUS
  <1>2. Natural(s, 1 .. n) /\ Integral(s, 1 .. n)
    <2>1. IsFiniteSet(1 .. n) BY <1>1, FS_Interval
    <2> QED BY <1>1, <2>1 DEF Natural, Integral
  <1>3. SumFunction(s) = SumFunctionOnSet(s, 1 .. n) BY <1>1 DEF SumFunction
  <1>4. SumFunction(s) \in Nat BY <1>2, <1>3, SumNat
  <1>5. ASSUME NEW x \in Nat PROVE SumFunction(Append(s, x)) = SumFunction(s) + x
    <2> DEFINE t == Append(s, x)
               S == 1 .. n
               e == n + 1
    <2>1. /\ DOMAIN t = 1 .. n + 1 /\ t[n + 1] = x
          /\ \A i \in 1 .. n : s[i] = t[i]
      BY <1>1
    <2>2. DOMAIN t = S \cup {e} /\ e \notin S /\ t[e] = x BY <1>1, <2>1
    <2>3. Integral(t, S) BY <1>2, <2>1 DEF Integral
    <2> HIDE DEF t, S, e, n
    <2>4. SumFunctionOnSet(t, S \cup {e}) = x + SumFunctionOnSet(t, S)
      BY <2>2, <2>3, SumAdd
    <2>5. SumFunctionOnSet(s, S) = SumFunctionOnSet(t, S) BY <1>2, <2>1, SumSame DEF S
    <2>6. SumFunction(t) = x + SumFunction(s) BY <2>2, <2>4, <2>5, <1>3 DEF SumFunction, S
    <2> QED BY <2>6, <1>4 DEF t
  <1>6. ASSUME s # <<>> PROVE SumFunction(s) = Head(s) + SumFunction(Tail(s))
    <2> DEFINE t == Tail(s)
               k == n - 1
    <2>1. /\ k \in Nat /\ n = k + 1 /\ DOMAIN t = 1 .. k
          /\ \A i \in 1 .. k : t[i] = s[i + 1]
          /\ Head(s) = s[1]
      BY <1>1, <1>6
    <2>2. \A i \in 1 .. k + 1 : s[i] \in Int BY <1>1, <2>1
    <2> HIDE DEF t, k, n
    <2>3. SumFunctionOnSet(s, 1 .. k + 1) = s[1] + SumFunctionOnSet(t, 1 .. k)
      BY <2>1, <2>2, SumShift
    <2>4. SumFunction(t) = SumFunctionOnSet(t, 1 .. k) BY <2>1 DEF SumFunction
    <2> QED BY <1>3, <2>1, <2>3, <2>4 DEF t
  <1>7. ASSUME s = <<>> PROVE SumFunction(s) = 0
    <2>1. 1 .. n = {} BY <1>1, <1>7
    <2> QED BY <1>3, <2>1, SumEmpty
  <1> QED BY <1>4, <1>5, <1>6, <1>7
==============================================================================
