-------------------------- MODULE FlowRoutingProofs --------------------------
(***************************************************************************)
(* For every number of flows, fragment keys and workers, every hash and    *)
(* every table size: the dispatcher's tables are well formed and never     *)
(* outgrow max_fragment_routes, and a flow reaches a second worker only    *)
(* after a counted fallback or the reuse of an IP identification.          *)
(***************************************************************************)
EXTENDS FlowRouting, SumTheorems, TLAPS

\* While every fragment was routed by its flow's own hash, both tables and all
\* deliveries agree with that hash.
FollowsHash ==
    (fallbacks = 0 /\ ~idReused) =>
        /\ \A k \in DOMAIN routes : routes[k].shard = HashFlow[routes[k].flow]
        /\ \A f \in DOMAIN overrides : overrides[f].shard = HashFlow[f]
        /\ \A f \in Flows : usedShards[f] \subseteq {HashFlow[f]}

Inv == TypeOK /\ FollowsHash

USE FlowRoutingAssumption

-----------------------------------------------------------------------------
(***************************************************************************)
(* The dictionary operators                                                *)
(***************************************************************************)

\* Eviction keeps a part of the table.
LEMMA WithRoomFacts ==
    ASSUME NEW t
    PROVE  /\ DOMAIN WithRoom(t) \subseteq DOMAIN t
           /\ \A k \in DOMAIN WithRoom(t) : WithRoom(t)[k] = t[k]
  <1>1. CASE Full(t)
    <2>1. WithRoom(t) = Drop(t, Oldest(t)) BY <1>1 DEF WithRoom
    <2> QED BY <2>1 DEF Drop
  <1>2. CASE ~Full(t) BY <1>2 DEF WithRoom
  <1> QED BY <1>1, <1>2

\* Expiry only takes entries away.
LEMMA UnexpiredFacts ==
    ASSUME NEW t, NEW idle
    PROVE  /\ DOMAIN Unexpired(t, idle) \subseteq DOMAIN t
           /\ \A k \in DOMAIN Unexpired(t, idle) : Unexpired(t, idle)[k] = t[k]
  BY DEF Unexpired

\* The number of evictions is a number.
LEMMA EvictionsNat == \A t : Evictions(t) \in Nat
  BY DEF Evictions

\* Remembering an override changes the entry of its flow and no other.
LEMMA RememberFacts ==
    ASSUME TypeOK, NEW f \in Flows, NEW s \in Shards, RememberOverride(f, s)
    PROVE  /\ DOMAIN overrides' \subseteq Flows
           /\ \A g \in DOMAIN overrides' : overrides'[g] \in Override
           /\ \A g \in DOMAIN overrides' :
                 \/ g = f /\ overrides'[g].shard = s
                 \/ g \in DOMAIN overrides /\ overrides'[g] = overrides[g]
           /\ overrideEvictions' \in Nat
  <1> DEFINE rest == WithRoom(Drop(overrides, f))
             e == [shard |-> s, at |-> clock]
  <1>1. overrides' = Put(rest, f, e) BY DEF RememberOverride
  <1>2. /\ DOMAIN rest \subseteq DOMAIN overrides
        /\ \A g \in DOMAIN rest : rest[g] = overrides[g]
    <2>1. /\ DOMAIN rest \subseteq DOMAIN Drop(overrides, f)
          /\ \A g \in DOMAIN rest : rest[g] = Drop(overrides, f)[g]
      BY WithRoomFacts
    <2> HIDE DEF rest
    <2> QED BY <2>1 DEF Drop
  <1>3. e \in Override BY DEF TypeOK, Override
  <1>4. e.shard = s OBVIOUS
  <1> HIDE DEF rest, e
  <1>5. /\ DOMAIN overrides' = DOMAIN rest \cup {f}
        /\ overrides'[f] = e
        /\ \A g \in DOMAIN rest : g # f => overrides'[g] = rest[g]
    BY <1>1 DEF Put
  <1>6. overrideEvictions' \in Nat BY EvictionsNat DEF RememberOverride, TypeOK
  <1>7. ASSUME NEW g \in DOMAIN overrides'
        PROVE  /\ g \in Flows
               /\ overrides'[g] \in Override
               /\ \/ g = f /\ overrides'[g].shard = s
                  \/ g \in DOMAIN overrides /\ overrides'[g] = overrides[g]
    BY <1>2, <1>3, <1>5, <1>4 DEF TypeOK
  <1> QED BY <1>6, <1>7
-----------------------------------------------------------------------------
\* The routing invariant holds when nothing was captured.
LEMMA InitInv == Init => Inv
  <1> SUFFICES ASSUME Init PROVE Inv OBVIOUS
  <1>1. TypeOK
    <2>1. DOMAIN routes = {} /\ DOMAIN overrides = {} BY DEF Init
    <2>2. usedShards \in [Flows -> SUBSET Shards] BY DEF Init
    <2>3. /\ clock \in 0 .. MaxTime
          /\ routeEvictions \in Nat /\ overrideEvictions \in Nat /\ fallbacks \in Nat
      BY DEF Init
    <2>4. idReused \in BOOLEAN BY DEF Init
    <2>5. /\ DOMAIN routes \subseteq Keys /\ DOMAIN overrides \subseteq Flows
          /\ \A k \in DOMAIN routes : routes[k] \in Route
          /\ \A f \in DOMAIN overrides : overrides[f] \in Override
      BY <2>1
    <2> QED BY <2>2, <2>3, <2>5, <2>4 DEF TypeOK
  <1>2. FollowsHash BY DEF Init, FollowsHash
  <1> QED BY <1>1, <1>2 DEF Inv

\* A delivery adds one shard to one flow.
LEMMA DeliverFacts ==
    ASSUME TypeOK, InTime, NEW f \in Flows, NEW s \in Shards, Deliver(f, s)
    PROVE  /\ clock' \in 0 .. MaxTime
           /\ usedShards' \in [Flows -> SUBSET Shards]
           /\ usedShards'[f] = usedShards[f] \cup {s}
           /\ \A g \in Flows : g # f => usedShards'[g] = usedShards[g]
  BY DEF TypeOK, InTime, Deliver

\* A whole packet keeps the routing invariant.
LEMMA WholeInv == ASSUME Inv, NEW f \in Flows, RouteWhole(f) PROVE Inv'
  <1> USE DEF counters
  <1>1. CASE f \in DOMAIN overrides
    <2>1. /\ overrides' = [overrides EXCEPT ![f].at = clock]
          /\ Deliver(f, overrides[f].shard)
          /\ InTime
          /\ UNCHANGED <<routes, counters, idReused>>
      BY <1>1 DEF RouteWhole
    <2>2. overrides[f] \in Override /\ overrides[f].shard \in Shards
      BY <1>1 DEF Inv, TypeOK, Override
    <2>3. /\ DOMAIN overrides' = DOMAIN overrides
          /\ \A g \in DOMAIN overrides' :
                overrides'[g].shard = overrides[g].shard /\ overrides'[g] \in Override
      BY <1>1, <2>1, <2>2 DEF Inv, TypeOK, Override
    <2>4. TypeOK' BY <2>1, <2>2, <2>3, DeliverFacts DEF Inv, TypeOK
    <2>5. FollowsHash'
      BY <1>1, <2>1, <2>2, <2>3, DeliverFacts DEF Inv, FollowsHash
    <2> QED BY <2>4, <2>5 DEF Inv
  <1>2. CASE f \notin DOMAIN overrides
    <2>1. /\ Deliver(f, HashFlow[f])
          /\ InTime
          /\ UNCHANGED <<routes, overrides, counters, idReused>>
      BY <1>2 DEF RouteWhole
    <2>2. HashFlow[f] \in Shards OBVIOUS
    <2>3. TypeOK' BY <2>1, <2>2, DeliverFacts DEF Inv, TypeOK
    <2>4. FollowsHash' BY <2>1, <2>2, DeliverFacts DEF Inv, FollowsHash
    <2> QED BY <2>3, <2>4 DEF Inv
  <1> QED BY <1>1, <1>2

\* A fragment whose first part was seen keeps it.
LEMMA KnownInv ==
    ASSUME Inv, NEW f \in Flows, NEW k \in KeysOf[f], NEW hint \in BOOLEAN,
           RouteKnownFragment(f, k, hint)
    PROVE  Inv'
  <1>1. /\ InTime
        /\ k \in DOMAIN routes
        /\ routes' = [routes EXCEPT ![k].at = clock]
        /\ Deliver(f, routes[k].shard)
        /\ idReused' = (idReused \/ routes[k].flow # f)
        /\ UNCHANGED <<routeEvictions, fallbacks>>
    BY DEF RouteKnownFragment
  <1>2. routes[k] \in Route /\ routes[k].shard \in Shards
    BY <1>1 DEF Inv, TypeOK, Route
  <1>3. /\ DOMAIN routes' = DOMAIN routes
        /\ \A j \in DOMAIN routes' :
              /\ routes'[j].shard = routes[j].shard
              /\ routes'[j].flow = routes[j].flow
              /\ routes'[j] \in Route
    BY <1>1, <1>2 DEF Inv, TypeOK, Route
  <1>4. /\ DOMAIN overrides' \subseteq Flows
        /\ \A g \in DOMAIN overrides' : overrides'[g] \in Override
        /\ \A g \in DOMAIN overrides' :
              \/ g = f /\ overrides'[g].shard = routes[k].shard
              \/ g \in DOMAIN overrides /\ overrides'[g] = overrides[g]
        /\ overrideEvictions' \in Nat
    <2>1. CASE hint
      BY <1>2, <2>1, RememberFacts DEF RouteKnownFragment, Inv
    <2>2. CASE ~hint
      BY <2>2 DEF RouteKnownFragment, Inv, TypeOK
    <2> QED BY <2>1, <2>2
  <1>5. TypeOK'
    <2>1. idReused' \in BOOLEAN BY <1>1 DEF Inv, TypeOK
    <2> QED BY <1>1, <1>2, <1>3, <1>4, <2>1, DeliverFacts DEF Inv, TypeOK
  <1>6. FollowsHash'
    <2> SUFFICES ASSUME fallbacks' = 0, ~idReused'
                 PROVE  /\ \A j \in DOMAIN routes' : routes'[j].shard = HashFlow[routes'[j].flow]
                        /\ \A g \in DOMAIN overrides' : overrides'[g].shard = HashFlow[g]
                        /\ \A g \in Flows : usedShards'[g] \subseteq {HashFlow[g]}
      BY DEF FollowsHash
    <2>1. routes[k].flow = f /\ fallbacks = 0 /\ ~idReused BY <1>1
    <2>2. routes[k].shard = HashFlow[f] BY <1>1, <2>1 DEF Inv, FollowsHash
    <2>3. \A j \in DOMAIN routes' : routes'[j].shard = HashFlow[routes'[j].flow]
      BY <1>3, <2>1 DEF Inv, FollowsHash
    <2>4. \A g \in DOMAIN overrides' : overrides'[g].shard = HashFlow[g]
      BY <1>4, <2>1, <2>2 DEF Inv, FollowsHash
    <2>5. \A g \in Flows : usedShards'[g] \subseteq {HashFlow[g]}
      BY <1>1, <1>2, <2>1, <2>2, DeliverFacts DEF Inv, FollowsHash
    <2> QED BY <2>3, <2>4, <2>5
  <1> QED BY <1>5, <1>6 DEF Inv

\* A fragment of a datagram not seen before keeps it.
LEMMA NewInv ==
    ASSUME Inv, NEW f \in Flows, NEW k \in KeysOf[f], NEW hint \in BOOLEAN,
           RouteNewFragment(f, k, hint)
    PROVE  Inv'
  <1> DEFINE s == FragmentShard(f, k, hint)
             e == [shard |-> s, at |-> clock, flow |-> f]
             rest == WithRoom(routes)
  <1>1. k \in Keys OBVIOUS
  <1>2. s \in Shards BY <1>1 DEF FragmentShard
  <1>3. /\ InTime
        /\ routes' = Put(rest, k, e)
        /\ Deliver(f, s)
        /\ routeEvictions' = routeEvictions + Evictions(routes)
        /\ UNCHANGED idReused
    BY DEF RouteNewFragment
  <1>4. e \in Route BY <1>2 DEF Inv, TypeOK, Route
  <1>5. e.shard = s /\ e.flow = f OBVIOUS
  <1>6. hint => s = HashFlow[f] BY DEF FragmentShard
  <1>7. /\ DOMAIN overrides' \subseteq Flows
        /\ \A g \in DOMAIN overrides' : overrides'[g] \in Override
        /\ \A g \in DOMAIN overrides' :
              \/ g = f /\ overrides'[g].shard = s
              \/ g \in DOMAIN overrides /\ overrides'[g] = overrides[g]
        /\ overrideEvictions' \in Nat
        /\ fallbacks' \in Nat
        /\ hint => fallbacks' = fallbacks
        /\ ~hint => fallbacks' # 0
    <2>1. CASE hint
      <3>1. RememberOverride(f, s) /\ UNCHANGED fallbacks BY <2>1 DEF RouteNewFragment
      <3> QED BY <1>2, <2>1, <3>1, RememberFacts DEF Inv, TypeOK
    <2>2. CASE ~hint
      BY <2>2 DEF RouteNewFragment, Inv, TypeOK
    <2> QED BY <2>1, <2>2
  <1>8. /\ DOMAIN rest \subseteq DOMAIN routes
        /\ \A j \in DOMAIN rest : rest[j] = routes[j]
    BY WithRoomFacts
  <1> HIDE DEF s, e, rest
  <1>9. /\ DOMAIN routes' = DOMAIN rest \cup {k}
        /\ routes'[k] = e
        /\ \A j \in DOMAIN rest : j # k => routes'[j] = rest[j]
    BY <1>3 DEF Put
  <1>10. ASSUME NEW j \in DOMAIN routes'
        PROVE  /\ j \in Keys
               /\ routes'[j] \in Route
               /\ \/ routes'[j] = e
                  \/ j \in DOMAIN routes /\ routes'[j] = routes[j]
    BY <1>1, <1>4, <1>8, <1>9 DEF Inv, TypeOK
  <1>11. TypeOK'
    <2>1. routeEvictions' \in Nat BY <1>3, EvictionsNat DEF Inv, TypeOK
    <2> QED BY <1>2, <1>3, <1>7, <1>10, <2>1, DeliverFacts DEF Inv, TypeOK
  <1>12. FollowsHash'
    <2> SUFFICES ASSUME fallbacks' = 0, ~idReused'
                 PROVE  /\ \A j \in DOMAIN routes' : routes'[j].shard = HashFlow[routes'[j].flow]
                        /\ \A g \in DOMAIN overrides' : overrides'[g].shard = HashFlow[g]
                        /\ \A g \in Flows : usedShards'[g] \subseteq {HashFlow[g]}
      BY DEF FollowsHash
    <2>1. fallbacks = 0 /\ ~idReused /\ s = HashFlow[f] BY <1>3, <1>6, <1>7
    <2>2. \A j \in DOMAIN routes' : routes'[j].shard = HashFlow[routes'[j].flow]
      BY <1>5, <1>10, <2>1 DEF Inv, FollowsHash
    <2>3. \A g \in DOMAIN overrides' : overrides'[g].shard = HashFlow[g]
      BY <1>7, <2>1 DEF Inv, FollowsHash
    <2>4. \A g \in Flows : usedShards'[g] \subseteq {HashFlow[g]}
      BY <1>2, <1>3, <2>1, DeliverFacts DEF Inv, FollowsHash
    <2> QED BY <2>2, <2>3, <2>4
  <1> QED BY <1>11, <1>12 DEF Inv

\* So does every step.
LEMMA StepInv == Inv /\ [Next]_vars => Inv'
  <1> SUFFICES ASSUME Inv, [Next]_vars PROVE Inv' OBVIOUS
  <1>1. ASSUME NEW f \in Flows, RouteWhole(f) PROVE Inv' BY <1>1, WholeInv
  <1>2. ASSUME NEW f \in Flows, NEW k \in KeysOf[f], NEW hint \in BOOLEAN,
               RouteKnownFragment(f, k, hint) \/ RouteNewFragment(f, k, hint)
        PROVE  Inv'
    BY <1>2, KnownInv, NewInv
  <1>3. CASE Pause
    BY <1>3 DEF Pause, InTime, counters, Inv, TypeOK, FollowsHash
  <1>4. CASE Expire
    <2>1. /\ routes' = Unexpired(routes, FragmentIdle)
          /\ overrides' = Unexpired(overrides, FlowIdle)
          /\ UNCHANGED <<clock, routeEvictions, overrideEvictions, fallbacks,
                         usedShards, idReused>>
      BY <1>4 DEF Expire, counters
    <2>2. /\ DOMAIN routes' \subseteq DOMAIN routes
          /\ \A k \in DOMAIN routes' : routes'[k] = routes[k]
          /\ DOMAIN overrides' \subseteq DOMAIN overrides
          /\ \A f \in DOMAIN overrides' : overrides'[f] = overrides[f]
      BY <2>1, UnexpiredFacts
    <2> QED BY <2>1, <2>2 DEF Inv, TypeOK, FollowsHash
  <1>5. CASE UNCHANGED vars
    BY <1>5 DEF vars, counters, Inv, TypeOK, FollowsHash
  <1> QED BY <1>1, <1>2, <1>3, <1>4, <1>5 DEF Next

\* The tables hold shards and flows of the session, with their time stamps.
THEOREM RoutingTypeCorrect == Spec => []TypeOK
  <1>1. Inv => TypeOK BY DEF Inv
  <1> QED BY <1>1, InitInv, StepInv, PTL DEF Spec

\* A flow is split over two workers only after a counted fallback or the reuse
\* of an IP identification whose route was alive.
THEOREM RoutingSplitIsExplained == Spec => []SplitIsExplained
  <1>1. Inv => SplitIsExplained
    <2> SUFFICES ASSUME Inv, NEW f \in Flows, fallbacks = 0, ~idReused
                 PROVE  ~Split(f)
      BY DEF SplitIsExplained, Inv, TypeOK
    <2>1. usedShards[f] \subseteq {HashFlow[f]} BY DEF Inv, FollowsHash
    <2>2. usedShards[f] = {} \/ usedShards[f] = {HashFlow[f]} BY <2>1
    <2>3. Cardinality({}) = 0 /\ Cardinality({HashFlow[f]}) = 1
      BY FS_EmptySet, FS_Singleton
    <2> QED BY <2>2, <2>3 DEF Split
  <1> QED BY <1>1, InitInv, StepInv, PTL DEF Spec
-----------------------------------------------------------------------------
(***************************************************************************)
(* The size of the tables                                                  *)
(***************************************************************************)

\* A table within its limit, and a table whose entries carry time stamps.
Sized(t)   == IsFiniteSet(DOMAIN t) /\ Cardinality(DOMAIN t) <= MaxRoutes
Stamped(t) == \A k \in DOMAIN t : t[k].at \in Nat

\* A table with an entry has a least recently used one.
LEMMA OldestFound ==
    ASSUME NEW t, Stamped(t), DOMAIN t # {}
    PROVE  Oldest(t) \in DOMAIN t
  <1> DEFINE T == {t[k].at : k \in DOMAIN t}
  <1>1. T \subseteq Nat /\ T # {} BY DEF Stamped
  <1>2. PICK m \in T : \A n \in T : m <= n
    <2> HIDE DEF T
    <2> QED BY <1>1, LeastNatural
  <1>3. PICK k \in DOMAIN t : m = t[k].at OBVIOUS
  <1>4. \A j \in DOMAIN t : t[k].at <= t[j].at BY <1>2, <1>3
  <1>5. \E i \in DOMAIN t : \A j \in DOMAIN t : t[i].at <= t[j].at BY <1>4
  <1> QED BY <1>5 DEF Oldest

\* Eviction leaves room for one entry: a full table is not empty, because
\* max_fragment_routes is at least one.
LEMMA RoomMade ==
    ASSUME NEW t, Sized(t), Stamped(t)
    PROVE  /\ IsFiniteSet(DOMAIN WithRoom(t))
           /\ Cardinality(DOMAIN WithRoom(t)) < MaxRoutes
  <1>1. Cardinality(DOMAIN t) \in Nat BY FS_CardinalityType DEF Sized
  <1>2. CASE Full(t)
    <2>1. Cardinality(DOMAIN t) = MaxRoutes BY <1>1, <1>2 DEF Full, Sized
    <2>2. DOMAIN t # {} BY <2>1, FS_EmptySet
    <2>3. Oldest(t) \in DOMAIN t BY <2>2, OldestFound
    <2>4. DOMAIN WithRoom(t) = DOMAIN t \ {Oldest(t)} BY <1>2 DEF WithRoom, Drop
    <2>5. /\ IsFiniteSet(DOMAIN t \ {Oldest(t)})
          /\ Cardinality(DOMAIN t \ {Oldest(t)}) = Cardinality(DOMAIN t) - 1
      BY <2>3, FS_RemoveElement DEF Sized
    <2> QED BY <2>1, <2>4, <2>5
  <1>3. CASE ~Full(t)
    <2>1. WithRoom(t) = t BY <1>3 DEF WithRoom
    <2> QED BY <1>1, <1>3, <2>1 DEF Full, Sized
  <1> QED BY <1>2, <1>3

\* One entry put where there is room leaves a table within its limit.
LEMMA PutSized ==
    ASSUME NEW t, NEW k, NEW e, IsFiniteSet(DOMAIN t), Cardinality(DOMAIN t) < MaxRoutes
    PROVE  Sized(Put(t, k, e))
  <1>1. DOMAIN Put(t, k, e) = DOMAIN t \cup {k} BY DEF Put
  <1>2. Cardinality(DOMAIN t) \in Nat BY FS_CardinalityType
  <1>3. /\ IsFiniteSet(DOMAIN t \cup {k})
        /\ \/ Cardinality(DOMAIN t \cup {k}) = Cardinality(DOMAIN t)
           \/ Cardinality(DOMAIN t \cup {k}) = Cardinality(DOMAIN t) + 1
    BY FS_AddElement
  <1> QED BY <1>1, <1>2, <1>3 DEF Sized

\* A part of a table within its limit is within it.
LEMMA PartSized ==
    ASSUME NEW t, NEW u, Sized(t), DOMAIN u \subseteq DOMAIN t
    PROVE  Sized(u)
  <1>1. /\ IsFiniteSet(DOMAIN u) /\ Cardinality(DOMAIN u) <= Cardinality(DOMAIN t)
    BY FS_Subset DEF Sized
  <1>2. Cardinality(DOMAIN u) \in Nat /\ Cardinality(DOMAIN t) \in Nat
    BY <1>1, FS_CardinalityType DEF Sized
  <1> QED BY <1>1, <1>2 DEF Sized

BoundInv == Inv /\ Sized(routes) /\ Sized(overrides)

\* Remembering an override keeps the table within its size.
LEMMA RememberSized ==
    ASSUME BoundInv, NEW f \in Flows, NEW s \in Shards, RememberOverride(f, s)
    PROVE  Sized(overrides')
  <1> DEFINE others == Drop(overrides, f)
             rest == WithRoom(others)
  <1>1. /\ DOMAIN others \subseteq DOMAIN overrides
        /\ \A g \in DOMAIN others : others[g] = overrides[g]
    BY DEF Drop
  <1>2. overrides' = Put(rest, f, [shard |-> s, at |-> clock]) BY DEF RememberOverride
  <1>3. \A g \in DOMAIN overrides : overrides[g].at \in Nat
    BY DEF BoundInv, Inv, TypeOK, Override
  <1> HIDE DEF others
  <1>4. Sized(others) /\ Stamped(others)
    BY <1>1, <1>3, PartSized DEF BoundInv, Stamped
  <1>5. IsFiniteSet(DOMAIN rest) /\ Cardinality(DOMAIN rest) < MaxRoutes
    BY <1>4, RoomMade
  <1> HIDE DEF rest
  <1> QED BY <1>2, <1>5, PutSized

\* The tables start within their sizes.
LEMMA InitBound == Init => BoundInv
  <1> SUFFICES ASSUME Init PROVE BoundInv OBVIOUS
  <1>1. DOMAIN routes = {} /\ DOMAIN overrides = {} BY DEF Init
  <1>2. Sized(routes) /\ Sized(overrides) BY <1>1, FS_EmptySet DEF Sized
  <1> QED BY <1>2, InitInv DEF BoundInv

\* Every step keeps the tables within their sizes.
LEMMA StepBound == BoundInv /\ [Next]_vars => BoundInv'
  <1> SUFFICES ASSUME BoundInv, [Next]_vars PROVE BoundInv' OBVIOUS
  <1>1. Inv' BY StepInv DEF BoundInv
  <1> SUFFICES Sized(routes') /\ Sized(overrides') BY <1>1 DEF BoundInv, Sized
  <1>2. ASSUME NEW f \in Flows, RouteWhole(f)
        PROVE  Sized(routes') /\ Sized(overrides')
    <2>1. routes' = routes /\ DOMAIN overrides' = DOMAIN overrides
      BY <1>2 DEF RouteWhole
    <2> QED BY <2>1 DEF BoundInv, Sized
  <1>3. ASSUME NEW f \in Flows, NEW k \in KeysOf[f], NEW hint \in BOOLEAN,
               RouteKnownFragment(f, k, hint)
        PROVE  Sized(routes') /\ Sized(overrides')
    <2>1. DOMAIN routes' = DOMAIN routes /\ k \in DOMAIN routes
      BY <1>3 DEF RouteKnownFragment
    <2>2. CASE hint
      <3>1. routes[k].shard \in Shards BY <2>1 DEF BoundInv, Inv, TypeOK, Route
      <3>2. RememberOverride(f, routes[k].shard) BY <1>3, <2>2 DEF RouteKnownFragment
      <3> QED BY <2>1, <3>1, <3>2, RememberSized DEF BoundInv, Sized
    <2>3. CASE ~hint
      <3>1. overrides' = overrides BY <1>3, <2>3 DEF RouteKnownFragment
      <3> QED BY <2>1, <3>1 DEF BoundInv, Sized
    <2> QED BY <2>2, <2>3
  <1>4. ASSUME NEW f \in Flows, NEW k \in KeysOf[f], NEW hint \in BOOLEAN,
               RouteNewFragment(f, k, hint)
        PROVE  Sized(routes') /\ Sized(overrides')
    <2> DEFINE s == FragmentShard(f, k, hint)
               e == [shard |-> s, at |-> clock, flow |-> f]
               rest == WithRoom(routes)
    <2>1. k \in Keys OBVIOUS
    <2>2. s \in Shards BY <2>1 DEF FragmentShard
    <2>3. routes' = Put(rest, k, e) BY <1>4 DEF RouteNewFragment
    <2>4. Stamped(routes) BY DEF BoundInv, Inv, TypeOK, Route, Stamped
    <2>5. IsFiniteSet(DOMAIN rest) /\ Cardinality(DOMAIN rest) < MaxRoutes
      BY <2>4, RoomMade DEF BoundInv
    <2>6. Sized(overrides')
      <3>1. CASE hint
        <4>1. RememberOverride(f, s) BY <1>4, <3>1 DEF RouteNewFragment
        <4> QED BY <2>2, <4>1, RememberSized
      <3>2. CASE ~hint BY <1>4, <3>2 DEF RouteNewFragment, BoundInv, Sized
      <3> QED BY <3>1, <3>2
    <2> HIDE DEF rest, e
    <2>7. Sized(routes') BY <2>3, <2>5, PutSized
    <2> QED BY <2>6, <2>7
  <1>5. CASE Pause BY <1>5 DEF Pause, BoundInv, Sized
  <1>6. CASE Expire
    <2>1. /\ routes' = Unexpired(routes, FragmentIdle)
          /\ overrides' = Unexpired(overrides, FlowIdle)
      BY <1>6 DEF Expire
    <2>2. DOMAIN routes' \subseteq DOMAIN routes /\ DOMAIN overrides' \subseteq DOMAIN overrides
      BY <2>1, UnexpiredFacts
    <2> QED BY <2>2, PartSized DEF BoundInv
  <1>7. CASE UNCHANGED vars BY <1>7 DEF vars, BoundInv, Sized
  <1> QED BY <1>2, <1>3, <1>4, <1>5, <1>6, <1>7 DEF Next

\* The dispatcher's two tables never hold more than max_fragment_routes entries,
\* whatever arrives between two heartbeats.
THEOREM RoutingTablesBounded == Spec => []TablesBounded
  <1>1. BoundInv => TablesBounded BY DEF BoundInv, Sized, TablesBounded
  <1> QED BY <1>1, InitBound, StepBound, PTL DEF Spec
==============================================================================
