----------------------------- MODULE FlowRouting -----------------------------
(***************************************************************************)
(* How the dispatcher picks a worker for a packet (supervisor.py, _route). *)
(*                                                                         *)
(* An unfragmented packet goes to the worker its flow hashes to.  A        *)
(* fragment shows its ports only when it is the first one, so fragments    *)
(* are kept together by a table of fragment routes, keyed by addresses,    *)
(* protocol and IP identification, and the flow of a fragmented datagram   *)
(* is sent after its fragments by a table of flow overrides.  Both tables  *)
(* are least-recently-used caches of max_fragment_routes entries, expired  *)
(* at the heartbeat.                                                       *)
(*                                                                         *)
(* Flows and fragment keys are model values and the stable hash is a       *)
(* constant function.  Every packet is routed at a clock value of its own, *)
(* so the order of a table is the order of its time stamps.                *)
(***************************************************************************)
EXTENDS Integers, FiniteSets

CONSTANTS
    Flows,         \* canonical flow keys
    Keys,          \* fragment route keys
    KeysOf,        \* the keys the fragments of a flow can have
    Shards,        \* worker numbers
    HashFlow,      \* _stable_shard of a flow key
    HashKey,       \* _stable_shard of a fragment route key
    MaxRoutes,     \* config.max_fragment_routes
    FragmentIdle,  \* config.fragment_idle_seconds
    FlowIdle,      \* config.flow_idle_seconds
    MaxTime        \* bound: clock values in a behaviour

ASSUME FlowRoutingAssumption ==
    /\ KeysOf \in [Flows -> SUBSET Keys]
    /\ HashFlow \in [Flows -> Shards]
    /\ HashKey \in [Keys -> Shards]
    /\ MaxRoutes \in Nat \ {0}
    /\ FragmentIdle \in Nat
    /\ FlowIdle \in Nat
    /\ MaxTime \in Nat

VARIABLES
    clock,              \* time.monotonic()
    routes,             \* fragment_routes: key -> shard, last use and (history) flow
    overrides,          \* flow_route_overrides: flow -> shard and last use
    routeEvictions,     \* fragment_route_evictions
    overrideEvictions,  \* flow_route_override_evictions
    fallbacks,          \* fragment_route_fallbacks
    usedShards,         \* history: the workers that got packets of a flow
    idReused            \* history: a flow met the live route of another flow

counters == <<routeEvictions, overrideEvictions, fallbacks>>
vars == <<clock, routes, overrides, counters, usedShards, idReused>>

Route    == [shard : Shards, at : Nat, flow : Flows]
Override == [shard : Shards, at : Nat]

Init ==
    /\ clock = 0
    /\ routes = [k \in {} |-> 0]
    /\ overrides = [f \in {} |-> 0]
    /\ routeEvictions = 0
    /\ overrideEvictions = 0
    /\ fallbacks = 0
    /\ usedShards = [f \in Flows |-> {}]
    /\ idReused = FALSE
-----------------------------------------------------------------------------
(***************************************************************************)
(* A table as the dictionary the code uses: a function with a small domain *)
(***************************************************************************)

Put(table, key, entry) ==
    [k \in DOMAIN table \cup {key} |-> IF k = key THEN entry ELSE table[k]]

Drop(table, key) == [k \in DOMAIN table \ {key} |-> table[k]]

Full(table) == Cardinality(DOMAIN table) >= MaxRoutes

\* next(iter(table)): entries are re-inserted on use, so the first one is the
\* least recently used.
Oldest(table) ==
    CHOOSE k \in DOMAIN table : \A j \in DOMAIN table : table[k].at <= table[j].at

\* Mutant: a new entry is added to a full table.
WithoutEviction(table) == table

\* Make room for a key that is not in the table.
WithRoom(table) == IF Full(table) THEN Drop(table, Oldest(table)) ELSE table

Evictions(table) == IF Full(table) THEN 1 ELSE 0

Unexpired(table, idle) ==
    [k \in {j \in DOMAIN table : table[j].at >= clock - idle} |-> table[k]]
-----------------------------------------------------------------------------
\* _remember_flow_override
RememberOverride(f, shard) ==
    LET others == Drop(overrides, f)
    IN  /\ overrides' = Put(WithRoom(others), f, [shard |-> shard, at |-> clock])
        /\ overrideEvictions' = overrideEvictions + Evictions(others)

Deliver(f, shard) ==
    /\ usedShards' = [usedShards EXCEPT ![f] = @ \cup {shard}]
    /\ clock' = clock + 1

InTime == clock < MaxTime

\* A packet that is not a fragment.
RouteWhole(f) ==
    /\ InTime
    /\ IF f \in DOMAIN overrides
         THEN /\ overrides' = [overrides EXCEPT ![f].at = clock]
              /\ Deliver(f, overrides[f].shard)
         ELSE /\ Deliver(f, HashFlow[f])
              /\ UNCHANGED overrides
    /\ UNCHANGED <<routes, counters, idReused>>

\* A fragment of flow f whose key has a route.  Only a first fragment of TCP or
\* UDP with at least four bytes tells its flow (hint).
RouteKnownFragment(f, k, hint) ==
    /\ InTime
    /\ k \in DOMAIN routes
    /\ routes' = [routes EXCEPT ![k].at = clock]
    /\ IF hint THEN RememberOverride(f, routes[k].shard)
               ELSE UNCHANGED <<overrides, overrideEvictions>>
    /\ Deliver(f, routes[k].shard)
    /\ idReused' = (idReused \/ routes[k].flow # f)
    /\ UNCHANGED <<routeEvictions, fallbacks>>

\* The first fragment follows its flow's hash, any other one a hash of the key.
FragmentShard(f, k, hint) == IF hint THEN HashFlow[f] ELSE HashKey[k]

\* Mutant: a tail without a route is not counted as a fallback.
RouteNewFragmentUncounted(f, k, hint) ==
    LET shard == FragmentShard(f, k, hint)
    IN  /\ InTime
        /\ k \notin DOMAIN routes
        /\ IF hint THEN RememberOverride(f, shard)
                   ELSE UNCHANGED <<overrides, overrideEvictions>>
        /\ routeEvictions' = routeEvictions + Evictions(routes)
        /\ routes' = Put(WithRoom(routes), k, [shard |-> shard, at |-> clock, flow |-> f])
        /\ Deliver(f, shard)
        /\ UNCHANGED <<fallbacks, idReused>>

\* A fragment without a route; routing it without a hint is counted.
RouteNewFragment(f, k, hint) ==
    LET shard == FragmentShard(f, k, hint)
    IN  /\ InTime
        /\ k \notin DOMAIN routes
        /\ IF hint
             THEN /\ RememberOverride(f, shard)
                  /\ UNCHANGED fallbacks
             ELSE /\ fallbacks' = fallbacks + 1
                  /\ UNCHANGED <<overrides, overrideEvictions>>
        /\ routeEvictions' = routeEvictions + Evictions(routes)
        /\ routes' = Put(WithRoom(routes), k, [shard |-> shard, at |-> clock, flow |-> f])
        /\ Deliver(f, shard)
        /\ UNCHANGED idReused

\* Nothing arrives.
Pause ==
    /\ InTime
    /\ clock' = clock + 1
    /\ UNCHANGED <<routes, overrides, counters, usedShards, idReused>>

\* _expire_fragment_routes, at the heartbeat of the capture loop.
Expire ==
    /\ routes' = Unexpired(routes, FragmentIdle)
    /\ overrides' = Unexpired(overrides, FlowIdle)
    /\ UNCHANGED <<clock, counters, usedShards, idReused>>

Next ==
    \/ \E f \in Flows :
          \/ RouteWhole(f)
          \/ \E k \in KeysOf[f], hint \in BOOLEAN :
                RouteKnownFragment(f, k, hint) \/ RouteNewFragment(f, k, hint)
    \/ Pause
    \/ Expire

Spec == Init /\ [][Next]_vars
-----------------------------------------------------------------------------
(***************************************************************************)
(* Properties                                                              *)
(***************************************************************************)

\* Every variable has its type: table entries name workers of the session.
TypeOK ==
    /\ clock \in 0 .. MaxTime
    /\ DOMAIN routes \subseteq Keys
    /\ \A k \in DOMAIN routes : routes[k] \in Route
    /\ DOMAIN overrides \subseteq Flows
    /\ \A f \in DOMAIN overrides : overrides[f] \in Override
    /\ routeEvictions \in Nat
    /\ overrideEvictions \in Nat
    /\ fallbacks \in Nat
    /\ usedShards \in [Flows -> SUBSET Shards]
    /\ idReused \in BOOLEAN

\* "Fragment affinity is bounded": neither table outgrows its limit.
TablesBounded ==
    /\ Cardinality(DOMAIN routes) <= MaxRoutes
    /\ Cardinality(DOMAIN overrides) <= MaxRoutes

Split(f) == Cardinality(usedShards[f]) > 1

\* A flow leaves the worker it hashes to only after a fragment was routed blind
\* (counted as a fallback) or an IP identification was used again while its
\* route was alive.  Evictions and expiry alone never move a flow.
SplitIsExplained == \A f \in Flows : Split(f) => fallbacks > 0 \/ idReused

=============================================================================
