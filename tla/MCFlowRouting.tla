---------------------------- MODULE MCFlowRouting ----------------------------
(* Two flows between the same hosts that hash to different workers, and two *)
(* IP identifications; each key hashes away from one of the flows.          *)
EXTENDS FlowRouting, TLC

CONSTANTS f1, f2, k1, k2

TwoKeysEach == (f1 :> {k1, k2}) @@ (f2 :> {k1, k2})
HashTwoFlows == (f1 :> 0) @@ (f2 :> 1)
HashTwoKeys == (k1 :> 1) @@ (k2 :> 0)
==============================================================================
