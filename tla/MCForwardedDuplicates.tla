------------------------ MODULE MCForwardedDuplicates ------------------------
(* Two datagrams, one with a header checksum that wraps when a hop is taken. *)
EXTENDS ForwardedDuplicates

Ingress(k, h, s) ==
    [whole |-> TRUE, src |-> "peer", dst |-> "local", key |-> k, hop |-> h, sum |-> s]
Egress(k, h, s) ==
    [whole |-> TRUE, src |-> "local", dst |-> "peer", key |-> k, hop |-> h, sum |-> s]

TwoKeys == {"v4", "v6"}
Sizes == [k \in TwoKeys |-> IF k = "v4" THEN 2 ELSE 3]

\* The copy after a hop, the same copy with a checksum that lost the carry, an
\* ingress that the copy fits without a hop, an IPv6 ingress that competes
\* for the cache, and a group frame of the host.
Mixed ==
    {Ingress("v4", 2, 14), Egress("v4", 1, 3), Egress("v4", 1, 2), Ingress("v4", 1, 3),
     Ingress("v6", 2, NoSum), [Egress("v6", 1, NoSum) EXCEPT !.dst = "group"]}
===============================================================================
