--------------------------- MODULE MCTcpReassembly ---------------------------
(* Packet alphabets for TcpReassembly.  SeqModulus is small, so that    *)
(* streams wrap within a few packets.                                       *)
EXTENDS TcpReassembly

Data(f, d, s, n, v) ==
    [flow |-> f, dir |-> d, syn |-> FALSE, ack |-> FALSE, fin |-> FALSE, rst |-> FALSE,
     seq |-> s, ackno |-> 0, len |-> n, val |-> v]

Syn(f, d, s) == [Data(f, d, s, 0, 0) EXCEPT !.syn = TRUE]
Fin(f, d, s) == [Data(f, d, s, 0, 0) EXCEPT !.fin = TRUE]
Rst(f, d, s) == [Data(f, d, s, 0, 0) EXCEPT !.rst = TRUE]
Ack(packet, n) == [packet EXCEPT !.ack = TRUE, !.ackno = n]

\* One direction that starts two bytes below the wrap: overlapping, repeated,
\* reordered and contradicting segments.
Overlapping ==
    {Syn(1, 0, 29)} \cup
    {Data(1, 0, s, n, v) : s \in {30, 31, 0, 1, 3}, n \in {1, 3}, v \in {1, 2}}

\* One connection from handshake to close, both directions, its port reused.
Lifecycle ==
    {Syn(1, 0, 6), Ack(Syn(1, 1, 3), 7),
     Data(1, 0, 7, 2, 1), Data(1, 0, 2, 1, 2), Ack(Data(1, 0, 0, 1, 3), 4),
     Ack(Data(1, 1, 7, 2, 4), 1), [Data(1, 1, 4, 1, 5) EXCEPT !.fin = TRUE],
     Fin(1, 0, 1), Rst(1, 1, 6)}

\* The same connection beside a second flow that leaves a gap, and a third one:
\* more flows and queued bytes than the limits allow.
Crowded == Lifecycle \cup {Data(2, 0, 0, 1, 1), Data(2, 0, 2, 2, 1), Data(3, 0, 0, 1, 1)}
==============================================================================
