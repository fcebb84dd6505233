------------------------- MODULE MCFragmentReassembly -------------------------
(* Fragments of three datagrams, in blocks of two bytes. *)
EXTENDS FragmentReassembly

Middle(k, off, len, v) ==
    [key |-> k, off |-> off, len |-> len, more |-> TRUE, truncated |-> FALSE, val |-> v]
Final(k, off, len, v) == [Middle(k, off, len, v) EXCEPT !.more = FALSE]

\* The first datagram is cut in several ways: overlaps, a contradiction, two
\* ends, a truncated and two malformed fragments.  The others compete for room.
Mixed ==
    {Middle(1, 0, 2, 1), Middle(1, 0, 4, 1), Middle(1, 2, 2, 2), Middle(1, 2, 6, 2),
     Final(1, 4, 1, 1), Final(1, 2, 1, 1), [Final(1, 4, 1, 1) EXCEPT !.truncated = TRUE],
     Middle(1, 0, 1, 1), Final(1, 8, 2, 1),
     Middle(2, 0, 2, 1), Middle(2, 4, 2, 1), Final(2, 8, 1, 1), Final(3, 2, 1, 1), Final(3, 2, 0, 1)}
==============================================================================
