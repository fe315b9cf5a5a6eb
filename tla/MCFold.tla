------------------------------- MODULE MCFold -------------------------------
(***************************************************************************)
(* Every log over ten events of one bucket with capacity 5: windows that   *)
(* touch, overlap in a chain and bridge two groups, ties at each level of  *)
(* the ranking, an exact fit, a request larger than the capacity, UTC      *)
(* offsets that put requests elsewhere in the log than in time, and        *)
(* releases that match, exceed or miss the accepted requests.              *)
(***************************************************************************)
EXTENDS FoldProperties

CONSTANTS u1, u2

MCBucket == {1}
MCUser == {u1, u2}
MCCapacity == [b \in MCBucket |-> 5]
MCMaxTime == 20

Req(id, ts, duration, amount, priority, carbon, user) ==
  [ id |-> id, clock |-> ts, offset |-> 0, aware |-> TRUE, action |-> "request", bucket |-> 1,
    amount |-> amount, carbon |-> carbon, user |-> user,
    priority |-> priority, duration |-> duration ]

Rel(id, ts, amount, user) ==
  [Req(id, ts, 1, amount, 5, 1, user) EXCEPT !.action = "release"]

\* The same instant on a clock that is h hours ahead of UTC.
Ahead(h, e) == [e EXCEPT !.clock = @ + h, !.offset = h]

MCEvent ==
  { Ahead(5, Req(1, 0, 2, 2, 5, 1, u1)),  \* the first in time, late in the log
    Req(2, 1, 2, 3, 5, 0, u2),   \* greener than 1, which it overlaps
    Req(3, 3, 1, 1, 9, 1, u1),   \* touches 2
    Ahead(-2, Req(4, 3, 2, 2, 5, 1, u2)),  \* as 3, outranked by it
    Req(5, 2, 3, 6, 10, 1, u1),  \* bridges 2 and 3, and never fits
    Ahead(-4, Req(6, 4, 2, 3, 5, 1, u1)),  \* later than 4, before it in the log
    Req(7, 8, 1, 4, 10, 1, u2),  \* a group of its own, after the others
    Rel(8, 1, 1, u1),
    Rel(9, 5, 4, u2),
    Rel(10, 0, 2, u1) }
=============================================================================
