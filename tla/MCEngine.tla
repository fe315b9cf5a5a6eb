------------------------------ MODULE MCEngine ------------------------------
(***************************************************************************)
(* Small instances of the engine.  Bucket 1 has room for one of its two    *)
(* requests: the second overlaps the first, outranks it, fits exactly and  *)
(* evicts it, which turns the release of the first into an orphan; before  *)
(* that, the release gives back more than was taken.  Bucket 2 has one     *)
(* request.                                                                *)
(***************************************************************************)
EXTENDS EngineProperties

CONSTANTS w1, w2, r1, u1, u2

MCBucket == {1, 2}
MCUser == {u1, u2}
MCCapacity == [b \in MCBucket |-> 3]
MCMaxTime == 20

MCReq(id, ts, b, user, priority) ==
  [ id |-> id, clock |-> ts, offset |-> 0, aware |-> TRUE, action |-> "request", bucket |-> b,
    amount |-> 2, carbon |-> 1, user |-> user, priority |-> priority,
    duration |-> 2 ]

MCFirst   == MCReq(1, 0, 1, u1, 5)
\* An hour after MCFirst, by a clock that is ahead of UTC: last in the log.
MCWinner  == [MCReq(2, 4, 1, u2, 8) EXCEPT !.amount = 3, !.offset = 3]
MCRelease == [MCReq(3, 2, 1, u1, 5) EXCEPT !.action = "release", !.amount = 3]
MCOther   == MCReq(4, 0, 2, u1, 5)
\* Another payload under the id of MCFirst, for the other bucket.
MCTwin    == MCReq(1, 1, 2, u2, 5)
\* A timestamp without an offset: bucket 1 cannot be folded with it.
MCNaive   == [MCReq(5, 3, 1, u2, 5) EXCEPT !.aware = FALSE]

MCClean == {MCFirst, MCWinner, MCRelease, MCOther}
MCPair == {MCFirst, MCWinner, MCOther}
MCClash == {MCFirst, MCTwin, MCWinner}
MCTwo == {MCFirst, MCTwin}
MCPoison == {MCFirst, MCWinner, MCRelease, MCNaive, MCOther}
=============================================================================
