------------------------------- MODULE MCChaos -------------------------------
(***************************************************************************)
(* A small instance of the chaos lab.  The rivals are in conflict in       *)
(* bucket 1; a late event of the bucket that meets none of them makes the  *)
(* fold record that conflict again.  A client may post a timestamp without *)
(* an offset there: the next event of a run is stored and then fails.      *)
(***************************************************************************)
EXTENDS ChaosLab, MCEngine

MCBaseline == {MCOther}
MCLate == {[MCFirst EXCEPT !.id = 7, !.clock = 6, !.amount = 1], [MCOther EXCEPT !.id = 8, !.clock = 1]}
MCRivals == {MCReq(id, 0, 1, u1, 5) : id \in 9 .. 11}
MCChaosEvent == MCBaseline \cup MCLate \cup MCRivals \cup {MCNaive}

MCLoad(n, d, l, c) == [events |-> n, duplicates |-> d, late |-> l, conflicts |-> c]
MCLoads == {MCLoad(1, 1, 1, 1), MCLoad(1, -1, 0, 0), MCLoad(0, 0, 1, 0)}

MCGenerated ==
  [phase \in {"baseline", "late", "rivals"} |->
     CASE phase = "baseline" -> MCBaseline
       [] phase = "late" -> MCLate
       [] phase = "rivals" -> MCRivals]

MCClientEvent == {MCNaive}
=============================================================================
