------------------------------- MODULE MCReplay -------------------------------
(***************************************************************************)
(* Small instances of the replay tool beside a worker.                     *)
(***************************************************************************)
EXTENDS ReplayTool, MCEngine

\* It never fits: it is stored and audited, and changes no amount.
MCTooLarge == [MCFirst EXCEPT !.id = 6, !.amount = 4, !.user = u2]

MCUnfit == {MCFirst, MCTooLarge}
=============================================================================
