------------------------------- MODULE MCPower -------------------------------
(***************************************************************************)
(* A small instance of the engine that loses power.                        *)
(***************************************************************************)
EXTENDS PowerLoss, MCEngine

\* Its window ends after the last date that datetime represents.
MCLong == [MCOther EXCEPT !.duration = 30]

\* The retried event, a twin of it with the same id and another amount, the
\* event that outranks it, and the long one.
MCPowerEvent == {MCFirst, MCTwin, MCWinner, MCLong}
=============================================================================
