------------------------------ MODULE TimeTravel ------------------------------
(***************************************************************************)
(* get_state_at_timestamp of app/services/state_reconstructor.py, and the  *)
(* time range that the dashboard's slider takes from GET /events/timerange.*)
(* The first filters the log by instant and rebuilds in a private database *)
(* in memory, so its answer is a function of the log; the second compares  *)
(* the texts of the timestamps.                                            *)
(***************************************************************************)
EXTENDS ConflictResolver

\* astimezone(utc) fails outside of what datetime represents; a timestamp
\* without an offset is taken for UTC as it is.
Convertible(e) == WindowStart(e) \in 0 .. MaxTime

\* Mutant: the event at the target is left out.
StrictlyBefore(e, target) == WindowStart(e) < target

NotAfter(e, target) == WindowStart(e) <= target

Until(log, target) == {e \in log : NotAfter(e, target)}

\* Every event of the log is converted, those after the target too; only the
\* others are folded.
CanTravel(log, target) ==
  /\ \A e \in log : Convertible(e)
  /\ \A b \in Bucket : Foldable(RequestsOf(Until(log, target), b))

StateAt(log, target) == Projection(Until(log, target))

-----------------------------------------------------------------------------
(* SELECT MIN(timestamp), MAX(timestamp): the events that carry them.      *)

MinTimestamp(log) == {e \in log : \A f \in log : ~TextBefore(f, e)}

MaxTimestamp(log) == {e \in log : \A f \in log : ~TextBefore(e, f)}

=============================================================================
