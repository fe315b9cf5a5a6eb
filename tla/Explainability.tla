---------------------------- MODULE Explainability ----------------------------
(***************************************************************************)
(* explain_decision of app/services/explainability.py: the checks it tells *)
(* for an audit entry, and the winner it shows beside them.  The checks    *)
(* rank the events of the entry a second time, one key after the other;    *)
(* the resolver sorted them by all keys at once.  Winners are sets of at   *)
(* most one event (None is empty).                                         *)
(***************************************************************************)
EXTENDS ConflictResolver

TopPriority(S) == {e \in S : \A f \in S : f.priority <= e.priority}

Greenest(S) == {e \in S : \A f \in S : e.carbon <= f.carbon}

\* Mutant: the texts of the timestamps are compared.
EarliestText(S) ==
  FirstStarting({e \in S : \A f \in S : ~TextBefore(f, e)})

\* sorted(..., key = timestamp) is stable, and the entry lists its events in
\* the order of (timestamp, event_id).
EarliestStart(S) ==
  FirstStarting({e \in S : \A f \in S : WindowStart(e) <= WindowStart(f)})

\* The winner a check names, if it decides.
Sole(S) == IF Cardinality(S) = 1 THEN S ELSE {}

PriorityWinner(S) == Sole(TopPriority(S))

CarbonWinner(S) ==
  IF PriorityWinner(S) # {} THEN {} ELSE Sole(Greenest(TopPriority(S)))

StartWinner(S) ==
  IF PriorityWinner(S) \cup CarbonWinner(S) # {}
    THEN {}
    ELSE EarliestStart(Greenest(TopPriority(S)))

\* The checks of an entry about an overlap; those of others are skipped.
CheckWinner(entry) ==
  LET S == entry.considered
  IN  IF entry.conflict_type = "overlap_same_region_resource"
        THEN PriorityWinner(S) \cup CarbonWinner(S) \cup StartWinner(S)
        ELSE {}

\* winner_event_id: the first of final_state.accepted, a list in the order of
\* the resolver's ranking.
ShownWinner(entry) ==
  {e \in entry.accepted : \A f \in entry.accepted \ {e} : ResolverBefore(e, f)}

=============================================================================
