------------------------------ MODULE FoldLoop ------------------------------
(***************************************************************************)
(* The loops behind ConflictResolver: the sweep of find_overlapping_groups,*)
(* the group loop of _fold_bucket around the greedy loop of                *)
(* resolve_conflicts, and the release loop, one iteration a step, for one  *)
(* bucket whose three queries see the same log.                            *)
(***************************************************************************)
EXTENDS ConflictResolver

VARIABLES
  pc,         \* the loop that runs
  bucket,     \* the bucket that is folded
  reqs,       \* request_events
  rels,       \* release_events
  todo,       \* the events the running loop has not visited
  current,    \* current_group of the sweep
  maxEnd,     \* current_max_end
  groups,     \* the groups flushed and not yet resolved
  group,      \* the group in resolve_conflicts
  available,  \* available_capacity
  running,    \* running_total
  accepted,   \* new_accepted
  rejected,   \* new_rejected
  released,   \* the releases counted in total_released
  entries,    \* the audit entries written
  row         \* the ResourceBucket returned

loopVars ==
  <<pc, bucket, reqs, rels, todo, current, maxEnd, groups, group, available,
    running, accepted, rejected, released, entries, row>>

input == <<bucket, reqs, rels>>
sweep == <<current, maxEnd, groups>>
greedy == <<group, available, running>>
decided == <<accepted, rejected>>
result == <<released, entries, row>>

\* The logs the fold gets through: one payload for an id, and requests whose
\* timestamps can be compared and whose windows end in time.
IsInput(log, b) ==
  /\ IsFiniteSet(log)
  /\ \A e, f \in log : e.id = f.id => e = f
  /\ Foldable(RequestsOf(log, b))

Init ==
  /\ \E log \in SUBSET Event, b \in Bucket :
       /\ IsInput(log, b)
       /\ bucket = b
       /\ reqs = RequestsOf(log, b)
       /\ rels = ReleasesOf(log, b)
  /\ pc = "sweep"
  /\ todo = reqs
  /\ current = {} /\ maxEnd = 0 /\ groups = {}
  /\ group = {} /\ available = 0 /\ running = 0
  /\ accepted = {} /\ rejected = {}
  /\ released = {} /\ entries = {} /\ row = NoRow

-----------------------------------------------------------------------------
(* find_overlapping_groups                                                 *)

\* Mutant: the order of the query is kept.
InQueryOrder(S) == Earliest(S)

\* The requests are sorted again, by instant.
NextToSweep(S) == FirstStarting(S)

\* e starts before the current group has ended.
Joins(e) == current # {} /\ WindowStart(e) < maxEnd

LongestEnd(m, n) == IF m < n THEN n ELSE m

\* The first event of all opens the first group; another one joins the
\* current group or flushes it and opens the next.
Sweep ==
  /\ pc = "sweep"
  /\ \E e \in NextToSweep(todo) :
       /\ todo' = todo \ {e}
       /\ IF Joins(e)
            THEN /\ current' = current \cup {e}
                 /\ maxEnd' = LongestEnd(maxEnd, WindowEnd(e))
                 /\ groups' = groups
            ELSE /\ current' = {e}
                 /\ maxEnd' = WindowEnd(e)
                 /\ groups' = groups \cup ({current} \ {{}})
  /\ UNCHANGED <<pc, input, greedy, decided, result>>

\* Mutant: the last group is not flushed after the loop.
EndSweepUnflushed ==
  /\ pc = "sweep"
  /\ todo = {}
  /\ current' = {} /\ maxEnd' = 0
  /\ pc' = "groups"
  /\ UNCHANGED <<input, todo, groups, greedy, decided, result>>

EndSweep ==
  /\ pc = "sweep"
  /\ todo = {}
  /\ groups' = groups \cup ({current} \ {{}})
  /\ current' = {} /\ maxEnd' = 0
  /\ pc' = "groups"
  /\ UNCHANGED <<input, todo, greedy, decided, result>>

-----------------------------------------------------------------------------
(* The group loop of _fold_bucket and resolve_conflicts                    *)

FirstGroup ==
  {g \in groups :
     \A h \in groups \ {g} : \A e \in g, f \in h : StartsBefore(e, f)}

NextGroup ==
  /\ pc = "groups"
  /\ \E g \in FirstGroup :
       /\ groups' = groups \ {g}
       /\ group' = g
       /\ todo' = g
  /\ available' = Capacity[bucket] - Total(accepted)
  /\ running' = 0
  /\ pc' = "resolve"
  /\ UNCHANGED <<input, current, maxEnd, decided, result>>

\* Mutant: the resolver keeps the order of the sweep.
FirstCome(S) == FirstStarting(S)

TopRanked(S) == {e \in S : \A f \in S \ {e} : ResolverBefore(e, f)}

\* Mutant: the running total is not compared, the single amount is.
FitsAlone(e) == e.amount <= available

\* Mutant: a request may not use the last unit.
FitsStrictly(e) == running + e.amount < available

FitsRunning(e) == running + e.amount <= available

Decide ==
  /\ pc = "resolve"
  /\ \E e \in TopRanked(todo) :
       /\ todo' = todo \ {e}
       /\ IF FitsRunning(e)
            THEN /\ accepted' = accepted \cup {e}
                 /\ running' = running + e.amount
                 /\ rejected' = rejected
            ELSE /\ rejected' = rejected \cup {e}
                 /\ UNCHANGED <<accepted, running>>
  /\ UNCHANGED <<pc, input, sweep, group, available, result>>

\* A group with a rejection leaves an audit entry.
EndGroup ==
  /\ pc = "resolve"
  /\ todo = {}
  /\ entries' = entries \cup
       {ConflictEntry(group, accepted) : e \in group \cap rejected}
  /\ group' = {} /\ available' = 0 /\ running' = 0
  /\ pc' = "groups"
  /\ UNCHANGED <<input, todo, sweep, decided, released, row>>

EndGroups ==
  /\ pc = "groups"
  /\ groups = {}
  /\ todo' = rels
  /\ pc' = "releases"
  /\ UNCHANGED <<input, sweep, greedy, decided, result>>

-----------------------------------------------------------------------------
(* The release loop and the row                                            *)

Release ==
  /\ pc = "releases"
  /\ \E rel \in Earliest(todo) :
       /\ todo' = todo \ {rel}
       /\ IF IsOrphanRelease(rel, accepted)
            THEN entries' = entries \cup {OrphanEntry(rel)} /\ released' = released
            ELSE released' = released \cup {rel} /\ entries' = entries
  /\ UNCHANGED <<pc, input, sweep, greedy, decided, row>>

Return ==
  /\ pc = "releases"
  /\ todo = {}
  /\ row' = [ allocated |-> NonNegative(Total(accepted) - Total(released)),
              carbon    |-> TotalCarbon(accepted),
              version   |-> Cardinality(reqs \cup rels),
              last      |-> Latest(reqs \cup rels) ]
  /\ pc' = "done"
  /\ UNCHANGED <<input, todo, sweep, greedy, decided, released, entries>>

Finished == pc = "done" /\ UNCHANGED loopVars

Next ==
  \/ Sweep \/ EndSweep
  \/ NextGroup \/ Decide \/ EndGroup \/ EndGroups
  \/ Release \/ Return
  \/ Finished

Spec == Init /\ [][Next]_loopVars
=============================================================================
