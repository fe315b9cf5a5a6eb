------------------------------ MODULE FoldProofs ------------------------------
(***************************************************************************)
(* The hard cap of the group loop, the clusters of the sweep and what the  *)
(* loops compute, for every log, capacity and order of ranking.            *)
(*                                                                         *)
(* The group loop compares running_total with what the groups before       *)
(* left, so the cap rests on the groups being disjoint: a request accepted *)
(* twice would be counted once in the total and twice in the comparison.   *)
(***************************************************************************)
EXTENDS FoldProperties, ResolverProofs

\* No event is in two places that the loops still take events from.
Disjoint ==
  /\ \A g, h \in groups : g # h => g \cap h = {}
  /\ \A g \in groups : g \cap (accepted \cup current \cup group) = {}
  /\ pc = "sweep" =>
       /\ accepted = {} /\ group = {}
       /\ todo \subseteq reqs
       /\ todo \cap current = {}
       /\ \A g \in groups : g \cap todo = {}
  /\ pc = "groups" => group = {} /\ current = {}
  /\ pc = "resolve" =>
       /\ todo \subseteq group
       /\ todo \cap accepted = {}
       /\ current = {}
  /\ pc = "releases" => todo \subseteq rels

\* What the running group may still take, and the cap.
Budget ==
  /\ Total(accepted) <= Capacity[bucket]
  /\ row.allocated <= Capacity[bucket]
  /\ pc = "resolve" =>
       /\ available <= Capacity[bucket]
       /\ running <= available
       /\ Total(accepted) = (Capacity[bucket] - available) + running

LoopInv == LoopTypeOK /\ Disjoint /\ Budget

LEMMA InputType ==
  ASSUME LoopTypeOK
  PROVE  /\ reqs \in SUBSET Event /\ rels \in SUBSET Event
         /\ accepted \in SUBSET Event /\ IsFiniteSet(accepted)
         /\ released \in SUBSET Event /\ IsFiniteSet(released)
         /\ Total(accepted) \in Nat /\ Total(released) \in Nat
         /\ Capacity[bucket] \in Nat
<1>1. IsFiniteSet(accepted) /\ IsFiniteSet(released)
  BY FS_Subset DEF LoopTypeOK
<1>2. accepted \in SUBSET Event /\ released \in SUBSET Event
  BY DEF LoopTypeOK
<1>3. Total(accepted) \in Nat /\ Total(released) \in Nat
  BY <1>1, <1>2, TotalType
<1>4. QED
  BY <1>1, <1>2, <1>3, CapacityAssumption DEF LoopTypeOK

LEMMA EventType ==
  ASSUME NEW e \in Event
  PROVE  e.amount \in Nat /\ WindowStart(e) \in Int /\ WindowEnd(e) \in Int
  BY EventAssumption DEF EventPayload, UtcOffset, Offset, WindowStart, WindowEnd

LEMMA LoopInit == Init => LoopInv
<1> SUFFICES ASSUME Init PROVE LoopInv
  OBVIOUS
<1>1. PICK log \in SUBSET Event, b \in Bucket :
        /\ IsInput(log, b)
        /\ bucket = b
        /\ reqs = RequestsOf(log, b)
        /\ rels = ReleasesOf(log, b)
  BY DEF Init
<1>2. /\ reqs \subseteq Event /\ IsFiniteSet(reqs)
      /\ rels \subseteq Event /\ IsFiniteSet(rels)
  BY <1>1, EventsOfType DEF IsInput
<1>3. LoopTypeOK
  BY <1>1, <1>2, NoRowType DEF Init, LoopTypeOK
<1>4. Disjoint
  BY DEF Init, Disjoint
<1>5. Budget
  BY <1>1, TotalEmpty, CapacityAssumption DEF Init, Budget, NoRow
<1>6. QED
  BY <1>3, <1>4, <1>5 DEF LoopInv

LEMMA SweepInv ==
  ASSUME LoopInv, Sweep
  PROVE  LoopInv'
<1>1. PICK e \in NextToSweep(todo) :
        /\ todo' = todo \ {e}
        /\ IF Joins(e)
             THEN /\ current' = current \cup {e}
                  /\ maxEnd' = LongestEnd(maxEnd, WindowEnd(e))
                  /\ groups' = groups
             ELSE /\ current' = {e}
                  /\ maxEnd' = WindowEnd(e)
                  /\ groups' = groups \cup ({current} \ {{}})
  BY DEF Sweep
<1>2. /\ e \in todo /\ todo \subseteq reqs /\ e \in Event
      /\ accepted = {} /\ group = {} /\ pc = "sweep"
  BY DEF NextToSweep, FirstStarting, LoopInv, LoopTypeOK, Disjoint, Sweep
<1>3. UNCHANGED <<pc, bucket, reqs, rels, group, available, running, accepted,
                  rejected, released, entries, row>>
  BY DEF Sweep, input, greedy, decided, result
<1>4. LoopTypeOK'
  <2>1. maxEnd' \in Int
    BY <1>1, <1>2, EventType DEF LoopInv, LoopTypeOK, LongestEnd
  <2>2. /\ current' \subseteq reqs /\ groups' \subseteq SUBSET reqs
        /\ todo' \subseteq reqs
    BY <1>1, <1>2 DEF LoopInv, LoopTypeOK
  <2>3. QED
    BY <1>3, <2>1, <2>2 DEF LoopInv, LoopTypeOK
<1>5. Disjoint'
  <2>1. CASE Joins(e)
    BY <1>1, <1>2, <1>3, <2>1 DEF LoopInv, Disjoint
  <2>2. CASE ~Joins(e)
    BY <1>1, <1>2, <1>3, <2>2 DEF LoopInv, Disjoint
  <2>3. QED
    BY <2>1, <2>2
<1>6. Budget'
  BY <1>2, <1>3 DEF LoopInv, Budget
<1>7. QED
  BY <1>4, <1>5, <1>6 DEF LoopInv

LEMMA EndSweepInv ==
  ASSUME LoopInv, EndSweep
  PROVE  LoopInv'
<1>1. UNCHANGED <<bucket, reqs, rels, todo, group, available, running, accepted,
                  rejected, released, entries, row>>
  BY DEF EndSweep, input, greedy, decided, result
<1>2. LoopTypeOK'
  BY <1>1 DEF LoopInv, LoopTypeOK, EndSweep
<1>3. Disjoint'
  BY <1>1 DEF LoopInv, Disjoint, EndSweep
<1>4. Budget'
  BY <1>1 DEF LoopInv, Budget, EndSweep
<1>5. QED
  BY <1>2, <1>3, <1>4 DEF LoopInv

LEMMA NextGroupInv ==
  ASSUME LoopInv, NextGroup
  PROVE  LoopInv'
<1>1. PICK g \in FirstGroup : groups' = groups \ {g} /\ group' = g /\ todo' = g
  BY DEF NextGroup
<1>2. /\ g \in groups /\ g \subseteq reqs
      /\ pc = "groups" /\ group = {} /\ current = {}
  BY DEF FirstGroup, LoopInv, LoopTypeOK, Disjoint, NextGroup
<1>3. UNCHANGED <<bucket, reqs, rels, current, maxEnd, accepted, rejected,
                  released, entries, row>>
  BY DEF NextGroup, input, decided, result
<1>4. /\ available' = Capacity[bucket] - Total(accepted) /\ running' = 0
      /\ pc' = "resolve"
  BY DEF NextGroup
<1>5. available' \in Nat
  BY <1>4, InputType DEF LoopInv, Budget
<1>6. LoopTypeOK'
  BY <1>1, <1>2, <1>3, <1>4, <1>5 DEF LoopInv, LoopTypeOK
<1>7. Disjoint'
  BY <1>1, <1>2, <1>3, <1>4 DEF LoopInv, Disjoint
<1>8. Budget'
  BY <1>3, <1>4, <1>5, InputType DEF LoopInv, Budget
<1>9. QED
  BY <1>6, <1>7, <1>8 DEF LoopInv

LEMMA DecideInv ==
  ASSUME LoopInv, Decide
  PROVE  LoopInv'
<1>1. PICK e \in TopRanked(todo) :
        /\ todo' = todo \ {e}
        /\ IF FitsRunning(e)
             THEN /\ accepted' = accepted \cup {e}
                  /\ running' = running + e.amount
                  /\ rejected' = rejected
             ELSE /\ rejected' = rejected \cup {e}
                  /\ UNCHANGED <<accepted, running>>
  BY DEF Decide
<1>2. /\ pc = "resolve" /\ e \in todo /\ e \in group /\ e \in reqs /\ e \in Event
      /\ e \notin accepted /\ \A g \in groups : e \notin g
  BY DEF TopRanked, LoopInv, LoopTypeOK, Disjoint, Decide
<1>3. UNCHANGED <<pc, bucket, reqs, rels, current, maxEnd, groups, group,
                  available, released, entries, row>>
  BY DEF Decide, input, sweep, result
<1>4. e.amount \in Nat
  BY <1>2, EventType
<1>5. LoopTypeOK'
  <2>1. accepted' \subseteq reqs /\ rejected' \subseteq reqs /\ running' \in Nat
    BY <1>1, <1>2, <1>4 DEF LoopInv, LoopTypeOK
  <2>2. QED
    BY <1>1, <1>3, <2>1 DEF LoopInv, LoopTypeOK
<1>6. Disjoint'
  <2>1. accepted' \subseteq accepted \cup {e}
    BY <1>1
  <2>2. QED
    BY <1>1, <1>2, <1>3, <2>1 DEF LoopInv, Disjoint
<1>7. Budget'
  <2>1. CASE FitsRunning(e)
    <3>1. Total(accepted \cup {e}) = Total(accepted) + e.amount
      BY <1>2, InputType, TotalAdd DEF LoopInv
    <3>2. accepted' = accepted \cup {e} /\ running' = running + e.amount
      BY <1>1, <2>1
    <3>3. /\ running \in Nat /\ available \in Nat /\ Capacity[bucket] \in Nat
          /\ Total(accepted) \in Nat
      BY InputType DEF LoopInv, LoopTypeOK
    <3>4. QED
      BY <1>2, <1>3, <1>4, <2>1, <3>1, <3>2, <3>3
         DEF LoopInv, Budget, FitsRunning
  <2>2. CASE ~FitsRunning(e)
    BY <1>1, <1>3, <2>2 DEF LoopInv, Budget
  <2>3. QED
    BY <2>1, <2>2
<1>8. QED
  BY <1>5, <1>6, <1>7 DEF LoopInv

LEMMA EndGroupInv ==
  ASSUME LoopInv, EndGroup
  PROVE  LoopInv'
<1>1. UNCHANGED <<bucket, reqs, rels, todo, current, maxEnd, groups, accepted,
                  rejected, released, row>>
  BY DEF EndGroup, input, sweep, decided
<1>2. entries' \subseteq AuditEntry
  <2>1. ConflictEntry(group, accepted) \in AuditEntry
    BY DEF LoopInv, LoopTypeOK, ConflictEntry, AuditEntry
  <2>2. QED
    BY <2>1 DEF EndGroup, LoopInv, LoopTypeOK
<1>3. LoopTypeOK'
  BY <1>1, <1>2 DEF LoopInv, LoopTypeOK, EndGroup
<1>4. Disjoint'
  BY <1>1 DEF LoopInv, Disjoint, EndGroup
<1>5. Budget'
  BY <1>1 DEF LoopInv, Budget, EndGroup
<1>6. QED
  BY <1>3, <1>4, <1>5 DEF LoopInv

LEMMA EndGroupsInv ==
  ASSUME LoopInv, EndGroups
  PROVE  LoopInv'
<1>1. UNCHANGED <<bucket, reqs, rels, current, maxEnd, groups, group, available,
                  running, accepted, rejected, released, entries, row>>
  BY DEF EndGroups, input, sweep, greedy, decided, result
<1>2. LoopTypeOK' /\ Disjoint' /\ Budget'
  BY <1>1 DEF LoopInv, LoopTypeOK, Disjoint, Budget, EndGroups
<1>3. QED
  BY <1>2 DEF LoopInv

LEMMA ReleaseInv ==
  ASSUME LoopInv, Release
  PROVE  LoopInv'
<1>1. UNCHANGED <<pc, bucket, reqs, rels, current, maxEnd, groups, group,
                  available, running, accepted, rejected, row>>
  BY DEF Release, input, sweep, greedy, decided
<1>2. PICK rel \in Earliest(todo) :
        /\ todo' = todo \ {rel}
        /\ IF IsOrphanRelease(rel, accepted)
             THEN entries' = entries \cup {OrphanEntry(rel)} /\ released' = released
             ELSE released' = released \cup {rel} /\ entries' = entries
  BY DEF Release
<1>3. /\ pc = "releases" /\ rel \in todo /\ rel \in rels /\ rel \in Event
      /\ todo \subseteq rels
  BY DEF Earliest, LoopInv, LoopTypeOK, Disjoint, Release
<1>4. LoopTypeOK'
  <2>1. OrphanEntry(rel) \in AuditEntry
    BY <1>3 DEF OrphanEntry, AuditEntry
  <2>2. released' \subseteq rels /\ entries' \subseteq AuditEntry
    BY <1>2, <1>3, <2>1 DEF LoopInv, LoopTypeOK
  <2>3. QED
    BY <1>1, <1>2, <2>2 DEF LoopInv, LoopTypeOK
<1>5. Disjoint'
  BY <1>1, <1>2, <1>3 DEF LoopInv, Disjoint
<1>6. Budget'
  BY <1>1, <1>3 DEF LoopInv, Budget
<1>7. QED
  BY <1>4, <1>5, <1>6 DEF LoopInv

LEMMA ReturnInv ==
  ASSUME LoopInv, Return
  PROVE  LoopInv'
<1>1. UNCHANGED <<bucket, reqs, rels, todo, current, maxEnd, groups, group,
                  available, running, accepted, rejected, released, entries>>
  BY DEF Return, input, sweep, greedy, decided
<1>2. /\ pc' = "done"
      /\ row' = [ allocated |-> NonNegative(Total(accepted) - Total(released)),
                  carbon    |-> TotalCarbon(accepted),
                  version   |-> Cardinality(reqs \cup rels),
                  last      |-> Latest(reqs \cup rels) ]
  BY DEF Return
<1>3. /\ Total(accepted) \in Nat /\ Total(released) \in Nat
      /\ Capacity[bucket] \in Nat
  BY InputType DEF LoopInv
<1>4. row' \in Row
  <2>1. TotalCarbon(accepted) \in Nat
    BY InputType, TotalCarbonType DEF LoopInv
  <2>2. Cardinality(reqs \cup rels) \in Nat
    BY FS_Union, FS_CardinalityType DEF LoopInv, LoopTypeOK
  <2>3. Latest(reqs \cup rels) \in SUBSET Event
    BY DEF Latest, LoopInv, LoopTypeOK
  <2>4. NonNegative(Total(accepted) - Total(released)) \in Nat
    BY <1>3 DEF NonNegative
  <2>5. QED
    BY <1>2, <2>1, <2>2, <2>3, <2>4 DEF Row
<1>5. row'.allocated <= Capacity[bucket]
  <2>1. row'.allocated = NonNegative(Total(accepted) - Total(released))
    BY <1>2
  <2>2. Total(accepted) <= Capacity[bucket]
    BY DEF LoopInv, Budget
  <2>3. QED
    BY <1>3, <2>1, <2>2 DEF NonNegative
<1>6. LoopTypeOK'
  BY <1>1, <1>2, <1>4 DEF LoopInv, LoopTypeOK
<1>7. Disjoint'
  BY <1>1, <1>2 DEF LoopInv, Disjoint
<1>8. Budget'
  BY <1>1, <1>2, <1>5 DEF LoopInv, Budget
<1>9. QED
  BY <1>6, <1>7, <1>8 DEF LoopInv

LEMMA LoopNext == LoopInv /\ [Next]_loopVars => LoopInv'
<1> SUFFICES ASSUME LoopInv, [Next]_loopVars PROVE LoopInv'
  OBVIOUS
<1>1. CASE UNCHANGED loopVars
  BY <1>1 DEF LoopInv, LoopTypeOK, Disjoint, Budget, loopVars
<1>2. CASE Next
  <2>1. CASE Finished
    BY <1>1, <2>1 DEF Finished
  <2>2. QED
    BY <1>2, <2>1, SweepInv, EndSweepInv, NextGroupInv, DecideInv, EndGroupInv,
       EndGroupsInv, ReleaseInv, ReturnInv DEF Next
<1>3. QED
  BY <1>1, <1>2

LEMMA LoopInvariant == Spec => []LoopInv
  BY LoopInit, LoopNext, PTL DEF Spec

-----------------------------------------------------------------------------
\* The loops keep their types for every log; in particular the capacity open to
\* a group is never negative, so no group is resolved against a deficit.
THEOREM LoopTypes == Spec => []LoopTypeOK
<1>1. LoopInv => LoopTypeOK
  BY DEF LoopInv
<1>2. QED
  BY LoopInvariant, <1>1, PTL

\* Rule 4 for every log and every capacity: the accepted requests of all groups
\* together never exceed the capacity, and neither does the row.
THEOREM HardCapHolds == Spec => []HardCap
<1>1. LoopInv => HardCap
  BY DEF LoopInv, Budget, HardCap
<1>2. QED
  BY LoopInvariant, <1>1, PTL

-----------------------------------------------------------------------------
(***************************************************************************)
(* The sweep of find_overlapping_groups compares the start of each request *)
(* with the latest end of the current group alone, and never two requests. *)
(* That this finds the clusters of overlap rests on the order of the sweep:*)
(* what is still to come starts no earlier than anything in the group, so  *)
(* the request that ends last overlaps whatever starts before that end.    *)
(***************************************************************************)

\* The sweep: all of the requests are somewhere; the closed groups are over
\* when the rest starts; the current group ends at maxEnd.
Sweeping ==
  /\ reqs = todo \cup current \cup UNION groups
  /\ rejected = {}
  /\ Connected(current)
  /\ \A g \in groups : \A e \in g, f \in todo \cup current : WindowEnd(e) <= WindowStart(f)
  /\ \A e \in current, f \in todo : WindowStart(e) <= WindowStart(f)
  /\ \A e \in current : WindowEnd(e) <= maxEnd
  /\ current # {} => \E e \in current : WindowEnd(e) = maxEnd

\* The group loop: what is not decided is in a group that is still to come.
Deciding ==
  /\ accepted \cap rejected = {}
  /\ \A g \in groups : g \cap rejected = {}
  /\ pc = "groups" => reqs = accepted \cup rejected \cup UNION groups
  /\ pc = "resolve" =>
       /\ reqs = accepted \cup rejected \cup todo \cup UNION groups
       /\ todo \cap rejected = {}
  /\ pc \in {"releases", "done"} => reqs = accepted \cup rejected

ClusterInv ==
  /\ \A g \in groups : Connected(g)
  /\ \A g, h \in groups : g # h => Apart(g, h)
  /\ pc = "sweep" => Sweeping
  /\ Deciding

LEMMA WindowTypes ==
  ASSUME NEW e \in Event
  PROVE  /\ WindowStart(e) \in Int /\ WindowEnd(e) \in Int
         /\ WindowStart(e) < WindowEnd(e)
<1>1. e.duration \in Nat \ {0}
  BY EventAssumption DEF EventPayload
<1>2. QED
  BY <1>1, EventType DEF WindowEnd

LEMMA SingletonConnected ==
  ASSUME NEW e
  PROVE  Connected({e}) /\ Connected({})
  BY DEF Connected

\* A request that overlaps a member of the group keeps the group together.
LEMMA JoinConnected ==
  ASSUME NEW g, Connected(g), NEW e \in g, NEW x, Overlaps(e, x), Overlaps(x, e)
  PROVE  Connected(g \cup {x})
<1> SUFFICES ASSUME NEW S \in (SUBSET (g \cup {x})) \ {{}, g \cup {x}}
             PROVE  \E a \in S, b \in (g \cup {x}) \ S : Overlaps(a, b)
  BY DEF Connected
<1>1. CASE S \cap g = {}
  <2>1. x \in S /\ e \in (g \cup {x}) \ S
    BY <1>1
  <2>2. QED
    BY <2>1
<1>2. CASE g \subseteq S
  <2>1. e \in S /\ x \in (g \cup {x}) \ S
    BY <1>2
  <2>2. QED
    BY <2>1
<1>3. CASE S \cap g # {} /\ ~(g \subseteq S)
  <2>1. S \cap g \in (SUBSET g) \ {{}, g}
    BY <1>3
  <2>2. PICK a \in S \cap g, b \in g \ (S \cap g) : Overlaps(a, b)
    BY <2>1 DEF Connected
  <2>3. QED
    BY <2>2
<1>4. QED
  BY <1>1, <1>2, <1>3

LEMMA ClusterInit == Init => ClusterInv
<1> SUFFICES ASSUME Init PROVE ClusterInv
  OBVIOUS
<1>1. /\ pc = "sweep" /\ todo = reqs /\ current = {} /\ groups = {}
      /\ accepted = {} /\ rejected = {}
  BY DEF Init
<1>2. QED
  BY <1>1, SingletonConnected DEF ClusterInv, Sweeping, Deciding

LEMMA SweepClusters ==
  ASSUME LoopInv, ClusterInv, Sweep
  PROVE  ClusterInv'
<1>1. PICK e \in NextToSweep(todo) :
        /\ todo' = todo \ {e}
        /\ IF Joins(e)
             THEN /\ current' = current \cup {e}
                  /\ maxEnd' = LongestEnd(maxEnd, WindowEnd(e))
                  /\ groups' = groups
             ELSE /\ current' = {e}
                  /\ maxEnd' = WindowEnd(e)
                  /\ groups' = groups \cup ({current} \ {{}})
  BY DEF Sweep
<1>2. /\ pc = "sweep" /\ pc' = "sweep" /\ Sweeping
      /\ UNCHANGED <<reqs, accepted, rejected>>
  BY DEF Sweep, ClusterInv, input, decided
<1>3. /\ e \in todo /\ todo \subseteq Event /\ current \subseteq Event
      /\ \A g \in groups : g \subseteq Event
      /\ maxEnd \in Int
  BY DEF NextToSweep, FirstStarting, LoopInv, LoopTypeOK, Disjoint, Sweep
<1>4. \A f \in todo : WindowStart(e) <= WindowStart(f)
  <2>1. \A f \in todo \ {e} : StartsBefore(e, f)
    BY <1>1 DEF NextToSweep, FirstStarting
  <2>2. \A f \in todo : WindowStart(e) \in Int /\ WindowStart(f) \in Int
    BY <1>3, WindowTypes
  <2>3. QED
    BY <2>1, <2>2 DEF StartsBefore
<1>5. \A f \in todo \cup current \cup UNION groups :
        /\ WindowStart(f) \in Int /\ WindowEnd(f) \in Int
        /\ WindowStart(f) < WindowEnd(f)
  BY <1>3, WindowTypes
<1>6. Deciding'
  <2>1. accepted = {} /\ rejected = {}
    BY <1>2 DEF LoopInv, Disjoint, Sweeping
  <2>2. QED
    BY <1>2, <2>1 DEF Deciding
<1>7. CASE Joins(e)
  <2>1. /\ todo' = todo \ {e} /\ current' = current \cup {e} /\ groups' = groups
        /\ maxEnd' = IF maxEnd < WindowEnd(e) THEN WindowEnd(e) ELSE maxEnd
    BY <1>1, <1>7 DEF LongestEnd
  <2>2. PICK m \in current : WindowEnd(m) = maxEnd
    BY <1>2, <1>7 DEF Joins, Sweeping
  <2>3. Overlaps(m, e) /\ Overlaps(e, m)
    <3>1. WindowStart(m) <= WindowStart(e)
      BY <1>2, <1>3, <2>2 DEF Sweeping
    <3>2. WindowStart(e) < WindowEnd(m)
      BY <1>7, <2>2 DEF Joins
    <3>3. QED
      BY <1>3, <1>5, <2>2, <3>1, <3>2 DEF Overlaps
  <2>4. Connected(current')
    BY <1>2, <2>1, <2>2, <2>3, JoinConnected DEF Sweeping
  <2>5. reqs' = todo' \cup current' \cup UNION groups' /\ rejected' = {}
    BY <1>2, <1>3, <2>1 DEF Sweeping
  <2>6. \A g \in groups' : \A a \in g, f \in todo' \cup current' :
          WindowEnd(a) <= WindowStart(f)
    BY <1>2, <1>3, <2>1 DEF Sweeping
  <2>7. \A a \in current', f \in todo' : WindowStart(a) <= WindowStart(f)
    BY <1>2, <1>4, <2>1 DEF Sweeping
  <2>8. \A a \in current' : WindowEnd(a) <= maxEnd'
    BY <1>2, <1>3, <1>5, <2>1 DEF Sweeping
  <2>9. \E a \in current' : WindowEnd(a) = maxEnd'
    BY <2>1, <2>2
  <2>10. Sweeping'
    BY <2>4, <2>5, <2>6, <2>7, <2>8, <2>9 DEF Sweeping
  <2>11. QED
    BY <1>2, <1>6, <2>1, <2>10 DEF ClusterInv
<1>8. CASE ~Joins(e)
  <2>1. /\ todo' = todo \ {e} /\ current' = {e}
        /\ groups' = groups \cup ({current} \ {{}}) /\ maxEnd' = WindowEnd(e)
    BY <1>1, <1>8
  <2>2. \A a \in current, f \in todo : WindowEnd(a) <= WindowStart(f)
    <3>1. current # {} => maxEnd <= WindowStart(e)
      BY <1>3, <1>5, <1>8 DEF Joins
    <3>2. \A a \in current : WindowEnd(a) <= maxEnd
      BY <1>2 DEF Sweeping
    <3>3. QED
      BY <1>3, <1>4, <1>5, <3>1, <3>2
  <2>3. \A g \in groups' : \A a \in g, f \in todo : WindowEnd(a) <= WindowStart(f)
    BY <1>2, <2>1, <2>2 DEF Sweeping
  <2>4. \A g \in groups : Apart(g, current) /\ Apart(current, g)
    <3>1. \A g \in groups : \A a \in g, f \in current : WindowEnd(a) <= WindowStart(f)
      BY <1>2 DEF Sweeping
    <3>2. QED
      BY <1>5, <3>1 DEF Apart, Overlaps
  <2>5. \A g, h \in groups' : g # h => Apart(g, h)
    BY <2>1, <2>4 DEF ClusterInv
  <2>6. \A g \in groups' : Connected(g)
    BY <1>2, <2>1 DEF ClusterInv, Sweeping
  <2>7. Sweeping'
    <3>1. reqs' = todo' \cup current' \cup UNION groups' /\ rejected' = {}
      BY <1>2, <1>3, <2>1 DEF Sweeping
    <3>2. Connected(current')
      BY <2>1, SingletonConnected
    <3>3. \A g \in groups' : \A a \in g, f \in todo' \cup current' :
            WindowEnd(a) <= WindowStart(f)
      BY <1>3, <2>1, <2>3
    <3>4. \A a \in current', f \in todo' : WindowStart(a) <= WindowStart(f)
      BY <1>4, <2>1
    <3>5. /\ \A a \in current' : WindowEnd(a) <= maxEnd'
          /\ \E a \in current' : WindowEnd(a) = maxEnd'
      BY <1>3, <1>5, <2>1
    <3>6. QED
      BY <3>1, <3>2, <3>3, <3>4, <3>5 DEF Sweeping
  <2>8. QED
    BY <1>2, <1>6, <2>5, <2>6, <2>7 DEF ClusterInv
<1>9. QED
  BY <1>7, <1>8

LEMMA EndSweepClusters ==
  ASSUME LoopInv, ClusterInv, EndSweep
  PROVE  ClusterInv'
<1>1. /\ pc = "sweep" /\ pc' = "groups" /\ todo = {} /\ Sweeping
      /\ groups' = groups \cup ({current} \ {{}})
      /\ UNCHANGED <<reqs, accepted, rejected>>
  BY DEF EndSweep, ClusterInv, input, decided
<1>2. \A e \in current \cup UNION groups :
        /\ WindowStart(e) \in Int /\ WindowEnd(e) \in Int
        /\ WindowStart(e) < WindowEnd(e)
  BY WindowTypes DEF LoopInv, LoopTypeOK
<1>3. \A g \in groups : Apart(g, current) /\ Apart(current, g)
  <2>1. \A g \in groups : \A e \in g, f \in current : WindowEnd(e) <= WindowStart(f)
    BY <1>1 DEF Sweeping
  <2>2. QED
    BY <1>2, <2>1 DEF Apart, Overlaps
<1>4. \A g \in groups' : Connected(g)
  BY <1>1 DEF ClusterInv, Sweeping
<1>5. \A g, h \in groups' : g # h => Apart(g, h)
  BY <1>1, <1>3 DEF ClusterInv
<1>6. reqs' = UNION groups' /\ accepted' = {} /\ rejected' = {}
  BY <1>1 DEF Sweeping, LoopInv, Disjoint
<1>7. QED
  BY <1>1, <1>4, <1>5, <1>6 DEF ClusterInv, Deciding

LEMMA NextGroupClusters ==
  ASSUME LoopInv, ClusterInv, NextGroup
  PROVE  ClusterInv'
<1>1. PICK g \in groups : groups' = groups \ {g} /\ todo' = g
  BY DEF NextGroup, FirstGroup
<1>2. pc = "groups" /\ pc' = "resolve" /\ UNCHANGED <<reqs, accepted, rejected>>
  BY DEF NextGroup, input, decided
<1>3. UNION groups = g \cup UNION groups'
  BY <1>1
<1>4. QED
  BY <1>1, <1>2, <1>3 DEF ClusterInv, Deciding

LEMMA DecideClusters ==
  ASSUME LoopInv, ClusterInv, Decide
  PROVE  ClusterInv'
<1>1. PICK e \in todo :
        /\ todo' = todo \ {e}
        /\ \/ accepted' = accepted \cup {e} /\ rejected' = rejected
           \/ rejected' = rejected \cup {e} /\ accepted' = accepted
  BY DEF Decide, TopRanked
<1>2. pc = "resolve" /\ pc' = "resolve" /\ UNCHANGED <<reqs, groups>>
  BY DEF Decide, input, sweep
<1>3. e \notin accepted /\ e \notin rejected /\ \A g \in groups : e \notin g
  BY <1>1, <1>2 DEF LoopInv, Disjoint, ClusterInv, Deciding
<1>4. Deciding'
  BY <1>1, <1>2, <1>3 DEF ClusterInv, Deciding
<1>5. QED
  BY <1>2, <1>4 DEF ClusterInv

LEMMA EndGroupClusters ==
  ASSUME ClusterInv, EndGroup \/ EndGroups
  PROVE  ClusterInv'
<1>1. UNCHANGED <<reqs, groups, accepted, rejected>>
  BY DEF EndGroup, EndGroups, input, sweep, decided
<1>2. CASE EndGroup
  BY <1>1, <1>2 DEF EndGroup, ClusterInv, Deciding
<1>3. CASE EndGroups
  BY <1>1, <1>3 DEF EndGroups, ClusterInv, Deciding
<1>4. QED
  BY <1>2, <1>3

LEMMA ReleasesClusters ==
  ASSUME ClusterInv, Release \/ Return
  PROVE  ClusterInv'
<1>1. /\ UNCHANGED <<reqs, groups, accepted, rejected>>
      /\ pc = "releases" /\ pc' \in {"releases", "done"}
  BY DEF Release, Return, input, sweep, decided
<1>2. QED
  BY <1>1 DEF ClusterInv, Deciding

LEMMA ClusterNext == LoopInv /\ ClusterInv /\ [Next]_loopVars => ClusterInv'
<1> SUFFICES ASSUME LoopInv, ClusterInv, [Next]_loopVars PROVE ClusterInv'
  OBVIOUS
<1>1. CASE UNCHANGED loopVars
  BY <1>1 DEF ClusterInv, Sweeping, Deciding, loopVars
<1>2. CASE Next
  <2>1. CASE Finished
    BY <1>1, <2>1 DEF Finished
  <2>2. QED
    BY <1>2, <2>1, SweepClusters, EndSweepClusters, NextGroupClusters,
       DecideClusters, EndGroupClusters, ReleasesClusters DEF Next
<1>3. QED
  BY <1>1, <1>2

LEMMA ClusterInvariant == Spec => []ClusterInv
  BY LoopInvariant, ClusterInit, ClusterNext, PTL DEF Spec

-----------------------------------------------------------------------------
\* The sweep of find_overlapping_groups finds the clusters of overlap, for
\* every log: it covers the requests, no group can be split without separating
\* a pair that overlaps, and no pair overlaps across two groups.
THEOREM GroupsFound == Spec => []GroupsAreComponents
<1>1. ClusterInv => GroupsAreComponents
  BY DEF ClusterInv, Deciding, GroupsAreComponents
<1>2. QED
  BY ClusterInvariant, <1>1, PTL

\* Every request of every log is accepted or rejected, and none is both.
THEOREM AllDecided == Spec => []EveryRequestDecided
<1>1. ClusterInv => EveryRequestDecided
  BY DEF ClusterInv, Deciding, EveryRequestDecided
<1>2. QED
  BY ClusterInvariant, <1>1, PTL

-----------------------------------------------------------------------------
(***************************************************************************)
(* The loops of FoldLoop compute what ConflictResolver states, for every   *)
(* log: the same groups, the same requests accepted, the same entries and  *)
(* the same row.                                                           *)
(*                                                                         *)
(* ConflictResolver decides each request by what is accepted before it in  *)
(* one order over all groups (DecidedBefore); the loops take the groups in *)
(* turn and keep only a running total.  The two agree because the loops    *)
(* decide in that very order (InTurn): when a request is compared with the *)
(* running total, what was accepted so far is what was accepted before it. *)
(***************************************************************************)

\* What the fold was given: events of one bucket, each under its own id.
FromLog ==
  /\ Distinct(reqs)
  /\ \A e \in reqs : e.bucket = bucket /\ e.action = "request"
  /\ \A e \in rels : e.bucket = bucket /\ e.action = "release"

\* g is a group of ConflictResolver, and its first request is the one that
\* starts it.
IsGroup(g) ==
  /\ g # {}
  /\ \A e \in g : GroupOf(e, reqs) = g
  /\ \A e \in g : StartsGroup(e, reqs) <=> \A f \in g \ {e} : StartsBefore(e, f)

\* The sweep goes through the requests in the order of instants, and the
\* current group is what it has visited of a group.
InOrder ==
  /\ \A e \in current \cup UNION groups, f \in todo : StartsBefore(e, f)
  /\ \A e \in UNION groups, f \in current : StartsBefore(e, f)
  /\ \A e, f \in current : SameGroup(e, f, reqs)
  /\ \A e \in current :
       StartsGroup(e, reqs) <=> \A f \in current \ {e} : StartsBefore(e, f)

Grouped ==
  /\ \A g \in groups : IsGroup(g)
  /\ pc = "sweep" => InOrder
  /\ pc = "resolve" =>
       /\ IsGroup(group)
       /\ \A e \in group, f \in UNION groups : StartsBefore(e, f)
  /\ pc # "resolve" => group = {}

\* What is decided was decided as ConflictResolver states it, and comes before
\* all the rest.
InTurn ==
  /\ Resolves(accepted, accepted \cup rejected, reqs)
  /\ \A e \in accepted \cup rejected, f \in reqs \ (accepted \cup rejected) :
       DecidedBefore(e, f, reqs)

\* The groups that are finished with a rejection, by their first requests.
Conflicting ==
  {e \in (accepted \cup rejected) \ group :
     StartsGroup(e, reqs) /\ ~ (GroupOf(e, reqs) \subseteq accepted)}

\* The releases that the release loop has visited.
Visited ==
  IF pc = "releases" THEN rels \ todo ELSE IF pc = "done" THEN rels ELSE {}

Recorded ==
  /\ entries = {ConflictEntry(GroupOf(e, reqs), accepted) : e \in Conflicting}
                 \cup {OrphanEntry(r) : r \in Orphans(Visited, accepted)}
  /\ released = Visited \ Orphans(Visited, accepted)
  /\ pc = "done" => row = FoldRow(reqs, rels, reqs \cup rels)

OutcomeInv == FromLog /\ Grouped /\ InTurn /\ Recorded

-----------------------------------------------------------------------------
(* Groups                                                                  *)

LEMMA SweepOrder ==
  ASSUME LoopTypeOK, FromLog
  PROVE  /\ \A e \in reqs : ~StartsBefore(e, e)
         /\ \A e, f \in reqs : e = f \/ StartsBefore(e, f) \/ StartsBefore(f, e)
         /\ \A e, f, g \in reqs :
              StartsBefore(e, f) /\ StartsBefore(f, g) => StartsBefore(e, g)
         /\ \A e, f \in reqs :
              StartsBefore(e, f) => Leaders(e, reqs) \subseteq Leaders(f, reqs)
         /\ reqs \in SUBSET Event
<1>1. reqs \in SUBSET Event /\ Distinct(reqs)
  BY DEF LoopTypeOK, FromLog
<1>2. QED
  BY <1>1, StartsBeforeOrder, LeadersGrow

\* Another request of a group is in it.
LEMMA GroupFacts ==
  ASSUME NEW g, IsGroup(g)
  PROVE  /\ g \subseteq reqs /\ g # {}
         /\ \A e, f \in g : SameGroup(e, f, reqs)
         /\ \A e \in g, f \in reqs : SameGroup(e, f, reqs) \/ SameGroup(f, e, reqs) => f \in g
  BY DEF IsGroup, GroupOf, SameGroup

\* The current group is complete when nothing is left to come, or when what
\* comes next starts a group of its own.
LEMMA FlushedGroup ==
  ASSUME LoopTypeOK, FromLog, pc = "sweep", Disjoint, Grouped, Sweeping, current # {},
         \A f \in todo : \E e \in todo : /\ StartsGroup(e, reqs)
                                         /\ f = e \/ StartsBefore(e, f)
  PROVE  IsGroup(current)
<1>1. InOrder /\ current \subseteq reqs /\ todo \subseteq reqs
  BY DEF Grouped, LoopTypeOK, Disjoint
<1>2. ASSUME NEW x \in current, NEW f \in todo PROVE ~SameGroup(x, f, reqs)
  <2>1. PICK e \in todo : StartsGroup(e, reqs) /\ (f = e \/ StartsBefore(e, f))
    OBVIOUS
  <2>2. e \in Leaders(f, reqs)
    BY <1>1, <2>1 DEF Leaders
  <2>3. StartsBefore(x, e) /\ e # x
    BY <1>1 DEF InOrder, Disjoint
  <2>4. ~StartsBefore(e, x)
    BY <1>1, <2>3, SweepOrder
  <2>5. e \notin Leaders(x, reqs)
    BY <2>3, <2>4 DEF Leaders
  <2>6. QED
    BY <2>2, <2>5 DEF SameGroup
<1>3. ASSUME NEW x \in current, NEW f \in UNION groups PROVE ~SameGroup(x, f, reqs)
  <2>1. PICK g \in groups : f \in g
    OBVIOUS
  <2>2. x \notin g
    BY DEF Disjoint
  <2>3. QED
    BY <1>1, <2>1, <2>2, GroupFacts DEF Grouped
<1>4. \A x \in current : GroupOf(x, reqs) = current
  <2>1. reqs = todo \cup current \cup UNION groups
    BY DEF Sweeping
  <2>2. QED
    BY <1>1, <1>2, <1>3, <2>1 DEF GroupOf, InOrder
<1>5. QED
  BY <1>1, <1>4 DEF IsGroup, InOrder

LEMMA OutcomeInit == Init => OutcomeInv
<1> SUFFICES ASSUME Init PROVE OutcomeInv
  OBVIOUS
<1>1. PICK log \in SUBSET Event, b \in Bucket :
        /\ IsInput(log, b)
        /\ bucket = b
        /\ reqs = RequestsOf(log, b)
        /\ rels = ReleasesOf(log, b)
  BY DEF Init
<1>2. FromLog
  BY <1>1 DEF FromLog, IsInput, Distinct, RequestsOf, ReleasesOf, EventsOf
<1>3. /\ pc = "sweep" /\ current = {} /\ groups = {} /\ group = {}
      /\ accepted = {} /\ rejected = {} /\ entries = {} /\ released = {}
  BY DEF Init
<1>4. Grouped /\ InTurn
  BY <1>3 DEF Grouped, InOrder, InTurn, Resolves
<1>5. Recorded
  BY <1>3 DEF Recorded, Conflicting, Visited, Orphans
<1>6. QED
  BY <1>2, <1>4, <1>5 DEF OutcomeInv

LEMMA SweepOutcome ==
  ASSUME LoopInv, ClusterInv, OutcomeInv, Sweep
  PROVE  OutcomeInv'
<1>1. PICK e \in NextToSweep(todo) :
        /\ todo' = todo \ {e}
        /\ IF Joins(e)
             THEN /\ current' = current \cup {e}
                  /\ groups' = groups
             ELSE /\ current' = {e}
                  /\ groups' = groups \cup ({current} \ {{}})
  BY DEF Sweep
<1>2. /\ pc = "sweep" /\ pc' = "sweep"
      /\ UNCHANGED <<bucket, reqs, rels, group, accepted, rejected, entries, released>>
  BY DEF Sweep, input, greedy, decided, result
<1>3. /\ LoopTypeOK /\ Disjoint /\ FromLog /\ Grouped /\ Sweeping /\ InOrder
      /\ accepted = {} /\ rejected = {}
  BY <1>2 DEF LoopInv, ClusterInv, Sweeping, OutcomeInv, Grouped, Disjoint
<1>4. /\ e \in todo /\ e \in reqs /\ todo \subseteq reqs /\ current \subseteq reqs
      /\ \A f \in todo \ {e} : StartsBefore(e, f)
      /\ reqs = todo \cup current \cup UNION groups
  BY <1>1, <1>2, <1>3
     DEF NextToSweep, FirstStarting, LoopTypeOK, Disjoint, Sweeping
<1>5. \A f \in reqs : StartsBefore(f, e) => f \in current \cup UNION groups
  BY <1>3, <1>4, SweepOrder
<1>6. FromLog' /\ InTurn' /\ Recorded'
  <2>1. Conflicting = {} /\ Conflicting' = {}
    BY <1>2, <1>3 DEF Conflicting
  <2>2. Visited' = Visited
    BY <1>2 DEF Visited
  <2>3. UNCHANGED <<entries, released, accepted, reqs>>
    BY <1>2
  <2>4. Recorded'
    BY <1>2, <2>1, <2>2, <2>3 DEF OutcomeInv, Recorded
  <2>5. FromLog' /\ InTurn'
    BY <1>2, <1>3 DEF OutcomeInv, FromLog, InTurn, Resolves
  <2>6. QED
    BY <2>4, <2>5
<1>7. CASE Joins(e)
  <2>1. current' = current \cup {e} /\ groups' = groups
    BY <1>1, <1>7
  <2>2. PICK m \in current : WindowEnd(m) = maxEnd
    BY <1>3, <1>7 DEF Joins, Sweeping
  <2>3. ~StartsGroup(e, reqs) /\ ~StartsBefore(e, m)
    <3>1. StartsBefore(m, e)
      BY <1>3, <1>4, <2>2 DEF InOrder
    <3>2. ~(WindowEnd(m) <= WindowStart(e))
      <4>1. WindowStart(e) \in Int /\ maxEnd \in Int
        BY <1>3, <1>4, WindowTypes DEF LoopTypeOK
      <4>2. QED
        BY <1>7, <2>2, <4>1 DEF Joins
    <3>3. QED
      BY <1>3, <1>4, <2>2, <3>1, <3>2, SweepOrder DEF StartsGroup
  <2>4. ASSUME NEW x \in current PROVE Leaders(e, reqs) = Leaders(x, reqs)
    <3>1. StartsBefore(x, e)
      BY <1>3, <1>4 DEF InOrder
    <3>2. Leaders(x, reqs) \subseteq Leaders(e, reqs)
      BY <1>3, <1>4, <3>1, SweepOrder
    <3>3. ASSUME NEW g \in Leaders(e, reqs) PROVE g \in Leaders(x, reqs)
      <4>1. g \in reqs /\ StartsGroup(g, reqs) /\ StartsBefore(g, e)
        BY <2>3 DEF Leaders
      <4>2. CASE g \in current
        <5>1. Leaders(g, reqs) = Leaders(x, reqs)
          BY <1>3, <4>2 DEF InOrder, SameGroup
        <5>2. QED
          BY <4>1, <5>1 DEF Leaders
      <4>3. CASE g \in UNION groups
        BY <1>3, <4>1, <4>3 DEF InOrder, Leaders
      <4>4. QED
        BY <1>5, <4>1, <4>2, <4>3
    <3>4. QED
      BY <3>2, <3>3
  <2>5. \A x, y \in current' : SameGroup(x, y, reqs)
    BY <1>3, <2>1, <2>4 DEF InOrder, SameGroup
  <2>6. \A x \in current' :
          StartsGroup(x, reqs) <=> \A f \in current' \ {x} : StartsBefore(x, f)
    <3>1. \A x \in current : StartsBefore(x, e) /\ x # e
      BY <1>2, <1>3, <1>4 DEF InOrder, Disjoint
    <3>2. \A x \in current :
            StartsGroup(x, reqs) <=> \A f \in current' \ {x} : StartsBefore(x, f)
      BY <1>3, <2>1, <3>1 DEF InOrder
    <3>3. ~ \A f \in current' \ {e} : StartsBefore(e, f)
      BY <2>1, <2>2, <2>3, <3>1
    <3>4. QED
      BY <2>1, <2>3, <3>2, <3>3
  <2>7. InOrder'
    <3>1. \A x \in current' \cup UNION groups', f \in todo' : StartsBefore(x, f)
      BY <1>1, <1>3, <1>4, <2>1 DEF InOrder
    <3>2. \A x \in UNION groups', f \in current' : StartsBefore(x, f)
      BY <1>3, <1>4, <2>1 DEF InOrder
    <3>3. QED
      BY <1>2, <2>5, <2>6, <3>1, <3>2 DEF InOrder
  <2>8. Grouped'
    BY <1>2, <1>3, <2>1, <2>7 DEF Grouped, IsGroup
  <2>9. QED
    BY <1>6, <2>8 DEF OutcomeInv
<1>8. CASE ~Joins(e)
  <2>1. current' = {e} /\ groups' = groups \cup ({current} \ {{}})
    BY <1>1, <1>8
  <2>2. StartsGroup(e, reqs)
    <3>1. ASSUME NEW f \in current PROVE WindowEnd(f) <= WindowStart(e)
      <4>1. /\ WindowStart(e) \in Int /\ WindowEnd(f) \in Int /\ maxEnd \in Int
            /\ current \subseteq Event
        BY <1>3, <1>4, WindowTypes DEF LoopTypeOK
      <4>2. ~(WindowStart(e) < maxEnd) /\ WindowEnd(f) <= maxEnd
        BY <1>3, <1>8 DEF Joins, Sweeping
      <4>3. QED
        BY <4>1, <4>2
    <3>2. \A f \in UNION groups : WindowEnd(f) <= WindowStart(e)
      BY <1>3, <1>4 DEF Sweeping
    <3>3. QED
      BY <1>5, <3>1, <3>2 DEF StartsGroup
  <2>3. current # {} => IsGroup(current)
    <3>1. \A f \in todo : f = e \/ StartsBefore(e, f)
      BY <1>4
    <3>2. QED
      BY <1>2, <1>3, <1>4, <2>2, <3>1, FlushedGroup
  <2>4. InOrder'
    <3>1. \A x \in current' \cup UNION groups', f \in todo' : StartsBefore(x, f)
      BY <1>1, <1>3, <1>4, <2>1 DEF InOrder
    <3>2. \A x \in UNION groups', f \in current' : StartsBefore(x, f)
      BY <1>3, <1>4, <2>1 DEF InOrder
    <3>3. /\ \A x, y \in current' : SameGroup(x, y, reqs)
          /\ \A x \in current' :
               StartsGroup(x, reqs) <=> \A f \in current' \ {x} : StartsBefore(x, f)
      BY <2>1, <2>2 DEF SameGroup
    <3>4. QED
      BY <1>2, <3>1, <3>2, <3>3 DEF InOrder
  <2>5. \A g \in groups' : IsGroup(g)
    BY <1>3, <2>1, <2>3 DEF Grouped
  <2>6. Grouped'
    BY <1>2, <1>3, <2>4, <2>5 DEF Grouped, IsGroup
  <2>7. QED
    BY <1>6, <2>6 DEF OutcomeInv
<1>9. QED
  BY <1>7, <1>8

LEMMA EndSweepOutcome ==
  ASSUME LoopInv, ClusterInv, OutcomeInv, EndSweep
  PROVE  OutcomeInv'
<1>1. /\ pc = "sweep" /\ pc' = "groups" /\ todo = {}
      /\ groups' = groups \cup ({current} \ {{}})
      /\ UNCHANGED <<bucket, reqs, rels, group, accepted, rejected, entries, released>>
  BY DEF EndSweep, input, greedy, decided, result
<1>2. /\ LoopTypeOK /\ Disjoint /\ FromLog /\ Grouped /\ Sweeping
      /\ accepted = {} /\ rejected = {} /\ group = {}
  BY <1>1 DEF LoopInv, ClusterInv, Sweeping, OutcomeInv, Disjoint
<1>3. current # {} => IsGroup(current)
  BY <1>1, <1>2, FlushedGroup
<1>4. Grouped'
  BY <1>1, <1>2, <1>3 DEF Grouped, IsGroup
<1>5. FromLog' /\ InTurn'
  BY <1>1, <1>2 DEF OutcomeInv, FromLog, InTurn, Resolves
<1>6. Recorded'
  BY <1>1, <1>2 DEF OutcomeInv, Recorded, Conflicting, Visited, Orphans
<1>7. QED
  BY <1>4, <1>5, <1>6 DEF OutcomeInv

LEMMA NextGroupOutcome ==
  ASSUME LoopInv, ClusterInv, OutcomeInv, NextGroup
  PROVE  OutcomeInv'
<1>1. PICK g \in FirstGroup : groups' = groups \ {g} /\ group' = g
  BY DEF NextGroup
<1>2. /\ pc = "groups" /\ pc' = "resolve" /\ group = {}
      /\ UNCHANGED <<bucket, reqs, rels, accepted, rejected, entries, released>>
  BY DEF NextGroup, input, decided, result, OutcomeInv, Grouped
<1>3. Grouped'
  <2>1. g \in groups /\ \A x \in g, f \in UNION groups' : StartsBefore(x, f)
    BY <1>1 DEF FirstGroup
  <2>2. QED
    BY <1>1, <1>2, <2>1 DEF OutcomeInv, Grouped, IsGroup
<1>4. FromLog' /\ InTurn'
  BY <1>2 DEF OutcomeInv, FromLog, InTurn, Resolves
<1>5. Recorded'
  <2>1. g \cap (accepted \cup rejected) = {}
    BY <1>1 DEF FirstGroup, LoopInv, Disjoint, ClusterInv, Deciding
  <2>2. Conflicting' = Conflicting
    BY <1>1, <1>2, <2>1 DEF Conflicting
  <2>3. Visited' = Visited
    BY <1>2 DEF Visited
  <2>4. QED
    BY <1>2, <2>2, <2>3 DEF OutcomeInv, Recorded
<1>6. QED
  BY <1>3, <1>4, <1>5 DEF OutcomeInv

\* The request that resolve_conflicts takes next is decided before all that are
\* not decided yet, so the running total is what was accepted before it.
LEMMA DecideOutcome ==
  ASSUME LoopInv, ClusterInv, OutcomeInv, Decide
  PROVE  OutcomeInv'
<1> DEFINE T == accepted \cup rejected
<1>1. PICK e \in TopRanked(todo) :
        /\ todo' = todo \ {e}
        /\ IF FitsRunning(e)
             THEN /\ accepted' = accepted \cup {e}
                  /\ running' = running + e.amount
                  /\ rejected' = rejected
             ELSE /\ rejected' = rejected \cup {e}
                  /\ UNCHANGED <<accepted, running>>
  BY DEF Decide
<1>2. /\ pc = "resolve" /\ pc' = "resolve"
      /\ UNCHANGED <<bucket, reqs, rels, groups, group, available, entries, released>>
  BY DEF Decide, input, sweep, result
<1>3. /\ LoopTypeOK /\ Disjoint /\ Budget /\ FromLog /\ IsGroup(group) /\ InTurn
      /\ Distinct(reqs) /\ reqs \in SUBSET Event
      /\ \A x \in group, f \in UNION groups : StartsBefore(x, f)
  BY <1>2 DEF LoopInv, LoopTypeOK, OutcomeInv, Grouped, FromLog
<1>4. /\ e \in todo /\ e \in group /\ e \in reqs /\ e \notin T
      /\ \A f \in todo \ {e} : ResolverBefore(e, f)
      /\ todo \subseteq group
      /\ reqs \ T \subseteq todo \cup UNION groups
      /\ \A g \in groups : g \cap group = {}
      /\ T \subseteq reqs
  BY <1>1, <1>2, <1>3 DEF TopRanked, LoopTypeOK, Disjoint, ClusterInv, Deciding
<1>5. GroupOf(e, reqs) = group
  BY <1>3, <1>4 DEF IsGroup
<1>6. ASSUME NEW f \in reqs \ T, f # e PROVE DecidedBefore(e, f, reqs)
  <2>1. CASE f \in todo
    <3>1. SameGroup(f, e, reqs)
      BY <1>3, <1>4, <2>1, GroupFacts
    <3>2. QED
      BY <1>4, <1>6, <2>1, <3>1 DEF DecidedBefore
  <2>2. CASE f \in UNION groups
    <3>1. f \notin group
      BY <1>4, <2>2
    <3>2. ~SameGroup(f, e, reqs)
      BY <1>3, <1>4, <3>1, GroupFacts
    <3>3. QED
      BY <1>3, <1>4, <2>2, <3>2 DEF DecidedBefore
  <2>3. QED
    BY <1>4, <2>1, <2>2
<1>7. \A f \in reqs \ T : ~DecidedBefore(f, e, reqs)
  BY <1>3, <1>4, <1>6, DecisionOrder
<1>8. {f \in accepted : DecidedBefore(f, e, reqs)} = accepted
  BY <1>3, <1>4 DEF InTurn
<1>9. FitsRunning(e) <=> Fits(e, accepted)
  <2>1. /\ running \in Nat /\ available \in Nat /\ Capacity[bucket] \in Nat
        /\ Total(accepted) \in Nat /\ e.amount \in Nat
    BY <1>3, <1>4, InputType, EventType DEF LoopTypeOK
  <2>2. Total(accepted) = (Capacity[bucket] - available) + running
    BY <1>2, <1>3 DEF Budget
  <2>3. e.bucket = bucket
    BY <1>3, <1>4 DEF FromLog
  <2>4. QED
    BY <2>1, <2>2, <2>3 DEF Fits, FitsRunning
<1>10. /\ accepted' = IF Fits(e, accepted) THEN accepted \cup {e} ELSE accepted
       /\ accepted' \cup rejected' = T \cup {e}
  BY <1>1, <1>9
<1>11. InTurn'
  <2>1. Resolves(accepted', T \cup {e}, reqs)
    <3>1. Resolves(accepted, T, reqs)
      BY <1>3 DEF InTurn
    <3> HIDE DEF T
    <3>2. Resolves(IF Fits(e, {f \in accepted : DecidedBefore(f, e, reqs)})
                     THEN accepted \cup {e} ELSE accepted, T \cup {e}, reqs)
      BY <1>3, <1>4, <1>7, <3>1, ResolvesOneMore
    <3>3. QED
      BY <1>8, <1>10, <3>2
  <2>2. \A x \in T \cup {e}, f \in reqs \ (T \cup {e}) : DecidedBefore(x, f, reqs)
    BY <1>3, <1>6 DEF InTurn
  <2>3. QED
    BY <1>2, <1>10, <2>1, <2>2 DEF InTurn
<1>12. FromLog' /\ Grouped'
  BY <1>2 DEF OutcomeInv, FromLog, Grouped, IsGroup
<1>13. Recorded'
  <2>1. ASSUME NEW x \in T \ group PROVE e \notin GroupOf(x, reqs)
    <3>1. SUFFICES ASSUME SameGroup(x, e, reqs) PROVE FALSE
      BY DEF GroupOf
    <3>2. x \in group
      BY <1>3, <1>4, <3>1, GroupFacts
    <3>3. QED
      BY <3>2
  <2>2. (T \cup {e}) \ group = T \ group
    BY <1>4
  <2>3. accepted \subseteq accepted' /\ accepted' \subseteq accepted \cup {e}
    BY <1>10
  <2>4. ASSUME NEW x \in T \ group
        PROVE  /\ GroupOf(x, reqs) \subseteq accepted' <=> GroupOf(x, reqs) \subseteq accepted
               /\ ConflictEntry(GroupOf(x, reqs), accepted')
                    = ConflictEntry(GroupOf(x, reqs), accepted)
    <3>1. /\ GroupOf(x, reqs) \cap accepted' = GroupOf(x, reqs) \cap accepted
          /\ GroupOf(x, reqs) \ accepted' = GroupOf(x, reqs) \ accepted
      BY <2>1, <2>3
    <3>2. QED
      BY <3>1 DEF ConflictEntry
  <2>5. Conflicting' = Conflicting
    BY <1>2, <1>10, <2>2, <2>4 DEF Conflicting
  <2>6. {ConflictEntry(GroupOf(x, reqs), accepted') : x \in Conflicting}
          = {ConflictEntry(GroupOf(x, reqs), accepted) : x \in Conflicting}
    BY <2>4 DEF Conflicting
  <2>7. Visited = {} /\ Visited' = {}
    BY <1>2 DEF Visited
  <2>8. Orphans({}, accepted) = {} /\ Orphans({}, accepted') = {}
    BY DEF Orphans
  <2>9. QED
    BY <1>2, <2>5, <2>6, <2>7, <2>8 DEF OutcomeInv, Recorded
<1>14. QED
  BY <1>11, <1>12, <1>13 DEF OutcomeInv

\* A group has exactly one first request, so it leaves one entry at most.
LEMMA GroupHasLeader ==
  ASSUME LoopTypeOK, FromLog, NEW g, IsGroup(g)
  PROVE  \E e \in g : StartsGroup(e, reqs)
<1> DEFINE O == {p \in reqs \X reqs : StartsBefore(p[1], p[2])}
<1>1. g \subseteq reqs /\ g # {} /\ IsFiniteSet(g)
  BY GroupFacts, FS_Subset DEF LoopTypeOK
<1>2. /\ \A x \in g : <<x, x>> \notin O
      /\ \A x, y, z \in g : <<x, y>> \in O /\ <<y, z>> \in O => <<x, z>> \in O
  BY <1>1, SweepOrder
<1>3. PICK e \in g : \A f \in g : <<f, e>> \notin O
  <2> HIDE DEF O
  <2>1. QED
    BY <1>1, <1>2, FiniteSetHasFirst
<1>4. \A f \in g \ {e} : StartsBefore(e, f)
  BY <1>1, <1>3, SweepOrder
<1>5. QED
  BY <1>4 DEF IsGroup

LEMMA EndGroupOutcome ==
  ASSUME LoopInv, ClusterInv, OutcomeInv, EndGroup
  PROVE  OutcomeInv'
<1> DEFINE T == accepted \cup rejected
<1>1. /\ pc = "resolve" /\ pc' = "groups" /\ todo = {} /\ group' = {}
      /\ entries' = entries \cup {ConflictEntry(group, accepted) : e \in group \cap rejected}
      /\ UNCHANGED <<bucket, reqs, rels, groups, accepted, rejected, released>>
  BY DEF EndGroup, input, sweep, decided
<1>2. /\ LoopTypeOK /\ FromLog /\ IsGroup(group) /\ group \subseteq reqs
      /\ \A g \in groups : g \cap group = {}
      /\ reqs = T \cup UNION groups /\ accepted \cap rejected = {}
  BY <1>1 DEF LoopInv, LoopTypeOK, OutcomeInv, Grouped, Disjoint, ClusterInv, Deciding
<1>3. group \subseteq T
  BY <1>2
<1>4. ~(group \subseteq accepted) <=> group \cap rejected # {}
  BY <1>2, <1>3
<1>5. Grouped' /\ FromLog' /\ InTurn'
  <2>1. FromLog' /\ InTurn'
    BY <1>1 DEF OutcomeInv, FromLog, InTurn, Resolves
  <2>2. Grouped'
    BY <1>1 DEF OutcomeInv, Grouped, IsGroup
  <2>3. QED
    BY <2>1, <2>2
<1>6. Conflicting' = Conflicting \cup {e \in group : StartsGroup(e, reqs) /\ group \cap rejected # {}}
  <2>1. \A e \in group : GroupOf(e, reqs) = group
    BY <1>2 DEF IsGroup
  <2>2. QED
    BY <1>1, <1>3, <1>4, <2>1 DEF Conflicting
<1>7. {ConflictEntry(GroupOf(e, reqs), accepted) : e \in Conflicting'}
        = {ConflictEntry(GroupOf(e, reqs), accepted) : e \in Conflicting}
            \cup {ConflictEntry(group, accepted) : e \in group \cap rejected}
  <2>1. PICK x \in group : StartsGroup(x, reqs)
    BY <1>2, GroupHasLeader
  <2>2. \A e \in group : GroupOf(e, reqs) = group
    BY <1>2 DEF IsGroup
  <2>3. CASE group \cap rejected = {}
    BY <1>6, <2>3
  <2>4. CASE group \cap rejected # {}
    <3>1. Conflicting' = Conflicting \cup {e \in group : StartsGroup(e, reqs)}
      BY <1>6, <2>4
    <3>2. {ConflictEntry(GroupOf(e, reqs), accepted) : e \in {y \in group : StartsGroup(y, reqs)}}
            = {ConflictEntry(group, accepted)}
      BY <2>1, <2>2
    <3>3. {ConflictEntry(group, accepted) : e \in group \cap rejected}
            = {ConflictEntry(group, accepted)}
      BY <2>4
    <3>4. QED
      BY <3>1, <3>2, <3>3
  <2>5. QED
    BY <2>3, <2>4
<1>8. Visited = {} /\ Visited' = {}
  BY <1>1 DEF Visited
<1>9. Recorded'
  <2>1. Orphans({}, accepted) = {}
    BY DEF Orphans
  <2>2. QED
    BY <1>1, <1>7, <1>8, <2>1 DEF OutcomeInv, Recorded
<1>10. QED
  BY <1>5, <1>9 DEF OutcomeInv

LEMMA EndGroupsOutcome ==
  ASSUME OutcomeInv, EndGroups
  PROVE  OutcomeInv'
<1>1. /\ pc = "groups" /\ pc' = "releases" /\ groups = {} /\ todo' = rels
      /\ UNCHANGED <<bucket, reqs, rels, groups, group, accepted, rejected, entries, released>>
  BY DEF EndGroups, input, sweep, greedy, decided, result
<1>2. FromLog' /\ Grouped' /\ InTurn'
  BY <1>1 DEF OutcomeInv, FromLog, Grouped, IsGroup, InTurn, Resolves
<1>3. Conflicting' = Conflicting /\ Visited = {} /\ Visited' = {}
  BY <1>1 DEF Conflicting, Visited
<1>4. QED
  BY <1>1, <1>2, <1>3 DEF OutcomeInv, Recorded

LEMMA ReleaseOutcome ==
  ASSUME LoopInv, OutcomeInv, Release
  PROVE  OutcomeInv'
<1>1. PICK r \in Earliest(todo) :
        /\ todo' = todo \ {r}
        /\ IF IsOrphanRelease(r, accepted)
             THEN entries' = entries \cup {OrphanEntry(r)} /\ released' = released
             ELSE released' = released \cup {r} /\ entries' = entries
  BY DEF Release
<1>2. /\ pc = "releases" /\ pc' = "releases"
      /\ UNCHANGED <<bucket, reqs, rels, groups, group, accepted, rejected>>
  BY DEF Release, input, sweep, greedy, decided
<1>3. r \in todo /\ todo \subseteq rels
  BY <1>1, <1>2 DEF Earliest, LoopInv, Disjoint
<1>4. FromLog' /\ Grouped' /\ InTurn'
  BY <1>2 DEF OutcomeInv, FromLog, Grouped, IsGroup, InTurn, Resolves
<1>5. Conflicting' = Conflicting
  BY <1>2 DEF Conflicting
<1>6. r \notin Visited /\ Visited' = Visited \cup {r}
  BY <1>1, <1>2, <1>3 DEF Visited
<1>7. Recorded'
  <2>1. CASE IsOrphanRelease(r, accepted)
    <3>1. Orphans(Visited', accepted) = Orphans(Visited, accepted) \cup {r}
      BY <1>6, <2>1 DEF Orphans
    <3>2. entries' = entries \cup {OrphanEntry(r)} /\ released' = released
      BY <1>1, <2>1
    <3>3. Visited' \ Orphans(Visited', accepted) = Visited \ Orphans(Visited, accepted)
      BY <1>6, <3>1 DEF Orphans
    <3>4. QED
      BY <1>2, <1>5, <3>1, <3>2, <3>3 DEF OutcomeInv, Recorded
  <2>2. CASE ~IsOrphanRelease(r, accepted)
    <3>1. Orphans(Visited', accepted) = Orphans(Visited, accepted)
      BY <1>6, <2>2 DEF Orphans
    <3>2. entries' = entries /\ released' = released \cup {r}
      BY <1>1, <2>2
    <3>3. r \notin Orphans(Visited, accepted)
      BY <1>6 DEF Orphans
    <3>4. QED
      BY <1>2, <1>5, <1>6, <3>1, <3>2, <3>3 DEF OutcomeInv, Recorded
  <2>3. QED
    BY <2>1, <2>2
<1>8. QED
  BY <1>4, <1>7 DEF OutcomeInv

\* When every request is decided, the accepted ones are those that
\* ConflictResolver states.
LEMMA AllInTurn ==
  ASSUME LoopTypeOK, OutcomeInv, reqs = accepted \cup rejected
  PROVE  accepted = Accepted(reqs)
<1>1. /\ reqs \in SUBSET Event /\ IsFiniteSet(reqs) /\ Distinct(reqs)
      /\ Resolves(accepted, reqs, reqs)
  BY DEF LoopTypeOK, OutcomeInv, FromLog, InTurn
<1>2. QED
  BY <1>1, ResolvesUnique

LEMMA ReturnOutcome ==
  ASSUME LoopInv, ClusterInv, OutcomeInv, Return
  PROVE  OutcomeInv'
<1>1. /\ pc = "releases" /\ pc' = "done" /\ todo = {}
      /\ row' = [ allocated |-> NonNegative(Total(accepted) - Total(released)),
                  carbon    |-> TotalCarbon(accepted),
                  version   |-> Cardinality(reqs \cup rels),
                  last      |-> Latest(reqs \cup rels) ]
      /\ UNCHANGED <<bucket, reqs, rels, groups, group, accepted, rejected, entries, released>>
  BY DEF Return, input, sweep, greedy, decided
<1>2. FromLog' /\ Grouped' /\ InTurn'
  BY <1>1 DEF OutcomeInv, FromLog, Grouped, IsGroup, InTurn, Resolves
<1>3. Conflicting' = Conflicting /\ Visited = rels /\ Visited' = rels
  BY <1>1 DEF Conflicting, Visited
<1>4. accepted = Accepted(reqs)
  BY <1>1, AllInTurn DEF LoopInv, ClusterInv, Deciding
<1>5. released = rels \ Orphans(rels, accepted)
  BY <1>3 DEF OutcomeInv, Recorded
<1>6. row' = FoldRow(reqs, rels, reqs \cup rels)
  BY <1>1, <1>4, <1>5 DEF FoldRow
<1>7. Recorded'
  BY <1>1, <1>3, <1>6 DEF OutcomeInv, Recorded
<1>8. QED
  BY <1>2, <1>7 DEF OutcomeInv

LEMMA OutcomeNext == LoopInv /\ ClusterInv /\ OutcomeInv /\ [Next]_loopVars => OutcomeInv'
<1> SUFFICES ASSUME LoopInv, ClusterInv, OutcomeInv, [Next]_loopVars PROVE OutcomeInv'
  OBVIOUS
<1>1. CASE UNCHANGED loopVars
  BY <1>1 DEF OutcomeInv, FromLog, Grouped, IsGroup, InOrder, InTurn, Resolves,
              Recorded, Conflicting, Visited, loopVars
<1>2. CASE Next
  <2>1. CASE Finished
    BY <1>1, <2>1 DEF Finished
  <2>2. QED
    BY <1>2, <2>1, SweepOutcome, EndSweepOutcome, NextGroupOutcome, DecideOutcome,
       EndGroupOutcome, EndGroupsOutcome, ReleaseOutcome, ReturnOutcome DEF Next
<1>3. QED
  BY <1>1, <1>2

LEMMA OutcomeInvariant == Spec => [](LoopInv /\ ClusterInv /\ OutcomeInv)
  BY LoopInvariant, ClusterInvariant, OutcomeInit, OutcomeNext, PTL DEF Spec

-----------------------------------------------------------------------------
\* The fold computes what ConflictResolver states, for every log: the same
\* requests accepted, the same audit entries and the same row.
THEOREM FoldComputed == Spec => []ComputesFold
<1>1. LoopInv /\ ClusterInv /\ OutcomeInv => ComputesFold
  <2> SUFFICES ASSUME LoopInv, ClusterInv, OutcomeInv, pc = "done"
               PROVE  /\ accepted = Accepted(reqs)
                      /\ rejected = reqs \ Accepted(reqs)
                      /\ entries = FoldEntries(reqs \cup rels, bucket)
                      /\ row = FoldBucket(reqs \cup rels, bucket)
    BY DEF ComputesFold
  <2>1. /\ LoopTypeOK /\ FromLog /\ group = {}
        /\ reqs = accepted \cup rejected /\ accepted \cap rejected = {}
    BY DEF LoopInv, ClusterInv, Deciding, OutcomeInv, Grouped
  <2>2. accepted = Accepted(reqs) /\ rejected = reqs \ Accepted(reqs)
    BY <2>1, AllInTurn
  <2>3. /\ RequestsOf(reqs \cup rels, bucket) = reqs
        /\ ReleasesOf(reqs \cup rels, bucket) = rels
        /\ EventsOf(reqs \cup rels, bucket) = reqs \cup rels
    BY <2>1 DEF FromLog, RequestsOf, ReleasesOf, EventsOf
  <2>4. row = FoldBucket(reqs \cup rels, bucket)
    BY <2>3 DEF OutcomeInv, Recorded, FoldBucket
  <2>5. Conflicting = ConflictLeaders(reqs) /\ Visited = rels
    BY <2>1, <2>2 DEF Conflicting, ConflictLeaders, Visited
  <2>6. /\ \A x \in ConflictLeaders(reqs) :
             EntryFor(x, reqs) = ConflictEntry(GroupOf(x, reqs), accepted)
        /\ \A x \in Orphans(rels, accepted) : EntryFor(x, reqs) = OrphanEntry(x)
    <3>1. /\ \A x \in ConflictLeaders(reqs) : x.action = "request"
          /\ \A x \in Orphans(rels, accepted) : x.action = "release"
      BY <2>1 DEF ConflictLeaders, Orphans, FromLog
    <3>2. QED
      BY <2>2, <3>1 DEF EntryFor
  <2>7. FoldEntries(reqs \cup rels, bucket)
          = {EntryFor(x, reqs) : x \in ConflictLeaders(reqs) \cup Orphans(rels, accepted)}
    BY <2>2, <2>3 DEF FoldEntries
  <2>8. entries = {ConflictEntry(GroupOf(x, reqs), accepted) : x \in ConflictLeaders(reqs)}
                    \cup {OrphanEntry(x) : x \in Orphans(rels, accepted)}
    BY <2>5 DEF OutcomeInv, Recorded
  <2>9. QED
    BY <2>2, <2>4, <2>6, <2>7, <2>8
<1>2. QED
  BY OutcomeInvariant, <1>1, PTL

\* What is accepted before a request, of any log, is what the request did not
\* fit on top of if it is rejected.
LEMMA RejectedDoesNotFit ==
  ASSUME LoopInv, ClusterInv, OutcomeInv, NEW e \in rejected
  PROVE  ~Fits(e, {f \in accepted : DecidedBefore(f, e, reqs)})
  BY DEF ClusterInv, Deciding, OutcomeInv, InTurn, Resolves

\* A rejected request of any log had its turn: what was accepted before it
\* leaves no room for it.
THEOREM RejectedInTurn == Spec => []RejectedHadTurn
<1>1. LoopInv /\ ClusterInv /\ OutcomeInv => RejectedHadTurn
  <2> SUFFICES ASSUME LoopInv, ClusterInv, OutcomeInv, NEW e \in rejected
               PROVE  Total({f \in accepted : DecidedBefore(f, e, reqs)}) + e.amount
                        > Capacity[bucket]
    BY DEF RejectedHadTurn
  <2> DEFINE before == {f \in accepted : DecidedBefore(f, e, reqs)}
  <2>1. LoopTypeOK /\ e \in reqs /\ e \in Event /\ e.bucket = bucket
    BY DEF LoopInv, LoopTypeOK, OutcomeInv, FromLog
  <2>2. before \in SUBSET Event /\ IsFiniteSet(before)
    BY <2>1, InputType, FS_Subset
  <2>3. ~Fits(e, before)
    BY RejectedDoesNotFit
  <2> HIDE DEF before
  <2>4. Total(before) \in Nat /\ e.amount \in Nat /\ Capacity[bucket] \in Nat
    BY <2>1, <2>2, TotalType, EventType, InputType
  <2>5. Total(before) + e.amount > Capacity[bucket]
    BY <2>1, <2>3, <2>4 DEF Fits
  <2>6. QED
    BY <2>5 DEF before
<1>2. QED
  BY OutcomeInvariant, <1>1, PTL

-----------------------------------------------------------------------------
(* explain_decision and resolve_conflicts rank alike.  The resolver sorts  *)
(* the events of a group by four keys at once; the checks of an            *)
(* explanation narrow the group down one key after the other, and each     *)
(* speaks only when those before it have not decided.                      *)

\* A set with one element that contains e is {e}.
LEMMA SoleFacts ==
  ASSUME NEW S, IsFiniteSet(S), NEW e \in S
  PROVE  Sole(S) = IF S = {e} THEN {e} ELSE {}
<1>1. Cardinality({e}) = 1
  BY FS_Singleton
<1>2. CASE S = {e}
  BY <1>1, <1>2 DEF Sole
<1>3. CASE S # {e}
  <2>1. Cardinality(S) # 1
    <3>1. SUFFICES ASSUME Cardinality(S) = 1 PROVE FALSE
      OBVIOUS
    <3>2. PICK x : S = {x}
      BY <3>1, FS_Singleton
    <3>3. QED
      BY <1>3, <3>2
  <2>2. QED
    BY <1>3, <2>1 DEF Sole
<1>4. QED
  BY <1>2, <1>3

\* The checks of an entry about an overlap name the event that the resolver
\* ranked first, whatever the group.
THEOREM ChecksNameTopRanked ==
  ASSUME NEW S \in SUBSET Event, IsFiniteSet(S), NEW e \in S,
         \A f \in S \ {e} : ResolverBefore(e, f),
         NEW entry, entry.considered = S,
         entry.conflict_type = "overlap_same_region_resource"
  PROVE  CheckWinner(entry) = {e}
<1> DEFINE P == TopPriority(S)
           G == Greenest(P)
<1>1. \A f \in S : /\ f.id \in Nat /\ f.priority \in Int /\ f.carbon \in Int
                   /\ WindowStart(f) \in Int
  BY PayloadFields
<1>2. \A f \in S : f.priority <= e.priority
  BY <1>1 DEF ResolverBefore
<1>3. e \in P /\ P \subseteq S /\ \A f \in P : f.priority = e.priority
  BY <1>1, <1>2 DEF TopPriority
<1>4. \A f \in P : e.carbon <= f.carbon
  BY <1>1, <1>3 DEF ResolverBefore
<1>5. e \in G /\ G \subseteq P /\ \A f \in G : f.carbon = e.carbon
  BY <1>1, <1>3, <1>4 DEF Greenest
<1>6. \A f \in G \ {e} : StartsBefore(e, f)
  BY <1>1, <1>3, <1>5 DEF ResolverBefore
<1>7. EarliestStart(G) = {e}
  <2> DEFINE E == {f \in G : \A g \in G : WindowStart(f) <= WindowStart(g)}
  <2>1. e \in E
    BY <1>1, <1>3, <1>5, <1>6 DEF StartsBefore
  <2>2. \A f \in E \ {e} : StartsBefore(e, f)
    BY <1>6
  <2>3. \A f \in E \ {e} : ~StartsBefore(f, e)
    BY <1>1, <1>3, <1>5, <2>1, <2>2 DEF StartsBefore
  <2>4. FirstStarting(E) = {e}
    BY <2>1, <2>2, <2>3 DEF FirstStarting
  <2>5. QED
    BY <2>4 DEF EarliestStart
<1>8. IsFiniteSet(P) /\ IsFiniteSet(G)
  BY <1>3, <1>5, FS_Subset
<1>9. PriorityWinner(S) = IF P = {e} THEN {e} ELSE {}
  BY <1>3, <1>8, SoleFacts DEF PriorityWinner
<1>10. Sole(G) = IF G = {e} THEN {e} ELSE {}
  BY <1>5, <1>8, SoleFacts
<1>11. CarbonWinner(S) = IF P # {e} /\ G = {e} THEN {e} ELSE {}
  BY <1>9, <1>10 DEF CarbonWinner
<1>12. StartWinner(S) = IF P # {e} /\ G # {e} THEN {e} ELSE {}
  BY <1>7, <1>9, <1>11 DEF StartWinner
<1>13. QED
  BY <1>9, <1>11, <1>12 DEF CheckWinner

\* The explanation of every entry that a fold of any log leaves names the event
\* that the resolver ranked first; another winner is shown only if that event
\* was rejected, and then it exceeds what the groups before left by itself.
THEOREM ExplainsDecisions == Spec => []ExplanationAgrees
<1>1. LoopInv /\ ClusterInv /\ OutcomeInv => ExplanationAgrees
  <2> SUFFICES ASSUME LoopInv, ClusterInv, OutcomeInv, pc = "done", NEW entry \in entries,
                      entry.conflict_type = "overlap_same_region_resource"
               PROVE  LET winner == CheckWinner(entry)
                          taken(e) == {f \in accepted \ entry.considered :
                                         DecidedBefore(f, e, reqs)}
                      IN  /\ winner = TopRanked(entry.considered)
                          /\ IF winner \subseteq entry.accepted
                               THEN ShownWinner(entry) = winner
                               ELSE \A e \in winner : ~Fits(e, taken(e))
    BY DEF ExplanationAgrees
  <2>1. /\ LoopTypeOK /\ FromLog /\ reqs \in SUBSET Event /\ Distinct(reqs)
        /\ reqs = accepted \cup rejected
    BY DEF LoopInv, LoopTypeOK, ClusterInv, Deciding, OutcomeInv, FromLog
  <2>2. PICK x \in Conflicting : entry = ConflictEntry(GroupOf(x, reqs), accepted)
    <3>1. \A r \in Orphans(Visited, accepted) : entry # OrphanEntry(r)
      BY DEF OrphanEntry
    <3>2. QED
      BY <3>1 DEF OutcomeInv, Recorded
  <2> DEFINE G == GroupOf(x, reqs)
             O == {p \in reqs \X reqs : ResolverBefore(p[1], p[2])}
  <2>3. entry.considered = G /\ entry.accepted = G \cap accepted
    BY <2>2 DEF ConflictEntry
  <2>4. /\ G \in SUBSET Event /\ G \subseteq reqs /\ IsFiniteSet(G) /\ G # {}
        /\ \A e, f \in G : SameGroup(e, f, reqs)
    <3>1. x \in reqs
      BY <2>1 DEF Conflicting
    <3>2. G \subseteq reqs
      BY DEF GroupOf
    <3>3. IsFiniteSet(G)
      BY <2>1, <3>2, FS_Subset DEF LoopTypeOK
    <3>4. QED
      BY <2>1, <3>1, <3>2, <3>3 DEF GroupOf, SameGroup
  <2>5. PICK e \in G : \A f \in G \ {e} : ResolverBefore(e, f)
    <3>1. /\ \A y \in G : <<y, y>> \notin O
          /\ \A y, z, w \in G : <<y, z>> \in O /\ <<z, w>> \in O => <<y, w>> \in O
      BY <2>1, <2>4, ResolverOrder
    <3>2. PICK e \in G : \A f \in G : <<f, e>> \notin O
      <4> HIDE DEF G, O
      <4>1. QED
        BY <2>4, <3>1, FiniteSetHasFirst
    <3>3. \A f \in G \ {e} : ResolverBefore(e, f)
      BY <2>1, <2>4, <3>2, ResolverOrder
    <3>4. QED
      BY <3>3
  <2>6. \A f \in G : ~ResolverBefore(f, e)
    BY <2>1, <2>4, <2>5, ResolverOrder
  <2> HIDE DEF G
  <2>7. CheckWinner(entry) = {e}
    BY <2>3, <2>4, <2>5, ChecksNameTopRanked
  <2>8. TopRanked(G) = {e}
    BY <2>5, <2>6 DEF TopRanked
  <2>9. e \in accepted => ShownWinner(entry) = {e}
    BY <2>3, <2>5, <2>6 DEF ShownWinner
  <2>10. e \notin accepted => ~Fits(e, {f \in accepted \ G : DecidedBefore(f, e, reqs)})
    <3> SUFFICES ASSUME e \notin accepted
                 PROVE  ~Fits(e, {f \in accepted \ G : DecidedBefore(f, e, reqs)})
      OBVIOUS
    <3>1. e \in rejected
      BY <2>1, <2>4
    <3>2. \A f \in G : ~DecidedBefore(f, e, reqs)
      BY <2>4, <2>6 DEF DecidedBefore
    <3>3. {f \in accepted \ G : DecidedBefore(f, e, reqs)}
            = {f \in accepted : DecidedBefore(f, e, reqs)}
      BY <3>2
    <3>4. QED
      BY <3>1, <3>3, RejectedDoesNotFit
  <2>11. QED
    BY <2>3, <2>5, <2>7, <2>8, <2>9, <2>10
<1>2. QED
  BY OutcomeInvariant, <1>1, PTL

=============================================================================
