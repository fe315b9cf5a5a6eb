-------------------------- MODULE ConflictResolver --------------------------
(***************************************************************************)
(* What app/services/conflict_resolver.py and the fold of                  *)
(* app/services/state_reconstructor.py compute from the events of one      *)
(* bucket, stated by its outcome: which request is accepted, which release *)
(* is an orphan, and the row of state_snapshot.  FoldLoop has the loops    *)
(* that compute it.                                                        *)
(***************************************************************************)
EXTENDS AllocEvents

(***************************************************************************)
(* find_overlapping_groups.  The sweep sorts the requests by instant and   *)
(* flushes the current group at an event that starts when everything       *)
(* before it has ended.  Two requests share a group when they come after   *)
(* the same flushes.                                                       *)
(***************************************************************************)
StartsGroup(e, R) ==
  \A f \in R : StartsBefore(f, e) => WindowEnd(f) <= WindowStart(e)

Leaders(e, R) ==
  {g \in R : StartsGroup(g, R) /\ (g = e \/ StartsBefore(g, e))}

SameGroup(e, f, R) == Leaders(e, R) = Leaders(f, R)

GroupOf(e, R) == {f \in R : SameGroup(e, f, R)}

-----------------------------------------------------------------------------
(***************************************************************************)
(* resolve_conflicts.  A group is ranked by priority (higher first),       *)
(* carbon intensity (lower first), instant, event_id, and accepted         *)
(* greedily.  The capacity open to it is what the groups before it left:   *)
(* _fold_bucket never returns capacity when a window ends.                 *)
(***************************************************************************)
ResolverBefore(e, f) ==
  \/ e.priority > f.priority
  \/ e.priority = f.priority /\ e.carbon < f.carbon
  \/ e.priority = f.priority /\ e.carbon = f.carbon /\ StartsBefore(e, f)

\* The fold decides f before it decides e.
DecidedBefore(f, e, R) ==
  IF SameGroup(e, f, R) THEN ResolverBefore(f, e) ELSE StartsBefore(f, e)

\* Mutant: what was taken is not counted.
FitsAnyhow(e, taken) == e.amount <= Capacity[e.bucket]

\* Rule 4, the hard cap: e fits on top of what was taken before it.
Fits(e, taken) == Total(taken) + e.amount <= Capacity[e.bucket]

Accepted(R) ==
  LET accepts[e \in R] ==
        Fits(e, {f \in R : DecidedBefore(f, e, R) /\ accepts[f]})
  IN  {e \in R : accepts[e]}

-----------------------------------------------------------------------------
(***************************************************************************)
(* is_orphan_release: no accepted request of the same user in the bucket.  *)
(* Neither the order of the two events nor their amounts play a part.      *)
(***************************************************************************)
IsOrphanRelease(rel, accepted) == \A r \in accepted : r.user # rel.user

Orphans(rels, accepted) == {rel \in rels : IsOrphanRelease(rel, accepted)}

-----------------------------------------------------------------------------
(***************************************************************************)
(* The audit entries of a fold: one for each group with a rejection, one   *)
(* for each orphan release.  x is the first event of the group, or the     *)
(* release.                                                                *)
(***************************************************************************)
ConflictLeaders(R) ==
  LET accepted == Accepted(R)
  IN  {e \in R : StartsGroup(e, R) /\ ~ (GroupOf(e, R) \subseteq accepted)}

AuditEntry ==
  [ conflict_type : {"overlap_same_region_resource", "orphan_release"},
    considered    : SUBSET Event,
    accepted      : SUBSET Event,
    rejected      : SUBSET Event ]

ConflictEntry(group, accepted) ==
  [ conflict_type |-> "overlap_same_region_resource",
    considered    |-> group,
    accepted      |-> group \cap accepted,
    rejected      |-> group \ accepted ]

OrphanEntry(x) ==
  [ conflict_type |-> "orphan_release",
    considered    |-> {x},
    accepted      |-> {},
    rejected      |-> {} ]

EntryFor(x, R) ==
  IF x.action = "request"
    THEN ConflictEntry(GroupOf(x, R), Accepted(R))
    ELSE OrphanEntry(x)

-----------------------------------------------------------------------------
(***************************************************************************)
(* The row of state_snapshot.  The bucket's requests, its releases and all *)
(* its events come from three queries, which need not agree.               *)
(***************************************************************************)
Row ==
  [ allocated : Nat, carbon : Nat, version : Nat, last : SUBSET Event ]

\* _read_bucket answers this for a bucket without a row.
NoRow == [allocated |-> 0, carbon |-> 0, version |-> 0, last |-> {}]

\* Mutant: no clamp at zero.
Unclamped(n) == n

NonNegative(n) == IF n < 0 THEN 0 ELSE n

FoldRow(reqs, rels, all) ==
  LET accepted == Accepted(reqs)
  IN  [ allocated |-> NonNegative(Total(accepted)
                                  - Total(rels \ Orphans(rels, accepted))),
        carbon    |-> TotalCarbon(accepted),
        version   |-> Cardinality(all),
        last      |-> Latest(all) ]

\* A fold whose three queries see the same log.
FoldBucket(log, b) ==
  FoldRow(RequestsOf(log, b), ReleasesOf(log, b), EventsOf(log, b))

\* The audit entries that same fold writes.
FoldEntries(log, b) ==
  LET reqs == RequestsOf(log, b)
  IN  {EntryFor(x, reqs) :
         x \in ConflictLeaders(reqs)
               \cup Orphans(ReleasesOf(log, b), Accepted(reqs))}

\* The snapshot a rebuild on a quiet database leaves: a row for each bucket
\* with an event.
Projection(log) ==
  [b \in Bucket |->
     IF EventsOf(log, b) = {} THEN NoRow ELSE FoldBucket(log, b)]

=============================================================================
