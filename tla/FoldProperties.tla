--------------------------- MODULE FoldProperties ---------------------------
(***************************************************************************)
(* What the loops of FoldLoop compute.                                     *)
(***************************************************************************)
EXTENDS FoldLoop, Explainability

LoopTypeOK ==
  /\ pc \in {"sweep", "groups", "resolve", "releases", "done"}
  /\ bucket \in Bucket
  /\ reqs \subseteq Event /\ IsFiniteSet(reqs)
  /\ rels \subseteq Event /\ IsFiniteSet(rels)
  /\ todo \subseteq reqs \cup rels
  /\ current \subseteq reqs
  /\ maxEnd \in Int
  /\ groups \subseteq SUBSET reqs
  /\ group \subseteq reqs
  /\ available \in Nat
  /\ running \in Nat
  /\ accepted \subseteq reqs
  /\ rejected \subseteq reqs
  /\ released \subseteq rels
  /\ entries \subseteq AuditEntry
  /\ row \in Row

\* Some pair overlaps across every way to split the group in two.
Connected(g) ==
  \A S \in (SUBSET g) \ {{}, g} : \E e \in S, f \in g \ S : Overlaps(e, f)

Apart(g, h) == \A e \in g, f \in h : ~Overlaps(e, f)

\* "Events overlap if their windows intersect", and a group is a cluster of
\* them: the groups of the sweep, which never looks at pairs, cover the
\* requests, none can be split without separating an overlapping pair, and no
\* pair overlaps across two of them.
GroupsAreComponents ==
  pc = "groups" /\ accepted \cup rejected = {} =>
    /\ UNION groups = reqs
    /\ \A g \in groups : Connected(g)
    /\ \A g, h \in groups : g # h => Apart(g, h)

\* Rule 4 of conflict_resolver.py, "always enforced": at no moment of the
\* group loop do the accepted requests of all groups together exceed the
\* capacity, and neither does the row.
HardCap ==
  /\ Total(accepted) <= Capacity[bucket]
  /\ row.allocated <= Capacity[bucket]

\* The loops compute the resolution that ConflictResolver states: the same
\* requests accepted, the same audit entries and the same row.
ComputesFold ==
  pc = "done" =>
    /\ accepted = Accepted(reqs)
    /\ rejected = reqs \ Accepted(reqs)
    /\ entries = FoldEntries(reqs \cup rels, bucket)
    /\ row = FoldBucket(reqs \cup rels, bucket)

\* Every request is decided, and once: none is lost between the sweep, which
\* flushes the last group after its loop, and the group loop.
EveryRequestDecided ==
  pc = "done" => accepted \cup rejected = reqs /\ accepted \cap rejected = {}

\* A rejected request had its turn: the accepted requests that were decided
\* before it leave no room for it.
RejectedHadTurn ==
  pc = "done" =>
    \A e \in rejected :
      Total({f \in accepted : DecidedBefore(f, e, reqs)}) + e.amount
        > Capacity[bucket]

\* explain_decision ranks the events of an entry by its own checks, which must
\* name the event the resolver ranked first.  The winner it shows is another
\* one only when that event was rejected, and then not for its rank: alone it
\* exceeds what the groups before left.
ExplanationAgrees ==
  pc = "done" =>
    \A entry \in entries :
      entry.conflict_type = "overlap_same_region_resource" =>
        LET winner == CheckWinner(entry)
            taken(e) == {f \in accepted \ entry.considered : DecidedBefore(f, e, reqs)}
        IN  /\ winner = TopRanked(entry.considered)
            /\ IF winner \subseteq entry.accepted
                 THEN ShownWinner(entry) = winner
                 ELSE \A e \in winner : ~Fits(e, taken(e))

=============================================================================
