-------------------------- MODULE EngineProperties --------------------------
(***************************************************************************)
(* What the allocation engine promises.  The deployment decides which of   *)
(* these hold: the Dockerfile starts one worker.                           *)
(***************************************************************************)
EXTENDS AllocationEngine, TimeTravel

-----------------------------------------------------------------------------
(* For any number of processes, with crashes.                              *)

\* The dedup check and the primary key together: no two stored events share
\* an event_id, even when two processes pass the dedup check with it.
UniqueIds == \A e, f \in db.events : e.id = f.id => e = f

\* Nothing the engine does, a rebuild, a crash or a late commit of a stale
\* transaction included, removes or replaces a stored event.
LogAppendOnly == [][db.events \subseteq db'.events]_vars

\* What a client was told stays true: an event answered 200 is in the log,
\* and a 409 was given only for an id that is there.
AnswersDurable ==
  /\ acked \subseteq db.events
  /\ Ids(duplicates) \subseteq Ids(db.events)

\* No two requests, of one payload or of two with the same event_id, are
\* both on their way to a 200, and none is once its id was answered 200.
AppliedOnce ==
  \A v \in Worker :
    pc[v] \notin {"idle", "append"} =>
      /\ Ids(task[v].posted) \cap Ids(acked) = {}
      /\ \A w \in Worker \ {v} :
           pc[w] \notin {"idle", "append"} =>
             Ids(task[v].posted) \cap Ids(task[w].posted) = {}

\* The engine implements EventLedger: no step of any handler, rebuild or crash
\* does more to the log and the answers than store an event under a new id,
\* answer 200 once to an event that is stored, or 409 to an id that is.
ClientLedger ==
  INSTANCE EventLedger WITH log <- db.events, answered <- acked, refused <- duplicates

KeepsClientLedger == ClientLedger!Spec

\* No row, not even one folded from queries that saw different logs, shows
\* more than the capacity of its bucket.
RowsWithinCapacity ==
  \A b \in Bucket : db.snapshot[b].allocated <= Capacity[b]

-----------------------------------------------------------------------------
(* For one worker and no replayer.                                         *)

Quiet == \A p \in Process : pc[p] = "idle"

CanFold(b) == Foldable(RequestsOf(db.events, b))

Current(b) == db.snapshot[b].version = Cardinality(EventsOf(db.events, b))

\* Between requests the snapshot is the fold of the log.
QuiescentConsistent ==
  Quiet => \A b \in Bucket :
             CanFold(b) => db.snapshot[b] = Projection(db.events)[b]

\* A row that counts as many events as the log holds is the fold of them,
\* at every moment and after any crash: a row is never newer than its
\* version says, nor a mixture.
VersionHonest ==
  \A b \in Bucket :
    CanFold(b) /\ Current(b) => db.snapshot[b] = Projection(db.events)[b]

\* Every decision behind a visible row is in the audit log: the entries of a
\* fold are committed before its row, and a rebuild drops the rows before it
\* drops the entries.
AuditBehindRow ==
  \A b \in Bucket :
    CanFold(b) /\ Current(b) =>
      FoldEntries(db.events, b) \subseteq BagToSet(db.audit)

\* A conflict or an orphan release is recorded at most once for each event of
\* its bucket: every event folds the bucket once and is not folded again by a
\* retry, and a rebuild starts from an empty table.
EntriesBounded ==
  \A entry \in BagToSet(db.audit) :
    \A e \in entry.considered :
      db.audit[entry] <= Cardinality(EventsOf(db.events, e.bucket))

\* Time travel to the last event, or past it, shows what GET /state shows.
PresentIsHistory ==
  Quiet =>
    \A target \in 0 .. MaxTime :
      /\ CanTravel(db.events, target)
      /\ \A e \in db.events : WindowStart(e) <= target
      => StateAt(db.events, target) = db.snapshot

\* A rebuild that finishes leaves the snapshot that the log determines,
\* whatever crashes left behind before it.
RebuildRestores ==
  [][\A p \in Process :
       FinishRebuild(p) => db'.snapshot = Projection(db.events)]_vars

\* One worker implements Ledger: a row changes only to what the log says at
\* that moment, except that a rebuild empties the table, and the 200 of an
\* event leaves the row of its bucket right.
WorkerLedger ==
  INSTANCE Ledger WITH
    log <- db.events, answered <- acked, refused <- duplicates, table <- db.snapshot

KeepsWorkerLedger == WorkerLedger!Spec

-----------------------------------------------------------------------------
(* Liveness.                                                               *)

\* Every handler ends: the busy timeout turns a lock that is never given
\* back into an error, so no process waits for another for ever.
HandlersEnd == \A p \in Process : pc[p] # "idle" ~> pc[p] = "idle"

\* Every stored event reaches the row of its bucket.
EventsReachRow ==
  \A e \in Event : e \in db.events ~> Current(e.bucket)

-----------------------------------------------------------------------------
(* What the documentation says and the code does not do.                   *)

\* "No state change occurred ... the system is consistent" (events.py): an
\* event answered 409 is in the row of its bucket when nothing is running.
\* After a crash between append and upsert it is not, and every retry of the
\* client is answered 409.
DuplicateIsNoOp ==
  Quiet => \A e \in duplicates : Current(e.bucket)

\* "Return the current state" (get_current_state): a SELECT of an idle worker
\* sees what is committed.  A refused write froze its view.
ReadsCurrent ==
  \A w \in Worker :
    pc[w] = "idle" /\ conn[w].mode = "reading" => conn[w].view = db

\* "Returns the min and max timestamp of all ingested events" (events.py): no
\* event is earlier than the first or later than the last.  MIN and MAX compare
\* texts, whose order is not that of instants when the UTC offsets differ.
RangeCoversLog ==
  \A e \in db.events :
    /\ \A first \in MinTimestamp(db.events) : WindowStart(first) <= WindowStart(e)
    /\ \A last \in MaxTimestamp(db.events) : WindowStart(e) <= WindowStart(last)

=============================================================================
