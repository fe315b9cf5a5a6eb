-------------------------- MODULE AllocationEngine --------------------------
(***************************************************************************)
(* The event-sourced engine: POST /events (app/routers/events.py,          *)
(* event_store.ingest_event, state_reconstructor.apply_event_to_state), a  *)
(* full rebuild (POST /admin/replay and python -m app.replay), the reads   *)
(* of the API, and crashes, over the database of SqliteWal.                *)
(*                                                                         *)
(* A worker is a process of the API server.  Its handlers never await, so  *)
(* it serves one request at a time; what interleaves is the SQL of         *)
(* different processes, and a step here is one SQL statement, with its     *)
(* commit when that follows at once.  A replayer is a command-line process *)
(* that rebuilds and exits.                                                *)
(***************************************************************************)
EXTENDS SqliteWal

CONSTANTS
  Replayer,   \* the processes that run python -m app.replay
  Rebuilder,  \* the processes that rebuild; a worker does on POST /admin/replay
  Crashable   \* the processes that may crash

ASSUME ProcessAssumption ==
  Replayer \subseteq Rebuilder /\ Rebuilder \subseteq Process

Worker == Process \ Replayer

VARIABLES
  pc,          \* where each process is
  task,        \* the locals of the handler it runs
  acked,       \* the events answered 200, as their clients know it
  duplicates   \* the payloads answered 409

vars == <<db, conn, pc, task, acked, duplicates>>

Location ==
  {"idle", "append", "dropSnapshot", "dropAudit",
   "requests", "conflicts", "orphans", "upsert", "commit"}

Task ==
  [ posted : SUBSET Event,   \* the event of a POST; empty in a rebuild
    keys   : SUBSET Bucket,  \* the buckets still to fold
    reqs   : SUBSET Event,   \* request_events of _fold_bucket
    rels   : SUBSET Event,   \* release_events of _fold_bucket
    todo   : SUBSET Event,   \* what an audit entry is still to be written for
    row    : Row ]           \* the new bucket

NoTask ==
  [posted |-> {}, keys |-> {}, reqs |-> {}, rels |-> {}, todo |-> {}, row |-> NoRow]

TypeOK ==
  /\ WalTypeOK
  /\ pc \in [Process -> Location]
  /\ task \in [Process -> Task]
  /\ acked \subseteq Event
  /\ duplicates \subseteq Event

Init ==
  /\ WalInit
  /\ pc = [p \in Process |-> "idle"]
  /\ task = [p \in Process |-> NoTask]
  /\ acked = {}
  /\ duplicates = {}

\* p goes on to location l with the locals t.
Goto(p, l, t) ==
  /\ pc' = [pc EXCEPT ![p] = l]
  /\ task' = [task EXCEPT ![p] = t]

\* The handler of p ends.
Done(p) == Goto(p, "idle", NoTask)

\* An exception ends the handler and leaves the connection as c: a worker
\* answers 500 and keeps it, open transaction and all; a replayer exits.
Raise(p, c) ==
  /\ Done(p)
  /\ conn' = [conn EXCEPT ![p] = IF p \in Replayer THEN Closed ELSE c]
  /\ UNCHANGED <<db, acked, duplicates>>

\* Mutant: no busy timeout, so a locked database makes its processes wait.
WaitForEver(p) == FALSE /\ p \in Process

Refused(p) == ~CanWrite(p) /\ Raise(p, AfterRefusal(p))

Key(p) == CHOOSE b \in task[p].keys : \A c \in task[p].keys : b <= c

-----------------------------------------------------------------------------
(* POST /events: dedup check, append, then the fold of one bucket.         *)

\* Mutant: the dedup check also knows the ids that are being processed.
SeenInMemory(w, e) ==
  \/ e.id \in Ids(View(w).events)
  \/ \E v \in Worker : e.id \in Ids(task[v].posted)

Seen(w, e) == e.id \in Ids(View(w).events)

\* The dedup SELECT answers 409 or lets the event through.
Receive(w) ==
  /\ pc[w] = "idle"
  /\ \E e \in Event :
       IF Seen(w, e)
         THEN /\ duplicates' = duplicates \cup {e}
              /\ UNCHANGED <<pc, task>>
         ELSE /\ Goto(w, "append", [NoTask EXCEPT !.posted = {e}, !.keys = {e.bucket}])
              /\ UNCHANGED duplicates
  /\ Select(w)
  /\ UNCHANGED acked

\* Mutant: event_id is not the primary key.
NoPrimaryKey(v, e) == FALSE /\ e \in v.events

KeyTaken(v, e) == e.id \in Ids(v.events)

\* Mutant: INSERT OR REPLACE.
AppendOrReplace(w) ==
  /\ pc[w] = "append"
  /\ \/ \E e \in task[w].posted :
          /\ Publish(w, [View(w) EXCEPT
                           !.events = {f \in @ : f.id # e.id} \cup {e}])
          /\ Goto(w, "requests", task[w])
          /\ UNCHANGED <<acked, duplicates>>
     \/ Refused(w)

\* INSERT INTO events and its commit.  The primary key refuses an id that
\* another process stored since the dedup check: the IntegrityError leaves
\* the transaction open and the write lock taken.
Append(w) ==
  /\ pc[w] = "append"
  /\ \/ \E e \in task[w].posted :
          LET v == View(w) IN
          \/ /\ ~KeyTaken(v, e)
             /\ Publish(w, [v EXCEPT !.events = @ \cup {e}])
             /\ Goto(w, "requests", task[w])
             /\ UNCHANGED <<acked, duplicates>>
          \/ /\ KeyTaken(v, e)
             /\ CanWrite(w)
             /\ Raise(w, [mode |-> "writing", view |-> v, stale |-> FALSE])
     \/ Refused(w)

-----------------------------------------------------------------------------
(* _fold_bucket, on the bucket Key(p).                                     *)

SelectRequests(p) ==
  /\ pc[p] = "requests"
  /\ LET R == RequestsOf(View(p).events, Key(p))
     IN  \/ /\ Foldable(R)
            /\ Goto(p, "conflicts",
                    [task[p] EXCEPT !.reqs = R, !.todo = ConflictLeaders(R)])
            /\ Select(p)
            /\ UNCHANGED <<acked, duplicates>>
         \/ ~Foldable(R) /\ Raise(p, AfterSelect(p))

\* What the fold records next: its groups in the order of the sweep, then its
\* orphan releases in the order of the log.
NextRecorded(p) ==
  IF pc[p] = "conflicts" THEN FirstStarting(task[p].todo) ELSE Earliest(task[p].todo)

\* Mutant: an entry that is there is not written again.
WriteAuditOnce(p) ==
  /\ pc[p] \in {"conflicts", "orphans"}
  /\ task[p].todo # {}
  /\ \/ \E x \in NextRecorded(p) :
          LET entry == EntryFor(x, task[p].reqs)
              audit == View(p).audit
          IN  /\ Publish(p, [View(p) EXCEPT
                               !.audit = IF BagIn(entry, @) THEN audit
                                         ELSE audit (+) SetToBag({entry})])
              /\ Goto(p, pc[p], [task[p] EXCEPT !.todo = @ \ {x}])
              /\ UNCHANGED <<acked, duplicates>>
     \/ Refused(p)

\* write_audit_entry: an INSERT and a commit for each entry.  The commit also
\* publishes the rows a rebuild has upserted so far.
WriteAudit(p) ==
  /\ pc[p] \in {"conflicts", "orphans"}
  /\ task[p].todo # {}
  /\ \/ \E x \in NextRecorded(p) :
          /\ Publish(p, [View(p) EXCEPT
                           !.audit = @ (+) SetToBag({EntryFor(x, task[p].reqs)})])
          /\ Goto(p, pc[p], [task[p] EXCEPT !.todo = @ \ {x}])
          /\ UNCHANGED <<acked, duplicates>>
     \/ Refused(p)

\* Mutant: the online path looks only at the release it was posted.
SelectPostedRelease(p) ==
  /\ pc[p] = "conflicts"
  /\ task[p].todo = {}
  /\ LET all == ReleasesOf(View(p).events, Key(p))
         rels == IF task[p].posted = {} THEN all ELSE all \cap task[p].posted
     IN  Goto(p, "orphans",
              [task[p] EXCEPT !.rels = rels,
                              !.todo = Orphans(rels, Accepted(task[p].reqs))])
  /\ Select(p)
  /\ UNCHANGED <<acked, duplicates>>

SelectReleases(p) ==
  /\ pc[p] = "conflicts"
  /\ task[p].todo = {}
  /\ LET rels == ReleasesOf(View(p).events, Key(p))
     IN  Goto(p, "orphans",
              [task[p] EXCEPT !.rels = rels,
                              !.todo = Orphans(rels, Accepted(task[p].reqs))])
  /\ Select(p)
  /\ UNCHANGED <<acked, duplicates>>

SelectAll(p) ==
  /\ pc[p] = "orphans"
  /\ task[p].todo = {}
  /\ LET all == EventsOf(View(p).events, Key(p))
     IN  Goto(p, "upsert",
              [task[p] EXCEPT !.row = FoldRow(task[p].reqs, task[p].rels, all)])
  /\ Select(p)
  /\ UNCHANGED <<acked, duplicates>>

-----------------------------------------------------------------------------
(* The end of the fold.  A POST commits its row and answers 200; a rebuild *)
(* keeps its transaction open and goes on to the next bucket.              *)

\* Mutant: ON CONFLICT DO NOTHING.
InsertedOnce(p) ==
  IF View(p).snapshot[Key(p)] = NoRow
    THEN [View(p) EXCEPT !.snapshot[Key(p)] = task[p].row]
    ELSE View(p)

\* Mutant: the UPDATE of an existing row forgets the amount.
AmountForgotten(p) ==
  LET old == View(p).snapshot[Key(p)]
      amount == IF old = NoRow THEN task[p].row.allocated ELSE old.allocated
  IN  [View(p) EXCEPT !.snapshot[Key(p)] = [task[p].row EXCEPT !.allocated = amount]]

Upserted(p) == [View(p) EXCEPT !.snapshot[Key(p)] = task[p].row]

UpsertPosted(w) ==
  /\ pc[w] = "upsert"
  /\ task[w].posted # {}
  /\ \/ /\ Publish(w, Upserted(w))
        /\ acked' = acked \cup task[w].posted
        /\ Done(w)
        /\ UNCHANGED duplicates
     \/ Refused(w)

UpsertRebuilt(p) ==
  /\ pc[p] = "upsert"
  /\ task[p].posted = {}
  /\ \/ /\ Write(p, Upserted(p))
        /\ LET rest == task[p].keys \ {Key(p)}
           IN  Goto(p, IF rest = {} THEN "commit" ELSE "requests",
                    [NoTask EXCEPT !.keys = rest])
        /\ UNCHANGED <<acked, duplicates>>
     \/ Refused(p)

-----------------------------------------------------------------------------
(* rebuild_state_from_events.                                              *)

StartRebuild(p) ==
  /\ p \in Rebuilder
  /\ pc[p] = "idle"
  /\ Goto(p, "dropSnapshot",
          [NoTask EXCEPT !.keys = {e.bucket : e \in View(p).events}])
  /\ Select(p)
  /\ UNCHANGED <<acked, duplicates>>

\* Mutant: the audit log is truncated first.
DropAuditFirst(p) ==
  /\ pc[p] = "dropSnapshot"
  /\ \/ /\ Publish(p, [View(p) EXCEPT !.audit = EmptyBag])
        /\ Goto(p, "dropAudit", task[p])
        /\ UNCHANGED <<acked, duplicates>>
     \/ Refused(p)

DropSnapshot(p) ==
  /\ pc[p] = "dropSnapshot"
  /\ \/ /\ Publish(p, [View(p) EXCEPT !.snapshot = EmptySnapshot])
        /\ Goto(p, "dropAudit", task[p])
        /\ UNCHANGED <<acked, duplicates>>
     \/ Refused(p)

\* Mutant: the audit log is kept.
KeepAudit(p) ==
  /\ pc[p] = "dropAudit"
  /\ \/ /\ Publish(p, View(p))
        /\ Goto(p, IF task[p].keys = {} THEN "commit" ELSE "requests", task[p])
        /\ UNCHANGED <<acked, duplicates>>
     \/ Refused(p)

DropAudit(p) ==
  /\ pc[p] = "dropAudit"
  /\ \/ /\ Publish(p, [View(p) EXCEPT !.audit = EmptyBag])
        /\ Goto(p, IF task[p].keys = {} THEN "commit" ELSE "requests", task[p])
        /\ UNCHANGED <<acked, duplicates>>
     \/ Refused(p)

\* Mutant: the last commit is missing.
FinishUncommitted(p) ==
  /\ pc[p] = "commit"
  /\ Done(p)
  /\ UNCHANGED <<db, conn, acked, duplicates>>

FinishRebuild(p) ==
  /\ pc[p] = "commit"
  /\ Commit(p)
  /\ Done(p)
  /\ UNCHANGED <<acked, duplicates>>

-----------------------------------------------------------------------------
(* The read endpoints only SELECT, which matters when a refused DML left   *)
(* the worker's transaction open.                                          *)
Read(w) ==
  /\ pc[w] = "idle"
  /\ Select(w)
  /\ UNCHANGED <<pc, task, acked, duplicates>>

\* The process dies, its open transaction with it; a worker is restarted.
Crash(p) ==
  /\ p \in Crashable
  /\ Done(p)
  /\ conn' = [conn EXCEPT ![p] = Closed]
  /\ UNCHANGED <<db, acked, duplicates>>

-----------------------------------------------------------------------------
\* The next statement of a handler that has started.
FoldStep(p) ==
  \/ SelectRequests(p)
  \/ WriteAudit(p)
  \/ SelectReleases(p)
  \/ SelectAll(p)

RebuildStep(p) ==
  \/ DropSnapshot(p)
  \/ DropAudit(p)
  \/ UpsertRebuilt(p)
  \/ FinishRebuild(p)

PostStep(w) == Append(w) \/ UpsertPosted(w)

Continue(p) == FoldStep(p) \/ RebuildStep(p) \/ (p \in Worker /\ PostStep(p))

Next ==
  \/ \E w \in Worker : Receive(w) \/ Read(w)
  \/ \E p \in Process : StartRebuild(p) \/ Continue(p) \/ Crash(p)

Spec == Init /\ [][Next]_vars

\* The interpreter goes on with a handler it has started.  Clients need not
\* send anything, and no crash is due.
Fairness == \A p \in Process : WF_vars(Continue(p))

FairSpec == Spec /\ Fairness
=============================================================================
