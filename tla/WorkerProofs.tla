---------------------------- MODULE WorkerProofs ----------------------------
(***************************************************************************)
(* One process alone, as the Dockerfile starts it: what its table of rows  *)
(* and its audit log show at every moment, for every log, through failed   *)
(* handlers, rebuilds, crashes and losses of power.                        *)
(*                                                                         *)
(* Two facts carry the rest.  Every row is the fold of events that the log *)
(* holds, and the entries of that fold are recorded (RowBacked): a row may *)
(* be old, but it is never a mixture, and its version tells how old it is. *)
(* And a handler that is under way has read the log as it is (FoldKnows),  *)
(* since nobody else writes to it.                                         *)
(***************************************************************************)
EXTENDS EngineProofs, PowerLoss

Alone == \E w : Process = {w}

\* The row of b is the fold of events of the log, with its entries recorded.
RowBacked(d, b) ==
  \E L \in SUBSET d.events :
    /\ d.snapshot[b] = Projection(L)[b]
    /\ FoldEntries(L, b) \subseteq BagToSet(d.audit)

Backed(d) == \A b \in Bucket : RowBacked(d, b)

EntriesIn(X, R, d) == \A x \in X : EntryFor(x, R) \in BagToSet(d.audit)

Reading == {"requests", "conflicts", "orphans", "upsert"}

\* What a fold at l has found in the log, which its connection sees in v.
FoldKnows(l, t, v) ==
  LET b == FirstKey(t.keys)
      R == RequestsOf(v.events, b)
  IN  /\ l \in Reading => \A c \in t.keys : EventsOf(v.events, c) # {}
      /\ l \in Reading \ {"requests"} => t.reqs = R
      /\ l = "conflicts" =>
           /\ t.todo \subseteq ConflictLeaders(R)
           /\ EntriesIn(ConflictLeaders(R) \ t.todo, R, v)
      /\ l \in {"orphans", "upsert"} =>
           /\ t.rels = ReleasesOf(v.events, b)
           /\ EntriesIn(ConflictLeaders(R), R, v)
      /\ l = "orphans" =>
           /\ t.todo \subseteq Orphans(t.rels, Accepted(R))
           /\ EntriesIn(Orphans(t.rels, Accepted(R)) \ t.todo, R, v)
      /\ l = "upsert" =>
           /\ t.row = FoldBucket(v.events, b)
           /\ EntriesIn(Orphans(t.rels, Accepted(R)), R, v)

\* What a POST and a rebuild have done before.
HandlerKnows(l, t, v) ==
  /\ l = "append" =>
       \E e \in Event : t.posted = {e} /\ t.keys = {e.bucket} /\ e.id \notin Ids(v.events)
  /\ l \in Reading /\ t.posted # {} =>
       \E e \in v.events : t.posted = {e} /\ t.keys = {e.bucket}
  /\ l \in {"dropSnapshot", "dropAudit"} =>
       t.posted = {} /\ t.keys = {e.bucket : e \in v.events}
  /\ l = "dropAudit" => v.snapshot = EmptySnapshot
  /\ l \in Reading \cup {"commit"} /\ t.posted = {} =>
       \A b \in Bucket \ t.keys : v.snapshot[b] = Projection(v.events)[b]
  /\ l = "commit" => t.posted = {} /\ t.keys = {}

\* v differs from what is committed, d, in rows that were folded since.
Refolded(v, d) ==
  \A b \in Bucket : v.snapshot[b] \in {d.snapshot[b], Projection(d.events)[b]}

\* A transaction is open only in a rebuild, or after one that failed.
LocallyOK(l, t, c) ==
  /\ c.mode \in {"auto", "writing"}
  /\ ~c.stale
  /\ l = "dropAudit" \/ (l \in Reading /\ t.posted # {}) => c.mode = "auto"

WorkerOK(p) ==
  /\ View(p).events = db.events
  /\ Backed(View(p))
  /\ Refolded(View(p), db)
  /\ FoldKnows(pc[p], task[p], View(p))
  /\ HandlerKnows(pc[p], task[p], View(p))
  /\ LocallyOK(pc[p], task[p], conn[p])

WorkerInv == Backed(db) /\ \A p \in Process : WorkerOK(p)

-----------------------------------------------------------------------------
(* Rows and entries depend on the events of their bucket.                  *)

LEMMA SameEvents ==
  ASSUME NEW L, NEW M, NEW b, EventsOf(L, b) = EventsOf(M, b)
  PROVE  /\ FoldBucket(L, b) = FoldBucket(M, b)
         /\ FoldEntries(L, b) = FoldEntries(M, b)
         /\ b \in Bucket => Projection(L)[b] = Projection(M)[b]
<1>1. RequestsOf(L, b) = RequestsOf(M, b) /\ ReleasesOf(L, b) = ReleasesOf(M, b)
  BY DEF RequestsOf, ReleasesOf
<1>2. FoldBucket(L, b) = FoldBucket(M, b) /\ FoldEntries(L, b) = FoldEntries(M, b)
  BY <1>1 DEF FoldBucket, FoldEntries
<1>3. QED
  BY <1>2 DEF Projection

LEMMA NoEvents ==
  ASSUME NEW L, NEW b \in Bucket, EventsOf(L, b) = {}
  PROVE  Projection(L)[b] = NoRow /\ FoldEntries(L, b) = {}
<1>1. RequestsOf(L, b) = {} /\ ReleasesOf(L, b) = {}
  BY DEF RequestsOf, ReleasesOf
<1>2. ConflictLeaders({}) = {} /\ Orphans({}, Accepted({})) = {}
  BY DEF ConflictLeaders, Orphans
<1>3. FoldEntries(L, b) = {}
  BY <1>1, <1>2 DEF FoldEntries
<1>4. QED
  BY <1>3 DEF Projection

LEMMA EntriesOfFold ==
  ASSUME NEW d, NEW b
  PROVE  LET R == RequestsOf(d.events, b)
         IN  FoldEntries(d.events, b) \subseteq BagToSet(d.audit) <=>
               /\ EntriesIn(ConflictLeaders(R), R, d)
               /\ EntriesIn(Orphans(ReleasesOf(d.events, b), Accepted(R)), R, d)
  BY DEF FoldEntries, EntriesIn

LEMMA AuditAdd ==
  ASSUME NEW B, NEW x
  PROVE  BagToSet(B (+) SetToBag({x})) = BagToSet(B) \cup {x}
  BY DEF BagToSet, (+), SetToBag

LEMMA BackedGrows ==
  ASSUME NEW d, NEW h, Backed(d), d.events \subseteq h.events,
         h.snapshot = d.snapshot, BagToSet(d.audit) \subseteq BagToSet(h.audit)
  PROVE  Backed(h)
<1> SUFFICES ASSUME NEW b \in Bucket PROVE RowBacked(h, b)
  BY DEF Backed
<1>1. PICK L \in SUBSET d.events :
        d.snapshot[b] = Projection(L)[b] /\ FoldEntries(L, b) \subseteq BagToSet(d.audit)
  BY DEF Backed, RowBacked
<1>2. QED
  BY <1>1 DEF RowBacked

LEMMA BackedEmpty ==
  ASSUME NEW d, d.snapshot = EmptySnapshot
  PROVE  Backed(d)
<1> SUFFICES ASSUME NEW b \in Bucket PROVE RowBacked(d, b)
  BY DEF Backed
<1>1. EventsOf({}, b) = {}
  BY DEF EventsOf
<1>2. d.snapshot[b] = Projection({})[b] /\ FoldEntries({}, b) = {}
  BY <1>1, NoEvents DEF EmptySnapshot
<1>3. {} \in SUBSET d.events
  OBVIOUS
<1>4. QED
  BY <1>2, <1>3 DEF RowBacked

\* Writing the row that the log determines, when its entries are there.
LEMMA BackedRow ==
  ASSUME NEW d, IsDatabase(d), Backed(d), NEW b \in Bucket,
         NEW r, r = Projection(d.events)[b],
         FoldEntries(d.events, b) \subseteq BagToSet(d.audit)
  PROVE  Backed([d EXCEPT !.snapshot[b] = r])
<1> DEFINE h == [d EXCEPT !.snapshot[b] = r]
<1>1. /\ h.events = d.events /\ h.audit = d.audit
      /\ \A c \in Bucket : h.snapshot[c] = IF c = b THEN r ELSE d.snapshot[c]
  BY DEF IsDatabase
<1> HIDE DEF h
<1> SUFFICES ASSUME NEW c \in Bucket PROVE RowBacked(h, c)
  BY DEF Backed, h
<1>2. CASE c = b
  BY <1>1, <1>2 DEF RowBacked
<1>3. CASE c # b
  BY <1>1, <1>3 DEF Backed, RowBacked
<1>4. QED
  BY <1>2, <1>3

-----------------------------------------------------------------------------
(* The statements of a process that is alone.                              *)

LEMMA AloneWrites ==
  ASSUME Alone, WorkerInv, NEW p \in Process
  PROVE  CanWrite(p) /\ ~Refused(p)
<1>1. conn[p].mode = "writing" \/ ~conn[p].stale
  BY DEF WorkerInv, WorkerOK, LocallyOK
<1>2. QED
  BY <1>1 DEF Alone, CanWrite, Refused

LEMMA AlonePublishes ==
  ASSUME NEW p \in Process, NEW d, Publish(p, d)
  PROVE  db' = d /\ View(p)' = d /\ conn'[p] = Closed
<1>1. db' = d /\ conn'[p] = Closed
  BY DEF Publish
<1>2. QED
  BY <1>1 DEF View, Closed

LEMMA AloneCloses ==
  ASSUME TypeInv, NEW p \in Process, db' = db, conn' = [conn EXCEPT ![p] = Closed]
  PROVE  View(p)' = db /\ conn'[p] = Closed
<1>1. conn'[p] = Closed
  BY DEF TypeInv, WalTypeOK
<1>2. QED
  BY <1>1 DEF View, Closed

LEMMA AloneSelects ==
  ASSUME TypeInv, WorkerInv, NEW p \in Process,
         db' = db, conn' = [conn EXCEPT ![p] = AfterSelect(p)]
  PROVE  View(p)' = View(p) /\ conn'[p] = conn[p]
<1>1. conn'[p] = conn[p]
  BY DEF TypeInv, WalTypeOK, WorkerInv, WorkerOK, LocallyOK, AfterSelect
<1>2. QED
  BY <1>1 DEF View

LEMMA ClosedOK == \A l, t : LocallyOK(l, t, Closed)
  BY DEF LocallyOK, Closed

LEMMA SeesItself == \A d : Refolded(d, d)
  BY DEF Refolded

LEMMA IdleKnows == \A v : FoldKnows("idle", NoTask, v) /\ HandlerKnows("idle", NoTask, v)
  BY DEF FoldKnows, HandlerKnows, Reading

\* What is to be shown of a step of the one process.
LEMMA StepOK ==
  ASSUME Alone, NEW p \in Process, NEW l, NEW t, NEW v, NEW d, NEW c,
         db' = d, View(p)' = v, conn'[p] = c, pc'[p] = l, task'[p] = t,
         Backed(d), v.events = d.events, Backed(v), Refolded(v, d),
         FoldKnows(l, t, v), HandlerKnows(l, t, v), LocallyOK(l, t, c)
  PROVE  WorkerInv'
<1>1. WorkerOK(p)'
  BY DEF WorkerOK
<1>2. Backed(db)'
  OBVIOUS
<1>3. QED
  BY <1>1, <1>2 DEF Alone, WorkerInv

LEMMA GotoHere ==
  ASSUME TypeInv, NEW p \in Process, NEW l, NEW t, Goto(p, l, t)
  PROVE  pc'[p] = l /\ task'[p] = t
  BY DEF TypeInv, ControlOK, Goto

\* A step that commits d, ...
LEMMA PublishOK ==
  ASSUME Alone, TypeInv, NEW p \in Process, NEW d, NEW l, NEW t,
         Publish(p, d), Goto(p, l, t),
         Backed(d), FoldKnows(l, t, d), HandlerKnows(l, t, d)
  PROVE  WorkerInv'
<1>1. db' = d /\ View(p)' = d /\ conn'[p] = Closed
  BY AlonePublishes
<1>2. pc'[p] = l /\ task'[p] = t
  BY GotoHere
<1>3. LocallyOK(l, t, Closed) /\ Refolded(d, d)
  BY ClosedOK, SeesItself
<1>4. QED
  BY <1>1, <1>2, <1>3, StepOK

\* ... one that only reads, ...
LEMMA SelectOK ==
  ASSUME Alone, TypeInv, WorkerInv, NEW p \in Process, NEW l, NEW t,
         Select(p), Goto(p, l, t), FoldKnows(l, t, View(p)),
         HandlerKnows(l, t, View(p)), LocallyOK(l, t, conn[p])
  PROVE  WorkerInv'
<1>1. db' = db /\ View(p)' = View(p) /\ conn'[p] = conn[p]
  BY AloneSelects DEF Select
<1>2. pc'[p] = l /\ task'[p] = t
  BY GotoHere
<1>3. /\ Backed(db) /\ View(p).events = db.events
      /\ Backed(View(p)) /\ Refolded(View(p), db)
  BY DEF WorkerInv, WorkerOK
<1>4. QED
  BY <1>1, <1>2, <1>3, StepOK

\* ... and one that loses the open transaction.
LEMMA CloseOK ==
  ASSUME Alone, TypeInv, WorkerInv, NEW p \in Process, Done(p),
         db' = db, conn' = [conn EXCEPT ![p] = Closed]
  PROVE  WorkerInv'
<1>1. View(p)' = db /\ conn'[p] = Closed
  BY AloneCloses
<1>2. pc'[p] = "idle" /\ task'[p] = NoTask
  BY GotoHere DEF Done
<1>3. LocallyOK("idle", NoTask, Closed) /\ Refolded(db, db)
  BY ClosedOK, SeesItself
<1>4. FoldKnows("idle", NoTask, db) /\ HandlerKnows("idle", NoTask, db)
  BY IdleKnows
<1>5. Backed(db)
  BY DEF WorkerInv
<1>6. QED
  BY <1>1, <1>2, <1>3, <1>4, <1>5, StepOK

-----------------------------------------------------------------------------
(* The handlers.                                                           *)

LEMMA ReadWorks ==
  ASSUME Alone, TypeInv, WorkerInv, NEW p \in Process, Read(p)
  PROVE  WorkerInv'
<1>1. pc'[p] = pc[p] /\ task'[p] = task[p]
  BY DEF Read
<1>2. db' = db /\ View(p)' = View(p) /\ conn'[p] = conn[p]
  BY AloneSelects DEF Read, Select
<1>3. QED
  BY <1>1, <1>2, StepOK DEF WorkerInv, WorkerOK

LEMMA ReceiveWorks ==
  ASSUME Alone, TypeInv, WorkerInv, NEW p \in Process, Receive(p)
  PROVE  WorkerInv'
<1>1. PICK e \in Event :
        IF Seen(p, e)
          THEN UNCHANGED <<pc, task>>
          ELSE Goto(p, "append", [NoTask EXCEPT !.posted = {e}, !.keys = {e.bucket}])
  BY DEF Receive
<1>2. CASE Seen(p, e)
  <2>1. db' = db /\ View(p)' = View(p) /\ conn'[p] = conn[p]
    BY AloneSelects DEF Receive, Select
  <2>2. QED
    BY <1>1, <1>2, <2>1, StepOK DEF WorkerInv, WorkerOK
<1>3. CASE ~Seen(p, e)
  <2> DEFINE t == [NoTask EXCEPT !.posted = {e}, !.keys = {e.bucket}]
  <2>1. Goto(p, "append", t) /\ Select(p)
    BY <1>1, <1>3 DEF Receive
  <2>2. FoldKnows("append", t, View(p))
    BY DEF FoldKnows, Reading
  <2>3. HandlerKnows("append", t, View(p))
    BY <1>3 DEF HandlerKnows, Reading, Seen, NoTask
  <2>4. LocallyOK("append", t, conn[p])
    BY DEF WorkerInv, WorkerOK, LocallyOK, Reading
  <2> HIDE DEF t
  <2>5. QED
    BY <2>1, <2>2, <2>3, <2>4, SelectOK
<1>4. QED
  BY <1>2, <1>3

\* Nobody stores the id between the dedup check and the INSERT.
LEMMA AppendWorks ==
  ASSUME Alone, TypeInv, WorkerInv, NEW p \in Process, Append(p)
  PROVE  WorkerInv'
<1>1. PICK e \in Event :
        /\ task[p].posted = {e} /\ task[p].keys = {e.bucket}
        /\ ~KeyTaken(View(p), e)
  BY DEF WorkerInv, WorkerOK, HandlerKnows, Append, KeyTaken
<1> DEFINE d == [View(p) EXCEPT !.events = @ \cup {e}]
<1>2. Publish(p, d) /\ Goto(p, "requests", task[p])
  BY <1>1, AloneWrites DEF Append
<1>3. IsDatabase(View(p)) /\ Backed(View(p))
  BY ViewType DEF TypeInv, WorkerInv, WorkerOK
<1>4. /\ d.events = View(p).events \cup {e}
      /\ d.snapshot = View(p).snapshot /\ d.audit = View(p).audit
  BY <1>3 DEF IsDatabase
<1> HIDE DEF d
<1>5. Backed(d)
  BY <1>3, <1>4, BackedGrows
<1>6. FoldKnows("requests", task[p], d)
  BY <1>1, <1>4 DEF FoldKnows, Reading, EventsOf
<1>7. HandlerKnows("requests", task[p], d)
  BY <1>1, <1>4 DEF HandlerKnows, Reading
<1>8. QED
  BY <1>2, <1>5, <1>6, <1>7, PublishOK

\* A fold that fails leaves the worker where the statement before it did.
LEMMA SelectRequestsWorks ==
  ASSUME Alone, TypeInv, WorkerInv, NEW p \in Process, SelectRequests(p)
  PROVE  WorkerInv'
<1>1. Key(p) = FirstKey(task[p].keys) /\ pc[p] = "requests"
  BY KeyType DEF TypeInv, SelectRequests, Folding
<1> DEFINE R == RequestsOf(View(p).events, Key(p))
           t == [task[p] EXCEPT !.reqs = R, !.todo = ConflictLeaders(R)]
<1>2. CASE Foldable(R)
  <2>1. Goto(p, "conflicts", t) /\ Select(p)
    BY <1>2 DEF SelectRequests
  <2>2. /\ t.keys = task[p].keys /\ t.posted = task[p].posted
        /\ t.reqs = R /\ t.todo = ConflictLeaders(R)
    BY DEF TypeInv, ControlOK, Task
  <2>3. /\ FoldKnows("requests", task[p], View(p))
        /\ HandlerKnows("requests", task[p], View(p))
        /\ LocallyOK("requests", task[p], conn[p])
    BY <1>1 DEF WorkerInv, WorkerOK
  <2> HIDE DEF t
  <2>4. FoldKnows("conflicts", t, View(p))
    BY <1>1, <2>2, <2>3 DEF FoldKnows, Reading, EntriesIn
  <2>5. HandlerKnows("conflicts", t, View(p))
    BY <2>2, <2>3 DEF HandlerKnows, Reading
  <2>6. LocallyOK("conflicts", t, conn[p])
    BY <2>2, <2>3 DEF LocallyOK, Reading
  <2>7. QED
    BY <2>1, <2>4, <2>5, <2>6, SelectOK
<1>3. CASE ~Foldable(R)
  <2>1. Raise(p, AfterSelect(p))
    BY <1>3 DEF SelectRequests
  <2>2. CASE p \in Replayer
    BY <2>1, <2>2, CloseOK DEF Raise
  <2>3. CASE p \notin Replayer
    <3>1. Select(p) /\ Goto(p, "idle", NoTask)
      BY <2>1, <2>3 DEF Raise, Select, Done
    <3>2. LocallyOK("idle", NoTask, conn[p])
      BY DEF WorkerInv, WorkerOK, LocallyOK, Reading
    <3>3. QED
      BY <3>1, <3>2, IdleKnows, SelectOK
  <2>4. QED
    BY <2>2, <2>3
<1>4. QED
  BY <1>2, <1>3

LEMMA SelectReleasesWorks ==
  ASSUME Alone, TypeInv, WorkerInv, NEW p \in Process, SelectReleases(p)
  PROVE  WorkerInv'
<1>1. /\ Key(p) = FirstKey(task[p].keys) /\ pc[p] = "conflicts" /\ task[p].todo = {}
  BY KeyType DEF TypeInv, SelectReleases, Folding
<1> DEFINE rels == ReleasesOf(View(p).events, Key(p))
           t == [task[p] EXCEPT !.rels = rels,
                                !.todo = Orphans(rels, Accepted(task[p].reqs))]
<1>2. Goto(p, "orphans", t) /\ Select(p)
  BY DEF SelectReleases
<1>3. /\ t.keys = task[p].keys /\ t.posted = task[p].posted
      /\ t.reqs = task[p].reqs /\ t.rels = rels
      /\ t.todo = Orphans(rels, Accepted(task[p].reqs))
  BY DEF TypeInv, ControlOK, Task
<1>4. /\ FoldKnows("conflicts", task[p], View(p))
      /\ HandlerKnows("conflicts", task[p], View(p))
      /\ LocallyOK("conflicts", task[p], conn[p])
  BY <1>1 DEF WorkerInv, WorkerOK
<1> HIDE DEF t
<1>5. FoldKnows("orphans", t, View(p))
  BY <1>1, <1>3, <1>4 DEF FoldKnows, Reading, EntriesIn
<1>6. HandlerKnows("orphans", t, View(p))
  BY <1>3, <1>4 DEF HandlerKnows, Reading
<1>7. LocallyOK("orphans", t, conn[p])
  BY <1>3, <1>4 DEF LocallyOK, Reading
<1>8. QED
  BY <1>2, <1>5, <1>6, <1>7, SelectOK

LEMMA SelectAllWorks ==
  ASSUME Alone, TypeInv, WorkerInv, NEW p \in Process, SelectAll(p)
  PROVE  WorkerInv'
<1>1. /\ Key(p) = FirstKey(task[p].keys) /\ pc[p] = "orphans" /\ task[p].todo = {}
  BY KeyType DEF TypeInv, SelectAll, Folding
<1> DEFINE row == FoldRow(task[p].reqs, task[p].rels, EventsOf(View(p).events, Key(p)))
           t == [task[p] EXCEPT !.row = row]
<1>2. Goto(p, "upsert", t) /\ Select(p)
  BY DEF SelectAll
<1>3. /\ t.keys = task[p].keys /\ t.posted = task[p].posted
      /\ t.reqs = task[p].reqs /\ t.rels = task[p].rels /\ t.row = row
  BY DEF TypeInv, ControlOK, Task
<1>4. /\ FoldKnows("orphans", task[p], View(p))
      /\ HandlerKnows("orphans", task[p], View(p))
      /\ LocallyOK("orphans", task[p], conn[p])
  BY <1>1 DEF WorkerInv, WorkerOK
<1>5. row = FoldBucket(View(p).events, Key(p))
  BY <1>1, <1>4 DEF FoldKnows, Reading, FoldBucket
<1> HIDE DEF t, row
<1>6. FoldKnows("upsert", t, View(p))
  BY <1>1, <1>3, <1>4, <1>5 DEF FoldKnows, Reading, EntriesIn
<1>7. HandlerKnows("upsert", t, View(p))
  BY <1>3, <1>4 DEF HandlerKnows, Reading
<1>8. LocallyOK("upsert", t, conn[p])
  BY <1>3, <1>4 DEF LocallyOK, Reading
<1>9. QED
  BY <1>2, <1>6, <1>7, <1>8, SelectOK

LEMMA WriteAuditWorks ==
  ASSUME Alone, TypeInv, WorkerInv, NEW p \in Process, WriteAudit(p)
  PROVE  WorkerInv'
<1>1. pc[p] \in {"conflicts", "orphans"} /\ ~Refused(p)
  BY AloneWrites DEF WriteAudit
<1>2. PICK x \in NextRecorded(p) :
        /\ Publish(p, [View(p) EXCEPT
                         !.audit = @ (+) SetToBag({EntryFor(x, task[p].reqs)})])
        /\ Goto(p, pc[p], [task[p] EXCEPT !.todo = @ \ {x}])
  BY <1>1 DEF WriteAudit
<1> DEFINE entry == EntryFor(x, task[p].reqs)
           d == [View(p) EXCEPT !.audit = @ (+) SetToBag({entry})]
           t == [task[p] EXCEPT !.todo = @ \ {x}]
<1>3. Publish(p, d) /\ Goto(p, pc[p], t)
  BY <1>2
<1>4. /\ d.events = View(p).events /\ d.snapshot = View(p).snapshot
      /\ d.audit = View(p).audit (+) SetToBag({entry})
  BY ViewType DEF TypeInv, IsDatabase
<1>5. /\ t.keys = task[p].keys /\ t.posted = task[p].posted
      /\ t.reqs = task[p].reqs /\ t.rels = task[p].rels
      /\ t.todo = task[p].todo \ {x}
  BY DEF TypeInv, ControlOK, Task
<1>6. /\ FoldKnows(pc[p], task[p], View(p))
      /\ HandlerKnows(pc[p], task[p], View(p))
      /\ Backed(View(p))
  BY DEF WorkerInv, WorkerOK
<1> HIDE DEF d, t
<1>7. BagToSet(d.audit) = BagToSet(View(p).audit) \cup {entry}
  BY <1>4, AuditAdd
<1>8. Backed(d)
  BY <1>4, <1>6, <1>7, BackedGrows
<1>9. HandlerKnows(pc[p], t, d)
  BY <1>1, <1>4, <1>5, <1>6 DEF HandlerKnows, Reading
<1>10. FoldKnows(pc[p], t, d)
  <2> DEFINE R == RequestsOf(View(p).events, FirstKey(task[p].keys))
  <2>1. /\ \A c \in t.keys : EventsOf(d.events, c) # {}
        /\ t.reqs = R /\ task[p].reqs = R
    BY <1>1, <1>4, <1>5, <1>6 DEF FoldKnows, Reading
  <2>2. ASSUME NEW X, EntriesIn(X, R, View(p)) PROVE EntriesIn(X, R, d)
    BY <1>7, <2>2 DEF EntriesIn
  <2>3. ASSUME NEW X, EntriesIn(X \ task[p].todo, R, View(p))
        PROVE  EntriesIn(X \ t.todo, R, d)
    BY <1>5, <1>7, <2>1, <2>3 DEF EntriesIn
  <2>4. CASE pc[p] = "conflicts"
    <3>1. /\ task[p].todo \subseteq ConflictLeaders(R)
          /\ EntriesIn(ConflictLeaders(R) \ task[p].todo, R, View(p))
      BY <1>6, <2>4 DEF FoldKnows
    <3>2. /\ t.todo \subseteq ConflictLeaders(R)
          /\ EntriesIn(ConflictLeaders(R) \ t.todo, R, d)
      BY <1>5, <2>3, <3>1
    <3>3. QED
      BY <1>4, <1>5, <2>1, <2>4, <3>2 DEF FoldKnows
  <2>5. CASE pc[p] = "orphans"
    <3>1. /\ t.rels = ReleasesOf(d.events, FirstKey(t.keys))
          /\ task[p].todo \subseteq Orphans(task[p].rels, Accepted(R))
          /\ EntriesIn(ConflictLeaders(R), R, View(p))
          /\ EntriesIn(Orphans(task[p].rels, Accepted(R)) \ task[p].todo, R, View(p))
      BY <1>4, <1>5, <1>6, <2>5 DEF FoldKnows
    <3>2. /\ t.todo \subseteq Orphans(t.rels, Accepted(R))
          /\ EntriesIn(ConflictLeaders(R), R, d)
          /\ EntriesIn(Orphans(t.rels, Accepted(R)) \ t.todo, R, d)
      BY <1>5, <2>2, <2>3, <3>1
    <3>3. QED
      BY <1>4, <1>5, <2>1, <2>5, <3>1, <3>2 DEF FoldKnows
  <2>6. QED
    BY <1>1, <2>4, <2>5
<1>11. QED
  BY <1>3, <1>8, <1>9, <1>10, PublishOK

\* The row that a fold upserts is the one that the log determines.
LEMMA UpsertedWorks ==
  ASSUME TypeInv, WorkerInv, NEW p \in Process, pc[p] = "upsert"
  PROVE  LET b == Key(p)
             d == Upserted(p)
             row == Projection(db.events)[b]
         IN  /\ b \in Bucket /\ b = FirstKey(task[p].keys)
             /\ task[p].row = row
             /\ d.events = View(p).events /\ d.audit = View(p).audit
             /\ \A c \in Bucket :
                  d.snapshot[c] = IF c = b THEN row ELSE View(p).snapshot[c]
             /\ Backed(d)
<1> DEFINE b == Key(p)
           L == View(p).events
<1>1. b = FirstKey(task[p].keys) /\ b \in task[p].keys /\ b \in Bucket
  BY KeyType DEF TypeInv, Folding
<1>2. IsDatabase(View(p)) /\ Backed(View(p)) /\ db.events = L
  BY ViewType DEF TypeInv, WorkerInv, WorkerOK
<1>3. FoldKnows("upsert", task[p], View(p))
  BY DEF WorkerInv, WorkerOK
<1>4. EventsOf(L, b) # {} /\ task[p].row = FoldBucket(L, b)
  BY <1>1, <1>3 DEF FoldKnows, Reading
<1>5. task[p].row = Projection(L)[b]
  BY <1>1, <1>4 DEF Projection
<1>6. FoldEntries(L, b) \subseteq BagToSet(View(p).audit)
  <2>1. LET R == RequestsOf(L, b)
        IN  /\ EntriesIn(ConflictLeaders(R), R, View(p))
            /\ EntriesIn(Orphans(ReleasesOf(L, b), Accepted(R)), R, View(p))
    BY <1>1, <1>3 DEF FoldKnows
  <2>2. QED
    BY <2>1, EntriesOfFold
<1>7. Backed(Upserted(p))
  BY <1>1, <1>2, <1>5, <1>6, BackedRow DEF Upserted
<1>8. /\ Upserted(p).events = View(p).events /\ Upserted(p).audit = View(p).audit
      /\ \A c \in Bucket : Upserted(p).snapshot[c]
                             = IF c = b THEN task[p].row ELSE View(p).snapshot[c]
  BY <1>1, <1>2 DEF IsDatabase, Upserted
<1>9. QED
  BY <1>1, <1>2, <1>5, <1>7, <1>8

LEMMA UpsertPostedWorks ==
  ASSUME Alone, TypeInv, WorkerInv, NEW p \in Process, UpsertPosted(p)
  PROVE  WorkerInv'
<1>1. Publish(p, Upserted(p)) /\ Goto(p, "idle", NoTask)
  BY AloneWrites DEF UpsertPosted, Done
<1>2. Backed(Upserted(p))
  BY UpsertedWorks DEF UpsertPosted
<1>3. QED
  BY <1>1, <1>2, IdleKnows, PublishOK

LEMMA UpsertRebuiltWorks ==
  ASSUME Alone, TypeInv, WorkerInv, NEW p \in Process, UpsertRebuilt(p)
  PROVE  WorkerInv'
<1> DEFINE b == Key(p)
           d == Upserted(p)
           rest == task[p].keys \ {b}
           l == IF rest = {} THEN "commit" ELSE "requests"
           t == [NoTask EXCEPT !.keys = rest]
           c == [mode |-> "writing", view |-> d, stale |-> FALSE]
<1>1. Write(p, d) /\ Goto(p, l, t) /\ pc[p] = "upsert" /\ task[p].posted = {}
  BY AloneWrites DEF UpsertRebuilt
<1>2. /\ d.events = View(p).events /\ Backed(d)
      /\ \A a \in Bucket : d.snapshot[a] = IF a = b THEN Projection(db.events)[a]
                                           ELSE View(p).snapshot[a]
  BY <1>1, UpsertedWorks
<1>3. db' = db /\ conn'[p] = c
  BY <1>1 DEF Write, TypeInv, WalTypeOK
<1>4. View(p)' = d
  BY <1>3 DEF View
<1>5. t.keys = rest /\ t.posted = {}
  BY DEF NoTask
<1>6. /\ FoldKnows("upsert", task[p], View(p))
      /\ HandlerKnows("upsert", task[p], View(p))
      /\ Backed(db) /\ View(p).events = db.events /\ Refolded(View(p), db)
  BY <1>1 DEF WorkerInv, WorkerOK
<1>7. pc'[p] = l /\ task'[p] = t
  <2> HIDE DEF l, t
  <2>1. QED
    BY <1>1, GotoHere
<1> HIDE DEF d, t
<1>8. Refolded(d, db)
  BY <1>2, <1>6 DEF Refolded
<1>9. FoldKnows(l, t, d)
  <2>1. \A a \in rest : EventsOf(d.events, a) # {}
    BY <1>2, <1>6 DEF FoldKnows, Reading
  <2>2. QED
    BY <1>5, <2>1 DEF FoldKnows, Reading
<1>10. HandlerKnows(l, t, d)
  <2>1. \A a \in Bucket \ task[p].keys :
          View(p).snapshot[a] = Projection(View(p).events)[a]
    BY <1>1, <1>6 DEF HandlerKnows, Reading
  <2>2. \A a \in Bucket \ rest : d.snapshot[a] = Projection(d.events)[a]
    BY <1>2, <1>6, <2>1
  <2>3. QED
    BY <1>5, <2>2 DEF HandlerKnows
<1>11. LocallyOK(l, t, c)
  BY <1>5 DEF LocallyOK
<1>12. QED
  BY <1>2, <1>3, <1>4, <1>6, <1>7, <1>8, <1>9, <1>10, <1>11, StepOK

LEMMA StartRebuildWorks ==
  ASSUME Alone, TypeInv, WorkerInv, NEW p \in Process, StartRebuild(p)
  PROVE  WorkerInv'
<1> DEFINE t == [NoTask EXCEPT !.keys = {e.bucket : e \in View(p).events}]
<1>1. Goto(p, "dropSnapshot", t) /\ Select(p)
  BY DEF StartRebuild
<1>2. t.posted = {} /\ t.keys = {e.bucket : e \in View(p).events}
  BY DEF NoTask
<1> HIDE DEF t
<1>3. FoldKnows("dropSnapshot", t, View(p)) /\ HandlerKnows("dropSnapshot", t, View(p))
  BY <1>2 DEF FoldKnows, HandlerKnows, Reading
<1>4. LocallyOK("dropSnapshot", t, conn[p])
  BY DEF WorkerInv, WorkerOK, LocallyOK, Reading
<1>5. QED
  BY <1>1, <1>3, <1>4, SelectOK

LEMMA DropSnapshotWorks ==
  ASSUME Alone, TypeInv, WorkerInv, NEW p \in Process, DropSnapshot(p)
  PROVE  WorkerInv'
<1> DEFINE d == [View(p) EXCEPT !.snapshot = EmptySnapshot]
<1>1. Publish(p, d) /\ Goto(p, "dropAudit", task[p])
  BY AloneWrites DEF DropSnapshot
<1>2. d.events = View(p).events /\ d.snapshot = EmptySnapshot
  BY ViewType DEF TypeInv, IsDatabase
<1>3. HandlerKnows("dropSnapshot", task[p], View(p))
  BY DEF WorkerInv, WorkerOK, DropSnapshot
<1> HIDE DEF d
<1>4. FoldKnows("dropAudit", task[p], d) /\ HandlerKnows("dropAudit", task[p], d)
  BY <1>2, <1>3 DEF FoldKnows, HandlerKnows, Reading
<1>5. Backed(d)
  BY <1>2, BackedEmpty
<1>6. QED
  BY <1>1, <1>4, <1>5, PublishOK

\* A bucket without events has no row, and needs none.
LEMMA DropAuditWorks ==
  ASSUME Alone, TypeInv, WorkerInv, NEW p \in Process, DropAudit(p)
  PROVE  WorkerInv'
<1> DEFINE d == [View(p) EXCEPT !.audit = EmptyBag]
           l == IF task[p].keys = {} THEN "commit" ELSE "requests"
<1>1. Publish(p, d) /\ Goto(p, l, task[p])
  BY AloneWrites DEF DropAudit
<1>2. d.events = View(p).events /\ d.snapshot = View(p).snapshot
  BY ViewType DEF TypeInv, IsDatabase
<1>3. /\ task[p].posted = {} /\ task[p].keys = {e.bucket : e \in d.events}
      /\ d.snapshot = EmptySnapshot
  BY <1>2 DEF WorkerInv, WorkerOK, HandlerKnows, DropAudit
<1> HIDE DEF d
<1>4. Backed(d)
  BY <1>3, BackedEmpty
<1>5. \A b \in Bucket \ task[p].keys : d.snapshot[b] = Projection(d.events)[b]
  BY <1>3 DEF EmptySnapshot, Projection, EventsOf
<1>6. HandlerKnows(l, task[p], d)
  BY <1>3, <1>5 DEF HandlerKnows
<1>7. FoldKnows(l, task[p], d)
  <2>1. \A c \in task[p].keys : EventsOf(d.events, c) # {}
    BY <1>3 DEF EventsOf
  <2>2. QED
    BY <2>1 DEF FoldKnows, Reading
<1> HIDE DEF l
<1>8. QED
  BY <1>1, <1>4, <1>6, <1>7, PublishOK

\* A rebuild has folded every bucket when it commits.
LEMMA Finished ==
  ASSUME TypeInv, WorkerInv, NEW p \in Process, pc[p] = "commit"
  PROVE  View(p).snapshot = Projection(db.events)
<1>1. \A b \in Bucket : View(p).snapshot[b] = Projection(db.events)[b]
  BY DEF WorkerInv, WorkerOK, HandlerKnows
<1>2. DOMAIN View(p).snapshot = Bucket
      /\ View(p).snapshot = [b \in Bucket |-> View(p).snapshot[b]]
  BY ViewType DEF TypeInv, IsDatabase
<1> HIDE DEF View
<1>3. QED
  BY <1>1, <1>2 DEF Projection

LEMMA FinishRebuildWorks ==
  ASSUME Alone, TypeInv, WorkerInv, NEW p \in Process, FinishRebuild(p)
  PROVE  WorkerInv' /\ db'.snapshot = Projection(db.events)
<1>1. View(p).snapshot = Projection(db.events)
  BY Finished DEF FinishRebuild
<1>2. CASE conn[p].mode = "writing"
  <2>1. Publish(p, View(p)) /\ Goto(p, "idle", NoTask)
    BY <1>2 DEF FinishRebuild, Commit, View, Done
  <2>2. Backed(View(p))
    BY DEF WorkerInv, WorkerOK
  <2>3. WorkerInv'
    BY <2>1, <2>2, IdleKnows, PublishOK
  <2>4. QED
    BY <1>1, <2>1, <2>3, AlonePublishes
<1>3. CASE conn[p].mode # "writing"
  <2>1. Done(p) /\ db' = db /\ conn' = [conn EXCEPT ![p] = Closed]
    BY <1>3 DEF FinishRebuild, Commit
  <2>2. View(p) = db
    BY <1>3 DEF WorkerInv, WorkerOK, LocallyOK, View
  <2>3. WorkerInv'
    BY <2>1, CloseOK
  <2>4. QED
    BY <1>1, <2>1, <2>2, <2>3
<1>4. QED
  BY <1>2, <1>3

LEMMA CrashWorks ==
  ASSUME Alone, TypeInv, WorkerInv, NEW p \in Process, Crash(p)
  PROVE  WorkerInv'
  BY CloseOK DEF Crash

LEMMA StutterWorks ==
  ASSUME WorkerInv, UNCHANGED vars
  PROVE  WorkerInv'
  BY DEF WorkerInv, WorkerOK, View, vars

LEMMA NextWorks ==
  ASSUME Alone, TypeInv, WorkerInv, [Next]_vars
  PROVE  WorkerInv'
<1>1. ASSUME NEW w \in Worker, Receive(w) \/ Read(w) PROVE WorkerInv'
  BY <1>1, ReceiveWorks, ReadWorks DEF Worker
<1>2. ASSUME NEW p \in Process, FoldStep(p) PROVE WorkerInv'
  BY <1>2, SelectRequestsWorks, WriteAuditWorks, SelectReleasesWorks, SelectAllWorks
     DEF FoldStep
<1>3. ASSUME NEW p \in Process, RebuildStep(p) PROVE WorkerInv'
  BY <1>3, DropSnapshotWorks, DropAuditWorks, UpsertRebuiltWorks, FinishRebuildWorks
     DEF RebuildStep
<1>4. ASSUME NEW p \in Process, PostStep(p) PROVE WorkerInv'
  BY <1>4, AppendWorks, UpsertPostedWorks DEF PostStep
<1>5. ASSUME NEW p \in Process, StartRebuild(p) \/ Crash(p) PROVE WorkerInv'
  BY <1>5, StartRebuildWorks, CrashWorks
<1>6. CASE UNCHANGED vars
  BY <1>6, StutterWorks
<1>7. QED
  BY <1>1, <1>2, <1>3, <1>4, <1>5, <1>6 DEF Next, Continue

LEMMA InitWorks == Init => WorkerInv
<1> SUFFICES ASSUME Init, NEW p \in Process PROVE Backed(db) /\ WorkerOK(p)
  BY BackedEmpty DEF WorkerInv, Init, WalInit, Blank
<1>1. /\ db = Blank /\ View(p) = Blank /\ conn[p] = Closed
      /\ pc[p] = "idle" /\ task[p] = NoTask
  BY DEF Init, WalInit, View, Closed
<1>2. Backed(Blank)
  BY BackedEmpty DEF Blank
<1>3. QED
  BY <1>1, <1>2, IdleKnows, ClosedOK, SeesItself DEF WorkerOK

SoloInv == Alone /\ TypeInv /\ WorkerInv

LEMMA NextSolo == SoloInv /\ [Next]_vars => SoloInv'
<1>1. Alone => Alone'
  BY DEF Alone
<1>2. QED
  BY <1>1, NextType, NextWorks DEF SoloInv

LEMMA SoloInvariant == Alone /\ Spec => []SoloInv
<1>1. Alone /\ Init => SoloInv
  BY InitType, InitWorks DEF SoloInv
<1>2. QED
  BY <1>1, NextSolo, PTL DEF Spec

-----------------------------------------------------------------------------
(* The same, on a machine that loses power.                                *)

PowerInv == SoloInv /\ IsDatabase(synced) /\ Backed(synced)

LEMMA PowerOffWorks ==
  ASSUME PowerInv, PowerOff
  PROVE  SoloInv'
<1>1. TypeInv'
  <2>1. WalTypeOK'
    BY ClosedType DEF PowerInv, PowerOff, WalTypeOK, IsDatabase, IsConnection
  <2>2. ControlOK'
    BY NoTaskOK DEF PowerOff, ControlOK, Location
  <2>3. QED
    BY <2>1, <2>2 DEF PowerInv, SoloInv, TypeInv, PowerOff
<1>2. WorkerInv'
  <2>1. ASSUME NEW p \in Process PROVE WorkerOK(p)'
    <3>1. /\ db' = synced /\ View(p)' = synced /\ conn'[p] = Closed
          /\ pc'[p] = "idle" /\ task'[p] = NoTask
      BY DEF PowerOff, View, Closed
    <3>2. QED
      BY <3>1, IdleKnows, ClosedOK, SeesItself DEF WorkerOK, PowerInv
  <2>2. Backed(db)'
    BY DEF PowerInv, PowerOff
  <2>3. QED
    BY <2>1, <2>2 DEF WorkerInv
<1>3. QED
  BY <1>1, <1>2 DEF PowerInv, SoloInv, Alone

LEMMA NextPower == PowerInv /\ [PowerNext]_powerVars => PowerInv'
<1> SUFFICES ASSUME PowerInv, [PowerNext]_powerVars PROVE PowerInv'
  OBVIOUS
<1>1. CASE PowerOff
  <2>1. synced' = synced
    BY <1>1 DEF PowerOff
  <2>2. QED
    BY <1>1, <2>1, PowerOffWorks DEF PowerInv, IsDatabase
<1>2. CASE ~PowerOff
  <2>1. [Next]_vars /\ synced' \in {synced, db'}
    BY <1>2 DEF PowerNext, powerVars
  <2>2. SoloInv'
    BY <2>1, NextSolo DEF PowerInv
  <2>3. IsDatabase(db') /\ Backed(db')
    BY <2>2 DEF SoloInv, TypeInv, WalTypeOK, WorkerInv, IsDatabase
  <2>4. IsDatabase(synced') /\ Backed(synced')
    BY <2>1, <2>3 DEF PowerInv
  <2>5. QED
    BY <2>2, <2>4 DEF PowerInv, IsDatabase
<1>3. QED
  BY <1>1, <1>2

LEMMA PowerInvariant == Alone /\ PowerSpec => []PowerInv
<1>1. Alone /\ PowerInit => PowerInv
  BY InitType, InitWorks, BlankType, BackedEmpty
     DEF PowerInit, PowerInv, SoloInv, Blank
<1>2. QED
  BY <1>1, NextPower, PTL DEF PowerSpec

-----------------------------------------------------------------------------
(* What the rows tell.                                                     *)

\* Events are never removed, so a row that counts all of them is the fold of
\* all of them.
LEMMA CurrentRow ==
  ASSUME SoloInv, NEW b \in Bucket, Current(b)
  PROVE  /\ db.snapshot[b] = Projection(db.events)[b]
         /\ FoldEntries(db.events, b) \subseteq BagToSet(db.audit)
<1>1. PICK L \in SUBSET db.events :
        /\ db.snapshot[b] = Projection(L)[b]
        /\ FoldEntries(L, b) \subseteq BagToSet(db.audit)
  BY DEF SoloInv, WorkerInv, Backed, RowBacked
<1>2. db.events \subseteq Event /\ IsFiniteSet(db.events)
  BY DEF SoloInv, TypeInv, WalTypeOK, IsDatabase
<1>3. Projection(L)[b].version = Cardinality(EventsOf(L, b))
  BY FS_EmptySet DEF Projection, NoRow, FoldBucket, FoldRow
<1>4. Cardinality(EventsOf(db.events, b)) = Cardinality(EventsOf(L, b))
  BY <1>1, <1>3 DEF Current
<1>5. EventsOf(L, b) \subseteq EventsOf(db.events, b) /\ IsFiniteSet(EventsOf(db.events, b))
  BY <1>2, FS_Subset DEF EventsOf
<1>6. EventsOf(L, b) = EventsOf(db.events, b)
  BY <1>4, <1>5, FS_Subset
<1>7. QED
  BY <1>1, <1>6, SameEvents

\* A row that counts as many events as the log holds is the fold of them, at
\* every moment of one process: while it folds, after it failed, after it was
\* killed in the middle of a rebuild, and after a loss of power that took the
\* last commits with it.
THEOREM VersionsHonest == Alone /\ (Spec \/ PowerSpec) => []VersionHonest
<1>1. SoloInv => VersionHonest
  BY CurrentRow DEF VersionHonest
<1>2. QED
  BY <1>1, SoloInvariant, PowerInvariant, PTL DEF PowerInv

\* And the decisions behind such a row are all in the audit log, although the
\* entries and the row are commits of their own.
THEOREM AuditsBehindRows == Alone /\ (Spec \/ PowerSpec) => []AuditBehindRow
<1>1. SoloInv => AuditBehindRow
  BY CurrentRow DEF AuditBehindRow
<1>2. QED
  BY <1>1, SoloInvariant, PowerInvariant, PTL DEF PowerInv

\* A rebuild that ends leaves what the log determines, whatever crashes, losses
\* of power and failed folds left behind before it.
THEOREM RebuildsRestore == Alone /\ (Spec \/ PowerSpec) => RebuildRestores
<1>1. SoloInv =>
        [\A p \in Process : FinishRebuild(p) => db'.snapshot = Projection(db.events)]_vars
  BY FinishRebuildWorks DEF SoloInv
<1>2. QED
  BY <1>1, SoloInvariant, PowerInvariant, PTL DEF PowerInv, RebuildRestores

-----------------------------------------------------------------------------
(* Between requests.  A process that is never killed shows every bucket    *)
(* that can be folded as the log has it, whenever no handler runs: unless  *)
(* a rebuild may fail in one bucket and leave those after it without rows. *)

\* Every set of events that clients may post can be folded.
Clean == \A b \in Bucket : Foldable(RequestsOf(Event, b))

Untroubled == Alone /\ Crashable = {} /\ (Clean \/ Rebuilder = {})

Shown(d, b) ==
  Foldable(RequestsOf(d.events, b)) => d.snapshot[b] = Projection(d.events)[b]

\* Only the bucket of a posted event may differ from the log.
RestOK(l, t, c, d) ==
  /\ l \in {"idle", "append"} => c.mode = "auto" /\ \A b \in Bucket : Shown(d, b)
  /\ l \in Reading /\ t.posted # {} => \A b \in Bucket \ t.keys : Shown(d, b)
  /\ l # "idle" /\ t.posted = {} => Rebuilder # {}

RestInv == \A p \in Process : RestOK(pc[p], task[p], conn[p], db)

LEMMA FoldableSubset ==
  ASSUME NEW R, NEW S \in SUBSET R, Foldable(R)
  PROVE  Foldable(S)
  BY DEF Foldable

LEMMA CleanFolds ==
  ASSUME Clean, NEW L \in SUBSET Event, NEW b \in Bucket
  PROVE  Foldable(RequestsOf(L, b))
<1>1. RequestsOf(L, b) \subseteq RequestsOf(Event, b)
  BY DEF RequestsOf, EventsOf
<1>2. QED
  BY <1>1, FoldableSubset DEF Clean

LEMMA RestStep ==
  ASSUME Alone, NEW p \in Process, NEW l, NEW t, NEW c, NEW d,
         pc'[p] = l, task'[p] = t, conn'[p] = c, db' = d, RestOK(l, t, c, d)
  PROVE  RestInv'
<1>1. RestOK(pc[p], task[p], conn[p], db)'
  OBVIOUS
<1>2. QED
  BY <1>1 DEF Alone, RestInv

\* A SELECT, and the locals that depend on it.
LEMMA RestSelects ==
  ASSUME SoloInv, NEW p \in Process, NEW l, NEW t,
         Select(p), Goto(p, l, t), RestOK(l, t, conn[p], db)
  PROVE  RestInv'
<1>1. db' = db /\ conn'[p] = conn[p]
  BY AloneSelects DEF Select, SoloInv
<1>2. pc'[p] = l /\ task'[p] = t
  BY GotoHere DEF SoloInv
<1>3. QED
  BY <1>1, <1>2, RestStep DEF SoloInv

LEMMA RestPublishes ==
  ASSUME SoloInv, NEW p \in Process, NEW l, NEW t, NEW d,
         Publish(p, d), Goto(p, l, t), RestOK(l, t, Closed, d)
  PROVE  RestInv'
<1>1. db' = d /\ conn'[p] = Closed
  BY AlonePublishes
<1>2. pc'[p] = l /\ task'[p] = t
  BY GotoHere DEF SoloInv
<1>3. QED
  BY <1>1, <1>2, RestStep DEF SoloInv

LEMMA ReceiveRests ==
  ASSUME SoloInv, RestInv, NEW p \in Process, Receive(p)
  PROVE  RestInv'
<1>1. PICK e \in Event :
        IF Seen(p, e)
          THEN UNCHANGED <<pc, task>>
          ELSE Goto(p, "append", [NoTask EXCEPT !.posted = {e}, !.keys = {e.bucket}])
  BY DEF Receive
<1>2. Select(p) /\ RestOK("idle", task[p], conn[p], db)
  BY DEF Receive, RestInv
<1>3. CASE Seen(p, e)
  <2>1. db' = db /\ conn'[p] = conn[p]
    BY <1>2, AloneSelects DEF Select, SoloInv
  <2>2. pc'[p] = pc[p] /\ task'[p] = task[p]
    BY <1>1, <1>3
  <2>3. QED
    BY <2>1, <2>2, RestStep DEF RestInv, SoloInv
<1>4. CASE ~Seen(p, e)
  <2> DEFINE t == [NoTask EXCEPT !.posted = {e}, !.keys = {e.bucket}]
  <2>1. Goto(p, "append", t) /\ t.posted = {e}
    BY <1>1, <1>4 DEF NoTask
  <2> HIDE DEF t
  <2>2. RestOK("append", t, conn[p], db)
    BY <1>2, <2>1 DEF RestOK, Reading
  <2>3. QED
    BY <1>2, <2>1, <2>2, RestSelects
<1>5. QED
  BY <1>3, <1>4

\* The INSERT makes the row of its own bucket old, and no other.
LEMMA AppendRests ==
  ASSUME SoloInv, RestInv, NEW p \in Process, Append(p)
  PROVE  RestInv'
<1>1. PICK e \in Event :
        /\ task[p].posted = {e} /\ task[p].keys = {e.bucket}
        /\ ~KeyTaken(View(p), e)
  BY DEF SoloInv, WorkerInv, WorkerOK, HandlerKnows, Append, KeyTaken
<1> DEFINE d == [View(p) EXCEPT !.events = @ \cup {e}]
<1>2. Publish(p, d) /\ Goto(p, "requests", task[p])
  BY <1>1, AloneWrites DEF Append, SoloInv
<1>3. View(p) = db /\ \A b \in Bucket : Shown(db, b)
  BY DEF RestInv, RestOK, Append, View
<1>4. d.events = db.events \cup {e} /\ d.snapshot = db.snapshot
  BY <1>3 DEF SoloInv, TypeInv, WalTypeOK, IsDatabase
<1> HIDE DEF d
<1>5. ASSUME NEW b \in Bucket \ {e.bucket} PROVE Shown(d, b)
  <2>1. EventsOf(d.events, b) = EventsOf(db.events, b)
    BY <1>4 DEF EventsOf
  <2>2. RequestsOf(d.events, b) = RequestsOf(db.events, b)
    BY <2>1 DEF RequestsOf
  <2>3. Projection(d.events)[b] = Projection(db.events)[b]
    BY <2>1, SameEvents
  <2>4. QED
    BY <1>3, <1>4, <2>2, <2>3 DEF Shown
<1>6. RestOK("requests", task[p], Closed, d)
  BY <1>1, <1>5 DEF RestOK
<1>7. QED
  BY <1>2, <1>6, RestPublishes

\* A fold that fails leaves a bucket that cannot be folded.
LEMMA SelectRequestsRests ==
  ASSUME SoloInv, Clean \/ Rebuilder = {}, RestInv,
         NEW p \in Process, SelectRequests(p)
  PROVE  RestInv'
<1>1. /\ pc[p] = "requests" /\ Key(p) = FirstKey(task[p].keys)
      /\ Key(p) \in task[p].keys /\ Key(p) \in Bucket
  BY KeyType DEF SoloInv, TypeInv, SelectRequests, Folding
<1>2. RestOK("requests", task[p], conn[p], db)
  BY <1>1 DEF RestInv
<1>3. View(p).events = db.events /\ db.events \subseteq Event
  BY DEF SoloInv, WorkerInv, WorkerOK, TypeInv, WalTypeOK, IsDatabase
<1> DEFINE R == RequestsOf(View(p).events, Key(p))
           t == [task[p] EXCEPT !.reqs = R, !.todo = ConflictLeaders(R)]
<1>4. CASE Foldable(R)
  <2>1. Goto(p, "conflicts", t) /\ Select(p)
    BY <1>4 DEF SelectRequests
  <2>2. t.keys = task[p].keys /\ t.posted = task[p].posted
    BY DEF SoloInv, TypeInv, ControlOK, Task
  <2> HIDE DEF t
  <2>3. RestOK("conflicts", t, conn[p], db)
    BY <1>2, <2>2 DEF RestOK, Reading
  <2>4. QED
    BY <2>1, <2>3, RestSelects
<1>5. CASE ~Foldable(R)
  <2>1. Raise(p, AfterSelect(p))
    BY <1>5 DEF SelectRequests
  <2>2. ~Clean
    BY <1>1, <1>3, <1>5, CleanFolds
  <2>3. task[p].posted # {}
    BY <1>2, <2>2 DEF RestOK
  <2>4. task[p].keys = {Key(p)} /\ conn[p].mode = "auto"
    BY <1>1, <2>3 DEF SoloInv, WorkerInv, WorkerOK, HandlerKnows, LocallyOK, Reading
  <2>5. \A b \in Bucket : Shown(db, b)
    BY <1>2, <1>3, <1>5, <2>3, <2>4 DEF RestOK, Reading, Shown
  <2>6. db' = db /\ conn'[p].mode = "auto"
    BY <2>1, <2>4 DEF Raise, SoloInv, TypeInv, WalTypeOK, AfterSelect, Closed
  <2>7. pc'[p] = "idle" /\ task'[p] = NoTask
    BY <2>1, GotoHere DEF Raise, Done, SoloInv
  <2>8. RestOK("idle", NoTask, conn'[p], db)
    BY <2>5, <2>6 DEF RestOK, Reading
  <2>9. QED
    BY <2>6, <2>7, <2>8, RestStep DEF SoloInv
<1>6. QED
  BY <1>4, <1>5

\* An entry of a POST is committed from the view that everybody has.
LEMMA WriteAuditRests ==
  ASSUME SoloInv, RestInv, NEW p \in Process, WriteAudit(p)
  PROVE  RestInv'
<1>1. pc[p] \in {"conflicts", "orphans"} /\ ~Refused(p)
  BY AloneWrites DEF WriteAudit, SoloInv
<1>2. PICK x \in NextRecorded(p) :
        /\ Publish(p, [View(p) EXCEPT
                         !.audit = @ (+) SetToBag({EntryFor(x, task[p].reqs)})])
        /\ Goto(p, pc[p], [task[p] EXCEPT !.todo = @ \ {x}])
  BY <1>1 DEF WriteAudit
<1> DEFINE d == [View(p) EXCEPT !.audit = @ (+) SetToBag({EntryFor(x, task[p].reqs)})]
           t == [task[p] EXCEPT !.todo = @ \ {x}]
<1>3. Publish(p, d) /\ Goto(p, pc[p], t)
  BY <1>2
<1>4. d.events = View(p).events /\ d.snapshot = View(p).snapshot
  BY ViewType DEF SoloInv, TypeInv, IsDatabase
<1>5. t.keys = task[p].keys /\ t.posted = task[p].posted
  BY DEF SoloInv, TypeInv, ControlOK, Task
<1> HIDE DEF d, t
<1>6. t.posted # {} => View(p) = db
  BY <1>1, <1>5 DEF SoloInv, WorkerInv, WorkerOK, LocallyOK, Reading, View
<1>7. RestOK(pc[p], task[p], conn[p], db)
  BY DEF RestInv
<1>8. RestOK(pc[p], t, Closed, d)
  BY <1>1, <1>4, <1>5, <1>6, <1>7 DEF RestOK, Reading, Shown
<1>9. QED
  BY <1>3, <1>8, RestPublishes

LEMMA SelectReleasesRests ==
  ASSUME SoloInv, RestInv, NEW p \in Process, SelectReleases(p)
  PROVE  RestInv'
<1> DEFINE rels == ReleasesOf(View(p).events, Key(p))
           t == [task[p] EXCEPT !.rels = rels,
                                !.todo = Orphans(rels, Accepted(task[p].reqs))]
<1>1. Goto(p, "orphans", t) /\ Select(p) /\ RestOK("conflicts", task[p], conn[p], db)
  BY DEF SelectReleases, RestInv
<1>2. t.keys = task[p].keys /\ t.posted = task[p].posted
  BY DEF SoloInv, TypeInv, ControlOK, Task
<1> HIDE DEF t
<1>3. RestOK("orphans", t, conn[p], db)
  BY <1>1, <1>2 DEF RestOK, Reading
<1>4. QED
  BY <1>1, <1>3, RestSelects

LEMMA SelectAllRests ==
  ASSUME SoloInv, RestInv, NEW p \in Process, SelectAll(p)
  PROVE  RestInv'
<1> DEFINE row == FoldRow(task[p].reqs, task[p].rels, EventsOf(View(p).events, Key(p)))
           t == [task[p] EXCEPT !.row = row]
<1>1. Goto(p, "upsert", t) /\ Select(p) /\ RestOK("orphans", task[p], conn[p], db)
  BY DEF SelectAll, RestInv
<1>2. t.keys = task[p].keys /\ t.posted = task[p].posted
  BY DEF SoloInv, TypeInv, ControlOK, Task
<1> HIDE DEF t
<1>3. RestOK("upsert", t, conn[p], db)
  BY <1>1, <1>2 DEF RestOK, Reading
<1>4. QED
  BY <1>1, <1>3, RestSelects

LEMMA UpsertPostedRests ==
  ASSUME SoloInv, RestInv, NEW p \in Process, UpsertPosted(p)
  PROVE  RestInv'
<1>1. Publish(p, Upserted(p)) /\ Goto(p, "idle", NoTask)
  BY AloneWrites DEF UpsertPosted, Done, SoloInv
<1>2. pc[p] = "upsert" /\ task[p].posted # {}
  BY DEF UpsertPosted
<1>3. conn[p].mode = "auto" /\ \E b : task[p].keys = {b}
  BY <1>2 DEF SoloInv, WorkerInv, WorkerOK, HandlerKnows, LocallyOK, Reading
<1>4. View(p) = db
  BY <1>3 DEF View
<1>5. Key(p) \in task[p].keys
  BY <1>2, KeyType DEF SoloInv, TypeInv, Folding
<1>6. \A b \in Bucket \ {Key(p)} : Shown(db, b)
  BY <1>2, <1>3, <1>5 DEF RestInv, RestOK, Reading
<1> DEFINE d == Upserted(p)
<1>7. /\ d.events = db.events
      /\ \A b \in Bucket : d.snapshot[b] = IF b = Key(p) THEN Projection(db.events)[b]
                                            ELSE db.snapshot[b]
  BY <1>2, <1>4, UpsertedWorks DEF SoloInv
<1> HIDE DEF d
<1>8. \A b \in Bucket : Shown(d, b)
  BY <1>6, <1>7 DEF Shown
<1>9. RestOK("idle", NoTask, Closed, d)
  BY <1>8 DEF RestOK, Closed, Reading
<1>10. QED
  BY <1>1, <1>9, RestPublishes DEF d

\* While a rebuild runs nothing is claimed, except that one may run.
LEMMA RebuildRests ==
  ASSUME SoloInv, RestInv, NEW p \in Process,
         StartRebuild(p) \/ DropSnapshot(p) \/ DropAudit(p) \/ UpsertRebuilt(p)
  PROVE  RestInv'
<1>1. PICK l, t : Goto(p, l, t) /\ l \notin {"idle", "append"} /\ t.posted = {}
  <2>1. CASE StartRebuild(p)
    BY <2>1 DEF StartRebuild, NoTask
  <2>2. CASE DropSnapshot(p)
    <3>1. Goto(p, "dropAudit", task[p]) /\ task[p].posted = {}
      BY <2>2, AloneWrites DEF DropSnapshot, SoloInv, WorkerInv, WorkerOK, HandlerKnows
    <3>2. QED
      BY <3>1
  <2>3. CASE DropAudit(p)
    <3>1. /\ Goto(p, IF task[p].keys = {} THEN "commit" ELSE "requests", task[p])
          /\ task[p].posted = {}
      BY <2>3, AloneWrites DEF DropAudit, SoloInv, WorkerInv, WorkerOK, HandlerKnows
    <3>2. QED
      BY <3>1
  <2>4. CASE UpsertRebuilt(p)
    <3> DEFINE rest == task[p].keys \ {Key(p)}
               l == IF rest = {} THEN "commit" ELSE "requests"
               t == [NoTask EXCEPT !.keys = rest]
    <3>1. Goto(p, l, t)
      BY <2>4, AloneWrites DEF UpsertRebuilt, SoloInv
    <3>2. t.posted = {} /\ l \notin {"idle", "append"}
      BY DEF NoTask
    <3> HIDE DEF l, t
    <3>3. QED
      BY <3>1, <3>2
  <2>5. QED
    BY <2>1, <2>2, <2>3, <2>4
<1>2. Rebuilder # {}
  <2>1. CASE StartRebuild(p)
    BY <2>1 DEF StartRebuild
  <2>2. CASE ~StartRebuild(p)
    BY <2>2 DEF DropSnapshot, DropAudit, UpsertRebuilt, RestInv, RestOK,
                SoloInv, WorkerInv, WorkerOK, HandlerKnows
  <2>3. QED
    BY <2>1, <2>2
<1>3. pc'[p] = l /\ task'[p] = t
  BY <1>1, GotoHere DEF SoloInv
<1>4. RestOK(l, t, conn'[p], db')
  BY <1>1, <1>2 DEF RestOK
<1>5. QED
  BY <1>3, <1>4 DEF SoloInv, Alone, RestInv

LEMMA FinishRebuildRests ==
  ASSUME SoloInv, RestInv, NEW p \in Process, FinishRebuild(p)
  PROVE  RestInv'
<1>1. db'.snapshot = Projection(db.events)
  BY FinishRebuildWorks DEF SoloInv
<1>2. db'.events = db.events /\ conn'[p] = Closed
  BY AlonePublishes, AloneCloses
     DEF FinishRebuild, Commit, SoloInv, WorkerInv, WorkerOK, View
<1>3. pc'[p] = "idle" /\ task'[p] = NoTask
  BY GotoHere DEF FinishRebuild, Done, SoloInv
<1>4. \A b \in Bucket : Shown(db', b)
  BY <1>1, <1>2 DEF Shown
<1>5. RestOK("idle", NoTask, Closed, db')
  BY <1>4 DEF RestOK, Closed, Reading
<1>6. QED
  BY <1>2, <1>3, <1>5 DEF SoloInv, Alone, RestInv

LEMMA NextRests ==
  ASSUME SoloInv, Untroubled, RestInv, [Next]_vars
  PROVE  RestInv'
<1>1. ASSUME NEW w \in Worker, Receive(w) PROVE RestInv'
  BY <1>1, ReceiveRests DEF Worker
<1>2. ASSUME NEW w \in Worker, Read(w) PROVE RestInv'
  <2>1. w \in Process
    BY DEF Worker
  <2>2. db' = db /\ conn'[w] = conn[w] /\ pc'[w] = pc[w] /\ task'[w] = task[w]
    BY <1>2, <2>1, AloneSelects DEF Read, Select, SoloInv
  <2>3. QED
    BY <2>1, <2>2, RestStep DEF RestInv, Untroubled
<1>3. ASSUME NEW p \in Process, FoldStep(p) PROVE RestInv'
  BY <1>3, SelectRequestsRests, WriteAuditRests, SelectReleasesRests, SelectAllRests
     DEF FoldStep, Untroubled
<1>4. ASSUME NEW p \in Process, StartRebuild(p) \/ RebuildStep(p) PROVE RestInv'
  BY <1>4, RebuildRests, FinishRebuildRests DEF RebuildStep
<1>5. ASSUME NEW p \in Process, PostStep(p) PROVE RestInv'
  BY <1>5, AppendRests, UpsertPostedRests DEF PostStep
<1>6. ASSUME NEW p \in Process, Crash(p) PROVE RestInv'
  BY <1>6 DEF Crash, Untroubled
<1>7. CASE UNCHANGED vars
  BY <1>7 DEF RestInv, vars
<1>8. QED
  BY <1>1, <1>2, <1>3, <1>4, <1>5, <1>6, <1>7 DEF Next, Continue

LEMMA InitRests == Init => RestInv
<1> SUFFICES ASSUME Init, NEW p \in Process PROVE RestOK(pc[p], task[p], conn[p], db)
  BY DEF RestInv
<1>1. db = Blank /\ conn[p] = Closed /\ pc[p] = "idle" /\ task[p] = NoTask
  BY DEF Init, WalInit
<1>2. \A b \in Bucket : Shown(Blank, b)
  BY NoEvents DEF Shown, Blank, EmptySnapshot, EventsOf
<1>3. QED
  BY <1>1, <1>2 DEF RestOK, Closed, Reading

LEMMA RestInvariant == Untroubled /\ Spec => [](SoloInv /\ Untroubled /\ RestInv)
<1>1. Untroubled => Alone
  BY DEF Untroubled
<1>2. Untroubled => Untroubled'
  BY DEF Untroubled, Alone, Clean, Foldable, RequestsOf, EventsOf, Ends
<1>3. SoloInv /\ Untroubled /\ RestInv /\ [Next]_vars => RestInv'
  BY NextRests
<1>4. QED
  BY <1>1, <1>2, <1>3, InitRests, SoloInvariant, PTL DEF Spec

\* Between the requests of one process every row is the fold of the log: every
\* bucket that can be folded, if only POSTs change the rows, and every bucket
\* with rebuilds too, if no set of posted events makes a fold fail.
THEOREM RowsMatchLog == Untroubled /\ Spec => []QuiescentConsistent
<1>1. SoloInv /\ RestInv => QuiescentConsistent
  BY DEF SoloInv, Alone, RestInv, RestOK, Shown, QuiescentConsistent, Quiet, CanFold
<1>2. QED
  BY <1>1, RestInvariant, PTL

\* Then GET /state and time travel to the last event or past it agree, unless
\* the latter fails.
THEOREM TravelsToPresent == Untroubled /\ Spec => []PresentIsHistory
<1>1. SoloInv /\ RestInv => PresentIsHistory
  <2> SUFFICES ASSUME SoloInv, RestInv, Quiet, NEW target \in 0 .. MaxTime,
                      CanTravel(db.events, target),
                      \A e \in db.events : WindowStart(e) <= target
               PROVE  StateAt(db.events, target) = db.snapshot
    BY DEF PresentIsHistory
  <2>1. Until(db.events, target) = db.events
    BY DEF Until, NotAfter
  <2>2. \A b \in Bucket : db.snapshot[b] = Projection(db.events)[b]
    BY <2>1 DEF SoloInv, Alone, RestInv, RestOK, Shown, Quiet, CanTravel
  <2>3. db.snapshot = [b \in Bucket |-> db.snapshot[b]]
    BY DEF SoloInv, TypeInv, WalTypeOK, IsDatabase
  <2>4. QED
    BY <2>1, <2>2, <2>3 DEF StateAt, Projection
<1>2. QED
  BY <1>1, RestInvariant, PTL

-----------------------------------------------------------------------------
(* How often an entry is recorded.  A fold writes each of its entries once *)
(* and follows an event that was not folded before, or a truncation of the *)
(* audit log: so while a bucket is still to be folded, an entry about it   *)
(* is recorded less often than the bucket has events.                      *)

\* The first events of the groups, and the releases, whose entries the fold
\* has written.
Written(l, t) ==
  IF l = "requests" THEN {}
  ELSE IF l = "conflicts" THEN ConflictLeaders(t.reqs) \ t.todo
  ELSE ConflictLeaders(t.reqs) \cup (Orphans(t.rels, Accepted(t.reqs)) \ t.todo)

Number(d, b) == Cardinality(EventsOf(d.events, b))

Bounded(d) ==
  \A x \in BagToSet(d.audit) :
    \A e \in x.considered : d.audit[x] <= Number(d, e.bucket)

Room(l, t, v) ==
  l \in Reading =>
    \A x \in BagToSet(v.audit) \ {EntryFor(y, t.reqs) : y \in Written(l, t)} :
      \A e \in x.considered : e.bucket \in t.keys => v.audit[x] < Number(v, e.bucket)

CountInv ==
  /\ Bounded(db)
  /\ \A p \in Process : Bounded(View(p)) /\ Room(pc[p], task[p], View(p))

LEMMA NumberType ==
  ASSUME NEW d, IsDatabase(d), NEW b
  PROVE  /\ Number(d, b) \in Nat
         /\ EventsOf(d.events, b) # {} => Number(d, b) > 0
<1>1. IsFiniteSet(EventsOf(d.events, b))
  BY FS_Subset DEF IsDatabase, EventsOf
<1>2. QED
  BY <1>1, FS_CardinalityType, FS_EmptySet DEF Number

LEMMA NumberGrows ==
  ASSUME NEW d, IsDatabase(d), NEW h, IsDatabase(h), NEW e,
         h.events = d.events \cup {e}, e \notin d.events
  PROVE  /\ Number(h, e.bucket) = Number(d, e.bucket) + 1
         /\ \A b : b # e.bucket => Number(h, b) = Number(d, b)
<1>1. EventsOf(h.events, e.bucket) = EventsOf(d.events, e.bucket) \cup {e}
  BY DEF EventsOf
<1>2. IsFiniteSet(EventsOf(d.events, e.bucket)) /\ e \notin EventsOf(d.events, e.bucket)
  BY FS_Subset DEF IsDatabase, EventsOf
<1>3. Number(h, e.bucket) = Number(d, e.bucket) + 1
  BY <1>1, <1>2, FS_AddElement DEF Number
<1>4. \A b : b # e.bucket => EventsOf(h.events, b) = EventsOf(d.events, b)
  BY DEF EventsOf
<1>5. QED
  BY <1>3, <1>4 DEF Number

LEMMA AuditCount ==
  ASSUME NEW B, IsABag(B), NEW y
  PROVE  LET C == B (+) SetToBag({y})
         IN  /\ \A x \in BagToSet(B) \ {y} : C[x] = B[x]
             /\ C[y] = IF y \in BagToSet(B) THEN B[y] + 1 ELSE 1
  BY DEF IsABag, BagToSet, (+), SetToBag

\* The entries of a fold are about its bucket, and each about events of its own.
LEMMA EntryBucket ==
  ASSUME NEW L, NEW b, NEW R, R = RequestsOf(L, b),
         NEW y \in ConflictLeaders(R) \cup Orphans(ReleasesOf(L, b), Accepted(R))
  PROVE  \A e \in EntryFor(y, R).considered : e \in L /\ e.bucket = b
<1>1. CASE y \in ConflictLeaders(R)
  <2>1. y.action = "request"
    BY <1>1 DEF ConflictLeaders, RequestsOf
  <2>2. EntryFor(y, R).considered = GroupOf(y, R)
    BY <2>1 DEF EntryFor, ConflictEntry
  <2>3. QED
    BY <2>2 DEF GroupOf, RequestsOf, EventsOf
<1>2. CASE y \in Orphans(ReleasesOf(L, b), Accepted(R))
  <2>1. y \in ReleasesOf(L, b) /\ y.action = "release"
    BY <1>2 DEF Orphans, ReleasesOf
  <2>2. EntryFor(y, R).considered = {y}
    BY <2>1 DEF EntryFor, OrphanEntry
  <2>3. QED
    BY <2>1, <2>2 DEF ReleasesOf, EventsOf
<1>3. QED
  BY <1>1, <1>2

LEMMA StartsOnce ==
  ASSUME NEW e \in Event, NEW f \in Event, StartsBefore(e, f)
  PROVE  ~StartsBefore(f, e)
<1>1. /\ WindowStart(e) \in Int /\ WindowStart(f) \in Int
      /\ e.id \in Nat /\ f.id \in Nat
  BY EventAssumption DEF EventPayload, WindowStart, Offset, UtcOffset
<1> HIDE DEF WindowStart
<1>2. QED
  BY <1>1 DEF StartsBefore

LEMMA EntriesDiffer ==
  ASSUME NEW L \in SUBSET Event, NEW b, NEW R, R = RequestsOf(L, b),
         NEW X, X = ConflictLeaders(R) \cup Orphans(ReleasesOf(L, b), Accepted(R)),
         NEW y \in X, NEW z \in X, EntryFor(y, R) = EntryFor(z, R)
  PROVE  y = z
<1>1. \A x \in X : \/ x \in ConflictLeaders(R) /\ x.action = "request"
                   \/ x.action = "release"
  BY DEF ConflictLeaders, RequestsOf, Orphans, ReleasesOf
<1>2. CASE y.action = "request"
  <2>1. z.action = "request"
    BY <1>1, <1>2 DEF EntryFor, ConflictEntry, OrphanEntry
  <2>2. y \in ConflictLeaders(R) /\ z \in ConflictLeaders(R)
    BY <1>1, <1>2, <2>1
  <2>3. GroupOf(y, R) = GroupOf(z, R)
    BY <1>2, <2>1 DEF EntryFor, ConflictEntry
  <2>4. y \in GroupOf(y, R)
    BY <2>2 DEF ConflictLeaders, GroupOf, SameGroup
  <2>5. Leaders(y, R) = Leaders(z, R)
    BY <2>3, <2>4 DEF GroupOf, SameGroup
  <2>6. y \in Leaders(y, R) /\ z \in Leaders(z, R)
    BY <2>2 DEF ConflictLeaders, Leaders
  <2>7. (y = z \/ StartsBefore(y, z)) /\ (z = y \/ StartsBefore(z, y))
    BY <2>5, <2>6 DEF Leaders
  <2>8. y \in Event /\ z \in Event
    BY <2>2 DEF ConflictLeaders, RequestsOf, EventsOf
  <2>9. QED
    BY <2>7, <2>8, StartsOnce
<1>3. CASE y.action # "request"
  <2>1. z.action # "request"
    <3>1. CASE z.action = "request"
      BY <1>3, <3>1 DEF EntryFor, ConflictEntry, OrphanEntry
    <3>2. QED
      BY <3>1
  <2>2. QED
    BY <1>3, <2>1 DEF EntryFor, OrphanEntry
<1>4. QED
  BY <1>2, <1>3

LEMMA CountStep ==
  ASSUME Alone, NEW p \in Process, NEW l, NEW t, NEW v,
         pc'[p] = l, task'[p] = t, View(p)' = v, Bounded(db'), Bounded(v), Room(l, t, v)
  PROVE  CountInv'
<1>1. Bounded(db)' /\ Bounded(View(p))' /\ Room(pc[p], task[p], View(p))'
  OBVIOUS
<1>2. QED
  BY <1>1 DEF Alone, CountInv

LEMMA CountPublishes ==
  ASSUME SoloInv, NEW p \in Process, NEW l, NEW t, NEW d,
         Publish(p, d), Goto(p, l, t), Bounded(d), Room(l, t, d)
  PROVE  CountInv'
<1>1. db' = d /\ View(p)' = d
  BY AlonePublishes
<1>2. pc'[p] = l /\ task'[p] = t
  BY GotoHere DEF SoloInv
<1>3. QED
  BY <1>1, <1>2, CountStep DEF SoloInv

LEMMA CountSelects ==
  ASSUME SoloInv, CountInv, NEW p \in Process, NEW l, NEW t,
         Select(p), Goto(p, l, t), Room(l, t, View(p))
  PROVE  CountInv'
<1>1. db' = db /\ View(p)' = View(p)
  BY AloneSelects DEF Select, SoloInv
<1>2. pc'[p] = l /\ task'[p] = t
  BY GotoHere DEF SoloInv
<1>3. Bounded(db) /\ Bounded(View(p))
  BY DEF CountInv
<1>4. QED
  BY <1>1, <1>2, <1>3, CountStep DEF SoloInv

LEMMA CountCloses ==
  ASSUME SoloInv, CountInv, NEW p \in Process, Done(p),
         db' = db, conn' = [conn EXCEPT ![p] = Closed]
  PROVE  CountInv'
<1>1. View(p)' = db
  BY AloneCloses DEF SoloInv
<1>2. pc'[p] = "idle" /\ task'[p] = NoTask
  BY GotoHere DEF Done, SoloInv
<1>3. Bounded(db) /\ Room("idle", NoTask, db)
  BY DEF CountInv, Room, Reading
<1>4. QED
  BY <1>1, <1>2, <1>3, CountStep DEF SoloInv

\* The event that is stored makes room in its bucket.
LEMMA AppendCounts ==
  ASSUME SoloInv, CountInv, NEW p \in Process, Append(p)
  PROVE  CountInv'
<1>1. PICK e \in Event :
        /\ task[p].posted = {e} /\ task[p].keys = {e.bucket}
        /\ ~KeyTaken(View(p), e)
  BY DEF SoloInv, WorkerInv, WorkerOK, HandlerKnows, Append, KeyTaken
<1> DEFINE v == View(p)
           d == [v EXCEPT !.events = @ \cup {e}]
<1>2. Publish(p, d) /\ Goto(p, "requests", task[p])
  BY <1>1, AloneWrites DEF Append, SoloInv
<1>3. IsDatabase(v) /\ IsDatabase(d) /\ Bounded(v)
  BY ViewType, UpdateType DEF SoloInv, TypeInv, CountInv
<1>4. d.events = v.events \cup {e} /\ d.audit = v.audit
  BY <1>3 DEF IsDatabase
<1>5. e \notin v.events
  BY <1>1 DEF KeyTaken, Ids
<1> HIDE DEF v, d
<1>6. /\ Number(d, e.bucket) = Number(v, e.bucket) + 1
      /\ \A b : b # e.bucket => Number(d, b) = Number(v, b)
  BY <1>3, <1>4, <1>5, NumberGrows
<1>7. ASSUME NEW x \in BagToSet(d.audit), NEW f \in x.considered
      PROVE  /\ d.audit[x] <= Number(d, f.bucket)
             /\ f.bucket = e.bucket => d.audit[x] < Number(d, f.bucket)
  <2>1. d.audit[x] <= Number(v, f.bucket)
    BY <1>3, <1>4 DEF Bounded
  <2>2. d.audit[x] \in Nat /\ Number(v, f.bucket) \in Nat
    BY <1>3, <1>4, NumberType DEF IsDatabase, IsABag, BagToSet
  <2>3. QED
    BY <1>6, <2>1, <2>2
<1>8. Bounded(d) /\ Room("requests", task[p], d)
  BY <1>1, <1>7 DEF Bounded, Room
<1>9. QED
  BY <1>2, <1>8, CountPublishes

LEMMA SelectRequestsCounts ==
  ASSUME SoloInv, CountInv, NEW p \in Process, SelectRequests(p)
  PROVE  CountInv'
<1> DEFINE R == RequestsOf(View(p).events, Key(p))
           t == [task[p] EXCEPT !.reqs = R, !.todo = ConflictLeaders(R)]
<1>1. Room("requests", task[p], View(p))
  BY DEF CountInv, SelectRequests
<1>2. CASE Foldable(R)
  <2>1. Goto(p, "conflicts", t) /\ Select(p)
    BY <1>2 DEF SelectRequests
  <2>2. t.keys = task[p].keys /\ t.reqs = R /\ t.todo = ConflictLeaders(R)
    BY DEF SoloInv, TypeInv, ControlOK, Task
  <2> HIDE DEF t, R
  <2>3. Written("conflicts", t) = {}
    BY <2>2 DEF Written
  <2>4. Room("conflicts", t, View(p))
    BY <1>1, <2>2, <2>3 DEF Room, Reading, Written
  <2>5. QED
    BY <2>1, <2>4, CountSelects
<1>3. CASE ~Foldable(R)
  <2>1. Raise(p, AfterSelect(p))
    BY <1>3 DEF SelectRequests
  <2>2. CASE p \in Replayer
    BY <2>1, <2>2, CountCloses DEF Raise
  <2>3. CASE p \notin Replayer
    <3>1. Select(p) /\ Goto(p, "idle", NoTask)
      BY <2>1, <2>3 DEF Raise, Select, Done
    <3>2. Room("idle", NoTask, View(p))
      BY DEF Room, Reading
    <3>3. QED
      BY <3>1, <3>2, CountSelects
  <2>4. QED
    BY <2>2, <2>3
<1>4. QED
  BY <1>2, <1>3

\* An entry is written for the first time in this fold: there is room for it.
LEMMA WriteAuditCounts ==
  ASSUME SoloInv, CountInv, NEW p \in Process, WriteAudit(p)
  PROVE  CountInv'
<1>1. pc[p] \in {"conflicts", "orphans"} /\ ~Refused(p)
  BY AloneWrites DEF WriteAudit, SoloInv
<1>2. PICK y \in NextRecorded(p) :
        /\ Publish(p, [View(p) EXCEPT
                         !.audit = @ (+) SetToBag({EntryFor(y, task[p].reqs)})])
        /\ Goto(p, pc[p], [task[p] EXCEPT !.todo = @ \ {y}])
  BY <1>1 DEF WriteAudit
<1> DEFINE v == View(p)
           b == FirstKey(task[p].keys)
           R == RequestsOf(v.events, b)
           X == ConflictLeaders(R) \cup Orphans(ReleasesOf(v.events, b), Accepted(R))
           entry == EntryFor(y, R)
           d == [v EXCEPT !.audit = @ (+) SetToBag({entry})]
           t == [task[p] EXCEPT !.todo = @ \ {y}]
<1>3. /\ FoldKnows(pc[p], task[p], v) /\ task[p].reqs = R
      /\ \A c \in task[p].keys : EventsOf(v.events, c) # {}
  BY <1>1 DEF SoloInv, WorkerInv, WorkerOK, FoldKnows, Reading
<1>4. Publish(p, d) /\ Goto(p, pc[p], t)
  BY <1>2, <1>3
<1>5. IsDatabase(v) /\ Bounded(v) /\ Room(pc[p], task[p], v)
  BY ViewType DEF SoloInv, TypeInv, CountInv
<1>6. d.events = v.events /\ d.audit = v.audit (+) SetToBag({entry})
  BY <1>5 DEF IsDatabase
<1>7. /\ t.keys = task[p].keys /\ t.reqs = R /\ t.rels = task[p].rels
      /\ t.todo = task[p].todo \ {y}
  BY <1>3 DEF SoloInv, TypeInv, ControlOK, Task
<1>8. y \in task[p].todo
  BY DEF NextRecorded, FirstStarting, Earliest
<1>9. b \in task[p].keys /\ v.events \in SUBSET Event
  BY <1>1, <1>5, KeyType DEF SoloInv, TypeInv, Folding, IsDatabase
<1>10. y \in X /\ Written(pc[p], task[p]) \subseteq X \ {y}
       /\ Written(pc[p], t) = Written(pc[p], task[p]) \cup {y}
  <2> HIDE DEF v, d, t
  <2>1. CASE pc[p] = "conflicts"
    <3>1. task[p].todo \subseteq ConflictLeaders(R)
      BY <1>3, <2>1 DEF FoldKnows
    <3>2. QED
      BY <1>3, <1>7, <1>8, <2>1, <3>1 DEF Written
  <2>2. CASE pc[p] = "orphans"
    <3>1. /\ task[p].rels = ReleasesOf(v.events, b)
          /\ task[p].todo \subseteq Orphans(ReleasesOf(v.events, b), Accepted(R))
      BY <1>3, <2>2 DEF FoldKnows
    <3>2. y \notin ConflictLeaders(R)
      BY <1>8, <3>1 DEF ConflictLeaders, RequestsOf, Orphans, ReleasesOf
    <3> HIDE DEF R
    <3>3. QED
      BY <1>3, <1>7, <1>8, <2>2, <3>1, <3>2 DEF Written
  <2>3. QED
    BY <1>1, <2>1, <2>2
<1> HIDE DEF v, d, t, X
<1>11. entry \notin {EntryFor(z, R) : z \in Written(pc[p], task[p])}
  <2> SUFFICES ASSUME NEW z \in Written(pc[p], task[p]), entry = EntryFor(z, R)
               PROVE  FALSE
    OBVIOUS
  <2>1. y \in X /\ z \in X /\ y # z
    BY <1>10
  <2>2. /\ R = RequestsOf(v.events, b)
        /\ X = ConflictLeaders(R) \cup Orphans(ReleasesOf(v.events, b), Accepted(R))
        /\ EntryFor(y, R) = EntryFor(z, R)
    BY DEF X
  <2> HIDE DEF R, b
  <2>3. QED
    BY <1>9, <2>1, <2>2, EntriesDiffer
<1>12. ASSUME NEW e \in entry.considered
       PROVE  e.bucket = b
  BY <1>10, EntryBucket DEF X
<1>13. /\ \A x \in BagToSet(v.audit) \ {entry} : d.audit[x] = v.audit[x]
       /\ d.audit[entry] = IF entry \in BagToSet(v.audit) THEN v.audit[entry] + 1 ELSE 1
       /\ BagToSet(d.audit) = BagToSet(v.audit) \cup {entry}
  BY <1>5, <1>6, AuditAdd, AuditCount DEF IsDatabase
<1>14. \A c : Number(d, c) = Number(v, c)
  BY <1>6 DEF Number
<1>15. ASSUME NEW e \in entry.considered
       PROVE  d.audit[entry] <= Number(d, e.bucket)
  <2>1. e.bucket \in task[p].keys /\ Number(v, e.bucket) \in Nat /\ Number(v, e.bucket) > 0
    BY <1>3, <1>5, <1>9, <1>12, NumberType
  <2>2. CASE entry \in BagToSet(v.audit)
    <3>1. v.audit[entry] < Number(v, e.bucket)
      BY <1>1, <1>3, <1>5, <1>11, <2>1, <2>2 DEF Room, Reading
    <3>2. v.audit[entry] \in Nat
      BY <1>5, <2>2 DEF IsDatabase, IsABag, BagToSet
    <3>3. QED
      BY <1>13, <1>14, <2>1, <2>2, <3>1, <3>2
  <2>3. CASE entry \notin BagToSet(v.audit)
    BY <1>13, <1>14, <2>1, <2>3
  <2>4. QED
    BY <2>2, <2>3
<1>16. Bounded(d)
  BY <1>5, <1>13, <1>14, <1>15 DEF Bounded
<1>17. Room(pc[p], t, d)
  BY <1>3, <1>5, <1>7, <1>10, <1>13, <1>14 DEF Room
<1>18. QED
  BY <1>4, <1>16, <1>17, CountPublishes

LEMMA SelectReleasesCounts ==
  ASSUME SoloInv, CountInv, NEW p \in Process, SelectReleases(p)
  PROVE  CountInv'
<1> DEFINE rels == ReleasesOf(View(p).events, Key(p))
           t == [task[p] EXCEPT !.rels = rels,
                                !.todo = Orphans(rels, Accepted(task[p].reqs))]
<1>1. Goto(p, "orphans", t) /\ Select(p)
  BY DEF SelectReleases
<1>2. /\ t.keys = task[p].keys /\ t.reqs = task[p].reqs
      /\ t.rels = rels /\ t.todo = Orphans(rels, Accepted(task[p].reqs))
  BY DEF SoloInv, TypeInv, ControlOK, Task
<1>3. Room("conflicts", task[p], View(p)) /\ task[p].todo = {}
  BY DEF CountInv, SelectReleases
<1> HIDE DEF t, rels
<1>4. Written("orphans", t) = Written("conflicts", task[p])
  BY <1>2, <1>3 DEF Written
<1>5. Room("orphans", t, View(p))
  BY <1>2, <1>3, <1>4 DEF Room, Reading
<1>6. QED
  BY <1>1, <1>5, CountSelects

LEMMA SelectAllCounts ==
  ASSUME SoloInv, CountInv, NEW p \in Process, SelectAll(p)
  PROVE  CountInv'
<1> DEFINE row == FoldRow(task[p].reqs, task[p].rels, EventsOf(View(p).events, Key(p)))
           t == [task[p] EXCEPT !.row = row]
<1>1. Goto(p, "upsert", t) /\ Select(p)
  BY DEF SelectAll
<1>2. /\ t.keys = task[p].keys /\ t.reqs = task[p].reqs
      /\ t.rels = task[p].rels /\ t.todo = task[p].todo
  BY DEF SoloInv, TypeInv, ControlOK, Task
<1>3. Room("orphans", task[p], View(p))
  BY DEF CountInv, SelectAll
<1> HIDE DEF t
<1>4. Written("upsert", t) = Written("orphans", task[p])
  BY <1>2 DEF Written
<1>5. Room("upsert", t, View(p))
  BY <1>2, <1>3, <1>4 DEF Room, Reading
<1>6. QED
  BY <1>1, <1>5, CountSelects

\* A commit of what was counted already.
LEMMA SameCount ==
  ASSUME NEW d, NEW h, Bounded(d), h.events = d.events, h.audit = d.audit
  PROVE  Bounded(h)
  BY DEF Bounded, Number

LEMMA UpsertPostedCounts ==
  ASSUME SoloInv, CountInv, NEW p \in Process, UpsertPosted(p)
  PROVE  CountInv'
<1>1. Publish(p, Upserted(p)) /\ Goto(p, "idle", NoTask)
  BY AloneWrites DEF UpsertPosted, Done, SoloInv
<1>2. Bounded(Upserted(p))
  BY UpsertedWorks, SameCount DEF UpsertPosted, SoloInv, CountInv
<1>3. Room("idle", NoTask, Upserted(p))
  BY DEF Room, Reading
<1>4. QED
  BY <1>1, <1>2, <1>3, CountPublishes

\* The entries of a fold are not about the buckets that a rebuild folds next.
LEMMA UpsertRebuiltCounts ==
  ASSUME SoloInv, CountInv, NEW p \in Process, UpsertRebuilt(p)
  PROVE  CountInv'
<1> DEFINE b == Key(p)
           v == View(p)
           d == Upserted(p)
           rest == task[p].keys \ {b}
           l == IF rest = {} THEN "commit" ELSE "requests"
           t == [NoTask EXCEPT !.keys = rest]
<1>1. Write(p, d) /\ Goto(p, l, t) /\ pc[p] = "upsert"
  BY AloneWrites DEF UpsertRebuilt, SoloInv
<1>2. d.events = v.events /\ d.audit = v.audit /\ b = FirstKey(task[p].keys)
  BY <1>1, UpsertedWorks DEF SoloInv
<1>3. db' = db /\ View(p)' = d
  BY <1>1 DEF Write, View, SoloInv, TypeInv, WalTypeOK
<1>4. pc'[p] = l /\ task'[p] = t
  <2> HIDE DEF l, t
  <2>1. QED
    BY <1>1, GotoHere DEF SoloInv
<1>5. t.keys = rest
  BY DEF NoTask
<1>6. FoldKnows("upsert", task[p], v) /\ Room("upsert", task[p], v)
  BY <1>1 DEF SoloInv, WorkerInv, WorkerOK, CountInv
<1> HIDE DEF d, t, v
<1>7. Bounded(db) /\ Bounded(d)
  BY <1>2, SameCount DEF CountInv, v
<1>8. Room(l, t, d)
  <2> SUFFICES ASSUME NEW x \in BagToSet(v.audit), NEW e \in x.considered,
                      e.bucket \in rest
               PROVE  v.audit[x] < Number(v, e.bucket)
    BY <1>2, <1>5 DEF Room, Number
  <2>1. ASSUME NEW y \in Written("upsert", task[p]) PROVE x # EntryFor(y, task[p].reqs)
    <3> DEFINE R == RequestsOf(v.events, b)
    <3>1. task[p].reqs = R /\ task[p].rels = ReleasesOf(v.events, b)
      BY <1>2, <1>6 DEF FoldKnows, Reading
    <3>2. y \in ConflictLeaders(R) \cup Orphans(ReleasesOf(v.events, b), Accepted(R))
      BY <2>1, <3>1 DEF Written
    <3>3. \A f \in EntryFor(y, R).considered : f.bucket = b
      BY <3>2, EntryBucket
    <3>4. QED
      BY <3>1, <3>3
  <2>2. QED
    BY <1>6, <2>1 DEF Room, Reading
<1>9. QED
  BY <1>3, <1>4, <1>7, <1>8, CountStep DEF SoloInv

LEMMA RebuildCounts ==
  ASSUME SoloInv, CountInv, NEW p \in Process,
         \/ StartRebuild(p) \/ DropSnapshot(p) \/ DropAudit(p) \/ FinishRebuild(p)
  PROVE  CountInv'
<1>1. IsDatabase(View(p)) /\ Bounded(View(p)) /\ ~Refused(p)
  BY ViewType, AloneWrites DEF SoloInv, TypeInv, CountInv
<1>2. CASE StartRebuild(p)
  <2>1. PICK t : Goto(p, "dropSnapshot", t) /\ Select(p)
    BY <1>2 DEF StartRebuild
  <2>2. Room("dropSnapshot", t, View(p))
    BY DEF Room, Reading
  <2>3. QED
    BY <2>1, <2>2, CountSelects
<1>3. CASE DropSnapshot(p)
  <2> DEFINE d == [View(p) EXCEPT !.snapshot = EmptySnapshot]
  <2>1. Publish(p, d) /\ Goto(p, "dropAudit", task[p])
    BY <1>1, <1>3 DEF DropSnapshot
  <2>2. d.events = View(p).events /\ d.audit = View(p).audit
    BY <1>1 DEF IsDatabase
  <2> HIDE DEF d
  <2>3. Bounded(d) /\ Room("dropAudit", task[p], d)
    BY <1>1, <2>2, SameCount DEF Room, Reading
  <2>4. QED
    BY <2>1, <2>3, CountPublishes
<1>4. CASE DropAudit(p)
  <2> DEFINE d == [View(p) EXCEPT !.audit = EmptyBag]
             l == IF task[p].keys = {} THEN "commit" ELSE "requests"
  <2>1. Publish(p, d) /\ Goto(p, l, task[p])
    BY <1>1, <1>4 DEF DropAudit
  <2>2. BagToSet(d.audit) = {}
    BY <1>1 DEF IsDatabase, EmptyBag, SetToBag, BagToSet
  <2> HIDE DEF d, l
  <2>3. Bounded(d) /\ Room(l, task[p], d)
    BY <2>2 DEF Bounded, Room
  <2>4. QED
    BY <2>1, <2>3, CountPublishes
<1>5. CASE FinishRebuild(p) /\ conn[p].mode = "writing"
  <2>1. Publish(p, View(p)) /\ Goto(p, "idle", NoTask)
    BY <1>5 DEF FinishRebuild, Commit, View, Done
  <2>2. Room("idle", NoTask, View(p))
    BY DEF Room, Reading
  <2>3. QED
    BY <1>1, <2>1, <2>2, CountPublishes
<1>6. CASE FinishRebuild(p) /\ conn[p].mode # "writing"
  BY <1>6, CountCloses DEF FinishRebuild, Commit
<1>7. QED
  BY <1>2, <1>3, <1>4, <1>5, <1>6

LEMMA IdleCounts ==
  ASSUME SoloInv, CountInv, NEW w \in Process, Receive(w) \/ Read(w)
  PROVE  CountInv'
<1>1. Select(w)
  BY DEF Receive, Read
<1>2. CASE pc' = pc /\ task' = task
  <2>1. db' = db /\ View(w)' = View(w)
    BY <1>1, AloneSelects DEF Select, SoloInv
  <2>2. QED
    BY <1>2, <2>1, CountStep DEF CountInv, SoloInv
<1>3. CASE \E t : Goto(w, "append", t)
  <2>1. PICK t : Goto(w, "append", t)
    BY <1>3
  <2>2. Room("append", t, View(w))
    BY DEF Room, Reading
  <2>3. QED
    BY <1>1, <2>1, <2>2, CountSelects
<1>4. QED
  BY <1>2, <1>3 DEF Receive, Read

LEMMA NextCounts ==
  ASSUME SoloInv, CountInv, [Next]_vars
  PROVE  CountInv'
<1>1. ASSUME NEW w \in Worker, Receive(w) \/ Read(w) PROVE CountInv'
  BY <1>1, IdleCounts DEF Worker
<1>2. ASSUME NEW p \in Process, FoldStep(p) PROVE CountInv'
  BY <1>2, SelectRequestsCounts, WriteAuditCounts, SelectReleasesCounts, SelectAllCounts
     DEF FoldStep
<1>3. ASSUME NEW p \in Process, StartRebuild(p) \/ RebuildStep(p) PROVE CountInv'
  BY <1>3, RebuildCounts, UpsertRebuiltCounts DEF RebuildStep
<1>4. ASSUME NEW p \in Process, PostStep(p) PROVE CountInv'
  BY <1>4, AppendCounts, UpsertPostedCounts DEF PostStep
<1>5. ASSUME NEW p \in Process, Crash(p) PROVE CountInv'
  BY <1>5, CountCloses DEF Crash
<1>6. CASE UNCHANGED vars
  BY <1>6 DEF CountInv, View, vars
<1>7. QED
  BY <1>1, <1>2, <1>3, <1>4, <1>5, <1>6 DEF Next, Continue

LEMMA InitCounts == Init => CountInv
<1>1. Bounded(Blank) /\ \A t : Room("idle", t, Blank)
  BY DEF Bounded, Room, Reading, Blank, EmptyBag, SetToBag, BagToSet
<1>2. QED
  BY <1>1 DEF Init, WalInit, Closed, View, CountInv

LEMMA PowerCounts ==
  PowerInv /\ CountInv /\ Bounded(synced) /\ [PowerNext]_powerVars
    => CountInv' /\ Bounded(synced)'
<1> SUFFICES ASSUME PowerInv, CountInv, Bounded(synced), [PowerNext]_powerVars
             PROVE  CountInv' /\ Bounded(synced)'
  OBVIOUS
<1>1. CASE PowerOff
  BY <1>1 DEF PowerOff, CountInv, View, Closed, Room, Reading
<1>2. CASE ~PowerOff
  <2>1. [Next]_vars /\ synced' \in {synced, db'}
    BY <1>2 DEF PowerNext, powerVars
  <2>2. CountInv'
    BY <2>1, NextCounts DEF PowerInv
  <2>3. QED
    BY <2>1, <2>2 DEF CountInv
<1>3. QED
  BY <1>1, <1>2

\* The audit log holds an entry no more often than the buckets it is about have
\* events: no retry of a client, rebuild, crash or loss of power records a
\* conflict or an orphan release once more than the events that revealed it.
THEOREM EntriesStayBounded == Alone /\ (Spec \/ PowerSpec) => []EntriesBounded
<1>1. CountInv => EntriesBounded
  BY DEF CountInv, Bounded, Number, EntriesBounded
<1>2. Alone /\ Spec => []CountInv
  BY SoloInvariant, InitCounts, NextCounts, PTL DEF Spec
<1>3. Init => Bounded(Blank)
  BY InitCounts DEF CountInv, Init, WalInit
<1>4. PowerInit => CountInv /\ Bounded(synced)
  BY <1>3, InitCounts DEF PowerInit
<1>5. Alone /\ PowerSpec => []CountInv
  BY <1>4, PowerInvariant, PowerCounts, PTL DEF PowerSpec
<1>6. QED
  BY <1>1, <1>2, <1>5, PTL

=============================================================================
