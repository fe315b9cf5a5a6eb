----------------------------- MODULE EngineProofs -----------------------------
(***************************************************************************)
(* What holds of the engine for every set of events, buckets and           *)
(* processes, whichever of them rebuild or crash.                          *)
(***************************************************************************)
EXTENDS EngineProperties, ResolverProofs

-----------------------------------------------------------------------------
(* What each statement of SqliteWal preserves: the types ...               *)

LEMMA BlankType == IsDatabase(Blank)
<1>1. EmptySnapshot \in [Bucket -> Row]
  BY NoRowType DEF EmptySnapshot
<1>2. IsABag(EmptyBag) /\ DOMAIN EmptyBag \subseteq AuditEntry
  BY DEF IsABag, EmptyBag, SetToBag
<1>3. IsFiniteSet({})
  BY FS_EmptySet
<1>4. QED
  BY <1>1, <1>2, <1>3 DEF IsDatabase, Blank

LEMMA ClosedType == IsConnection(Closed)
  BY BlankType DEF IsConnection, Closed

LEMMA ConnectionType ==
  ASSUME NEW m \in {"auto", "begun", "reading", "writing"},
         NEW d, IsDatabase(d), NEW s \in BOOLEAN
  PROVE  IsConnection([mode |-> m, view |-> d, stale |-> s])
  BY DEF IsConnection

LEMMA ViewType ==
  ASSUME WalTypeOK, NEW p \in Process
  PROVE  IsDatabase(View(p))
  BY DEF WalTypeOK, IsConnection, View

LEMMA AfterSelectType ==
  ASSUME WalTypeOK, NEW p \in Process
  PROVE  IsConnection(AfterSelect(p))
  BY ConnectionType DEF WalTypeOK, AfterSelect, Frozen

LEMMA AfterRefusalType ==
  ASSUME WalTypeOK, NEW p \in Process
  PROVE  IsConnection(AfterRefusal(p))
<1>1. IsConnection(Begun)
  BY BlankType DEF IsConnection, Begun
<1>2. QED
  BY <1>1 DEF WalTypeOK, AfterRefusal

LEMMA ConnUpdateType ==
  ASSUME WalTypeOK, NEW p \in Process, NEW c, IsConnection(c),
         db' = db, conn' = [conn EXCEPT ![p] = c]
  PROVE  WalTypeOK'
<1>1. IsDatabase(db)'
  BY DEF WalTypeOK, IsDatabase
<1>2. (DOMAIN conn = Process)'
  BY DEF WalTypeOK
<1>3. ASSUME NEW q \in Process PROVE IsConnection(conn[q])'
  <2>1. conn'[q] = IF q = p THEN c ELSE conn[q]
    BY DEF WalTypeOK
  <2>2. IsConnection(conn'[q])
    BY <2>1 DEF WalTypeOK
  <2>3. QED
    BY <2>2 DEF IsConnection, IsDatabase
<1>4. QED
  BY <1>1, <1>2, <1>3 DEF WalTypeOK

LEMMA SelectType ==
  ASSUME WalTypeOK, NEW p \in Process, Select(p)
  PROVE  WalTypeOK'
  BY AfterSelectType, ConnUpdateType DEF Select

LEMMA WriteType ==
  ASSUME WalTypeOK, NEW p \in Process, NEW d, IsDatabase(d), Write(p, d)
  PROVE  WalTypeOK'
  BY ConnectionType, ConnUpdateType DEF Write

LEMMA OutdatedType ==
  ASSUME NEW c, IsConnection(c), NEW touched \in BOOLEAN
  PROVE  /\ IsConnection(Outdated(c, touched))
         /\ Outdated(c, touched).mode = c.mode
         /\ Outdated(c, touched).view = c.view
         /\ Outdated(c, touched).stale <=>
              c.stale \/ (c.mode = "reading" /\ touched)
  BY DEF IsConnection, Outdated

LEMMA PublishType ==
  ASSUME WalTypeOK, NEW p \in Process, NEW d, IsDatabase(d), Publish(p, d)
  PROVE  WalTypeOK'
<1>1. PICK touched \in BOOLEAN :
        conn' = [q \in Process |->
                   IF q = p THEN Closed ELSE Outdated(conn[q], touched)]
  BY DEF Publish
<1>2. IsDatabase(db)'
  BY DEF Publish, IsDatabase
<1>3. (DOMAIN conn = Process)'
  BY <1>1
<1>4. ASSUME NEW q \in Process PROVE IsConnection(conn[q])'
  <2>1. IsConnection(conn'[q])
    BY <1>1, OutdatedType, ClosedType DEF WalTypeOK
  <2>2. QED
    BY <2>1 DEF IsConnection, IsDatabase
<1>5. QED
  BY <1>2, <1>3, <1>4 DEF WalTypeOK

LEMMA CommitType ==
  ASSUME WalTypeOK, NEW p \in Process, Commit(p)
  PROVE  WalTypeOK'
<1>1. CASE conn[p].mode = "writing"
  <2>1. IsDatabase(conn[p].view) /\ Publish(p, conn[p].view)
    BY <1>1 DEF WalTypeOK, IsConnection, Commit
  <2>2. QED
    BY <2>1, PublishType
<1>2. CASE conn[p].mode # "writing"
  BY <1>2, ClosedType, ConnUpdateType DEF Commit
<1>3. QED
  BY <1>1, <1>2

-----------------------------------------------------------------------------
(* ... and the transactions.                                               *)

\* Who may write sees every committed event, and nobody else is writing.
LEMMA FreshView ==
  ASSUME WalTypeOK, WalSound, NEW p \in Process, CanWrite(p)
  PROVE  /\ View(p).events = db.events
         /\ \A q \in Process \ {p} : conn[q].mode # "writing"
<1>1. conn[p].mode \in {"auto", "begun", "reading", "writing"}
  BY DEF WalTypeOK, IsConnection
<1>2. QED
  BY <1>1 DEF WalSound, CanWrite, View

LEMMA ViewIsCommitted ==
  ASSUME WalTypeOK, WalSound, NEW p \in Process
  PROVE  View(p).events \subseteq db.events
<1>1. conn[p].mode \in {"auto", "begun", "reading", "writing"}
  BY DEF WalTypeOK, IsConnection
<1>2. QED
  BY <1>1 DEF WalSound, View

\* A connection that changes without a commit.
LEMMA ConnUpdateSound ==
  ASSUME WalTypeOK, WalSound, NEW p \in Process, NEW c,
         db' = db, conn' = [conn EXCEPT ![p] = c],
         c.stale => c.mode = "reading",
         c.mode = "writing" =>
           /\ c.view.events = db.events
           /\ \A q \in Process \ {p} : conn[q].mode # "writing",
         c.mode = "reading" =>
           /\ c.view.events \subseteq db.events
           /\ ~c.stale => c.view = db
  PROVE  WalSound'
<1>1. \A q \in Process : conn'[q] = IF q = p THEN c ELSE conn[q]
  BY DEF WalTypeOK
<1>2. QED
  BY <1>1 DEF WalSound

LEMMA ClosedSound ==
  ASSUME WalTypeOK, WalSound, NEW p \in Process,
         db' = db, conn' = [conn EXCEPT ![p] = Closed]
  PROVE  WalSound'
  BY ConnUpdateSound DEF Closed

LEMMA SelectSound ==
  ASSUME WalTypeOK, WalSound, NEW p \in Process,
         db' = db, conn' = [conn EXCEPT ![p] = AfterSelect(p)]
  PROVE  WalSound'
<1>1. CASE conn[p].mode = "begun"
  BY <1>1, ConnUpdateSound DEF AfterSelect, Frozen
<1>2. CASE conn[p].mode # "begun"
  <2>1. AfterSelect(p) = conn[p]
    BY <1>2 DEF AfterSelect
  <2>2. conn' = [conn EXCEPT ![p] = conn[p]]
    BY <2>1
  <2>3. QED
    BY <2>2, ConnUpdateSound DEF WalSound
<1>3. QED
  BY <1>1, <1>2

LEMMA RefusalSound ==
  ASSUME WalTypeOK, WalSound, NEW p \in Process,
         db' = db, conn' = [conn EXCEPT ![p] = AfterRefusal(p)]
  PROVE  WalSound'
<1>1. CASE conn[p].mode = "auto"
  BY <1>1, ConnUpdateSound DEF AfterRefusal, Begun
<1>2. CASE conn[p].mode # "auto"
  <2>1. conn' = [conn EXCEPT ![p] = conn[p]]
    BY <1>2 DEF AfterRefusal
  <2>2. QED
    BY <2>1, ConnUpdateSound DEF WalSound
<1>3. QED
  BY <1>1, <1>2

LEMMA WriteSound ==
  ASSUME WalTypeOK, WalSound, NEW p \in Process, NEW d,
         d.events = View(p).events, Write(p, d)
  PROVE  WalSound'
  BY FreshView, ConnUpdateSound DEF Write

\* A commit that keeps the events its view shows.
LEMMA PublishSound ==
  ASSUME WalTypeOK, WalSound, NEW p \in Process, NEW d,
         View(p).events \subseteq d.events, Publish(p, d)
  PROVE  WalSound' /\ db.events \subseteq db'.events
<1>1. PICK touched \in BOOLEAN :
        /\ d # db => touched
        /\ conn' = [q \in Process |->
                      IF q = p THEN Closed ELSE Outdated(conn[q], touched)]
  BY DEF Publish
<1>2. db.events \subseteq db'.events /\ db' = d
  BY FreshView DEF Publish
<1>3. conn'[p].mode = "auto" /\ ~conn'[p].stale
  BY <1>1 DEF Closed
<1>4. ASSUME NEW q \in Process, q # p
      PROVE  /\ conn'[q].mode = conn[q].mode
             /\ conn'[q].view = conn[q].view
             /\ conn'[q].stale <=>
                  conn[q].stale \/ (conn[q].mode = "reading" /\ touched)
             /\ conn[q].mode # "writing"
  <2>1. conn'[q] = Outdated(conn[q], touched)
    BY <1>1, <1>4
  <2>2. IsConnection(conn[q])
    BY DEF WalTypeOK
  <2>3. conn[q].mode # "writing"
    BY <1>4, FreshView DEF Publish
  <2>4. QED
    BY <2>1, <2>2, <2>3, OutdatedType
<1>5. \A q \in Process : conn'[q].mode # "writing"
  BY <1>3, <1>4
<1>6. \A q \in Process : conn'[q].stale => conn'[q].mode = "reading"
  BY <1>3, <1>4 DEF WalSound
<1>7. ASSUME NEW q \in Process, conn'[q].mode = "reading"
      PROVE  /\ conn'[q].view.events \subseteq db'.events
             /\ ~conn'[q].stale => conn'[q].view = db'
  BY <1>1, <1>2, <1>3, <1>4, <1>7 DEF WalSound
<1>8. QED
  BY <1>2, <1>5, <1>6, <1>7 DEF WalSound

LEMMA CommitSound ==
  ASSUME WalTypeOK, WalSound, NEW p \in Process, Commit(p)
  PROVE  WalSound' /\ db.events \subseteq db'.events
<1>1. CASE conn[p].mode = "writing"
  <2>1. View(p) = conn[p].view
    BY <1>1 DEF View
  <2>2. QED
    BY <1>1, <2>1, PublishSound DEF Commit
<1>2. CASE conn[p].mode # "writing"
  BY <1>2, ClosedSound DEF Commit
<1>3. QED
  BY <1>1, <1>2

-----------------------------------------------------------------------------
(* Types.  A fold has a bucket to fold, and the queries it keeps are       *)
(* finite, which is what makes the new row a row.                          *)

Folding == {"append", "requests", "conflicts", "orphans", "upsert"}

TaskOK(l, t) ==
  /\ t \in Task
  /\ IsFiniteSet(t.reqs)
  /\ IsFiniteSet(t.rels)
  /\ l \in Folding => t.keys # {}

ControlOK ==
  /\ pc \in [Process -> Location]
  /\ task \in [Process -> Task]
  /\ \A p \in Process : TaskOK(pc[p], task[p])

TypeInv ==
  /\ WalTypeOK
  /\ ControlOK
  /\ acked \subseteq Event
  /\ duplicates \subseteq Event

LEMMA NoTaskOK == TaskOK("idle", NoTask) /\ NoTask \in Task
  BY NoRowType, FS_EmptySet DEF TaskOK, NoTask, Task, Folding

LEMMA GotoType ==
  ASSUME ControlOK, NEW p \in Process, NEW l \in Location, NEW t, TaskOK(l, t),
         Goto(p, l, t)
  PROVE  ControlOK'
<1>1. t \in Task
  BY DEF TaskOK
<1>2. pc' \in [Process -> Location] /\ task' \in [Process -> Task]
  BY <1>1 DEF ControlOK, Goto
<1>3. \A q \in Process : /\ pc'[q] = IF q = p THEN l ELSE pc[q]
                         /\ task'[q] = IF q = p THEN t ELSE task[q]
  BY DEF ControlOK, Goto
<1>4. ASSUME NEW q \in Process PROVE TaskOK(pc'[q], task'[q])
  BY <1>3 DEF ControlOK
<1>5. QED
  BY <1>2, <1>4 DEF ControlOK, TaskOK

LEMMA DoneType ==
  ASSUME ControlOK, NEW p \in Process, Done(p)
  PROVE  ControlOK'
  BY GotoType, NoTaskOK DEF Done, Location

LEMMA RaiseType ==
  ASSUME TypeInv, NEW p \in Process, NEW c, IsConnection(c), Raise(p, c)
  PROVE  TypeInv'
<1>1. WalTypeOK'
  <2>1. CASE p \in Replayer
    BY <2>1, ClosedType, ConnUpdateType DEF TypeInv, Raise
  <2>2. CASE p \notin Replayer
    BY <2>2, ConnUpdateType DEF TypeInv, Raise
  <2>3. QED
    BY <2>1, <2>2
<1>2. ControlOK'
  BY DoneType DEF TypeInv, Raise
<1>3. QED
  BY <1>1, <1>2 DEF TypeInv, Raise

LEMMA RefusedType ==
  ASSUME TypeInv, NEW p \in Process, Refused(p)
  PROVE  TypeInv'
  BY AfterRefusalType, RaiseType DEF TypeInv, Refused

FirstKey(K) == CHOOSE b \in K : \A c \in K : b <= c

\* The bucket being folded is one.
LEMMA KeyType ==
  ASSUME ControlOK, NEW p \in Process, pc[p] \in Folding
  PROVE  /\ Key(p) = FirstKey(task[p].keys)
         /\ Key(p) \in task[p].keys /\ Key(p) \in Bucket
<1>1. task[p].keys \in SUBSET Bucket /\ task[p].keys # {}
  BY DEF ControlOK, TaskOK, Task
<1>2. QED
  BY <1>1, FirstBucket DEF Key, FirstKey

\* The changes that the statements make to a database.
LEMMA UpdateType ==
  ASSUME NEW d, IsDatabase(d)
  PROVE  /\ \A e \in Event : IsDatabase([d EXCEPT !.events = @ \cup {e}])
         /\ IsDatabase([d EXCEPT !.snapshot = EmptySnapshot])
         /\ \A b \in Bucket, r \in Row : IsDatabase([d EXCEPT !.snapshot[b] = r])
         /\ IsDatabase([d EXCEPT !.audit = EmptyBag])
         /\ \A x \in AuditEntry :
              IsDatabase([d EXCEPT !.audit = @ (+) SetToBag({x})])
<1>1. /\ d = [events |-> d.events, snapshot |-> d.snapshot, audit |-> d.audit]
      /\ d.events \subseteq Event /\ IsFiniteSet(d.events)
      /\ d.snapshot \in [Bucket -> Row]
      /\ IsABag(d.audit) /\ DOMAIN d.audit \subseteq AuditEntry
  BY DEF IsDatabase
<1>2. ASSUME NEW e \in Event
      PROVE  IsDatabase([d EXCEPT !.events = @ \cup {e}])
  <2>1. IsFiniteSet(d.events \cup {e})
    BY <1>1, FS_AddElement
  <2>2. [d EXCEPT !.events = @ \cup {e}]
          = [events |-> d.events \cup {e}, snapshot |-> d.snapshot, audit |-> d.audit]
    BY <1>1
  <2>3. QED
    BY <1>1, <2>1, <2>2 DEF IsDatabase
<1>3. IsDatabase([d EXCEPT !.snapshot = EmptySnapshot])
  <2>1. [d EXCEPT !.snapshot = EmptySnapshot]
          = [events |-> d.events, snapshot |-> EmptySnapshot, audit |-> d.audit]
    BY <1>1
  <2>2. EmptySnapshot \in [Bucket -> Row]
    BY NoRowType DEF EmptySnapshot
  <2>3. QED
    BY <1>1, <2>1, <2>2 DEF IsDatabase
<1>4. ASSUME NEW b \in Bucket, NEW r \in Row
      PROVE  IsDatabase([d EXCEPT !.snapshot[b] = r])
  <2> DEFINE s == [d.snapshot EXCEPT ![b] = r]
  <2>1. [d EXCEPT !.snapshot[b] = r]
          = [events |-> d.events, snapshot |-> s, audit |-> d.audit]
    BY <1>1
  <2>2. s \in [Bucket -> Row]
    BY <1>1
  <2>3. QED
    BY <1>1, <2>1, <2>2 DEF IsDatabase
<1>5. IsDatabase([d EXCEPT !.audit = EmptyBag])
  <2>1. [d EXCEPT !.audit = EmptyBag]
          = [events |-> d.events, snapshot |-> d.snapshot, audit |-> EmptyBag]
    BY <1>1
  <2>2. IsABag(EmptyBag) /\ DOMAIN EmptyBag \subseteq AuditEntry
    BY DEF IsABag, EmptyBag, SetToBag
  <2>3. QED
    BY <1>1, <2>1, <2>2 DEF IsDatabase
<1>6. ASSUME NEW x \in AuditEntry
      PROVE  IsDatabase([d EXCEPT !.audit = @ (+) SetToBag({x})])
  <2> DEFINE B == d.audit (+) SetToBag({x})
  <2>1. [d EXCEPT !.audit = @ (+) SetToBag({x})]
          = [events |-> d.events, snapshot |-> d.snapshot, audit |-> B]
    BY <1>1
  <2>2. DOMAIN B = DOMAIN d.audit \cup {x}
    BY DEF (+), SetToBag
  <2>3. ASSUME NEW y \in DOMAIN B PROVE B[y] \in Nat /\ B[y] > 0
    BY <1>1, <2>3 DEF (+), SetToBag, IsABag
  <2>4. B = [y \in DOMAIN B |-> B[y]]
    BY DEF (+)
  <2>5. IsABag(B) /\ DOMAIN B \subseteq AuditEntry
    <3>1. DOMAIN B \subseteq AuditEntry
      BY <1>1, <2>2
    <3> HIDE DEF B
    <3>2. QED
      BY <2>3, <2>4, <3>1 DEF IsABag
  <2> HIDE DEF B
  <2>6. QED
    BY <1>1, <2>1, <2>5 DEF IsDatabase
<1>7. QED
  BY <1>2, <1>3, <1>4, <1>5, <1>6

-----------------------------------------------------------------------------
(* Type correctness: one lemma for each handler step.                      *)

LEMMA UnchangedTask ==
  ASSUME ControlOK, UNCHANGED <<pc, task>>
  PROVE  ControlOK'
  BY DEF ControlOK, TaskOK

LEMMA ReceiveType ==
  ASSUME TypeInv, NEW w \in Worker, Receive(w)
  PROVE  TypeInv'
<1>1. w \in Process
  BY DEF Worker
<1>2. WalTypeOK'
  BY <1>1, SelectType DEF Receive, TypeInv
<1>3. PICK e \in Event :
        IF Seen(w, e)
          THEN /\ duplicates' = duplicates \cup {e}
               /\ UNCHANGED <<pc, task>>
          ELSE /\ Goto(w, "append", [NoTask EXCEPT !.posted = {e}, !.keys = {e.bucket}])
               /\ UNCHANGED duplicates
  BY DEF Receive
<1>4. CASE Seen(w, e)
  BY <1>2, <1>3, <1>4, UnchangedTask DEF TypeInv, Receive
<1>5. CASE ~Seen(w, e)
  <2> DEFINE t == [NoTask EXCEPT !.posted = {e}, !.keys = {e.bucket}]
  <2>1. TaskOK("append", t)
    <3>1. e.bucket \in Bucket
      BY EventAssumption DEF EventPayload
    <3>2. QED
      BY <3>1, NoRowType, FS_EmptySet DEF TaskOK, Task, NoTask, Folding
  <2>2. Goto(w, "append", t)
    BY <1>3, <1>5
  <2>3. ControlOK'
    <3> HIDE DEF t
    <3>1. "append" \in Location
      BY DEF Location
    <3>2. QED
      BY <1>1, <2>1, <2>2, <3>1, GotoType DEF TypeInv
  <2>4. QED
    BY <1>2, <1>3, <1>5, <2>3 DEF TypeInv, Receive
<1>6. QED
  BY <1>4, <1>5

LEMMA AppendType ==
  ASSUME TypeInv, NEW w \in Process, Append(w)
  PROVE  TypeInv'
<1>1. CASE Refused(w)
  BY <1>1, RefusedType
<1>2. IsDatabase(View(w))
  BY ViewType DEF TypeInv
<1>3. task[w].posted \subseteq Event
  BY DEF TypeInv, ControlOK, Task
<1>4. ASSUME NEW e \in task[w].posted,
             Publish(w, [View(w) EXCEPT !.events = @ \cup {e}]),
             Goto(w, "requests", task[w]),
             UNCHANGED <<acked, duplicates>>
      PROVE  TypeInv'
  <2>1. IsDatabase([View(w) EXCEPT !.events = @ \cup {e}])
    BY <1>2, <1>3, <1>4, UpdateType
  <2>2. WalTypeOK'
    BY <1>4, <2>1, PublishType DEF TypeInv
  <2>3. TaskOK("requests", task[w])
    BY DEF TypeInv, ControlOK, TaskOK, Append, Folding
  <2>4. QED
    BY <1>4, <2>2, <2>3, GotoType DEF TypeInv, Location
<1>5. ASSUME Raise(w, [mode |-> "writing", view |-> View(w), stale |-> FALSE])
      PROVE  TypeInv'
  BY <1>2, <1>5, RaiseType, ConnectionType
<1>6. QED
  BY <1>1, <1>4, <1>5 DEF Append

LEMMA SelectRequestsType ==
  ASSUME TypeInv, NEW p \in Process, SelectRequests(p)
  PROVE  TypeInv'
<1> DEFINE R == RequestsOf(View(p).events, Key(p))
<1>1. R \in SUBSET Event /\ IsFiniteSet(R)
  BY ViewType, EventsOfType DEF TypeInv, IsDatabase
<1>2. CASE ~Foldable(R)
  BY <1>2, RaiseType, AfterSelectType DEF SelectRequests, TypeInv
<1>3. CASE Foldable(R)
  <2> DEFINE t == [task[p] EXCEPT !.reqs = R, !.todo = ConflictLeaders(R)]
  <2>1. Goto(p, "conflicts", t) /\ Select(p) /\ UNCHANGED <<acked, duplicates>>
    BY <1>3 DEF SelectRequests
  <2>2. ConflictLeaders(R) \in SUBSET Event
    BY <1>1 DEF ConflictLeaders
  <2>3. TaskOK("conflicts", t)
    <3>1. task[p] \in Task /\ IsFiniteSet(task[p].rels) /\ task[p].keys # {}
      BY DEF TypeInv, ControlOK, TaskOK, SelectRequests, Folding
    <3> HIDE DEF R
    <3>2. QED
      BY <1>1, <2>2, <3>1 DEF TaskOK, Task
  <2>4. WalTypeOK'
    BY <2>1, SelectType DEF TypeInv
  <2> HIDE DEF t, R
  <2>5. QED
    BY <2>1, <2>3, <2>4, GotoType DEF TypeInv, Location
<1>4. QED
  BY <1>2, <1>3

LEMMA WriteAuditType ==
  ASSUME TypeInv, NEW p \in Process, WriteAudit(p)
  PROVE  TypeInv'
<1>1. CASE Refused(p)
  BY <1>1, RefusedType
<1>2. ASSUME NEW x \in NextRecorded(p),
             Publish(p, [View(p) EXCEPT
                           !.audit = @ (+) SetToBag({EntryFor(x, task[p].reqs)})]),
             Goto(p, pc[p], [task[p] EXCEPT !.todo = @ \ {x}]),
             UNCHANGED <<acked, duplicates>>
      PROVE  TypeInv'
  <2> DEFINE t == [task[p] EXCEPT !.todo = @ \ {x}]
             entry == EntryFor(x, task[p].reqs)
             d == [View(p) EXCEPT !.audit = @ (+) SetToBag({entry})]
  <2>1. task[p] \in Task /\ TaskOK(pc[p], task[p]) /\ pc[p] \in Location
    BY DEF TypeInv, ControlOK
  <2>2. x \in Event
    BY <2>1 DEF NextRecorded, FirstStarting, Earliest, Task
  <2>3. entry \in AuditEntry
    BY <2>1, <2>2, EntryType DEF Task
  <2>4. IsDatabase(d)
    <3> HIDE DEF entry
    <3>1. QED
      BY <2>3, ViewType, UpdateType DEF TypeInv
  <2>5. TaskOK(pc[p], t)
    BY <2>1 DEF TaskOK, Task
  <2>6. Publish(p, d) /\ Goto(p, pc[p], t)
    BY <1>2
  <2> HIDE DEF t, d
  <2>7. WalTypeOK' /\ ControlOK'
    BY <2>1, <2>4, <2>5, <2>6, PublishType, GotoType DEF TypeInv
  <2>8. QED
    BY <1>2, <2>7 DEF TypeInv
<1>3. QED
  BY <1>1, <1>2 DEF WriteAudit

LEMMA SelectReleasesType ==
  ASSUME TypeInv, NEW p \in Process, SelectReleases(p)
  PROVE  TypeInv'
<1> DEFINE rels == ReleasesOf(View(p).events, Key(p))
           t == [task[p] EXCEPT !.rels = rels,
                                !.todo = Orphans(rels, Accepted(task[p].reqs))]
<1>1. rels \in SUBSET Event /\ IsFiniteSet(rels)
  BY ViewType, EventsOfType DEF TypeInv, IsDatabase
<1>2. Orphans(rels, Accepted(task[p].reqs)) \in SUBSET Event
  BY <1>1 DEF Orphans
<1>3. Goto(p, "orphans", t) /\ Select(p) /\ UNCHANGED <<acked, duplicates>>
  BY DEF SelectReleases
<1>4. TaskOK("orphans", t)
  <2>1. task[p] \in Task /\ IsFiniteSet(task[p].reqs) /\ task[p].keys # {}
    BY DEF TypeInv, ControlOK, TaskOK, SelectReleases, Folding
  <2> HIDE DEF rels
  <2>2. QED
    BY <1>1, <1>2, <2>1 DEF TaskOK, Task
<1>5. WalTypeOK'
  BY <1>3, SelectType DEF TypeInv
<1> HIDE DEF t
<1>6. QED
  BY <1>3, <1>4, <1>5, GotoType DEF TypeInv, Location

LEMMA SelectAllType ==
  ASSUME TypeInv, NEW p \in Process, SelectAll(p)
  PROVE  TypeInv'
<1> DEFINE all == EventsOf(View(p).events, Key(p))
           row == FoldRow(task[p].reqs, task[p].rels, all)
           t == [task[p] EXCEPT !.row = row]
<1>1. /\ task[p] \in Task /\ task[p].keys # {}
      /\ IsFiniteSet(task[p].reqs) /\ IsFiniteSet(task[p].rels)
  BY DEF TypeInv, ControlOK, TaskOK, SelectAll, Folding
<1>2. row \in Row
  <2>1. all \in SUBSET Event /\ IsFiniteSet(all)
    BY ViewType, EventsOfType DEF TypeInv, IsDatabase
  <2> HIDE DEF all
  <2>2. QED
    BY <1>1, <2>1, FoldRowType DEF Task
<1>3. Goto(p, "upsert", t) /\ Select(p) /\ UNCHANGED <<acked, duplicates>>
  BY DEF SelectAll
<1>4. TaskOK("upsert", t)
  <2> HIDE DEF row
  <2>1. QED
    BY <1>1, <1>2 DEF TaskOK, Task
<1>5. WalTypeOK'
  BY <1>3, SelectType DEF TypeInv
<1> HIDE DEF t
<1>6. QED
  BY <1>3, <1>4, <1>5, GotoType DEF TypeInv, Location

LEMMA UpsertedType ==
  ASSUME TypeInv, NEW p \in Process, pc[p] = "upsert"
  PROVE  IsDatabase(Upserted(p))
<1>1. Key(p) \in Bucket
  BY KeyType DEF TypeInv, Folding
<1>2. task[p].row \in Row
  BY DEF TypeInv, ControlOK, Task
<1>3. QED
  BY <1>1, <1>2, ViewType, UpdateType DEF Upserted, TypeInv

LEMMA UpsertPostedType ==
  ASSUME TypeInv, NEW w \in Process, UpsertPosted(w)
  PROVE  TypeInv'
<1>1. CASE Refused(w)
  BY <1>1, RefusedType
<1>2. CASE ~Refused(w)
  <2>1. /\ Publish(w, Upserted(w)) /\ Done(w)
        /\ acked' = acked \cup task[w].posted /\ UNCHANGED duplicates
    BY <1>2 DEF UpsertPosted
  <2>2. WalTypeOK'
    BY <2>1, UpsertedType, PublishType DEF UpsertPosted, TypeInv
  <2>3. task[w].posted \subseteq Event
    BY DEF TypeInv, ControlOK, Task
  <2>4. QED
    BY <2>1, <2>2, <2>3, DoneType DEF TypeInv
<1>3. QED
  BY <1>1, <1>2

LEMMA UpsertRebuiltType ==
  ASSUME TypeInv, NEW p \in Process, UpsertRebuilt(p)
  PROVE  TypeInv'
<1>1. CASE Refused(p)
  BY <1>1, RefusedType
<1>2. CASE ~Refused(p)
  <2> DEFINE rest == task[p].keys \ {Key(p)}
             l == IF rest = {} THEN "commit" ELSE "requests"
             t == [NoTask EXCEPT !.keys = rest]
  <2>1. /\ Write(p, Upserted(p)) /\ Goto(p, l, t)
        /\ UNCHANGED <<acked, duplicates>>
    BY <1>2 DEF UpsertRebuilt
  <2>2. WalTypeOK'
    BY <2>1, UpsertedType, WriteType DEF UpsertRebuilt, TypeInv
  <2>3. rest \subseteq Bucket
    BY DEF TypeInv, ControlOK, Task
  <2>4. l \in Location /\ TaskOK(l, t)
    <3>1. l \in Location /\ (l \in Folding => rest # {})
      BY DEF Location, Folding
    <3> HIDE DEF rest, l
    <3>2. QED
      BY <2>3, <3>1, NoRowType, FS_EmptySet DEF TaskOK, Task, NoTask
  <2> HIDE DEF l, t
  <2>5. QED
    BY <2>1, <2>2, <2>4, GotoType DEF TypeInv
<1>3. QED
  BY <1>1, <1>2

LEMMA StartRebuildType ==
  ASSUME TypeInv, NEW p \in Process, StartRebuild(p)
  PROVE  TypeInv'
<1> DEFINE K == {e.bucket : e \in View(p).events}
           t == [NoTask EXCEPT !.keys = K]
<1>1. K \subseteq Bucket
  BY ViewType, EventAssumption DEF TypeInv, IsDatabase, EventPayload
<1>2. Goto(p, "dropSnapshot", t) /\ Select(p) /\ UNCHANGED <<acked, duplicates>>
  BY DEF StartRebuild
<1>3. TaskOK("dropSnapshot", t)
  <2> HIDE DEF K
  <2>1. QED
    BY <1>1, NoRowType, FS_EmptySet DEF TaskOK, Task, NoTask, Folding
<1> HIDE DEF t
<1>4. WalTypeOK'
  BY <1>2, SelectType DEF TypeInv
<1>5. QED
  BY <1>2, <1>3, <1>4, GotoType DEF TypeInv, Location

LEMMA DropSnapshotType ==
  ASSUME TypeInv, NEW p \in Process, DropSnapshot(p)
  PROVE  TypeInv'
<1>1. CASE Refused(p)
  BY <1>1, RefusedType
<1>2. CASE ~Refused(p)
  <2> DEFINE d == [View(p) EXCEPT !.snapshot = EmptySnapshot]
  <2>1. /\ Publish(p, d) /\ Goto(p, "dropAudit", task[p])
        /\ UNCHANGED <<acked, duplicates>>
    BY <1>2 DEF DropSnapshot
  <2>2. IsDatabase(d)
    BY ViewType, UpdateType DEF TypeInv
  <2> HIDE DEF d
  <2>3. TaskOK("dropAudit", task[p])
    BY DEF TypeInv, ControlOK, TaskOK, Folding
  <2>4. QED
    BY <2>1, <2>2, <2>3, PublishType, GotoType DEF TypeInv, Location
<1>3. QED
  BY <1>1, <1>2

LEMMA DropAuditType ==
  ASSUME TypeInv, NEW p \in Process, DropAudit(p)
  PROVE  TypeInv'
<1>1. CASE Refused(p)
  BY <1>1, RefusedType
<1>2. CASE ~Refused(p)
  <2> DEFINE d == [View(p) EXCEPT !.audit = EmptyBag]
             l == IF task[p].keys = {} THEN "commit" ELSE "requests"
  <2>1. /\ Publish(p, d) /\ Goto(p, l, task[p])
        /\ UNCHANGED <<acked, duplicates>>
    BY <1>2 DEF DropAudit
  <2>2. IsDatabase(d)
    BY ViewType, UpdateType DEF TypeInv
  <2>3. l \in Location /\ TaskOK(l, task[p])
    BY DEF TypeInv, ControlOK, TaskOK, Location, Folding
  <2> HIDE DEF d, l
  <2>4. QED
    BY <2>1, <2>2, <2>3, PublishType, GotoType DEF TypeInv
<1>3. QED
  BY <1>1, <1>2

LEMMA FinishRebuildType ==
  ASSUME TypeInv, NEW p \in Process, FinishRebuild(p)
  PROVE  TypeInv'
  BY CommitType, DoneType DEF FinishRebuild, TypeInv

LEMMA ReadType ==
  ASSUME TypeInv, NEW w \in Worker, Read(w)
  PROVE  TypeInv'
<1>1. w \in Process
  BY DEF Worker
<1>2. QED
  BY <1>1, SelectType, UnchangedTask DEF Read, TypeInv

LEMMA CrashType ==
  ASSUME TypeInv, NEW p \in Process, Crash(p)
  PROVE  TypeInv'
  BY ClosedType, ConnUpdateType, DoneType DEF Crash, TypeInv

LEMMA StutterType ==
  ASSUME TypeInv, UNCHANGED vars
  PROVE  TypeInv'
<1>1. WalTypeOK'
  BY DEF TypeInv, WalTypeOK, IsDatabase, IsConnection, vars
<1>2. QED
  BY <1>1, UnchangedTask DEF TypeInv, vars

LEMMA InitType == Init => TypeInv
<1> SUFFICES ASSUME Init PROVE TypeInv
  OBVIOUS
<1>1. WalTypeOK
  BY BlankType, ClosedType DEF Init, WalInit, WalTypeOK
<1>2. ControlOK
  BY NoTaskOK DEF Init, ControlOK, Location
<1>3. QED
  BY <1>1, <1>2 DEF Init, TypeInv

LEMMA NextType == TypeInv /\ [Next]_vars => TypeInv'
<1> SUFFICES ASSUME TypeInv, [Next]_vars PROVE TypeInv'
  OBVIOUS
<1>1. ASSUME NEW w \in Worker, Receive(w) PROVE TypeInv'
  BY <1>1, ReceiveType
<1>2. ASSUME NEW w \in Worker, Read(w) PROVE TypeInv'
  BY <1>2, ReadType
<1>3. ASSUME NEW p \in Process, StartRebuild(p) PROVE TypeInv'
  BY <1>3, StartRebuildType
<1>4. ASSUME NEW p \in Process, FoldStep(p) PROVE TypeInv'
  BY <1>4, SelectRequestsType, WriteAuditType, SelectReleasesType, SelectAllType
     DEF FoldStep
<1>5. ASSUME NEW p \in Process, RebuildStep(p) PROVE TypeInv'
  BY <1>5, DropSnapshotType, DropAuditType, UpsertRebuiltType, FinishRebuildType
     DEF RebuildStep
<1>6. ASSUME NEW p \in Process, PostStep(p) PROVE TypeInv'
  BY <1>6, AppendType, UpsertPostedType DEF PostStep
<1>7. ASSUME NEW p \in Process, Crash(p) PROVE TypeInv'
  BY <1>7, CrashType
<1>8. CASE UNCHANGED vars
  BY <1>8, StutterType
<1>9. QED
  BY <1>1, <1>2, <1>3, <1>4, <1>5, <1>6, <1>7, <1>8 DEF Next, Continue

\* Whatever the events, the processes, the crashes and the interleaving, the
\* three tables, every connection's view of them and the locals of every
\* handler keep their types; in particular the allocated_units a fold upserts
\* are never negative, although releases are not bounded by what they release.
THEOREM TypeCorrect == Spec => []TypeOK
<1>1. TypeInv => TypeOK
  BY DEF TypeInv, ControlOK, TypeOK
<1>2. QED
  BY InitType, NextType, <1>1, PTL DEF Spec

-----------------------------------------------------------------------------
(* What the step of one process leaves of another.                         *)

Kept(q) ==
  /\ pc'[q] = pc[q] /\ task'[q] = task[q]
  /\ conn'[q].mode = conn[q].mode /\ conn'[q].view = conn[q].view

LEMMA OthersGoto ==
  ASSUME ControlOK, NEW p \in Process, NEW q \in Process \ {p}, NEW l, NEW t,
         Goto(p, l, t)
  PROVE  pc'[q] = pc[q] /\ task'[q] = task[q]
  BY DEF ControlOK, Goto

LEMMA OthersConn ==
  ASSUME WalTypeOK, NEW p \in Process, NEW q \in Process \ {p}, NEW c,
         conn' = [conn EXCEPT ![p] = c]
  PROVE  conn'[q] = conn[q]
  BY DEF WalTypeOK

LEMMA OthersPublish ==
  ASSUME WalTypeOK, NEW p \in Process, NEW q \in Process \ {p}, NEW d, Publish(p, d)
  PROVE  conn'[q].mode = conn[q].mode /\ conn'[q].view = conn[q].view
<1>1. PICK touched \in BOOLEAN :
        conn' = [o \in Process |->
                   IF o = p THEN Closed ELSE Outdated(conn[o], touched)]
  BY DEF Publish
<1>2. conn'[q] = Outdated(conn[q], touched)
  BY <1>1
<1>3. IsConnection(conn[q])
  BY DEF WalTypeOK
<1>4. QED
  BY <1>2, <1>3, OutdatedType

LEMMA OthersRaise ==
  ASSUME TypeInv, NEW p \in Process, NEW q \in Process \ {p}, NEW c, Raise(p, c)
  PROVE  Kept(q)
<1>1. pc'[q] = pc[q] /\ task'[q] = task[q]
  BY OthersGoto DEF TypeInv, Raise, Done
<1>2. conn'[q] = conn[q]
  BY OthersConn DEF TypeInv, Raise
<1>3. QED
  BY <1>1, <1>2 DEF Kept

LEMMA OthersSelectGoto ==
  ASSUME TypeInv, NEW p \in Process, NEW q \in Process \ {p}, NEW l, NEW t,
         Select(p), Goto(p, l, t)
  PROVE  Kept(q)
<1>1. pc'[q] = pc[q] /\ task'[q] = task[q]
  BY OthersGoto DEF TypeInv
<1>2. conn'[q] = conn[q]
  BY OthersConn DEF TypeInv, Select
<1>3. QED
  BY <1>1, <1>2 DEF Kept

LEMMA OthersPublishGoto ==
  ASSUME TypeInv, NEW p \in Process, NEW q \in Process \ {p}, NEW d, NEW l, NEW t,
         Publish(p, d), Goto(p, l, t)
  PROVE  Kept(q)
<1>1. pc'[q] = pc[q] /\ task'[q] = task[q]
  BY OthersGoto DEF TypeInv
<1>2. conn'[q].mode = conn[q].mode /\ conn'[q].view = conn[q].view
  BY OthersPublish DEF TypeInv
<1>3. QED
  BY <1>1, <1>2 DEF Kept

LEMMA OthersIdle ==
  ASSUME TypeInv, NEW p \in Process, NEW q \in Process \ {p}, Select(p),
         UNCHANGED <<pc, task>>
  PROVE  Kept(q)
  BY OthersConn DEF TypeInv, Select, Kept

LEMMA ReceiveKeepsOthers ==
  ASSUME TypeInv, NEW w \in Process, NEW q \in Process \ {w}, Receive(w)
  PROVE  Kept(q)
<1>1. \/ UNCHANGED <<pc, task>>
      \/ \E e \in Event :
           Goto(w, "append", [NoTask EXCEPT !.posted = {e}, !.keys = {e.bucket}])
  BY DEF Receive
<1>2. Select(w)
  BY DEF Receive
<1>3. QED
  BY <1>1, <1>2, OthersIdle, OthersSelectGoto

LEMMA FoldKeepsOthers ==
  ASSUME TypeInv, NEW p \in Process, NEW q \in Process \ {p}, FoldStep(p)
  PROVE  Kept(q)
<1>1. CASE SelectRequests(p)
  <2>1. \/ \E t : Goto(p, "conflicts", t) /\ Select(p)
        \/ Raise(p, AfterSelect(p))
    BY <1>1 DEF SelectRequests
  <2>2. QED
    BY <2>1, OthersSelectGoto, OthersRaise
<1>2. CASE WriteAudit(p)
  <2>1. (\E d, l, t : Publish(p, d) /\ Goto(p, l, t)) \/ Refused(p)
    BY <1>2 DEF WriteAudit
  <2>2. QED
    BY <2>1, OthersPublishGoto, OthersRaise DEF Refused
<1>3. CASE SelectReleases(p) \/ SelectAll(p)
  <2>1. \E l, t : Goto(p, l, t) /\ Select(p)
    BY <1>3 DEF SelectReleases, SelectAll
  <2>2. QED
    BY <2>1, OthersSelectGoto
<1>4. QED
  BY <1>1, <1>2, <1>3 DEF FoldStep

LEMMA RebuildKeepsOthers ==
  ASSUME TypeInv, NEW p \in Process, NEW q \in Process \ {p}, RebuildStep(p)
  PROVE  Kept(q)
<1>1. CASE DropSnapshot(p) \/ DropAudit(p)
  <2>1. (\E d, l, t : Publish(p, d) /\ Goto(p, l, t)) \/ Refused(p)
    BY <1>1 DEF DropSnapshot, DropAudit
  <2>2. QED
    BY <2>1, OthersPublishGoto, OthersRaise DEF Refused
<1>2. CASE UpsertRebuilt(p)
  <2>1. \/ /\ \E c : conn' = [conn EXCEPT ![p] = c]
           /\ \E l, t : Goto(p, l, t)
        \/ Refused(p)
    BY <1>2 DEF UpsertRebuilt, Write
  <2>2. QED
    BY <2>1, OthersGoto, OthersConn, OthersRaise DEF TypeInv, Kept, Refused
<1>3. CASE FinishRebuild(p)
  <2>1. pc'[q] = pc[q] /\ task'[q] = task[q]
    BY <1>3, OthersGoto DEF TypeInv, FinishRebuild, Done
  <2>2. conn'[q].mode = conn[q].mode /\ conn'[q].view = conn[q].view
    BY <1>3, OthersPublish, OthersConn DEF TypeInv, FinishRebuild, Commit
  <2>3. QED
    BY <2>1, <2>2 DEF Kept
<1>4. QED
  BY <1>1, <1>2, <1>3 DEF RebuildStep

LEMMA PostKeepsOthers ==
  ASSUME TypeInv, NEW p \in Process, NEW q \in Process \ {p}, PostStep(p)
  PROVE  Kept(q)
<1>1. \/ \E d, l, t : Publish(p, d) /\ Goto(p, l, t)
      \/ \E c : Raise(p, c)
  BY DEF PostStep, Append, UpsertPosted, Done, Refused
<1>2. QED
  BY <1>1, OthersPublishGoto, OthersRaise

LEMMA OthersKept ==
  ASSUME TypeInv, NEW p \in Process, NEW q \in Process \ {p},
         Receive(p) \/ Read(p) \/ StartRebuild(p) \/ Continue(p) \/ Crash(p)
  PROVE  Kept(q)
<1>1. CASE Read(p)
  BY <1>1, OthersIdle DEF Read
<1>2. CASE StartRebuild(p)
  BY <1>2, OthersSelectGoto DEF StartRebuild
<1>3. CASE Crash(p)
  BY <1>3, OthersGoto, OthersConn DEF TypeInv, Crash, Done, Kept
<1>4. QED
  BY <1>1, <1>2, <1>3, ReceiveKeepsOthers, FoldKeepsOthers, RebuildKeepsOthers,
     PostKeepsOthers DEF Continue

=============================================================================
