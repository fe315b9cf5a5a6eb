---------------------------- MODULE LedgerProofs ----------------------------
(***************************************************************************)
(* The engine implements EventLedger, for any number of workers and        *)
(* replayers that crash and rebuild.  Three statements are steps of the    *)
(* ledger: the INSERT stores, the commit of the row answers 200, and the   *)
(* dedup SELECT answers 409.  Every other statement is a stutter: it keeps *)
(* the log although it may commit, since what it commits is a view that    *)
(* shows the whole log.                                                    *)
(*                                                                         *)
(* One worker alone implements more: Ledger with its rows, where an answer *)
(* leaves the row that the log demands, and what is left of it between two *)
(* losses of power.  The row is right because no other process commits     *)
(* between the INSERT and the UPDATE of a handler (SoloInv, PowerInv).     *)
(***************************************************************************)
EXTENDS LogProofs, WorkerProofs

Stutters == db'.events = db.events /\ UNCHANGED <<acked, duplicates>>

LedgerStep ==
  \/ \E e \in Event :
       ClientLedger!Store(e) \/ ClientLedger!Answer(e) \/ ClientLedger!Refuse(e)
  \/ Stutters

LEMMA RefusedStutters ==
  ASSUME NEW p \in Process, Refused(p)
  PROVE  Stutters
  BY DEF Refused, Raise, Stutters

LEMMA PublishStutters ==
  ASSUME SafeInv, NEW p \in Process, NEW d, d.events = View(p).events, Publish(p, d),
         UNCHANGED <<acked, duplicates>>
  PROVE  Stutters
<1>1. db'.events = db.events
  BY PublishKeepsLog DEF SafeInv
<1>2. QED
  BY <1>1 DEF Stutters

-----------------------------------------------------------------------------
(* The three steps of the ledger.                                          *)

\* A 409 is read from a view, which shows no event that is not stored.
LEMMA ReceiveRefines ==
  ASSUME SafeInv, NEW w \in Worker, Receive(w)
  PROVE  LedgerStep
<1>1. w \in Process
  BY DEF Worker
<1>2. UNCHANGED <<db, acked>>
  BY DEF Receive, Select
<1>3. PICK e \in Event :
        IF Seen(w, e)
          THEN duplicates' = duplicates \cup {e}
          ELSE UNCHANGED duplicates
  BY DEF Receive
<1>4. CASE Seen(w, e)
  <2>1. e.id \in Ids(db.events)
    BY <1>1, <1>4, ViewIsCommitted DEF SafeInv, TypeInv, Seen, Ids
  <2>2. ClientLedger!Refuse(e)
    BY <1>2, <1>3, <1>4, <2>1 DEF ClientLedger!Refuse, ClientLedger!Ids, Ids
  <2>3. QED
    BY <2>2 DEF LedgerStep
<1>5. CASE ~Seen(w, e)
  BY <1>2, <1>3, <1>5 DEF LedgerStep, Stutters
<1>6. QED
  BY <1>4, <1>5

\* The primary key is compared with the committed log.
LEMMA AppendRefines ==
  ASSUME SafeInv, NEW w \in Worker, Append(w)
  PROVE  LedgerStep
<1>1. w \in Process
  BY DEF Worker
<1>2. CASE Refused(w)
  BY <1>1, <1>2, RefusedStutters DEF LedgerStep
<1>3. ASSUME NEW e \in task[w].posted, ~KeyTaken(View(w), e),
             Publish(w, [View(w) EXCEPT !.events = @ \cup {e}]),
             UNCHANGED <<acked, duplicates>>
      PROVE  LedgerStep
  <2>1. e \in Event
    <3>1. PICK f \in Event : task[w].posted = {f}
      BY <1>1 DEF SafeInv, LogInv, PostedStored, Append
    <3>2. QED
      BY <1>3, <3>1
  <2>2. View(w).events = db.events
    BY <1>1, <1>3, FreshView DEF SafeInv, TypeInv, Publish
  <2>3. db'.events = db.events \cup {e}
    <3>1. IsDatabase(View(w))
      BY <1>1, ViewType DEF SafeInv, TypeInv
    <3>2. QED
      BY <1>3, <2>2, <3>1 DEF IsDatabase, Publish
  <2>4. e.id \notin Ids(db.events)
    BY <1>3, <2>2 DEF KeyTaken
  <2>5. ClientLedger!Store(e)
    BY <1>3, <2>3, <2>4 DEF ClientLedger!Store, ClientLedger!Ids, Ids
  <2>6. QED
    BY <2>1, <2>5 DEF LedgerStep
<1>4. ASSUME Raise(w, [mode |-> "writing", view |-> View(w), stale |-> FALSE])
      PROVE  LedgerStep
  BY <1>4 DEF Raise, Stutters, LedgerStep
<1>5. QED
  BY <1>2, <1>3, <1>4 DEF Append

\* The posted event is in the log from its INSERT on, and its id has not been
\* answered before.
LEMMA UpsertPostedRefines ==
  ASSUME SafeInv, NEW w \in Worker, UpsertPosted(w)
  PROVE  LedgerStep
<1>1. w \in Process
  BY DEF Worker
<1>2. CASE Refused(w)
  BY <1>1, <1>2, RefusedStutters DEF LedgerStep
<1>3. CASE ~Refused(w)
  <2>1. /\ Publish(w, Upserted(w))
        /\ acked' = acked \cup task[w].posted /\ UNCHANGED duplicates
    BY <1>3 DEF UpsertPosted
  <2>2. Upserted(w).events = View(w).events
    BY <1>1, ViewType DEF SafeInv, TypeInv, IsDatabase, Upserted
  <2>3. db'.events = db.events
    BY <1>1, <2>1, <2>2, PublishKeepsLog DEF SafeInv
  <2>4. Storing(w) /\ task[w].posted # {}
    BY DEF UpsertPosted, Storing
  <2>5. PICK e \in task[w].posted : task[w].posted = {e}
    BY <1>1, <2>4 DEF SafeInv, LogInv, PostedStored
  <2>6. e \in db.events
    BY <1>1, <2>4 DEF SafeInv, LogInv, PostedStored
  <2>7. e.id \notin Ids(acked)
    BY <2>4 DEF SafeInv, LogInv, AppliedOnce, Storing, Ids
  <2>8. ClientLedger!Answer(e)
    BY <2>1, <2>3, <2>5, <2>6, <2>7 DEF ClientLedger!Answer, ClientLedger!Ids, Ids
  <2>9. e \in Event
    BY <2>6 DEF SafeInv, TypeInv, WalTypeOK, IsDatabase
  <2>10. QED
    BY <2>8, <2>9 DEF LedgerStep
<1>4. QED
  BY <1>2, <1>3

-----------------------------------------------------------------------------
(* The stutters.                                                           *)

LEMMA FoldStutters ==
  ASSUME SafeInv, NEW p \in Process, FoldStep(p)
  PROVE  Stutters
<1>1. ASSUME WriteAudit(p), ~Refused(p) PROVE Stutters
  <2>1. PICK x \in NextRecorded(p) :
          Publish(p, [View(p) EXCEPT
                        !.audit = @ (+) SetToBag({EntryFor(x, task[p].reqs)})])
    BY <1>1 DEF WriteAudit
  <2> DEFINE d == [View(p) EXCEPT
                     !.audit = @ (+) SetToBag({EntryFor(x, task[p].reqs)})]
  <2>2. d.events = View(p).events
    BY ViewType DEF SafeInv, TypeInv, IsDatabase
  <2>3. Publish(p, d) /\ UNCHANGED <<acked, duplicates>>
    BY <1>1, <2>1 DEF WriteAudit
  <2> HIDE DEF d
  <2>4. QED
    BY <2>2, <2>3, PublishStutters
<1>2. CASE Refused(p)
  BY <1>2, RefusedStutters
<1>3. ASSUME SelectRequests(p) \/ SelectReleases(p) \/ SelectAll(p) PROVE Stutters
  BY <1>3 DEF SelectRequests, SelectReleases, SelectAll, Select, Raise, Stutters
<1>4. QED
  BY <1>1, <1>2, <1>3 DEF FoldStep

LEMMA RebuildStutters ==
  ASSUME SafeInv, NEW p \in Process, RebuildStep(p)
  PROVE  Stutters
<1>1. CASE Refused(p)
  BY <1>1, RefusedStutters
<1>2. ASSUME DropSnapshot(p), ~Refused(p) PROVE Stutters
  <2>1. [View(p) EXCEPT !.snapshot = EmptySnapshot].events = View(p).events
    BY ViewType DEF SafeInv, TypeInv, IsDatabase
  <2>2. QED
    BY <1>2, <2>1, PublishStutters DEF DropSnapshot
<1>3. ASSUME DropAudit(p), ~Refused(p) PROVE Stutters
  <2>1. [View(p) EXCEPT !.audit = EmptyBag].events = View(p).events
    BY ViewType DEF SafeInv, TypeInv, IsDatabase
  <2>2. Publish(p, [View(p) EXCEPT !.audit = EmptyBag])
    BY <1>3 DEF DropAudit
  <2>3. UNCHANGED <<acked, duplicates>>
    BY <1>3 DEF DropAudit
  <2>4. QED
    BY <2>1, <2>2, <2>3, PublishStutters
<1>4. ASSUME UpsertRebuilt(p), ~Refused(p) PROVE Stutters
  BY <1>4 DEF UpsertRebuilt, Write, Stutters
<1>5. ASSUME FinishRebuild(p) PROVE Stutters
  BY <1>5 DEF SafeInv, WalSound, FinishRebuild, Commit, Publish, Stutters
<1>6. QED
  BY <1>1, <1>2, <1>3, <1>4, <1>5 DEF RebuildStep

LEMMA NextRefines ==
  ASSUME SafeInv, [Next]_vars
  PROVE  LedgerStep
<1>1. ASSUME NEW w \in Worker, Receive(w) PROVE LedgerStep
  BY <1>1, ReceiveRefines
<1>2. ASSUME NEW w \in Worker, Read(w) PROVE LedgerStep
  BY <1>2 DEF Read, Select, Stutters, LedgerStep
<1>3. ASSUME NEW p \in Process, StartRebuild(p) PROVE LedgerStep
  BY <1>3 DEF StartRebuild, Select, Stutters, LedgerStep
<1>4. ASSUME NEW p \in Process, Continue(p) PROVE LedgerStep
  BY <1>4, FoldStutters, RebuildStutters, AppendRefines, UpsertPostedRefines
     DEF Continue, PostStep, LedgerStep
<1>5. ASSUME NEW p \in Process, Crash(p) PROVE LedgerStep
  BY <1>5 DEF Crash, Stutters, LedgerStep
<1>6. CASE UNCHANGED vars
  BY <1>6 DEF vars, Stutters, LedgerStep
<1>7. QED
  BY <1>1, <1>2, <1>3, <1>4, <1>5, <1>6 DEF Next

-----------------------------------------------------------------------------
\* The engine implements EventLedger: what clients see of the log and of the
\* answers is what a single log without processes or crashes would show them.
THEOREM ImplementsClientLedger == Spec => KeepsClientLedger
<1>1. Init => ClientLedger!Init
  BY DEF Init, WalInit, Blank, ClientLedger!Init
<1>2. SafeInv /\ [Next]_vars => [ClientLedger!Next]_(ClientLedger!clientVars)
  BY NextRefines
     DEF LedgerStep, Stutters, ClientLedger!Next, ClientLedger!clientVars
<1>3. QED
  BY SafeInvariant, <1>1, <1>2, PTL DEF Spec, KeepsClientLedger, ClientLedger!Spec

-----------------------------------------------------------------------------
(* One worker implements Ledger.  A commit publishes a view whose rows are *)
(* those that were committed, or folds of the log (Refolded); so each step *)
(* is one of the ledger with the set of the rows that it refolds.          *)

\* Ledger's projection is the engine's.
LEMMA SameProjection == \A L : WorkerLedger!Projection(L) = Projection(L)
  BY Zenon
     DEF WorkerLedger!Projection, WorkerLedger!FoldBucket, WorkerLedger!FoldRow,
         WorkerLedger!NoRow, WorkerLedger!NonNegative, WorkerLedger!Orphans,
         WorkerLedger!IsOrphanRelease, WorkerLedger!Accepted, WorkerLedger!Fits,
         WorkerLedger!DecidedBefore, WorkerLedger!ResolverBefore,
         WorkerLedger!SameGroup, WorkerLedger!Leaders, WorkerLedger!StartsGroup,
         WorkerLedger!StartsBefore, WorkerLedger!WindowStart, WorkerLedger!WindowEnd,
         WorkerLedger!Offset, WorkerLedger!EventsOf, WorkerLedger!RequestsOf,
         WorkerLedger!ReleasesOf, WorkerLedger!Latest, WorkerLedger!LogBefore,
         WorkerLedger!TextBefore, WorkerLedger!Zone, WorkerLedger!Total,
         WorkerLedger!Units, WorkerLedger!TotalCarbon, WorkerLedger!CarbonUnits,
         WorkerLedger!Cardinality,
         Projection, FoldBucket, FoldRow, NoRow, NonNegative, Orphans, IsOrphanRelease,
         Accepted, Fits, DecidedBefore, ResolverBefore, SameGroup, Leaders, StartsGroup,
         StartsBefore, WindowStart, WindowEnd, Offset, EventsOf, RequestsOf, ReleasesOf,
         Latest, LogBefore, TextBefore, Zone, Total, Units, TotalCarbon, CarbonUnits,
         Cardinality

TableStep == WorkerLedger!Next \/ UNCHANGED <<db, acked, duplicates>>

IsTable(s) == s = [b \in Bucket |-> s[b]]

LEMMA DatabaseTable == \A d : IsDatabase(d) => IsTable(d.snapshot)
  BY DEF IsDatabase, IsTable

\* Rows that are old or refolded are those of the ledger for some set.
LEMMA FreshRows ==
  ASSUME NEW v, Refolded(v, db), IsTable(v.snapshot)
  PROVE  \E S \in SUBSET Bucket : v.snapshot = WorkerLedger!Fresh(S)
<1> DEFINE S == {b \in Bucket : v.snapshot[b] = Projection(db.events)[b]}
<1>1. \A b \in Bucket :
        v.snapshot[b] = IF b \in S THEN Projection(db.events)[b] ELSE db.snapshot[b]
  BY DEF Refolded
<1>2. S \in SUBSET Bucket
  OBVIOUS
<1> HIDE DEF S
<1>3. v.snapshot = [b \in Bucket |->
                     IF b \in S THEN Projection(db.events)[b] ELSE db.snapshot[b]]
  BY <1>1 DEF IsTable
<1>4. v.snapshot = WorkerLedger!Fresh(S)
  BY <1>3, SameProjection DEF WorkerLedger!Fresh
<1>5. QED
  BY <1>2, <1>4

\* What a step that commits neither an event nor an answer does.
LEMMA CommitRefreshes ==
  ASSUME Refolded(db', db), IsTable(db'.snapshot), db'.events = db.events,
         UNCHANGED <<acked, duplicates>>
  PROVE  TableStep
<1>1. \E S \in SUBSET Bucket : db'.snapshot = WorkerLedger!Fresh(S)
  BY FreshRows
<1>2. WorkerLedger!Refresh
  BY <1>1 DEF WorkerLedger!Refresh
<1>3. QED
  BY <1>2 DEF TableStep, WorkerLedger!Next

LEMMA ReceiveLedger ==
  ASSUME SoloInv, NEW w \in Process, Receive(w)
  PROVE  TableStep
<1>1. UNCHANGED <<db, acked>>
  BY DEF Receive, Select
<1>2. PICK e \in Event :
        IF Seen(w, e)
          THEN duplicates' = duplicates \cup {e}
          ELSE UNCHANGED duplicates
  BY DEF Receive
<1>3. CASE Seen(w, e)
  <2>1. e.id \in Ids(db.events)
    BY <1>3 DEF SoloInv, WorkerInv, WorkerOK, Seen
  <2>2. WorkerLedger!Refuse(e)
    BY <1>1, <1>2, <1>3, <2>1
       DEF WorkerLedger!Refuse, WorkerLedger!Client!Refuse, WorkerLedger!Client!Ids, Ids
  <2>3. QED
    BY <2>2 DEF TableStep, WorkerLedger!Next
<1>4. CASE ~Seen(w, e)
  BY <1>1, <1>2, <1>4 DEF TableStep
<1>5. QED
  BY <1>3, <1>4

LEMMA AppendLedger ==
  ASSUME SoloInv, NEW p \in Process, Append(p)
  PROVE  TableStep
<1>1. PICK e \in Event : task[p].posted = {e} /\ ~KeyTaken(View(p), e)
  BY DEF SoloInv, WorkerInv, WorkerOK, HandlerKnows, Append, KeyTaken
<1> DEFINE d == [View(p) EXCEPT !.events = @ \cup {e}]
<1>2. Publish(p, d) /\ UNCHANGED <<acked, duplicates>>
  BY <1>1, AloneWrites DEF Append, SoloInv
<1>3. IsDatabase(View(p)) /\ View(p).events = db.events /\ Refolded(View(p), db)
  BY ViewType DEF SoloInv, TypeInv, WorkerInv, WorkerOK
<1>4. db'.events = db.events \cup {e} /\ db'.snapshot = View(p).snapshot
  BY <1>2, <1>3 DEF Publish, IsDatabase
<1>5. \E S \in SUBSET Bucket : db'.snapshot = WorkerLedger!Fresh(S)
  BY <1>3, <1>4, DatabaseTable, FreshRows
<1>6. WorkerLedger!Client!Store(e)
  BY <1>1, <1>2, <1>3, <1>4
     DEF KeyTaken, WorkerLedger!Client!Store, WorkerLedger!Client!Ids, Ids
<1>7. QED
  BY <1>5, <1>6 DEF TableStep, WorkerLedger!Next, WorkerLedger!Store

\* Steps of the ledger, and those that only a loss of power makes possible.
LedgerOrAgain ==
  TableStep \/ \E w \in Worker : \E e \in task[w].posted :
                 pc[w] = "upsert" /\ e \in Event /\ AnswerAgain(e)

LEMMA UpsertPostedLedger ==
  ASSUME SoloInv, UniqueIds, NEW p \in Worker, UpsertPosted(p)
  PROVE  LedgerOrAgain
<1>1. p \in Process
  BY DEF Worker
<1>2. /\ Publish(p, Upserted(p)) /\ acked' = acked \cup task[p].posted
      /\ UNCHANGED duplicates /\ pc[p] = "upsert" /\ task[p].posted # {}
  BY <1>1, AloneWrites DEF UpsertPosted, SoloInv
<1>3. conn[p].mode = "auto" /\ View(p) = db
  BY <1>1, <1>2 DEF SoloInv, WorkerInv, WorkerOK, LocallyOK, Reading, View
<1>4. PICK e \in db.events : task[p].posted = {e} /\ task[p].keys = {e.bucket}
  BY <1>1, <1>2, <1>3 DEF SoloInv, WorkerInv, WorkerOK, HandlerKnows, Reading
<1>5. Key(p) = e.bucket /\ e \in Event /\ e.bucket \in Bucket
  BY <1>1, <1>2, <1>4, KeyType DEF SoloInv, TypeInv, WalTypeOK, IsDatabase, Folding
<1>6. /\ db'.events = db.events
      /\ \A b \in Bucket : db'.snapshot[b]
           = IF b = e.bucket THEN Projection(db.events)[b] ELSE db.snapshot[b]
  <2>1. db' = Upserted(p)
    BY <1>2 DEF Publish
  <2>2. QED
    BY <1>1, <1>2, <1>3, <1>5, <2>1, UpsertedWorks DEF SoloInv
<1>7. IsTable(db'.snapshot)
  BY <1>1, <1>2, UpsertedType, DatabaseTable DEF SoloInv, Publish
<1>8. db'.snapshot = WorkerLedger!Fresh({e.bucket})
  <2>1. db'.snapshot = [b \in Bucket |->
          IF b \in {e.bucket} THEN Projection(db.events)[b] ELSE db.snapshot[b]]
    BY <1>6, <1>7 DEF IsTable
  <2>2. QED
    BY <2>1, SameProjection DEF WorkerLedger!Fresh
<1>9. CASE e.id \notin Ids(acked)
  <2>1. WorkerLedger!Client!Answer(e)
    BY <1>2, <1>4, <1>6, <1>9
       DEF WorkerLedger!Client!Answer, WorkerLedger!Client!Ids, Ids
  <2>2. QED
    BY <1>5, <1>8, <2>1 DEF LedgerOrAgain, TableStep, WorkerLedger!Next, WorkerLedger!Answer
<1>10. CASE e \in acked
  <2>1. UNCHANGED <<acked, duplicates>> /\ Refolded(db', db)
    BY <1>2, <1>4, <1>6, <1>10 DEF Refolded
  <2>2. QED
    BY <1>6, <1>7, <2>1, CommitRefreshes DEF LedgerOrAgain
<1>11. CASE e.id \in Ids(acked) /\ e \notin acked
  <2>1. e.id \notin Ids(acked \cap db.events)
    BY <1>4, <1>11 DEF UniqueIds, Ids
  <2>2. AnswerAgain(e)
    BY <1>2, <1>4, <1>6, <1>8, <1>11, <2>1 DEF AnswerAgain
  <2>3. QED
    BY <1>2, <1>4, <1>5, <2>2 DEF LedgerOrAgain
<1>12. QED
  BY <1>9, <1>10, <1>11

LEMMA FoldLedger ==
  ASSUME SoloInv, NEW p \in Process, FoldStep(p)
  PROVE  TableStep
<1>1. CASE WriteAudit(p)
  <2>1. PICK x \in NextRecorded(p) :
          Publish(p, [View(p) EXCEPT
                        !.audit = @ (+) SetToBag({EntryFor(x, task[p].reqs)})])
    BY <1>1, AloneWrites DEF WriteAudit, SoloInv
  <2>2. IsDatabase(View(p)) /\ View(p).events = db.events /\ Refolded(View(p), db)
    BY ViewType DEF SoloInv, TypeInv, WorkerInv, WorkerOK
  <2>3. db'.events = db.events /\ db'.snapshot = View(p).snapshot
    BY <2>1, <2>2 DEF Publish, IsDatabase
  <2>4. UNCHANGED <<acked, duplicates>>
    BY <1>1, AloneWrites DEF WriteAudit, SoloInv
  <2>5. QED
    BY <2>2, <2>3, <2>4, DatabaseTable, CommitRefreshes DEF Refolded
<1>2. CASE SelectRequests(p) \/ SelectReleases(p) \/ SelectAll(p)
  BY <1>2 DEF SelectRequests, SelectReleases, SelectAll, Select, Raise, TableStep
<1>3. QED
  BY <1>1, <1>2 DEF FoldStep

LEMMA RebuildLedger ==
  ASSUME SoloInv, NEW p \in Process, RebuildStep(p)
  PROVE  TableStep
<1>1. IsDatabase(View(p)) /\ View(p).events = db.events /\ Refolded(View(p), db)
  BY ViewType DEF SoloInv, TypeInv, WorkerInv, WorkerOK
<1>2. CASE DropSnapshot(p)
  <2>1. /\ db' = [View(p) EXCEPT !.snapshot = EmptySnapshot]
        /\ UNCHANGED <<acked, duplicates>>
    BY <1>2, AloneWrites DEF DropSnapshot, Publish, SoloInv
  <2>2. db'.events = db.events /\ db'.snapshot = EmptySnapshot
    BY <1>1, <2>1 DEF IsDatabase
  <2>3. WorkerLedger!Empty
    BY <2>1, <2>2 DEF WorkerLedger!Empty, WorkerLedger!NoRow, EmptySnapshot, NoRow
  <2>4. QED
    BY <2>3 DEF TableStep, WorkerLedger!Next
<1>3. CASE DropAudit(p)
  <2>1. /\ db' = [View(p) EXCEPT !.audit = EmptyBag]
        /\ UNCHANGED <<acked, duplicates>>
    BY <1>3, AloneWrites DEF DropAudit, Publish, SoloInv
  <2>2. db'.events = db.events /\ db'.snapshot = View(p).snapshot
    BY <1>1, <2>1 DEF IsDatabase
  <2>3. QED
    BY <1>1, <2>1, <2>2, DatabaseTable, CommitRefreshes DEF Refolded
<1>4. CASE UpsertRebuilt(p)
  BY <1>4, AloneWrites DEF UpsertRebuilt, Write, SoloInv, TableStep
<1>5. CASE FinishRebuild(p)
  <2>1. (db' = db \/ db' = View(p)) /\ UNCHANGED <<acked, duplicates>>
    BY <1>5 DEF FinishRebuild, Commit, Publish, View
  <2>2. CASE db' = db
    BY <2>1, <2>2 DEF TableStep
  <2>3. CASE db' = View(p)
    BY <1>1, <2>1, <2>3, DatabaseTable, CommitRefreshes
  <2>4. QED
    BY <2>1, <2>2, <2>3
<1>6. QED
  BY <1>2, <1>3, <1>4, <1>5 DEF RebuildStep

LEMMA NextLedger ==
  ASSUME SoloInv, UniqueIds, [Next]_vars
  PROVE  LedgerOrAgain
<1>1. ASSUME NEW w \in Worker, Receive(w) \/ Read(w) PROVE TableStep
  BY <1>1, ReceiveLedger DEF Worker, Read, Select, TableStep
<1>2. ASSUME NEW p \in Process, FoldStep(p) \/ RebuildStep(p) PROVE TableStep
  BY <1>2, FoldLedger, RebuildLedger
<1>3. ASSUME NEW w \in Worker, PostStep(w) PROVE LedgerOrAgain
  BY <1>3, AppendLedger, UpsertPostedLedger DEF Worker, PostStep, LedgerOrAgain
<1>4. ASSUME NEW p \in Process, StartRebuild(p) \/ Crash(p) PROVE TableStep
  BY <1>4 DEF StartRebuild, Select, Crash, TableStep
<1>5. CASE UNCHANGED vars
  BY <1>5 DEF vars, LedgerOrAgain, TableStep
<1>6. QED
  BY <1>1, <1>2, <1>3, <1>4, <1>5 DEF Next, Continue, LedgerOrAgain

LEMMA InitLedger == Init => WorkerLedger!Init
  BY DEF Init, WalInit, Blank, EmptySnapshot, NoRow, WorkerLedger!NoRow,
         WorkerLedger!Init, WorkerLedger!Client!Init

\* One process, killed and restarted whenever it may be, implements Ledger: a
\* row changes only to what the log says at that moment or with the whole table
\* to none, and the 200 of an event leaves the row of its bucket right.
THEOREM ImplementsWorkerLedger == Alone /\ Spec => KeepsWorkerLedger
<1>1. ASSUME SafeInv, NEW w \in Worker, NEW e \in task[w].posted, pc[w] = "upsert"
      PROVE  ~AnswerAgain(e)
  BY <1>1 DEF SafeInv, LogInv, AppliedOnce, AnswerAgain, Ids
<1>2. SoloInv /\ SafeInv /\ [Next]_vars => TableStep
  BY <1>1, NextLedger DEF SafeInv, LogInv, LedgerOrAgain
<1>3. TableStep => [WorkerLedger!Next]_(WorkerLedger!ledgerVars)
  BY DEF TableStep, WorkerLedger!ledgerVars
<1>4. QED
  BY <1>2, <1>3, InitLedger, SafeInvariant, SoloInvariant, PTL
     DEF Spec, KeepsWorkerLedger, WorkerLedger!Spec

-----------------------------------------------------------------------------
(* The same between losses of power.  The primary key still holds, so an   *)
(* id that is answered again is that of an event that the log has lost.    *)

UniqueInv == PowerInv /\ UniqueIds /\ \A e, f \in synced.events : e.id = f.id => e = f

\* What the ledger stores has a new id.
LEMMA LedgerKeepsUnique ==
  ASSUME UniqueIds, LedgerOrAgain
  PROVE  UniqueIds'
<1>1. CASE db'.events = db.events
  BY <1>1 DEF UniqueIds
<1>2. ASSUME NEW e \in Event, WorkerLedger!Store(e) PROVE UniqueIds'
  <2>1. db'.events = db.events \cup {e} /\ e.id \notin Ids(db.events)
    BY <1>2 DEF WorkerLedger!Store, WorkerLedger!Client!Store, WorkerLedger!Client!Ids, Ids
  <2>2. QED
    BY <2>1 DEF UniqueIds, Ids
<1>3. QED
  BY <1>1, <1>2 DEF LedgerOrAgain, TableStep, AnswerAgain, WorkerLedger!Next,
     WorkerLedger!Answer, WorkerLedger!Client!Answer, WorkerLedger!Refuse,
     WorkerLedger!Client!Refuse, WorkerLedger!Empty, WorkerLedger!Refresh

LEMMA NextUniquePower == UniqueInv /\ [PowerNext]_powerVars => UniqueInv'
<1> SUFFICES ASSUME UniqueInv, [PowerNext]_powerVars PROVE UniqueInv'
  OBVIOUS
<1>1. PowerInv'
  BY NextPower DEF UniqueInv
<1>2. CASE PowerOff
  BY <1>1, <1>2 DEF UniqueInv, UniqueIds, PowerOff
<1>3. CASE ~PowerOff
  <2>1. [Next]_vars /\ synced' \in {synced, db'}
    BY <1>3 DEF PowerNext, powerVars
  <2>2. UniqueIds'
    BY <2>1, NextLedger, LedgerKeepsUnique DEF UniqueInv, PowerInv
  <2>3. QED
    BY <1>1, <2>1, <2>2 DEF UniqueInv, UniqueIds
<1>4. QED
  BY <1>2, <1>3

\* A loss of power takes commits away and nothing else: until the next one the
\* process implements Ledger again, except that it answers an id twice when the
\* event it answered first is one that was lost.
THEOREM LedgerBetweenLosses == Alone /\ PowerSpec => KeepsLedgerBetweenLosses
<1>1. PowerInit => UniqueIds /\ \A e, f \in synced.events : e.id = f.id => e = f
  BY DEF PowerInit, Init, WalInit, Blank, UniqueIds
<1>2. UniqueInv /\ [PowerNext]_powerVars
        => [ \/ WorkerLedger!Next
             \/ \E e \in Event : AnswerAgain(e)
             \/ PowerOff ]_<<db, acked, duplicates>>
  BY NextLedger DEF UniqueInv, PowerInv, PowerNext, powerVars, vars, LedgerOrAgain, TableStep
<1>3. PowerInit => WorkerLedger!Init
  BY InitLedger DEF PowerInit
<1>4. QED
  BY <1>1, <1>2, <1>3, PowerInvariant, NextUniquePower, PTL
     DEF UniqueInv, PowerSpec, KeepsLedgerBetweenLosses

=============================================================================
