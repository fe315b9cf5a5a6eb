---------------------------- MODULE ReplayProofs ----------------------------
(***************************************************************************)
(* The verdict of python -m app.replay --diff, for any workers and         *)
(* replayers beside it that post, rebuild and crash.                       *)
(*                                                                         *)
(* The tool reads the rows, deletes them and folds every bucket, in many   *)
(* transactions between which the others commit.  Two facts make the       *)
(* verdict one about the log all the same: a replayer never sees less of   *)
(* the log than it saw before, whatever views it holds (DiffOK); and what  *)
(* the queries of one fold return is what they all return on one log       *)
(* between the first view and the last, because requests and releases are  *)
(* different events (FoldOfReads, DiffKnows).                              *)
(***************************************************************************)
EXTENDS LogProofs, ReplayTool

-----------------------------------------------------------------------------
(* The promises of the engine still hold: BeginDiff only reads.            *)

ToolInv == SafeInv /\ CapacityInv

LEMMA BeginKeeps ==
  ASSUME ToolInv, NEW r \in Replayer, BeginDiff(r)
  PROVE  ToolInv' /\ db' = db
<1>1. r \in Process
  BY ProcessAssumption
<1>2. Select(r) /\ UNCHANGED <<pc, task, acked, duplicates>>
  BY DEF BeginDiff
<1>3. TypeInv'
  BY <1>1, <1>2, SelectType, UnchangedTask DEF ToolInv, SafeInv, TypeInv
<1>4. WalSound'
  BY <1>1, <1>2, SelectSound DEF ToolInv, SafeInv, TypeInv, Select
<1>5. Keeps
  BY <1>2, <1>4, IdleKeeps DEF ToolInv, Select
<1>6. CapacityInv'
  BY <1>1, <1>2, SelectWithin, SameTaskWithin
     DEF ToolInv, SafeInv, TypeInv, CapacityInv, Select
<1>7. QED
  BY <1>2, <1>3, <1>5, <1>6 DEF ToolInv, SafeInv, Keeps, Select

LEMMA ToolSteps ==
  ASSUME [ToolNext]_toolVars
  PROVE  [Next]_vars \/ \E r \in Replayer : BeginDiff(r)
<1>1. \A r \in Replayer : r \in Process
  BY ProcessAssumption
<1>2. \A w \in Worker : w \in Process
  BY DEF Worker
<1>3. ASSUME NEW r \in Replayer, DiffStep(r) \/ CrashDiff(r) PROVE Next
  BY <1>1, <1>3 DEF DiffStep, CrashDiff, Next
<1>4. ASSUME EngineStep PROVE Next
  BY <1>1, <1>2, <1>4 DEF EngineStep, Next
<1>5. QED
  BY <1>3, <1>4 DEF ToolNext, toolVars

LEMMA ToolKeeps ==
  ASSUME ToolInv, [ToolNext]_toolVars
  PROVE  ToolInv' /\ db.events \subseteq db'.events
<1>1. CASE [Next]_vars
  BY <1>1, NextType, NextKeeps, CapacityNext DEF ToolInv, SafeInv, Keeps
<1>2. ASSUME NEW r \in Replayer, BeginDiff(r)
      PROVE  ToolInv' /\ db.events \subseteq db'.events
  BY <1>2, BeginKeeps
<1>3. QED
  BY <1>1, <1>2, ToolSteps

LEMMA ToolInvariant == ToolSpec => []ToolInv
<1>1. ToolInit => ToolInv
  BY InitSafe, CapacityInit DEF ToolInit, ToolInv
<1>2. ToolInv /\ [ToolNext]_toolVars => ToolInv'
  BY ToolKeeps
<1>3. QED
  BY <1>1, <1>2, PTL DEF ToolSpec

-----------------------------------------------------------------------------
(* What a diff knows.                                                      *)

Buckets(L) == {e.bucket : e \in L}

\* rebuilt_dict when all buckets but those in K are folded: of each one amount,
\* that of a log between T and V.
Collects(K, a, T, V) ==
  /\ \A p \in a :
       /\ p[1] \notin K
       /\ \E L \in LogsBetween(T, V) :
            p[1] \in Buckets(L) /\ p = <<p[1], FoldBucket(L, p[1]).allocated>>
       /\ \A q \in a : p[1] = q[1] => p = q
  /\ \A b \in Buckets(T) \ K : AmountIn(a, b) # {}

\* What a diff at l has read since the log was T, if it sees V now.
DiffKnows(l, t, a, T, V) ==
  LET b == FirstKey(t.keys)
  IN  /\ l \in {"idle", "dropSnapshot", "dropAudit"} => a = {}
      /\ l # "idle" => t.keys \subseteq Buckets(V)
      /\ l \in {"dropSnapshot", "dropAudit"} => Buckets(T) \subseteq t.keys
      /\ l \in {"requests", "conflicts", "orphans", "upsert", "commit"} =>
           Collects(t.keys, a, T, V)
      /\ l \in {"conflicts", "orphans", "upsert"} =>
           t.reqs \subseteq RequestsOf(V, b) /\ RequestsOf(T, b) \subseteq t.reqs
      /\ l = "conflicts" /\ t.reqs = {} => ReleasesOf(V, b) # {}
      /\ l \in {"orphans", "upsert"} =>
           /\ t.rels \subseteq ReleasesOf(V, b) /\ ReleasesOf(T, b) \subseteq t.rels
           /\ t.reqs \cup t.rels # {}
      /\ l = "upsert" => t.row.allocated = FoldRow(t.reqs, t.rels, {}).allocated
      /\ l = "commit" => t.keys = {}

LEMMA LargerLog ==
  ASSUME NEW T, NEW V, T \subseteq V, NEW b
  PROVE  /\ RequestsOf(T, b) \subseteq RequestsOf(V, b)
         /\ ReleasesOf(T, b) \subseteq ReleasesOf(V, b)
         /\ Buckets(T) \subseteq Buckets(V)
BY DEF RequestsOf, ReleasesOf, EventsOf, Buckets

\* With a larger view it still knows what it has read.
LEMMA KnowsMore ==
  ASSUME NEW l, NEW t, NEW a, NEW T, NEW V, NEW W, V \subseteq W,
         DiffKnows(l, t, a, T, V)
  PROVE  DiffKnows(l, t, a, T, W)
<1>1. /\ Buckets(V) \subseteq Buckets(W)
      /\ \A b : /\ RequestsOf(V, b) \subseteq RequestsOf(W, b)
                /\ ReleasesOf(V, b) \subseteq ReleasesOf(W, b)
  BY LargerLog
<1>2. Collects(t.keys, a, T, V) => Collects(t.keys, a, T, W)
  BY DEF Collects, LogsBetween
<1>3. QED
  BY <1>1, <1>2 DEF DiffKnows

\* A bucket that was listed has a request or a release.
LEMMA ListedBucket ==
  ASSUME NEW V \in SUBSET Event, NEW b \in Buckets(V), RequestsOf(V, b) = {}
  PROVE  ReleasesOf(V, b) # {}
<1>1. PICK e \in V : e.bucket = b
  BY DEF Buckets
<1>2. e.action \in {"request", "release"}
  BY EventAssumption DEF EventPayload
<1>3. QED
  BY <1>1, <1>2 DEF RequestsOf, ReleasesOf, EventsOf

\* Two queries for b have each seen a log between T and V that has it.
BothSaw(T, V, b, reqs, rels) ==
  /\ T \subseteq V
  /\ reqs \subseteq RequestsOf(V, b) /\ RequestsOf(T, b) \subseteq reqs
  /\ rels \subseteq ReleasesOf(V, b) /\ ReleasesOf(T, b) \subseteq rels
  /\ reqs \cup rels # {}

\* What two queries have returned from different views, they return together
\* from some log in between.
LEMMA FoldOfReads ==
  ASSUME NEW T, NEW V, NEW b, NEW reqs, NEW rels, BothSaw(T, V, b, reqs, rels)
  PROVE  \E L \in LogsBetween(T, V) :
           b \in Buckets(L) /\ RequestsOf(L, b) = reqs /\ ReleasesOf(L, b) = rels
<1> DEFINE L == T \cup reqs \cup rels
<1>1. L \in LogsBetween(T, V)
  BY DEF BothSaw, LogsBetween, RequestsOf, ReleasesOf, EventsOf
<1>2. RequestsOf(L, b) = reqs /\ ReleasesOf(L, b) = rels
  BY DEF BothSaw, RequestsOf, ReleasesOf, EventsOf
<1>3. b \in Buckets(L)
  BY DEF BothSaw, Buckets, RequestsOf, ReleasesOf, EventsOf
<1>4. QED
  BY <1>1, <1>2, <1>3

\* A replayer has no event of its own and no transaction between its calls.
ReplayerOK(r) ==
  /\ pc[r] # "append" /\ task[r].posted = {}
  /\ pc[r] = "idle" => conn[r].mode = "auto"
  /\ NoDiff(r) => rebuilt[r] = {}
  /\ \A x, y \in live[r] : x = y

\* It sees every event of the log it started from.
DiffOK(r) ==
  ~NoDiff(r) =>
    /\ logThen[r] \subseteq View(r).events
    /\ DiffKnows(pc[r], task[r], rebuilt[r], logThen[r], View(r).events)

DiffInv ==
  /\ DOMAIN live = Replayer /\ DOMAIN rebuilt = Replayer /\ DOMAIN logThen = Replayer
  /\ \A r \in Replayer : ReplayerOK(r) /\ DiffOK(r)

-----------------------------------------------------------------------------
(* The steps of a replayer itself: each query sees the same events as the  *)
(* one before, and what was known of them goes on being known.             *)

Gathered(r, a) ==
  IF pc[r] = "upsert" THEN a \cup {<<Key(r), task[r].row.allocated>>} ELSE a

GoesOn(r) ==
  /\ View(r)'.events = View(r).events
  /\ \A a, T : T \subseteq View(r).events
               /\ DiffKnows(pc[r], task[r], a, T, View(r).events) =>
       DiffKnows(pc'[r], task'[r], Gathered(r, a), T, View(r).events)

StepsOn(r) ==
  /\ pc'[r] # "append" /\ task'[r].posted = {}
  /\ pc'[r] = "idle" => conn'[r].mode = "auto"
  /\ pc'[r] # "idle" => GoesOn(r)

LEMMA EndsOn ==
  ASSUME TypeInv, NEW r \in Replayer, Done(r), conn'[r].mode = "auto"
  PROVE  StepsOn(r)
<1>1. r \in Process
  BY ProcessAssumption
<1>2. pc'[r] = "idle" /\ task'[r] = NoTask
  BY <1>1, GotoFacts DEF TypeInv, Done
<1>3. QED
  BY <1>2 DEF StepsOn, NoTask

LEMMA RaisesOn ==
  ASSUME TypeInv, NEW r \in Replayer, NEW c, Raise(r, c)
  PROVE  StepsOn(r)
<1>1. r \in Process
  BY ProcessAssumption
<1>2. conn'[r] = Closed
  BY <1>1 DEF TypeInv, WalTypeOK, Raise
<1>3. QED
  BY <1>2, EndsOn DEF Raise, Closed

LEMMA SelectsOn ==
  ASSUME TypeInv, NEW r \in Replayer, NEW l, NEW t, Select(r), Goto(r, l, t),
         l \notin {"idle", "append"}, t.posted = {},
         \A a, T :
                  T \subseteq View(r).events /\ DiffKnows(pc[r], task[r], a, T, View(r).events) =>
                    DiffKnows(l, t, Gathered(r, a), T, View(r).events)
  PROVE  StepsOn(r)
<1>1. r \in Process
  BY ProcessAssumption
<1>2. pc'[r] = l /\ task'[r] = t
  BY <1>1, GotoFacts DEF TypeInv
<1>3. conn'[r] = AfterSelect(r) /\ db' = db
  BY <1>1 DEF TypeInv, WalTypeOK, Select
<1>4. View(r)' = View(r)
  <2>1. CASE conn[r].mode = "begun"
    BY <1>3, <2>1 DEF View, AfterSelect, Frozen
  <2>2. CASE conn[r].mode # "begun"
    BY <1>3, <2>2 DEF View, AfterSelect
  <2>3. QED
    BY <2>1, <2>2
<1>5. QED
  BY <1>2, <1>4 DEF StepsOn, GoesOn

LEMMA PublishesOn ==
  ASSUME TypeInv, NEW r \in Replayer, NEW d, NEW l, NEW t, Publish(r, d), Goto(r, l, t),
         d.events = View(r).events, l \notin {"idle", "append"}, t.posted = {},
         \A a, T :
                  T \subseteq View(r).events /\ DiffKnows(pc[r], task[r], a, T, View(r).events) =>
                    DiffKnows(l, t, Gathered(r, a), T, View(r).events)
  PROVE  StepsOn(r)
<1>1. r \in Process
  BY ProcessAssumption
<1>2. pc'[r] = l /\ task'[r] = t
  BY <1>1, GotoFacts DEF TypeInv
<1>3. conn'[r] = Closed /\ db' = d
  BY <1>1 DEF Publish
<1>4. View(r)' = d
  BY <1>3 DEF View, Closed
<1>5. QED
  BY <1>2, <1>4 DEF StepsOn, GoesOn

LEMMA StartsOn ==
  ASSUME TypeInv, NEW r \in Replayer, StartRebuild(r)
  PROVE  StepsOn(r)
<1> DEFINE t == [NoTask EXCEPT !.keys = {e.bucket : e \in View(r).events}]
<1>1. Goto(r, "dropSnapshot", t) /\ Select(r) /\ pc[r] = "idle"
  BY DEF StartRebuild
<1>2. t.posted = {} /\ t.keys = Buckets(View(r).events)
  BY DEF NoTask, Buckets
<1> HIDE DEF t
<1>3. \A a, T :
               T \subseteq View(r).events /\ DiffKnows(pc[r], task[r], a, T, View(r).events) =>
                 DiffKnows("dropSnapshot", t, Gathered(r, a), T, View(r).events)
  BY <1>1, <1>2, LargerLog DEF DiffKnows, Gathered
<1>4. QED
  BY <1>1, <1>2, <1>3, SelectsOn

LEMMA DropsOn ==
  ASSUME TypeInv, NEW r \in Replayer, ReplayerOK(r), DropSnapshot(r) \/ DropAudit(r)
  PROVE  StepsOn(r)
<1>1. r \in Process /\ task[r].posted = {}
  BY ProcessAssumption DEF ReplayerOK
<1>2. IsDatabase(View(r))
  BY <1>1, ViewType DEF TypeInv
<1>3. CASE Refused(r)
  BY <1>3, RaisesOn DEF Refused
<1>4. CASE DropSnapshot(r) /\ ~Refused(r)
  <2> DEFINE d == [View(r) EXCEPT !.snapshot = EmptySnapshot]
  <2>1. Publish(r, d) /\ Goto(r, "dropAudit", task[r]) /\ pc[r] = "dropSnapshot"
    BY <1>4 DEF DropSnapshot
  <2>2. d.events = View(r).events
    BY <1>2 DEF IsDatabase
  <2> HIDE DEF d
  <2>3. \A a, T :
                 T \subseteq View(r).events /\ DiffKnows(pc[r], task[r], a, T, View(r).events) =>
                   DiffKnows("dropAudit", task[r], Gathered(r, a), T, View(r).events)
    BY <2>1 DEF DiffKnows, Gathered
  <2>4. QED
    BY <1>1, <2>1, <2>2, <2>3, PublishesOn
<1>5. CASE DropAudit(r) /\ ~Refused(r)
  <2> DEFINE d == [View(r) EXCEPT !.audit = EmptyBag]
             l == IF task[r].keys = {} THEN "commit" ELSE "requests"
  <2>1. Publish(r, d) /\ Goto(r, l, task[r]) /\ pc[r] = "dropAudit"
    BY <1>5 DEF DropAudit
  <2>2. d.events = View(r).events
    BY <1>2 DEF IsDatabase
  <2> HIDE DEF d
  <2>3. \A a, T :
                 T \subseteq View(r).events /\ DiffKnows(pc[r], task[r], a, T, View(r).events) =>
                   DiffKnows(l, task[r], Gathered(r, a), T, View(r).events)
    BY <2>1 DEF DiffKnows, Gathered, Collects
  <2>4. l \in {"commit", "requests"}
    OBVIOUS
  <2> HIDE DEF l
  <2>5. QED
    BY <1>1, <2>1, <2>2, <2>3, <2>4, PublishesOn
<1>6. QED
  BY <1>3, <1>4, <1>5

LEMMA FoldsOn ==
  ASSUME TypeInv, NEW r \in Replayer, ReplayerOK(r), FoldStep(r)
  PROVE  StepsOn(r)
<1>1. r \in Process /\ task[r].posted = {}
  BY ProcessAssumption DEF ReplayerOK
<1>2. pc[r] \in Folding /\ pc[r] \notin {"append", "upsert"}
  BY DEF FoldStep, SelectRequests, WriteAudit, SelectReleases, SelectAll, Folding
<1>3. Key(r) = FirstKey(task[r].keys) /\ Key(r) \in task[r].keys
  BY <1>1, <1>2, KeyType DEF TypeInv
<1>4. task[r] \in Task /\ View(r).events \in SUBSET Event
  BY <1>1, ViewType DEF TypeInv, ControlOK, IsDatabase
<1>5. CASE SelectRequests(r)
  <2> DEFINE R == RequestsOf(View(r).events, Key(r))
             t == [task[r] EXCEPT !.reqs = R, !.todo = ConflictLeaders(R)]
  <2>1. CASE Foldable(R)
    <3>1. Select(r) /\ Goto(r, "conflicts", t) /\ pc[r] = "requests"
      BY <1>5, <2>1 DEF SelectRequests
    <3>2. t.keys = task[r].keys /\ t.posted = {} /\ t.reqs = R
      BY <1>1, <1>4 DEF Task
    <3> HIDE DEF t
    <3>3. \A a, T :
                   T \subseteq View(r).events /\ DiffKnows(pc[r], task[r], a, T, View(r).events) =>
                     DiffKnows("conflicts", t, Gathered(r, a), T, View(r).events)
      <4> SUFFICES ASSUME NEW a, NEW T, T \subseteq View(r).events,
                          DiffKnows(pc[r], task[r], a, T, View(r).events)
                   PROVE  DiffKnows("conflicts", t, a, T, View(r).events)
        BY <3>1 DEF Gathered
      <4>1. RequestsOf(T, Key(r)) \subseteq R
        BY LargerLog
      <4>2. Key(r) \in Buckets(View(r).events)
        BY <1>3, <3>1 DEF DiffKnows
      <4>3. R = {} => ReleasesOf(View(r).events, Key(r)) # {}
        BY <1>4, <4>2, ListedBucket
      <4>4. QED
        BY <1>3, <3>1, <3>2, <4>1, <4>3 DEF DiffKnows
    <3>4. QED
      BY <3>1, <3>2, <3>3, SelectsOn
  <2>2. CASE ~Foldable(R)
    BY <1>5, <2>2, RaisesOn DEF SelectRequests
  <2>3. QED
    BY <2>1, <2>2
<1>6. CASE WriteAudit(r)
  <2>1. CASE Refused(r)
    BY <2>1, RaisesOn DEF Refused
  <2>2. CASE ~Refused(r)
    <3>1. PICK x \in NextRecorded(r) :
            /\ Publish(r, [View(r) EXCEPT
                             !.audit = @ (+) SetToBag({EntryFor(x, task[r].reqs)})])
            /\ Goto(r, pc[r], [task[r] EXCEPT !.todo = @ \ {x}])
      BY <1>6, <2>2 DEF WriteAudit
    <3> DEFINE d == [View(r) EXCEPT
                       !.audit = @ (+) SetToBag({EntryFor(x, task[r].reqs)})]
               t == [task[r] EXCEPT !.todo = @ \ {x}]
    <3>2. d.events = View(r).events
      BY <1>1, ViewType DEF TypeInv, IsDatabase
    <3>3. /\ t.keys = task[r].keys /\ t.posted = {}
          /\ t.reqs = task[r].reqs /\ t.rels = task[r].rels
      BY <1>1, <1>4 DEF Task
    <3>4. Publish(r, d) /\ Goto(r, pc[r], t)
      BY <3>1
    <3> HIDE DEF d, t
    <3>5. pc[r] \in {"conflicts", "orphans"}
      BY <1>6 DEF WriteAudit
    <3>6. \A a, T :
                   T \subseteq View(r).events /\ DiffKnows(pc[r], task[r], a, T, View(r).events) =>
                     DiffKnows(pc[r], t, Gathered(r, a), T, View(r).events)
      BY <3>3, <3>5 DEF DiffKnows, Gathered
    <3>7. QED
      BY <3>2, <3>3, <3>4, <3>5, <3>6, PublishesOn
  <2>3. QED
    BY <2>1, <2>2
<1>7. CASE SelectReleases(r)
  <2> DEFINE rels == ReleasesOf(View(r).events, Key(r))
             t == [task[r] EXCEPT !.rels = rels,
                                  !.todo = Orphans(rels, Accepted(task[r].reqs))]
  <2>1. Select(r) /\ Goto(r, "orphans", t) /\ pc[r] = "conflicts"
    BY <1>7 DEF SelectReleases
  <2>2. /\ t.keys = task[r].keys /\ t.posted = {}
        /\ t.reqs = task[r].reqs /\ t.rels = rels
    BY <1>1, <1>4 DEF Task
  <2> HIDE DEF t
  <2>3. \A a, T :
                 T \subseteq View(r).events /\ DiffKnows(pc[r], task[r], a, T, View(r).events) =>
                   DiffKnows("orphans", t, Gathered(r, a), T, View(r).events)
    <3> SUFFICES ASSUME NEW a, NEW T, T \subseteq View(r).events,
                        DiffKnows(pc[r], task[r], a, T, View(r).events)
                 PROVE  DiffKnows("orphans", t, a, T, View(r).events)
      BY <2>1 DEF Gathered
    <3>1. ReleasesOf(T, Key(r)) \subseteq rels
      BY LargerLog
    <3>2. task[r].reqs \cup rels # {}
      BY <1>3, <2>1 DEF DiffKnows
    <3>3. QED
      BY <1>3, <2>1, <2>2, <3>1, <3>2 DEF DiffKnows
  <2>4. QED
    BY <2>1, <2>2, <2>3, SelectsOn
<1>8. CASE SelectAll(r)
  <2> DEFINE all == EventsOf(View(r).events, Key(r))
             t == [task[r] EXCEPT !.row = FoldRow(task[r].reqs, task[r].rels, all)]
  <2>1. Select(r) /\ Goto(r, "upsert", t) /\ pc[r] = "orphans"
    BY <1>8 DEF SelectAll
  <2>2. /\ t.keys = task[r].keys /\ t.posted = {}
        /\ t.reqs = task[r].reqs /\ t.rels = task[r].rels
        /\ t.row = FoldRow(task[r].reqs, task[r].rels, all)
    BY <1>1, <1>4 DEF Task
  <2> HIDE DEF t
  <2>3. \A a, T :
                 T \subseteq View(r).events /\ DiffKnows(pc[r], task[r], a, T, View(r).events) =>
                   DiffKnows("upsert", t, Gathered(r, a), T, View(r).events)
    BY <1>3, <2>1, <2>2 DEF DiffKnows, Gathered, FoldRow
  <2>4. QED
    BY <2>1, <2>2, <2>3, SelectsOn
<1>9. QED
  BY <1>5, <1>6, <1>7, <1>8 DEF FoldStep

\* The fold of one bucket ends: its amount is the one that the log determines.
LEMMA UpsertsOn ==
  ASSUME TypeInv, NEW r \in Replayer, ReplayerOK(r), UpsertRebuilt(r)
  PROVE  StepsOn(r)
<1>1. r \in Process /\ pc[r] = "upsert"
  BY ProcessAssumption DEF UpsertRebuilt
<1>2. Key(r) = FirstKey(task[r].keys) /\ Key(r) \in task[r].keys
  BY <1>1, KeyType DEF TypeInv, Folding
<1>3. CASE Refused(r)
  BY <1>3, RaisesOn DEF Refused
<1>4. CASE ~Refused(r)
  <2> DEFINE rest == task[r].keys \ {Key(r)}
             l == IF rest = {} THEN "commit" ELSE "requests"
             t == [NoTask EXCEPT !.keys = rest]
  <2>1. Write(r, Upserted(r)) /\ Goto(r, l, t)
    BY <1>4 DEF UpsertRebuilt
  <2>2. t.keys = rest /\ t.posted = {} /\ l \in {"commit", "requests"}
    BY DEF NoTask
  <2>3. pc'[r] = l /\ task'[r] = t
    <3> HIDE DEF l, t
    <3>1. QED
      BY <1>1, <2>1, GotoFacts DEF TypeInv
  <2>4. View(r)' = Upserted(r)
    BY <1>1, <2>1 DEF TypeInv, WalTypeOK, Write, View
  <2>5. Upserted(r).events = View(r).events
    BY <1>1, ViewType DEF TypeInv, IsDatabase, Upserted
  <2> HIDE DEF t
  <2>6. ASSUME NEW a, NEW T, T \subseteq View(r).events,
               DiffKnows(pc[r], task[r], a, T, View(r).events)
        PROVE  DiffKnows(l, t, Gathered(r, a), T, View(r).events)
    <3> DEFINE V == View(r).events
               b == Key(r)
               new == <<b, task[r].row.allocated>>
    <3>1. /\ task[r].keys \subseteq Buckets(V)
          /\ Collects(task[r].keys, a, T, V)
          /\ task[r].row.allocated = FoldRow(task[r].reqs, task[r].rels, {}).allocated
          /\ BothSaw(T, V, b, task[r].reqs, task[r].rels)
      BY <1>1, <1>2, <2>6 DEF DiffKnows, BothSaw
    <3>2. PICK L \in LogsBetween(T, V) :
            /\ b \in Buckets(L)
            /\ RequestsOf(L, b) = task[r].reqs /\ ReleasesOf(L, b) = task[r].rels
      <4> HIDE DEF V, b, new
      <4>1. QED
        BY <3>1, FoldOfReads
    <3>3. new = <<b, FoldBucket(L, b).allocated>>
      BY <3>1, <3>2 DEF FoldBucket, FoldRow
    <3>4. Gathered(r, a) = a \cup {new}
      BY <1>1 DEF Gathered
    <3>5. Collects(rest, a \cup {new}, T, V)
      <4> HIDE DEF V
      <4>1. \A p \in a : p[1] # b
        BY <1>2, <3>1 DEF Collects
      <4>2. new[1] = b
        OBVIOUS
      <4> HIDE DEF new, b
      <4>3. b \in task[r].keys /\ rest = task[r].keys \ {b}
        BY <1>2 DEF b
      <4> HIDE DEF rest
      <4>4. ASSUME NEW p \in a \cup {new}
            PROVE  /\ p[1] \notin rest
                   /\ \E M \in LogsBetween(T, V) :
                        p[1] \in Buckets(M) /\ p = <<p[1], FoldBucket(M, p[1]).allocated>>
                   /\ \A q \in a \cup {new} : p[1] = q[1] => p = q
        <5>1. CASE p \in a
          BY <3>1, <4>1, <4>2, <4>3, <5>1 DEF Collects
        <5>2. CASE p = new
          BY <3>1, <3>2, <3>3, <4>1, <4>2, <4>3, <5>2 DEF Collects
        <5>3. QED
          BY <5>1, <5>2
      <4>5. ASSUME NEW c \in Buckets(T) \ rest PROVE AmountIn(a \cup {new}, c) # {}
        BY <3>1, <4>2, <4>3 DEF Collects, AmountIn
      <4>6. QED
        BY <4>4, <4>5 DEF Collects
    <3>6. QED
      BY <2>2, <3>1, <3>4, <3>5 DEF DiffKnows
  <2> HIDE DEF l
  <2>7. QED
    BY <2>2, <2>3, <2>4, <2>5, <2>6 DEF StepsOn, GoesOn
<1>5. QED
  BY <1>3, <1>4

LEMMA FinishesOn ==
  ASSUME TypeInv, NEW r \in Replayer, FinishRebuild(r) \/ Crash(r)
  PROVE  StepsOn(r)
<1>1. r \in Process
  BY ProcessAssumption
<1>2. conn'[r] = Closed
  BY <1>1 DEF TypeInv, WalTypeOK, FinishRebuild, Commit, Publish, Crash
<1>3. QED
  BY <1>2, EndsOn DEF FinishRebuild, Crash, Closed

LEMMA ReplayerSteps ==
  ASSUME TypeInv, NEW r \in Replayer, ReplayerOK(r),
         StartRebuild(r) \/ Continue(r) \/ Crash(r)
  PROVE  StepsOn(r)
<1>1. r \notin Worker
  BY DEF Worker
<1>2. QED
  BY <1>1, StartsOn, DropsOn, FoldsOn, UpsertsOn, FinishesOn
     DEF Continue, RebuildStep

-----------------------------------------------------------------------------
(* One lemma for each kind of step.                                        *)

SameDiff(r) == live'[r] = live[r] /\ rebuilt'[r] = rebuilt[r] /\ logThen'[r] = logThen[r]

OKNext(r) == ReplayerOK(r)' /\ DiffOK(r)'

\* Another process: the log may grow, and with it what r sees.
LEMMA OthersKeepDiff ==
  ASSUME ToolInv, ToolInv', db.events \subseteq db'.events,
         NEW r \in Replayer, ReplayerOK(r), DiffOK(r), Kept(r), SameDiff(r)
  PROVE  OKNext(r)
<1>1. r \in Process
  BY ProcessAssumption
<1>2. /\ pc'[r] = pc[r] /\ task'[r] = task[r]
      /\ conn'[r].mode = conn[r].mode /\ conn'[r].view = conn[r].view
      /\ live'[r] = live[r] /\ rebuilt'[r] = rebuilt[r] /\ logThen'[r] = logThen[r]
  BY DEF Kept, SameDiff
<1>3. View(r).events \subseteq View(r)'.events
  BY <1>2 DEF View
<1>4. ReplayerOK(r)'
  BY <1>2 DEF ReplayerOK, NoDiff
<1>5. DiffOK(r)'
  <2> SUFFICES ASSUME ~NoDiff(r) PROVE DiffOK(r)'
    BY <1>2 DEF DiffOK, NoDiff
  <2>1. logThen'[r] \subseteq View(r)'.events
    BY <1>2, <1>3 DEF DiffOK
  <2>2. DiffKnows(pc'[r], task'[r], rebuilt'[r], logThen'[r], View(r)'.events)
    BY <1>2, <1>3, KnowsMore DEF DiffOK
  <2>3. QED
    BY <2>1, <2>2 DEF DiffOK
<1>6. QED
  BY <1>4, <1>5 DEF OKNext

LEMMA BeginOK ==
  ASSUME ToolInv, DiffInv, NEW r \in Replayer, BeginDiff(r)
  PROVE  OKNext(r)
<1>1. r \in Process /\ ReplayerOK(r) /\ NoDiff(r) /\ pc[r] = "idle"
  BY ProcessAssumption DEF BeginDiff, DiffInv
<1>2. conn[r].mode = "auto"
  BY <1>1 DEF ReplayerOK
<1>3. conn'[r] = conn[r] /\ db' = db
  BY <1>1, <1>2 DEF BeginDiff, Select, AfterSelect, ToolInv, SafeInv, TypeInv, WalTypeOK
<1>4. pc'[r] = pc[r] /\ task'[r] = task[r] /\ rebuilt'[r] = rebuilt[r]
  BY DEF BeginDiff
<1>5. logThen'[r] = db.events /\ \A x, y \in live'[r] : x = y
  BY DEF BeginDiff, DiffInv
<1>6. View(r)' = db
  BY <1>2, <1>3 DEF View
<1>7. ReplayerOK(r)'
  BY <1>1, <1>3, <1>4, <1>5 DEF ReplayerOK
<1>8. DiffKnows("idle", task[r], rebuilt[r], db.events, db.events)
  BY <1>1 DEF DiffKnows, ReplayerOK
<1>9. DiffOK(r)'
  BY <1>1, <1>3, <1>4, <1>5, <1>6, <1>8 DEF DiffOK
<1>10. QED
  BY <1>7, <1>9 DEF OKNext

LEMMA DiffStepOK ==
  ASSUME ToolInv, DiffInv, db.events \subseteq db'.events,
         NEW r \in Replayer, DiffStep(r)
  PROVE  OKNext(r)
<1>1. r \in Process /\ ReplayerOK(r) /\ DiffOK(r) /\ ~NoDiff(r)
  BY ProcessAssumption DEF DiffStep, DiffInv
<1>2. StepsOn(r)
  BY <1>1, ReplayerSteps DEF ToolInv, SafeInv, DiffStep
<1>3. CASE pc'[r] = "idle"
  <2>1. live'[r] = {} /\ rebuilt'[r] = {}
    BY <1>3 DEF DiffStep, DiffInv
  <2>2. QED
    BY <1>2, <1>3, <2>1 DEF StepsOn, OKNext, ReplayerOK, DiffOK, NoDiff
<1>4. CASE pc'[r] # "idle"
  <2>1. /\ live'[r] = live[r] /\ logThen'[r] = logThen[r]
        /\ rebuilt'[r] = Gathered(r, rebuilt[r])
    BY <1>4 DEF DiffStep, DiffInv, Collected, Gathered
  <2>2. GoesOn(r)
    BY <1>2, <1>4 DEF StepsOn
  <2>3. ReplayerOK(r)'
    BY <1>1, <1>2, <1>4, <2>1 DEF StepsOn, ReplayerOK, NoDiff
  <2>4. logThen'[r] \subseteq View(r)'.events
    BY <1>1, <2>1, <2>2 DEF DiffOK, GoesOn
  <2>5. DiffKnows(pc'[r], task'[r], rebuilt'[r], logThen'[r], View(r)'.events)
    BY <1>1, <2>1, <2>2 DEF DiffOK, GoesOn
  <2>6. QED
    BY <2>3, <2>4, <2>5 DEF OKNext, DiffOK
<1>5. QED
  BY <1>3, <1>4

LEMMA CrashDiffOK ==
  ASSUME ToolInv, DiffInv, NEW r \in Replayer, CrashDiff(r)
  PROVE  OKNext(r)
<1>1. ReplayerOK(r) /\ Crash(r) /\ live'[r] = {} /\ rebuilt'[r] = {}
  BY DEF CrashDiff, DiffInv
<1>2. StepsOn(r)
  BY <1>1, ReplayerSteps DEF ToolInv, SafeInv
<1>3. pc'[r] = "idle"
  BY <1>1, ProcessAssumption, GotoFacts DEF ToolInv, SafeInv, TypeInv, Crash, Done
<1>4. QED
  BY <1>1, <1>2, <1>3 DEF StepsOn, OKNext, ReplayerOK, DiffOK, NoDiff

\* A replayer run with --rebuild has no diff.
LEMMA RebuildAloneOK ==
  ASSUME ToolInv, NEW r \in Replayer, ReplayerOK(r), NoDiff(r), SameDiff(r),
         StartRebuild(r) \/ Continue(r) \/ Crash(r)
  PROVE  OKNext(r)
<1>1. StepsOn(r)
  BY ReplayerSteps DEF ToolInv, SafeInv
<1>2. QED
  BY <1>1 DEF StepsOn, OKNext, ReplayerOK, DiffOK, NoDiff, SameDiff

-----------------------------------------------------------------------------
(* The composition.                                                        *)

LEMMA DiffDomains ==
  ASSUME DiffInv, [ToolNext]_toolVars
  PROVE  DOMAIN live' = Replayer /\ DOMAIN rebuilt' = Replayer /\ DOMAIN logThen' = Replayer
  BY DEF DiffInv, ToolNext, BeginDiff, DiffStep, CrashDiff, EngineStep, diffVars, toolVars

LEMMA NextDiff == ToolInv /\ DiffInv /\ [ToolNext]_toolVars => DiffInv'
<1> SUFFICES ASSUME ToolInv, DiffInv, [ToolNext]_toolVars, NEW r \in Replayer
             PROVE  OKNext(r)
  BY DiffDomains DEF DiffInv, OKNext
<1>1. r \in Process /\ ReplayerOK(r) /\ DiffOK(r) /\ TypeInv
  BY ProcessAssumption DEF DiffInv, ToolInv, SafeInv
<1>2. ToolInv' /\ db.events \subseteq db'.events
  BY ToolKeeps
<1>3. ASSUME NEW q \in Process \ {r}, SameDiff(r),
             Receive(q) \/ Read(q) \/ StartRebuild(q) \/ Continue(q) \/ Crash(q)
      PROVE  OKNext(r)
  BY <1>1, <1>2, <1>3, OthersKept, OthersKeepDiff
<1>4. ASSUME NEW q \in Replayer, BeginDiff(q) \/ DiffStep(q) \/ CrashDiff(q)
      PROVE  OKNext(r)
  <2>1. CASE q = r
    BY <1>2, <1>4, <2>1, BeginOK, DiffStepOK, CrashDiffOK
  <2>2. CASE q # r
    <3>1. q \in Process \ {r}
      BY <2>2, ProcessAssumption
    <3>2. SameDiff(r)
      BY <1>4, <2>2 DEF DiffInv, BeginDiff, DiffStep, CrashDiff, SameDiff
    <3>3. CASE BeginDiff(q)
      <4>1. Kept(r)
        BY <1>1, <3>1, <3>3, OthersIdle DEF BeginDiff
      <4>2. QED
        BY <1>1, <1>2, <3>2, <4>1, OthersKeepDiff
    <3>4. CASE DiffStep(q) \/ CrashDiff(q)
      BY <1>3, <3>1, <3>2, <3>4 DEF DiffStep, CrashDiff
    <3>5. QED
      BY <1>4, <3>3, <3>4
  <2>3. QED
    BY <2>1, <2>2
<1>5. CASE EngineStep
  <2>1. SameDiff(r)
    BY <1>5 DEF EngineStep, diffVars, SameDiff
  <2>2. ASSUME NEW w \in Worker,
               Receive(w) \/ Read(w) \/ StartRebuild(w) \/ Continue(w) \/ Crash(w)
        PROVE  OKNext(r)
    BY <1>3, <2>1, <2>2 DEF Worker
  <2>3. ASSUME NEW q \in Replayer, NoDiff(q), StartRebuild(q) \/ Continue(q) \/ Crash(q)
        PROVE  OKNext(r)
    <3>1. CASE q = r
      BY <1>1, <2>1, <2>3, <3>1, RebuildAloneOK
    <3>2. CASE q # r
      BY <1>3, <2>1, <2>3, <3>2, ProcessAssumption
    <3>3. QED
      BY <3>1, <3>2
  <2>4. QED
    BY <1>5, <2>2, <2>3 DEF EngineStep
<1>6. CASE UNCHANGED toolVars
  <2>1. Kept(r) /\ SameDiff(r)
    BY <1>6 DEF toolVars, vars, diffVars, Kept, SameDiff
  <2>2. QED
    BY <1>1, <1>2, <2>1, OthersKeepDiff
<1>7. QED
  BY <1>4, <1>5, <1>6 DEF ToolNext

LEMMA InitDiff == ToolInit => DiffInv
  BY ProcessAssumption
     DEF ToolInit, Init, WalInit, Closed, NoTask, DiffInv, ReplayerOK, DiffOK, NoDiff

LEMMA DiffInvariant == ToolSpec => [](ToolInv /\ DiffInv)
<1>1. ToolInit /\ ToolInv => DiffInv
  BY InitDiff
<1>2. QED
  BY <1>1, ToolInvariant, NextDiff, PTL DEF ToolSpec

-----------------------------------------------------------------------------
(* The amounts of a projection are those that a diff gathers.              *)

LEMMA AmountsOfLog ==
  ASSUME NEW L \in SUBSET Event, IsFiniteSet(L)
  PROVE  AsDict(Projection(L)) = {<<b, FoldBucket(L, b).allocated>> : b \in Buckets(L)}
<1>1. ASSUME NEW b \in Bucket
      PROVE  Projection(L)[b] # NoRow <=> b \in Buckets(L)
  <2>1. EventsOf(L, b) # {} <=> b \in Buckets(L)
    BY DEF EventsOf, Buckets
  <2>2. CASE EventsOf(L, b) = {}
    BY <2>1, <2>2 DEF Projection
  <2>3. CASE EventsOf(L, b) # {}
    <3>1. IsFiniteSet(EventsOf(L, b))
      BY FS_Subset DEF EventsOf
    <3>2. Cardinality(EventsOf(L, b)) # 0
      BY <2>3, <3>1, FS_EmptySet
    <3>3. Projection(L)[b].version = Cardinality(EventsOf(L, b))
      BY <2>3 DEF Projection, FoldBucket, FoldRow
    <3>4. QED
      BY <2>1, <2>3, <3>2, <3>3 DEF NoRow
  <2>4. QED
    BY <2>2, <2>3
<1>2. Buckets(L) \subseteq Bucket
  BY EventAssumption DEF Buckets, EventPayload
<1>3. ASSUME NEW b \in Buckets(L)
      PROVE  Projection(L)[b] = FoldBucket(L, b)
  BY <1>2, <1>3 DEF Projection, EventsOf, Buckets
<1>4. QED
  BY <1>1, <1>2, <1>3 DEF AsDict

\* When all buckets are folded, rebuilt_dict has for each the amount that some
\* log since the beginning determines.
LEMMA AmountsRebuilt ==
  ASSUME NEW T, NEW V \in SUBSET Event, IsFiniteSet(V), T \subseteq V, NEW a,
         Collects({}, a, T, V), NEW b \in Bucket
  PROVE  \E L \in LogsBetween(T, V) : AmountIn(a, b) = AmountIn(AsDict(Projection(L)), b)
<1>1. \A L \in LogsBetween(T, V) :
        AsDict(Projection(L)) = {<<c, FoldBucket(L, c).allocated>> : c \in Buckets(L)}
  BY AmountsOfLog, FS_Subset DEF LogsBetween
<1>2. CASE AmountIn(a, b) = {}
  <2>1. b \notin Buckets(T) /\ T \in LogsBetween(T, V)
    BY <1>2 DEF Collects, LogsBetween
  <2>2. AmountIn(AsDict(Projection(T)), b) = {}
    BY <1>1, <2>1 DEF AmountIn
  <2>3. QED
    BY <1>2, <2>1, <2>2
<1>3. CASE AmountIn(a, b) # {}
  <2>1. PICK p \in a : p[1] = b
    BY <1>3 DEF AmountIn
  <2>2. PICK L \in LogsBetween(T, V) :
          b \in Buckets(L) /\ p = <<b, FoldBucket(L, b).allocated>>
    BY <2>1 DEF Collects
  <2>3. AmountIn(a, b) = {p}
    BY <2>1 DEF AmountIn, Collects
  <2>4. AmountIn(AsDict(Projection(L)), b) = {p}
    BY <1>1, <2>2 DEF AmountIn
  <2>5. QED
    BY <2>2, <2>3, <2>4
<1>4. QED
  BY <1>2, <1>3

-----------------------------------------------------------------------------
\* The verdict of a diff is about the log: "identical" is said only of amounts
\* that the log determined at some time during the diff, and the opposite only
\* of rows that had not the amounts it determined all that time, although the
\* tool has deleted the rows and other processes have gone on storing, folding,
\* rebuilding and failing beside it.
THEOREM VerdictsTell == ToolSpec => []VerdictTells
<1>1. ToolInv /\ DiffInv => VerdictTells
  <2> SUFFICES ASSUME ToolInv, DiffInv, NEW r \in Replayer, Reporting(r),
                      NEW rows \in live[r]
               PROVE  LET Right(b, L) ==
                            AmountIn(AsDict(rows), b) = AmountIn(AsDict(Projection(L)), b)
                          Logs == LogsBetween(logThen[r], db.events)
                      IN  IF Identical(r)
                            THEN \A b \in Bucket : \E L \in Logs : Right(b, L)
                            ELSE \E b \in Bucket : \E L \in Logs : ~Right(b, L)
    BY DEF VerdictTells
  <2>1. /\ r \in Process /\ ReplayerOK(r)
        /\ logThen[r] \subseteq View(r).events
        /\ DiffKnows("commit", task[r], rebuilt[r], logThen[r], View(r).events)
    BY ProcessAssumption DEF DiffInv, DiffOK, Reporting
  <2>2. View(r).events \subseteq db.events
    BY <2>1, ViewIsCommitted DEF ToolInv, SafeInv, TypeInv
  <2>3. Collects({}, rebuilt[r], logThen[r], db.events) /\ logThen[r] \subseteq db.events
    <3>1. DiffKnows("commit", task[r], rebuilt[r], logThen[r], db.events)
      BY <2>1, <2>2, KnowsMore
    <3>2. QED
      BY <2>1, <2>2, <3>1 DEF DiffKnows
  <2>4. db.events \in SUBSET Event /\ IsFiniteSet(db.events)
    BY DEF ToolInv, SafeInv, TypeInv, WalTypeOK, IsDatabase
  <2>5. \A b \in Bucket : \E L \in LogsBetween(logThen[r], db.events) :
          AmountIn(rebuilt[r], b) = AmountIn(AsDict(Projection(L)), b)
    BY <2>3, <2>4, AmountsRebuilt
  <2>6. CASE Identical(r)
    BY <2>5, <2>6 DEF Identical
  <2>7. CASE ~Identical(r)
    <3>1. AsDict(rows) # rebuilt[r]
      BY <2>1, <2>7 DEF Identical, ReplayerOK
    <3>2. \A p \in AsDict(rows) : p[1] \in Bucket
      BY DEF AsDict
    <3>3. \A p \in rebuilt[r] : p[1] \in Bucket
      BY <2>3, <2>4, EventAssumption DEF Collects, LogsBetween, Buckets, EventPayload
    <3>4. PICK b \in Bucket : AmountIn(AsDict(rows), b) # AmountIn(rebuilt[r], b)
      <4> DEFINE A == AsDict(rows)
                 B == rebuilt[r]
      <4> HIDE DEF A, B
      <4>1. PICK p \in A \cup B : p \in A <=> p \notin B
        BY <3>1 DEF A, B
      <4>2. p[1] \in Bucket /\ AmountIn(A, p[1]) # AmountIn(B, p[1])
        BY <3>2, <3>3, <4>1 DEF A, B, AmountIn
      <4>3. QED
        BY <4>2 DEF A, B
    <3>5. QED
      BY <2>5, <2>7, <3>4
  <2>8. QED
    BY <2>6, <2>7
<1>2. QED
  BY <1>1, DiffInvariant, PTL

\* Beside any diffs, too, no transaction undoes the append of another.
THEOREM DiffsAreSound == ToolSpec => []WalSound
<1>1. ToolInv => WalSound
  BY DEF ToolInv, SafeInv
<1>2. QED
  BY <1>1, ToolInvariant, PTL

\* And no row shows more than the capacity of its bucket.
THEOREM DiffsNeverExceed == ToolSpec => []RowsWithinCapacity
<1>1. ToolInv => RowsWithinCapacity
  BY DEF ToolInv, CapacityInv, TablesWithin, Within, RowsWithinCapacity
<1>2. QED
  BY <1>1, ToolInvariant, PTL

=============================================================================
