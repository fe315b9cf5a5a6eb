------------------------------ MODULE LogProofs ------------------------------
(***************************************************************************)
(* What the engine promises about the event log, and about the amounts of  *)
(* the rows, for any number of workers and replayers that crash and        *)
(* rebuild at any moment.                                                  *)
(*                                                                         *)
(* No promise about the log is inductive.  The dedup check reads a view    *)
(* that may be old, so uniqueness rests on the INSERT, which sees the      *)
(* committed log only because a connection that can write is fresh         *)
(* (WalSound); and that an answer is given once rests on a posted event    *)
(* being in the log from the INSERT on (PostedStored).                     *)
(***************************************************************************)
EXTENDS EngineProofs

\* Its event is stored; a 200 may follow.
Storing(p) == pc[p] \notin {"idle", "append"}

PostedStored ==
  \A p \in Process :
    /\ pc[p] = "append" => \E e \in Event : task[p].posted = {e}
    /\ Storing(p) => /\ task[p].posted \subseteq db.events
                     /\ \A e, f \in task[p].posted : e = f

LogInv ==
  /\ UniqueIds
  /\ AnswersDurable
  /\ PostedStored
  /\ AppliedOnce

SafeInv == TypeInv /\ WalSound /\ LogInv

LEMMA GotoFacts ==
  ASSUME ControlOK, NEW p \in Process, NEW l, NEW t, Goto(p, l, t)
  PROVE  \A q \in Process : /\ pc'[q] = IF q = p THEN l ELSE pc[q]
                            /\ task'[q] = IF q = p THEN t ELSE task[q]
  BY DEF ControlOK, Goto

\* A step that stores nothing and answers no POST with 200.
LEMMA KeepLog ==
  ASSUME TypeInv, LogInv, NEW p \in Process, NEW l, NEW t, Goto(p, l, t),
         db'.events = db.events, acked' = acked,
         Ids(duplicates') \subseteq Ids(db.events),
         l = "append" => \E e \in Event : t.posted = {e},
         l \notin {"idle", "append"} =>
           t.posted = {} \/ (Storing(p) /\ t.posted = task[p].posted)
  PROVE  LogInv'
<1>1. \A q \in Process : /\ pc'[q] = IF q = p THEN l ELSE pc[q]
                         /\ task'[q] = IF q = p THEN t ELSE task[q]
  BY GotoFacts DEF TypeInv
<1>2. UniqueIds' /\ AnswersDurable'
  BY DEF LogInv, UniqueIds, AnswersDurable
<1>3. \A q \in Process : Storing(q)' =>
        task'[q].posted = {} \/ (Storing(q) /\ task'[q].posted = task[q].posted)
  BY <1>1 DEF Storing
<1>4. PostedStored'
  BY <1>1, <1>3 DEF LogInv, PostedStored
<1>5. AppliedOnce'
  <2>1. ASSUME NEW v \in Worker, Storing(v)'
        PROVE  Ids(task'[v].posted) \cap Ids(acked') = {}
    <3>1. v \in Process
      BY DEF Worker
    <3>2. CASE task'[v].posted = {}
      BY <3>2 DEF Ids
    <3>3. CASE Storing(v) /\ task'[v].posted = task[v].posted
      BY <3>3 DEF LogInv, AppliedOnce, Storing
    <3>4. QED
      BY <1>3, <2>1, <3>1, <3>2, <3>3
  <2>2. ASSUME NEW v \in Worker, NEW w \in Worker \ {v}, Storing(v)', Storing(w)'
        PROVE  Ids(task'[v].posted) \cap Ids(task'[w].posted) = {}
    <3>1. v \in Process /\ w \in Process
      BY DEF Worker
    <3>2. CASE task'[v].posted = {} \/ task'[w].posted = {}
      BY <3>2 DEF Ids
    <3>3. CASE /\ Storing(v) /\ task'[v].posted = task[v].posted
               /\ Storing(w) /\ task'[w].posted = task[w].posted
      BY <3>3 DEF LogInv, AppliedOnce, Storing
    <3>4. QED
      BY <1>3, <2>2, <3>1, <3>2, <3>3
  <2>3. QED
    BY <2>1, <2>2 DEF AppliedOnce, Storing
<1>6. QED
  BY <1>2, <1>4, <1>5 DEF LogInv

-----------------------------------------------------------------------------
(* The ways a statement ends, apart from an INSERT and an answer 200.      *)

Keeps == WalSound' /\ LogInv' /\ db.events \subseteq db'.events

LEMMA PublishKeepsLog ==
  ASSUME TypeInv, WalSound, NEW p \in Process, NEW d,
         d.events = View(p).events, Publish(p, d)
  PROVE  WalSound' /\ db'.events = db.events
<1>1. View(p).events = db.events
  BY FreshView DEF TypeInv, Publish
<1>2. WalSound'
  BY PublishSound DEF TypeInv
<1>3. QED
  BY <1>1, <1>2 DEF Publish

LEMMA DoneKeeps ==
  ASSUME SafeInv, NEW p \in Process, Done(p), WalSound',
         db'.events = db.events, UNCHANGED <<acked, duplicates>>
  PROVE  Keeps
<1>1. Ids(duplicates') \subseteq Ids(db.events)
  BY DEF SafeInv, LogInv, AnswersDurable
<1>2. LogInv'
  BY <1>1, KeepLog DEF SafeInv, Done
<1>3. QED
  BY <1>2 DEF Keeps

LEMMA RefusedKeeps ==
  ASSUME SafeInv, NEW p \in Process, Refused(p)
  PROVE  Keeps
<1>1. Done(p) /\ UNCHANGED <<db, acked, duplicates>>
  BY DEF Refused, Raise
<1>2. WalSound'
  <2>1. CASE p \in Replayer
    BY <2>1, ClosedSound DEF SafeInv, TypeInv, Refused, Raise
  <2>2. CASE p \notin Replayer
    BY <2>2, RefusalSound DEF SafeInv, TypeInv, Refused, Raise
  <2>3. QED
    BY <2>1, <2>2
<1>3. QED
  BY <1>1, <1>2, DoneKeeps

\* A step of a fold or a rebuild to a place where its event is stored, if it
\* has one.
LEMMA GoOnKeeps ==
  ASSUME SafeInv, NEW p \in Process, NEW l, NEW t, Goto(p, l, t),
         l # "append",
         t.posted = {} \/ (Storing(p) /\ t.posted = task[p].posted),
         WalSound', db'.events = db.events, UNCHANGED <<acked, duplicates>>
  PROVE  Keeps
<1>1. Ids(duplicates') \subseteq Ids(db.events)
  BY DEF SafeInv, LogInv, AnswersDurable
<1>2. LogInv'
  BY <1>1, KeepLog DEF SafeInv
<1>3. QED
  BY <1>2 DEF Keeps

\* What the locals of a handler keep when some of them change.
LEMMA LocalsFacts ==
  ASSUME ControlOK, NEW p \in Process
  PROVE  /\ \A R, S : [task[p] EXCEPT !.reqs = R, !.todo = S].posted = task[p].posted
         /\ \A R, S : [task[p] EXCEPT !.rels = R, !.todo = S].posted = task[p].posted
         /\ \A R : [task[p] EXCEPT !.row = R].posted = task[p].posted
         /\ \A R : [task[p] EXCEPT !.todo = R].posted = task[p].posted
         /\ \A K : [NoTask EXCEPT !.keys = K].posted = {}
  BY DEF ControlOK, Task, NoTask

-----------------------------------------------------------------------------
(* One lemma for each handler step.                                        *)

LEMMA ReceiveKeeps ==
  ASSUME SafeInv, NEW w \in Worker, Receive(w)
  PROVE  Keeps
<1>1. w \in Process
  BY DEF Worker
<1>2. WalSound' /\ UNCHANGED <<db, acked>>
  BY <1>1, SelectSound DEF SafeInv, TypeInv, Receive, Select
<1>3. PICK e \in Event :
        IF Seen(w, e)
          THEN /\ duplicates' = duplicates \cup {e}
               /\ UNCHANGED <<pc, task>>
          ELSE /\ Goto(w, "append", [NoTask EXCEPT !.posted = {e}, !.keys = {e.bucket}])
               /\ UNCHANGED duplicates
  BY DEF Receive
<1>4. Ids(duplicates) \subseteq Ids(db.events)
  BY DEF SafeInv, LogInv, AnswersDurable
<1>5. CASE Seen(w, e)
  <2>1. View(w).events \subseteq db.events
    BY <1>1, ViewIsCommitted DEF SafeInv, TypeInv
  <2>2. Ids(duplicates') \subseteq Ids(db.events)
    BY <1>3, <1>4, <1>5, <2>1 DEF Seen, Ids
  <2>3. UNCHANGED <<pc, task>>
    BY <1>3, <1>5
  <2>4. LogInv'
    BY <1>2, <2>2, <2>3
       DEF SafeInv, LogInv, UniqueIds, AnswersDurable, PostedStored, AppliedOnce,
           Storing
  <2>5. QED
    BY <1>2, <2>4 DEF Keeps
<1>6. CASE ~Seen(w, e)
  <2> DEFINE t == [NoTask EXCEPT !.posted = {e}, !.keys = {e.bucket}]
  <2>1. Goto(w, "append", t) /\ UNCHANGED duplicates
    BY <1>3, <1>6
  <2>2. t.posted = {e}
    BY DEF NoTask
  <2> HIDE DEF t
  <2>3. LogInv'
    BY <1>1, <1>2, <1>4, <2>1, <2>2, KeepLog DEF SafeInv
  <2>4. QED
    BY <1>2, <2>3 DEF Keeps
<1>7. QED
  BY <1>5, <1>6

\* The INSERT: the id is new to the committed log, so it is neither answered
\* nor on its way to an answer.
LEMMA InsertKeeps ==
  ASSUME SafeInv, NEW w \in Process, pc[w] = "append",
         NEW e, task[w].posted = {e}, ~KeyTaken(View(w), e),
         Publish(w, [View(w) EXCEPT !.events = @ \cup {e}]),
         Goto(w, "requests", task[w]), UNCHANGED <<acked, duplicates>>
  PROVE  Keeps
<1> DEFINE d == [View(w) EXCEPT !.events = @ \cup {e}]
<1>1. IsDatabase(View(w))
  BY ViewType DEF SafeInv, TypeInv
<1>2. View(w).events = db.events
  BY FreshView DEF SafeInv, TypeInv, Publish
<1>3. d.events = db.events \cup {e}
  BY <1>1, <1>2 DEF IsDatabase
<1>4. WalSound' /\ db'.events = db.events \cup {e}
  <2>1. View(w).events \subseteq d.events /\ Publish(w, d)
    BY <1>2, <1>3
  <2> HIDE DEF d
  <2>2. QED
    BY <1>3, <2>1, PublishSound DEF SafeInv, TypeInv, Publish
<1>5. e.id \notin Ids(db.events)
  BY <1>2 DEF KeyTaken
<1>6. \A q \in Process : /\ pc'[q] = IF q = w THEN "requests" ELSE pc[q]
                         /\ task'[q] = task[q]
  BY GotoFacts DEF SafeInv, TypeInv
<1>7. UniqueIds'
  BY <1>4, <1>5 DEF SafeInv, LogInv, UniqueIds, Ids
<1>8. AnswersDurable'
  BY <1>4 DEF SafeInv, LogInv, AnswersDurable, Ids
<1>9. PostedStored'
  BY <1>4, <1>6 DEF SafeInv, LogInv, PostedStored, Storing
<1>10. AppliedOnce'
  <2>1. \A v \in Process : Storing(v)' =>
          v = w \/ (Storing(v) /\ task[v].posted \subseteq db.events)
    BY <1>6 DEF SafeInv, LogInv, PostedStored, Storing
  <2>2. Ids(task[w].posted) = {e.id}
    BY DEF Ids
  <2>3. ASSUME NEW v \in Worker, Storing(v)'
        PROVE  Ids(task[v].posted) \cap Ids(acked) = {}
    <3>1. v \in Process
      BY DEF Worker
    <3>2. CASE v = w
      BY <1>5, <2>2, <3>2 DEF SafeInv, LogInv, AnswersDurable, Ids
    <3>3. CASE v # w
      BY <2>1, <2>3, <3>1, <3>3 DEF SafeInv, LogInv, AppliedOnce, Storing
    <3>4. QED
      BY <3>2, <3>3
  <2>4. ASSUME NEW v \in Worker, NEW u \in Worker \ {v}, Storing(v)', Storing(u)'
        PROVE  Ids(task[v].posted) \cap Ids(task[u].posted) = {}
    <3>1. v \in Process /\ u \in Process
      BY DEF Worker
    <3>2. CASE v = w
      <4>1. task[u].posted \subseteq db.events
        BY <2>1, <2>4, <3>1, <3>2
      <4>2. QED
        BY <1>5, <2>2, <3>2, <4>1 DEF Ids
    <3>3. CASE u = w
      <4>1. task[v].posted \subseteq db.events
        BY <2>1, <2>4, <3>1, <3>3
      <4>2. QED
        BY <1>5, <2>2, <3>3, <4>1 DEF Ids
    <3>4. CASE v # w /\ u # w
      BY <2>1, <2>4, <3>1, <3>4 DEF SafeInv, LogInv, AppliedOnce, Storing
    <3>5. QED
      BY <3>2, <3>3, <3>4
  <2>5. \A v \in Worker : task'[v] = task[v]
    BY <1>6 DEF Worker
  <2>6. QED
    BY <2>3, <2>4, <2>5 DEF AppliedOnce, Storing
<1>11. QED
  BY <1>4, <1>7, <1>8, <1>9, <1>10 DEF LogInv, Keeps

LEMMA AppendKeeps ==
  ASSUME SafeInv, NEW w \in Process, Append(w)
  PROVE  Keeps
<1>1. CASE Refused(w)
  BY <1>1, RefusedKeeps
<1>2. PICK f \in Event : task[w].posted = {f}
  BY DEF SafeInv, LogInv, PostedStored, Append
<1>3. ASSUME ~KeyTaken(View(w), f),
             Publish(w, [View(w) EXCEPT !.events = @ \cup {f}]),
             Goto(w, "requests", task[w]), UNCHANGED <<acked, duplicates>>
      PROVE  Keeps
  BY <1>2, <1>3, InsertKeeps DEF Append
<1>4. ASSUME CanWrite(w),
             Raise(w, [mode |-> "writing", view |-> View(w), stale |-> FALSE])
      PROVE  Keeps
  <2>1. Done(w) /\ UNCHANGED <<db, acked, duplicates>>
    BY <1>4 DEF Raise
  <2>2. WalSound'
    <3>1. CASE w \in Replayer
      BY <1>4, <3>1, ClosedSound DEF SafeInv, TypeInv, Raise
    <3>2. CASE w \notin Replayer
      <4> DEFINE c == [mode |-> "writing", view |-> View(w), stale |-> FALSE]
      <4>1. /\ c.mode = "writing" /\ c.view.events = db.events /\ ~c.stale
            /\ \A q \in Process \ {w} : conn[q].mode # "writing"
        BY <1>4, FreshView DEF SafeInv, TypeInv
      <4>2. conn' = [conn EXCEPT ![w] = c]
        BY <1>4, <3>2 DEF Raise
      <4> HIDE DEF c
      <4>3. QED
        BY <2>1, <4>1, <4>2, ConnUpdateSound DEF SafeInv, TypeInv
    <3>3. QED
      BY <3>1, <3>2
  <2>3. QED
    BY <2>1, <2>2, DoneKeeps
<1>5. QED
  BY <1>1, <1>2, <1>3, <1>4 DEF Append

LEMMA FoldStepKeeps ==
  ASSUME SafeInv, NEW p \in Process, FoldStep(p)
  PROVE  Keeps
<1>1. ASSUME NEW l, NEW t, l # "append", Storing(p), t.posted = task[p].posted,
             Goto(p, l, t), Select(p), UNCHANGED <<acked, duplicates>>
      PROVE  Keeps
  <2>1. WalSound' /\ db'.events = db.events
    BY <1>1, SelectSound DEF SafeInv, TypeInv, Select
  <2>2. QED
    BY <1>1, <2>1, GoOnKeeps
<1>2. ASSUME SelectRequests(p) PROVE Keeps
  <2> DEFINE R == RequestsOf(View(p).events, Key(p))
             t == [task[p] EXCEPT !.reqs = R, !.todo = ConflictLeaders(R)]
  <2>1. CASE Foldable(R)
    <3>1. Goto(p, "conflicts", t) /\ Select(p) /\ UNCHANGED <<acked, duplicates>>
      BY <1>2, <2>1 DEF SelectRequests
    <3>2. Storing(p) /\ t.posted = task[p].posted
      BY <1>2, LocalsFacts DEF SafeInv, TypeInv, SelectRequests, Storing
    <3> HIDE DEF t
    <3>3. QED
      BY <1>1, <3>1, <3>2
  <2>2. CASE ~Foldable(R)
    <3>1. Raise(p, AfterSelect(p))
      BY <1>2, <2>2 DEF SelectRequests
    <3>2. WalSound'
      <4>1. CASE p \in Replayer
        BY <3>1, <4>1, ClosedSound DEF SafeInv, TypeInv, Raise
      <4>2. CASE p \notin Replayer
        BY <3>1, <4>2, SelectSound DEF SafeInv, TypeInv, Raise
      <4>3. QED
        BY <4>1, <4>2
    <3>3. QED
      BY <3>1, <3>2, DoneKeeps DEF Raise
  <2>3. QED
    BY <2>1, <2>2
<1>3. ASSUME WriteAudit(p) PROVE Keeps
  <2>1. CASE Refused(p)
    BY <2>1, RefusedKeeps
  <2>2. ASSUME NEW x \in NextRecorded(p),
               Publish(p, [View(p) EXCEPT
                             !.audit = @ (+) SetToBag({EntryFor(x, task[p].reqs)})]),
               Goto(p, pc[p], [task[p] EXCEPT !.todo = @ \ {x}]),
               UNCHANGED <<acked, duplicates>>
        PROVE  Keeps
    <3> DEFINE t == [task[p] EXCEPT !.todo = @ \ {x}]
               d == [View(p) EXCEPT
                       !.audit = @ (+) SetToBag({EntryFor(x, task[p].reqs)})]
    <3>1. d.events = View(p).events
      BY ViewType DEF SafeInv, TypeInv, IsDatabase
    <3>2. Storing(p) /\ t.posted = task[p].posted /\ pc[p] # "append"
      BY <1>3, LocalsFacts DEF SafeInv, TypeInv, WriteAudit, Storing
    <3>3. Publish(p, d) /\ Goto(p, pc[p], t)
      BY <2>2
    <3> HIDE DEF d, t
    <3>4. WalSound' /\ db'.events = db.events
      BY <3>1, <3>3, PublishKeepsLog DEF SafeInv
    <3>5. QED
      BY <2>2, <3>2, <3>3, <3>4, GoOnKeeps
  <2>3. QED
    BY <1>3, <2>1, <2>2 DEF WriteAudit
<1>4. ASSUME SelectReleases(p) PROVE Keeps
  <2> DEFINE rels == ReleasesOf(View(p).events, Key(p))
             t == [task[p] EXCEPT !.rels = rels,
                                  !.todo = Orphans(rels, Accepted(task[p].reqs))]
  <2>1. Goto(p, "orphans", t) /\ Select(p) /\ UNCHANGED <<acked, duplicates>>
    BY <1>4 DEF SelectReleases
  <2>2. Storing(p) /\ t.posted = task[p].posted
    BY <1>4, LocalsFacts DEF SafeInv, TypeInv, SelectReleases, Storing
  <2> HIDE DEF t
  <2>3. QED
    BY <1>1, <2>1, <2>2
<1>5. ASSUME SelectAll(p) PROVE Keeps
  <2> DEFINE all == EventsOf(View(p).events, Key(p))
             t == [task[p] EXCEPT !.row = FoldRow(task[p].reqs, task[p].rels, all)]
  <2>1. Goto(p, "upsert", t) /\ Select(p) /\ UNCHANGED <<acked, duplicates>>
    BY <1>5 DEF SelectAll
  <2>2. Storing(p) /\ t.posted = task[p].posted
    BY <1>5, LocalsFacts DEF SafeInv, TypeInv, SelectAll, Storing
  <2> HIDE DEF t
  <2>3. QED
    BY <1>1, <2>1, <2>2
<1>6. QED
  BY <1>2, <1>3, <1>4, <1>5 DEF FoldStep

\* The answer 200.
LEMMA UpsertPostedKeeps ==
  ASSUME SafeInv, NEW w \in Worker, UpsertPosted(w)
  PROVE  Keeps
<1>1. w \in Process
  BY DEF Worker
<1>2. CASE Refused(w)
  BY <1>1, <1>2, RefusedKeeps
<1>3. CASE ~Refused(w)
  <2>1. /\ Publish(w, Upserted(w)) /\ Done(w)
        /\ acked' = acked \cup task[w].posted /\ UNCHANGED duplicates
    BY <1>3 DEF UpsertPosted
  <2>2. Upserted(w).events = View(w).events
    BY <1>1, ViewType DEF SafeInv, TypeInv, IsDatabase, Upserted
  <2>3. WalSound' /\ db'.events = db.events
    BY <1>1, <2>1, <2>2, PublishKeepsLog DEF SafeInv
  <2>4. \A q \in Process : /\ pc'[q] = IF q = w THEN "idle" ELSE pc[q]
                           /\ task'[q] = IF q = w THEN NoTask ELSE task[q]
    BY <1>1, <2>1, GotoFacts DEF SafeInv, TypeInv, Done
  <2>5. Storing(w) /\ task[w].posted \subseteq db.events
    BY <1>1 DEF SafeInv, LogInv, PostedStored, UpsertPosted, Storing
  <2>6. UniqueIds' /\ AnswersDurable'
    BY <2>1, <2>3, <2>5 DEF SafeInv, LogInv, UniqueIds, AnswersDurable
  <2>7. PostedStored'
    BY <2>3, <2>4 DEF SafeInv, LogInv, PostedStored, Storing
  <2>8. Ids(acked') = Ids(acked) \cup Ids(task[w].posted)
    BY <2>1 DEF Ids
  <2>9. \A v \in Worker : Storing(v)' =>
          v # w /\ Storing(v) /\ task'[v] = task[v]
    BY <2>4 DEF Storing, Worker
  <2>10. AppliedOnce'
    <3>1. ASSUME NEW v \in Worker, Storing(v)'
          PROVE  Ids(task'[v].posted) \cap Ids(acked') = {}
      BY <2>5, <2>8, <2>9, <3>1 DEF SafeInv, LogInv, AppliedOnce, Storing
    <3>2. ASSUME NEW v \in Worker, NEW u \in Worker \ {v}, Storing(v)', Storing(u)'
          PROVE  Ids(task'[v].posted) \cap Ids(task'[u].posted) = {}
      BY <2>9, <3>2 DEF SafeInv, LogInv, AppliedOnce, Storing
    <3>3. QED
      BY <3>1, <3>2 DEF AppliedOnce, Storing
  <2>11. QED
    BY <2>3, <2>6, <2>7, <2>10 DEF LogInv, Keeps
<1>4. QED
  BY <1>2, <1>3

\* A rebuild has no event of its own; the places of a rebuild that are not
\* those of a fold are reached without one.
LEMMA RebuildStepKeeps ==
  ASSUME SafeInv, NEW p \in Process, RebuildStep(p)
  PROVE  Keeps
<1>1. ASSUME NEW d, NEW l, d.events = View(p).events, Publish(p, d),
             l # "append", Storing(p), Goto(p, l, task[p]),
             UNCHANGED <<acked, duplicates>>
      PROVE  Keeps
  <2>1. WalSound' /\ db'.events = db.events
    BY <1>1, PublishKeepsLog DEF SafeInv
  <2>2. QED
    BY <1>1, <2>1, GoOnKeeps
<1>2. ASSUME DropSnapshot(p) PROVE Keeps
  <2>1. [View(p) EXCEPT !.snapshot = EmptySnapshot].events = View(p).events
    BY ViewType DEF SafeInv, TypeInv, IsDatabase
  <2>2. Storing(p)
    BY <1>2 DEF DropSnapshot, Storing
  <2>3. QED
    BY <1>1, <1>2, <2>1, <2>2, RefusedKeeps DEF DropSnapshot
<1>3. ASSUME DropAudit(p) PROVE Keeps
  <2>1. [View(p) EXCEPT !.audit = EmptyBag].events = View(p).events
    BY ViewType DEF SafeInv, TypeInv, IsDatabase
  <2>2. Storing(p)
    BY <1>3 DEF DropAudit, Storing
  <2> DEFINE l == IF task[p].keys = {} THEN "commit" ELSE "requests"
  <2>3. l # "append"
    OBVIOUS
  <2>4. \/ /\ Publish(p, [View(p) EXCEPT !.audit = EmptyBag])
           /\ Goto(p, l, task[p])
           /\ UNCHANGED <<acked, duplicates>>
        \/ Refused(p)
    BY <1>3 DEF DropAudit
  <2> HIDE DEF l
  <2>5. QED
    BY <1>1, <2>1, <2>2, <2>3, <2>4, RefusedKeeps
<1>4. ASSUME UpsertRebuilt(p) PROVE Keeps
  <2>1. CASE Refused(p)
    BY <2>1, RefusedKeeps
  <2>2. CASE ~Refused(p)
    <3> DEFINE rest == task[p].keys \ {Key(p)}
               l == IF rest = {} THEN "commit" ELSE "requests"
               t == [NoTask EXCEPT !.keys = rest]
    <3>1. /\ Write(p, Upserted(p)) /\ Goto(p, l, t)
          /\ UNCHANGED <<acked, duplicates>>
      BY <1>4, <2>2 DEF UpsertRebuilt
    <3>2. Upserted(p).events = View(p).events
      BY ViewType DEF SafeInv, TypeInv, IsDatabase, Upserted
    <3>3. WalSound' /\ db'.events = db.events
      BY <3>1, <3>2, WriteSound DEF SafeInv, TypeInv, Write
    <3>4. l # "append" /\ t.posted = {}
      BY DEF NoTask
    <3> HIDE DEF l, t
    <3>5. QED
      BY <3>1, <3>3, <3>4, GoOnKeeps
  <2>3. QED
    BY <2>1, <2>2
<1>5. ASSUME FinishRebuild(p) PROVE Keeps
  <2>1. WalSound'
    BY <1>5, CommitSound DEF SafeInv, TypeInv, FinishRebuild
  <2>2. db'.events = db.events
    BY <1>5 DEF SafeInv, WalSound, FinishRebuild, Commit, Publish
  <2>3. QED
    BY <1>5, <2>1, <2>2, DoneKeeps DEF FinishRebuild
<1>6. QED
  BY <1>2, <1>3, <1>4, <1>5 DEF RebuildStep

LEMMA StartRebuildKeeps ==
  ASSUME SafeInv, NEW p \in Process, StartRebuild(p)
  PROVE  Keeps
<1> DEFINE t == [NoTask EXCEPT !.keys = {e.bucket : e \in View(p).events}]
<1>1. Goto(p, "dropSnapshot", t) /\ Select(p) /\ UNCHANGED <<acked, duplicates>>
  BY DEF StartRebuild
<1>2. t.posted = {}
  BY DEF NoTask
<1> HIDE DEF t
<1>3. WalSound' /\ db'.events = db.events
  BY <1>1, SelectSound DEF SafeInv, TypeInv, Select
<1>4. QED
  BY <1>1, <1>2, <1>3, GoOnKeeps

LEMMA CrashKeeps ==
  ASSUME SafeInv, NEW p \in Process, Crash(p)
  PROVE  Keeps
<1>1. WalSound'
  BY ClosedSound DEF SafeInv, TypeInv, Crash
<1>2. QED
  BY <1>1, DoneKeeps DEF Crash

LEMMA IdleKeeps ==
  ASSUME SafeInv, UNCHANGED <<db, pc, task, acked, duplicates>>, WalSound'
  PROVE  Keeps
  BY DEF SafeInv, LogInv, UniqueIds, AnswersDurable, PostedStored, AppliedOnce,
         Storing, Keeps

LEMMA NextKeeps == SafeInv /\ [Next]_vars => Keeps
<1> SUFFICES ASSUME SafeInv, [Next]_vars PROVE Keeps
  OBVIOUS
<1>1. ASSUME NEW w \in Worker, Receive(w) PROVE Keeps
  BY <1>1, ReceiveKeeps
<1>2. ASSUME NEW w \in Worker, Read(w) PROVE Keeps
  <2>1. w \in Process
    BY DEF Worker
  <2>2. WalSound'
    BY <1>2, <2>1, SelectSound DEF SafeInv, TypeInv, Read, Select
  <2>3. QED
    BY <1>2, <2>2, IdleKeeps DEF Read, Select
<1>3. ASSUME NEW p \in Process, StartRebuild(p) PROVE Keeps
  BY <1>3, StartRebuildKeeps
<1>4. ASSUME NEW p \in Process, Continue(p) PROVE Keeps
  BY <1>4, FoldStepKeeps, RebuildStepKeeps, AppendKeeps, UpsertPostedKeeps
     DEF Continue, PostStep
<1>5. ASSUME NEW p \in Process, Crash(p) PROVE Keeps
  BY <1>5, CrashKeeps
<1>6. CASE UNCHANGED vars
  <2>1. WalSound'
    BY <1>6 DEF SafeInv, WalSound, vars
  <2>2. QED
    BY <1>6, <2>1, IdleKeeps DEF vars
<1>7. QED
  BY <1>1, <1>2, <1>3, <1>4, <1>5, <1>6 DEF Next

LEMMA InitSafe == Init => SafeInv
<1> SUFFICES ASSUME Init PROVE SafeInv
  OBVIOUS
<1>1. WalSound
  BY DEF Init, WalInit, WalSound, Closed, Blank
<1>2. UniqueIds /\ AnswersDurable
  BY DEF Init, WalInit, Blank, UniqueIds, AnswersDurable, Ids
<1>3. PostedStored /\ AppliedOnce
  BY DEF Init, PostedStored, AppliedOnce, Storing, Worker
<1>4. QED
  BY <1>1, <1>2, <1>3, InitType DEF SafeInv, LogInv

LEMMA SafeInvariant == Spec => []SafeInv
<1>1. SafeInv /\ [Next]_vars => SafeInv'
  BY NextType, NextKeeps DEF SafeInv, Keeps
<1>2. QED
  BY InitSafe, <1>1, PTL DEF Spec

-----------------------------------------------------------------------------
\* There is never more than one open write transaction, and a connection whose
\* view may still become a commit shows every committed event: this is why a
\* commit of one process cannot undo the append of another.
THEOREM TransactionsSound == Spec => []WalSound
<1>1. SafeInv => WalSound
  BY DEF SafeInv
<1>2. QED
  BY SafeInvariant, <1>1, PTL

\* No two stored events share an event_id, however many workers pass the dedup
\* check with it at once.
THEOREM IdsUnique == Spec => []UniqueIds
<1>1. SafeInv => UniqueIds
  BY DEF SafeInv, LogInv
<1>2. QED
  BY SafeInvariant, <1>1, PTL

\* An event answered 200 stays in the log and an event answered 409 has its id
\* there, through every crash, rebuild and refused write.
THEOREM AnswersHold == Spec => []AnswersDurable
<1>1. SafeInv => AnswersDurable
  BY DEF SafeInv, LogInv
<1>2. QED
  BY SafeInvariant, <1>1, PTL

\* An event_id is answered 200 at most once: no two requests with the same id
\* are past the INSERT, and none is once its id was answered.
THEOREM OneAnswerPerId == Spec => []AppliedOnce
<1>1. SafeInv => AppliedOnce
  BY DEF SafeInv, LogInv
<1>2. QED
  BY SafeInvariant, <1>1, PTL

\* No step removes or replaces a stored event.
THEOREM LogOnlyGrows == Spec => LogAppendOnly
<1>1. SafeInv /\ [Next]_vars => [db.events \subseteq db'.events]_vars
  BY NextKeeps DEF Keeps
<1>2. QED
  BY SafeInvariant, <1>1, PTL DEF Spec, LogAppendOnly

-----------------------------------------------------------------------------
(***************************************************************************)
(* Rule 4 at the table of rows, for any processes.  A fold reads its       *)
(* requests, its releases and its version in three queries, and with       *)
(* several processes the row it writes may be the fold of no log at all.   *)
(* It is within the capacity all the same: the amount rests on the first   *)
(* query alone, which saw distinct requests of one bucket, and releases    *)
(* only take away from it.  What remains to show is that the fold upserts  *)
(* the row under the key that it read the requests for.                    *)
(***************************************************************************)

Within(d) == \A b \in Bucket : d.snapshot[b].allocated <= Capacity[b]

\* The locals of a fold whose requests were read.
FoldWithin(l, t) ==
  /\ l \in {"conflicts", "orphans", "upsert"} =>
       /\ Distinct(t.reqs)
       /\ \A e \in t.reqs : e.bucket = FirstKey(t.keys)
  /\ l = "upsert" => t.row.allocated <= Capacity[FirstKey(t.keys)]

\* No commit, no view and no row on its way to the table exceeds a capacity.
TablesWithin == Within(db) /\ \A p \in Process : Within(conn[p].view)

FoldsWithin == \A p \in Process : FoldWithin(pc[p], task[p])

CapacityInv == TablesWithin /\ FoldsWithin

-----------------------------------------------------------------------------
(* The statements of the database.                                         *)

LEMMA BlankWithin == Within(Blank)
  BY CapacityAssumption DEF Within, Blank, EmptySnapshot, NoRow

LEMMA ViewWithin ==
  ASSUME TablesWithin, NEW p \in Process
  PROVE  Within(View(p))
  BY DEF TablesWithin, View

LEMMA ConnUpdateWithin ==
  ASSUME WalTypeOK, TablesWithin, NEW p \in Process, NEW c, Within(c.view),
         db' = db, conn' = [conn EXCEPT ![p] = c]
  PROVE  TablesWithin'
<1>1. \A q \in Process : conn'[q] = IF q = p THEN c ELSE conn[q]
  BY DEF WalTypeOK
<1>2. Within(db')
  BY DEF TablesWithin
<1>3. \A q \in Process : Within(conn'[q].view)
  BY <1>1 DEF TablesWithin
<1>4. QED
  BY <1>2, <1>3 DEF TablesWithin, Within

LEMMA ClosedWithin ==
  ASSUME WalTypeOK, TablesWithin, NEW p \in Process,
         db' = db, conn' = [conn EXCEPT ![p] = Closed]
  PROVE  TablesWithin'
<1>1. Within(Closed.view)
  BY BlankWithin DEF Closed
<1>2. QED
  BY <1>1, ConnUpdateWithin

LEMMA SelectWithin ==
  ASSUME WalTypeOK, TablesWithin, NEW p \in Process,
         db' = db, conn' = [conn EXCEPT ![p] = AfterSelect(p)]
  PROVE  TablesWithin'
<1>1. Within(AfterSelect(p).view)
  BY DEF TablesWithin, AfterSelect, Frozen
<1>2. QED
  BY <1>1, ConnUpdateWithin

LEMMA PublishWithin ==
  ASSUME WalTypeOK, TablesWithin, NEW p \in Process, NEW d, Within(d), Publish(p, d)
  PROVE  TablesWithin'
<1>1. PICK touched \in BOOLEAN :
        conn' = [q \in Process |->
                   IF q = p THEN Closed ELSE Outdated(conn[q], touched)]
  BY DEF Publish
<1>2. ASSUME NEW q \in Process PROVE Within(conn'[q].view)
  <2>1. CASE q = p
    BY <1>1, <2>1, BlankWithin DEF Closed
  <2>2. CASE q # p
    <3>1. IsConnection(conn[q]) /\ conn'[q] = Outdated(conn[q], touched)
      BY <1>1, <2>2 DEF WalTypeOK
    <3>2. QED
      BY <3>1, OutdatedType DEF TablesWithin
  <2>3. QED
    BY <2>1, <2>2
<1>3. Within(db')
  BY DEF Publish
<1>4. QED
  BY <1>2, <1>3 DEF TablesWithin, Within

\* The changes that the statements make to a database.
LEMMA UpdateWithin ==
  ASSUME NEW d, IsDatabase(d), Within(d)
  PROVE  /\ \A S : Within([d EXCEPT !.events = S])
         /\ \A B : Within([d EXCEPT !.audit = B])
         /\ Within([d EXCEPT !.snapshot = EmptySnapshot])
         /\ \A b \in Bucket, r \in Row :
              r.allocated <= Capacity[b] => Within([d EXCEPT !.snapshot[b] = r])
<1>1. /\ d = [events |-> d.events, snapshot |-> d.snapshot, audit |-> d.audit]
      /\ d.snapshot \in [Bucket -> Row]
  BY DEF IsDatabase
<1>2. \A S : [d EXCEPT !.events = S].snapshot = d.snapshot
  BY <1>1
<1>3. \A B : [d EXCEPT !.audit = B].snapshot = d.snapshot
  BY <1>1
<1>4. [d EXCEPT !.snapshot = EmptySnapshot].snapshot = Blank.snapshot
  BY <1>1 DEF Blank
<1>5. ASSUME NEW b \in Bucket, NEW r \in Row, r.allocated <= Capacity[b]
      PROVE  Within([d EXCEPT !.snapshot[b] = r])
  <2>1. [d EXCEPT !.snapshot[b] = r].snapshot = [d.snapshot EXCEPT ![b] = r]
    BY <1>1
  <2>2. \A c \in Bucket : [d.snapshot EXCEPT ![b] = r][c]
                            = IF c = b THEN r ELSE d.snapshot[c]
    BY <1>1
  <2>3. QED
    BY <1>5, <2>1, <2>2 DEF Within
<1>6. QED
  BY <1>2, <1>3, <1>4, <1>5, BlankWithin DEF Within

-----------------------------------------------------------------------------
(* The locals of the folds.                                                *)

LEMMA GotoWithin ==
  ASSUME ControlOK, FoldsWithin, NEW p \in Process, NEW l, NEW t,
         Goto(p, l, t), FoldWithin(l, t)
  PROVE  FoldsWithin'
<1>1. \A q \in Process : FoldWithin(pc'[q], task'[q])
  BY GotoFacts DEF FoldsWithin
<1>2. QED
  BY <1>1 DEF FoldsWithin, FoldWithin, Distinct

LEMMA DoneWithin ==
  ASSUME ControlOK, FoldsWithin, NEW p \in Process, Done(p)
  PROVE  FoldsWithin'
<1>1. FoldWithin("idle", NoTask)
  BY DEF FoldWithin
<1>2. QED
  BY <1>1, GotoWithin DEF Done

LEMMA SameTaskWithin ==
  ASSUME FoldsWithin, UNCHANGED <<pc, task>>
  PROVE  FoldsWithin'
  BY DEF FoldsWithin, FoldWithin, Distinct

LEMMA RaiseWithin ==
  ASSUME TypeInv, CapacityInv, NEW p \in Process, NEW c, Within(c.view), Raise(p, c)
  PROVE  CapacityInv'
<1>1. TablesWithin'
  <2>1. CASE p \in Replayer
    BY <2>1, ClosedWithin DEF TypeInv, CapacityInv, Raise
  <2>2. CASE p \notin Replayer
    BY <2>2, ConnUpdateWithin DEF TypeInv, CapacityInv, Raise
  <2>3. QED
    BY <2>1, <2>2
<1>2. FoldsWithin'
  BY DoneWithin DEF TypeInv, CapacityInv, Raise
<1>3. QED
  BY <1>1, <1>2 DEF CapacityInv

LEMMA RefusedWithin ==
  ASSUME TypeInv, CapacityInv, NEW p \in Process, Refused(p)
  PROVE  CapacityInv'
<1>1. Within(AfterRefusal(p).view)
  BY BlankWithin DEF AfterRefusal, Begun, CapacityInv, TablesWithin
<1>2. QED
  BY <1>1, RaiseWithin DEF Refused

\* A step that commits d and goes on with the fold.
LEMMA PublishGotoWithin ==
  ASSUME TypeInv, CapacityInv, NEW p \in Process, NEW d, Within(d), Publish(p, d),
         NEW l, NEW t, Goto(p, l, t), FoldWithin(l, t)
  PROVE  CapacityInv'
  BY PublishWithin, GotoWithin DEF TypeInv, CapacityInv

LEMMA SelectGotoWithin ==
  ASSUME TypeInv, CapacityInv, NEW p \in Process, Select(p),
         NEW l, NEW t, Goto(p, l, t), FoldWithin(l, t)
  PROVE  CapacityInv'
  BY SelectWithin, GotoWithin DEF TypeInv, CapacityInv, Select

-----------------------------------------------------------------------------
(* One lemma for each handler step.                                        *)

LEMMA ReceiveWithin ==
  ASSUME TypeInv, CapacityInv, NEW w \in Worker, Receive(w)
  PROVE  CapacityInv'
<1>1. w \in Process
  BY DEF Worker
<1>2. CASE UNCHANGED <<pc, task>>
  BY <1>1, <1>2, SelectWithin, SameTaskWithin DEF Receive, Select, TypeInv, CapacityInv
<1>3. ASSUME NEW t, Goto(w, "append", t) PROVE CapacityInv'
  <2>1. FoldWithin("append", t)
    BY DEF FoldWithin
  <2>2. QED
    BY <1>1, <1>3, <2>1, SelectGotoWithin DEF Receive
<1>4. QED
  BY <1>2, <1>3 DEF Receive

LEMMA AppendWithin ==
  ASSUME TypeInv, CapacityInv, NEW w \in Process, Append(w)
  PROVE  CapacityInv'
<1>1. Within(View(w)) /\ IsDatabase(View(w))
  BY ViewWithin, ViewType DEF TypeInv, CapacityInv
<1>2. ASSUME NEW e, Publish(w, [View(w) EXCEPT !.events = @ \cup {e}]),
             Goto(w, "requests", task[w])
      PROVE  CapacityInv'
  <2>1. Within([View(w) EXCEPT !.events = @ \cup {e}])
    BY <1>1, UpdateWithin
  <2>2. FoldWithin("requests", task[w])
    BY DEF FoldWithin
  <2>3. QED
    BY <1>2, <2>1, <2>2, PublishGotoWithin
<1>3. ASSUME Raise(w, [mode |-> "writing", view |-> View(w), stale |-> FALSE])
      PROVE  CapacityInv'
  BY <1>1, <1>3, RaiseWithin
<1>4. QED
  BY <1>2, <1>3, RefusedWithin DEF Append

LEMMA SelectRequestsWithin ==
  ASSUME SafeInv, CapacityInv, NEW p \in Process, SelectRequests(p)
  PROVE  CapacityInv'
<1> DEFINE R == RequestsOf(View(p).events, Key(p))
           t == [task[p] EXCEPT !.reqs = R, !.todo = ConflictLeaders(R)]
<1>1. CASE ~Foldable(R)
  <2>1. Within(AfterSelect(p).view)
    BY DEF CapacityInv, TablesWithin, AfterSelect, Frozen
  <2>2. QED
    BY <1>1, <2>1, RaiseWithin DEF SelectRequests, SafeInv
<1>2. CASE Foldable(R)
  <2>1. Goto(p, "conflicts", t) /\ Select(p)
    BY <1>2 DEF SelectRequests
  <2>2. t.reqs = R /\ t.keys = task[p].keys
    BY DEF SafeInv, TypeInv, ControlOK, Task
  <2>3. Distinct(R) /\ \A e \in R : e.bucket = FirstKey(task[p].keys)
    <3>1. View(p).events \subseteq db.events
      BY ViewIsCommitted DEF SafeInv, TypeInv
    <3>2. Distinct(R)
      BY <3>1 DEF SafeInv, LogInv, UniqueIds, Distinct, RequestsOf, EventsOf
    <3>3. QED
      BY <3>2 DEF RequestsOf, EventsOf, Key, FirstKey
  <2>4. FoldWithin("conflicts", t)
    BY <2>2, <2>3 DEF FoldWithin
  <2> HIDE DEF t
  <2>5. QED
    BY <2>1, <2>4, SelectGotoWithin DEF SafeInv
<1>3. QED
  BY <1>1, <1>2

LEMMA WriteAuditWithin ==
  ASSUME TypeInv, CapacityInv, NEW p \in Process, WriteAudit(p)
  PROVE  CapacityInv'
<1>1. Within(View(p)) /\ IsDatabase(View(p))
  BY ViewWithin, ViewType DEF TypeInv, CapacityInv
<1>2. ASSUME NEW x,
             Publish(p, [View(p) EXCEPT
                           !.audit = @ (+) SetToBag({EntryFor(x, task[p].reqs)})]),
             Goto(p, pc[p], [task[p] EXCEPT !.todo = @ \ {x}])
      PROVE  CapacityInv'
  <2> DEFINE t == [task[p] EXCEPT !.todo = @ \ {x}]
             d == [View(p) EXCEPT
                     !.audit = @ (+) SetToBag({EntryFor(x, task[p].reqs)})]
  <2>1. Within(d)
    BY <1>1, UpdateWithin
  <2>2. t.reqs = task[p].reqs /\ t.keys = task[p].keys
    BY DEF TypeInv, ControlOK, Task
  <2>3. FoldWithin(pc[p], t)
    BY <2>2 DEF CapacityInv, FoldsWithin, FoldWithin, WriteAudit
  <2>4. Publish(p, d) /\ Goto(p, pc[p], t)
    BY <1>2
  <2> HIDE DEF t, d
  <2>5. QED
    BY <2>1, <2>3, <2>4, PublishGotoWithin
<1>3. QED
  BY <1>2, RefusedWithin DEF WriteAudit

LEMMA SelectReleasesWithin ==
  ASSUME TypeInv, CapacityInv, NEW p \in Process, SelectReleases(p)
  PROVE  CapacityInv'
<1> DEFINE rels == ReleasesOf(View(p).events, Key(p))
           t == [task[p] EXCEPT !.rels = rels,
                                !.todo = Orphans(rels, Accepted(task[p].reqs))]
<1>1. Goto(p, "orphans", t) /\ Select(p)
  BY DEF SelectReleases
<1>2. t.reqs = task[p].reqs /\ t.keys = task[p].keys
  BY DEF TypeInv, ControlOK, Task
<1>3. FoldWithin("orphans", t)
  BY <1>2 DEF CapacityInv, FoldsWithin, FoldWithin, SelectReleases
<1> HIDE DEF t
<1>4. QED
  BY <1>1, <1>3, SelectGotoWithin

LEMMA SelectAllWithin ==
  ASSUME TypeInv, CapacityInv, NEW p \in Process, SelectAll(p)
  PROVE  CapacityInv'
<1> DEFINE row == FoldRow(task[p].reqs, task[p].rels, EventsOf(View(p).events, Key(p)))
           t == [task[p] EXCEPT !.row = row]
<1>1. Goto(p, "upsert", t) /\ Select(p)
  BY DEF SelectAll
<1>2. /\ task[p] \in Task /\ IsFiniteSet(task[p].reqs) /\ IsFiniteSet(task[p].rels)
      /\ pc[p] = "orphans"
  BY DEF TypeInv, ControlOK, TaskOK, SelectAll
<1>3. t.reqs = task[p].reqs /\ t.keys = task[p].keys /\ t.row = row
  BY <1>2 DEF Task
<1>4. /\ Distinct(task[p].reqs) /\ \A e \in task[p].reqs : e.bucket = FirstKey(task[p].keys)
      /\ FirstKey(task[p].keys) \in Bucket
  <2>1. Key(p) = FirstKey(task[p].keys)
    BY DEF Key, FirstKey
  <2>2. QED
    BY <1>2, <2>1, KeyType DEF CapacityInv, FoldsWithin, FoldWithin, TypeInv, Folding
<1>5. row.allocated <= Capacity[FirstKey(task[p].keys)]
  <2>1. task[p].reqs \in SUBSET Event /\ task[p].rels \in SUBSET Event
    BY <1>2 DEF Task
  <2>2. QED
    BY <1>2, <1>4, <2>1, RowWithinCapacity
<1> HIDE DEF row, t
<1>6. FoldWithin("upsert", t)
  BY <1>3, <1>4, <1>5 DEF FoldWithin
<1>7. QED
  BY <1>1, <1>6, SelectGotoWithin

LEMMA UpsertedWithin ==
  ASSUME TypeInv, CapacityInv, NEW p \in Process, pc[p] = "upsert"
  PROVE  Within(Upserted(p))
<1>1. Within(View(p)) /\ IsDatabase(View(p))
  BY ViewWithin, ViewType DEF TypeInv, CapacityInv
<1>2. Key(p) \in Bucket /\ Key(p) = FirstKey(task[p].keys)
  BY KeyType DEF TypeInv, Folding, Key, FirstKey
<1>3. task[p].row \in Row /\ task[p].row.allocated <= Capacity[Key(p)]
  BY <1>2 DEF TypeInv, ControlOK, Task, CapacityInv, FoldsWithin, FoldWithin
<1>4. QED
  BY <1>1, <1>2, <1>3, UpdateWithin DEF Upserted

LEMMA UpsertWithin ==
  ASSUME TypeInv, CapacityInv, NEW p \in Process, UpsertPosted(p) \/ UpsertRebuilt(p)
  PROVE  CapacityInv'
<1>1. Within(Upserted(p))
  BY UpsertedWithin DEF UpsertPosted, UpsertRebuilt
<1>2. ASSUME Publish(p, Upserted(p)), Done(p) PROVE CapacityInv'
  BY <1>1, <1>2, PublishWithin, DoneWithin DEF TypeInv, CapacityInv
<1>3. ASSUME NEW K, Write(p, Upserted(p)),
             Goto(p, IF K = {} THEN "commit" ELSE "requests", [NoTask EXCEPT !.keys = K])
      PROVE  CapacityInv'
  <2> DEFINE l == IF K = {} THEN "commit" ELSE "requests"
  <2>1. FoldWithin(l, [NoTask EXCEPT !.keys = K])
    BY DEF FoldWithin
  <2>2. FoldsWithin'
    <3> HIDE DEF l
    <3>1. Goto(p, l, [NoTask EXCEPT !.keys = K])
      BY <1>3 DEF l
    <3>2. QED
      BY <2>1, <3>1, GotoWithin DEF TypeInv, CapacityInv
  <2>3. TablesWithin'
    <3> DEFINE c == [mode |-> "writing", view |-> Upserted(p), stale |-> FALSE]
    <3>1. Within(c.view) /\ db' = db /\ conn' = [conn EXCEPT ![p] = c]
      BY <1>1, <1>3 DEF Write
    <3> HIDE DEF c
    <3>2. QED
      BY <3>1, ConnUpdateWithin DEF TypeInv, CapacityInv
  <2>4. QED
    BY <2>2, <2>3 DEF CapacityInv
<1>4. QED
  BY <1>2, <1>3, RefusedWithin DEF UpsertPosted, UpsertRebuilt

LEMMA RebuildWithin ==
  ASSUME TypeInv, CapacityInv, NEW p \in Process,
         StartRebuild(p) \/ DropSnapshot(p) \/ DropAudit(p) \/ FinishRebuild(p)
  PROVE  CapacityInv'
<1>1. Within(View(p)) /\ IsDatabase(View(p))
  BY ViewWithin, ViewType DEF TypeInv, CapacityInv
<1>2. ASSUME StartRebuild(p) PROVE CapacityInv'
  <2> DEFINE t == [NoTask EXCEPT !.keys = {e.bucket : e \in View(p).events}]
  <2>1. Goto(p, "dropSnapshot", t) /\ Select(p) /\ FoldWithin("dropSnapshot", t)
    BY <1>2 DEF StartRebuild, FoldWithin
  <2> HIDE DEF t
  <2>2. QED
    BY <2>1, SelectGotoWithin
<1>3. ASSUME DropSnapshot(p) PROVE CapacityInv'
  <2>1. FoldWithin("dropAudit", task[p])
    BY DEF FoldWithin
  <2>2. Within([View(p) EXCEPT !.snapshot = EmptySnapshot])
    BY <1>1, UpdateWithin
  <2>3. QED
    BY <1>3, <2>1, <2>2, PublishGotoWithin, RefusedWithin DEF DropSnapshot
<1>4. ASSUME DropAudit(p) PROVE CapacityInv'
  <2> DEFINE l == IF task[p].keys = {} THEN "commit" ELSE "requests"
  <2>1. FoldWithin(l, task[p])
    BY DEF FoldWithin
  <2>2. Within([View(p) EXCEPT !.audit = EmptyBag])
    BY <1>1, UpdateWithin
  <2>3. \/ Publish(p, [View(p) EXCEPT !.audit = EmptyBag]) /\ Goto(p, l, task[p])
        \/ Refused(p)
    BY <1>4 DEF DropAudit
  <2> HIDE DEF l
  <2>4. QED
    BY <2>1, <2>2, <2>3, PublishGotoWithin, RefusedWithin
<1>5. ASSUME FinishRebuild(p) PROVE CapacityInv'
  <2>1. TablesWithin'
    <3>1. CASE conn[p].mode = "writing"
      <4>1. Publish(p, conn[p].view) /\ Within(conn[p].view)
        BY <1>5, <3>1 DEF FinishRebuild, Commit, CapacityInv, TablesWithin
      <4>2. QED
        BY <4>1, PublishWithin DEF TypeInv, CapacityInv
    <3>2. CASE conn[p].mode # "writing"
      BY <1>5, <3>2, ClosedWithin DEF FinishRebuild, Commit, TypeInv, CapacityInv
    <3>3. QED
      BY <3>1, <3>2
  <2>2. FoldsWithin'
    BY <1>5, DoneWithin DEF FinishRebuild, TypeInv, CapacityInv
  <2>3. QED
    BY <2>1, <2>2 DEF CapacityInv
<1>6. QED
  BY <1>2, <1>3, <1>4, <1>5

LEMMA CapacityNext == SafeInv /\ CapacityInv /\ [Next]_vars => CapacityInv'
<1> SUFFICES ASSUME SafeInv, CapacityInv, [Next]_vars PROVE CapacityInv'
  OBVIOUS
<1>1. TypeInv
  BY DEF SafeInv
<1>2. ASSUME NEW w \in Worker, Receive(w) PROVE CapacityInv'
  BY <1>1, <1>2, ReceiveWithin
<1>3. ASSUME NEW w \in Worker, Read(w) PROVE CapacityInv'
  <2>1. w \in Process
    BY DEF Worker
  <2>2. QED
    BY <1>1, <1>3, <2>1, SelectWithin, SameTaskWithin DEF Read, Select, TypeInv, CapacityInv
<1>4. ASSUME NEW p \in Process, FoldStep(p) PROVE CapacityInv'
  BY <1>1, <1>4, SelectRequestsWithin, WriteAuditWithin, SelectReleasesWithin,
     SelectAllWithin DEF FoldStep
<1>5. ASSUME NEW p \in Process, StartRebuild(p) \/ RebuildStep(p) PROVE CapacityInv'
  BY <1>1, <1>5, RebuildWithin, UpsertWithin DEF RebuildStep
<1>6. ASSUME NEW p \in Process, PostStep(p) PROVE CapacityInv'
  BY <1>1, <1>6, AppendWithin, UpsertWithin DEF PostStep
<1>7. ASSUME NEW p \in Process, Crash(p) PROVE CapacityInv'
  BY <1>1, <1>7, ClosedWithin, DoneWithin DEF Crash, TypeInv, CapacityInv
<1>8. CASE UNCHANGED vars
  BY <1>8, SameTaskWithin DEF vars, CapacityInv, TablesWithin, Within
<1>9. QED
  BY <1>2, <1>3, <1>4, <1>5, <1>6, <1>7, <1>8 DEF Next, Continue

LEMMA CapacityInit == Init => CapacityInv
<1> SUFFICES ASSUME Init PROVE CapacityInv
  OBVIOUS
<1>1. TablesWithin
  BY BlankWithin DEF Init, WalInit, TablesWithin, Closed
<1>2. FoldsWithin
  BY DEF Init, FoldsWithin, FoldWithin
<1>3. QED
  BY <1>1, <1>2 DEF CapacityInv

-----------------------------------------------------------------------------
\* Rule 4 for any number of processes, at every moment and after any crash: no
\* row shows more than the capacity of its bucket, not even one that was folded
\* from queries that saw different logs.
THEOREM RowsNeverExceed == Spec => []RowsWithinCapacity
<1>1. CapacityInv => RowsWithinCapacity
  BY DEF CapacityInv, TablesWithin, Within, RowsWithinCapacity
<1>2. QED
  BY SafeInvariant, CapacityInit, CapacityNext, <1>1, PTL DEF Spec

=============================================================================
