---------------------------- MODULE ChaosProofs ----------------------------
(***************************************************************************)
(* The chaos lab beside any other processes: what its counters say of the  *)
(* log, and for one process what its constant answer about consistency     *)
(* says of the rows, and its count of conflicts of the audit log.          *)
(*                                                                         *)
(* A run is a handler that drives the handlers of its worker, so it is     *)
(* another way through the steps of the engine (LabSteps) and inherits     *)
(* what they keep.  What is left is to follow one event from its INSERT,   *)
(* when it is stored, to the end of its fold, when it is counted.          *)
(***************************************************************************)
EXTENDS LogProofs, WorkerProofs, ChaosLab

\* What the proofs ask of the locals of a run and of the counters.
RunShape(r) ==
  {"phase", "touched", "before", "counted"} \subseteq DOMAIN r /\ r.touched \subseteq Bucket

\* Two runs have touched and counted the same.
SameTally(r, q) ==
  r.touched = q.touched /\ r.before = q.before /\ r.counted = q.counted

StatusShape(s) == "processed" \in DOMAIN s /\ s.processed \in Nat

LabType ==
  /\ DOMAIN run = Worker /\ DOMAIN status = Worker
  /\ DOMAIN stored = Worker /\ DOMAIN failed = Worker
  /\ \A w \in Worker : RunShape(run[w]) /\ StatusShape(status[w]) /\ failed[w] \in Nat

\* A run is in the middle of one event.
OneEvent(w) ==
  Running(w) /\ pc[w] # "idle" =>
    /\ pc[w] \in {"append", "requests", "conflicts", "orphans", "upsert"}
    /\ task[w].posted # {}

\* The event under way, from its INSERT on.
UnderWay(w) == IF Running(w) /\ Storing(w) THEN 1 ELSE 0

\* Of what a process has stored it has counted all but the event under way and
\* one event of each run that failed, at most.
Counted(w) ==
  /\ stored[w] \subseteq db.events
  /\ IsFiniteSet(stored[w])
  /\ Cardinality(stored[w]) - status[w].processed - UnderWay(w) \in 0 .. failed[w]

LabInv == LabType /\ \A w \in Worker : OneEvent(w) /\ Counted(w)

-----------------------------------------------------------------------------
(* A step of the lab is a step of the engine.                              *)

LEMMA LabSteps ==
  ASSUME [LabNext]_labVars
  PROVE  [Next]_vars
<1>1. ASSUME NEW w \in Worker, StartChaos(w) \/ EndChaos(w) PROVE Next
  <2>1. Read(w)
    BY <1>1 DEF StartChaos, EndChaos, Ending, Read
  <2>2. QED
    BY <2>1 DEF Next
<1>2. ASSUME NEW w \in Worker, Generate(w) \/ Repeat(w) PROVE Next
  BY <1>2 DEF Generate, Repeat, Next
<1>3. ASSUME NEW w \in Worker, Advance(w) \/ Applied(w) \/ Fail(w) PROVE Next
  <2>1. w \in Process
    BY DEF Worker
  <2>2. QED
    BY <1>3, <2>1 DEF Advance, Applied, Fail, Next
<1>4. ASSUME NEW w \in Worker, NextPhase(w) PROVE UNCHANGED vars
  BY <1>4 DEF NextPhase
<1>5. ASSUME NEW p \in Process, CrashLab(p) PROVE Next
  BY <1>5 DEF CrashLab, Next
<1>6. CASE OtherStep
  <2>1. \A w \in Worker : w \in Process
    BY DEF Worker
  <2>2. \A r \in Replayer : r \in Process
    BY ProcessAssumption
  <2>3. QED
    BY <1>6, <2>1, <2>2 DEF OtherStep, Posted, Next
<1>7. CASE UNCHANGED labVars
  BY <1>7 DEF labVars
<1>8. QED
  BY <1>1, <1>2, <1>3, <1>4, <1>5, <1>6, <1>7 DEF LabNext, ChaosStep

\* Whatever the engine promises it keeps during runs of the chaos lab.
THEOREM LabImplementsEngine == LabSpec => Spec
<1>1. LabInit => Init
  BY DEF LabInit
<1>2. [LabNext]_labVars => [Next]_vars
  BY LabSteps
<1>3. QED
  BY <1>1, <1>2, PTL DEF LabSpec, Spec

-----------------------------------------------------------------------------
(* What each step does to the variables of the lab.                        *)

\* The step gives v the run r and the counters s, and leaves the others alone.
SameLab(w) ==
  /\ run'[w] = run[w] /\ status'[w] = status[w]
  /\ stored'[w] = stored[w] /\ failed'[w] = failed[w]

Updates(v, r, s, D, n) ==
  /\ DOMAIN run' = Worker /\ DOMAIN status' = Worker
  /\ DOMAIN stored' = Worker /\ DOMAIN failed' = Worker
  /\ run'[v] = r /\ status'[v] = s /\ stored'[v] = D /\ failed'[v] = n
  /\ \A w \in Worker \ {v} : SameLab(w)

LEMMA LabUpdateType ==
  ASSUME LabType, NEW v \in Worker, NEW r, RunShape(r), NEW s, StatusShape(s), NEW D,
         NEW n \in Nat, Updates(v, r, s, D, n)
  PROVE  LabType'
  BY DEF LabType, Updates, SameLab, RunShape, StatusShape

LEMMA NoRunShape == RunShape(NoRun)
  BY DEF RunShape, NoRun

LEMMA StartUpdates ==
  ASSUME LabType, NEW v \in Worker, StartChaos(v)
  PROVE  \E r : /\ RunShape(r) /\ r.phase = "baseline" /\ r.touched = {}
                /\ r.counted = 0 /\ r.before = CountAuditEntries(View(v).audit)
                /\ Updates(v, r, status[v], stored[v], failed[v])
<1>1. PICK load \in Load :
        run' = [run EXCEPT ![v] =
                  [NoRun EXCEPT !.phase = "baseline", !.load = load,
                                !.left = load.events,
                                !.before = CountAuditEntries(View(v).audit)]]
  BY DEF StartChaos
<1> DEFINE r == [NoRun EXCEPT !.phase = "baseline", !.load = load,
                              !.left = load.events,
                              !.before = CountAuditEntries(View(v).audit)]
<1>2. /\ RunShape(r) /\ r.phase = "baseline" /\ r.touched = {}
      /\ r.counted = 0 /\ r.before = CountAuditEntries(View(v).audit)
  BY DEF RunShape, NoRun
<1>3. Updates(v, r, status[v], stored[v], failed[v])
  BY <1>1 DEF StartChaos, LabType, Updates, SameLab
<1>4. QED
  BY <1>2, <1>3

LEMMA RepeatUpdates ==
  ASSUME LabType, NEW v \in Worker, Repeat(v)
  PROVE  \E r, s :
           /\ RunShape(r) /\ r.phase = run[v].phase /\ SameTally(r, run[v])
           /\ StatusShape(s) /\ s.processed = status[v].processed
           /\ Updates(v, r, s, stored[v], failed[v])
<1>1. PICK e \in run[v].dups : run' = [run EXCEPT ![v].dups = @ \ {e}]
  BY DEF Repeat
<1> DEFINE r == [run[v] EXCEPT !.dups = @ \ {e}]
           s == [status[v] EXCEPT !.duplicates = @ + 1]
<1>2. RunShape(run[v]) /\ StatusShape(status[v])
  BY DEF LabType
<1>3. RunShape(r) /\ r.phase = run[v].phase /\ SameTally(r, run[v])
  BY <1>2 DEF RunShape, SameTally
<1>4. StatusShape(s) /\ s.processed = status[v].processed
  BY <1>2 DEF StatusShape
<1>5. run' = [run EXCEPT ![v] = r] /\ status' = [status EXCEPT ![v] = s]
  BY <1>1 DEF Repeat
<1>6. Updates(v, r, s, stored[v], failed[v])
  BY <1>5 DEF Repeat, LabType, Updates, SameLab
<1>7. QED
  BY <1>3, <1>4, <1>6

LEMMA AdvanceUpdates ==
  ASSUME LabType, NEW v \in Worker, Advance(v)
  PROVE  Updates(v, run[v], status[v], stored[v] \cup Stores(v), failed[v])
  BY DEF Advance, LabType, Updates, SameLab

LEMMA AppliedUpdates ==
  ASSUME LabType, NEW v \in Worker, Applied(v),
         \A e \in task[v].posted : e.bucket \in Bucket
  PROVE  \E e \in task[v].posted : \E r, s :
           /\ RunShape(r) /\ r.phase = run[v].phase
           /\ r.touched = run[v].touched \cup {e.bucket} /\ r.before = run[v].before
           /\ r.counted = IF Detected(v) THEN run[v].counted + 1 ELSE run[v].counted
           /\ StatusShape(s) /\ s.processed = status[v].processed + 1
           /\ Updates(v, r, s, stored[v], failed[v])
<1>1. PICK e \in task[v].posted : run' = [run EXCEPT ![v] = Made(@, e, Detected(v))]
  BY DEF Applied
<1> DEFINE r == Made(run[v], e, Detected(v))
           s == Count(status[v], Detected(v))
<1>2. RunShape(run[v]) /\ StatusShape(status[v])
  BY DEF LabType
<1>3. /\ RunShape(r) /\ r.phase = run[v].phase
      /\ r.touched = run[v].touched \cup {e.bucket} /\ r.before = run[v].before
      /\ r.counted = IF Detected(v) THEN run[v].counted + 1 ELSE run[v].counted
  BY <1>2 DEF RunShape, Made
<1>4. StatusShape(s) /\ s.processed = status[v].processed + 1
  BY <1>2 DEF StatusShape, Count
<1>5. Updates(v, r, s, stored[v], failed[v])
  BY <1>1 DEF Applied, LabType, Updates, SameLab
<1>6. QED
  BY <1>3, <1>4, <1>5

LEMMA ExceptionUpdates ==
  ASSUME LabType, NEW v \in Worker, EndByException(v)
  PROVE  Updates(v, NoRun, status[v], stored[v], failed[v] + 1)
  BY DEF EndByException, LabType, Updates, SameLab

LEMMA PhaseUpdates ==
  ASSUME LabType, NEW v \in Worker, NextPhase(v)
  PROVE  \/ EndByException(v)
         \/ \E r : /\ RunShape(r) /\ r.phase # "none" /\ SameTally(r, run[v])
                   /\ Updates(v, r, status[v], stored[v], failed[v])
<1>1. RunShape(run[v])
  BY DEF LabType
<1>2. ASSUME NEW S, UNCHANGED <<status, stored, failed>>,
             run' = [run EXCEPT ![v].phase = "duplicates", ![v].dups = S]
      PROVE  \E r : /\ RunShape(r) /\ r.phase # "none" /\ SameTally(r, run[v])
                    /\ Updates(v, r, status[v], stored[v], failed[v])
  <2> DEFINE r == [run[v] EXCEPT !.phase = "duplicates", !.dups = S]
  <2>1. RunShape(r) /\ r.phase # "none" /\ SameTally(r, run[v])
    BY <1>1 DEF RunShape, SameTally
  <2>2. run' = [run EXCEPT ![v] = r]
    BY <1>2 DEF LabType
  <2>3. Updates(v, r, status[v], stored[v], failed[v])
    BY <1>2, <2>2 DEF LabType, Updates, SameLab
  <2>4. QED
    BY <2>1, <2>3
<1>3. ASSUME NEW phase, phase # "none", NEW left, Enter(v, phase, left),
             UNCHANGED <<status, stored, failed>>
      PROVE  \E r : /\ RunShape(r) /\ r.phase # "none" /\ SameTally(r, run[v])
                    /\ Updates(v, r, status[v], stored[v], failed[v])
  <2> DEFINE r == [run[v] EXCEPT !.phase = phase, !.left = left]
  <2>1. RunShape(r) /\ r.phase # "none" /\ SameTally(r, run[v])
    BY <1>1, <1>3 DEF RunShape, SameTally
  <2>2. run' = [run EXCEPT ![v] = r]
    BY <1>3 DEF LabType, Enter
  <2>3. Updates(v, r, status[v], stored[v], failed[v])
    BY <1>3, <2>2 DEF LabType, Updates, SameLab
  <2>4. QED
    BY <2>1, <2>3
<1>4. QED
  BY <1>2, <1>3 DEF NextPhase

LEMMA EndUpdates ==
  ASSUME LabType, NEW v \in Worker, EndChaos(v)
  PROVE  \E s : /\ StatusShape(s) /\ s.processed = status[v].processed
                /\ Updates(v, NoRun, s, stored[v], failed[v])
<1> DEFINE s == [status[v] EXCEPT !.audits = @ + CreatedAudits(v)]
<1>1. StatusShape(s) /\ s.processed = status[v].processed
  BY DEF LabType, StatusShape
<1>2. Updates(v, NoRun, s, stored[v], failed[v])
  BY DEF EndChaos, LabType, Updates, SameLab
<1>3. QED
  BY <1>1, <1>2

-----------------------------------------------------------------------------
(* The event of a run on its way through the pipeline.                     *)

Pipeline == {"append", "requests", "conflicts", "orphans", "upsert"}

\* Its INSERT, ...
LEMMA AdvanceAppend ==
  ASSUME SafeInv, NEW v \in Worker, Advance(v), pc[v] = "append"
  PROVE  /\ pc'[v] = "requests" /\ task'[v] = task[v]
         /\ \E e : /\ task[v].posted = {e} /\ e \notin db.events
                   /\ db'.events = db.events \cup {e}
<1>1. v \in Process
  BY DEF Worker
<1>2. Append(v)
  BY DEF Advance, Continue, FoldStep, RebuildStep, PostStep, SelectRequests, WriteAudit,
         SelectReleases, SelectAll, DropSnapshot, DropAudit, UpsertRebuilt,
         FinishRebuild, UpsertPosted
<1>3. ~ \E c : Raise(v, c)
  <2>1. ASSUME NEW c, Raise(v, c) PROVE FALSE
    BY <1>1, <2>1, GotoFacts DEF SafeInv, TypeInv, Raise, Done, Advance
  <2>2. QED
    BY <2>1
<1>4. PICK e \in task[v].posted :
        /\ ~KeyTaken(View(v), e)
        /\ Publish(v, [View(v) EXCEPT !.events = @ \cup {e}])
        /\ Goto(v, "requests", task[v])
  BY <1>2, <1>3 DEF Append, Refused
<1>5. pc'[v] = "requests" /\ task'[v] = task[v]
  BY <1>1, <1>4, GotoFacts DEF SafeInv, TypeInv
<1>6. task[v].posted = {e}
  BY <1>1, <1>4 DEF SafeInv, LogInv, PostedStored
<1>7. View(v).events = db.events /\ IsDatabase(View(v))
  BY <1>1, <1>4, FreshView, ViewType DEF SafeInv, TypeInv, Publish
<1>8. db'.events = db.events \cup {e} /\ e \notin db.events
  BY <1>4, <1>7 DEF Publish, IsDatabase, KeyTaken, Ids
<1>9. QED
  BY <1>5, <1>6, <1>8

\* ... the statements after it, ...
LEMMA AdvanceFold ==
  ASSUME SafeInv, NEW v \in Worker, OneEvent(v), Advance(v), pc[v] # "append"
  PROVE  /\ FoldStep(v) /\ Storing(v)
         /\ pc'[v] \in Pipeline \ {"append"}
         /\ task'[v].posted = task[v].posted /\ task'[v].keys = task[v].keys
         /\ Stores(v) = {}
<1>1. v \in Process /\ task[v] \in Task
  BY DEF Worker, SafeInv, TypeInv, ControlOK
<1>2. ~ \E c : Raise(v, c)
  <2>1. ASSUME NEW c, Raise(v, c) PROVE FALSE
    BY <1>1, <2>1, GotoFacts DEF SafeInv, TypeInv, Raise, Done, Advance
  <2>2. QED
    BY <2>1
<1>3. ~UpsertPosted(v)
  <2>1. ASSUME UpsertPosted(v) PROVE FALSE
    <3>1. Done(v)
      BY <1>2, <2>1 DEF UpsertPosted, Refused
    <3>2. QED
      BY <1>1, <3>1, GotoFacts DEF SafeInv, TypeInv, Done, Advance
  <2>2. QED
    BY <2>1
<1>4. pc[v] # "idle"
  BY DEF Advance, Continue, FoldStep, RebuildStep, PostStep, SelectRequests, WriteAudit,
         SelectReleases, SelectAll, DropSnapshot, DropAudit, UpsertRebuilt,
         FinishRebuild, UpsertPosted, Append
<1>5. FoldStep(v)
  <2>1. pc[v] \in Pipeline \ {"append"} /\ task[v].posted # {}
    BY <1>4 DEF OneEvent, Advance, Pipeline
  <2>2. ~RebuildStep(v) /\ ~Append(v)
    BY <2>1 DEF RebuildStep, DropSnapshot, DropAudit, UpsertRebuilt, FinishRebuild,
                Append, Pipeline
  <2>3. QED
    BY <1>3, <2>2 DEF Advance, Continue, PostStep
<1>6. \E l \in {"conflicts", "orphans", "upsert"} : \E t :
        Goto(v, l, t) /\ t.posted = task[v].posted /\ t.keys = task[v].keys
  <2>1. CASE SelectRequests(v)
    <3> DEFINE R == RequestsOf(View(v).events, Key(v))
               t == [task[v] EXCEPT !.reqs = R, !.todo = ConflictLeaders(R)]
    <3>1. Goto(v, "conflicts", t)
      BY <1>2, <2>1 DEF SelectRequests
    <3>2. t.posted = task[v].posted /\ t.keys = task[v].keys
      BY <1>1 DEF Task
    <3> HIDE DEF t
    <3>3. QED
      BY <3>1, <3>2
  <2>2. CASE WriteAudit(v)
    <3>1. PICK x : Goto(v, pc[v], [task[v] EXCEPT !.todo = @ \ {x}])
      BY <1>2, <2>2 DEF WriteAudit, Refused
    <3>2. /\ [task[v] EXCEPT !.todo = @ \ {x}].posted = task[v].posted
          /\ [task[v] EXCEPT !.todo = @ \ {x}].keys = task[v].keys
      BY <1>1 DEF Task
    <3>3. pc[v] \in {"conflicts", "orphans"}
      BY <2>2 DEF WriteAudit
    <3>4. QED
      BY <3>1, <3>2, <3>3
  <2>3. CASE SelectReleases(v)
    <3> DEFINE rels == ReleasesOf(View(v).events, Key(v))
               t == [task[v] EXCEPT !.rels = rels,
                                    !.todo = Orphans(rels, Accepted(task[v].reqs))]
    <3>1. Goto(v, "orphans", t)
      BY <2>3 DEF SelectReleases
    <3>2. t.posted = task[v].posted /\ t.keys = task[v].keys
      BY <1>1 DEF Task
    <3> HIDE DEF t
    <3>3. QED
      BY <3>1, <3>2
  <2>4. CASE SelectAll(v)
    <3> DEFINE all == EventsOf(View(v).events, Key(v))
               t == [task[v] EXCEPT !.row = FoldRow(task[v].reqs, task[v].rels, all)]
    <3>1. Goto(v, "upsert", t)
      BY <2>4 DEF SelectAll
    <3>2. t.posted = task[v].posted /\ t.keys = task[v].keys
      BY <1>1 DEF Task
    <3> HIDE DEF t
    <3>3. QED
      BY <3>1, <3>2
  <2>5. QED
    BY <1>5, <2>1, <2>2, <2>3, <2>4 DEF FoldStep
<1>7. /\ pc'[v] \in Pipeline \ {"append"}
      /\ task'[v].posted = task[v].posted /\ task'[v].keys = task[v].keys
  BY <1>1, <1>6, GotoFacts DEF SafeInv, TypeInv, Pipeline
<1>8. QED
  BY <1>4, <1>5, <1>7 DEF Storing, Stores

\* ... and the answer.
LEMMA AppliedPosts ==
  ASSUME SafeInv, NEW v \in Worker, OneEvent(v), Applied(v)
  PROVE  /\ UpsertPosted(v) /\ ~Refused(v) /\ pc'[v] = "idle"
<1>1. v \in Process /\ task[v].posted # {} /\ pc[v] = "upsert" /\ Storing(v)
  BY DEF Worker, Applied, OneEvent, Storing
<1>2. UpsertPosted(v)
  BY <1>1 DEF Applied, Continue, FoldStep, RebuildStep, PostStep, SelectRequests,
              WriteAudit, SelectReleases, SelectAll, DropSnapshot, DropAudit,
              UpsertRebuilt, FinishRebuild, Append
<1>3. ~Refused(v)
  <2>1. Ids(task[v].posted) \cap Ids(acked) = {}
    BY <1>1 DEF SafeInv, LogInv, AppliedOnce, Storing
  <2>2. ASSUME Refused(v) PROVE FALSE
    <3>1. task[v].posted \subseteq acked
      BY <2>2 DEF Refused, Raise, Applied
    <3>2. QED
      BY <1>1, <2>1, <3>1 DEF Ids
  <2>3. QED
    BY <2>2
<1>4. Done(v)
  BY <1>2, <1>3 DEF UpsertPosted
<1>5. pc'[v] = "idle"
  BY <1>1, <1>4, GotoFacts DEF SafeInv, TypeInv, Done
<1>6. QED
  BY <1>2, <1>3, <1>5

-----------------------------------------------------------------------------
(* The counters.                                                           *)

CountOK(w) == OneEvent(w)' /\ Counted(w)'

LEMMA OthersCount ==
  ASSUME NEW w \in Worker, OneEvent(w), Counted(w), SameLab(w),
         db.events \subseteq db'.events,
         Running(w) => pc'[w] = pc[w] /\ task'[w] = task[w]
  PROVE  CountOK(w)
<1>1. /\ run'[w] = run[w] /\ status'[w] = status[w]
      /\ stored'[w] = stored[w] /\ failed'[w] = failed[w]
  BY DEF SameLab
<1>2. OneEvent(w)'
  BY <1>1 DEF OneEvent, Running
<1>3. UnderWay(w)' = UnderWay(w)
  BY <1>1 DEF UnderWay, Running, Storing
<1>4. Counted(w)'
  BY <1>1, <1>3 DEF Counted
<1>5. QED
  BY <1>2, <1>4 DEF CountOK

\* A step between two events.
LEMMA BetweenCount ==
  ASSUME NEW v \in Worker, Counted(v), pc[v] = "idle",
         stored'[v] = stored[v], status'[v].processed = status[v].processed,
         failed'[v] \in {failed[v], failed[v] + 1}, failed[v] \in Nat,
         db'.events = db.events,
         pc'[v] = "idle" \/ (pc'[v] = "append" /\ task'[v].posted # {})
  PROVE  CountOK(v)
<1>1. UnderWay(v) = 0 /\ UnderWay(v)' = 0
  BY DEF UnderWay, Storing
<1>2. OneEvent(v)'
  BY DEF OneEvent
<1>3. Counted(v)'
  BY <1>1 DEF Counted
<1>4. QED
  BY <1>2, <1>3 DEF CountOK

\* What is to be shown of a step of the run of v.
LEMMA LabStepCounts ==
  ASSUME TypeInv, LabInv, NEW v \in Worker, NEW r, RunShape(r), NEW s, StatusShape(s),
         NEW D, NEW n \in Nat, Updates(v, r, s, D, n), db.events \subseteq db'.events,
         \A w \in Worker \ {v} : Kept(w),
         CountOK(v)
  PROVE  LabInv'
<1>1. LabType'
  BY LabUpdateType DEF LabInv
<1>2. ASSUME NEW w \in Worker \ {v} PROVE CountOK(w)
  <2>1. SameLab(w) /\ Kept(w) /\ OneEvent(w) /\ Counted(w)
    BY DEF Updates, LabInv
  <2>2. QED
    BY <2>1, OthersCount DEF Kept
<1>3. QED
  BY <1>1, <1>2 DEF LabInv, CountOK

LEMMA WorkersKept ==
  ASSUME TypeInv, NEW v \in Worker,
         Receive(v) \/ Read(v) \/ Continue(v) \/ UNCHANGED vars
  PROVE  \A w \in Worker \ {v} : Kept(w)
<1> SUFFICES ASSUME NEW w \in Worker \ {v} PROVE Kept(w)
  OBVIOUS
<1>1. v \in Process /\ w \in Process \ {v}
  BY DEF Worker
<1>2. CASE UNCHANGED vars
  BY <1>2 DEF vars, walVars, Kept
<1>3. CASE Receive(v) \/ Read(v) \/ Continue(v)
  BY <1>1, <1>3, OthersKept
<1>4. QED
  BY <1>2, <1>3

LEMMA StartCounts ==
  ASSUME SafeInv, LabInv, NEW v \in Worker, StartChaos(v)
  PROVE  LabInv'
<1>1. PICK r : /\ RunShape(r) /\ r.phase = "baseline" /\ r.touched = {}
               /\ Updates(v, r, status[v], stored[v], failed[v])
  BY StartUpdates DEF LabInv
<1>2. StatusShape(status[v]) /\ failed[v] \in Nat /\ Counted(v)
  BY DEF LabInv, LabType
<1>3. Read(v) /\ db' = db /\ pc' = pc /\ pc[v] = "idle"
  BY DEF StartChaos, Read, Select
<1>4. CountOK(v)
  BY <1>1, <1>2, <1>3, BetweenCount DEF Updates
<1>5. \A w \in Worker \ {v} : Kept(w)
  BY <1>3, WorkersKept DEF SafeInv
<1>6. QED
  BY <1>1, <1>2, <1>3, <1>4, <1>5, LabStepCounts DEF SafeInv

LEMMA GenerateCounts ==
  ASSUME SafeInv, LabInv, NEW v \in Worker, Generate(v)
  PROVE  LabInv'
<1>1. Updates(v, run[v], status[v], stored[v], failed[v])
  BY DEF LabInv, LabType, Updates, SameLab, Generate, chaosVars
<1>2. RunShape(run[v]) /\ StatusShape(status[v]) /\ failed[v] \in Nat /\ Counted(v)
  BY DEF LabInv, LabType
<1>3. Receive(v) /\ pc[v] = "idle" /\ task'[v].posted # {}
  BY DEF Generate
<1>4. db' = db
  BY <1>3 DEF Receive, Select
<1>5. pc'[v] \in {"idle", "append"}
  <2>1. pc' = pc \/ \E t : Goto(v, "append", t)
    BY <1>3 DEF Receive
  <2>2. v \in Process
    BY DEF Worker
  <2>3. QED
    BY <1>3, <2>1, <2>2, GotoFacts DEF SafeInv, TypeInv
<1>6. CountOK(v)
  BY <1>1, <1>2, <1>3, <1>4, <1>5, BetweenCount DEF Updates
<1>7. \A w \in Worker \ {v} : Kept(w)
  BY <1>3, WorkersKept DEF SafeInv
<1>8. QED
  BY <1>1, <1>2, <1>4, <1>6, <1>7, LabStepCounts DEF SafeInv

LEMMA RepeatCounts ==
  ASSUME SafeInv, LabInv, NEW v \in Worker, Repeat(v)
  PROVE  LabInv'
<1>1. PICK r, s :
        /\ RunShape(r) /\ r.phase = run[v].phase /\ SameTally(r, run[v])
        /\ StatusShape(s) /\ s.processed = status[v].processed
        /\ Updates(v, r, s, stored[v], failed[v])
  BY RepeatUpdates DEF LabInv
<1>2. failed[v] \in Nat /\ Counted(v)
  BY DEF LabInv, LabType
<1>3. Receive(v) /\ pc[v] = "idle" /\ pc' = pc
  BY DEF Repeat
<1>4. db' = db
  BY <1>3 DEF Receive, Select
<1>5. CountOK(v)
  BY <1>1, <1>2, <1>3, <1>4, BetweenCount DEF Updates
<1>6. \A w \in Worker \ {v} : Kept(w)
  BY <1>3, WorkersKept DEF SafeInv
<1>7. QED
  BY <1>1, <1>2, <1>4, <1>5, <1>6, LabStepCounts DEF SafeInv

LEMMA PhaseCounts ==
  ASSUME SafeInv, LabInv, NEW v \in Worker, NextPhase(v)
  PROVE  LabInv'
<1>1. UNCHANGED vars /\ pc[v] = "idle"
  BY DEF NextPhase
<1>2. db' = db /\ pc' = pc
  BY <1>1 DEF vars, walVars
<1>3. StatusShape(status[v]) /\ failed[v] \in Nat /\ Counted(v)
  BY DEF LabInv, LabType
<1>4. \A w \in Worker \ {v} : Kept(w)
  BY <1>1, WorkersKept DEF SafeInv
<1>5. PICK r, n :
        /\ RunShape(r) /\ n \in {failed[v], failed[v] + 1}
        /\ Updates(v, r, status[v], stored[v], n)
  BY PhaseUpdates, ExceptionUpdates, NoRunShape DEF LabInv
<1>6. CountOK(v)
  BY <1>1, <1>2, <1>3, <1>5, BetweenCount DEF Updates
<1>7. n \in Nat
  BY <1>3, <1>5
<1>8. QED
  BY <1>2, <1>3, <1>4, <1>5, <1>6, <1>7, LabStepCounts DEF SafeInv

LEMMA EndCounts ==
  ASSUME SafeInv, LabInv, NEW v \in Worker, EndChaos(v)
  PROVE  LabInv'
<1>1. PICK s : /\ StatusShape(s) /\ s.processed = status[v].processed
               /\ Updates(v, NoRun, s, stored[v], failed[v])
  BY EndUpdates DEF LabInv
<1>2. failed[v] \in Nat /\ Counted(v)
  BY DEF LabInv, LabType
<1>3. Read(v) /\ db' = db /\ pc' = pc /\ pc[v] = "idle"
  BY DEF EndChaos, Ending, Read, Select
<1>4. CountOK(v)
  BY <1>1, <1>2, <1>3, BetweenCount DEF Updates
<1>5. \A w \in Worker \ {v} : Kept(w)
  BY <1>3, WorkersKept DEF SafeInv
<1>6. QED
  BY <1>1, <1>2, <1>3, <1>4, <1>5, NoRunShape, LabStepCounts DEF SafeInv

LEMMA AdvanceCounts ==
  ASSUME SafeInv, LabInv, NEW v \in Worker, Advance(v), db.events \subseteq db'.events
  PROVE  LabInv'
<1>1. Updates(v, run[v], status[v], stored[v] \cup Stores(v), failed[v])
  BY AdvanceUpdates DEF LabInv
<1>2. RunShape(run[v]) /\ StatusShape(status[v]) /\ failed[v] \in Nat
  BY DEF LabInv, LabType
<1>3. OneEvent(v) /\ Counted(v)
  BY DEF LabInv
<1>4. Running(v) /\ Running(v)'
  BY <1>1 DEF Advance, Updates, Running
<1>5. ASSUME pc[v] = "append" PROVE CountOK(v)
  <2>1. /\ pc'[v] = "requests" /\ task'[v] = task[v]
        /\ \E e : /\ task[v].posted = {e} /\ e \notin db.events
                  /\ db'.events = db.events \cup {e}
    BY <1>5, AdvanceAppend
  <2>2. PICK e : /\ task[v].posted = {e} /\ e \notin db.events
                 /\ db'.events = db.events \cup {e}
    BY <2>1
  <2>3. stored'[v] = stored[v] \cup {e} /\ e \notin stored[v]
    BY <1>1, <1>3, <1>5, <2>1, <2>2 DEF Updates, Stores, Counted
  <2>4. /\ IsFiniteSet(stored'[v])
        /\ Cardinality(stored'[v]) = Cardinality(stored[v]) + 1
        /\ Cardinality(stored[v]) \in Nat
    BY <1>3, <2>3, FS_AddElement, FS_CardinalityType DEF Counted
  <2>5. UnderWay(v) = 0 /\ UnderWay(v)' = 1
    BY <1>4, <1>5, <2>1, <2>2 DEF UnderWay, Storing
  <2>6. status'[v] = status[v] /\ failed'[v] = failed[v]
    BY <1>1 DEF Updates
  <2>7. Counted(v)'
    BY <1>2, <1>3, <2>2, <2>3, <2>4, <2>5, <2>6 DEF Counted, StatusShape
  <2>8. OneEvent(v)'
    BY <2>1, <2>2 DEF OneEvent
  <2>9. QED
    BY <2>7, <2>8 DEF CountOK
<1>6. ASSUME pc[v] # "append" PROVE CountOK(v)
  <2>1. /\ Storing(v) /\ pc'[v] \in Pipeline \ {"append"}
        /\ task'[v].posted = task[v].posted /\ Stores(v) = {}
    BY <1>3, <1>6, AdvanceFold
  <2>2. task[v].posted # {} /\ Storing(v)'
    BY <1>3, <1>4, <2>1 DEF OneEvent, Storing, Pipeline
  <2>3. UnderWay(v) = UnderWay(v)'
    BY <1>4, <2>1, <2>2 DEF UnderWay
  <2>4. /\ stored'[v] = stored[v] /\ status'[v] = status[v] /\ failed'[v] = failed[v]
    BY <1>1, <2>1 DEF Updates
  <2>5. Counted(v)'
    BY <1>3, <2>3, <2>4 DEF Counted
  <2>6. OneEvent(v)'
    BY <2>1, <2>2 DEF OneEvent, Pipeline
  <2>7. QED
    BY <2>5, <2>6 DEF CountOK
<1>7. CountOK(v)
  BY <1>5, <1>6
<1>8. \A w \in Worker \ {v} : Kept(w)
  BY WorkersKept DEF SafeInv, Advance
<1>9. QED
  BY <1>1, <1>2, <1>7, <1>8, LabStepCounts DEF SafeInv

\* What is under way when the event is answered ...
LEMMA AppliedCounts ==
  ASSUME SafeInv, LabInv, NEW v \in Worker, Applied(v), db.events \subseteq db'.events
  PROVE  LabInv'
<1>1. OneEvent(v) /\ Counted(v) /\ task[v].posted # {} /\ pc[v] = "upsert" /\ Running(v)
  BY DEF LabInv, OneEvent, Applied
<1>2. v \in Process /\ task[v] \in Task
  BY DEF Worker, SafeInv, TypeInv, ControlOK
<1>3. \A e \in task[v].posted : e.bucket \in Bucket
  BY <1>2, EventAssumption DEF Task, EventPayload
<1>4. PICK r, s :
        /\ RunShape(r) /\ StatusShape(s) /\ s.processed = status[v].processed + 1
        /\ Updates(v, r, s, stored[v], failed[v])
  BY <1>3, AppliedUpdates DEF LabInv
<1>5. StatusShape(status[v]) /\ failed[v] \in Nat
  BY DEF LabInv, LabType
<1>6. pc'[v] = "idle"
  BY <1>1, AppliedPosts
<1>7. UnderWay(v) = 1 /\ UnderWay(v)' = 0
  BY <1>1, <1>6 DEF UnderWay, Storing
<1>8. Cardinality(stored[v]) \in Nat
  BY <1>1, FS_CardinalityType DEF Counted
<1>9. Counted(v)'
  BY <1>1, <1>4, <1>5, <1>7, <1>8 DEF Counted, Updates, StatusShape
<1>10. OneEvent(v)'
  BY <1>6 DEF OneEvent
<1>11. \A w \in Worker \ {v} : Kept(w)
  BY WorkersKept DEF SafeInv, Applied
<1>12. QED
  BY <1>4, <1>5, <1>9, <1>10, <1>11, LabStepCounts DEF SafeInv, CountOK

\* ... is counted, and otherwise there is one more run that failed.
LEMMA FailCounts ==
  ASSUME SafeInv, LabInv, NEW v \in Worker, Fail(v), db.events \subseteq db'.events
  PROVE  LabInv'
<1>1. Updates(v, NoRun, status[v], stored[v], failed[v] + 1)
  BY ExceptionUpdates DEF LabInv, Fail
<1>2. StatusShape(status[v]) /\ failed[v] \in Nat /\ Counted(v)
  BY DEF LabInv, LabType
<1>3. UnderWay(v) \in {0, 1} /\ UnderWay(v)' = 0
  BY DEF UnderWay, Fail, Storing
<1>4. Cardinality(stored[v]) \in Nat
  BY <1>2, FS_CardinalityType DEF Counted
<1>5. Counted(v)'
  BY <1>1, <1>2, <1>3, <1>4 DEF Counted, Updates, StatusShape
<1>6. OneEvent(v)'
  BY DEF OneEvent, Fail
<1>7. \A w \in Worker \ {v} : Kept(w)
  BY WorkersKept DEF SafeInv, Fail
<1>8. failed[v] + 1 \in Nat
  BY <1>2
<1>9. QED
  BY <1>1, <1>2, <1>5, <1>6, <1>7, <1>8, NoRunShape, LabStepCounts DEF SafeInv, CountOK

LEMMA CrashCounts ==
  ASSUME SafeInv, LabInv, NEW p \in Process, CrashLab(p)
  PROVE  LabInv'
<1>1. Crash(p) /\ db' = db /\ pc'[p] = "idle"
  BY GotoFacts DEF SafeInv, TypeInv, CrashLab, Crash, Done
<1>2. \A q \in Process \ {p} : Kept(q)
  BY <1>1, OthersKept DEF SafeInv
<1>3. /\ run' = [w \in Worker |-> IF w = p THEN NoRun ELSE run[w]]
      /\ status' = [w \in Worker |-> IF w = p THEN NoStatus ELSE status[w]]
      /\ stored' = [w \in Worker |-> IF w = p THEN {} ELSE stored[w]]
      /\ failed' = [w \in Worker |-> IF w = p THEN 0 ELSE failed[w]]
  BY DEF CrashLab
<1>4. LabType'
  <2>1. RunShape(NoRun) /\ StatusShape(NoStatus)
    BY NoRunShape DEF StatusShape, NoStatus
  <2>2. \A w \in Worker : RunShape(run'[w]) /\ StatusShape(status'[w]) /\ failed'[w] \in Nat
    BY <1>3, <2>1 DEF LabInv, LabType
  <2>3. QED
    BY <1>3, <2>2 DEF LabType, RunShape, StatusShape
<1>5. ASSUME NEW w \in Worker PROVE CountOK(w)
  <2>1. CASE w = p
    <3>1. ~Running(w)' /\ UnderWay(w)' = 0
      BY <1>3, <2>1 DEF Running, NoRun, UnderWay
    <3>2. IsFiniteSet({}) /\ Cardinality({}) = 0
      BY FS_EmptySet
    <3>3. stored'[w] = {} /\ status'[w].processed = 0 /\ failed'[w] = 0
      BY <1>3, <2>1 DEF NoStatus
    <3>4. Counted(w)'
      BY <3>1, <3>2, <3>3 DEF Counted
    <3>5. QED
      BY <3>1, <3>4 DEF CountOK, OneEvent
  <2>2. CASE w # p
    <3>1. w \in Process \ {p} /\ OneEvent(w) /\ Counted(w)
      BY <2>2 DEF Worker, LabInv
    <3>2. SameLab(w) /\ Kept(w)
      BY <1>2, <1>3, <2>2, <3>1 DEF SameLab
    <3>3. QED
      BY <1>1, <3>1, <3>2, OthersCount DEF Kept
  <2>3. QED
    BY <2>1, <2>2
<1>6. QED
  BY <1>4, <1>5 DEF LabInv, CountOK

\* A step of a process whose run, if any, is left as it is.
LEMMA OtherCounts ==
  ASSUME SafeInv, LabInv, OtherStep, db.events \subseteq db'.events
  PROVE  LabInv'
<1>1. LabType'
  BY DEF LabInv, LabType, RunShape, StatusShape, OtherStep, chaosVars
<1>2. ASSUME NEW w \in Worker PROVE CountOK(w)
  <2>1. SameLab(w) /\ OneEvent(w) /\ Counted(w)
    BY DEF SameLab, OtherStep, chaosVars, LabInv
  <2>2. Running(w) => Kept(w)
    <3>1. PICK p \in Process :
            /\ p \in Worker => ~Running(p)
            /\ Receive(p) \/ Read(p) \/ StartRebuild(p) \/ Continue(p)
      BY ProcessAssumption DEF OtherStep, Posted, Worker
    <3>2. HAVE Running(w)
    <3>3. w \in Process \ {p}
      BY <3>1, <3>2 DEF Worker
    <3>4. QED
      BY <3>1, <3>3, OthersKept DEF SafeInv
  <2>3. QED
    BY <2>1, <2>2, OthersCount DEF Kept
<1>3. QED
  BY <1>1, <1>2 DEF LabInv, CountOK

LEMMA StutterCounts ==
  ASSUME LabInv, UNCHANGED labVars
  PROVE  LabInv'
<1>1. LabType'
  BY DEF LabInv, LabType, RunShape, StatusShape, labVars, chaosVars
<1>2. ASSUME NEW w \in Worker PROVE CountOK(w)
  BY OthersCount DEF LabInv, SameLab, labVars, chaosVars, vars, walVars
<1>3. QED
  BY <1>1, <1>2 DEF LabInv, CountOK

LEMMA NextCount ==
  ASSUME SafeInv, LabInv, [LabNext]_labVars
  PROVE  LabInv'
<1>1. db.events \subseteq db'.events
  BY LabSteps, NextKeeps DEF Keeps
<1>2. ASSUME NEW w \in Worker, StartChaos(w) \/ ChaosStep(w) PROVE LabInv'
  BY <1>1, <1>2, StartCounts, GenerateCounts, RepeatCounts, AdvanceCounts,
     AppliedCounts, FailCounts, PhaseCounts, EndCounts DEF ChaosStep
<1>3. QED
  BY <1>1, <1>2, CrashCounts, OtherCounts, StutterCounts DEF LabNext

LEMMA InitCount == LabInit => LabInv
<1> SUFFICES ASSUME LabInit PROVE LabInv
  OBVIOUS
<1>1. RunShape(NoRun) /\ StatusShape(NoStatus)
  BY NoRunShape DEF StatusShape, NoStatus
<1>2. LabType
  BY <1>1 DEF LabType, LabInit
<1>3. ASSUME NEW w \in Worker PROVE OneEvent(w) /\ Counted(w)
  <2>1. ~Running(w) /\ UnderWay(w) = 0
    BY DEF LabInit, Running, NoRun, UnderWay
  <2>2. IsFiniteSet({}) /\ Cardinality({}) = 0
    BY FS_EmptySet
  <2>3. stored[w] = {} /\ status[w].processed = 0 /\ failed[w] = 0
    BY DEF LabInit, NoStatus
  <2>4. QED
    BY <2>1, <2>2, <2>3 DEF OneEvent, Counted
<1>4. QED
  BY <1>2, <1>3 DEF LabInv

LEMMA LabInvariant == LabSpec => [](SafeInv /\ LabInv)
<1>1. LabInit => SafeInv /\ LabInv
  BY InitSafe, InitCount DEF LabInit
<1>2. SafeInv /\ LabInv /\ [LabNext]_labVars => SafeInv' /\ LabInv'
  BY LabSteps, NextType, NextKeeps, NextCount DEF SafeInv, Keeps
<1>3. QED
  BY <1>1, <1>2, PTL DEF LabSpec

\* What GET /chaos/status counts as processed is what the runs of the process
\* have stored, but for one event for each run that an exception ended and the
\* one that is under way.
THEOREM CountersFollow == LabSpec => []CountersFollowLog
<1>1. ASSUME SafeInv, LabInv PROVE CountersFollowLog
  <2> SUFFICES ASSUME NEW w \in Worker
               PROVE  /\ stored[w] \subseteq db.events
                      /\ Cardinality(stored[w]) - status[w].processed
                           \in 0 .. failed[w] + (IF Running(w) /\ pc[w] # "idle" THEN 1 ELSE 0)
    BY DEF CountersFollowLog
  <2>1. Counted(w) /\ StatusShape(status[w]) /\ failed[w] \in Nat
    BY <1>1 DEF LabInv, LabType
  <2>2. Cardinality(stored[w]) \in Nat
    BY <2>1, FS_CardinalityType DEF Counted
  <2>3. UnderWay(w) \in 0 .. (IF Running(w) /\ pc[w] # "idle" THEN 1 ELSE 0)
    BY DEF UnderWay, Storing
  <2>4. QED
    BY <2>1, <2>2, <2>3 DEF Counted, StatusShape
<1>2. QED
  BY <1>1, LabInvariant, PTL

-----------------------------------------------------------------------------
(* One process alone: final_state_consistent.                              *)

Right(d, b) ==
  Foldable(RequestsOf(d.events, b)) /\ d.snapshot[b] = Projection(d.events)[b]

\* Of the buckets that a run has touched only that of the event under way may
\* differ from the log, and a fold that goes on can be folded.
TouchedRight(D, l, t, d) ==
  /\ \A b \in D : (b \in t.keys /\ l \in Reading) \/ Right(d, b)
  /\ l \in Reading \ {"requests"} => Foldable(RequestsOf(d.events, FirstKey(t.keys)))

TouchInv ==
  \A w \in Worker : Running(w) => TouchedRight(run[w].touched, pc[w], task[w], db)

\* What is to be shown of a step of the one worker.
LEMMA TouchStep ==
  ASSUME Alone, NEW v \in Worker,
         Running(v)' => TouchedRight(run[v].touched, pc[v], task[v], db)'
  PROVE  TouchInv'
<1>1. \A w \in Worker : w = v
  BY DEF Alone, Worker
<1>2. QED
  BY <1>1 DEF TouchInv

\* Between two events all of them are right, and a SELECT changes none.
LEMMA BetweenTouches ==
  ASSUME Alone, NEW v \in Worker, TouchInv, Running(v), pc[v] = "idle", db' = db,
         pc'[v] \in {"idle", "append"}, run'[v].touched = run[v].touched
  PROVE  TouchInv'
<1>1. TouchedRight(run[v].touched, pc[v], task[v], db)
  BY DEF TouchInv
<1>2. TouchedRight(run'[v].touched, pc'[v], task'[v], db')
  BY <1>1 DEF TouchedRight, Right, Reading
<1>3. QED
  BY <1>2, TouchStep DEF TouchedRight, Right

LEMMA NoRunTouches ==
  ASSUME Alone, NEW v \in Worker, run'[v] = NoRun
  PROVE  TouchInv'
  BY TouchStep DEF Running, NoRun

LEMMA StartTouches ==
  ASSUME Alone, LabInv, NEW v \in Worker, StartChaos(v)
  PROVE  TouchInv'
<1>1. run'[v].touched = {}
  BY StartUpdates DEF LabInv, Updates
<1>2. pc'[v] = "idle"
  BY DEF StartChaos
<1>3. TouchedRight(run'[v].touched, pc'[v], task'[v], db')
  BY <1>1, <1>2 DEF TouchedRight, Reading
<1>4. QED
  BY <1>3, TouchStep DEF TouchedRight, Right

LEMMA GenerateTouches ==
  ASSUME SafeInv, Alone, LabInv, TouchInv, NEW v \in Worker,
         Generate(v) \/ Repeat(v)
  PROVE  TouchInv'
<1>1. Receive(v) /\ pc[v] = "idle" /\ Running(v)
  BY DEF Generate, Repeat, Making, Running
<1>2. db' = db
  BY <1>1 DEF Receive, Select
<1>3. pc'[v] \in {"idle", "append"}
  <2>1. pc' = pc \/ \E t : Goto(v, "append", t)
    BY <1>1 DEF Receive
  <2>2. v \in Process
    BY DEF Worker
  <2>3. QED
    BY <1>1, <2>1, <2>2, GotoFacts DEF SafeInv, TypeInv
<1>4. run'[v].touched = run[v].touched
  BY RepeatUpdates DEF LabInv, Updates, SameTally, Generate, chaosVars
<1>5. QED
  BY <1>1, <1>2, <1>3, <1>4, BetweenTouches

LEMMA PhaseTouches ==
  ASSUME Alone, LabInv, TouchInv, NEW v \in Worker, NextPhase(v)
  PROVE  TouchInv'
<1>1. CASE EndByException(v)
  BY <1>1, ExceptionUpdates, NoRunTouches DEF LabInv, Updates
<1>2. CASE ~EndByException(v)
  <2>1. run'[v].touched = run[v].touched
    BY <1>2, PhaseUpdates DEF LabInv, Updates, SameTally
  <2>2. Running(v) /\ pc[v] = "idle" /\ pc' = pc /\ db' = db
    BY DEF NextPhase, vars, walVars
  <2>3. QED
    BY <2>1, <2>2, BetweenTouches
<1>3. QED
  BY <1>1, <1>2

\* The INSERT makes the row of its own bucket old.  What else its commit
\* publishes are rows that an earlier rebuild folded and left uncommitted.
LEMMA AppendTouches ==
  ASSUME SafeInv, SoloInv, LabInv, TouchInv, NEW v \in Worker,
         Advance(v), pc[v] = "append"
  PROVE  TouchInv'
<1>1. v \in Process /\ Running(v) /\ Append(v)
  BY DEF Worker, Advance, Continue, FoldStep, RebuildStep, PostStep, SelectRequests,
         WriteAudit, SelectReleases, SelectAll, DropSnapshot, DropAudit,
         UpsertRebuilt, FinishRebuild, UpsertPosted
<1>2. PICK e \in Event :
        /\ task[v].posted = {e} /\ task[v].keys = {e.bucket}
        /\ ~KeyTaken(View(v), e)
  BY <1>1 DEF SoloInv, WorkerInv, WorkerOK, HandlerKnows, Append, KeyTaken
<1> DEFINE d == [View(v) EXCEPT !.events = @ \cup {e}]
<1>3. Publish(v, d) /\ Goto(v, "requests", task[v])
  BY <1>1, <1>2, AloneWrites DEF Append, SoloInv
<1>4. /\ d.events = db.events \cup {e} /\ d.snapshot = View(v).snapshot
      /\ Refolded(View(v), db)
  BY <1>1, ViewType DEF SoloInv, TypeInv, WorkerInv, WorkerOK, IsDatabase
<1>5. db' = d /\ pc'[v] = "requests" /\ task'[v] = task[v]
  BY <1>1, <1>3, GotoFacts DEF SafeInv, TypeInv, Publish
<1> HIDE DEF d
<1>6. ASSUME NEW b \in run[v].touched, b # e.bucket PROVE Right(d, b)
  <2>1. b \in Bucket /\ Right(db, b)
    BY <1>1, <1>6 DEF LabInv, LabType, RunShape, TouchInv, TouchedRight, Reading
  <2>2. EventsOf(d.events, b) = EventsOf(db.events, b)
    BY <1>4, <1>6 DEF EventsOf
  <2>3. RequestsOf(d.events, b) = RequestsOf(db.events, b)
    BY <2>2 DEF RequestsOf
  <2>4. Projection(d.events)[b] = Projection(db.events)[b]
    BY <2>1, <2>2, SameEvents
  <2>5. d.snapshot[b] = Projection(db.events)[b]
    BY <1>4, <2>1 DEF Refolded, Right
  <2>6. QED
    BY <2>1, <2>3, <2>4, <2>5 DEF Right
<1>7. TouchedRight(run[v].touched, "requests", task[v], d)
  BY <1>2, <1>6 DEF TouchedRight, Reading
<1>8. run'[v] = run[v]
  BY DEF Advance
<1>9. TouchedRight(run'[v].touched, pc'[v], task'[v], db')
  BY <1>5, <1>7, <1>8
<1>10. QED
  BY <1>9, TouchStep DEF TouchedRight, Right, SoloInv

\* A fold that goes on changes no row.
LEMMA FoldTouches ==
  ASSUME SafeInv, SoloInv, LabInv, TouchInv, NEW v \in Worker,
         Advance(v), pc[v] # "append"
  PROVE  TouchInv'
<1>1. /\ v \in Process /\ Running(v) /\ OneEvent(v) /\ pc[v] # "idle"
      /\ FoldStep(v) /\ pc'[v] \in Reading
      /\ task'[v].posted = task[v].posted /\ task'[v].keys = task[v].keys
  BY AdvanceFold DEF Worker, Advance, LabInv, Storing, Pipeline, Reading
<1>2. pc[v] \in Reading /\ task[v].posted # {}
  BY <1>1, AdvanceFold DEF OneEvent, Reading
<1>3. View(v) = db
  BY <1>1, <1>2 DEF SoloInv, WorkerInv, WorkerOK, LocallyOK, View
<1>4. db'.events = db.events /\ db'.snapshot = db.snapshot
  <2>1. CASE SelectRequests(v) \/ SelectReleases(v) \/ SelectAll(v)
    BY <2>1 DEF SelectRequests, SelectReleases, SelectAll, Select, Raise
  <2>2. CASE WriteAudit(v)
    <3>1. PICK x : db' = [db EXCEPT !.audit = @ (+) SetToBag({EntryFor(x, task[v].reqs)})]
      BY <1>1, <1>3, <2>2, AloneWrites DEF WriteAudit, Publish, SoloInv
    <3>2. QED
      BY <3>1 DEF SoloInv, TypeInv, WalTypeOK, IsDatabase
  <2>3. QED
    BY <1>1, <2>1, <2>2 DEF FoldStep
<1>5. TouchedRight(run[v].touched, pc[v], task[v], db)
  BY <1>1 DEF TouchInv
<1>6. Foldable(RequestsOf(db.events, FirstKey(task[v].keys)))
  <2>1. CASE pc[v] = "requests"
    <3>1. SelectRequests(v) /\ ~Raise(v, AfterSelect(v))
      <4>1. ASSUME Raise(v, AfterSelect(v)) PROVE FALSE
        BY <1>1, <4>1, GotoFacts DEF SafeInv, TypeInv, Raise, Done, Advance
      <4>2. QED
        BY <1>1, <2>1, <4>1 DEF FoldStep, WriteAudit, SelectReleases, SelectAll
    <3>2. Key(v) = FirstKey(task[v].keys)
      BY <1>1, <2>1, KeyType DEF SafeInv, TypeInv, Folding
    <3>3. QED
      BY <1>3, <3>1, <3>2 DEF SelectRequests
  <2>2. CASE pc[v] # "requests"
    BY <1>2, <1>5, <2>2 DEF TouchedRight
  <2>3. QED
    BY <2>1, <2>2
<1>7. run'[v] = run[v]
  BY DEF Advance
<1>8. TouchedRight(run'[v].touched, pc'[v], task'[v], db')
  BY <1>1, <1>2, <1>4, <1>5, <1>6, <1>7 DEF TouchedRight, Right
<1>9. QED
  BY <1>8, TouchStep DEF TouchedRight, Right, SoloInv

\* The row that the fold writes is right, and so is every other.
LEMMA AppliedTouches ==
  ASSUME SafeInv, SoloInv, LabInv, TouchInv, NEW v \in Worker, Applied(v)
  PROVE  TouchInv'
<1>1. /\ v \in Process /\ Running(v) /\ OneEvent(v) /\ pc[v] = "upsert"
      /\ task[v].posted # {}
  BY DEF Worker, Applied, LabInv, OneEvent
<1>2. UpsertPosted(v) /\ ~Refused(v) /\ pc'[v] = "idle"
  BY <1>1, AppliedPosts
<1>3. PICK e \in db.events : task[v].posted = {e} /\ task[v].keys = {e.bucket}
  BY <1>1 DEF SoloInv, WorkerInv, WorkerOK, HandlerKnows, Reading
<1>4. View(v) = db
  BY <1>1 DEF SoloInv, WorkerInv, WorkerOK, LocallyOK, View, Reading
<1>5. Key(v) = e.bucket /\ FirstKey(task[v].keys) = e.bucket /\ e.bucket \in Bucket
  BY <1>1, <1>3, KeyType DEF SafeInv, TypeInv, Folding
<1>6. /\ db'.events = db.events
      /\ \A b \in Bucket : db'.snapshot[b] = IF b = e.bucket THEN Projection(db.events)[b]
                                             ELSE db.snapshot[b]
  BY <1>1, <1>2, <1>4, <1>5, UpsertedWorks DEF SoloInv, UpsertPosted, Publish
<1>7. TouchedRight(run[v].touched, pc[v], task[v], db)
  BY <1>1 DEF TouchInv
<1>8. Right(db, e.bucket)' /\ \A b \in run[v].touched : Right(db, b)'
  BY <1>1, <1>3, <1>5, <1>6, <1>7 DEF TouchedRight, Right, Reading, LabInv, LabType, RunShape
<1>9. \A f \in task[v].posted : f.bucket \in Bucket
  BY <1>3, <1>5
<1>10. run'[v].touched = run[v].touched \cup {e.bucket}
  BY <1>3, <1>9, AppliedUpdates DEF LabInv, Updates
<1>11. TouchedRight(run[v].touched, pc[v], task[v], db)'
  BY <1>2, <1>8, <1>10 DEF TouchedRight, Reading
<1>12. QED
  BY <1>11, TouchStep DEF SoloInv

LEMMA NextTouches ==
  ASSUME SafeInv, SoloInv, LabInv, TouchInv, [LabNext]_labVars
  PROVE  TouchInv'
<1>1. Alone
  BY DEF SoloInv
<1>2. ASSUME NEW v \in Worker, StartChaos(v) \/ ChaosStep(v) PROVE TouchInv'
  <2>1. ASSUME Fail(v) \/ EndChaos(v) PROVE TouchInv'
    BY <1>1, <2>1, ExceptionUpdates, EndUpdates, NoRunTouches DEF Fail, LabInv, Updates
  <2>2. QED
    BY <1>1, <1>2, <2>1, StartTouches, GenerateTouches, AppendTouches, FoldTouches,
       AppliedTouches, PhaseTouches DEF ChaosStep
<1>3. ASSUME NEW p \in Process, CrashLab(p) PROVE TouchInv'
  <2>1. \A w \in Worker : w = p
    BY <1>1 DEF Alone, Worker
  <2>2. \A w \in Worker : ~Running(w)'
    BY <1>3, <2>1 DEF CrashLab, Running, NoRun
  <2>3. QED
    BY <2>2 DEF TouchInv
<1>4. CASE OtherStep
  <2>1. \A w \in Worker : ~Running(w)
    BY <1>1, <1>4, ProcessAssumption DEF Alone, Worker, OtherStep
  <2>2. QED
    BY <1>4, <2>1 DEF OtherStep, chaosVars, Running, TouchInv
<1>5. CASE UNCHANGED labVars
  BY <1>5 DEF TouchInv, TouchedRight, Right, Running, labVars, chaosVars, vars, walVars
<1>6. QED
  BY <1>2, <1>3, <1>4, <1>5 DEF LabNext

LEMMA TouchInvariant == Alone /\ LabSpec => [](SafeInv /\ LabInv /\ SoloInv /\ TouchInv)
<1>1. Alone /\ LabInit => SoloInv /\ TouchInv
  BY InitType, InitWorks DEF SoloInv, TouchInv, LabInit, Running, NoRun
<1>2. SafeInv /\ LabInv /\ SoloInv /\ TouchInv /\ [LabNext]_labVars => SoloInv' /\ TouchInv'
  BY LabSteps, NextSolo, NextTouches
<1>3. QED
  BY LabInvariant, <1>1, <1>2, PTL DEF LabSpec

\* The constant that a run answers when it ends: in one process every bucket it
\* has touched is as the log has it, whatever was left behind there before.
THEOREM TouchedFine == Alone /\ LabSpec => []TouchedConsistent
<1>1. ASSUME TouchInv PROVE TouchedConsistent
  <2> SUFFICES ASSUME NEW w \in Worker, Ending(w), NEW b \in run[w].touched
               PROVE  CanFold(b) /\ db.snapshot[b] = Projection(db.events)[b]
    BY DEF TouchedConsistent
  <2>1. Running(w) /\ pc[w] = "idle"
    BY DEF Ending, Running
  <2>2. Right(db, b)
    BY <1>1, <2>1 DEF TouchInv, TouchedRight, Reading
  <2>3. QED
    BY <2>2 DEF Right, CanFold
<1>2. QED
  BY <1>1, TouchInvariant, PTL

-----------------------------------------------------------------------------
(* One process alone: what a run counts as conflicts against the size of   *)
(* the audit log.                                                          *)

LEMMA NoAuditRows == AuditRows(EmptyBag) = {}
  BY DEF AuditRows, EmptyBag, SetToBag, BagToSet

\* An entry that is written is one more row.
LEMMA OneMoreRow ==
  ASSUME NEW B, IsABag(B), IsFiniteSet(AuditRows(B)), NEW x
  PROVE  LET C == B (+) SetToBag({x})
         IN  /\ IsFiniteSet(AuditRows(C))
             /\ CountAuditEntries(C) = CountAuditEntries(B) + 1
<1> DEFINE C == B (+) SetToBag({x})
           n == IF x \in DOMAIN B THEN B[x] ELSE 0
<1>1. n \in Nat /\ \A y \in DOMAIN B : B[y] \in Nat
  BY DEF IsABag
<1>2. /\ DOMAIN C = DOMAIN B \cup {x} /\ C[x] = n + 1
      /\ \A y \in DOMAIN B \ {x} : C[y] = B[y]
  BY <1>1 DEF (+), SetToBag
<1>3. \A y, k : <<y, k>> \in AuditRows(B) <=> y \in DOMAIN B /\ k \in 1 .. B[y]
  BY DEF AuditRows, BagToSet
<1>4. \A y, k : <<y, k>> \in AuditRows(C) <=> y \in DOMAIN C /\ k \in 1 .. C[y]
  BY DEF AuditRows, BagToSet
<1>5. 1 .. n + 1 = (1 .. n) \cup {n + 1} /\ n + 1 \notin 1 .. n /\ 1 .. 0 = {}
  BY <1>1
<1>6. <<x, n + 1>> \notin AuditRows(B)
  BY <1>3, <1>5
<1>7. \A y, k : <<y, k>> \in AuditRows(C) <=> <<y, k>> \in AuditRows(B) \cup {<<x, n + 1>>}
  <2> SUFFICES ASSUME NEW y, NEW k
               PROVE  <<y, k>> \in AuditRows(C)
                        <=> <<y, k>> \in AuditRows(B) \cup {<<x, n + 1>>}
    OBVIOUS
  <2>1. CASE y = x
    BY <1>2, <1>3, <1>4, <1>5, <2>1
  <2>2. CASE y # x
    BY <1>2, <1>3, <1>4, <2>2
  <2>3. QED
    BY <2>1, <2>2
<1>8. /\ \A r \in AuditRows(B) : \E y, k : r = <<y, k>>
      /\ \A r \in AuditRows(C) : \E y, k : r = <<y, k>>
  BY DEF AuditRows
<1> HIDE DEF C, n
<1>9. AuditRows(C) = AuditRows(B) \cup {<<x, n + 1>>}
  BY <1>7, <1>8
<1>10. QED
  BY <1>6, <1>9, FS_AddElement DEF CountAuditEntries, C

\* The process sees every entry that is committed, and no other.
AuditSeen ==
  /\ IsFiniteSet(AuditRows(db.audit))
  /\ \A p \in Process : View(p).audit = db.audit

LEMMA SeenStep ==
  ASSUME Alone, NEW p \in Process, View(p)'.audit = db'.audit,
         IsFiniteSet(AuditRows(db'.audit))
  PROVE  AuditSeen'
<1>1. \A q \in Process : q = p
  BY DEF Alone
<1>2. \A q \in Process : View(q)'.audit = db'.audit
  BY <1>1
<1>3. QED
  BY <1>2 DEF AuditSeen, AuditRows

LEMMA PublishSeen ==
  ASSUME SoloInv, AuditSeen, NEW p \in Process, NEW d, Publish(p, d),
         \/ d.audit \in {View(p).audit, EmptyBag}
         \/ \E x : d.audit = View(p).audit (+) SetToBag({x})
  PROVE  AuditSeen'
<1>1. db' = d /\ View(p)' = d
  BY AlonePublishes
<1>2. View(p).audit = db.audit /\ IsFiniteSet(AuditRows(db.audit)) /\ IsABag(db.audit)
  BY DEF AuditSeen, SoloInv, TypeInv, WalTypeOK, IsDatabase
<1>3. IsFiniteSet(AuditRows(d.audit))
  BY <1>2, NoAuditRows, FS_EmptySet, OneMoreRow
<1>4. QED
  BY <1>1, <1>3, SeenStep DEF SoloInv

LEMMA SelectSeen ==
  ASSUME SoloInv, AuditSeen, NEW p \in Process, db' = db,
         conn' = [conn EXCEPT ![p] = AfterSelect(p)]
  PROVE  AuditSeen'
<1>1. View(p)' = View(p)
  BY AloneSelects DEF SoloInv
<1>2. QED
  BY <1>1, SeenStep DEF SoloInv, AuditSeen

LEMMA CloseSeen ==
  ASSUME SoloInv, AuditSeen, NEW p \in Process, db' = db,
         conn' = [conn EXCEPT ![p] = Closed]
  PROVE  AuditSeen'
<1>1. View(p)' = db
  BY AloneCloses DEF SoloInv
<1>2. QED
  BY <1>1, SeenStep DEF SoloInv, AuditSeen

LEMMA FoldSeen ==
  ASSUME SoloInv, AuditSeen, NEW p \in Process, FoldStep(p)
  PROVE  AuditSeen'
<1>1. CASE SelectRequests(p) \/ SelectReleases(p) \/ SelectAll(p)
  BY <1>1, SelectSeen, CloseSeen
     DEF SelectRequests, SelectReleases, SelectAll, Select, Raise
<1>2. CASE WriteAudit(p)
  <2>1. PICK x : Publish(p, [View(p) EXCEPT
                               !.audit = @ (+) SetToBag({EntryFor(x, task[p].reqs)})])
    BY <1>2, AloneWrites DEF WriteAudit, SoloInv
  <2>2. IsDatabase(View(p))
    BY ViewType DEF SoloInv, TypeInv
  <2>3. [View(p) EXCEPT !.audit = @ (+) SetToBag({EntryFor(x, task[p].reqs)})].audit
          = View(p).audit (+) SetToBag({EntryFor(x, task[p].reqs)})
    BY <2>2 DEF IsDatabase
  <2>4. QED
    BY <2>1, <2>3, PublishSeen
<1>3. QED
  BY <1>1, <1>2 DEF FoldStep

LEMMA PostSeen ==
  ASSUME SoloInv, NEW p \in Process, PostStep(p)
  PROVE  \E d : Publish(p, d) /\ d.audit = View(p).audit
<1>1. IsDatabase(View(p)) /\ ~Refused(p)
  BY ViewType, AloneWrites DEF SoloInv, TypeInv
<1>2. CASE Append(p)
  <2>1. PICK e : ~KeyTaken(View(p), e) /\ task[p].posted = {e}
    BY <1>2 DEF SoloInv, WorkerInv, WorkerOK, HandlerKnows, Append, KeyTaken
  <2>2. Publish(p, [View(p) EXCEPT !.events = @ \cup {e}])
    BY <1>1, <1>2, <2>1 DEF Append
  <2>3. [View(p) EXCEPT !.events = @ \cup {e}].audit = View(p).audit
    BY <1>1 DEF IsDatabase
  <2>4. QED
    BY <2>2, <2>3
<1>3. CASE UpsertPosted(p)
  <2>1. Publish(p, Upserted(p)) /\ Upserted(p).audit = View(p).audit
    BY <1>1, <1>3, UpsertedWorks DEF UpsertPosted, SoloInv
  <2>2. QED
    BY <2>1
<1>4. QED
  BY <1>2, <1>3 DEF PostStep

LEMMA RebuildSeen ==
  ASSUME SoloInv, AuditSeen, NEW p \in Process, RebuildStep(p)
  PROVE  AuditSeen'
<1>1. IsDatabase(View(p)) /\ ~Refused(p)
  BY ViewType, AloneWrites DEF SoloInv, TypeInv
<1>2. CASE DropSnapshot(p)
  <2>1. Publish(p, [View(p) EXCEPT !.snapshot = EmptySnapshot])
    BY <1>1, <1>2 DEF DropSnapshot
  <2>2. [View(p) EXCEPT !.snapshot = EmptySnapshot].audit = View(p).audit
    BY <1>1 DEF IsDatabase
  <2>3. QED
    BY <2>1, <2>2, PublishSeen
<1>3. CASE DropAudit(p)
  <2>1. Publish(p, [View(p) EXCEPT !.audit = EmptyBag])
    BY <1>1, <1>3 DEF DropAudit
  <2>2. [View(p) EXCEPT !.audit = EmptyBag].audit = EmptyBag
    BY <1>1 DEF IsDatabase
  <2>3. QED
    BY <2>1, <2>2, PublishSeen
<1>4. CASE UpsertRebuilt(p)
  <2>1. /\ db' = db
        /\ conn' = [conn EXCEPT ![p] = [mode |-> "writing", view |-> Upserted(p),
                                        stale |-> FALSE]]
    BY <1>1, <1>4 DEF UpsertRebuilt, Write
  <2>2. View(p)' = Upserted(p)
    BY <2>1 DEF SoloInv, TypeInv, WalTypeOK, View
  <2>3. Upserted(p).audit = View(p).audit
    BY <1>4, UpsertedWorks DEF UpsertRebuilt, SoloInv
  <2>4. QED
    BY <2>1, <2>2, <2>3, SeenStep DEF AuditSeen, SoloInv
<1>5. CASE FinishRebuild(p) /\ conn[p].mode = "writing"
  <2>1. Publish(p, View(p))
    BY <1>5 DEF FinishRebuild, Commit, View
  <2>2. QED
    BY <2>1, PublishSeen
<1>6. CASE FinishRebuild(p) /\ conn[p].mode # "writing"
  BY <1>6, CloseSeen DEF FinishRebuild, Commit
<1>7. QED
  BY <1>2, <1>3, <1>4, <1>5, <1>6 DEF RebuildStep

LEMMA NextSeen ==
  ASSUME SoloInv, AuditSeen, [Next]_vars
  PROVE  AuditSeen'
<1>1. ASSUME NEW w \in Worker, Receive(w) \/ Read(w) PROVE AuditSeen'
  BY <1>1, SelectSeen DEF Worker, Receive, Read, Select
<1>2. ASSUME NEW p \in Process, StartRebuild(p) PROVE AuditSeen'
  BY <1>2, SelectSeen DEF StartRebuild, Select
<1>3. ASSUME NEW p \in Process, PostStep(p) PROVE AuditSeen'
  BY <1>3, PostSeen, PublishSeen
<1>4. ASSUME NEW p \in Process, Crash(p) PROVE AuditSeen'
  BY <1>4, CloseSeen DEF Crash
<1>5. CASE UNCHANGED vars
  BY <1>5 DEF AuditSeen, AuditRows, View, vars, walVars
<1>6. QED
  BY <1>1, <1>2, <1>3, <1>4, <1>5, FoldSeen, RebuildSeen DEF Next, Continue

\* The fold under way has recorded a conflict that the run has not counted.
Noted(w) ==
  /\ pc[w] \in {"conflicts", "orphans", "upsert"}
  /\ ConflictLeaders(task[w].reqs) # {}
  /\ pc[w] = "conflicts" => task[w].todo # ConflictLeaders(task[w].reqs)

Tallied(w) ==
  /\ run[w].before \in Nat /\ run[w].counted \in Nat
  /\ run[w].counted + (IF Noted(w) THEN 1 ELSE 0)
       <= CountAuditEntries(db.audit) - run[w].before

TallyInv == AuditSeen /\ \A w \in Worker : Running(w) => Tallied(w)

LEMMA CountType ==
  ASSUME AuditSeen
  PROVE  CountAuditEntries(db.audit) \in Nat
  BY FS_CardinalityType DEF AuditSeen, CountAuditEntries

\* What is to be shown of a step of the one worker.
LEMMA TallyStep ==
  ASSUME Alone, NEW v \in Worker, AuditSeen', Running(v)' => Tallied(v)'
  PROVE  TallyInv'
<1>1. \A w \in Worker : w = v
  BY DEF Alone, Worker
<1>2. QED
  BY <1>1 DEF TallyInv

LEMMA NoRunTallies ==
  ASSUME Alone, NEW v \in Worker, AuditSeen', run'[v] = NoRun
  PROVE  TallyInv'
  BY TallyStep DEF Running, NoRun

\* A step of the run after which no conflict is noted and not counted.
LEMMA BetweenTallies ==
  ASSUME Alone, TallyInv, AuditSeen', NEW v \in Worker, Running(v),
         db'.audit = db.audit, SameTally(run'[v], run[v]), ~Noted(v)'
  PROVE  TallyInv'
<1>1. Tallied(v) /\ CountAuditEntries(db.audit) \in Nat
  BY CountType DEF TallyInv
<1>2. run'[v].before = run[v].before /\ run'[v].counted = run[v].counted
  BY DEF SameTally
<1>3. Tallied(v)'
  BY <1>1, <1>2 DEF Tallied, CountAuditEntries, AuditRows
<1>4. QED
  BY <1>3, TallyStep

LEMMA StartTallies ==
  ASSUME SoloInv, LabInv, TallyInv, AuditSeen', NEW v \in Worker, StartChaos(v)
  PROVE  TallyInv'
<1>1. v \in Process /\ db' = db /\ pc' = pc /\ pc[v] = "idle"
  BY DEF Worker, StartChaos, Select
<1>2. run'[v].counted = 0 /\ run'[v].before = CountAuditEntries(View(v).audit)
  BY StartUpdates DEF LabInv, Updates
<1>3. View(v).audit = db.audit /\ CountAuditEntries(db.audit) \in Nat
  BY <1>1, CountType DEF TallyInv, AuditSeen
<1>4. ~Noted(v)'
  BY <1>1 DEF Noted
<1>5. Tallied(v)'
  BY <1>1, <1>2, <1>3, <1>4 DEF Tallied, CountAuditEntries, AuditRows
<1>6. QED
  BY <1>5, TallyStep DEF SoloInv

LEMMA GenerateTallies ==
  ASSUME SafeInv, Alone, LabInv, TallyInv, AuditSeen', NEW v \in Worker,
         Generate(v) \/ Repeat(v)
  PROVE  TallyInv'
<1>1. Receive(v) /\ pc[v] = "idle" /\ Running(v)
  BY DEF Generate, Repeat, Making, Running
<1>2. db' = db
  BY <1>1 DEF Receive, Select
<1>3. ~Noted(v)'
  <2>1. pc' = pc \/ \E t : Goto(v, "append", t)
    BY <1>1 DEF Receive
  <2>2. v \in Process
    BY DEF Worker
  <2>3. QED
    BY <1>1, <2>1, <2>2, GotoFacts DEF SafeInv, TypeInv, Noted
<1>4. SameTally(run'[v], run[v])
  BY RepeatUpdates DEF LabInv, Updates, SameTally, Generate, chaosVars
<1>5. QED
  BY <1>1, <1>2, <1>3, <1>4, BetweenTallies

LEMMA PhaseTallies ==
  ASSUME Alone, LabInv, TallyInv, AuditSeen', NEW v \in Worker, NextPhase(v)
  PROVE  TallyInv'
<1>1. CASE EndByException(v)
  BY <1>1, ExceptionUpdates, NoRunTallies DEF LabInv, Updates
<1>2. CASE ~EndByException(v)
  <2>1. SameTally(run'[v], run[v])
    BY <1>2, PhaseUpdates DEF LabInv, Updates
  <2>2. Running(v) /\ db' = db /\ pc' = pc /\ pc[v] = "idle"
    BY DEF NextPhase, vars, walVars
  <2>3. ~Noted(v)'
    BY <2>2 DEF Noted
  <2>4. QED
    BY <2>1, <2>2, <2>3, BetweenTallies
<1>3. QED
  BY <1>1, <1>2

LEMMA AppendTallies ==
  ASSUME SafeInv, SoloInv, LabInv, TallyInv, AuditSeen', NEW v \in Worker,
         Advance(v), pc[v] = "append"
  PROVE  TallyInv'
<1>1. v \in Process /\ Running(v)
  BY DEF Worker, Advance
<1>2. pc'[v] = "requests"
  BY AdvanceAppend
<1>3. Append(v)
  BY DEF Advance, Continue, FoldStep, RebuildStep, PostStep, SelectRequests, WriteAudit,
         SelectReleases, SelectAll, DropSnapshot, DropAudit, UpsertRebuilt,
         FinishRebuild, UpsertPosted
<1>4. db'.audit = db.audit
  BY <1>1, <1>3, PostSeen DEF PostStep, Publish, TallyInv, AuditSeen
<1>5. SameTally(run'[v], run[v])
  BY DEF SameTally, Advance
<1>6. ~Noted(v)'
  BY <1>2 DEF Noted
<1>7. QED
  BY <1>1, <1>4, <1>5, <1>6, BetweenTallies DEF SoloInv

\* The statements of the fold: the first query notes nothing yet, an entry
\* that is written is a row more, and the others keep what is noted.
LEMMA FoldTallies ==
  ASSUME SafeInv, SoloInv, LabInv, TallyInv, AuditSeen', NEW v \in Worker,
         Advance(v), pc[v] # "append"
  PROVE  TallyInv'
<1>1. /\ v \in Process /\ Running(v) /\ OneEvent(v) /\ task[v] \in Task
      /\ FoldStep(v)
  BY AdvanceFold DEF Worker, Advance, LabInv, SafeInv, TypeInv, ControlOK
<1>2. Tallied(v) /\ CountAuditEntries(db.audit) \in Nat
  BY <1>1, CountType DEF TallyInv
<1>3. ~ \E c : Raise(v, c)
  <2>1. ASSUME NEW c, Raise(v, c) PROVE FALSE
    BY <1>1, <2>1, GotoFacts DEF SafeInv, TypeInv, Raise, Done, Advance
  <2>2. QED
    BY <2>1
<1>4. run'[v] = run[v]
  BY DEF Advance
<1>5. CASE SelectRequests(v)
  <2> DEFINE R == RequestsOf(View(v).events, Key(v))
             t == [task[v] EXCEPT !.reqs = R, !.todo = ConflictLeaders(R)]
  <2>1. Goto(v, "conflicts", t) /\ db' = db
    BY <1>3, <1>5 DEF SelectRequests, Select
  <2>2. t.reqs = R /\ t.todo = ConflictLeaders(R)
    BY <1>1 DEF Task
  <2> HIDE DEF t, R
  <2>3. ~Noted(v)'
    BY <1>1, <2>1, <2>2, GotoFacts DEF SafeInv, TypeInv, Noted
  <2>4. QED
    BY <1>1, <1>4, <2>1, <2>3, BetweenTallies DEF SameTally, SoloInv
<1>6. CASE SelectReleases(v) \/ SelectAll(v)
  <2>1. \E l, t : /\ Goto(v, l, t) /\ t.reqs = task[v].reqs
                  /\ \/ pc[v] = "conflicts" /\ task[v].todo = {} /\ l = "orphans"
                     \/ pc[v] = "orphans" /\ l = "upsert"
    <3>1. CASE SelectReleases(v)
      <4> DEFINE rels == ReleasesOf(View(v).events, Key(v))
                 t == [task[v] EXCEPT !.rels = rels,
                                      !.todo = Orphans(rels, Accepted(task[v].reqs))]
      <4>1. /\ Goto(v, "orphans", t) /\ pc[v] = "conflicts" /\ task[v].todo = {}
        BY <3>1 DEF SelectReleases
      <4>2. t.reqs = task[v].reqs
        BY <1>1 DEF Task
      <4> HIDE DEF t
      <4>3. QED
        BY <4>1, <4>2
    <3>2. CASE SelectAll(v)
      <4> DEFINE all == EventsOf(View(v).events, Key(v))
                 t == [task[v] EXCEPT !.row = FoldRow(task[v].reqs, task[v].rels, all)]
      <4>1. Goto(v, "upsert", t) /\ pc[v] = "orphans"
        BY <3>2 DEF SelectAll
      <4>2. t.reqs = task[v].reqs
        BY <1>1 DEF Task
      <4> HIDE DEF t
      <4>3. QED
        BY <4>1, <4>2
    <3>3. QED
      BY <1>6, <3>1, <3>2
  <2>2. Noted(v)' => Noted(v)
    BY <1>1, <2>1, GotoFacts DEF SafeInv, TypeInv, Noted
  <2>3. db' = db
    BY <1>6 DEF SelectReleases, SelectAll, Select
  <2>4. Tallied(v)'
    BY <1>2, <1>4, <2>2, <2>3 DEF Tallied, CountAuditEntries, AuditRows
  <2>5. QED
    BY <2>4, TallyStep DEF SoloInv
<1>7. CASE WriteAudit(v)
  <2>1. PICK x : db' = [View(v) EXCEPT !.audit = @ (+) SetToBag({EntryFor(x, task[v].reqs)})]
    BY <1>1, <1>7, AloneWrites DEF WriteAudit, Publish, SoloInv
  <2>2. /\ IsDatabase(View(v)) /\ View(v).audit = db.audit
        /\ IsFiniteSet(AuditRows(db.audit)) /\ IsABag(db.audit)
    BY <1>1, ViewType DEF SoloInv, TypeInv, WalTypeOK, IsDatabase, TallyInv, AuditSeen
  <2>3. db'.audit = db.audit (+) SetToBag({EntryFor(x, task[v].reqs)})
    BY <2>1, <2>2 DEF IsDatabase
  <2>4. CountAuditEntries(db'.audit) = CountAuditEntries(db.audit) + 1
    BY <2>2, <2>3, OneMoreRow
  <2>5. CountAuditEntries(db.audit)' = CountAuditEntries(db'.audit)
    BY DEF CountAuditEntries, AuditRows
  <2>6. Tallied(v)'
    BY <1>2, <1>4, <2>4, <2>5 DEF Tallied
  <2>7. QED
    BY <2>6, TallyStep DEF SoloInv
<1>8. QED
  BY <1>1, <1>5, <1>6, <1>7 DEF FoldStep

\* A conflict that is counted was noted.
LEMMA AppliedTallies ==
  ASSUME SafeInv, SoloInv, LabInv, TallyInv, AuditSeen', NEW v \in Worker, Applied(v)
  PROVE  TallyInv'
<1>1. /\ v \in Process /\ Running(v) /\ OneEvent(v) /\ pc[v] = "upsert"
      /\ task[v] \in Task
  BY DEF Worker, Applied, LabInv, SafeInv, TypeInv, ControlOK
<1>2. UpsertPosted(v) /\ pc'[v] = "idle"
  BY <1>1, AppliedPosts
<1>3. db'.audit = db.audit
  BY <1>1, <1>2, PostSeen DEF PostStep, Publish, TallyInv, AuditSeen
<1>4. \A e \in task[v].posted : e.bucket \in Bucket
  BY <1>1, EventAssumption DEF Task, EventPayload
<1>5. /\ run'[v].before = run[v].before
      /\ run'[v].counted = IF Detected(v) THEN run[v].counted + 1 ELSE run[v].counted
  BY <1>4, AppliedUpdates DEF LabInv, Updates
<1>6. Detected(v) => Noted(v)
  BY <1>1 DEF Detected, Noted
<1>7. Tallied(v) /\ CountAuditEntries(db.audit) \in Nat
  BY <1>1, CountType DEF TallyInv
<1>8. ~Noted(v)'
  BY <1>2 DEF Noted
<1>9. Tallied(v)'
  BY <1>3, <1>5, <1>6, <1>7, <1>8 DEF Tallied, CountAuditEntries, AuditRows
<1>10. QED
  BY <1>9, TallyStep DEF SoloInv

LEMMA NextTallies ==
  ASSUME SafeInv, SoloInv, LabInv, TallyInv, [LabNext]_labVars
  PROVE  TallyInv'
<1>1. Alone /\ AuditSeen'
  BY LabSteps, NextSeen DEF SoloInv, TallyInv
<1>2. ASSUME NEW v \in Worker, StartChaos(v) \/ ChaosStep(v) PROVE TallyInv'
  <2>1. ASSUME Fail(v) \/ EndChaos(v) PROVE TallyInv'
    BY <1>1, <2>1, ExceptionUpdates, EndUpdates, NoRunTallies DEF Fail, LabInv, Updates
  <2>2. QED
    BY <1>1, <1>2, <2>1, StartTallies, GenerateTallies, AppendTallies, FoldTallies,
       AppliedTallies, PhaseTallies DEF ChaosStep
<1>3. ASSUME NEW p \in Process, CrashLab(p) PROVE TallyInv'
  <2>1. \A w \in Worker : w = p
    BY <1>1 DEF Alone, Worker
  <2>2. \A w \in Worker : ~Running(w)'
    BY <1>3, <2>1 DEF CrashLab, Running, NoRun
  <2>3. QED
    BY <1>1, <2>2 DEF TallyInv
<1>4. CASE OtherStep
  <2>1. \A w \in Worker : ~Running(w)
    BY <1>1, <1>4, ProcessAssumption DEF Alone, Worker, OtherStep
  <2>2. QED
    BY <1>1, <1>4, <2>1 DEF OtherStep, chaosVars, Running, TallyInv
<1>5. CASE UNCHANGED labVars
  BY <1>1, <1>5 DEF TallyInv, Tallied, Noted, CountAuditEntries, AuditRows, Running,
                    labVars, chaosVars, vars, walVars
<1>6. QED
  BY <1>2, <1>3, <1>4, <1>5 DEF LabNext

LEMMA InitTallies == LabInit => TallyInv
<1> SUFFICES ASSUME LabInit PROVE TallyInv
  OBVIOUS
<1>1. \A w \in Worker : ~Running(w)
  BY DEF LabInit, Running, NoRun
<1>2. db.audit = EmptyBag /\ \A p \in Process : View(p) = db
  BY DEF LabInit, Init, WalInit, View, Closed, Blank
<1>3. AuditSeen
  BY <1>2, NoAuditRows, FS_EmptySet DEF AuditSeen
<1>4. QED
  BY <1>1, <1>3 DEF TallyInv

\* A run counts conflicts from the answers of the pipeline, and takes the
\* number of entries from the size of the table: in one process the table has
\* grown by an entry for each conflict that was counted.
THEOREM ConflictsRecorded == Alone /\ LabSpec => []ConflictsAudited
<1>1. ASSUME TallyInv PROVE ConflictsAudited
  <2> SUFFICES ASSUME NEW w \in Worker, Running(w)
               PROVE  run[w].counted <= CountAuditEntries(db.audit) - run[w].before
    BY DEF ConflictsAudited
  <2>1. Tallied(w) /\ CountAuditEntries(db.audit) \in Nat
    BY <1>1, CountType DEF TallyInv
  <2>2. QED
    BY <2>1 DEF Tallied
<1>2. SafeInv /\ LabInv /\ SoloInv /\ TallyInv /\ [LabNext]_labVars => TallyInv'
  BY NextTallies
<1>3. QED
  BY TouchInvariant, InitTallies, <1>1, <1>2, PTL DEF LabSpec

=============================================================================
