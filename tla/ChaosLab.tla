------------------------------- MODULE ChaosLab -------------------------------
(***************************************************************************)
(* run_chaos of app/services/chaos.py: one handler of a worker that puts   *)
(* generated events through the ingestion of AllocationEngine and counts   *)
(* what becomes of them in a dictionary of its process.  The run goes on   *)
(* through four phases; an exception ends it where it is.                  *)
(*                                                                         *)
(* An event of a run that is applied joins acked, one that is repeated     *)
(* joins duplicates, as if a client had been answered.  The activity list  *)
(* and the times are left out.                                             *)
(***************************************************************************)
EXTENDS EngineProperties

CONSTANTS
  Load,        \* the bodies of POST /chaos/run
  Generated,   \* the events that each phase may make up
  ClientEvent  \* the payloads that clients post beside the runs

Making == {"baseline", "late", "rivals"}

ASSUME LoadAssumption ==
  Load \subseteq [events : Nat, duplicates : Int, late : Nat, conflicts : Nat]

ASSUME GeneratedAssumption ==
  /\ Generated \in [Making -> SUBSET Event]
  /\ \A phase \in Making : \A e \in Generated[phase] : e.action = "request"

VARIABLES
  run,      \* the locals of run_chaos in each worker
  status,   \* _status: what each worker counts
  stored,   \* history: the events of runs that this process has stored
  failed    \* history: the runs that an exception ended in this process

chaosVars == <<run, status, stored, failed>>

labVars == <<vars, chaosVars>>

\* The phase, the events it has still to make, generated_ids, dup_ids, the
\* group that competes at the moment, and before_audit.  Two history fields:
\* the buckets of the events applied, and how many conflicts were counted.
NoRun ==
  [ phase |-> "none", load |-> [events |-> 0, duplicates |-> 0, late |-> 0, conflicts |-> 0],
    left |-> 0, generated |-> {}, dups |-> {}, competing |-> {}, before |-> 0,
    touched |-> {}, counted |-> 0 ]

NoStatus == [processed |-> 0, conflicts |-> 0, duplicates |-> 0, audits |-> 0]

LabInit ==
  /\ Init
  /\ run = [w \in Worker |-> NoRun]
  /\ status = [w \in Worker |-> NoStatus]
  /\ stored = [w \in Worker |-> {}]
  /\ failed = [w \in Worker |-> 0]

Running(w) == run[w].phase # "none"

\* An event_id is a uuid4: it is new.
New(phase) == {e \in Generated[phase] : e.id \notin Ids(db.events)}

\* Bound: a run starts only while there are payloads enough to make it up.
Supplied(load) ==
  /\ load.events <= Cardinality(New("baseline"))
  /\ load.late <= Cardinality(New("late"))
  /\ 3 * load.conflicts <= Cardinality(New("rivals"))

\* The table audit_log has a row for each time that an entry was written.
AuditRows(audit) ==
  UNION {{entry} \X (1 .. audit[entry]) : entry \in BagToSet(audit)}

CountAuditEntries(audit) == Cardinality(AuditRows(audit))

-----------------------------------------------------------------------------
StartChaos(w) ==
  /\ pc[w] = "idle"
  /\ ~Running(w)
  /\ \E load \in Load :
       /\ Supplied(load)
       /\ run' = [run EXCEPT ![w] =
                    [NoRun EXCEPT !.phase = "baseline",
                                  !.load = load,
                                  !.left = load.events,
                                  !.before = CountAuditEntries(View(w).audit)]]
  /\ Select(w)
  /\ UNCHANGED <<pc, task, acked, duplicates, status, stored, failed>>

\* One generated event enters the pipeline; three rivals share a bucket.
Generate(w) ==
  /\ pc[w] = "idle"
  /\ run[w].phase \in Making
  /\ run[w].left > 0
  /\ \E e \in New(run[w].phase) :
       /\ \A f \in run[w].competing : f.bucket = e.bucket
       /\ Receive(w)
       /\ task'[w].posted = {e}
  /\ UNCHANGED chaosVars

\* An event of the first phase again: the dedup check stops it.
Repeat(w) ==
  /\ pc[w] = "idle"
  /\ run[w].phase = "duplicates"
  /\ \E e \in run[w].dups :
       /\ Seen(w, e)
       /\ Receive(w)
       /\ pc' = pc
       /\ duplicates' = duplicates \cup {e}
       /\ run' = [run EXCEPT ![w].dups = @ \ {e}]
  /\ status' = [status EXCEPT ![w].duplicates = @ + 1]
  /\ UNCHANGED <<stored, failed>>

-----------------------------------------------------------------------------
(* The pipeline, up to the end of apply_event_to_state or an exception.    *)

Stores(w) == IF pc[w] = "append" /\ pc'[w] = "requests" THEN task[w].posted ELSE {}

Advance(w) ==
  /\ Running(w)
  /\ Continue(w)
  /\ pc'[w] # "idle"
  /\ stored' = [stored EXCEPT ![w] = @ \cup Stores(w)]
  /\ UNCHANGED <<run, status, failed>>

\* conflict_detected: the fold wrote an entry about a group, of this event or
\* of others.  The last phase does not look at it.
Detected(w) ==
  run[w].phase # "rivals" /\ ConflictLeaders(task[w].reqs) # {}

\* Mutant: an event is counted only if it met no conflict.
CountOne(s, detected) ==
  [s EXCEPT !.processed = IF detected THEN @ ELSE @ + 1,
            !.conflicts = IF detected THEN @ + 1 ELSE @]

Count(s, detected) ==
  [s EXCEPT !.processed = @ + 1,
            !.conflicts = IF detected THEN @ + 1 ELSE @]

\* The locals of a run after its event e was applied.
Made(r, e, detected) ==
  [r EXCEPT !.left = @ - 1,
            !.generated = IF r.phase = "baseline" THEN @ \cup {e} ELSE @,
            !.competing = IF r.phase # "rivals" \/ r.left % 3 = 1 THEN {} ELSE @ \cup {e},
            !.touched = @ \cup {e.bucket},
            !.counted = IF detected THEN @ + 1 ELSE @]

Applied(w) ==
  /\ Running(w)
  /\ pc[w] = "upsert"
  /\ Continue(w)
  /\ task[w].posted \subseteq acked'
  /\ \E e \in task[w].posted :
       run' = [run EXCEPT ![w] = Made(@, e, Detected(w))]
  /\ status' = [status EXCEPT ![w] = Count(@, Detected(w))]
  /\ UNCHANGED <<stored, failed>>

\* Mutant: the run stays marked as going on.
StaysMarked(w) == w \in Worker /\ UNCHANGED chaosVars

EndByException(w) ==
  /\ run' = [run EXCEPT ![w] = NoRun]
  /\ failed' = [failed EXCEPT ![w] = @ + 1]
  /\ UNCHANGED <<status, stored>>

Fail(w) ==
  /\ Running(w)
  /\ Continue(w)
  /\ pc'[w] = "idle"
  /\ ~ (task[w].posted \subseteq acked')
  /\ EndByException(w)

-----------------------------------------------------------------------------
(* From phase to phase.                                                    *)

\* random.sample of the ids of the first phase.
Samples(r) ==
  {S \in SUBSET r.generated :
     \/ Cardinality(S) = r.load.duplicates
     \/ S = r.generated /\ Cardinality(S) < r.load.duplicates}

\* random.sample refuses a negative number, after the first phase is done.
SampleFails(r) == r.generated # {} /\ r.load.duplicates < 0

Enter(w, phase, left) ==
  run' = [run EXCEPT ![w].phase = phase, ![w].left = left]

NextPhase(w) ==
  /\ pc[w] = "idle"
  /\ Running(w)
  /\ run[w].left = 0
  /\ LET r == run[w] IN
     \/ /\ r.phase = "baseline"
        /\ ~SampleFails(r)
        /\ \E S \in IF r.generated = {} THEN {{}} ELSE Samples(r) :
             run' = [run EXCEPT ![w].phase = "duplicates", ![w].dups = S]
        /\ UNCHANGED <<status, stored, failed>>
     \/ /\ r.phase = "baseline"
        /\ SampleFails(r)
        /\ EndByException(w)
     \/ /\ r.phase = "duplicates"
        /\ r.dups = {}
        /\ Enter(w, "late", r.load.late)
        /\ UNCHANGED <<status, stored, failed>>
     \/ /\ r.phase = "late"
        /\ Enter(w, "rivals", 3 * r.load.conflicts)
        /\ UNCHANGED <<status, stored, failed>>
  /\ UNCHANGED vars

Ending(w) ==
  pc[w] = "idle" /\ run[w].phase = "rivals" /\ run[w].left = 0

CreatedAudits(w) ==
  NonNegative(CountAuditEntries(View(w).audit) - run[w].before)

EndChaos(w) ==
  /\ Ending(w)
  /\ status' = [status EXCEPT ![w].audits = @ + CreatedAudits(w)]
  /\ run' = [run EXCEPT ![w] = NoRun]
  /\ Select(w)
  /\ UNCHANGED <<pc, task, acked, duplicates, stored, failed>>

-----------------------------------------------------------------------------
\* The dictionary is gone with its process.
CrashLab(p) ==
  /\ Crash(p)
  /\ run' = [w \in Worker |-> IF w = p THEN NoRun ELSE run[w]]
  /\ status' = [w \in Worker |-> IF w = p THEN NoStatus ELSE status[w]]
  /\ stored' = [w \in Worker |-> IF w = p THEN {} ELSE stored[w]]
  /\ failed' = [w \in Worker |-> IF w = p THEN 0 ELSE failed[w]]

\* The clients, served by a worker between two runs, and the replayers.
Posted(w) ==
  /\ Receive(w)
  /\ task'[w].posted \subseteq ClientEvent
  /\ duplicates' \ duplicates \subseteq ClientEvent

OtherStep ==
  /\ \/ \E w \in Worker :
          ~Running(w) /\ (Posted(w) \/ Read(w) \/ StartRebuild(w) \/ Continue(w))
     \/ \E r \in Replayer : StartRebuild(r) \/ Continue(r)
  /\ UNCHANGED chaosVars

ChaosStep(w) ==
  \/ Generate(w) \/ Repeat(w)
  \/ Advance(w) \/ Applied(w) \/ Fail(w)
  \/ NextPhase(w) \/ EndChaos(w)

LabNext ==
  \/ \E w \in Worker : StartChaos(w) \/ ChaosStep(w)
  \/ \E p \in Process : CrashLab(p)
  \/ OtherStep

\* A run that has started goes on: it is one call in one thread.
LabSpec ==
  /\ LabInit
  /\ [][LabNext]_labVars
  /\ \A w \in Worker : WF_labVars(ChaosStep(w))

-----------------------------------------------------------------------------
\* The counters against the log.  Every event a run counts is stored, and what
\* it has stored and does not count was under way when an exception ended a
\* run: one for each, and the one under way now.
CountersFollowLog ==
  \A w \in Worker :
    LET uncounted == Cardinality(stored[w]) - status[w].processed
    IN  /\ stored[w] \subseteq db.events
        /\ uncounted \in 0 .. failed[w] + (IF Running(w) /\ pc[w] # "idle" THEN 1 ELSE 0)

\* Every conflict that a run shows has an audit entry that was written since
\* the run began, although the run counts the one from the answers of the
\* pipeline and takes the other from the size of the table.
ConflictsAudited ==
  \A w \in Worker :
    Running(w) => run[w].counted <= CountAuditEntries(db.audit) - run[w].before

\* "final_state_consistent": True (chaos.py), a constant, is true of every
\* bucket that the run has touched, whatever crashes and failed runs left
\* behind in it before.
TouchedConsistent ==
  \A w \in Worker :
    Ending(w) =>
      \A b \in run[w].touched :
        CanFold(b) /\ db.snapshot[b] = Projection(db.events)[b]

\* A run ends, with its summary or with an exception.
RunsEnd == \A w \in Worker : Running(w) ~> ~Running(w)

=============================================================================
