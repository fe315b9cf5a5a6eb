------------------------------ MODULE ReplayTool ------------------------------
(***************************************************************************)
(* cmd_diff of app/replay.py beside the processes of AllocationEngine: it  *)
(* reads the rows (BeginDiff), rebuilds them with rebuild_state_from_events *)
(* and compares the amounts of the two.  An exception ends the process     *)
(* before it has compared anything.                                        *)
(***************************************************************************)
EXTENDS EngineProperties

VARIABLES
  live,     \* live_dict, and the rows it was made of, of each replayer in a diff
  rebuilt,  \* rebuilt_dict as far as the buckets are folded
  logThen,  \* history: the log when a replayer read the rows
  quietThen \* history: no worker was in a handler at that moment

diffVars == <<live, rebuilt, logThen, quietThen>>

toolVars == <<vars, diffVars>>

NoDiff(r) == live[r] = {}

WorkersIdle == \A w \in Worker : pc[w] = "idle"

ToolInit ==
  /\ Init
  /\ live = [r \in Replayer |-> {}]
  /\ rebuilt = [r \in Replayer |-> {}]
  /\ logThen = [r \in Replayer |-> {}]
  /\ quietThen = [r \in Replayer |-> FALSE]

\* StateSnapshot.as_dict: the amount of each row, and nothing else of it.
AsDict(rows) == {<<b, rows[b].allocated>> : b \in {c \in Bucket : rows[c] # NoRow}}

\* get_current_state, before anything is deleted.
BeginDiff(r) ==
  /\ pc[r] = "idle"
  /\ NoDiff(r)
  /\ live' = [live EXCEPT ![r] = {View(r).snapshot}]
  /\ logThen' = [logThen EXCEPT ![r] = db.events]
  /\ quietThen' = [quietThen EXCEPT ![r] = WorkersIdle]
  /\ Select(r)
  /\ UNCHANGED <<pc, task, acked, duplicates, rebuilt>>

\* The bucket that UpsertRebuilt has just folded.
Collected(r) ==
  IF pc[r] = "upsert" /\ pc'[r] # "idle"
    THEN rebuilt[r] \cup {<<Key(r), task[r].row.allocated>>}
    ELSE rebuilt[r]

\* The rebuild of a diff, to its end or to an exception.
DiffStep(r) ==
  /\ ~NoDiff(r)
  /\ StartRebuild(r) \/ Continue(r)
  /\ IF pc'[r] = "idle"
       THEN /\ live' = [live EXCEPT ![r] = {}]
            /\ rebuilt' = [rebuilt EXCEPT ![r] = {}]
            /\ logThen' = [logThen EXCEPT ![r] = {}]
            /\ quietThen' = [quietThen EXCEPT ![r] = FALSE]
       ELSE /\ rebuilt' = [rebuilt EXCEPT ![r] = Collected(r)]
            /\ UNCHANGED <<live, logThen, quietThen>>

CrashDiff(r) ==
  /\ ~NoDiff(r)
  /\ Crash(r)
  /\ live' = [live EXCEPT ![r] = {}]
  /\ rebuilt' = [rebuilt EXCEPT ![r] = {}]
  /\ logThen' = [logThen EXCEPT ![r] = {}]
  /\ quietThen' = [quietThen EXCEPT ![r] = FALSE]

\* The other processes; a replayer run with --rebuild is one of them.
EngineStep ==
  /\ \/ \E w \in Worker :
          Receive(w) \/ Read(w) \/ StartRebuild(w) \/ Continue(w) \/ Crash(w)
     \/ \E r \in Replayer :
          NoDiff(r) /\ (StartRebuild(r) \/ Continue(r) \/ Crash(r))
  /\ UNCHANGED diffVars

ToolNext ==
  \/ \E r \in Replayer : BeginDiff(r) \/ DiffStep(r) \/ CrashDiff(r)
  \/ EngineStep

ToolSpec == ToolInit /\ [][ToolNext]_toolVars

-----------------------------------------------------------------------------
\* All buckets are folded; what is left is the last commit and the verdict.
Reporting(r) == ~NoDiff(r) /\ pc[r] = "commit"

\* Mutant: the live rows are read after the rebuild.
IdenticalToItself(r) == AsDict(View(r).snapshot) = rebuilt[r]

\* live_dict == rebuilt_dict: the exit status is 0.
Identical(r) == \A rows \in live[r] : AsDict(rows) = rebuilt[r]

\* What a dictionary says of a bucket: its amount, if it has one.
AmountIn(dict, b) == {pair \in dict : pair[1] = b}

\* The logs there may have been since the log was T, if it is U now.
LogsBetween(T, U) == {L \in SUBSET U : T \subseteq L}

\* The verdict is about the rows that were live, although the tool has deleted
\* them by then and other processes have gone on storing, folding, rebuilding
\* and failing.  "Identical" is said only if the rows had for each bucket the
\* amount that the log determined at some time during the diff, and the opposite
\* only if they had not what it determined all that time: with no event stored
\* in between, just if the amounts were wrong.
VerdictTells ==
  \A r \in Replayer : Reporting(r) =>
    \A rows \in live[r] :
      LET Right(b, L) == AmountIn(AsDict(rows), b) = AmountIn(AsDict(Projection(L)), b)
          Logs == LogsBetween(logThen[r], db.events)
      IN  IF Identical(r)
            THEN \A b \in Bucket : \E L \in Logs : Right(b, L)
            ELSE \E b \in Bucket : \E L \in Logs : ~Right(b, L)

-----------------------------------------------------------------------------
(* What the documentation says of the exit status.                         *)

\* The rows were read and the verdict is given with no POST in flight.
BetweenPosts(r) == Reporting(r) /\ quietThen[r] /\ WorkersIdle

\* "0 - success / states are identical" (replay.py): no POST is in flight and
\* none was stored since, so rows that the tool calls identical are those of
\* the log.  Nothing but the amounts is compared: rows that a crash left without
\* an event which changes no amount are called identical too.
IdenticalMeansIdentical ==
  \A r \in Replayer :
    BetweenPosts(r) /\ logThen[r] = db.events /\ Identical(r) =>
      live[r] = {Projection(db.events)}

=============================================================================
