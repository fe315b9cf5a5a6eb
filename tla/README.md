# A TLA+ model of the CloudArbiter allocation engine

CloudArbiter is an event-sourced allocation engine: clients post requests and
releases of GPU, CPU and memory, the engine stores them in an append-only log
in SQLite and folds the log of each (region, resource type) bucket into a row
of a snapshot table, resolving conflicts by priority, carbon intensity and
time under a hard capacity, and recording the decisions in an audit log.

This directory holds its specification: the modules, the TLC configurations
that check them on small instances, and proofs checked by TLAPS for every
instance. Paths and line numbers are those of the repository.

## The system

### Components

| Component | State | Operations | What makes it correct |
|---|---|---|---|
| Event model, `app/models/event.py` | – | validation, window, overlap | half-open windows; a total order of the log |
| Event store, `services/event_store.py` | table `events` | dedup and append; ordered queries | ids unique; the log only grows; an answer stays true |
| Conflict resolver, `services/conflict_resolver.py` | – | sweep into groups; ranking and greedy acceptance; orphan test | groups are the components of overlap; the hard cap; a rejected request had its turn |
| State reconstructor, `services/state_reconstructor.py` | table `state_snapshot` | fold of a bucket; online update; full rebuild; reads; time travel | the snapshot is the fold of the log; a row is what its version says; a rebuild restores it |
| Audit engine, `services/audit_engine.py` | table `audit_log` | append an entry; reads | every visible decision has its entry |
| Database layer, `app/db.py` | connections | open, DDL, pragmas | one writer; no lost append |
| API, `app/routers/*`, `app/main.py` | – | POST /events, GET /state, GET /audit, POST /admin/replay | every handler ends |
| Replay tool, `app/replay.py` | – | rebuild, diff, export | safe beside a running API |
| Explainability, `services/explainability.py` | – | a decision told as checks | agrees with the resolver |
| Chaos lab, `services/chaos.py` | counters, activity list | a run of random events in four phases | counters follow the log; what a run shows is in the audit log and the snapshot |
| Dashboard, seed scripts, fixtures | – | presentation, demo data | – |

### How they interact

POST /events calls the event store, which commits the event, and then the
reconstructor, which folds the bucket and commits the row. The fold issues
three SELECTs (requests at line 116, releases at 162, everything at 208) and
one INSERT with a commit of its own for each audit entry. A rebuild deletes
both derived tables in two commits, folds every bucket, and commits the rows
at the end, except that each audit entry's commit publishes the rows upserted
so far.

The handlers are coroutines without an `await`, so a server process runs one
request at a time. What interleaves is the SQL of different operating-system
processes: a `python -m app.replay` beside the API, or several workers (the
Dockerfile starts one). What interrupts is a crash, a power loss, an exception,
and the busy timeout of SQLite. Nothing in the code rolls a transaction back, so
what a failed statement leaves behind matters.

The chaos lab is a handler that posts its own events through the same functions,
hundreds in one request, and counts them in its process. Time travel copies the
log into a private database in memory and rebuilds there. Both, the replay tool
and the explanations read what the others wrote, each in transactions of its
own.

### What is hard

The list is kept in `PROJECT.json` under `hazards`, each at its line. In
short: the two commits of one POST; three SELECTs of one fold that see
different logs; a rebuild that spans many commits; failed DML that leaves a
transaction open (write lock held after an IntegrityError, view frozen after
"database is locked"); exceptions between commits; retroactive decisions when
an event arrives late; two orders of the same log, by text and by instant;
boundaries of windows and capacity; counters and verdicts beside the tables they
are about.

## The modules

| Module | Models | From |
|---|---|---|
| `AllocEvents` | events, windows, the order of the log, sums | `models/event.py`, queries of `event_store.py` |
| `ConflictResolver` | the outcome of a fold: accepted requests, orphans, entries, row | `conflict_resolver.py`, `_fold_bucket` |
| `SqliteWal` | connections, views, write lock, commits | `db.py`, SQLite in WAL mode and Python's `sqlite3` as the code uses them |
| `AllocationEngine` | POST, rebuild, read, crash, statement by statement | `routers/events.py`, `event_store.py`, `state_reconstructor.py`, `audit_engine.py`, `main.py`, `replay.py` |
| `EngineProperties` | what the engine promises and what its documentation says | – |
| `EventLedger` | abstract: what any client may rely on, whatever serves it | the contract of `routers/events.py`, `event_store.py` |
| `Ledger` | abstract: the same with the rows of one worker | the contract of `state_reconstructor.py` |
| `PowerLoss` | the engine on a machine that loses power | `PRAGMA synchronous=NORMAL`, `db.py` |
| `TimeTravel` | the state at an instant; the time range of the log | `get_state_at_timestamp`, `get_events_timerange` |
| `ReplayTool` | `--diff` beside a worker and `--rebuild` | `replay.py`, `StateSnapshot.as_dict` |
| `ChaosLab` | a chaos run as a handler of a worker, with its counters | `services/chaos.py`, `routers/chaos.py` |
| `FoldLoop` | the loops behind `ConflictResolver`, one iteration a step | `find_overlapping_groups`, `resolve_conflicts`, `_fold_bucket` |
| `Explainability` | the checks of a decision and the winner shown | `explainability.py`, `routers/audit.py` |
| `FoldProperties` | what the loops compute | – |
| `MCEngine`, `MCPower`, `MCReplay`, `MCChaos`, `MCFold` | instances for TLC | – |
| `ResolverProofs` | theorems and lemmas about the operators of the fold | – |
| `EngineProofs`, `LogProofs` | theorems about any processes: types, transactions, log, capacity | – |
| `WorkerProofs` | theorems about one process: rows, audit log, rebuild, time travel | – |
| `LedgerProofs` | theorems: the refinements | – |
| `FoldProofs`, `ReplayProofs`, `ChaosProofs` | theorems about `FoldLoop` with `Explainability`, `ReplayTool`, `ChaosLab` | – |

`AllocationEngine` extends `SqliteWal`, which extends `ConflictResolver`,
which extends `AllocEvents`. `FoldLoop` extends `ConflictResolver` and is the
detailed computation whose outcome `AllocationEngine` uses in one step.
`EngineProperties` adds `TimeTravel`, whose functions it compares with the
tables, and instantiates the two ledgers. `PowerLoss`, `ReplayTool` and
`ChaosLab` each extend it with the variables of one more actor and compose that
actor's steps with the engine's.

### State and actions of `AllocationEngine`

`db` is what is committed in the three tables; the audit log is a bag, since
each entry is a row of its own. `conn[p]` is the connection of process p.
`pc[p]` and `task[p]` are where its handler is and the locals that outlive a
statement. `acked` and `duplicates` are what clients were told.

| Action | Code |
|---|---|
| `Receive` | dedup SELECT and 409, `event_store.py` 40-49 |
| `Append` | INSERT and commit, 53-77; IntegrityError |
| `SelectRequests`, `SelectReleases`, `SelectAll` | the three queries of `_fold_bucket` and what is computed from each |
| `WriteAudit` | one `write_audit_entry` |
| `UpsertPosted` | `_upsert_bucket`, commit, 200 |
| `StartRebuild`, `DropSnapshot`, `DropAudit`, `UpsertRebuilt`, `FinishRebuild` | `rebuild_state_from_events` |
| `Read` | the GET endpoints |
| `Crash` | death of a process |

Every action that writes has a disjunct `Refused`: the write lock is taken or
the view is stale, the exception ends the handler, and the connection stays as
`AfterRefusal` says. The reads that do not change anything (the read-back of
the stored event, the old row) are left out: they run after a commit of the
same process or in a transaction whose view is frozen already.

### The actors beside the engine

`PowerLoss` keeps in `synced` the last committed state that is on disk. Any
commit may be flushed at once or later (`PowerNext`); `PowerOff` takes the
tables back to `synced` and starts every process again.

`ReplayTool` keeps `live_dict` and `rebuilt_dict` of a replayer in `live` and
`rebuilt`. `BeginDiff` reads the rows, `DiffStep` is any step of the rebuild
that follows, and the verdict `Identical` is taken when the buckets are folded
(`Reporting`). An exception or a crash ends the process without a verdict.
`logThen` and `quietThen` are history: the log when the rows were read, and whether
no worker was in a handler then.

`ChaosLab` keeps the locals of `run_chaos` in `run` and its dictionary in
`status`. A run drives the actions of its worker: `Generate` and `Repeat` are
`Receive` with an event of the run, `Advance`, `Applied` and `Fail` are
`Continue` in the middle, at the end and at an exception of one event,
`NextPhase` goes from baseline to duplicates, late events and rivals, and
`EndChaos` counts the audit entries. Between two runs the worker serves clients
and rebuilds; a crash clears the dictionary.

### The abstract specifications

`EventLedger` has three variables: the log and what was answered. An event
enters the log under a new id, is answered 200 once when it is there, and 409 is
given to ids that are there. `KeepsClientLedger` says that `AllocationEngine`
implements it with `log <- db.events`, for any number of processes. `Ledger` adds
the table: a row changes only to what the log says at that moment
(`Projection`), except that a rebuild empties the table, and a 200 leaves the row
of its bucket right. `KeepsWorkerLedger` says that one worker implements it.
What the refinement found: a rebuild that aborts keeps the rows it has upserted
in an open transaction, so a later `Store` may publish them; `Ledger!Store`
allows it, since they are still what the log says.

`KeepsLedgerBetweenLosses` says how much of `Ledger` is left when power is
lost: every step is one of `Ledger`, a loss, or `AnswerAgain`. A loss may take an
event whose 200 was sent; its id is then free for another payload, and that one
is answered 200 under an id that was answered before.

### Abstractions

* An amount is a small natural number and a sum is the cardinality of a set of
  units, so floats and their rounding are not modelled.
* A timestamp is a clock reading in hours and a UTC offset, or none. Instants
  order windows, groups and ranking; texts order the log, `MIN` and `MAX`.
  Fractions of seconds, whose ISO text varies in length, are left out.
* An event is its payload; equal payloads posted twice are one value.
* The audit entry keeps what was considered, accepted and rejected; its
  wording, uuid and time are left out.
* The fields of the answers other than their status are left out, except what
  the chaos lab counts of them.
* A power loss leaves a state that was committed; torn pages are SQLite's.
* The event ids of a chaos run are new (they are uuid4), and its bodies ask for
  no negative number of events, which is as none; the number of duplicates may be
  negative. The activity list, the times and the health score are left out.

## What TLC checks

All runs are exhaustive over their instance; no state constraint is used. The
sets of events are the bound: an event can be posted any number of times, but
is stored once, and the only other growth (the audit log) is bounded by the
folds between two rebuilds, of which each POST adds one. In `ChaosLab` the
payloads that phases may make up bound the number of runs.

`MCEngine` has two buckets of capacity 3 and four requests and releases chosen
so that the interesting cases meet: the second request of bucket 1 overlaps
the first, outranks it, fits exactly and evicts it, and its clock is three hours
ahead, so it comes last in the log; the release of the first gives back more
than was taken and becomes an orphan; a twin has the id of the first in another
bucket; one request has no UTC offset. `MCPower` has the twin and one request
whose window ends after the last date, `MCReplay` one that never fits, `MCChaos` rivals that are always
in conflict, late events that meet none of them, and a client that spoils a
bucket for the runs after it.

| Run | Instance | Shows |
|---|---|---|
| `EngineSolo` | one worker, rebuilds, fair | `QuiescentConsistent`: between requests the snapshot is the fold of the log. `PresentIsHistory`: time travel to now shows it too. `EventsReachRow`: every stored event gets there. `KeepsWorkerLedger`; `TypeOK` |
| `EnginePower` | one worker, rebuilds, crashes, power losses, a twin, an overflowing window | `VersionHonest`, `AuditBehindRow`, `RebuildRestores`, `EntriesBounded`, `KeepsLedgerBetweenLosses` |
| `EngineTwoWorkers` | two crashing workers, one rebuilds, clash of ids, fair | `UniqueIds`, `LogAppendOnly`, `AnswersDurable`, `AppliedOnce`, `KeepsClientLedger`, `HandlersEnd` |
| `ReplayTool` | a worker and a replayer that diffs, rebuilds, crashes | `RowsWithinCapacity`, `WalSound`; `VerdictTells`: "identical" only of amounts that were right at some time during the diff, the opposite only of rows that were not right all that time |
| `FoldLoop` | every log over ten events, 1024 of them | `GroupsAreComponents`, `HardCap`, `EveryRequestDecided`, `RejectedHadTurn`, `ComputesFold`, `ExplanationAgrees`, `LoopTypeOK` |
| `ChaosLab` | a worker that crashes, three loads, a client, rebuilds, fair | `CountersFollowLog`, `ConflictsAudited`, `TouchedConsistent`, `RunsEnd` |

Two processes are enough for the safety runs because every hazard of this
database is between one writer and one other connection: a lock that is held,
a view that is outdated, an id that is taken. Two buckets are enough for a
rebuild to be interrupted between them. The proofs below remove the bounds for
every safety property.

**Fairness.** `Fairness` is weak fairness of the next statement of each
process that has started a handler: the interpreter goes on. Nothing is
assumed of clients, and no crash is due. `EventsReachRow` is stated for one
worker without crashes and without a payload that cannot be folded: with them
it does not hold, as `DocDuplicate` and `DocPoison` show. `LabSpec` has weak
fairness of `ChaosStep`: a run is one call in one thread, which nothing
interleaves within its process.

### Disagreements with the documentation

Each run checks one sentence of the repository that the code does not keep;
`PROJECT.json` quotes it under `findings`.

| Run | The documentation says | The run shows |
|---|---|---|
| `DocDuplicate` | a 409 is a no-op on a consistent system | after a crash the row lacks the event, until another one or a rebuild folds its bucket |
| `DocReads` | reads return the current state | a frozen view after a refused write |
| `DocReplayRace` | replay works beside the API; state is the fold of the log | a rebuild that ends with a row missing or old |
| `DocPoison` | a rebuild reproduces the state | one naive timestamp makes it stop after deleting the rows |
| `DocDiff` | exit status 0 says that the states are identical | 0 with no POST in flight, for a row that lacks an event since a crash |
| `DocTimeRange` | the maximum timestamp of all events | an event with another UTC offset is later |

Four more sentences need no run. Three the model has in one action: a
rebuild deletes audit records (`DropAudit`; `services/audit_engine.py:5` says
never), each later event of a bucket records its conflicts again (`WriteAudit`
in each fold; `services/audit_engine.py:6` says exactly one entry;
`EntriesBounded` is what holds), and the IntegrityError that `event_store.py:35`
calls caught leaves the write lock taken (`Append`; `HandlersEnd` is what holds).
The fourth is exit status 1 of a diff, "replay-consistency broken"
(`replay.py:17`): an event stored between the reading of the rows and the rebuild
gives it too, and `VerdictTells` is what holds.

In the instance of `DocReplayRace` the properties `VersionHonest` (the three
queries of a fold see different logs) and `AuditBehindRow` (the rebuild deletes
an entry whose row the API then publishes) fail as well; they are promises for
one worker and no replayer.

## What is proved

TLAPS checks these for all sets of events, buckets and processes, from the
assumptions on the constants alone: events are payloads, buckets are numbers,
capacities are natural numbers, replayers rebuild, the loads of the chaos lab are
records of numbers. `Spec` is that of the module the theorem is about.

| Theorem | Module | States |
|---|---|---|
| `AcceptedResolves` | `ResolverProofs` | a request is in `Accepted(R)` exactly if it fits on top of those accepted before it |
| `AcceptedWithinCapacity` | `ResolverProofs` | the requests in `Accepted(R)` fit into the capacity |
| **any processes** | | |
| `TypeCorrect` | `EngineProofs` | `Spec => []TypeOK` |
| `TransactionsSound` | `LogProofs` | `Spec => []WalSound` |
| `IdsUnique` | `LogProofs` | `Spec => []UniqueIds` |
| `AnswersHold` | `LogProofs` | `Spec => []AnswersDurable` |
| `OneAnswerPerId` | `LogProofs` | `Spec => []AppliedOnce` |
| `LogOnlyGrows` | `LogProofs` | `Spec => LogAppendOnly` |
| `RowsNeverExceed` | `LogProofs` | `Spec => []RowsWithinCapacity` |
| `ImplementsClientLedger` | `LedgerProofs` | `Spec => KeepsClientLedger` |
| **one process** | | |
| `VersionsHonest` | `WorkerProofs` | `Alone /\ (Spec \/ PowerSpec) => []VersionHonest` |
| `AuditsBehindRows` | `WorkerProofs` | `Alone /\ (Spec \/ PowerSpec) => []AuditBehindRow` |
| `RebuildsRestore` | `WorkerProofs` | `Alone /\ (Spec \/ PowerSpec) => RebuildRestores` |
| `EntriesStayBounded` | `WorkerProofs` | `Alone /\ (Spec \/ PowerSpec) => []EntriesBounded` |
| `RowsMatchLog` | `WorkerProofs` | `Untroubled /\ Spec => []QuiescentConsistent` |
| `TravelsToPresent` | `WorkerProofs` | `Untroubled /\ Spec => []PresentIsHistory` |
| `ImplementsWorkerLedger` | `LedgerProofs` | `Alone /\ Spec => KeepsWorkerLedger` |
| `LedgerBetweenLosses` | `LedgerProofs` | `Alone /\ PowerSpec => KeepsLedgerBetweenLosses` |
| **the fold** | | |
| `LoopTypes` | `FoldProofs` | `Spec => []LoopTypeOK` |
| `HardCapHolds` | `FoldProofs` | `Spec => []HardCap` |
| `GroupsFound` | `FoldProofs` | `Spec => []GroupsAreComponents` |
| `AllDecided` | `FoldProofs` | `Spec => []EveryRequestDecided` |
| `FoldComputed` | `FoldProofs` | `Spec => []ComputesFold` |
| `RejectedInTurn` | `FoldProofs` | `Spec => []RejectedHadTurn` |
| `ChecksNameTopRanked` | `FoldProofs` | the checks of an entry name the event the resolver ranks first |
| `ExplainsDecisions` | `FoldProofs` | `Spec => []ExplanationAgrees` |
| **beside the engine** | | |
| `VerdictsTell` | `ReplayProofs` | `ToolSpec => []VerdictTells` |
| `DiffsAreSound` | `ReplayProofs` | `ToolSpec => []WalSound` |
| `DiffsNeverExceed` | `ReplayProofs` | `ToolSpec => []RowsWithinCapacity` |
| `LabImplementsEngine` | `ChaosProofs` | `LabSpec => Spec` |
| `CountersFollow` | `ChaosProofs` | `LabSpec => []CountersFollowLog` |
| `TouchedFine` | `ChaosProofs` | `Alone /\ LabSpec => []TouchedConsistent` |
| `ConflictsRecorded` | `ChaosProofs` | `Alone /\ LabSpec => []ConflictsAudited` |

**Hypotheses.** `Alone` says that there is one process, which may be a worker
that rebuilds and crashes: the Dockerfile starts one. With a second process the
properties under it fail (`DocReplayRace`). `Untroubled` is `Alone` for a worker
that is not killed and, if it rebuilds, can fold every bucket whatever is posted;
`DocDuplicate` and `DocPoison` show what happens otherwise. The instances of
`EngineSolo` and `EnginePower` satisfy them.

**Types.** `TypeOK` is not inductive: the row of a fold is a row only if the
sets it sums are finite, and the bucket of a fold exists only while there are
buckets to fold. `TypeInv` adds both. `ResolverProofs` proves that the sums are
numbers, from an induction over finite sets that needs no operator parameter.

**The log.** `SafeInv` is `TypeInv`, `WalSound` and four facts about the log.
The dedup check plays no part in uniqueness, since its view may be old. The
argument is: a connection that can write has a fresh view (`FreshView`), so
the primary key is compared with the committed log; a posted event is in the
log from its INSERT on (`PostedStored`); hence the id of a new event is neither
answered nor on its way to an answer. `WalSound` is what keeps a commit from
undoing the append of another process.

**The capacity of a row.** With several processes a fold may take its requests,
its releases and its version from three different logs, and its row is then the
fold of none. `CapacityInv` says why it is within the capacity all the same: the
amount rests on the first query alone, which saw different requests of the bucket
whose row is written, `AcceptedWithinCapacity` bounds those accepted, and
releases only take away. The invariant speaks of views as well as of tables,
since an open transaction may be committed later.

**One process.** `SoloInv` carries `WorkerInv`, which has two parts. `RowBacked`:
every row, committed or not, is the fold of some events of the log, and the
entries of that fold are in the audit log. `FoldKnows` and `HandlerKnows`: a
handler has read the log as it is, and has recorded all entries but those in
`todo`. So a fold writes the row of the log with its entries recorded, a crash
leaves older rows that are still backed, and a row whose version is the number
of events can only be the fold of all of them. `PowerInv` adds that what is on
disk is backed too. `RestInv`, for a process that is `Untroubled`, says which
bucket may be behind while a handler runs: that of the posted event, and no other.

**The number of entries.** `EntriesBounded` is not inductive: while a bucket is
still to be folded there must be room for the entry that the fold will write. In
`CountInv` an entry that this fold has not written yet is recorded less often than
its bucket has events. An append makes that room, a rebuild makes it by
truncating, and `StartsOnce` and `EntriesDiffer` say that one fold writes an entry
once.

**The refinements.** Under `SafeInv` each action maps to one step of
`EventLedger` or to a stutter. `Append` is `Store` because the view it writes to
shows all committed events; `UpsertPosted` is `Answer` because the posted event
is stored and its id not answered; `Receive` is `Refuse` because a view shows
only committed events; a commit of any other action leaves the log as it was.
`Ledger` needs `SoloInv` besides, for the row that an answer leaves.

**The sweep.** `find_overlapping_groups` compares a start with one number, the
latest end so far, and never two requests. `Sweeping` says why that is enough:
what is still to come starts no earlier than anything in the group, so the
request of the group that ends last overlaps whatever starts before that end
(`JoinConnected`), and what starts after it is apart from the whole group for
good. `Deciding` carries the partition through the group loop: what is not
decided is in a group still to come, which `Disjoint` keeps apart from what is.

**The group loop.** `Budget` relates the running total of a group to the accepted
requests of all groups. It is inductive only with `Disjoint`: were a request in
two groups, the set of accepted requests would not grow by what the running
total grows. That the loops compute `Accepted` is `OutcomeInv`: what is decided so
far obeys the greedy rule and comes before all that is not (`InTurn`). The
equation that defines `Accepted` has a solution and only one (`AcceptedResolves`,
`ResolvesUnique`), so a loop that has decided everything has computed it.

**The explanation.** Both rankings are total, the resolver's by one
lexicographic key, that of the checks by one key after the other over what the
key before left; a case for each check that decides.

**The verdict.** `DiffInv`: a replayer never sees less of the log than it saw
before, whatever views its connection holds, so each of its queries sees a log
between the one it started from and the present one (`DiffOK`). The requests and
the releases of one fold may come from two of these, but they are different events:
together with the first log they are a log in between that gives both
(`FoldOfReads`). So the amount of each bucket folded is that of such a log, and
a bucket that has none had no events at first (`Collects`).

**The chaos lab.** `LabInv` follows one event: from its INSERT on it is stored
and not counted (`UnderWay`), and it is then either counted or the one uncounted
event of a run that failed. `TouchInv` is `RestInv` for a worker that is killed and
whose buckets others may have spoiled: a run that goes on has folded each bucket
it touched, so only that of the event under way may be behind.
`TallyInv` follows one conflict: its entry is written by the fold, and the run counts
it when the handler answers, so in between (`Noted`) the audit log must have
grown by one entry more than the run has counted. The run measures the log as
its process sees it; `AuditSeen` says that this is the committed log, which
one process alone can rely on.

**Found by proving.** Two statements of this model were wrong, and no instance had
shown it. `KeepsLedgerBetweenLosses` did not allow the second 200 of an id; the
step could not be proved, so the property has the step
`AnswerAgain` and `EnginePower` a twin. `Repeat` let the lab take up a new event in place of the one
that it repeats, when that was already among the `duplicates`.

### Only model-checked

* Liveness: `HandlersEnd`, `EventsReachRow`, `RunsEnd`. TLAPS does not reason about
  fairness.
* The sentences that do not hold (`Doc...`) have counterexamples and no proofs.

## What is not modelled

* `cmd_export` and the pages of the audit log: reads whose result nothing uses.
* Floats: `running_total + amount <= capacity` over naturals has no rounding.
* Response bodies, the chaos lab's activity list, times and health score.
* The number a replayer exits with after an exception (1, as for a difference).
* Dashboard, seed scripts, fixtures, health, CORS: presentation and I/O.

## Plan

Done: everything listed under "The modules", and the proofs above.

1. `VersionHonest` and `AuditBehindRow` for several workers of which none rebuilds:
   what is left of them when two folds of a bucket interleave.
2. A replayer beside a chaos run, where the clamp of `CreatedAudits` acts.
3. The pages of the audit log beside a rebuild.
