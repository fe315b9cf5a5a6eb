----------------------------- MODULE AllocEvents -----------------------------
(***************************************************************************)
(* The events of the allocation engine: app/models/event.py, the queries   *)
(* of app/services/event_store.py and the capacities of app/config.py.     *)
(*                                                                         *)
(* An event is the payload of POST /events.  Its event_id, user and        *)
(* amounts are small naturals.  Its timestamp is the local clock reading,  *)
(* in hours, and the UTC offset, if it is aware of one.  A bucket is a     *)
(* (region, resource_type) pair, numbered in their lexicographic order.    *)
(***************************************************************************)
EXTENDS Integers, FiniteSets

CONSTANTS
  Event,     \* the payloads clients may post
  Bucket,    \* the (region, resource_type) pairs, in ORDER BY order
  User,      \* the values of user_id
  Capacity,  \* CAPACITY of the bucket's resource type
  MaxTime    \* the last clock reading of datetime (datetime.max); the first is 0

\* In hours; datetime takes offsets of less than a day.
UtcOffset == -23 .. 23

EventPayload ==
  [ id       : Nat,
    clock    : Nat,
    aware    : BOOLEAN,
    offset   : UtcOffset,
    action   : {"request", "release"},
    bucket   : Bucket,
    amount   : Nat \ {0},
    carbon   : Nat,
    user     : User,
    priority : 1 .. 10,
    duration : Nat \ {0} ]

ASSUME EventAssumption == Event \subseteq EventPayload
ASSUME BucketAssumption == Bucket \subseteq Nat
ASSUME CapacityAssumption == Capacity \in [Bucket -> Nat]
ASSUME MaxTimeAssumption == MaxTime \in Nat

-----------------------------------------------------------------------------
(* Time windows: [window_start, window_end), half open, in UTC.  Python    *)
(* compares aware timestamps by their instants.                            *)

Offset(e) == IF e.aware THEN e.offset ELSE 0

WindowStart(e) == e.clock - Offset(e)

WindowEnd(e) == WindowStart(e) + e.duration

Overlaps(e, f) ==
  WindowStart(e) < WindowEnd(f) /\ WindowStart(f) < WindowEnd(e)

\* sorted(..., key = (timestamp, event_id)): the order of instants.
StartsBefore(e, f) ==
  \/ WindowStart(e) < WindowStart(f)
  \/ WindowStart(e) = WindowStart(f) /\ e.id < f.id

-----------------------------------------------------------------------------
(* ORDER BY timestamp ASC, event_id ASC.  The column is ISO-8601 text, so  *)
(* the clock readings come first and then the texts of the offsets: no     *)
(* offset, a prefix of the others; "+00:00" and up; "-01:00" and down.     *)

Zone(e) ==
  IF ~e.aware THEN 0 ELSE IF e.offset >= 0 THEN 1 + e.offset ELSE 24 - e.offset

TextBefore(e, f) ==
  \/ e.clock < f.clock
  \/ e.clock = f.clock /\ Zone(e) < Zone(f)

LogBefore(e, f) ==
  \/ TextBefore(e, f)
  \/ e.clock = f.clock /\ Zone(e) = Zone(f) /\ e.id < f.id

Ids(S) == {e.id : e \in S}

EventsOf(log, b) == {e \in log : e.bucket = b}

RequestsOf(log, b) == {e \in EventsOf(log, b) : e.action = "request"}

ReleasesOf(log, b) == {e \in EventsOf(log, b) : e.action = "release"}

\* The first and the last event of a set in the order of the log, each as a
\* set: empty for the empty set (last_event_id is None).
Earliest(S) == {e \in S : \A f \in S \ {e} : LogBefore(e, f)}

Latest(S) == {e \in S : \A f \in S \ {e} : LogBefore(f, e)}

\* The first event of a set in the order of instants.
FirstStarting(S) == {e \in S : \A f \in S \ {e} : StartsBefore(e, f)}

\* window_end adds to the clock reading, which stays within datetime.max.
Ends(e) == e.clock + e.duration <= MaxTime

\* Sorting the requests compares their timestamps, which Python refuses when
\* only some of them carry an offset (TypeError); computing window_end fails
\* past datetime.max (OverflowError).
Foldable(R) ==
  /\ \A e, f \in R : e.aware = f.aware
  /\ \A e \in R : Ends(e)

-----------------------------------------------------------------------------
(* Sums over events are cardinalities of the set of their units, so that   *)
(* they need neither recursion nor an order.                               *)

Units(S) == UNION {{e} \X (1 .. e.amount) : e \in S}

Total(S) == Cardinality(Units(S))

CarbonUnits(S) == UNION {{e} \X (1 .. e.amount * e.carbon) : e \in S}

TotalCarbon(S) == Cardinality(CarbonUnits(S))

=============================================================================
