------------------------------ MODULE SqliteWal ------------------------------
(***************************************************************************)
(* The SQLite database of app/db.py as its connections see it: WAL mode,   *)
(* one connection per process, and Python's sqlite3 in its legacy          *)
(* transaction control, which issues BEGIN before the first DML statement  *)
(* and never rolls back by itself.                                         *)
(*                                                                         *)
(* A connection is in one of four modes:                                   *)
(*   "auto"     no transaction: every SELECT sees the latest commit        *)
(*   "begun"    BEGIN was issued, then the DML was refused because another *)
(*              connection held the write lock past the busy timeout       *)
(*   "reading"  the next SELECT of a begun transaction froze its view      *)
(*   "writing"  it holds the write lock; its view has uncommitted changes  *)
(* A reading connection is stale once another one commits; SQLite then     *)
(* refuses all its writes (SQLITE_BUSY_SNAPSHOT).                          *)
(***************************************************************************)
EXTENDS ConflictResolver, Bags

CONSTANT Process   \* the operating-system processes that open the database

VARIABLES
  db,     \* what is committed
  conn    \* the connection of each process

walVars == <<db, conn>>

\* The three tables.  An audit entry is a row of its own each time it is
\* written (decision_id is a fresh uuid4), hence a bag.
IsDatabase(d) ==
  /\ d = [events |-> d.events, snapshot |-> d.snapshot, audit |-> d.audit]
  /\ d.events \subseteq Event
  /\ IsFiniteSet(d.events)
  /\ d.snapshot \in [Bucket -> Row]
  /\ IsABag(d.audit)
  /\ DOMAIN d.audit \subseteq AuditEntry

EmptySnapshot == [b \in Bucket |-> NoRow]

Blank == [events |-> {}, snapshot |-> EmptySnapshot, audit |-> EmptyBag]

\* A connection without a frozen view; Blank is a placeholder.
Closed == [mode |-> "auto", view |-> Blank, stale |-> FALSE]

Begun == [mode |-> "begun", view |-> Blank, stale |-> FALSE]

Frozen(m) == [mode |-> m, view |-> db, stale |-> FALSE]

IsConnection(c) ==
  /\ c = [mode |-> c.mode, view |-> c.view, stale |-> c.stale]
  /\ c.mode \in {"auto", "begun", "reading", "writing"}
  /\ IsDatabase(c.view)
  /\ c.stale \in BOOLEAN

WalTypeOK ==
  /\ IsDatabase(db)
  /\ DOMAIN conn = Process
  /\ \A p \in Process : IsConnection(conn[p])

WalInit ==
  /\ db = Blank
  /\ conn = [p \in Process |-> Closed]

-----------------------------------------------------------------------------
(* What p sees, and what a SELECT of p does to its connection.             *)

View(p) ==
  IF conn[p].mode \in {"auto", "begun"} THEN db ELSE conn[p].view

AfterSelect(p) ==
  IF conn[p].mode = "begun" THEN Frozen("reading") ELSE conn[p]

Select(p) ==
  /\ conn' = [conn EXCEPT ![p] = AfterSelect(p)]
  /\ db' = db

-----------------------------------------------------------------------------
(* DML.  There is one write lock, and a stale connection cannot take it.   *)

\* Mutant: no write lock, any current view may be written on.
CanWriteTogether(p) == ~conn[p].stale

CanWrite(p) ==
  \/ conn[p].mode = "writing"
  \/ ~conn[p].stale /\ \A q \in Process \ {p} : conn[q].mode # "writing"

\* The DML fails with "database is locked".  A connection in "auto" has
\* issued its BEGIN and stays in that transaction.
AfterRefusal(p) ==
  IF conn[p].mode = "auto" THEN Begun ELSE conn[p]

\* p changes its view to d and keeps the transaction open.
Write(p, d) ==
  /\ CanWrite(p)
  /\ conn' = [conn EXCEPT ![p] = [mode |-> "writing", view |-> d, stale |-> FALSE]]
  /\ db' = db

\* A connection after another one committed; touched says whether the commit
\* wrote a page.
Outdated(c, touched) ==
  IF c.mode = "reading" /\ touched THEN [c EXCEPT !.stale = TRUE] ELSE c

\* p changes its view to d and commits.  A page whose bytes do not change is
\* not written, so a commit that leaves the content as it was may or may not
\* outdate the views of the others.
Publish(p, d) ==
  /\ CanWrite(p)
  /\ db' = d
  /\ \E touched \in BOOLEAN :
       /\ d # db => touched
       /\ conn' = [q \in Process |->
                     IF q = p THEN Closed ELSE Outdated(conn[q], touched)]

\* conn.commit(): publishes an open write transaction, ends any other one.
Commit(p) ==
  IF conn[p].mode = "writing"
    THEN Publish(p, conn[p].view)
    ELSE db' = db /\ conn' = [conn EXCEPT ![p] = Closed]

-----------------------------------------------------------------------------
\* The transactions of the processes: one writer at a time; no view shows an
\* event that is not committed; a view that may still become a commit shows
\* every event that is.
WalSound ==
  /\ \A p, q \in Process :
       conn[p].mode = "writing" /\ conn[q].mode = "writing" => p = q
  /\ \A p \in Process :
       /\ conn[p].stale => conn[p].mode = "reading"
       /\ conn[p].mode = "writing" => conn[p].view.events = db.events
       /\ conn[p].mode = "reading" =>
            /\ conn[p].view.events \subseteq db.events
            /\ ~conn[p].stale => conn[p].view = db

=============================================================================
