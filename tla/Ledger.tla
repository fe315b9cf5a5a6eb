-------------------------------- MODULE Ledger --------------------------------
(***************************************************************************)
(* What a client of one worker sees: beside the log and the answers of     *)
(* EventLedger, a table of rows that only ever changes to what the log     *)
(* says.  A 200 leaves the row of its bucket right; a rebuild empties the  *)
(* table and fills it again, in parts; nothing else touches a row.         *)
(***************************************************************************)
EXTENDS ConflictResolver

VARIABLES log, answered, refused, table

Client == INSTANCE EventLedger

ledgerVars == <<log, answered, refused, table>>

Fresh(S) == [b \in Bucket |-> IF b \in S THEN Projection(log)[b] ELSE table[b]]

Init == Client!Init /\ table = [b \in Bucket |-> NoRow]

\* The commit of an event also publishes the rows that a rebuild folded from
\* the log before it and could not commit, because a later bucket failed.
Store(e) == Client!Store(e) /\ \E S \in SUBSET Bucket : table' = Fresh(S)

Answer(e) == Client!Answer(e) /\ table' = Fresh({e.bucket})

Refuse(e) == Client!Refuse(e) /\ UNCHANGED table

Empty ==
  /\ table' = [b \in Bucket |-> NoRow]
  /\ UNCHANGED <<log, answered, refused>>

Refresh ==
  /\ \E S \in SUBSET Bucket : table' = Fresh(S)
  /\ UNCHANGED <<log, answered, refused>>

Next ==
  \/ \E e \in Event : Store(e) \/ Answer(e) \/ Refuse(e)
  \/ Empty
  \/ Refresh

Spec == Init /\ [][Next]_ledgerVars
=============================================================================
