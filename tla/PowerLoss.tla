------------------------------ MODULE PowerLoss ------------------------------
(***************************************************************************)
(* The engine on a machine that loses power.  With synchronous=NORMAL      *)
(* (app/db.py) a commit in WAL mode is not flushed, so what is left after  *)
(* a power loss is some earlier committed state: at least the one of the   *)
(* last flush, which the operating system or a checkpoint does when it     *)
(* likes.  No commit is lost without those after it.                       *)
(***************************************************************************)
EXTENDS EngineProperties

VARIABLE synced   \* the committed state that is flushed

powerVars == <<vars, synced>>

PowerInit == Init /\ synced = Blank

\* Every process dies, and the container starts again.
PowerOff ==
  /\ db' = synced
  /\ conn' = [p \in Process |-> Closed]
  /\ pc' = [p \in Process |-> "idle"]
  /\ task' = [p \in Process |-> NoTask]
  /\ UNCHANGED <<synced, acked, duplicates>>

PowerNext ==
  \/ Next /\ synced' \in {synced, db'}
  \/ PowerOff

PowerSpec == PowerInit /\ [][PowerNext]_powerVars

-----------------------------------------------------------------------------
\* The 200 of an event whose id was answered before, for an event that a loss
\* of power took from the log.
AnswerAgain(e) ==
  /\ e \in db.events \ acked
  /\ e.id \in Ids(acked)
  /\ e.id \notin Ids(acked \cap db.events)
  /\ acked' = acked \cup {e}
  /\ db'.snapshot = WorkerLedger!Fresh({e.bucket})
  /\ UNCHANGED <<db.events, duplicates>>

\* Between two losses of power the engine implements Ledger, and after one of
\* them only what it took is stored and answered again.
KeepsLedgerBetweenLosses ==
  /\ WorkerLedger!Init
  /\ [][ \/ WorkerLedger!Next
         \/ \E e \in Event : AnswerAgain(e)
         \/ PowerOff ]_<<db, acked, duplicates>>

=============================================================================
