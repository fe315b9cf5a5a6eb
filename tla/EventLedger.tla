------------------------------ MODULE EventLedger ------------------------------
(***************************************************************************)
(* What any client of the engine may rely on, whatever processes serve it  *)
(* and crash: a log that only grows, in which an event_id stands for one   *)
(* event, and answers that stay true.  A 200 says that the event itself is *)
(* in the log, and is given for its id once; a 409 says that the id is.    *)
(***************************************************************************)
EXTENDS AllocEvents

VARIABLES
  log,       \* the stored events
  answered,  \* the events answered 200
  refused    \* the payloads answered 409

clientVars == <<log, answered, refused>>

Init == log = {} /\ answered = {} /\ refused = {}

Store(e) ==
  /\ e.id \notin Ids(log)
  /\ log' = log \cup {e}
  /\ UNCHANGED <<answered, refused>>

Answer(e) ==
  /\ e \in log
  /\ e.id \notin Ids(answered)
  /\ answered' = answered \cup {e}
  /\ UNCHANGED <<log, refused>>

Refuse(e) ==
  /\ e.id \in Ids(log)
  /\ refused' = refused \cup {e}
  /\ UNCHANGED <<log, answered>>

Next == \E e \in Event : Store(e) \/ Answer(e) \/ Refuse(e)

Spec == Init /\ [][Next]_clientVars
=============================================================================
