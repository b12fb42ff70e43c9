----------------------------- MODULE StreamThreads -----------------------------
(***************************************************************************)
(* The threads of "make stream" and their connections: what an error does  *)
(* to a stream, and what a function that returns early leaves behind.      *)
(*                                                                         *)
(* Each thread makes the calls of its cycle in turn, for good.  What the   *)
(* calls do to orders, stock and payments is ShopStreams' matter; here a   *)
(* call has a transaction, the rows it has written in it, and an end.  The *)
(* shipment stream's own rows are one tracked shipment, among others, and  *)
(* the age its query asks for: a minute since updated_at, by the clock     *)
(* that PostgreSQL stopped when the transaction began (CURRENT_TIMESTAMP). *)
(***************************************************************************)
EXTENDS Naturals, Sequences

CONSTANTS
  Streams,      \* the threads main starts
  Cycle,        \* the calls of each thread's cycle, in order
  MaxAttempts   \* max_attempts of insert_customer

Inserting == {"insert_customer", "insert_order"}
Shipping == {"insert_shipment_for_paid_order", "advance_random_shipment"}
\* A function of another stream, all of which commit or return early.
Services == Inserting \cup Shipping \cup {"other"}

ASSUME StreamAssumption ==
  /\ Cycle \in [Streams -> Seq(Services)]
  /\ \A t \in Streams : Cycle[t] # <<>>
  /\ MaxAttempts \in Nat \ {0}

VARIABLES
  db,        \* the write endpoint takes connections
  phase,     \* where each thread is
  at,        \* its call in the cycle
  txn,       \* its transaction: none, open, or failed (in the aborted state)
  rows,      \* it has written rows that are not committed
  tries,     \* attempts of insert_customer in this call
  cut,       \* its connection is lost, or was refused
  shipment,  \* the tracked shipment's status
  ripe,      \* a minute has passed since its updated_at
  view       \* ... already when the shipment stream's transaction began

vars == <<db, phase, at, txn, rows, tries, cut, shipment, ripe, view>>
tracked == <<shipment, ripe, view>>

NextShipmentStatus ==
  [PENDING |-> "PICKED_UP", PICKED_UP |-> "IN_TRANSIT", IN_TRANSIT |-> "DELIVERED"]
Underway == DOMAIN NextShipmentStatus

\* main: start_thread for each stream.
Init ==
  /\ db = TRUE
  /\ phase = [t \in Streams |-> "starting"] /\ at = [t \in Streams |-> 1]
  /\ txn = [t \in Streams |-> "none"] /\ rows = [t \in Streams |-> FALSE]
  /\ tries = [t \in Streams |-> 0] /\ cut = [t \in Streams |-> FALSE]
  /\ shipment = "none" /\ ripe = FALSE /\ view = FALSE

-----------------------------------------------------------------------------
(* The endpoint and the clock.                                              *)

\* A failover: pg-haproxy ends every session, and refuses new ones for a while.
LoseConnections ==
  /\ db
  /\ db' = FALSE
  /\ cut' = [t \in Streams |-> cut[t] \/ phase[t] \notin {"starting", "dead"}]
  /\ UNCHANGED <<phase, at, txn, rows, tries, tracked>>

AcceptConnections ==
  /\ ~db /\ db' = TRUE
  /\ UNCHANGED <<phase, at, txn, rows, tries, cut, tracked>>

Ripen ==
  /\ shipment \in Underway /\ ~ripe
  /\ ripe' = TRUE
  /\ UNCHANGED <<db, phase, at, txn, rows, tries, cut, shipment, view>>

-----------------------------------------------------------------------------
(* A thread.                                                                *)

Call(t) == Cycle[t][at[t]]
Calling(t) == phase[t] = "calling" /\ ~cut[t]

\* run_..._stream: get_conn, outside of every try.
Connect(t) ==
  /\ phase[t] = "starting"
  /\ phase' = [phase EXCEPT ![t] = IF db THEN "ready" ELSE "dead"]
  /\ cut' = [cut EXCEPT ![t] = ~db]
  /\ UNCHANGED <<db, at, txn, rows, tries, tracked>>

\* A call's first statement begins a transaction, unless an earlier call left one open.
BeginCall(t) ==
  /\ phase[t] = "ready" /\ ~cut[t] /\ txn[t] # "failed"
  /\ phase' = [phase EXCEPT ![t] = "calling"]
  /\ txn' = [txn EXCEPT ![t] = "open"]
  /\ view' = IF Call(t) \in Shipping /\ txn[t] = "none" THEN ripe ELSE view
  /\ UNCHANGED <<db, at, rows, tries, cut, shipment, ripe>>

\* A statement on a lost connection, or in a transaction that has failed, raises.
Refuse(t) ==
  /\ phase[t] \in {"ready", "calling"} /\ (cut[t] \/ txn[t] = "failed")
  /\ phase' = [phase EXCEPT ![t] = "handling"]
  /\ UNCHANGED <<db, at, txn, rows, tries, cut, tracked>>

\* insert_customer: the email is taken.  The savepoint keeps the transaction usable;
\* after the last attempt the violation is raised all the same.
Collide_NoSavepoint(t) ==
  /\ Calling(t) /\ txn[t] = "open" /\ Call(t) \in Inserting /\ ~rows[t]
  /\ tries' = [tries EXCEPT ![t] = @ + 1]
  /\ phase' = [phase EXCEPT ![t] = IF tries'[t] = MaxAttempts THEN "handling" ELSE "calling"]
  /\ txn' = [txn EXCEPT ![t] = "failed"]
  /\ UNCHANGED <<db, at, rows, cut, tracked>>
Collide(t) ==
  /\ Calling(t) /\ txn[t] = "open" /\ Call(t) \in Inserting /\ ~rows[t]
  /\ tries' = [tries EXCEPT ![t] = @ + 1]
  /\ phase' = [phase EXCEPT ![t] = IF tries'[t] = MaxAttempts THEN "handling" ELSE "calling"]
  /\ UNCHANGED <<db, at, txn, rows, cut, tracked>>

\* Any other error, before or after the call has written: PostgreSQL's, which fails
\* the transaction, or Python's (InsufficientStockError), which does not.
Fail(t) ==
  /\ Calling(t) /\ txn[t] = "open"
  /\ phase' = [phase EXCEPT ![t] = "handling"]
  /\ \E state \in {"open", "failed"} : txn' = [txn EXCEPT ![t] = state]
  /\ UNCHANGED <<db, at, rows, tries, cut, tracked>>

Write(t) ==
  /\ Calling(t) /\ txn[t] = "open" /\ Call(t) \in Inserting \cup {"other"} /\ ~rows[t]
  /\ rows' = [rows EXCEPT ![t] = TRUE]
  /\ UNCHANGED <<db, phase, at, txn, tries, cut, tracked>>

\* The next call of the cycle, or the first of the next one after the sleep.
NextCall(t) ==
  /\ phase' = [phase EXCEPT ![t] = "ready"]
  /\ at' = [at EXCEPT ![t] = IF @ = Len(Cycle[t]) THEN 1 ELSE @ + 1]
  /\ tries' = [tries EXCEPT ![t] = 0]

\* Updates and deletions of orders are made in some cycles only, as random() has it.
LeaveOut(t) ==
  /\ phase[t] = "ready" /\ Call(t) = "other"
  /\ NextCall(t)
  /\ UNCHANGED <<db, txn, rows, cut, tracked>>

\* conn.commit() ends the transaction.
CommitCall(t) ==
  /\ NextCall(t)
  /\ txn' = [txn EXCEPT ![t] = "none"]
  /\ rows' = [rows EXCEPT ![t] = FALSE]
  /\ UNCHANGED <<db, cut>>

Commit(t) ==
  /\ Calling(t) /\ rows[t] /\ txn[t] = "open"
  /\ CommitCall(t)
  /\ UNCHANGED tracked

\* soft_delete_random_order deletes the shipment of the order it cancels, which has not
\* been picked up (ShopStreams, CancelledShipsNothing).
CancelOrder(t) ==
  /\ Calling(t) /\ rows[t] /\ txn[t] = "open" /\ Call(t) = "other" /\ shipment = "PENDING"
  /\ CommitCall(t)
  /\ shipment' = "deleted"
  /\ UNCHANGED <<ripe, view>>

\* No row to work on: return None, without ending the transaction.
ReturnNone(t) ==
  /\ Calling(t) /\ txn[t] = "open" /\ ~rows[t] /\ Call(t) \notin Inserting
  /\ NextCall(t)
  /\ UNCHANGED <<db, txn, rows, cut, tracked>>

\* insert_shipment_for_paid_order: the tracked shipment, or one for another order.
CreateShipment_NoCommit(t) ==
  /\ Calling(t) /\ txn[t] = "open" /\ Call(t) = "insert_shipment_for_paid_order"
  /\ NextCall(t)
  /\ \/ UNCHANGED <<shipment, ripe>>
     \/ shipment = "none" /\ shipment' = "PENDING" /\ ripe' = FALSE
  /\ UNCHANGED <<db, txn, rows, cut, view>>
CreateShipment(t) ==
  /\ Calling(t) /\ txn[t] = "open" /\ Call(t) = "insert_shipment_for_paid_order"
  /\ CommitCall(t)
  /\ \/ UNCHANGED <<shipment, ripe>>
     \/ shipment = "none" /\ shipment' = "PENDING" /\ ripe' = FALSE
  /\ UNCHANGED view

\* advance_random_shipment.
AdvanceOther(t) ==
  /\ Calling(t) /\ txn[t] = "open" /\ Call(t) = "advance_random_shipment"
  /\ CommitCall(t)
  /\ UNCHANGED tracked

AdvanceShipment(t) ==
  /\ Calling(t) /\ txn[t] = "open" /\ Call(t) = "advance_random_shipment"
  /\ shipment \in Underway /\ view
  /\ CommitCall(t)
  /\ shipment' = NextShipmentStatus[shipment] /\ ripe' = FALSE
  /\ UNCHANGED view

\* except Exception: conn.rollback(), which raises when the connection is gone: finally
\* closes it and the thread ends.  The exception itself ends nothing.
Handle_NoRollback(t) ==
  /\ phase[t] = "handling"
  /\ IF cut[t] THEN phase' = [phase EXCEPT ![t] = "dead"] /\ UNCHANGED <<at, tries>> ELSE NextCall(t)
  /\ UNCHANGED <<txn, rows, db, cut, tracked>>
Handle_OnlyUniqueViolation(t) ==
  /\ phase[t] = "handling"
  /\ IF cut[t] \/ tries[t] < MaxAttempts
     THEN phase' = [phase EXCEPT ![t] = "dead"] /\ UNCHANGED <<at, tries>> ELSE NextCall(t)
  /\ txn' = [txn EXCEPT ![t] = "none"] /\ rows' = [rows EXCEPT ![t] = FALSE]
  /\ UNCHANGED <<db, cut, tracked>>
Handle(t) ==
  /\ phase[t] = "handling"
  /\ IF cut[t] THEN phase' = [phase EXCEPT ![t] = "dead"] /\ UNCHANGED <<at, tries>> ELSE NextCall(t)
  /\ txn' = [txn EXCEPT ![t] = "none"] /\ rows' = [rows EXCEPT ![t] = FALSE]
  /\ UNCHANGED <<db, cut, tracked>>

-----------------------------------------------------------------------------
Run(t) ==
  \/ Connect(t) \/ LeaveOut(t) \/ BeginCall(t) \/ Refuse(t) \/ Write(t) \/ Commit(t)
  \/ CancelOrder(t) \/ ReturnNone(t) \/ CreateShipment(t) \/ AdvanceOther(t) \/ AdvanceShipment(t) \/ Handle(t)

Next ==
  \/ LoseConnections \/ AcceptConnections \/ Ripen
  \/ \E t \in Streams : Run(t) \/ Collide(t) \/ Fail(t)

Spec == Init /\ [][Next]_vars

\* Threads run, time passes, and ORDER BY random() does not leave one shipment out for
\* ever.  Nothing is assumed of errors and of the endpoint.
Fairness ==
  /\ WF_vars(Ripen)
  /\ \A t \in Streams : WF_vars(Run(t)) /\ SF_vars(AdvanceShipment(t))

FairSpec == Spec /\ Fairness

-----------------------------------------------------------------------------
(* Properties.                                                              *)

\* The type invariant.
TypeOK ==
  /\ {db, ripe, view} \subseteq BOOLEAN
  /\ phase \in [Streams -> {"starting", "ready", "calling", "handling", "dead"}]
  /\ at \in [Streams -> Nat] /\ \A t \in Streams : at[t] \in 1..Len(Cycle[t])
  /\ txn \in [Streams -> {"none", "open", "failed"}]
  /\ rows \in [Streams -> BOOLEAN] /\ cut \in [Streams -> BOOLEAN]
  /\ tries \in [Streams -> 0..MaxAttempts]
  /\ shipment \in Underway \cup {"none", "DELIVERED", "deleted"}

\* A call finds its transaction usable, whatever failed before in it (a collision of
\* emails is undone to the savepoint) or in an earlier call; and none starts with rows
\* of a call that did not return, which would be committed with its own.  (It may start
\* in a transaction that an early return left open.)
CallsStartClean ==
  \A t \in Streams :
    /\ phase[t] = "ready" /\ ~cut[t] => txn[t] # "failed" /\ ~rows[t]
    /\ phase[t] = "calling" => txn[t] = "open"

\* Whatever its calls raise, and wherever in their transactions, a stream makes every
\* call of its cycle again and again as long as its connection lasts: no error ends the
\* thread, keeps it at one call, or leaves a transaction in which the next call fails.
\* (What random() may leave out is not promised.)
EveryCallComesRound ==
  \A t \in Streams : \A i \in 1..Len(Cycle[t]) :
    Cycle[t][i] # "other" =>
      (phase[t] = "ready" ~> cut[t] \/ (phase[t] = "calling" /\ at[t] = i))

\* As long as shipments are created now and then, which ends the transaction that early
\* returns leave open, every shipment is delivered, or deleted with its order.
ShipmentsAdvance ==
  []<><<\E t \in Streams : CreateShipment(t)>>_vars =>
    (shipment \in Underway ~> shipment \in {"DELIVERED", "deleted"})
=============================================================================
