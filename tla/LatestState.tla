----------------------------- MODULE LatestState -----------------------------
(***************************************************************************)
(* What the CDC pipeline promises a reader of a sink table with FINAL: for *)
(* every key it shows some version of the row that PostgreSQL committed,   *)
(* and it never shows an older version than it has already shown, however  *)
(* often rows are delivered again.                                         *)
(***************************************************************************)
EXTENDS Integers

CONSTANT Keys

VARIABLES committed,   \* the versions of each row, in no order but their own
          view         \* the version shown, 0 before the first

Init ==
  /\ committed = [k \in Keys |-> {}]
  /\ view = [k \in Keys |-> 0]

\* A commit gives one row a version above all its earlier ones.
Commit ==
  \E k \in Keys : \E v \in committed'[k] :
    /\ committed' = [committed EXCEPT ![k] = @ \cup {v}]
    /\ v > 0 /\ \A u \in committed[k] : u < v
    /\ UNCHANGED view

\* Rows shown move forward, to versions that were committed.
Show ==
  /\ \A k \in Keys : view'[k] # view[k] => view'[k] > view[k] /\ view'[k] \in committed[k]
  /\ UNCHANGED committed

Next == Commit \/ Show

Spec == Init /\ [][Next]_<<committed, view>>
=============================================================================
