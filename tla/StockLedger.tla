----------------------------- MODULE StockLedger -----------------------------
(***************************************************************************)
(* What the shop promises about stock: a product's stock_quantity changes  *)
(* only together with a row of inventory_movements that was written for    *)
(* exactly that change.  One commit may post to several products.          *)
(***************************************************************************)
EXTENDS Integers, Sequences

CONSTANT Products

VARIABLES stock, audit

Init ==
  /\ stock = [p \in Products |-> 0]
  /\ audit = [p \in Products |-> <<>>]

\* The movement m takes product p from its current stock to its next one.
Posts(p, m) ==
  /\ audit'[p] = Append(audit[p], m)
  /\ m.old = stock[p] /\ m.new = stock'[p]
  /\ m.change = m.new - m.old
  /\ m.new >= 0

Untouched(p) == stock'[p] = stock[p] /\ audit'[p] = audit[p]

Post ==
  \A p \in Products :
    Untouched(p) \/ (audit'[p] # <<>> /\ Posts(p, audit'[p][Len(audit'[p])]))

Spec == Init /\ [][Post]_<<stock, audit>>
=============================================================================
