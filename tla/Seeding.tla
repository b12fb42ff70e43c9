-------------------------------- MODULE Seeding --------------------------------
(***************************************************************************)
(* run_seed.py: tops the tables up to their targets, one committed row at  *)
(* a time.  A run may break off anywhere and be started again.  An order   *)
(* brings its items and movements, and, by chance, a payment.              *)
(***************************************************************************)
EXTENDS Naturals, Sequences

CONSTANT Target    \* SEED_CUSTOMERS, SEED_CATEGORIES, ..., and the minimum of shipments

Phases == <<"customers", "categories", "products", "orders", "shipments">>
Tables == {"customers", "categories", "products", "orders", "shipments"}

VARIABLES
  count,     \* rows of each table
  payments,  \* payments has rows
  paid,      \* paid orders without a shipment
  seeder,    \* off, done, or the phase of the run
  left       \* rows each phase has yet to insert

seeding == <<count, payments, paid, seeder, left>>

Init ==
  /\ count = [t \in Tables |-> 0] /\ payments = FALSE /\ paid = 0
  /\ seeder = "off" /\ left = [t \in Tables |-> 0]

Missing(t) == IF count[t] < Target[t] THEN Target[t] - count[t] ELSE 0

\* main counts the rows once, at the start, except for those of shipments.
Start_Blind ==
  /\ seeder = "off"
  /\ seeder' = "customers" /\ left' = Target
  /\ UNCHANGED <<count, payments, paid>>
Start ==
  /\ seeder = "off"
  /\ seeder' = "customers" /\ left' = [t \in Tables |-> Missing(t)]
  /\ UNCHANGED <<count, payments, paid>>

\* One insert_... of seed_customers, seed_products or seed_orders, committed.  Without
\* stock for an order, seed_orders imports some and tries again: nothing changes here.
InsertRow(t) ==
  /\ seeder = t /\ left[t] > 0 /\ t \in {"customers", "products", "orders"}
  /\ count' = [count EXCEPT ![t] = @ + 1]
  /\ left' = [left EXCEPT ![t] = @ - 1]
  /\ IF t = "orders"
     THEN \/ UNCHANGED <<payments, paid>>
          \/ payments' = TRUE /\ paid' \in {paid, paid + 1}
     ELSE UNCHANGED <<payments, paid>>
  /\ UNCHANGED seeder

\* seed_categories: every category that is not there, in one transaction.
InsertCategories ==
  /\ seeder = "categories" /\ left[seeder] > 0
  /\ count' = [count EXCEPT !["categories"] = Target["categories"]]
  /\ left' = [left EXCEPT !["categories"] = 0]
  /\ UNCHANGED <<payments, paid, seeder>>

\* seed_shipments counts for itself, and raises if no order is paid.
InsertShipment ==
  /\ seeder = "shipments" /\ Missing("shipments") > 0 /\ paid > 0
  /\ count' = [count EXCEPT !["shipments"] = @ + 1]
  /\ paid' = paid - 1
  /\ UNCHANGED <<payments, seeder, left>>

NextPhase ==
  \E i \in 1..(Len(Phases) - 1) :
    /\ seeder = Phases[i] /\ left[seeder] = 0
    /\ seeder' = Phases[i + 1]
    /\ UNCHANGED <<count, payments, paid, left>>

\* verify_seeded_cdc_tables.
Verify ==
  /\ seeder = "shipments" /\ Missing("shipments") = 0
  /\ seeder' = IF payments /\ \A t \in Tables : count[t] > 0 THEN "done" ELSE "off"
  /\ UNCHANGED <<count, payments, paid, left>>

\* An exception, or the user, ends the run; what is not committed is undone.
BreakOff ==
  /\ seeder \in Tables
  /\ seeder' = "off"
  /\ UNCHANGED <<count, payments, paid, left>>

Next ==
  \/ Start \/ InsertCategories \/ InsertShipment \/ NextPhase \/ Verify \/ BreakOff
  \/ \E t \in Tables : InsertRow(t)

\* However often runs were broken off and started again, no table gets more than its
\* target, and the run that completes leaves every one of them with it.
SeedTopsUp ==
  /\ \A t \in Tables : count[t] <= Target[t]
  /\ seeder = "done" => count = Target /\ payments
=============================================================================
