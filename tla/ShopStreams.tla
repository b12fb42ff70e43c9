----------------------------- MODULE ShopStreams -----------------------------
(***************************************************************************)
(* The five stream threads of scripts/main_stream.py that write the shop's *)
(* tables, each with its own connection: orders, payments, shipments, the  *)
(* product catalogue and warehouse imports.  The table variables hold      *)
(* COMMITTED rows; a session variable holds what one thread's open         *)
(* transaction has read, decided and locked.  PostgreSQL runs READ         *)
(* COMMITTED, a row lock lasts from the statement that takes it to the end *)
(* of the transaction, so who holds a row follows from the sessions.       *)
(*                                                                         *)
(* A transaction is one action per statement that takes or waits for a row *)
(* lock.  Statements on rows the transaction has already locked, or has    *)
(* just inserted, are invisible to the others until COMMIT: they belong to *)
(* the action that commits.                                                *)
(***************************************************************************)
EXTENDS Integers, Sequences

CONSTANTS
  Products, Orders,   \* the BIGSERIAL keys the bounded model may hand out
  None,               \* no row
  Quantities,         \* random.randint(1, 5): units of one order item
  InitialStocks,      \* random.randint(20, 1000): stock of a new product
  ImportSizes,        \* random.randint(20, 100): units of one import
  StockDeltas,        \* random.randint(-10, 50): a catalogue correction
  MaxItems,           \* bound of random.randint(1, 5): items of one order
  MaxMovements        \* bound: imports and corrections stop at this audit length

ASSUME ShopAssumption ==
  /\ None \notin Products \cup Orders
  /\ Quantities \subseteq Nat \ {0}
  /\ InitialStocks \subseteq Nat \ {0}
  /\ ImportSizes \subseteq Nat \ {0}
  /\ StockDeltas \subseteq Int
  /\ MaxItems \in Nat \ {0}
  /\ MaxMovements \in Nat

VARIABLES
  stock, pstatus,     \* products.stock_quantity, products.product_status
  audit,              \* inventory_movements of each product, by movement_id
  orders, payment, shipment,
  ord, pay, shp, cat, inv    \* the open transaction of each stream thread

tables == <<stock, pstatus, audit, orders, payment, shipment>>
vars == <<stock, pstatus, audit, orders, payment, shipment, ord, pay, shp, cat, inv>>

-----------------------------------------------------------------------------
(* Rows.  A soft-deleted order has its items soft-deleted by the same       *)
(* statement sequence; a payment is soft-deleted exactly when it is         *)
(* REFUNDED; an order has at most one payment and (UNIQUE) one shipment.    *)

Movements ==
  [type : {"IMPORT", "SALE", "ADJUSTMENT", "CANCEL_ORDER"},
   order : Orders \cup {None}, change : Int, old : Int, new : Int]

OrderRows ==
  [status : {"ABSENT", "PENDING", "CONFIRMED", "SHIPPING", "COMPLETED", "CANCELLED"},
   pay : {"UNPAID", "PAID", "FAILED"}, deleted : BOOLEAN, items : [Products -> Nat]]

PaymentStates == {"NONE", "PENDING", "SUCCESS", "FAILED", "REFUNDED"}

ShipmentRows ==
  [status : {"NONE", "PENDING", "PICKED_UP", "IN_TRANSIT", "DELIVERED"}, deleted : BOOLEAN]

NoItems == [p \in Products |-> 0]

\* Sessions between two transactions.
IdleOrder == [pc |-> "idle", id |-> None, goal |-> "NONE", todo |-> {},
              cart |-> NoItems, want |-> 0, refund |-> FALSE]
IdlePayment == [pc |-> "idle", id |-> None, goal |-> "NONE"]
IdleShipment == [pc |-> "idle", id |-> None]
IdleCatalog == [pc |-> "idle", id |-> None, seen |-> 0]

Init ==
  /\ stock = [p \in Products |-> 0]
  /\ pstatus = [p \in Products |-> "ABSENT"]
  /\ audit = [p \in Products |-> <<>>]
  /\ orders = [o \in Orders |-> [status |-> "ABSENT", pay |-> "UNPAID",
                                 deleted |-> FALSE, items |-> NoItems]]
  /\ payment = [o \in Orders |-> "NONE"]
  /\ shipment = [o \in Orders |-> [status |-> "NONE", deleted |-> FALSE]]
  /\ ord = IdleOrder
  /\ pay = IdlePayment
  /\ shp = IdleShipment
  /\ cat = IdleCatalog
  /\ inv = IdleCatalog

-----------------------------------------------------------------------------
(* Row locks, read off the sessions.                                        *)

Picked == {p \in Products : ord.cart[p] > 0}

\* The products of the order being cancelled: SELECT ... FROM order_items.
Ordered(o) == {p \in Products : orders[o].items[p] > 0}

\* The products whose stock the open cancellation has already updated.
Restored == IF ord.pc \in {"restore", "refund", "ships"} THEN Ordered(ord.id) \ ord.todo ELSE {}

FreeProduct_NoImportLock(p) == p \notin Picked \cup Restored /\ cat.id # p
FreeProduct(p) == p \notin Picked \cup Restored /\ cat.id # p /\ inv.id # p

FreeOrder_NoOrderLock(o) == ~(shp.pc = "create" /\ shp.id = o)
FreeOrder(o) == ord.id # o /\ ~(shp.pc = "create" /\ shp.id = o)

FreeShipment(o) == ~(shp.pc = "advance" /\ shp.id = o)

FreePayment(o) == ~(pay.pc = "paid" /\ pay.id = o) /\ ~(ord.refund /\ ord.id = o)

-----------------------------------------------------------------------------
(* Stock and its audit trail.                                               *)

\* record_inventory_movement: the audit row written beside a stock change.
Movement(type, o, old, new) ==
  [type |-> type, order |-> o, change |-> new - old, old |-> old, new |-> new]

StatusFor_NeverOut(n) == "ACTIVE"
StatusFor(n) == IF n = 0 THEN "OUT_OF_STOCK" ELSE "ACTIVE"

\* The product_status each UPDATE of products writes: imports and cancellations
\* write ACTIVE whatever the new stock is.
StatusAfter(type, n) == IF type \in {"SALE", "ADJUSTMENT"} THEN StatusFor(n) ELSE "ACTIVE"

\* Write the stock and the status of one product and its movement.
WriteStock(p, type, old, new) ==
  /\ stock' = [stock EXCEPT ![p] = new]
  /\ pstatus' = [pstatus EXCEPT ![p] = StatusAfter(type, new)]
  /\ audit' = [audit EXCEPT ![p] = Append(@, Movement(type, None, old, new))]

\* Add change[p] to every product of a set, the old value read by RETURNING.
ShiftStock(set, change, type, o) ==
  /\ stock' = [p \in Products |-> IF p \in set THEN stock[p] + change[p] ELSE stock[p]]
  /\ pstatus' = [p \in Products |->
       IF p \in set THEN StatusAfter(type, stock[p] + change[p]) ELSE pstatus[p]]
  /\ audit' = [p \in Products |->
       IF p \in set
       THEN Append(audit[p], Movement(type, o, stock[p], stock[p] + change[p]))
       ELSE audit[p]]

-----------------------------------------------------------------------------
(* Product stream.                                                          *)

\* insert_product: a new row nobody else can see, and its IMPORT movement.
InsertProduct(p) ==
  /\ cat.pc = "idle" /\ pstatus[p] = "ABSENT"
  /\ \E n \in InitialStocks : WriteStock(p, "IMPORT", 0, n)
  /\ UNCHANGED <<orders, payment, shipment, ord, pay, shp, cat, inv>>

\* update_random_product: SELECT ... FOR UPDATE SKIP LOCKED.
SelectProduct(p) ==
  /\ cat.pc = "idle" /\ pstatus[p] # "ABSENT" /\ FreeProduct(p)
  /\ cat' = [pc |-> "locked", id |-> p, seen |-> stock[p]]
  /\ UNCHANGED <<tables, ord, pay, shp, inv>>

\* The PRICE branch, and a correction that changes nothing: no movement.
CommitPrice ==
  /\ cat.pc = "locked"
  /\ cat' = IdleCatalog
  /\ UNCHANGED <<tables, ord, pay, shp, inv>>

Corrected_Unclamped(old, d) == old + d
Corrected(old, d) == IF old + d < 0 THEN 0 ELSE old + d

\* The STOCK branch: the new stock is computed from the value read under lock.
CommitCorrection ==
  /\ cat.pc = "locked" /\ Len(audit[cat.id]) < MaxMovements
  /\ \E d \in StockDeltas :
       /\ Corrected(cat.seen, d) # cat.seen
       /\ WriteStock(cat.id, "ADJUSTMENT", cat.seen, Corrected(cat.seen, d))
  /\ cat' = IdleCatalog
  /\ UNCHANGED <<orders, payment, shipment, ord, pay, shp, inv>>

-----------------------------------------------------------------------------
(* Inventory stream: import_random_stock.                                   *)

SelectImport_NoLock(p) ==
  /\ inv.pc = "idle" /\ pstatus[p] # "ABSENT" /\ Len(audit[p]) < MaxMovements
  /\ inv' = [pc |-> "locked", id |-> p, seen |-> stock[p]]
  /\ UNCHANGED <<tables, ord, pay, shp, cat>>
SelectImport(p) ==
  /\ inv.pc = "idle" /\ pstatus[p] # "ABSENT" /\ FreeProduct(p)
  /\ Len(audit[p]) < MaxMovements
  /\ inv' = [pc |-> "locked", id |-> p, seen |-> stock[p]]
  /\ UNCHANGED <<tables, ord, pay, shp, cat>>

CommitImport ==
  /\ inv.pc = "locked"
  /\ \E n \in ImportSizes : WriteStock(inv.id, "IMPORT", inv.seen, inv.seen + n)
  /\ inv' = IdleCatalog
  /\ UNCHANGED <<orders, payment, shipment, ord, pay, shp, cat>>

-----------------------------------------------------------------------------
(* Order stream: insert_order.                                              *)

BeginInsert ==
  /\ ord.pc = "idle"
  /\ \E o \in Orders : orders[o].status = "ABSENT"      \* bound: a key is left
  /\ \E n \in 1..MaxItems : ord' = [IdleOrder EXCEPT !.pc = "pick", !.want = n]
  /\ UNCHANGED <<tables, pay, shp, cat, inv>>

Remaining == ord.want > 0

\* get_random_product's WHERE clause and SKIP LOCKED.
Sellable(p, q) == pstatus[p] = "ACTIVE" /\ stock[p] >= q /\ FreeProduct(p)

PickProduct(p) ==
  /\ ord.pc = "pick" /\ Remaining
  /\ \E q \in Quantities :
       /\ Sellable(p, q)
       /\ ord' = [ord EXCEPT !.cart[p] = q, !.want = @ - 1]
  /\ UNCHANGED <<tables, pay, shp, cat, inv>>

\* InsufficientStockError: rollback, and the stream logs the error.
OutOfStock ==
  /\ ord.pc = "pick" /\ Remaining
  /\ \E q \in Quantities : \A p \in Products : ~Sellable(p, q)
  /\ ord' = IdleOrder
  /\ UNCHANGED <<tables, pay, shp, cat, inv>>

\* update_order_payment_status.
PaidStatus(s) ==
  CASE s = "SUCCESS" -> "PAID"
    [] s = "FAILED"  -> "FAILED"
    [] OTHER         -> "UNPAID"

\* The order, its items, SALE movements and payment (the seeder's 0.8 leaves
\* some orders without one); decrease_stock_for_sale re-checks the stock under the lock.
CommitInsert(o) ==
  /\ ord.pc = "pick" /\ ~Remaining /\ orders[o].status = "ABSENT"
  /\ \A p \in Picked : stock[p] >= ord.cart[p]
  /\ ShiftStock(Picked, [p \in Products |-> -ord.cart[p]], "SALE", o)
  /\ \E s \in {"PENDING", "CONFIRMED"}, g \in {"NONE", "SUCCESS", "FAILED", "PENDING"} :
       /\ orders' = [orders EXCEPT ![o] =
            [status |-> s, pay |-> PaidStatus(g), deleted |-> FALSE, items |-> ord.cart]]
       /\ payment' = [payment EXCEPT ![o] = g]
  /\ ord' = IdleOrder
  /\ UNCHANGED <<shipment, pay, shp, cat, inv>>

-----------------------------------------------------------------------------
(* Order stream: update_random_order and soft_delete_random_order.          *)

OrderTransitions(s) == IF s = "PENDING" THEN {"CONFIRMED", "CANCELLED"} ELSE {"SHIPPING", "CANCELLED"}

\* The WHERE clause and SKIP LOCKED of both SELECT ... FOR UPDATE statements.
Cancellable_AnyStatus(o) == ~orders[o].deleted /\ orders[o].status # "ABSENT" /\ FreeOrder(o)
Cancellable(o) == ~orders[o].deleted /\ orders[o].status \in {"PENDING", "CONFIRMED"} /\ FreeOrder(o)

SelectOrder(o) ==
  /\ ord.pc = "idle" /\ Cancellable(o)
  /\ \E g \in OrderTransitions(orders[o].status) \cup {"DELETED"} :
       ord' = [IdleOrder EXCEPT
                 !.pc = IF g \in {"CANCELLED", "DELETED"} THEN "restore" ELSE "update",
                 !.id = o, !.goal = g,
                 !.todo = IF g \in {"CANCELLED", "DELETED"} THEN Ordered(o) ELSE {}]
  /\ UNCHANGED <<tables, pay, shp, cat, inv>>

CommitOrderStatus ==
  /\ ord.pc = "update"
  /\ orders' = [orders EXCEPT ![ord.id].status = ord.goal]
  /\ ord' = IdleOrder
  /\ UNCHANGED <<stock, pstatus, audit, payment, shipment, pay, shp, cat, inv>>

\* One UPDATE products of restore_stock_for_cancelled_order: waits for the row.
RestoreProduct(p) ==
  /\ ord.pc = "restore" /\ p \in ord.todo /\ FreeProduct(p)
  /\ ord' = [ord EXCEPT !.todo = @ \ {p}]
  /\ UNCHANGED <<tables, pay, shp, cat, inv>>

RestoreDone ==
  /\ ord.pc = "restore" /\ ord.todo = {}
  /\ ord' = [ord EXCEPT !.pc = IF ord.goal = "DELETED" THEN "refund" ELSE "ships"]
  /\ UNCHANGED <<tables, pay, shp, cat, inv>>

\* UPDATE payments ... AND payment_status = 'SUCCESS': waits only for a match.
RefundPayment ==
  /\ ord.pc = "refund"
  /\ payment[ord.id] = "SUCCESS" => FreePayment(ord.id)
  /\ ord' = [ord EXCEPT !.pc = "ships", !.refund = payment[ord.id] = "SUCCESS"]
  /\ UNCHANGED <<tables, pay, shp, cat, inv>>

Active(o) == shipment[o].status # "NONE" /\ ~shipment[o].deleted

\* UPDATE shipments SET deleted_at, which waits for the row, then the commit of
\* the restored stock, the cancelled order and the refunded payment.
CommitCancel ==
  /\ ord.pc = "ships"
  /\ Active(ord.id) => FreeShipment(ord.id)
  /\ ShiftStock(Restored, orders[ord.id].items, "CANCEL_ORDER", ord.id)
  /\ orders' = [orders EXCEPT ![ord.id].status = "CANCELLED",
                              ![ord.id].deleted = ord.goal = "DELETED"]
  /\ payment' = IF ord.refund THEN [payment EXCEPT ![ord.id] = "REFUNDED"] ELSE payment
  /\ shipment' = [shipment EXCEPT ![ord.id].deleted = shipment[ord.id].status # "NONE"]
  /\ ord' = IdleOrder
  /\ UNCHANGED <<pay, shp, cat, inv>>

-----------------------------------------------------------------------------
(* Payment stream: update_random_payment.                                   *)

\* A plain SELECT: no lock is taken and the status may change after it.
SelectPayment(o) ==
  /\ pay.pc = "idle" /\ payment[o] \in {"PENDING", "FAILED"}
  /\ \E g \in {"SUCCESS", "FAILED"} : pay' = [pc |-> "selected", id |-> o, goal |-> g]
  /\ UNCHANGED <<tables, ord, shp, cat, inv>>

\* UPDATE payments WHERE payment_id: waits for the row.
CommitFailedPayment ==
  /\ pay.pc = "selected" /\ pay.goal = "FAILED" /\ FreePayment(pay.id)
  /\ payment' = [payment EXCEPT ![pay.id] = "FAILED"]
  /\ pay' = IdlePayment
  /\ UNCHANGED <<stock, pstatus, audit, orders, shipment, ord, shp, cat, inv>>

UpdatePayment ==
  /\ pay.pc = "selected" /\ pay.goal = "SUCCESS" /\ FreePayment(pay.id)
  /\ pay' = [pay EXCEPT !.pc = "paid"]
  /\ UNCHANGED <<tables, ord, shp, cat, inv>>

\* UPDATE orders SET payment_status = 'PAID', which waits for the order row.
CommitPaid ==
  /\ pay.pc = "paid" /\ FreeOrder(pay.id)
  /\ payment' = [payment EXCEPT ![pay.id] = "SUCCESS"]
  /\ orders' = [orders EXCEPT ![pay.id].pay = "PAID"]
  /\ pay' = IdlePayment
  /\ UNCHANGED <<stock, pstatus, audit, shipment, ord, shp, cat, inv>>

-----------------------------------------------------------------------------
(* Shipment stream.                                                         *)

\* insert_shipment_for_paid_order: its WHERE clause and SKIP LOCKED.
Shippable_EvenCancelled(o) == orders[o].pay = "PAID" /\ shipment[o].status = "NONE" /\ FreeOrder(o)
Shippable_EvenUnpaid(o) ==
  orders[o].status \notin {"ABSENT", "CANCELLED"} /\ ~orders[o].deleted
  /\ shipment[o].status = "NONE" /\ FreeOrder(o)
Shippable_OnlyConfirmed(o) ==
  /\ orders[o].pay = "PAID" /\ ~orders[o].deleted /\ orders[o].status = "CONFIRMED"
  /\ shipment[o].status = "NONE" /\ FreeOrder(o)
Shippable(o) ==
  /\ orders[o].pay = "PAID" /\ ~orders[o].deleted /\ orders[o].status # "CANCELLED"
  /\ shipment[o].status = "NONE"
  /\ FreeOrder(o)

SelectPaidOrder(o) ==
  /\ shp.pc = "idle" /\ Shippable(o)
  /\ shp' = [pc |-> "create", id |-> o]
  /\ UNCHANGED <<tables, ord, pay, cat, inv>>

CommitShipment ==
  /\ shp.pc = "create"
  /\ shipment' = [shipment EXCEPT ![shp.id] = [status |-> "PENDING", deleted |-> FALSE]]
  /\ shp' = IdleShipment
  /\ UNCHANGED <<stock, pstatus, audit, orders, payment, ord, pay, cat, inv>>

\* advance_random_shipment: SELECT ... FOR UPDATE SKIP LOCKED.  The age test
\* (updated_at a minute ago) is left open: any live shipment may be old enough.
SelectShipment(o) ==
  /\ shp.pc = "idle" /\ Active(o) /\ shipment[o].status # "DELIVERED" /\ FreeShipment(o)
  /\ shp' = [pc |-> "advance", id |-> o]
  /\ UNCHANGED <<tables, ord, pay, cat, inv>>

NextShipmentStatus(s) ==
  CASE s = "PENDING"   -> "PICKED_UP"
    [] s = "PICKED_UP" -> "IN_TRANSIT"
    [] OTHER           -> "DELIVERED"

\* What a shipment that reaches status s makes of its order.
OrderAfter(row, s) ==
  IF row.deleted THEN row.status
  ELSE IF s = "DELIVERED" THEN "COMPLETED"
  ELSE IF row.status = "CANCELLED" THEN row.status ELSE "SHIPPING"

\* UPDATE shipments (locked), then UPDATE orders, which waits for the order row.
CommitAdvance ==
  /\ shp.pc = "advance" /\ FreeOrder(shp.id)
  /\ LET s == NextShipmentStatus(shipment[shp.id].status) IN
       /\ shipment' = [shipment EXCEPT ![shp.id].status = s]
       /\ orders' = [orders EXCEPT ![shp.id].status = OrderAfter(orders[shp.id], s)]
  /\ shp' = IdleShipment
  /\ UNCHANGED <<stock, pstatus, audit, payment, ord, pay, cat, inv>>

-----------------------------------------------------------------------------
(* Failures.  A statement that raises is caught by the stream's loop, which *)
(* rolls the transaction back and goes on.                                  *)

\* PostgreSQL's deadlock detector: the cancellation waits for the shipment row
\* while the shipment's transaction waits for the order row.
Deadlocked ==
  /\ ord.pc = "ships" /\ shp.pc = "advance" /\ shp.id = ord.id
  /\ Active(ord.id)

AbortOrder    == ord.pc # "idle" /\ ord' = IdleOrder    /\ UNCHANGED <<tables, pay, shp, cat, inv>>
AbortPayment  == pay.pc # "idle" /\ pay' = IdlePayment  /\ UNCHANGED <<tables, ord, shp, cat, inv>>
AbortShipment == shp.pc # "idle" /\ shp' = IdleShipment /\ UNCHANGED <<tables, ord, pay, cat, inv>>
AbortProduct  == cat.pc # "idle" /\ cat' = IdleCatalog  /\ UNCHANGED <<tables, ord, pay, shp, inv>>
AbortImport   == inv.pc # "idle" /\ inv' = IdleCatalog  /\ UNCHANGED <<tables, ord, pay, shp, cat>>

\* The victim's exception reaches its stream's loop, which rolls back.
BreakDeadlock_NotRolledBack == Deadlocked /\ UNCHANGED vars
BreakDeadlock == Deadlocked /\ (AbortOrder \/ AbortShipment)

-----------------------------------------------------------------------------
OrderStream ==
  \/ BeginInsert \/ OutOfStock
  \/ \E p \in Products : PickProduct(p) \/ RestoreProduct(p)
  \/ \E o \in Orders : CommitInsert(o) \/ SelectOrder(o)
  \/ CommitOrderStatus \/ RestoreDone \/ RefundPayment \/ CommitCancel
  \/ AbortOrder

PaymentStream ==
  \/ \E o \in Orders : SelectPayment(o)
  \/ CommitFailedPayment \/ UpdatePayment \/ CommitPaid \/ AbortPayment

ShipmentStream ==
  \/ \E o \in Orders : SelectPaidOrder(o) \/ SelectShipment(o)
  \/ CommitShipment \/ CommitAdvance \/ AbortShipment

ProductStream ==
  \/ \E p \in Products : InsertProduct(p) \/ SelectProduct(p)
  \/ CommitPrice \/ CommitCorrection \/ AbortProduct

InventoryStream == (\E p \in Products : SelectImport(p)) \/ CommitImport \/ AbortImport

Next ==
  \/ OrderStream \/ PaymentStream \/ ShipmentStream \/ ProductStream \/ InventoryStream
  \/ BreakDeadlock

Spec == Init /\ [][Next]_vars

(* Fairness.  A running thread reaches its next statement (WF).  A statement *)
(* that waits for a row lock is woken when the holder ends, and every holder *)
(* sleeps between its cycles (SF).  The deadlock detector runs (WF).         *)
(* ORDER BY random() LIMIT 1 does not pass over one eligible order for ever  *)
(* (SF).  Starting a transaction and failing are under no obligation.        *)
OrderProgress ==
  \/ OutOfStock \/ CommitOrderStatus \/ RestoreDone
  \/ \E p \in Products : PickProduct(p)
  \/ \E o \in Orders : CommitInsert(o)

Fairness ==
  /\ WF_vars(OrderProgress) /\ WF_vars(CommitPrice \/ CommitCorrection) /\ WF_vars(CommitImport)
  /\ WF_vars(BreakDeadlock)
  /\ \A p \in Products : SF_vars(RestoreProduct(p))
  /\ SF_vars(RefundPayment) /\ SF_vars(CommitCancel)
  /\ SF_vars(CommitFailedPayment \/ UpdatePayment) /\ SF_vars(CommitPaid)
  /\ \A o \in Orders : SF_vars(SelectPaidOrder(o))
  /\ SF_vars(CommitShipment) /\ SF_vars(CommitAdvance)

FairSpec == Spec /\ Fairness

-----------------------------------------------------------------------------
(* Properties.                                                              *)

\* The three shapes of the order stream's session.
Selling ==
  [pc : {"idle", "pick"}, id : {None}, goal : {"NONE"}, todo : {{}},
   cart : [Products -> Nat], want : Nat, refund : {FALSE}]
Confirming ==
  [pc : {"update"}, id : Orders, goal : {"CONFIRMED", "SHIPPING"}, todo : {{}},
   cart : {NoItems}, want : {0}, refund : {FALSE}]
Cancelling ==
  [pc : {"restore", "refund", "ships"}, id : Orders, goal : {"CANCELLED", "DELETED"},
   todo : SUBSET Products, cart : {NoItems}, want : {0}, refund : BOOLEAN]

\* Every row is one the DDL's CHECKs allow (no stock below zero, although
\* update_random_product subtracts in Python), and the order stream's session
\* has one of its three shapes: locks of one transaction never reach the next.
TypeOK ==
  /\ stock \in [Products -> Nat]
  /\ pstatus \in [Products -> {"ABSENT", "ACTIVE", "OUT_OF_STOCK"}]
  /\ audit \in [Products -> Seq(Movements)]
  /\ orders \in [Orders -> OrderRows]
  /\ payment \in [Orders -> PaymentStates]
  /\ shipment \in [Orders -> ShipmentRows]
  /\ ord \in Selling \cup Confirming \cup Cancelling
  /\ pay \in {IdlePayment} \cup [pc : {"selected", "paid"}, id : Orders, goal : {"SUCCESS", "FAILED"}]
  /\ shp \in {IdleShipment} \cup [pc : {"create", "advance"}, id : Orders]
  /\ cat \in {IdleCatalog} \cup [pc : {"locked"}, id : Products, seen : Nat]
  /\ inv \in {IdleCatalog} \cup [pc : {"locked"}, id : Products, seen : Nat]

\* What a transaction read under a row lock is still the row's value when it
\* computes the new value in Python and writes it back: update_random_product
\* and import_random_stock lose no update, of each other or of the order stream.
ReadsStayFresh ==
  /\ cat.pc = "locked" => cat.seen = stock[cat.id] /\ cat.id \notin Picked \cup Restored
  /\ inv.pc = "locked" => inv.seen = stock[inv.id] /\ inv.id \notin Picked \cup Restored
  /\ cat.pc = "locked" /\ inv.pc = "locked" => cat.id # inv.id
  /\ \A p \in Products : pstatus[p] = "ABSENT" =>
       stock[p] = 0 /\ ~(inv.pc = "locked" /\ inv.id = p)

\* The audit trail of every product is a chain that starts at 0 and ends at the
\* stock on hand, although two of the four writers compute the new stock in
\* Python from a value read earlier (update_random_product, import_random_stock).
AuditChain ==
  \A p \in Products :
    /\ audit[p] = <<>> => stock[p] = 0
    /\ audit[p] # <<>> => audit[p][1].old = 0 /\ audit[p][Len(audit[p])].new = stock[p]
    /\ \A i \in 1..Len(audit[p]) :
         /\ audit[p][i].new = audit[p][i].old + audit[p][i].change /\ audit[p][i].new >= 0
         /\ i > 1 => audit[p][i].old = audit[p][i - 1].new

\* The movements of one type that an order left in the trail of a product.
Of(type, p, o) == {i \in 1..Len(audit[p]) : audit[p][i].type = type /\ audit[p][i].order = o}

\* Every item of an order took its units from stock once, and gave them back
\* once if and only if the order was cancelled, by update_random_order or by
\* soft_delete_random_order: never twice, never for an order that ships.
SoldOnceReturnedOnce ==
  \A p \in Products, o \in Orders :
    /\ IF orders[o].items[p] = 0 THEN Of("SALE", p, o) = {}
       ELSE \E i \in 1..Len(audit[p]) :
              Of("SALE", p, o) = {i} /\ audit[p][i].change = -orders[o].items[p]
    /\ IF orders[o].items[p] = 0 \/ orders[o].status # "CANCELLED"
       THEN Of("CANCEL_ORDER", p, o) = {}
       ELSE \E i \in 1..Len(audit[p]) :
              Of("CANCEL_ORDER", p, o) = {i} /\ audit[p][i].change = orders[o].items[p]

\* A cancelled order has no live shipment and none that was ever picked up,
\* whichever of the cancellation and the shipment stream came first.
CancelledShipsNothing ==
  \A o \in Orders : orders[o].status = "CANCELLED" =>
    ~Active(o) /\ shipment[o].status \in {"NONE", "PENDING"}

\* A shipment is delivered exactly when its order is completed, although the
\* UPDATE orders of the DELIVERED branch does not look at the order's status.
DeliveredIffCompleted ==
  \A o \in Orders : shipment[o].status = "DELIVERED" <=> orders[o].status = "COMPLETED"

\* Goods move only against money: an order with a shipment is PAID by a payment
\* that succeeded, and once the payment is refunded the shipment is withdrawn.
ShipmentOnlyForPaid ==
  \A o \in Orders : shipment[o].status # "NONE" =>
    /\ orders[o].pay = "PAID"
    /\ payment[o] = "SUCCESS" \/ (payment[o] = "REFUNDED" /\ ~Active(o))

\* A product is OUT_OF_STOCK exactly when it has no unit left: get_random_product
\* offers only ACTIVE products, so a wrong status hides stock or stalls orders.
OutOfStockIffZero ==
  \A p \in Products : pstatus[p] # "ABSENT" => (pstatus[p] = "OUT_OF_STOCK" <=> stock[p] = 0)

Rank(s) ==
  CASE s = "ABSENT" -> 0 [] s = "PENDING" -> 1 [] s = "CONFIRMED" -> 2 [] s = "SHIPPING" -> 3
    [] OTHER -> 4

\* An order never moves backwards and never leaves COMPLETED or CANCELLED, with
\* the order stream and the shipment stream both writing its status.
OrderNeverRegresses ==
  [][\A o \in Orders :
       orders'[o].status # orders[o].status => Rank(orders[o].status) < Rank(orders'[o].status)]_vars

\* Every transaction ends, by a commit or by a rollback, although cancellation
\* locks order then shipment and advance_random_shipment shipment then order.
EveryTransactionEnds ==
  /\ ord.pc # "idle" ~> ord.pc = "idle"
  /\ shp.pc # "idle" ~> shp.pc = "idle"
  /\ pay.pc # "idle" ~> pay.pc = "idle"

\* Every paid order gets its shipment unless it is cancelled first.
PaidOrderShips ==
  \A o \in Orders :
    orders[o].pay = "PAID" ~> (shipment[o].status # "NONE" \/ orders[o].status = "CANCELLED")

\* Whatever the streams do, stock changes only through audited movements.
Ledger == INSTANCE StockLedger
ImplementsLedger == Ledger!Spec
=============================================================================
