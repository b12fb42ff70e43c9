-------------------------- MODULE ShopStreams_proofs --------------------------
(***************************************************************************)
(* Theorems about ShopStreams for every set of products, orders, stocks,   *)
(* quantities and corrections.                                             *)
(***************************************************************************)
EXTENDS ShopStreams, FiniteSums

USE ShopAssumption

StockTypeOK ==
  /\ stock \in [Products -> Nat]
  /\ pstatus \in [Products -> {"ABSENT", "ACTIVE", "OUT_OF_STOCK"}]
  /\ audit \in [Products -> Seq(Movements)]

\* A single audited write keeps the types of the stock tables.
LEMMA WriteStockType ==
  ASSUME TypeOK, NEW p \in Products, NEW type \in {"IMPORT", "ADJUSTMENT"},
         NEW old \in Nat, NEW new \in Nat, WriteStock(p, type, old, new)
  PROVE  StockTypeOK'
<1>1. Movement(type, None, old, new) \in Movements
  BY DEF Movement, Movements
<1>2. StatusAfter(type, new) \in {"ACTIVE", "OUT_OF_STOCK"}
  BY DEF StatusAfter, StatusFor
<1>3. QED
  BY <1>1, <1>2 DEF TypeOK, StockTypeOK, WriteStock

\* A set of audited writes keeps them too, as long as no stock goes negative.
LEMMA ShiftStockType ==
  ASSUME TypeOK, NEW S \in SUBSET Products, NEW change \in [Products -> Int],
         \A p \in S : stock[p] + change[p] >= 0,
         NEW type \in {"SALE", "CANCEL_ORDER"}, NEW o \in Orders,
         ShiftStock(S, change, type, o)
  PROVE  StockTypeOK'
<1>1. \A p \in S : stock[p] + change[p] \in Nat
  BY DEF TypeOK
<1>2. \A p \in S : Movement(type, o, stock[p], stock[p] + change[p]) \in Movements
  BY <1>1 DEF TypeOK, Movement, Movements
<1>3. \A n : StatusAfter(type, n) \in {"ACTIVE", "OUT_OF_STOCK"}
  BY DEF StatusAfter, StatusFor
<1>4. stock' \in [Products -> Nat]
  BY <1>1 DEF TypeOK, ShiftStock
<1>5. pstatus' \in [Products -> {"ABSENT", "ACTIVE", "OUT_OF_STOCK"}]
  BY <1>3 DEF TypeOK, ShiftStock
<1>6. audit' \in [Products -> Seq(Movements)]
  BY <1>2 DEF TypeOK, ShiftStock
<1>7. QED
  BY <1>4, <1>5, <1>6 DEF StockTypeOK

\* The next stock of a product after a correction is a natural number.
LEMMA CorrectedNat ==
  ASSUME NEW n \in Nat, NEW d \in StockDeltas
  PROVE  Corrected(n, d) \in Nat
BY DEF Corrected

-----------------------------------------------------------------------------
(* TypeOK is inductive: its session shapes record which rows a transaction   *)
(* in a given phase has chosen.                                              *)

LEMMA TypeInit == Init => TypeOK
BY DEF Init, TypeOK, OrderRows, PaymentStates, ShipmentRows, Selling, IdleOrder,
       IdlePayment, IdleShipment, IdleCatalog, NoItems

LEMMA IdleOrderSelling == IdleOrder \in Selling
BY DEF IdleOrder, Selling, NoItems

\* Rewriting one column keeps a row well typed.
LEMMA OrderRowType ==
  ASSUME NEW row \in OrderRows,
         NEW s \in {"ABSENT", "PENDING", "CONFIRMED", "SHIPPING", "COMPLETED", "CANCELLED"},
         NEW d \in BOOLEAN
  PROVE  /\ [row EXCEPT !.status = s] \in OrderRows
         /\ [[row EXCEPT !.status = s] EXCEPT !.deleted = d] \in OrderRows
         /\ [row EXCEPT !.pay = "PAID"] \in OrderRows
BY DEF OrderRows

LEMMA ShipmentRowType ==
  ASSUME NEW row \in ShipmentRows,
         NEW s \in {"NONE", "PENDING", "PICKED_UP", "IN_TRANSIT", "DELIVERED"}, NEW d \in BOOLEAN
  PROVE  /\ [row EXCEPT !.status = s] \in ShipmentRows
         /\ [row EXCEPT !.deleted = d] \in ShipmentRows
BY DEF ShipmentRows

LEMMA OrderStreamType ==
  ASSUME TypeOK, OrderStream
  PROVE  TypeOK'
<1>1. CASE BeginInsert
  <2>1. ord' \in Selling
    <3>1. PICK n \in 1..MaxItems : ord' = [IdleOrder EXCEPT !.pc = "pick", !.want = n]
      BY <1>1 DEF BeginInsert
    <3>2. n \in Nat
      OBVIOUS
    <3>3. QED
      BY <3>1, <3>2, IdleOrderSelling DEF Selling
  <2>2. QED
    BY <1>1, <2>1 DEF BeginInsert, TypeOK, tables
<1>2. CASE OutOfStock \/ AbortOrder
  BY <1>2, IdleOrderSelling DEF OutOfStock, AbortOrder, TypeOK, tables
<1>3. ASSUME NEW p \in Products, PickProduct(p)
      PROVE  TypeOK'
  <2>1. ord \in Selling
    BY <1>3 DEF PickProduct, TypeOK, Confirming, Cancelling
  <2>2. PICK q \in Quantities : ord' = [ord EXCEPT !.cart[p] = q, !.want = @ - 1]
    BY <1>3 DEF PickProduct
  <2>3. ord.cart \in [Products -> Nat] /\ ord.want \in Nat \ {0} /\ q \in Nat
    BY <1>3, <2>1 DEF PickProduct, Remaining, Selling
  <2>4. [ord.cart EXCEPT ![p] = q] \in [Products -> Nat] /\ ord.want - 1 \in Nat
    BY <2>3
  <2>5. ord' \in Selling
    BY <2>1, <2>2, <2>4 DEF Selling
  <2>6. QED
    BY <1>3, <2>5 DEF PickProduct, TypeOK, tables
<1>4. ASSUME NEW p \in Products, RestoreProduct(p)
      PROVE  TypeOK'
  BY <1>4 DEF RestoreProduct, TypeOK, tables, Selling, Confirming, Cancelling
<1>5. ASSUME NEW o \in Orders, CommitInsert(o)
      PROVE  TypeOK'
  <2>1. ord \in Selling
    BY <1>5 DEF CommitInsert, TypeOK, Confirming, Cancelling
  <2>2. StockTypeOK'
    <3>1. [p \in Products |-> -ord.cart[p]] \in [Products -> Int]
      BY <2>1 DEF Selling
    <3>2. \A p \in Picked : stock[p] + [q \in Products |-> -ord.cart[q]][p] >= 0
      BY <1>5, <2>1 DEF CommitInsert, Selling, Picked, TypeOK
    <3>3. QED
      BY <1>5, <3>1, <3>2, ShiftStockType DEF CommitInsert, Picked
  <2>3. orders' \in [Orders -> OrderRows]
    BY <1>5, <2>1 DEF CommitInsert, TypeOK, OrderRows, Selling, PaidStatus
  <2>4. payment' \in [Orders -> PaymentStates]
    BY <1>5 DEF CommitInsert, TypeOK, PaymentStates
  <2>5. ord' \in Selling
    BY <1>5, IdleOrderSelling DEF CommitInsert
  <2>6. QED
    BY <1>5, <2>2, <2>3, <2>4, <2>5 DEF CommitInsert, TypeOK, StockTypeOK
<1>6. ASSUME NEW o \in Orders, SelectOrder(o)
      PROVE  TypeOK'
  <2>1. PICK g \in OrderTransitions(orders[o].status) \cup {"DELETED"} :
          ord' = [IdleOrder EXCEPT
                    !.pc = IF g \in {"CANCELLED", "DELETED"} THEN "restore" ELSE "update",
                    !.id = o, !.goal = g,
                    !.todo = IF g \in {"CANCELLED", "DELETED"} THEN Ordered(o) ELSE {}]
    BY <1>6 DEF SelectOrder
  <2>2. g \in {"CONFIRMED", "SHIPPING", "CANCELLED", "DELETED"}
    BY DEF OrderTransitions
  <2>3. ord' \in Confirming \cup Cancelling
    BY <2>1, <2>2 DEF IdleOrder, Confirming, Cancelling, Ordered
  <2>4. QED
    BY <1>6, <2>3 DEF SelectOrder, tables, TypeOK
<1>7. CASE CommitOrderStatus
  <2>1. ord \in Confirming
    BY <1>7 DEF CommitOrderStatus, TypeOK, Selling, Cancelling
  <2>2. orders' \in [Orders -> OrderRows]
    BY <1>7, <2>1, OrderRowType DEF CommitOrderStatus, TypeOK, Confirming
  <2>3. ord' \in Selling
    BY <1>7, IdleOrderSelling DEF CommitOrderStatus
  <2>4. QED
    BY <1>7, <2>2, <2>3 DEF CommitOrderStatus, TypeOK
<1>8. CASE RestoreDone \/ RefundPayment
  <2>1. ord \in Cancelling
    BY <1>8 DEF RestoreDone, RefundPayment, TypeOK, Selling, Confirming
  <2>2. ord' \in Cancelling
    BY <1>8, <2>1 DEF RestoreDone, RefundPayment, Cancelling
  <2>3. QED
    BY <1>8, <2>2 DEF RestoreDone, RefundPayment, TypeOK, tables
<1>9. CASE CommitCancel
  <2>1. ord \in Cancelling
    BY <1>9 DEF CommitCancel, TypeOK, Selling, Confirming
  <2>2. orders[ord.id].items \in [Products -> Nat]
    BY <2>1 DEF Cancelling, TypeOK, OrderRows
  <2>3. StockTypeOK'
    <3>1. Restored \in SUBSET Products
      BY DEF Restored, Ordered
    <3>2. \A p \in Restored : stock[p] + orders[ord.id].items[p] >= 0
      BY <2>2, <3>1 DEF TypeOK
    <3>3. ord.id \in Orders
      BY <2>1 DEF Cancelling
    <3>4. orders[ord.id].items \in [Products -> Int]
      BY <2>2
    <3>5. QED
      BY <1>9, <3>1, <3>2, <3>3, <3>4, ShiftStockType DEF CommitCancel
  <2>4. orders' \in [Orders -> OrderRows]
    <3>1. (ord.goal = "DELETED") \in BOOLEAN /\ ord.id \in Orders
      BY <2>1 DEF Cancelling
    <3>2. orders' = [orders EXCEPT ![ord.id] =
                       [[orders[ord.id] EXCEPT !.status = "CANCELLED"]
                          EXCEPT !.deleted = ord.goal = "DELETED"]]
      BY <1>9, <3>1 DEF CommitCancel, TypeOK
    <3>3. QED
      BY <3>1, <3>2, OrderRowType DEF TypeOK
  <2>5. payment' \in [Orders -> PaymentStates]
    BY <1>9 DEF CommitCancel, TypeOK, PaymentStates
  <2>6. shipment' \in [Orders -> ShipmentRows]
    <3>1. (shipment[ord.id].status # "NONE") \in BOOLEAN /\ ord.id \in Orders
      BY <2>1 DEF Cancelling
    <3>2. QED
      BY <1>9, <3>1, ShipmentRowType DEF CommitCancel, TypeOK
  <2>7. ord' \in Selling
    BY <1>9, IdleOrderSelling DEF CommitCancel
  <2>8. QED
    BY <1>9, <2>3, <2>4, <2>5, <2>6, <2>7 DEF CommitCancel, TypeOK, StockTypeOK
<1>10. QED
  BY <1>1, <1>2, <1>3, <1>4, <1>5, <1>6, <1>7, <1>8, <1>9 DEF OrderStream

LEMMA PaymentStreamType ==
  ASSUME TypeOK, PaymentStream
  PROVE  TypeOK'
<1>1. ASSUME NEW o \in Orders, SelectPayment(o)
      PROVE  TypeOK'
  BY <1>1 DEF SelectPayment, TypeOK, tables
<1>2. CASE CommitFailedPayment
  BY <1>2 DEF CommitFailedPayment, TypeOK, PaymentStates
<1>3. CASE UpdatePayment
  <2>1. pay \in [pc : {"selected", "paid"}, id : Orders, goal : {"SUCCESS", "FAILED"}]
    BY <1>3 DEF UpdatePayment, TypeOK, IdlePayment
  <2>2. pay' \in [pc : {"selected", "paid"}, id : Orders, goal : {"SUCCESS", "FAILED"}]
    BY <1>3, <2>1 DEF UpdatePayment
  <2>3. QED
    BY <1>3, <2>2 DEF UpdatePayment, TypeOK, tables
<1>4. CASE CommitPaid
  <2>1. pay.id \in Orders
    BY <1>4 DEF CommitPaid, TypeOK, IdlePayment
  <2>2. orders' \in [Orders -> OrderRows] /\ payment' \in [Orders -> PaymentStates]
    BY <1>4, <2>1, OrderRowType DEF CommitPaid, TypeOK, PaymentStates
  <2>3. QED
    BY <1>4, <2>2 DEF CommitPaid, TypeOK
<1>5. CASE AbortPayment
  BY <1>5 DEF AbortPayment, TypeOK, tables
<1>6. QED
  BY <1>1, <1>2, <1>3, <1>4, <1>5 DEF PaymentStream

LEMMA ShipmentStreamType ==
  ASSUME TypeOK, ShipmentStream
  PROVE  TypeOK'
<1>1. ASSUME NEW o \in Orders, SelectPaidOrder(o) \/ SelectShipment(o)
      PROVE  TypeOK'
  BY <1>1 DEF SelectPaidOrder, SelectShipment, TypeOK, tables
<1>2. CASE CommitShipment
  BY <1>2 DEF CommitShipment, TypeOK, ShipmentRows
<1>3. CASE CommitAdvance
  <2>1. shp.id \in Orders
    BY <1>3 DEF CommitAdvance, TypeOK, IdleShipment
  <2>2. PICK s \in {"PICKED_UP", "IN_TRANSIT", "DELIVERED"} :
          /\ shipment' = [shipment EXCEPT ![shp.id].status = s]
          /\ orders' = [orders EXCEPT ![shp.id].status = OrderAfter(orders[shp.id], s)]
    BY <1>3 DEF CommitAdvance, NextShipmentStatus
  <2>3. shipment' \in [Orders -> ShipmentRows]
    BY <2>1, <2>2, ShipmentRowType DEF TypeOK
  <2>4. orders' \in [Orders -> OrderRows]
    <3>1. OrderAfter(orders[shp.id], s) \in
            {"ABSENT", "PENDING", "CONFIRMED", "SHIPPING", "COMPLETED", "CANCELLED"}
      BY <2>1 DEF TypeOK, OrderRows, OrderAfter
    <3>2. QED
      BY <2>1, <2>2, <3>1, OrderRowType DEF TypeOK
  <2>5. QED
    BY <1>3, <2>3, <2>4 DEF CommitAdvance, TypeOK
<1>4. CASE AbortShipment
  BY <1>4 DEF AbortShipment, TypeOK, tables
<1>5. QED
  BY <1>1, <1>2, <1>3, <1>4 DEF ShipmentStream

LEMMA CatalogType ==
  ASSUME TypeOK, ProductStream \/ InventoryStream
  PROVE  TypeOK'
<1>1. ASSUME NEW p \in Products, InsertProduct(p)
      PROVE  TypeOK'
  BY <1>1, WriteStockType DEF InsertProduct, TypeOK, StockTypeOK
<1>2. ASSUME NEW p \in Products, SelectProduct(p) \/ SelectImport(p)
      PROVE  TypeOK'
  BY <1>2 DEF SelectProduct, SelectImport, TypeOK, tables
<1>3. CASE CommitPrice \/ AbortProduct \/ AbortImport
  BY <1>3 DEF CommitPrice, AbortProduct, AbortImport, TypeOK, tables
<1>4. CASE CommitCorrection
  <2>1. cat.id \in Products /\ cat.seen \in Nat
    BY <1>4 DEF CommitCorrection, TypeOK, IdleCatalog
  <2>2. StockTypeOK'
    BY <1>4, <2>1, CorrectedNat, WriteStockType DEF CommitCorrection
  <2>3. QED
    BY <1>4, <2>2 DEF CommitCorrection, TypeOK, StockTypeOK
<1>5. CASE CommitImport
  <2>1. inv.id \in Products /\ inv.seen \in Nat
    BY <1>5 DEF CommitImport, TypeOK, IdleCatalog
  <2>2. StockTypeOK'
    BY <1>5, <2>1, WriteStockType DEF CommitImport
  <2>3. QED
    BY <1>5, <2>2 DEF CommitImport, TypeOK, StockTypeOK
<1>6. QED
  BY <1>1, <1>2, <1>3, <1>4, <1>5 DEF ProductStream, InventoryStream

LEMMA TypeStep == TypeOK /\ [Next]_vars => TypeOK'
<1> SUFFICES ASSUME TypeOK, [Next]_vars
             PROVE  TypeOK'
  OBVIOUS
<1>1. CASE UNCHANGED vars
  BY <1>1 DEF vars, TypeOK
<1>2. CASE OrderStream
  BY <1>2, OrderStreamType
<1>3. CASE PaymentStream
  BY <1>3, PaymentStreamType
<1>4. CASE ShipmentStream
  BY <1>4, ShipmentStreamType
<1>5. CASE ProductStream \/ InventoryStream
  BY <1>5, CatalogType
<1>6. CASE BreakDeadlock
  BY <1>6, OrderStreamType, ShipmentStreamType DEF BreakDeadlock, OrderStream, ShipmentStream
<1>7. QED
  BY <1>1, <1>2, <1>3, <1>4, <1>5, <1>6 DEF Next

\* Every table and every session of the shop keeps its type.
THEOREM TypeCorrect == Spec => []TypeOK
<1>1. Init => TypeOK
  BY TypeInit
<1>2. TypeOK /\ [Next]_vars => TypeOK'
  BY TypeStep
<1>3. QED
  BY <1>1, <1>2, PTL DEF Spec

-----------------------------------------------------------------------------
(* ReadsStayFresh.  Stock moves only on rows the committing transaction has  *)
(* locked, and no two sessions lock the same product.                        *)

\* Between two transactions the order stream holds no product.
LEMMA IdleHoldsNothing ==
  ASSUME ord' = IdleOrder
  PROVE  Picked' = {} /\ Restored' = {}
BY DEF IdleOrder, NoItems, Picked, Restored

\* A commit of the order stream changes only products it holds, and releases them.
LEMMA FreshAfterShift ==
  ASSUME TypeOK, ReadsStayFresh, NEW S \in SUBSET (Picked \cup Restored), NEW change, NEW type, NEW o,
         type \in {"SALE", "CANCEL_ORDER"}, ShiftStock(S, change, type, o),
         ord' = IdleOrder, UNCHANGED <<cat, inv>>
  PROVE  ReadsStayFresh'
<1>1. \A p \in Products \ S : stock'[p] = stock[p] /\ pstatus'[p] = pstatus[p]
  BY DEF ShiftStock
<1>2. S \subseteq Products
  BY DEF Picked, Restored, Ordered
<1>3. \A p \in S : pstatus'[p] # "ABSENT"
  BY <1>2 DEF ShiftStock, StatusAfter, StatusFor
<1>4. (cat.pc = "locked" => cat.id \in Products) /\ (inv.pc = "locked" => inv.id \in Products)
  BY DEF TypeOK, IdleCatalog
<1>5. QED
  BY <1>1, <1>3, <1>4, IdleHoldsNothing DEF ReadsStayFresh

\* A commit of the product or the import stream changes one product, which no
\* other session holds.
LEMMA FreshAfterWrite ==
  ASSUME TypeOK, ReadsStayFresh, NEW p \in Products, NEW type, NEW old, NEW new,
         WriteStock(p, type, old, new), UNCHANGED <<ord, orders>>,
         cat'.pc = "locked" => cat' = cat /\ cat.id # p,
         inv'.pc = "locked" => inv' = inv /\ inv.id # p
  PROVE  ReadsStayFresh'
<1>1. Picked' = Picked /\ Restored' = Restored
  BY DEF Picked, Restored, Ordered
<1>2. pstatus'[p] # "ABSENT"
  BY DEF TypeOK, WriteStock, StatusAfter, StatusFor
<1>3. \A q \in Products \ {p} : stock'[q] = stock[q] /\ pstatus'[q] = pstatus[q]
  BY DEF TypeOK, WriteStock
<1>4. (cat.pc = "locked" => cat.id \in Products) /\ (inv.pc = "locked" => inv.id \in Products)
  BY DEF TypeOK, IdleCatalog
<1>5. QED
  BY <1>1, <1>2, <1>3, <1>4 DEF ReadsStayFresh

\* What the order stream may do to its locks without touching stock.
LEMMA FreshAfterLock ==
  ASSUME ReadsStayFresh, UNCHANGED <<stock, pstatus, cat, inv>>,
         \A p \in (Picked \cup Restored)' :
           p \in Picked \cup Restored \/ (cat.id # p /\ inv.id # p)
  PROVE  ReadsStayFresh'
BY DEF ReadsStayFresh

LEMMA FreshOrderStream ==
  ASSUME TypeOK, ReadsStayFresh, OrderStream
  PROVE  ReadsStayFresh'
<1>1. CASE BeginInsert
  <2>1. (Picked \cup Restored)' = {}
    BY <1>1 DEF BeginInsert, IdleOrder, NoItems, Picked, Restored
  <2>2. QED
    BY <1>1, <2>1, FreshAfterLock DEF BeginInsert, tables
<1>2. CASE OutOfStock \/ AbortOrder \/ CommitOrderStatus
  BY <1>2, IdleHoldsNothing, FreshAfterLock DEF OutOfStock, AbortOrder, CommitOrderStatus, tables
<1>3. ASSUME NEW p \in Products, PickProduct(p)
      PROVE  ReadsStayFresh'
  <2>1. PICK q \in Quantities : Sellable(p, q) /\ ord' = [ord EXCEPT !.cart[p] = q, !.want = @ - 1]
    BY <1>3 DEF PickProduct
  <2>2. ord \in Selling
    BY <1>3 DEF PickProduct, TypeOK, Confirming, Cancelling
  <2>3. ord'.pc = "pick" /\ \A r \in Products : r # p => ord'.cart[r] = ord.cart[r]
    BY <1>3, <2>1, <2>2 DEF PickProduct, Selling
  <2>4. \A r \in (Picked \cup Restored)' : r \in Picked \/ r = p
    BY <2>3 DEF Picked, Restored
  <2>5. cat.id # p /\ inv.id # p
    BY <2>1 DEF Sellable, FreeProduct
  <2>6. QED
    BY <1>3, <2>4, <2>5, FreshAfterLock DEF PickProduct, tables
<1>4. ASSUME NEW p \in Products, RestoreProduct(p)
      PROVE  ReadsStayFresh'
  <2>1. ord \in Cancelling
    BY <1>4 DEF RestoreProduct, TypeOK, Selling, Confirming
  <2>2. ord'.pc = "restore" /\ ord'.id = ord.id /\ ord'.todo = ord.todo \ {p} /\ ord'.cart = ord.cart
    BY <1>4, <2>1 DEF RestoreProduct, Cancelling
  <2>3. \A r \in (Picked \cup Restored)' : r \in Picked \cup Restored \/ r = p
    BY <1>4, <2>2 DEF RestoreProduct, tables, Picked, Restored, Ordered
  <2>4. cat.id # p /\ inv.id # p
    BY <1>4 DEF RestoreProduct, FreeProduct
  <2>5. QED
    BY <1>4, <2>3, <2>4, FreshAfterLock DEF RestoreProduct, tables
<1>5. ASSUME NEW o \in Orders, CommitInsert(o)
      PROVE  ReadsStayFresh'
  BY <1>5, FreshAfterShift DEF CommitInsert
<1>6. ASSUME NEW o \in Orders, SelectOrder(o)
      PROVE  ReadsStayFresh'
  <2>1. ord'.cart = NoItems /\ ord'.pc \in {"restore", "update"}
    BY <1>6 DEF SelectOrder, IdleOrder
  <2>2. ord'.pc = "restore" => ord'.todo = Ordered(ord'.id)
    BY <1>6 DEF SelectOrder, IdleOrder
  <2>3. (Picked \cup Restored)' = {}
    BY <1>6, <2>1, <2>2 DEF SelectOrder, tables, NoItems, Picked, Restored, Ordered
  <2>4. QED
    BY <1>6, <2>3, FreshAfterLock DEF SelectOrder, tables
<1>7. CASE RestoreDone \/ RefundPayment
  <2>1. ord \in Cancelling
    BY <1>7 DEF RestoreDone, RefundPayment, TypeOK, Selling, Confirming
  <2>2. /\ ord'.pc \in {"refund", "ships"} /\ ord.pc \in {"restore", "refund"}
        /\ ord'.id = ord.id /\ ord'.todo = ord.todo /\ ord'.cart = ord.cart
    BY <1>7, <2>1 DEF RestoreDone, RefundPayment, Cancelling
  <2>3. (Picked \cup Restored)' = Picked \cup Restored
    BY <1>7, <2>2 DEF RestoreDone, RefundPayment, tables, Picked, Restored, Ordered
  <2>4. QED
    BY <1>7, <2>3, FreshAfterLock DEF RestoreDone, RefundPayment, tables
<1>8. CASE CommitCancel
  BY <1>8, FreshAfterShift DEF CommitCancel
<1>9. QED
  BY <1>1, <1>2, <1>3, <1>4, <1>5, <1>6, <1>7, <1>8 DEF OrderStream

\* The payment and the shipment stream rewrite orders but never their items.
LEMMA ItemsKept ==
  ASSUME TypeOK, PaymentStream \/ ShipmentStream
  PROVE  \A o \in Orders : orders'[o].items = orders[o].items
<1>1. CASE CommitPaid
  BY <1>1 DEF CommitPaid, TypeOK, OrderRows
<1>2. CASE CommitAdvance
  <2>1. PICK s : orders' = [orders EXCEPT ![shp.id].status = s]
    BY <1>2 DEF CommitAdvance
  <2>2. QED
    BY <2>1 DEF TypeOK, OrderRows
<1>3. CASE UNCHANGED orders
  BY <1>3
<1>4. QED
  BY <1>1, <1>2, <1>3 DEF PaymentStream, ShipmentStream, SelectPayment, CommitFailedPayment,
     UpdatePayment, AbortPayment, SelectPaidOrder, SelectShipment, CommitShipment, AbortShipment, tables

LEMMA FreshOtherStreams ==
  ASSUME TypeOK, ReadsStayFresh, PaymentStream \/ ShipmentStream
  PROVE  ReadsStayFresh'
<1>1. UNCHANGED <<stock, pstatus, ord, cat, inv>>
  BY DEF PaymentStream, ShipmentStream, SelectPayment, CommitFailedPayment, UpdatePayment, CommitPaid,
     AbortPayment, SelectPaidOrder, SelectShipment, CommitShipment, CommitAdvance, AbortShipment, tables
<1>2. ord.pc \in {"restore", "refund", "ships"} => ord.id \in Orders
  BY DEF TypeOK, Selling, Confirming, Cancelling
<1>3. (Picked \cup Restored)' = Picked \cup Restored
  BY <1>1, <1>2, ItemsKept DEF Picked, Restored, Ordered
<1>4. QED
  BY <1>1, <1>3, FreshAfterLock

LEMMA FreshCatalog ==
  ASSUME TypeOK, ReadsStayFresh, ProductStream \/ InventoryStream
  PROVE  ReadsStayFresh'
<1>1. ASSUME NEW p \in Products, InsertProduct(p)
      PROVE  ReadsStayFresh'
  BY <1>1, FreshAfterWrite DEF InsertProduct, ReadsStayFresh
<1>2. ASSUME NEW p \in Products, SelectProduct(p)
      PROVE  ReadsStayFresh'
  <2>1. (Picked \cup Restored)' = Picked \cup Restored
    BY <1>2 DEF SelectProduct, tables, Picked, Restored, Ordered
  <2>2. QED
    BY <1>2, <2>1 DEF SelectProduct, FreeProduct, tables, ReadsStayFresh
<1>3. ASSUME NEW p \in Products, SelectImport(p)
      PROVE  ReadsStayFresh'
  <2>1. (Picked \cup Restored)' = Picked \cup Restored
    BY <1>3 DEF SelectImport, tables, Picked, Restored, Ordered
  <2>2. QED
    BY <1>3, <2>1 DEF SelectImport, FreeProduct, tables, ReadsStayFresh
<1>4. CASE CommitPrice \/ AbortProduct \/ AbortImport
  <2>1. (Picked \cup Restored)' = Picked \cup Restored
    BY <1>4 DEF CommitPrice, AbortProduct, AbortImport, tables, Picked, Restored, Ordered
  <2>2. QED
    BY <1>4, <2>1 DEF CommitPrice, AbortProduct, AbortImport, tables, IdleCatalog, ReadsStayFresh
<1>5. CASE CommitCorrection
  <2>1. cat.id \in Products
    BY <1>5 DEF CommitCorrection, TypeOK, IdleCatalog
  <2>2. PICK new : WriteStock(cat.id, "ADJUSTMENT", cat.seen, new)
    BY <1>5 DEF CommitCorrection
  <2>3. QED
    BY <1>5, <2>1, <2>2, FreshAfterWrite DEF CommitCorrection, IdleCatalog, ReadsStayFresh
<1>6. CASE CommitImport
  <2>1. inv.id \in Products
    BY <1>6 DEF CommitImport, TypeOK, IdleCatalog
  <2>2. PICK new : WriteStock(inv.id, "IMPORT", inv.seen, new)
    BY <1>6 DEF CommitImport
  <2>3. QED
    BY <1>6, <2>1, <2>2, FreshAfterWrite DEF CommitImport, IdleCatalog, ReadsStayFresh
<1>7. QED
  BY <1>1, <1>2, <1>3, <1>4, <1>5, <1>6 DEF ProductStream, InventoryStream

LEMMA FreshStep == TypeOK /\ ReadsStayFresh /\ [Next]_vars => ReadsStayFresh'
<1> SUFFICES ASSUME TypeOK, ReadsStayFresh, [Next]_vars
             PROVE  ReadsStayFresh'
  OBVIOUS
<1>1. CASE UNCHANGED vars
  BY <1>1 DEF vars, ReadsStayFresh, Picked, Restored, Ordered
<1>2. CASE BreakDeadlock
  BY <1>2, FreshOrderStream, FreshOtherStreams DEF BreakDeadlock, OrderStream, ShipmentStream
<1>3. QED
  BY <1>1, <1>2, FreshOrderStream, FreshOtherStreams, FreshCatalog DEF Next

\* No stream overwrites a stock value it has not seen: every value read under a
\* row lock is still current when the transaction that read it writes it back.
THEOREM NoLostUpdate == Spec => []ReadsStayFresh
<1>1. Init => ReadsStayFresh
  BY DEF Init, ReadsStayFresh, IdleCatalog
<1>2. QED
  BY <1>1, FreshStep, TypeCorrect, PTL DEF Spec

-----------------------------------------------------------------------------
(* The shop implements the stock ledger.                                     *)

\* Appending one entry to a sequence.
LEMMA AppendLast ==
  ASSUME NEW T, NEW s \in Seq(T), NEW e \in T
  PROVE  /\ Len(Append(s, e)) = Len(s) + 1
         /\ Append(s, e)[Len(s) + 1] = e
         /\ \A i \in 1..Len(s) : Append(s, e)[i] = s[i]
         /\ Append(s, e) # <<>>
OBVIOUS

\* A product whose trail gained a matching movement has been posted to.
LEMMA Posted ==
  ASSUME TypeOK, NEW p \in Products, NEW type \in {"IMPORT", "SALE", "ADJUSTMENT", "CANCEL_ORDER"},
         NEW o \in Orders \cup {None}, stock'[p] \in Nat,
         audit'[p] = Append(audit[p], Movement(type, o, stock[p], stock'[p]))
  PROVE  audit'[p] # <<>> /\ Ledger!Posts(p, audit'[p][Len(audit'[p])])
<1> DEFINE m == Movement(type, o, stock[p], stock'[p])
<1>1. m \in Movements
  BY DEF TypeOK, Movement, Movements
<1>2. audit'[p] # <<>> /\ audit'[p][Len(audit'[p])] = m
  <2>1. audit[p] \in Seq(Movements) /\ audit'[p] = Append(audit[p], m)
    BY DEF TypeOK
  <2> HIDE DEF m
  <2>2. QED
    BY <1>1, <2>1, AppendLast
<1>3. m.old = stock[p] /\ m.new = stock'[p] /\ m.change = m.new - m.old
  BY DEF Movement
<1>4. QED
  BY <1>2, <1>3 DEF Ledger!Posts

LEMMA WritePosts ==
  ASSUME TypeOK, NEW p \in Products, NEW type \in {"IMPORT", "ADJUSTMENT"}, NEW new \in Nat,
         WriteStock(p, type, stock[p], new)
  PROVE  Ledger!Post
<1>1. stock'[p] = new /\ audit'[p] = Append(audit[p], Movement(type, None, stock[p], stock'[p]))
  BY DEF WriteStock, TypeOK
<1>2. \A q \in Products \ {p} : Ledger!Untouched(q)
  BY DEF WriteStock, TypeOK, Ledger!Untouched
<1>3. QED
  BY <1>1, <1>2, Posted DEF Ledger!Post

LEMMA ShiftPosts ==
  ASSUME TypeOK, StockTypeOK', NEW S \in SUBSET Products, NEW change,
         NEW type \in {"SALE", "CANCEL_ORDER"}, NEW o \in Orders, ShiftStock(S, change, type, o)
  PROVE  Ledger!Post
<1>1. \A p \in S : /\ stock'[p] \in Nat
                   /\ audit'[p] = Append(audit[p], Movement(type, o, stock[p], stock'[p]))
  BY DEF ShiftStock, StockTypeOK
<1>2. \A p \in Products \ S : Ledger!Untouched(p)
  BY DEF ShiftStock, Ledger!Untouched
<1>3. QED
  BY <1>1, <1>2, Posted DEF Ledger!Post

LEMMA LedgerStep ==
  TypeOK /\ ReadsStayFresh /\ [Next]_vars => [Ledger!Post]_<<stock, audit>>
<1> SUFFICES ASSUME TypeOK, ReadsStayFresh, [Next]_vars
             PROVE  [Ledger!Post]_<<stock, audit>>
  OBVIOUS
<1> StockTypeOK'
  BY TypeStep DEF TypeOK, StockTypeOK
<1>1. ASSUME NEW p \in Products, InsertProduct(p)
      PROVE  Ledger!Post
  <2>1. PICK n \in InitialStocks : WriteStock(p, "IMPORT", 0, n)
    BY <1>1 DEF InsertProduct
  <2>2. stock[p] = 0
    BY <1>1 DEF InsertProduct, ReadsStayFresh
  <2>3. QED
    BY <2>1, <2>2, WritePosts
<1>2. ASSUME NEW o \in Orders, CommitInsert(o)
      PROVE  Ledger!Post
  BY <1>2, ShiftPosts DEF CommitInsert, Picked
<1>3. CASE CommitCancel
  <2>1. ord.id \in Orders
    BY <1>3 DEF CommitCancel, TypeOK, Selling, Confirming, Cancelling
  <2>2. Restored \in SUBSET Products
    BY DEF Restored, Ordered
  <2>3. QED
    BY <1>3, <2>1, <2>2, ShiftPosts DEF CommitCancel
<1>4. CASE CommitCorrection
  <2>1. cat.id \in Products /\ cat.seen \in Nat /\ cat.seen = stock[cat.id]
    BY <1>4 DEF CommitCorrection, TypeOK, IdleCatalog, ReadsStayFresh
  <2>2. PICK d \in StockDeltas : WriteStock(cat.id, "ADJUSTMENT", cat.seen, Corrected(cat.seen, d))
    BY <1>4 DEF CommitCorrection
  <2>3. QED
    BY <2>1, <2>2, CorrectedNat, WritePosts
<1>5. CASE CommitImport
  <2>1. inv.id \in Products /\ inv.seen \in Nat /\ inv.seen = stock[inv.id]
    BY <1>5 DEF CommitImport, TypeOK, IdleCatalog, ReadsStayFresh
  <2>2. PICK n \in ImportSizes : WriteStock(inv.id, "IMPORT", inv.seen, inv.seen + n)
    BY <1>5 DEF CommitImport
  <2>3. QED
    BY <2>1, <2>2, WritePosts
<1>6. CASE UNCHANGED <<stock, audit>>
  BY <1>6
<1>7. QED
  BY <1>1, <1>2, <1>3, <1>4, <1>5, <1>6
     DEF Next, vars, tables, OrderStream, PaymentStream, ShipmentStream, ProductStream, InventoryStream,
         BeginInsert, OutOfStock, PickProduct, RestoreProduct, SelectOrder, CommitOrderStatus, RestoreDone,
         RefundPayment, AbortOrder, SelectPayment, CommitFailedPayment, UpdatePayment, CommitPaid,
         AbortPayment, SelectPaidOrder, SelectShipment, CommitShipment, CommitAdvance, AbortShipment,
         SelectProduct, CommitPrice, AbortProduct, SelectImport, AbortImport, BreakDeadlock

\* Stock changes only through audited movements: every step of the streams is a
\* posting of the abstract ledger, or leaves stock and trail alone.
THEOREM StreamsImplementLedger == Spec => ImplementsLedger
<1>1. Init => Ledger!Init
  BY DEF Init, Ledger!Init
<1>2. QED
  BY <1>1, LedgerStep, TypeCorrect, NoLostUpdate, PTL DEF Spec, Ledger!Spec, ImplementsLedger

-----------------------------------------------------------------------------
(* The audit trail is a chain.                                               *)

\* The chain of one product.
ChainOf(s, n) ==
  /\ s = <<>> => n = 0
  /\ s # <<>> => s[1].old = 0 /\ s[Len(s)].new = n
  /\ \A i \in 1..Len(s) :
       /\ s[i].new = s[i].old + s[i].change /\ s[i].new >= 0
       /\ i > 1 => s[i].old = s[i - 1].new

\* One posting extends the chain it is appended to.
LEMMA ChainGrows ==
  ASSUME NEW s \in Seq(Movements), NEW m \in Movements, NEW n, NEW k,
         ChainOf(s, n), m.old = n, m.new = k, m.change = m.new - m.old, m.new >= 0
  PROVE  ChainOf(Append(s, m), k)
<1> DEFINE t == Append(s, m)
<1>1. /\ Len(t) = Len(s) + 1 /\ t[Len(s) + 1] = m /\ t # <<>>
      /\ \A i \in 1..Len(s) : t[i] = s[i]
  BY AppendLast
<1>2. Len(s) \in Nat /\ (s # <<>> <=> Len(s) > 0)
  OBVIOUS
<1>3. m.old \in Int /\ m.new \in Int /\ m.change \in Int
  BY DEF Movements
<1> HIDE DEF t
<1>4. t[1].old = 0 /\ t[Len(t)].new = k
  <2>1. CASE s = <<>>
    BY <1>1, <1>2, <2>1 DEF ChainOf
  <2>2. CASE s # <<>>
    BY <1>1, <1>2, <2>2 DEF ChainOf
  <2>3. QED
    BY <2>1, <2>2
<1>5. ASSUME NEW i \in 1..Len(t)
      PROVE  /\ t[i].new = t[i].old + t[i].change /\ t[i].new >= 0
             /\ i > 1 => t[i].old = t[i - 1].new
  <2>1. CASE i \in 1..Len(s)
    BY <1>1, <1>2, <2>1 DEF ChainOf
  <2>2. CASE i = Len(s) + 1
    <3>1. i > 1 => s # <<>> /\ i - 1 = Len(s) /\ i - 1 \in 1..Len(s)
      BY <1>2, <2>2
    <3>2. i > 1 => t[i].old = t[i - 1].new
      BY <1>1, <2>2, <3>1 DEF ChainOf
    <3>3. t[i].new = t[i].old + t[i].change
      BY <1>1, <1>3, <2>2
    <3>4. QED
      BY <1>1, <2>2, <3>2, <3>3
  <2>3. QED
    BY <1>1, <1>2, <2>1, <2>2
<1>6. QED
  BY <1>1, <1>4, <1>5 DEF ChainOf, t

LEMMA ChainStep ==
  ASSUME TypeOK, AuditChain, TypeOK', [Ledger!Post]_<<stock, audit>>
  PROVE  AuditChain'
<1>1. \A p \in Products : ChainOf(audit[p], stock[p])
  BY DEF AuditChain, ChainOf
<1>2. ASSUME NEW p \in Products
      PROVE  ChainOf(audit'[p], stock'[p])
  <2>1. CASE audit'[p] = audit[p] /\ stock'[p] = stock[p]
    BY <1>1, <2>1
  <2>2. CASE audit'[p] # <<>> /\ Ledger!Posts(p, audit'[p][Len(audit'[p])])
    <3>1. audit[p] \in Seq(Movements) /\ audit'[p] \in Seq(Movements)
      BY DEF TypeOK
    <3>2. audit'[p][Len(audit'[p])] \in Movements
      BY <2>2, <3>1
    <3>3. PICK m \in Movements :
            /\ audit'[p] = Append(audit[p], m) /\ m.old = stock[p] /\ m.new = stock'[p]
            /\ m.change = m.new - m.old /\ m.new >= 0
      BY <2>2, <3>2 DEF Ledger!Posts
    <3>4. ChainOf(audit[p], stock[p])
      BY <1>1
    <3>5. ChainOf(Append(audit[p], m), stock'[p])
      BY <3>1, <3>3, <3>4, ChainGrows
    <3>6. QED
      BY <3>3, <3>5
  <2>3. QED
    BY <2>1, <2>2 DEF Ledger!Post, Ledger!Untouched
<1>3. QED
  BY <1>2 DEF AuditChain, ChainOf

\* For every product the movements form an unbroken chain from 0 to the stock on
\* hand: the audit rows alone reproduce products.stock_quantity.
THEOREM AuditTrailIsAChain == Spec => []AuditChain
<1>1. Init => AuditChain
  <2> SUFFICES ASSUME Init, NEW p \in Products
               PROVE  audit[p] = <<>> /\ stock[p] = 0 /\ 1..Len(audit[p]) = {}
    BY DEF AuditChain
  <2>1. audit[p] = <<>> /\ stock[p] = 0
    BY DEF Init
  <2>2. QED
    BY <2>1
<1>2. TypeOK /\ TypeOK' /\ ReadsStayFresh /\ AuditChain /\ [Next]_vars => AuditChain'
  BY LedgerStep, ChainStep
<1>3. QED
  BY <1>1, <1>2, TypeCorrect, NoLostUpdate, PTL DEF Spec

-----------------------------------------------------------------------------
(* What a trail adds up to.                                                 *)

\* SUM(quantity_change) of a trail.
ChangesOf(s) == [i \in 1..Len(s) |-> s[i].change]
SumOfChanges(s) == SumFunctionOnSet(ChangesOf(s), 1..Len(s))

LEMMA EmptySum == SumOfChanges(<<>>) = 0
<1>1. 1..Len(<<>>) = {}
  OBVIOUS
<1> QED
  BY <1>1, SumOfNothing DEF SumOfChanges

\* A movement that is appended adds its change.
LEMMA SumGrows ==
  ASSUME NEW M, \A m \in M : m.change \in Int, NEW s \in Seq(M), NEW m \in M
  PROVE  SumOfChanges(Append(s, m)) = SumOfChanges(s) + m.change
<1> DEFINE t == Append(s, m)
           n == Len(s)
           f == ChangesOf(s)
           g == ChangesOf(t)
<1>1. n \in Nat /\ Len(t) = n + 1 /\ t[n + 1] = m /\ \A i \in 1..n : t[i] = s[i] /\ s[i] \in M
  OBVIOUS
<1> HIDE DEF t
<1>2. /\ \A i \in 1..n : f[i] \in Int /\ g[i] = f[i]
      /\ g[n + 1] = m.change /\ m.change \in Int /\ 1..Len(t) = 1..(n + 1)
  BY <1>1 DEF ChangesOf
<1> HIDE DEF f, g
<1>3. IsFiniteSet(1..n) /\ IsFiniteSet(1..(n + 1)) /\ (1..(n + 1)) \ {n + 1} = 1..n
  <2>1. IsFiniteSet(1..n) /\ IsFiniteSet(1..(n + 1))
    BY <1>1, FS_Interval
  <2>2. (1..(n + 1)) \ {n + 1} = 1..n
    BY <1>1
  <2> QED
    BY <2>1, <2>2
<1>4. \A i \in 1..(n + 1) : g[i] \in Int
  <2> SUFFICES ASSUME NEW i \in 1..(n + 1) PROVE g[i] \in Int
    OBVIOUS
  <2>1. i \in 1..n \/ i = n + 1
    BY <1>1
  <2> QED
    BY <1>2, <2>1
<1>5. SumFunctionOnSet(g, 1..(n + 1)) = m.change + SumFunctionOnSet(g, 1..n)
  <2>1. PICK x : x = n + 1
    OBVIOUS
  <2>2. PICK S : S = 1..(n + 1)
    OBVIOUS
  <2>3. x \in S /\ IsFiniteSet(S) /\ \A i \in S : g[i] \in Int
    BY <1>1, <1>3, <1>4, <2>1, <2>2
  <2>4. SumFunctionOnSet(g, S) = g[x] + SumFunctionOnSet(g, S \ {x})
    BY <2>3, SumOfOneMore
  <2> QED
    BY <1>2, <1>3, <2>1, <2>2, <2>4
<1>6. SumFunctionOnSet(f, 1..n) = SumFunctionOnSet(g, 1..n)
  BY <1>2, <1>3, SumOfSame
<1>7. SumFunctionOnSet(f, 1..n) \in Int
  BY <1>2, <1>3, SumIsInt
<1>8. SumOfChanges(s) = SumFunctionOnSet(f, 1..n)
  BY DEF SumOfChanges, f
<1>9. SumOfChanges(t) = SumFunctionOnSet(g, 1..(n + 1))
  BY <1>2 DEF SumOfChanges, g
<1> QED
  BY <1>2, <1>5, <1>6, <1>7, <1>8, <1>9 DEF t

\* The stock on hand is the sum of the changes of the movements.
StockIsSum == \A p \in Products : stock[p] = SumOfChanges(audit[p])

LEMMA SumStep ==
  ASSUME TypeOK, TypeOK', StockIsSum, [Ledger!Post]_<<stock, audit>>
  PROVE  StockIsSum'
<1> SUFFICES ASSUME NEW p \in Products PROVE stock'[p] = SumOfChanges(audit'[p])
  BY DEF StockIsSum, SumOfChanges, ChangesOf
<1>1. stock[p] = SumOfChanges(audit[p])
  BY DEF StockIsSum
<1>2. CASE audit'[p] = audit[p] /\ stock'[p] = stock[p]
  BY <1>1, <1>2
<1>3. CASE audit'[p] # <<>> /\ Ledger!Posts(p, audit'[p][Len(audit'[p])])
  <2>1. audit[p] \in Seq(Movements) /\ audit'[p] \in Seq(Movements)
        /\ stock[p] \in Nat /\ stock'[p] \in Nat
    BY DEF TypeOK
  <2>2. audit'[p][Len(audit'[p])] \in Movements
    BY <1>3, <2>1
  <2>3. PICK m \in Movements :
          /\ audit'[p] = Append(audit[p], m) /\ m.old = stock[p] /\ m.new = stock'[p]
          /\ m.change = m.new - m.old
    BY <1>3, <2>2 DEF Ledger!Posts
  <2>4. \A x \in Movements : x.change \in Int
    BY DEF Movements
  <2>5. PICK s \in Seq(Movements) : s = audit[p]
    BY <2>1
  <2>6. SumOfChanges(Append(s, m)) = SumOfChanges(s) + m.change
    BY <2>4, SumGrows
  <2> QED
    BY <1>1, <2>1, <2>3, <2>5, <2>6
<1> QED
  BY <1>2, <1>3 DEF Ledger!Post, Ledger!Untouched

\* products.stock_quantity is the sum of the product's movements, whichever of the
\* five writers changed it, through any interleaving and any rollback.
THEOREM StockIsSumOfMovements == Spec => []StockIsSum
<1>1. Init => StockIsSum
  <2> SUFFICES ASSUME Init, NEW p \in Products PROVE stock[p] = SumOfChanges(audit[p])
    BY DEF StockIsSum
  <2>1. audit[p] = <<>> /\ stock[p] = 0
    BY DEF Init
  <2> QED
    BY <2>1, EmptySum
<1> QED
  BY <1>1, SumStep, LedgerStep, TypeCorrect, NoLostUpdate, PTL DEF Spec

-----------------------------------------------------------------------------
(* The life of an order.  Three streams write its rows: the invariant says   *)
(* which of their combinations are lawful, and what each open transaction    *)
(* may still rely on of what it has read.                                    *)

\* An order, its payment and its shipment, as they may stand together.
Lawful(row, paid, ship) ==
  /\ row.status = "ABSENT" => paid = "NONE" /\ ship.status = "NONE"
  /\ row.status \in {"PENDING", "CONFIRMED"} => ship.status \in {"NONE", "PENDING"}
  /\ row.status = "COMPLETED" <=> ship.status = "DELIVERED"
  /\ row.status = "CANCELLED" =>
       ship.status = "NONE" \/ (ship.status = "PENDING" /\ ship.deleted)
  /\ row.deleted \/ ship.deleted => row.status = "CANCELLED"
  /\ ship.status # "NONE" => row.pay = "PAID"
  /\ row.pay = "PAID" <=> paid \in {"SUCCESS", "REFUNDED"}
  /\ paid = "REFUNDED" => row.status = "CANCELLED"

AllLawful == \A o \in Orders : Lawful(orders[o], payment[o], shipment[o])

\* The order stream holds its order: nobody ships or cancels it meanwhile.
OrderHeld ==
  /\ ord.pc = "update" =>
       \/ orders[ord.id].status = "PENDING" /\ ord.goal = "CONFIRMED"
       \/ orders[ord.id].status = "CONFIRMED" /\ ord.goal = "SHIPPING"
  /\ ord.pc \in {"restore", "refund", "ships"} =>
       orders[ord.id].status \in {"PENDING", "CONFIRMED"}
  /\ ord.refund => ord.pc \in {"restore", "refund", "ships"} /\ payment[ord.id] = "SUCCESS"

\* Only this stream settles a payment, so one it selected without a lock is still open.
PaymentOpen == pay.pc # "idle" => payment[pay.id] \in {"PENDING", "FAILED"}

\* The shipment stream holds the order it ships, or the shipment it moves.
ShipmentHeld ==
  /\ shp.pc = "create" =>
       /\ orders[shp.id].pay = "PAID" /\ orders[shp.id].status \notin {"ABSENT", "CANCELLED"}
       /\ shipment[shp.id].status = "NONE" /\ ord.id # shp.id
  /\ shp.pc = "advance" => Active(shp.id) /\ shipment[shp.id].status # "DELIVERED"

LifeInv == AllLawful /\ OrderHeld /\ PaymentOpen /\ ShipmentHeld

\* Whose orders the sessions name.
LEMMA SessionOrders ==
  ASSUME TypeOK
  PROVE  /\ ord.pc \in {"update", "restore", "refund", "ships"} => ord.id \in Orders
         /\ ord.pc \in {"idle", "pick"} => ord.id = None /\ ord.refund = FALSE
         /\ ord.pc = "update" => ord.refund = FALSE
         /\ pay.pc # "idle" => pay.id \in Orders
         /\ shp.pc # "idle" => shp.id \in Orders
<1>1. (pay.pc # "idle" => pay.id \in Orders) /\ (shp.pc # "idle" => shp.id \in Orders)
  BY DEF TypeOK, IdlePayment, IdleShipment
<1>2. CASE ord \in Selling
  BY <1>1, <1>2 DEF Selling
<1>3. CASE ord \in Confirming
  BY <1>1, <1>3 DEF Confirming
<1>4. CASE ord \in Cancelling
  BY <1>1, <1>4 DEF Cancelling
<1> QED
  BY <1>2, <1>3, <1>4 DEF TypeOK

\* Steps that touch no order, payment or shipment.
LEMMA LifeUntouched ==
  ASSUME LifeInv, UNCHANGED <<orders, payment, shipment, ord, pay, shp>>
  PROVE  LifeInv'
BY DEF LifeInv, AllLawful, Lawful, OrderHeld, PaymentOpen, ShipmentHeld, Active

\* A step of the order stream that writes nothing and chooses no order.
LEMMA LifeOrderIdle ==
  ASSUME TypeOK, LifeInv, UNCHANGED <<orders, payment, shipment, pay, shp>>,
         ord'.pc \in {"idle", "pick"}, ord'.id = None, ord'.refund = FALSE
  PROVE  LifeInv'
<1>1. AllLawful' /\ PaymentOpen'
  BY DEF LifeInv, AllLawful, PaymentOpen
<1>2. OrderHeld'
  BY DEF OrderHeld
<1>3. ShipmentHeld'
  BY SessionOrders DEF LifeInv, ShipmentHeld, Active
<1> QED
  BY <1>1, <1>2, <1>3 DEF LifeInv

LEMMA LifeInsert ==
  ASSUME TypeOK, TypeOK', LifeInv, NEW o \in Orders, CommitInsert(o)
  PROVE  LifeInv'
<1>1. PICK s \in {"PENDING", "CONFIRMED"}, g \in {"NONE", "SUCCESS", "FAILED", "PENDING"} :
        /\ orders' = [orders EXCEPT ![o] =
             [status |-> s, pay |-> PaidStatus(g), deleted |-> FALSE, items |-> ord.cart]]
        /\ payment' = [payment EXCEPT ![o] = g]
  BY DEF CommitInsert
<1>2. orders[o].status = "ABSENT" /\ ord' = IdleOrder /\ UNCHANGED <<shipment, pay, shp>>
  BY DEF CommitInsert
<1>3. payment[o] = "NONE" /\ shipment[o].status = "NONE" /\ ~shipment[o].deleted
  BY <1>2 DEF LifeInv, AllLawful, Lawful, TypeOK, ShipmentRows
<1>4. /\ orders'[o].status = s /\ orders'[o].pay = PaidStatus(g) /\ ~orders'[o].deleted
      /\ payment'[o] = g
      /\ \A q \in Orders : q # o => orders'[q] = orders[q] /\ payment'[q] = payment[q]
  BY <1>1 DEF TypeOK
<1>5. Lawful(orders'[o], payment'[o], shipment'[o])
  BY <1>2, <1>3, <1>4 DEF Lawful, PaidStatus
<1>6. AllLawful'
  BY <1>2, <1>4, <1>5 DEF LifeInv, AllLawful
<1>7. OrderHeld'
  BY <1>2 DEF OrderHeld, IdleOrder
<1>8. PaymentOpen'
  BY <1>2, <1>3, <1>4, SessionOrders DEF LifeInv, PaymentOpen
<1>9. ShipmentHeld'
  <2>1. shp.pc \in {"create", "advance"} => shp.id # o
    BY <1>2, <1>3 DEF LifeInv, ShipmentHeld, Active
  <2> QED
    BY <1>2, <1>4, <2>1, SessionOrders DEF LifeInv, ShipmentHeld, Active, IdleOrder
<1> QED
  BY <1>6, <1>7, <1>8, <1>9 DEF LifeInv

LEMMA LifeSelectOrder ==
  ASSUME TypeOK, LifeInv, NEW o \in Orders, SelectOrder(o)
  PROVE  LifeInv'
<1>1. /\ orders[o].status \in {"PENDING", "CONFIRMED"} /\ ~(shp.pc = "create" /\ shp.id = o)
      /\ UNCHANGED <<orders, payment, shipment, pay, shp>>
  BY DEF SelectOrder, Cancellable, FreeOrder, tables
<1>2. PICK g \in OrderTransitions(orders[o].status) \cup {"DELETED"} :
        ord' = [IdleOrder EXCEPT
                  !.pc = IF g \in {"CANCELLED", "DELETED"} THEN "restore" ELSE "update",
                  !.id = o, !.goal = g,
                  !.todo = IF g \in {"CANCELLED", "DELETED"} THEN Ordered(o) ELSE {}]
  BY DEF SelectOrder
<1>3. /\ ord'.id = o /\ ord'.goal = g /\ ord'.refund = FALSE
      /\ ord'.pc = IF g \in {"CANCELLED", "DELETED"} THEN "restore" ELSE "update"
  BY <1>2 DEF IdleOrder
<1>4. AllLawful' /\ PaymentOpen'
  BY <1>1 DEF LifeInv, AllLawful, PaymentOpen
<1>5. OrderHeld'
  BY <1>1, <1>3 DEF OrderHeld, OrderTransitions
<1>6. ShipmentHeld'
  BY <1>1, <1>3 DEF LifeInv, ShipmentHeld, Active
<1> QED
  BY <1>4, <1>5, <1>6 DEF LifeInv

LEMMA LifeOrderStatus ==
  ASSUME TypeOK, LifeInv, CommitOrderStatus
  PROVE  LifeInv'
<1>1. /\ ord.pc = "update" /\ ord.id \in Orders /\ ord' = IdleOrder
      /\ orders' = [orders EXCEPT ![ord.id].status = ord.goal]
      /\ UNCHANGED <<payment, shipment, pay, shp>>
  BY SessionOrders DEF CommitOrderStatus
<1>2. /\ orders'[ord.id].status = ord.goal
      /\ orders'[ord.id].pay = orders[ord.id].pay /\ orders'[ord.id].deleted = orders[ord.id].deleted
      /\ \A q \in Orders : q # ord.id => orders'[q] = orders[q]
  BY <1>1 DEF TypeOK, OrderRows
<1>3. \/ orders[ord.id].status = "PENDING" /\ ord.goal = "CONFIRMED"
      \/ orders[ord.id].status = "CONFIRMED" /\ ord.goal = "SHIPPING"
  BY <1>1 DEF LifeInv, OrderHeld
<1>4. Lawful(orders'[ord.id], payment'[ord.id], shipment'[ord.id])
  BY <1>1, <1>2, <1>3 DEF LifeInv, AllLawful, Lawful
<1>5. AllLawful' /\ PaymentOpen'
  BY <1>1, <1>2, <1>4 DEF LifeInv, AllLawful, PaymentOpen
<1>6. OrderHeld'
  BY <1>1 DEF OrderHeld, IdleOrder
<1>7. ShipmentHeld'
  BY <1>1, <1>2, SessionOrders DEF LifeInv, ShipmentHeld, Active, IdleOrder
<1> QED
  BY <1>5, <1>6, <1>7 DEF LifeInv

\* The statements of a cancellation before its commit.
LEMMA LifeCancelling ==
  ASSUME TypeOK, LifeInv, RestoreDone \/ RefundPayment \/ \E p \in Products : RestoreProduct(p)
  PROVE  LifeInv'
<1>1. /\ ord \in Cancelling
      /\ UNCHANGED <<orders, payment, shipment, pay, shp>>
  BY DEF RestoreDone, RefundPayment, RestoreProduct, TypeOK, Selling, Confirming, tables
<1>2. /\ ord'.pc \in {"restore", "refund", "ships"} /\ ord'.id = ord.id
      /\ ord'.refund => ord.refund \/ payment[ord.id] = "SUCCESS"
  BY <1>1 DEF RestoreDone, RefundPayment, RestoreProduct, Cancelling
<1>3. ord.pc \in {"restore", "refund", "ships"}
  BY <1>1 DEF Cancelling
<1>4. AllLawful' /\ PaymentOpen'
  BY <1>1 DEF LifeInv, AllLawful, PaymentOpen
<1>5. OrderHeld'
  BY <1>1, <1>2, <1>3 DEF LifeInv, OrderHeld
<1>6. ShipmentHeld'
  BY <1>1, <1>2 DEF LifeInv, ShipmentHeld, Active
<1> QED
  BY <1>4, <1>5, <1>6 DEF LifeInv

\* A cancellation ends the order, whatever became of its payment and its shipment.
LEMMA LifeCancel ==
  ASSUME TypeOK, LifeInv, CommitCancel
  PROVE  LifeInv'
<1>1. /\ ord.pc = "ships" /\ ord.id \in Orders /\ ord' = IdleOrder
      /\ Active(ord.id) => FreeShipment(ord.id)
      /\ orders' = [orders EXCEPT ![ord.id].status = "CANCELLED",
                                  ![ord.id].deleted = ord.goal = "DELETED"]
      /\ payment' = IF ord.refund THEN [payment EXCEPT ![ord.id] = "REFUNDED"] ELSE payment
      /\ shipment' = [shipment EXCEPT ![ord.id].deleted = shipment[ord.id].status # "NONE"]
      /\ UNCHANGED <<pay, shp>>
  BY SessionOrders DEF CommitCancel
<1>2. /\ orders'[ord.id].status = "CANCELLED" /\ orders'[ord.id].pay = orders[ord.id].pay
      /\ \A q \in Orders : q # ord.id => orders'[q] = orders[q]
  BY <1>1 DEF TypeOK, OrderRows
<1>3. /\ payment'[ord.id] = IF ord.refund THEN "REFUNDED" ELSE payment[ord.id]
      /\ \A q \in Orders : q # ord.id => payment'[q] = payment[q]
  BY <1>1 DEF TypeOK
<1>4. /\ shipment'[ord.id].status = shipment[ord.id].status
      /\ shipment'[ord.id].deleted <=> shipment[ord.id].status # "NONE"
      /\ \A q \in Orders : q # ord.id => shipment'[q] = shipment[q]
  <2> DEFINE sent == shipment[ord.id].status # "NONE"
  <2>1. sent \in BOOLEAN
    OBVIOUS
  <2>2. shipment' = [shipment EXCEPT ![ord.id].deleted = sent]
    BY <1>1
  <2>3. shipment \in [Orders -> ShipmentRows] /\ ord.id \in Orders
    BY <1>1 DEF TypeOK
  <2> HIDE DEF sent
  <2>4. /\ shipment'[ord.id].status = shipment[ord.id].status /\ shipment'[ord.id].deleted = sent
        /\ \A q \in Orders : q # ord.id => shipment'[q] = shipment[q]
    BY <2>1, <2>2, <2>3 DEF ShipmentRows
  <2> QED
    BY <2>4 DEF sent
<1>5. /\ orders[ord.id].status \in {"PENDING", "CONFIRMED"}
      /\ ord.refund => payment[ord.id] = "SUCCESS"
      /\ Lawful(orders[ord.id], payment[ord.id], shipment[ord.id])
  BY <1>1 DEF LifeInv, OrderHeld, AllLawful
<1>6. Lawful(orders'[ord.id], payment'[ord.id], shipment'[ord.id])
  BY <1>2, <1>3, <1>4, <1>5 DEF Lawful
<1>7. AllLawful'
  BY <1>2, <1>3, <1>4, <1>6 DEF LifeInv, AllLawful
<1>8. OrderHeld'
  BY <1>1 DEF OrderHeld, IdleOrder
<1>9. PaymentOpen'
  BY <1>1, <1>3, <1>5, SessionOrders DEF LifeInv, PaymentOpen
<1>10. ShipmentHeld'
  <2>1. shp.pc # "idle" => shp.id # ord.id
    BY <1>1 DEF LifeInv, ShipmentHeld, FreeShipment, TypeOK, IdleShipment
  <2> QED
    BY <1>1, <1>2, <1>4, <2>1, SessionOrders DEF LifeInv, ShipmentHeld, Active, IdleOrder
<1> QED
  BY <1>7, <1>8, <1>9, <1>10 DEF LifeInv

LEMMA LifeOrderStream ==
  ASSUME TypeOK, TypeOK', LifeInv, OrderStream
  PROVE  LifeInv'
<1>1. CASE BeginInsert \/ OutOfStock \/ AbortOrder
  <2>1. ord'.pc \in {"idle", "pick"} /\ ord'.id = None /\ ord'.refund = FALSE
    <3>1. CASE BeginInsert
      BY <3>1 DEF BeginInsert, IdleOrder
    <3>2. CASE OutOfStock \/ AbortOrder
      BY <3>2 DEF OutOfStock, AbortOrder, IdleOrder
    <3> QED
      BY <1>1, <3>1, <3>2
  <2> QED
    BY <1>1, <2>1, LifeOrderIdle DEF BeginInsert, OutOfStock, AbortOrder, tables
<1>2. ASSUME NEW p \in Products, PickProduct(p) PROVE LifeInv'
  <2>1. ord \in Selling
    BY <1>2 DEF PickProduct, TypeOK, Confirming, Cancelling
  <2>2. ord'.pc \in {"idle", "pick"} /\ ord'.id = None /\ ord'.refund = FALSE
    BY <1>2, <2>1 DEF PickProduct, Selling
  <2> QED
    BY <1>2, <2>2, LifeOrderIdle DEF PickProduct, tables
<1> QED
  BY <1>1, <1>2, LifeInsert, LifeSelectOrder, LifeOrderStatus, LifeCancelling, LifeCancel
     DEF OrderStream

LEMMA LifePaymentStream ==
  ASSUME TypeOK, LifeInv, PaymentStream
  PROVE  LifeInv'
<1>1. CASE (\E o \in Orders : SelectPayment(o)) \/ UpdatePayment \/ AbortPayment
  <2>1. UNCHANGED <<orders, payment, shipment, ord, shp>>
    BY <1>1 DEF SelectPayment, UpdatePayment, AbortPayment, tables
  <2>2. PaymentOpen'
    <3>1. CASE \E o \in Orders : SelectPayment(o)
      BY <3>1 DEF SelectPayment, tables, PaymentOpen
    <3>2. CASE UpdatePayment
      <4>1. pay'.id = pay.id /\ pay.pc # "idle"
        BY <3>2 DEF UpdatePayment, TypeOK, IdlePayment
      <4> QED
        BY <2>1, <4>1 DEF LifeInv, PaymentOpen
    <3>3. CASE AbortPayment
      BY <3>3 DEF AbortPayment, IdlePayment, PaymentOpen
    <3> QED
      BY <1>1, <3>1, <3>2, <3>3
  <2> QED
    BY <2>1, <2>2 DEF LifeInv, AllLawful, OrderHeld, ShipmentHeld, Active
<1>2. CASE CommitFailedPayment
  <2>1. /\ pay.pc # "idle" /\ pay.id \in Orders /\ pay' = IdlePayment
        /\ payment' = [payment EXCEPT ![pay.id] = "FAILED"]
        /\ UNCHANGED <<orders, shipment, ord, shp>>
    BY <1>2, SessionOrders DEF CommitFailedPayment
  <2>2. payment[pay.id] \in {"PENDING", "FAILED"}
    BY <2>1 DEF LifeInv, PaymentOpen
  <2>3. AllLawful'
    BY <2>1, <2>2 DEF LifeInv, AllLawful, Lawful, TypeOK
  <2>4. OrderHeld'
    BY <2>1, <2>2, SessionOrders DEF LifeInv, OrderHeld, TypeOK
  <2>5. PaymentOpen' /\ ShipmentHeld'
    BY <2>1 DEF LifeInv, PaymentOpen, IdlePayment, ShipmentHeld, Active
  <2> QED
    BY <2>3, <2>4, <2>5 DEF LifeInv
<1>3. CASE CommitPaid
  <2>1. /\ pay.pc # "idle" /\ pay.id \in Orders /\ pay' = IdlePayment /\ FreeOrder(pay.id)
        /\ payment' = [payment EXCEPT ![pay.id] = "SUCCESS"]
        /\ orders' = [orders EXCEPT ![pay.id].pay = "PAID"]
        /\ UNCHANGED <<shipment, ord, shp>>
    BY <1>3, SessionOrders DEF CommitPaid
  <2>2. payment[pay.id] \in {"PENDING", "FAILED"}
    BY <2>1 DEF LifeInv, PaymentOpen
  <2>3. /\ orders'[pay.id].status = orders[pay.id].status /\ orders'[pay.id].pay = "PAID"
        /\ orders'[pay.id].deleted = orders[pay.id].deleted /\ payment'[pay.id] = "SUCCESS"
        /\ \A q \in Orders : q # pay.id => orders'[q] = orders[q] /\ payment'[q] = payment[q]
    BY <2>1 DEF TypeOK, OrderRows
  <2>4. AllLawful'
    <3>1. Lawful(orders'[pay.id], payment'[pay.id], shipment'[pay.id])
      BY <2>1, <2>2, <2>3 DEF LifeInv, AllLawful, Lawful
    <3> QED
      BY <2>1, <2>3, <3>1 DEF LifeInv, AllLawful
  <2>5. OrderHeld'
    BY <2>1, <2>3, SessionOrders DEF LifeInv, OrderHeld, FreeOrder
  <2>6. PaymentOpen' /\ ShipmentHeld'
    BY <2>1, <2>3, SessionOrders DEF LifeInv, PaymentOpen, IdlePayment, ShipmentHeld, Active
  <2> QED
    BY <2>4, <2>5, <2>6 DEF LifeInv
<1> QED
  BY <1>1, <1>2, <1>3 DEF PaymentStream

LEMMA LifeShipmentStream ==
  ASSUME TypeOK, LifeInv, ShipmentStream
  PROVE  LifeInv'
<1>1. CASE (\E o \in Orders : SelectPaidOrder(o) \/ SelectShipment(o)) \/ AbortShipment
  <2>1. UNCHANGED <<orders, payment, shipment, ord, pay>>
    BY <1>1 DEF SelectPaidOrder, SelectShipment, AbortShipment, tables
  <2>2. ASSUME NEW o \in Orders, SelectPaidOrder(o)
        PROVE  ShipmentHeld'
    <3>1. /\ shp'.pc = "create" /\ shp'.id = o /\ Shippable(o)
      BY <2>2 DEF SelectPaidOrder
    <3>2. orders[o].status # "ABSENT"
      BY <3>1 DEF Shippable, LifeInv, AllLawful, Lawful
    <3> QED
      BY <2>1, <3>1, <3>2 DEF Shippable, FreeOrder, ShipmentHeld
  <2>3. ASSUME NEW o \in Orders, SelectShipment(o)
        PROVE  ShipmentHeld'
    BY <2>1, <2>3 DEF SelectShipment, ShipmentHeld, Active
  <2>4. ShipmentHeld'
    BY <1>1, <2>2, <2>3 DEF AbortShipment, IdleShipment, ShipmentHeld
  <2> QED
    BY <2>1, <2>4 DEF LifeInv, AllLawful, OrderHeld, PaymentOpen
<1>2. CASE CommitShipment
  <2>1. /\ shp.pc = "create" /\ shp.id \in Orders /\ shp' = IdleShipment
        /\ shipment' = [shipment EXCEPT ![shp.id] = [status |-> "PENDING", deleted |-> FALSE]]
        /\ UNCHANGED <<orders, payment, ord, pay>>
    BY <1>2, SessionOrders DEF CommitShipment
  <2>2. /\ orders[shp.id].pay = "PAID" /\ orders[shp.id].status \notin {"ABSENT", "CANCELLED"}
        /\ shipment[shp.id].status = "NONE"
    BY <2>1 DEF LifeInv, ShipmentHeld
  <2>3. /\ shipment'[shp.id].status = "PENDING" /\ ~shipment'[shp.id].deleted
        /\ \A q \in Orders : q # shp.id => shipment'[q] = shipment[q]
    BY <2>1 DEF TypeOK
  <2>4. AllLawful'
    <3>1. Lawful(orders'[shp.id], payment'[shp.id], shipment'[shp.id])
      BY <2>1, <2>2, <2>3 DEF LifeInv, AllLawful, Lawful
    <3> QED
      BY <2>1, <2>3, <3>1 DEF LifeInv, AllLawful
  <2>5. OrderHeld' /\ PaymentOpen' /\ ShipmentHeld'
    BY <2>1 DEF LifeInv, OrderHeld, PaymentOpen, ShipmentHeld, IdleShipment
  <2> QED
    BY <2>4, <2>5 DEF LifeInv
<1>3. CASE CommitAdvance
  <2>1. /\ shp.pc = "advance" /\ shp.id \in Orders /\ shp' = IdleShipment /\ FreeOrder(shp.id)
        /\ UNCHANGED <<payment, ord, pay>>
    BY <1>3, SessionOrders DEF CommitAdvance
  <2>2. PICK s : /\ s = NextShipmentStatus(shipment[shp.id].status)
                 /\ shipment' = [shipment EXCEPT ![shp.id].status = s]
                 /\ orders' = [orders EXCEPT ![shp.id].status = OrderAfter(orders[shp.id], s)]
    BY <1>3 DEF CommitAdvance
  <2>3. /\ shipment'[shp.id].status = s /\ shipment'[shp.id].deleted = shipment[shp.id].deleted
        /\ orders'[shp.id].status = OrderAfter(orders[shp.id], s)
        /\ orders'[shp.id].pay = orders[shp.id].pay
        /\ orders'[shp.id].deleted = orders[shp.id].deleted
        /\ \A q \in Orders : q # shp.id => orders'[q] = orders[q] /\ shipment'[q] = shipment[q]
    BY <2>1, <2>2 DEF TypeOK, OrderRows, ShipmentRows
  <2>4. /\ shipment[shp.id].status \in {"PENDING", "PICKED_UP", "IN_TRANSIT"}
        /\ ~shipment[shp.id].deleted
        /\ Lawful(orders[shp.id], payment[shp.id], shipment[shp.id])
    BY <2>1 DEF LifeInv, ShipmentHeld, Active, TypeOK, ShipmentRows, AllLawful
  <2>5. /\ ~orders[shp.id].deleted
        /\ orders[shp.id].status \notin {"ABSENT", "CANCELLED", "COMPLETED"}
    BY <2>4 DEF Lawful
  <2>6. /\ s \in {"PICKED_UP", "IN_TRANSIT", "DELIVERED"}
        /\ OrderAfter(orders[shp.id], s) = IF s = "DELIVERED" THEN "COMPLETED" ELSE "SHIPPING"
    BY <2>2, <2>4, <2>5 DEF NextShipmentStatus, OrderAfter
  <2>7. AllLawful'
    <3>1. Lawful(orders'[shp.id], payment'[shp.id], shipment'[shp.id])
      BY <2>1, <2>3, <2>4, <2>5, <2>6 DEF Lawful
    <3> QED
      BY <2>1, <2>3, <3>1 DEF LifeInv, AllLawful
  <2>8. OrderHeld'
    BY <2>1, <2>3, SessionOrders DEF LifeInv, OrderHeld, FreeOrder
  <2>9. PaymentOpen' /\ ShipmentHeld'
    BY <2>1 DEF LifeInv, PaymentOpen, ShipmentHeld, IdleShipment
  <2> QED
    BY <2>7, <2>8, <2>9 DEF LifeInv
<1> QED
  BY <1>1, <1>2, <1>3 DEF ShipmentStream

LEMMA LifeStep == TypeOK /\ TypeOK' /\ LifeInv /\ [Next]_vars => LifeInv'
<1> SUFFICES ASSUME TypeOK, TypeOK', LifeInv, [Next]_vars
             PROVE  LifeInv'
  OBVIOUS
<1>1. CASE UNCHANGED vars
  BY <1>1, LifeUntouched DEF vars
<1>2. CASE ProductStream \/ InventoryStream
  BY <1>2, LifeUntouched DEF ProductStream, InventoryStream, InsertProduct, SelectProduct,
     CommitPrice, CommitCorrection, AbortProduct, SelectImport, CommitImport, AbortImport, tables
<1>3. CASE BreakDeadlock
  BY <1>3, LifeOrderStream, LifeShipmentStream DEF BreakDeadlock, OrderStream, ShipmentStream
<1> QED
  BY <1>1, <1>2, <1>3, LifeOrderStream, LifePaymentStream, LifeShipmentStream DEF Next

LEMMA LifeInvariance == Spec => []LifeInv
<1>1. Init => LifeInv
  BY DEF Init, LifeInv, AllLawful, Lawful, OrderHeld, PaymentOpen, ShipmentHeld, IdleOrder,
     IdlePayment, IdleShipment
<1> QED
  BY <1>1, LifeStep, TypeCorrect, PTL DEF Spec

\* A cancellation and the shipment stream never both win an order: what is cancelled
\* was not picked up and its shipment is withdrawn.
THEOREM CancelledOrdersShipNothing == Spec => []CancelledShipsNothing
<1>1. LifeInv => CancelledShipsNothing
  BY DEF LifeInv, AllLawful, Lawful, CancelledShipsNothing, Active
<1> QED
  BY <1>1, LifeInvariance, PTL

\* Shipment and order are completed together, by whichever of the three branches of
\* advance_random_shipment.
THEOREM DeliveredMeansCompleted == Spec => []DeliveredIffCompleted
<1>1. LifeInv => DeliveredIffCompleted
  BY DEF LifeInv, AllLawful, Lawful, DeliveredIffCompleted
<1> QED
  BY <1>1, LifeInvariance, PTL

\* Nothing is shipped that was not paid, and nothing refunded is still on its way.
THEOREM OnlyPaidOrdersShip == Spec => []ShipmentOnlyForPaid
<1>1. LifeInv => ShipmentOnlyForPaid
  BY DEF LifeInv, AllLawful, Lawful, ShipmentOnlyForPaid, Active
<1> QED
  BY <1>1, LifeInvariance, PTL

\* The only writers of an order's status move it forward.
LEMMA StatusStep ==
  ASSUME TypeOK, LifeInv, [Next]_vars, NEW o \in Orders, orders'[o].status # orders[o].status
  PROVE  Rank(orders[o].status) < Rank(orders'[o].status)
<1>1. ASSUME NEW q \in Orders, CommitInsert(q)
      PROVE  Rank(orders[o].status) < Rank(orders'[o].status)
  <2>1. orders[q].status = "ABSENT" /\ orders'[q].status \in {"PENDING", "CONFIRMED"}
        /\ (o # q => orders'[o] = orders[o])
    BY <1>1 DEF CommitInsert, TypeOK
  <2> QED
    BY <2>1 DEF Rank
<1>2. CASE CommitOrderStatus
  <2>1. /\ ord.pc = "update" /\ ord.id \in Orders
        /\ orders' = [orders EXCEPT ![ord.id].status = ord.goal]
    BY <1>2, SessionOrders DEF CommitOrderStatus
  <2>2. orders'[ord.id].status = ord.goal /\ (o # ord.id => orders'[o] = orders[o])
    BY <2>1 DEF TypeOK, OrderRows
  <2> QED
    BY <2>1, <2>2 DEF LifeInv, OrderHeld, Rank
<1>3. CASE CommitCancel
  <2>1. /\ ord.pc = "ships" /\ ord.id \in Orders
        /\ orders' = [orders EXCEPT ![ord.id].status = "CANCELLED",
                                    ![ord.id].deleted = ord.goal = "DELETED"]
    BY <1>3, SessionOrders DEF CommitCancel
  <2>2. orders'[ord.id].status = "CANCELLED"
    BY <2>1 DEF TypeOK, OrderRows
  <2>3. o # ord.id => orders'[o] = orders[o]
    <3>1. PICK row : orders' = [orders EXCEPT ![ord.id] = row]
      BY <2>1
    <3> QED
      BY <3>1 DEF TypeOK
  <2>4. orders[ord.id].status \in {"PENDING", "CONFIRMED"} /\ o = ord.id
    BY <2>1, <2>3 DEF LifeInv, OrderHeld
  <2> QED
    BY <2>2, <2>4 DEF Rank
<1>4. CASE CommitPaid
  BY <1>4 DEF CommitPaid, TypeOK, OrderRows
<1>5. CASE CommitAdvance
  <2>1. shp.pc = "advance" /\ shp.id \in Orders
    BY <1>5, SessionOrders DEF CommitAdvance
  <2>2. PICK s : orders' = [orders EXCEPT ![shp.id].status = OrderAfter(orders[shp.id], s)]
    BY <1>5 DEF CommitAdvance
  <2>3. /\ orders'[shp.id].status = OrderAfter(orders[shp.id], s)
        /\ o # shp.id => orders'[o] = orders[o]
    BY <2>1, <2>2 DEF TypeOK, OrderRows
  <2>4. orders[shp.id].status \in {"PENDING", "CONFIRMED", "SHIPPING"}
    BY <2>1 DEF LifeInv, ShipmentHeld, Active, AllLawful, Lawful, TypeOK, OrderRows
  <2>5. OrderAfter(orders[shp.id], s) \in {orders[shp.id].status, "SHIPPING", "COMPLETED"}
    BY DEF OrderAfter
  <2>6. \A t \in {"SHIPPING", "COMPLETED"} :
          t # orders[shp.id].status => Rank(orders[shp.id].status) < Rank(t)
    BY <2>4 DEF Rank
  <2> QED
    BY <2>3, <2>5, <2>6
<1>6. CASE orders' = orders
  BY <1>6
<1> QED
  BY <1>1, <1>2, <1>3, <1>4, <1>5, <1>6
     DEF Next, vars, tables, OrderStream, PaymentStream, ShipmentStream, ProductStream, InventoryStream,
         BeginInsert, OutOfStock, PickProduct, RestoreProduct, SelectOrder, RestoreDone,
         RefundPayment, AbortOrder, SelectPayment, CommitFailedPayment, UpdatePayment,
         AbortPayment, SelectPaidOrder, SelectShipment, CommitShipment, AbortShipment, InsertProduct,
         SelectProduct, CommitPrice, CommitCorrection, CommitImport, AbortProduct, SelectImport,
         AbortImport, BreakDeadlock

\* No interleaving of the order stream and the shipment stream takes an order back.
THEOREM OrdersMoveForward == Spec => OrderNeverRegresses
<1>1. TypeOK /\ LifeInv /\ [Next]_vars =>
        [\A o \in Orders : orders'[o].status # orders[o].status =>
                             Rank(orders[o].status) < Rank(orders'[o].status)]_vars
  BY StatusStep
<1> QED
  BY <1>1, LifeInvariance, TypeCorrect, PTL DEF Spec, OrderNeverRegresses

-----------------------------------------------------------------------------
(* OutOfStockIffZero: each writer's status fits the stock it writes.         *)

LEMMA StatusFits ==
  ASSUME NEW type, NEW n \in Nat, type \notin {"SALE", "ADJUSTMENT"} => n > 0
  PROVE  StatusAfter(type, n) = "OUT_OF_STOCK" <=> n = 0
BY DEF StatusAfter, StatusFor

LEMMA WriteFits ==
  ASSUME TypeOK, OutOfStockIffZero, NEW p \in Products, NEW type, NEW old, NEW new \in Nat,
         type \notin {"SALE", "ADJUSTMENT"} => new > 0, WriteStock(p, type, old, new)
  PROVE  OutOfStockIffZero'
<1>1. stock'[p] = new /\ pstatus'[p] = StatusAfter(type, new)
  BY DEF TypeOK, WriteStock
<1>2. \A q \in Products : q # p => stock'[q] = stock[q] /\ pstatus'[q] = pstatus[q]
  BY DEF TypeOK, WriteStock
<1> QED
  BY <1>1, <1>2, StatusFits DEF OutOfStockIffZero

LEMMA ShiftFits ==
  ASSUME TypeOK, TypeOK', OutOfStockIffZero, NEW S \in SUBSET Products, NEW change, NEW type, NEW o,
         type # "SALE" => \A p \in S : change[p] \in Nat \ {0}, ShiftStock(S, change, type, o)
  PROVE  OutOfStockIffZero'
<1>1. ASSUME NEW p \in S
      PROVE  pstatus'[p] = "OUT_OF_STOCK" <=> stock'[p] = 0
  <2>1. stock'[p] = stock[p] + change[p] /\ pstatus'[p] = StatusAfter(type, stock'[p])
    BY DEF ShiftStock
  <2>2. stock[p] \in Nat /\ stock'[p] \in Nat
    BY DEF TypeOK
  <2>3. type # "SALE" => stock'[p] > 0
    BY <2>1, <2>2
  <2> QED
    BY <2>1, <2>2, <2>3, StatusFits
<1>2. \A p \in Products \ S : stock'[p] = stock[p] /\ pstatus'[p] = pstatus[p]
  BY DEF ShiftStock
<1> QED
  BY <1>1, <1>2 DEF OutOfStockIffZero

LEMMA FitsStep == TypeOK /\ TypeOK' /\ OutOfStockIffZero /\ [Next]_vars => OutOfStockIffZero'
<1> SUFFICES ASSUME TypeOK, TypeOK', OutOfStockIffZero, [Next]_vars
             PROVE  OutOfStockIffZero'
  OBVIOUS
<1>1. ASSUME NEW p \in Products, InsertProduct(p)
      PROVE  OutOfStockIffZero'
  BY <1>1, WriteFits DEF InsertProduct
<1>2. ASSUME NEW o \in Orders, CommitInsert(o)
      PROVE  OutOfStockIffZero'
  BY <1>2, ShiftFits DEF CommitInsert, Picked
<1>3. CASE CommitCancel
  <2>1. ord.id \in Orders /\ orders[ord.id].items \in [Products -> Nat]
    BY <1>3, SessionOrders DEF CommitCancel, TypeOK, OrderRows
  <2>2. Restored \in SUBSET Products /\ \A p \in Restored : orders[ord.id].items[p] \in Nat \ {0}
    BY <2>1 DEF Restored, Ordered
  <2> QED
    BY <1>3, <2>2, ShiftFits DEF CommitCancel
<1>4. CASE CommitCorrection
  <2>1. cat.id \in Products /\ cat.seen \in Nat
    BY <1>4 DEF CommitCorrection, TypeOK, IdleCatalog
  <2> QED
    BY <1>4, <2>1, CorrectedNat, WriteFits DEF CommitCorrection
<1>5. CASE CommitImport
  <2>1. inv.id \in Products /\ inv.seen \in Nat
    BY <1>5 DEF CommitImport, TypeOK, IdleCatalog
  <2>2. PICK n \in ImportSizes : WriteStock(inv.id, "IMPORT", inv.seen, inv.seen + n)
    BY <1>5 DEF CommitImport
  <2>3. inv.seen + n \in Nat /\ inv.seen + n > 0
    BY <2>1
  <2> QED
    BY <2>1, <2>2, <2>3, WriteFits
<1>6. CASE UNCHANGED <<stock, pstatus>>
  BY <1>6 DEF OutOfStockIffZero
<1> QED
  BY <1>1, <1>2, <1>3, <1>4, <1>5, <1>6
     DEF Next, vars, tables, OrderStream, PaymentStream, ShipmentStream, ProductStream, InventoryStream,
         BeginInsert, OutOfStock, PickProduct, RestoreProduct, SelectOrder, CommitOrderStatus, RestoreDone,
         RefundPayment, AbortOrder, SelectPayment, CommitFailedPayment, UpdatePayment, CommitPaid,
         AbortPayment, SelectPaidOrder, SelectShipment, CommitShipment, CommitAdvance, AbortShipment,
         SelectProduct, CommitPrice, AbortProduct, SelectImport, AbortImport, BreakDeadlock

\* The four writers of product_status agree, although two of them never look at the
\* stock they leave: a product is hidden from the shop exactly when it is sold out.
THEOREM StatusTellsStock == Spec => []OutOfStockIffZero
<1>1. Init => OutOfStockIffZero
  BY DEF Init, OutOfStockIffZero
<1> QED
  BY <1>1, FitsStep, TypeCorrect, PTL DEF Spec

-----------------------------------------------------------------------------
(* SoldOnceReturnedOnce.  An order's movements are those of its insertion    *)
(* and of its cancellation, each of which happens once.                      *)

\* The trail s of a product has no movement of a type for order o, or one, of change c.
NoneFor(s, type, o) == \A i \in 1..Len(s) : s[i].type = type => s[i].order # o

OneFor(s, type, o, c) ==
  \E i \in 1..Len(s) :
    /\ s[i].change = c
    /\ \A j \in 1..Len(s) : s[j].type = type /\ s[j].order = o <=> j = i

\* What it says of order o, which bought n units or gave n back.
SoldOnce(s, o, n) == IF n = 0 THEN NoneFor(s, "SALE", o) ELSE OneFor(s, "SALE", o, -n)
ReturnedOnce(s, o, n) ==
  IF n = 0 THEN NoneFor(s, "CANCEL_ORDER", o) ELSE OneFor(s, "CANCEL_ORDER", o, n)

\* The units of product p that order o gave back.
Returned(p, o) == IF orders[o].status = "CANCELLED" THEN orders[o].items[p] ELSE 0

OncePerOrder ==
  \A p \in Products, o \in Orders :
    SoldOnce(audit[p], o, orders[o].items[p]) /\ ReturnedOnce(audit[p], o, Returned(p, o))

\* An order that does not exist yet has no items, and a cancellation that has
\* restored its stock has restored all of it.
Complete ==
  /\ \A o \in Orders : orders[o].status = "ABSENT" => orders[o].items = NoItems
  /\ ord.pc \in {"refund", "ships"} => ord.todo = {}

LEMMA SaidAlike ==
  ASSUME OncePerOrder
  PROVE  SoldOnceReturnedOnce
<1> SUFFICES ASSUME NEW p \in Products, NEW o \in Orders
             PROVE  /\ IF orders[o].items[p] = 0 THEN Of("SALE", p, o) = {}
                       ELSE \E i \in 1..Len(audit[p]) :
                              Of("SALE", p, o) = {i} /\ audit[p][i].change = -orders[o].items[p]
                    /\ IF orders[o].items[p] = 0 \/ orders[o].status # "CANCELLED"
                       THEN Of("CANCEL_ORDER", p, o) = {}
                       ELSE \E i \in 1..Len(audit[p]) :
                              Of("CANCEL_ORDER", p, o) = {i} /\ audit[p][i].change = orders[o].items[p]
  BY Zenon DEF SoldOnceReturnedOnce
<1>1. \A type : NoneFor(audit[p], type, o) => Of(type, p, o) = {}
  BY DEF NoneFor, Of
<1>2. ASSUME NEW type, NEW c, OneFor(audit[p], type, o, c)
      PROVE  \E i \in 1..Len(audit[p]) : Of(type, p, o) = {i} /\ audit[p][i].change = c
  <2>1. PICK i \in 1..Len(audit[p]) :
          /\ audit[p][i].change = c
          /\ \A j \in 1..Len(audit[p]) :
               audit[p][j].type = type /\ audit[p][j].order = o <=> j = i
    BY <1>2 DEF OneFor
  <2>2. Of(type, p, o) = {i}
    BY <2>1 DEF Of
  <2> QED
    BY <2>1, <2>2
<1>3. SoldOnce(audit[p], o, orders[o].items[p]) /\ ReturnedOnce(audit[p], o, Returned(p, o))
  BY DEF OncePerOrder
<1>4. IF orders[o].items[p] = 0 THEN Of("SALE", p, o) = {}
      ELSE \E i \in 1..Len(audit[p]) :
             Of("SALE", p, o) = {i} /\ audit[p][i].change = -orders[o].items[p]
  BY <1>1, <1>2, <1>3, Zenon DEF SoldOnce
<1>5. IF orders[o].items[p] = 0 \/ orders[o].status # "CANCELLED"
      THEN Of("CANCEL_ORDER", p, o) = {}
      ELSE \E i \in 1..Len(audit[p]) :
             Of("CANCEL_ORDER", p, o) = {i} /\ audit[p][i].change = orders[o].items[p]
  BY <1>1, <1>2, <1>3 DEF ReturnedOnce, Returned
<1> QED
  BY <1>4, <1>5

\* A movement of another order or of none, appended to the trail, changes nothing.
LEMMA OthersMovement ==
  ASSUME NEW s \in Seq(Movements), NEW m \in Movements, NEW o, m.order # o, NEW n
  PROVE  /\ SoldOnce(s, o, n) => SoldOnce(Append(s, m), o, n)
         /\ ReturnedOnce(s, o, n) => ReturnedOnce(Append(s, m), o, n)
<1> DEFINE t == Append(s, m)
<1>1. /\ Len(t) = Len(s) + 1 /\ t[Len(s) + 1] = m /\ Len(s) \in Nat
      /\ \A i \in 1..Len(s) : t[i] = s[i]
  BY AppendLast
<1> HIDE DEF t
<1>2. \A i \in 1..Len(t) : i \in 1..Len(s) \/ (i = Len(s) + 1 /\ t[i].order # o)
  BY <1>1
<1>3. 1..Len(s) \subseteq 1..Len(t) /\ Len(s) + 1 \notin 1..Len(s)
  BY <1>1
<1>4. SoldOnce(s, o, n) => SoldOnce(t, o, n)
  BY <1>1, <1>2, <1>3 DEF SoldOnce, NoneFor, OneFor
<1>5. ReturnedOnce(s, o, n) => ReturnedOnce(t, o, n)
  BY <1>1, <1>2, <1>3 DEF ReturnedOnce, NoneFor, OneFor
<1> QED
  BY <1>4, <1>5 DEF t

\* The SALE movement of an order that had none.
LEMMA SaleMovement ==
  ASSUME NEW s \in Seq(Movements), NEW m \in Movements, NEW o, NEW n \in Nat \ {0}, NEW r,
         m.type = "SALE", m.order = o, m.change = -n, SoldOnce(s, o, 0), ReturnedOnce(s, o, r)
  PROVE  SoldOnce(Append(s, m), o, n) /\ ReturnedOnce(Append(s, m), o, r)
<1> DEFINE t == Append(s, m)
<1>1. /\ Len(t) = Len(s) + 1 /\ t[Len(s) + 1] = m /\ Len(s) \in Nat
      /\ \A i \in 1..Len(s) : t[i] = s[i]
  BY AppendLast
<1> HIDE DEF t
<1>2. \A i \in 1..Len(t) : i \in 1..Len(s) \/ i = Len(s) + 1
  BY <1>1
<1>3. 1..Len(s) \subseteq 1..Len(t) /\ Len(s) + 1 \notin 1..Len(s) /\ Len(s) + 1 \in 1..Len(t)
  BY <1>1
<1>4. SoldOnce(t, o, n)
  BY <1>1, <1>2, <1>3 DEF SoldOnce, NoneFor, OneFor
<1>5. ReturnedOnce(t, o, r)
  BY <1>1, <1>2, <1>3 DEF ReturnedOnce, NoneFor, OneFor
<1> QED
  BY <1>4, <1>5 DEF t

\* The CANCEL_ORDER movement of an order that had none.
LEMMA ReturnMovement ==
  ASSUME NEW s \in Seq(Movements), NEW m \in Movements, NEW o, NEW n \in Nat \ {0}, NEW r,
         m.type = "CANCEL_ORDER", m.order = o, m.change = n, ReturnedOnce(s, o, 0), SoldOnce(s, o, r)
  PROVE  ReturnedOnce(Append(s, m), o, n) /\ SoldOnce(Append(s, m), o, r)
<1> DEFINE t == Append(s, m)
<1>1. /\ Len(t) = Len(s) + 1 /\ t[Len(s) + 1] = m /\ Len(s) \in Nat
      /\ \A i \in 1..Len(s) : t[i] = s[i]
  BY AppendLast
<1> HIDE DEF t
<1>2. \A i \in 1..Len(t) : i \in 1..Len(s) \/ i = Len(s) + 1
  BY <1>1
<1>3. 1..Len(s) \subseteq 1..Len(t) /\ Len(s) + 1 \notin 1..Len(s) /\ Len(s) + 1 \in 1..Len(t)
  BY <1>1
<1>4. ReturnedOnce(t, o, n)
  BY <1>1, <1>2, <1>3 DEF ReturnedOnce, NoneFor, OneFor
<1>5. SoldOnce(t, o, r)
  BY <1>1, <1>2, <1>3 DEF SoldOnce, NoneFor, OneFor
<1> QED
  BY <1>4, <1>5 DEF t

\* A step that posts nothing for product p but movements of other orders.
LEMMA OnceKept ==
  ASSUME TypeOK, OncePerOrder, NEW p \in Products, NEW o \in Orders,
         orders'[o].items = orders[o].items,
         orders'[o].status = "CANCELLED" <=> orders[o].status = "CANCELLED",
         \/ audit'[p] = audit[p]
         \/ \E m \in Movements : m.order # o /\ audit'[p] = Append(audit[p], m)
  PROVE  SoldOnce(audit'[p], o, orders'[o].items[p]) /\ ReturnedOnce(audit'[p], o, Returned(p, o)')
<1>1. Returned(p, o)' = Returned(p, o)
  BY DEF Returned
<1>2. SoldOnce(audit[p], o, orders[o].items[p]) /\ ReturnedOnce(audit[p], o, Returned(p, o))
  BY DEF OncePerOrder
<1>3. CASE audit'[p] = audit[p]
  BY <1>1, <1>2, <1>3
<1>4. ASSUME NEW m \in Movements, m.order # o, audit'[p] = Append(audit[p], m)
      PROVE  SoldOnce(audit'[p], o, orders'[o].items[p]) /\ ReturnedOnce(audit'[p], o, Returned(p, o)')
  <2>1. audit[p] \in Seq(Movements)
    BY DEF TypeOK
  <2> QED
    BY <1>1, <1>2, <1>4, <2>1, OthersMovement
<1> QED
  BY <1>3, <1>4

\* Imports and corrections belong to no order.
LEMMA OnceWrite ==
  ASSUME TypeOK, OncePerOrder, NEW p \in Products, NEW type \in {"IMPORT", "ADJUSTMENT"},
         NEW old \in Nat, NEW new \in Nat, WriteStock(p, type, old, new), orders' = orders
  PROVE  OncePerOrder'
<1>1. Movement(type, None, old, new) \in Movements /\ Movement(type, None, old, new).order = None
  BY DEF Movement, Movements
<1>2. /\ audit'[p] = Append(audit[p], Movement(type, None, old, new))
      /\ \A q \in Products : q # p => audit'[q] = audit[q]
  BY DEF WriteStock, TypeOK
<1>3. ASSUME NEW q \in Products, NEW o \in Orders
      PROVE  SoldOnce(audit'[q], o, orders'[o].items[q]) /\ ReturnedOnce(audit'[q], o, Returned(q, o)')
  BY <1>1, <1>2, OnceKept
<1> QED
  BY <1>3 DEF OncePerOrder

\* The insertion of an order sells each of its items once.
LEMMA OnceInsert ==
  ASSUME TypeOK, TypeOK', OncePerOrder, Complete, NEW o \in Orders, CommitInsert(o)
  PROVE  OncePerOrder'
<1>1. ord \in Selling /\ ord.cart \in [Products -> Nat]
  BY DEF CommitInsert, TypeOK, Selling, Confirming, Cancelling
<1>2. /\ orders[o].status = "ABSENT" /\ orders[o].items = NoItems
      /\ orders'[o].items = ord.cart /\ orders'[o].status # "CANCELLED"
      /\ \A r \in Orders : r # o => orders'[r] = orders[r]
  BY DEF CommitInsert, Complete, TypeOK
<1>3. \A p \in Picked :
        audit'[p] = Append(audit[p], Movement("SALE", o, stock[p], stock[p] + -ord.cart[p]))
  BY DEF CommitInsert, ShiftStock, Picked
<1>4. \A p \in Products \ Picked : audit'[p] = audit[p] /\ ord.cart[p] = 0
  BY <1>1 DEF CommitInsert, ShiftStock, Picked
<1>5. ASSUME NEW p \in Products, NEW r \in Orders
      PROVE  SoldOnce(audit'[p], r, orders'[r].items[p]) /\ ReturnedOnce(audit'[p], r, Returned(p, r)')
  <2> DEFINE m == Movement("SALE", o, stock[p], stock[p] + -ord.cart[p])
  <2>1. CASE p \in Picked
    <3>1. /\ stock[p] \in Nat /\ ord.cart[p] \in Nat \ {0} /\ audit[p] \in Seq(Movements)
      BY <1>1, <2>1 DEF TypeOK, Picked
    <3>2. m \in Movements /\ m.type = "SALE" /\ m.order = o /\ m.change = -ord.cart[p]
      BY <3>1 DEF Movement, Movements
    <3>3. audit'[p] = Append(audit[p], m)
      BY <1>3, <2>1
    <3> HIDE DEF m
    <3>4. CASE r = o
      <4>1. SoldOnce(audit[p], o, 0) /\ ReturnedOnce(audit[p], o, 0)
        BY <1>2 DEF OncePerOrder, Returned, NoItems
      <4>2. Returned(p, o)' = 0
        BY <1>2 DEF Returned
      <4> QED
        <5>1. SoldOnce(Append(audit[p], m), o, ord.cart[p]) /\ ReturnedOnce(Append(audit[p], m), o, 0)
          BY <3>1, <3>2, <4>1, SaleMovement
        <5> QED
          BY <1>2, <3>3, <3>4, <4>2, <5>1
    <3>5. CASE r # o
      BY <1>2, <3>2, <3>3, <3>5, OnceKept
    <3> QED
      BY <3>4, <3>5
  <2>2. CASE p \notin Picked
    <3>1. audit'[p] = audit[p] /\ ord.cart[p] = 0
      BY <1>4, <2>2
    <3>2. orders'[r].items[p] = orders[r].items[p] /\ Returned(p, r)' = Returned(p, r)
      BY <1>2, <3>1 DEF NoItems, Returned
    <3> QED
      BY <3>1, <3>2 DEF OncePerOrder
  <2> QED
    BY <2>1, <2>2
<1> QED
  BY <1>5 DEF OncePerOrder

\* The cancellation of an order returns each of its items once.
LEMMA OnceCancel ==
  ASSUME TypeOK, LifeInv, OncePerOrder, Complete, CommitCancel
  PROVE  OncePerOrder'
<1> SUFFICES ASSUME NEW o, o = ord.id
             PROVE  OncePerOrder'
  OBVIOUS
<1>1. /\ o \in Orders /\ orders[o].status \in {"PENDING", "CONFIRMED"}
      /\ orders[o].items \in [Products -> Nat] /\ Restored = Ordered(o)
  BY SessionOrders DEF CommitCancel, LifeInv, OrderHeld, TypeOK, OrderRows, Complete, Restored
<1>2. ShiftStock(Ordered(o), orders[o].items, "CANCEL_ORDER", o)
  BY <1>1 DEF CommitCancel
<1>3. /\ orders'[o].status = "CANCELLED" /\ orders'[o].items = orders[o].items
      /\ \A r \in Orders : r # o => orders'[r] = orders[r]
  <2>1. PICK b : orders' = [orders EXCEPT ![o].status = "CANCELLED", ![o].deleted = b]
    BY DEF CommitCancel
  <2> QED
    BY <1>1, <2>1 DEF TypeOK, OrderRows
<1>4. \A p \in Ordered(o) : audit'[p] =
        Append(audit[p], Movement("CANCEL_ORDER", o, stock[p], stock[p] + orders[o].items[p]))
  BY <1>2 DEF ShiftStock, Ordered
<1>5. \A p \in Products \ Ordered(o) : audit'[p] = audit[p] /\ orders[o].items[p] = 0
  BY <1>1, <1>2 DEF ShiftStock, Ordered
<1>6. ASSUME NEW p \in Products, NEW r \in Orders
      PROVE  SoldOnce(audit'[p], r, orders'[r].items[p]) /\ ReturnedOnce(audit'[p], r, Returned(p, r)')
  <2> DEFINE m == Movement("CANCEL_ORDER", o, stock[p], stock[p] + orders[o].items[p])
  <2>1. CASE p \in Ordered(o)
    <3>1. /\ stock[p] \in Nat /\ orders[o].items[p] \in Nat \ {0} /\ audit[p] \in Seq(Movements)
      BY <1>1, <2>1 DEF TypeOK, Ordered
    <3>2. m \in Movements /\ m.type = "CANCEL_ORDER" /\ m.order = o /\ m.change = orders[o].items[p]
      BY <1>1, <3>1 DEF Movement, Movements
    <3>3. audit'[p] = Append(audit[p], m)
      BY <1>4, <2>1
    <3> HIDE DEF m
    <3>4. CASE r = o
      <4>1. SoldOnce(audit[p], o, orders[o].items[p]) /\ ReturnedOnce(audit[p], o, 0)
        BY <1>1 DEF OncePerOrder, Returned
      <4>2. Returned(p, o)' = orders[o].items[p]
        BY <1>3 DEF Returned
      <4>3. /\ ReturnedOnce(Append(audit[p], m), o, orders[o].items[p])
            /\ SoldOnce(Append(audit[p], m), o, orders[o].items[p])
        BY <3>1, <3>2, <4>1, ReturnMovement
      <4> QED
        BY <1>3, <3>3, <3>4, <4>2, <4>3
    <3>5. CASE r # o
      BY <1>3, <3>2, <3>3, <3>5, OnceKept
    <3> QED
      BY <3>4, <3>5
  <2>2. CASE p \notin Ordered(o)
    <3>1. audit'[p] = audit[p] /\ orders[o].items[p] = 0
      BY <1>5, <2>2
    <3>2. orders'[r].items[p] = orders[r].items[p] /\ Returned(p, r)' = Returned(p, r)
      BY <1>3, <3>1 DEF Returned
    <3> QED
      BY <3>1, <3>2 DEF OncePerOrder
  <2> QED
    BY <2>1, <2>2
<1> QED
  BY <1>6 DEF OncePerOrder

\* The other commits leave the items of an order and its cancellation alone.
LEMMA OnceOthers ==
  ASSUME TypeOK, LifeInv, OncePerOrder, audit' = audit,
         CommitOrderStatus \/ PaymentStream \/ ShipmentStream
  PROVE  OncePerOrder'
<1>1. \A o \in Orders : orders'[o].items = orders[o].items
  <2>1. CASE CommitOrderStatus
    BY <2>1 DEF CommitOrderStatus, TypeOK, OrderRows
  <2> QED
    BY <2>1, ItemsKept
<1>2. ASSUME NEW o \in Orders
      PROVE  orders'[o].status = "CANCELLED" <=> orders[o].status = "CANCELLED"
  <2>1. CASE orders'[o].status = orders[o].status
    BY <2>1
  <2>2. CASE CommitOrderStatus
    <3>1. ord.id \in Orders /\ orders' = [orders EXCEPT ![ord.id].status = ord.goal]
          /\ orders[ord.id].status # "CANCELLED" /\ ord.goal # "CANCELLED"
      BY <2>2, SessionOrders DEF CommitOrderStatus, LifeInv, OrderHeld
    <3> QED
      BY <3>1 DEF TypeOK, OrderRows
  <2>3. CASE CommitAdvance
    <3>1. shp.pc = "advance" /\ shp.id \in Orders
      BY <2>3, SessionOrders DEF CommitAdvance
    <3>2. PICK s : orders' = [orders EXCEPT ![shp.id].status = OrderAfter(orders[shp.id], s)]
      BY <2>3 DEF CommitAdvance
    <3>3. orders[shp.id].status # "CANCELLED"
      BY <3>1 DEF LifeInv, ShipmentHeld, Active, AllLawful, Lawful
    <3>4. OrderAfter(orders[shp.id], s) # "CANCELLED"
      BY <3>3 DEF OrderAfter
    <3> QED
      BY <3>1, <3>2, <3>3, <3>4 DEF TypeOK, OrderRows
  <2>4. CASE CommitPaid
    BY <2>4 DEF CommitPaid, TypeOK, OrderRows
  <2>5. CASE UNCHANGED orders
    BY <2>5
  <2> QED
    BY <2>2, <2>3, <2>4, <2>5 DEF PaymentStream, ShipmentStream, SelectPayment, CommitFailedPayment,
       UpdatePayment, AbortPayment, SelectPaidOrder, SelectShipment, CommitShipment, AbortShipment, tables
<1>3. ASSUME NEW p \in Products, NEW o \in Orders
      PROVE  SoldOnce(audit'[p], o, orders'[o].items[p]) /\ ReturnedOnce(audit'[p], o, Returned(p, o)')
  BY <1>1, <1>2, OnceKept
<1> QED
  BY <1>3 DEF OncePerOrder

LEMMA OnceStep ==
  TypeOK /\ TypeOK' /\ LifeInv /\ OncePerOrder /\ Complete /\ [Next]_vars => OncePerOrder'
<1> SUFFICES ASSUME TypeOK, TypeOK', LifeInv, OncePerOrder, Complete, [Next]_vars
             PROVE  OncePerOrder'
  OBVIOUS
<1>1. ASSUME NEW p \in Products, InsertProduct(p)
      PROVE  OncePerOrder'
  BY <1>1, OnceWrite DEF InsertProduct
<1>2. CASE CommitCorrection
  <2>1. cat.id \in Products /\ cat.seen \in Nat
    BY <1>2 DEF CommitCorrection, TypeOK, IdleCatalog
  <2> QED
    BY <1>2, <2>1, CorrectedNat, OnceWrite DEF CommitCorrection
<1>3. CASE CommitImport
  <2>1. inv.id \in Products /\ inv.seen \in Nat
    BY <1>3 DEF CommitImport, TypeOK, IdleCatalog
  <2>2. PICK n \in ImportSizes : WriteStock(inv.id, "IMPORT", inv.seen, inv.seen + n)
    BY <1>3 DEF CommitImport
  <2> QED
    BY <1>3, <2>1, <2>2, OnceWrite DEF CommitImport
<1>4. CASE CommitOrderStatus \/ PaymentStream \/ ShipmentStream
  <2>1. audit' = audit
    BY <1>4 DEF CommitOrderStatus, PaymentStream, ShipmentStream, SelectPayment, CommitFailedPayment,
       UpdatePayment, CommitPaid, AbortPayment, SelectPaidOrder, SelectShipment, CommitShipment,
       CommitAdvance, AbortShipment, tables
  <2> QED
    BY <1>4, <2>1, OnceOthers
<1>5. CASE UNCHANGED <<orders, audit>>
  BY <1>5 DEF OncePerOrder, Returned
<1> QED
  BY <1>1, <1>2, <1>3, <1>4, <1>5, OnceInsert, OnceCancel
     DEF Next, vars, tables, OrderStream, ProductStream, InventoryStream,
         BeginInsert, OutOfStock, PickProduct, RestoreProduct, SelectOrder, RestoreDone, RefundPayment,
         AbortOrder, AbortShipment, SelectProduct, CommitPrice, AbortProduct, SelectImport, AbortImport,
         BreakDeadlock

LEMMA CompleteStep == TypeOK /\ LifeInv /\ Complete /\ [Next]_vars => Complete'
<1> SUFFICES ASSUME TypeOK, LifeInv, Complete, [Next]_vars
             PROVE  Complete'
  OBVIOUS
<1>1. ASSUME NEW o \in Orders, orders'[o].status = "ABSENT"
      PROVE  orders'[o].items = NoItems
  <2>1. orders[o].status = "ABSENT"
    <3>1. orders[o].status \in {"ABSENT", "PENDING", "CONFIRMED", "SHIPPING", "COMPLETED", "CANCELLED"}
      BY DEF TypeOK, OrderRows
    <3>2. ~(Rank(orders[o].status) < Rank("ABSENT"))
      BY <3>1 DEF Rank
    <3> QED
      BY <1>1, <3>2, StatusStep
  <2>2. orders'[o].items = orders[o].items
    <3>1. ASSUME NEW q \in Orders, CommitInsert(q)
          PROVE  orders'[o].items = orders[o].items
      BY <1>1, <3>1 DEF CommitInsert, TypeOK
    <3>2. CASE CommitOrderStatus
      BY <3>2 DEF CommitOrderStatus, TypeOK, OrderRows
    <3>3. CASE CommitCancel
      <4>1. PICK b : orders' = [orders EXCEPT ![ord.id].status = "CANCELLED", ![ord.id].deleted = b]
        BY <3>3 DEF CommitCancel
      <4> QED
        BY <4>1 DEF TypeOK, OrderRows
    <3>4. CASE PaymentStream \/ ShipmentStream
      BY <3>4, ItemsKept
    <3>5. CASE orders' = orders
      BY <3>5
    <3> QED
      BY <3>1, <3>2, <3>3, <3>4, <3>5
         DEF Next, vars, tables, OrderStream, ProductStream, InventoryStream, BeginInsert, OutOfStock,
             PickProduct, RestoreProduct, SelectOrder, RestoreDone, RefundPayment, AbortOrder,
             AbortShipment, InsertProduct, SelectProduct, CommitPrice, CommitCorrection, AbortProduct,
             SelectImport, CommitImport, AbortImport, BreakDeadlock
  <2> QED
    BY <2>1, <2>2 DEF Complete
<1>2. ord'.pc \in {"refund", "ships"} => ord'.todo = {}
  <2>1. CASE RestoreDone \/ RefundPayment
    <3>1. ord \in Cancelling /\ ord.todo = {}
      BY <2>1 DEF RestoreDone, RefundPayment, TypeOK, Selling, Confirming, Complete
    <3> QED
      BY <2>1, <3>1 DEF RestoreDone, RefundPayment, Cancelling
  <2>2. ASSUME NEW p \in Products, PickProduct(p) \/ RestoreProduct(p)
        PROVE  ord'.pc \in {"pick", "restore"}
    BY <2>2 DEF PickProduct, RestoreProduct, TypeOK, Selling, Confirming, Cancelling
  <2>3. ASSUME NEW o \in Orders, SelectOrder(o)
        PROVE  ord'.pc \in {"restore", "update"}
    BY <2>3 DEF SelectOrder, IdleOrder
  <2>4. CASE BeginInsert
    BY <2>4 DEF BeginInsert, IdleOrder
  <2>5. CASE ord' = IdleOrder
    BY <2>5 DEF IdleOrder
  <2>6. CASE ord' = ord
    BY <2>6 DEF Complete
  <2> QED
    BY <2>1, <2>2, <2>3, <2>4, <2>5, <2>6
       DEF Next, vars, OrderStream, PaymentStream, ShipmentStream, ProductStream, InventoryStream,
           OutOfStock, CommitInsert, CommitOrderStatus, CommitCancel, AbortOrder, SelectPayment,
           CommitFailedPayment, UpdatePayment, CommitPaid, AbortPayment, SelectPaidOrder, SelectShipment,
           CommitShipment, CommitAdvance, AbortShipment, InsertProduct, SelectProduct, CommitPrice,
           CommitCorrection, AbortProduct, SelectImport, CommitImport, AbortImport, BreakDeadlock
<1> QED
  BY <1>1, <1>2 DEF Complete

\* Every unit an order took is accounted for once, and given back once if it was
\* cancelled, by whichever of the two ways: for any products, orders and quantities.
THEOREM UnitsSoldAndReturnedOnce == Spec => []SoldOnceReturnedOnce
<1>1. Init => OncePerOrder /\ Complete
  <2> SUFFICES ASSUME Init
               PROVE  OncePerOrder /\ Complete
    OBVIOUS
  <2>1. Complete
    BY DEF Init, Complete, IdleOrder
  <2>2. ASSUME NEW p \in Products, NEW o \in Orders
        PROVE  audit[p] = <<>> /\ 1..Len(audit[p]) = {} /\ orders[o].items[p] = 0 /\ Returned(p, o) = 0
    BY DEF Init, NoItems, Returned
  <2>3. OncePerOrder
    BY <2>2 DEF OncePerOrder, SoldOnce, ReturnedOnce, NoneFor
  <2> QED
    BY <2>1, <2>3
<1>2. OncePerOrder => SoldOnceReturnedOnce
  BY SaidAlike
<1> QED
  BY <1>1, <1>2, OnceStep, CompleteStep, LifeInvariance, TypeCorrect, PTL DEF Spec
-----------------------------------------------------------------------------
(* Who waits for whom.                                                       *)

Sessions == {"order", "payment", "shipment", "product", "import"}

\* The statement of session w that comes next waits for a row lock.
Blocked(w) ==
  \/ w = "order" /\ ord.pc = "restore" /\ ord.todo # {} /\ \A p \in ord.todo : ~FreeProduct(p)
  \/ w = "order" /\ ord.pc = "refund" /\ payment[ord.id] = "SUCCESS" /\ ~FreePayment(ord.id)
  \/ w = "order" /\ ord.pc = "ships" /\ Active(ord.id) /\ ~FreeShipment(ord.id)
  \/ w = "payment" /\ pay.pc = "selected" /\ ~FreePayment(pay.id)
  \/ w = "payment" /\ pay.pc = "paid" /\ ~FreeOrder(pay.id)
  \/ w = "shipment" /\ shp.pc = "advance" /\ ~FreeOrder(shp.id)

\* Session h has locked a row that the next statement of session w may need.
WaitsFor(w, h) ==
  \/ /\ w = "order" /\ ord.pc = "restore"
     /\ (h = "product" /\ cat.id \in ord.todo) \/ (h = "import" /\ inv.id \in ord.todo)
  \/ /\ w = "order" /\ ord.pc = "refund" /\ payment[ord.id] = "SUCCESS"
     /\ h = "payment" /\ pay.pc = "paid" /\ pay.id = ord.id
  \/ /\ w = "order" /\ ord.pc = "ships" /\ Active(ord.id)
     /\ h = "shipment" /\ shp.pc = "advance" /\ shp.id = ord.id
  \/ w = "payment" /\ pay.pc # "idle" /\ h = "order" /\ ord.id = pay.id
  \/ w = "payment" /\ pay.pc = "paid" /\ h = "shipment" /\ shp.pc = "create" /\ shp.id = pay.id
  \/ w = "shipment" /\ shp.pc = "advance" /\ h = "order" /\ ord.id = shp.id

Level(w) == CASE w = "payment" -> 3 [] w = "shipment" -> 2 [] w = "order" -> 1 [] OTHER -> 0

\* A statement waits only for another session, and unless the deadlock detector has
\* something to break, no chain of waiting sessions closes.
OneDeadlock ==
  /\ \A w \in Sessions : Blocked(w) => \E h \in Sessions \ {w} : WaitsFor(w, h)
  /\ ~Deadlocked => \A w, h \in Sessions : WaitsFor(w, h) => Level(h) < Level(w)

\* Only the refund sets the flag, on the way to the shipment.
RefundLast == ord.refund => ord.pc = "ships"

LEMMA RefundLastStep == TypeOK /\ RefundLast /\ [Next]_vars => RefundLast'
<1> SUFFICES ASSUME TypeOK, RefundLast, [Next]_vars PROVE RefundLast'
  OBVIOUS
<1>1. CASE UNCHANGED ord
  BY <1>1 DEF RefundLast
<1>2. CASE AbortOrder \/ OutOfStock \/ CommitOrderStatus \/ CommitCancel
           \/ \E o \in Orders : CommitInsert(o)
  <2>1. ord' = IdleOrder
    BY <1>2 DEF AbortOrder, OutOfStock, CommitOrderStatus, CommitCancel, CommitInsert
  <2> QED
    BY <2>1 DEF IdleOrder, RefundLast
<1>3. CASE BeginInsert
  BY <1>3 DEF BeginInsert, IdleOrder, RefundLast
<1>4. ASSUME NEW o \in Orders, SelectOrder(o) PROVE RefundLast'
  BY <1>4 DEF SelectOrder, IdleOrder, RefundLast
<1>5. ASSUME NEW p \in Products, PickProduct(p) \/ RestoreProduct(p) PROVE RefundLast'
  <2>1. ord' = [ord EXCEPT !.cart = ord'.cart, !.want = ord'.want, !.todo = ord'.todo]
    <3>1. CASE PickProduct(p)
      BY <3>1 DEF PickProduct, TypeOK, Selling, Confirming, Cancelling
    <3>2. CASE RestoreProduct(p)
      BY <3>2 DEF RestoreProduct, TypeOK, Selling, Confirming, Cancelling
    <3> QED
      BY <1>5, <3>1, <3>2
  <2>2. ord'.pc = ord.pc /\ ord'.refund = ord.refund
    BY <2>1 DEF TypeOK, Selling, Confirming, Cancelling
  <2> QED
    BY <2>2 DEF RefundLast
<1>6. CASE RestoreDone \/ RefundPayment
  <2>1. ord \in Cancelling
    BY <1>6 DEF RestoreDone, RefundPayment, TypeOK, Selling, Confirming
  <2>2. CASE RestoreDone
    <3>1. ~ord.refund
      BY <2>2 DEF RestoreDone, RefundLast
    <3>2. ord'.refund = ord.refund
      BY <2>1, <2>2 DEF RestoreDone, Cancelling
    <3> QED
      BY <3>1, <3>2 DEF RefundLast
  <2>3. CASE RefundPayment
    <3>1. ord'.pc = "ships"
      BY <2>1, <2>3 DEF RefundPayment, Cancelling
    <3> QED
      BY <3>1 DEF RefundLast
  <2> QED
    BY <1>6, <2>2, <2>3
<1>7. CASE BreakDeadlock
  BY <1>1, <1>2, <1>7 DEF BreakDeadlock, AbortShipment
<1>8. CASE PaymentStream \/ ShipmentStream \/ ProductStream \/ InventoryStream \/ UNCHANGED vars
  BY <1>1, <1>8 DEF PaymentStream, ShipmentStream, ProductStream, InventoryStream, vars, SelectPayment,
    CommitFailedPayment, UpdatePayment, CommitPaid, AbortPayment, SelectPaidOrder, SelectShipment,
    CommitShipment, CommitAdvance, AbortShipment, InsertProduct, SelectProduct, CommitPrice,
    CommitCorrection, AbortProduct, SelectImport, CommitImport, AbortImport
<1> QED
  BY <1>2, <1>3, <1>4, <1>5, <1>6, <1>7, <1>8 DEF Next, OrderStream

\* The streams cannot wait for one another in a circle except where a cancellation,
\* which locks the order and then its shipment, meets advance_random_shipment, which
\* locks them the other way round; a refund never meets a payment on its way, because
\* its UPDATE matches only what is SUCCESS already.
THEOREM NoOtherDeadlock == Spec => []OneDeadlock
<1>1. ASSUME TypeOK, LifeInv, RefundLast, NEW w \in Sessions, Blocked(w)
      PROVE  \E h \in Sessions \ {w} : WaitsFor(w, h)
  <2>1. CASE w = "order" /\ ord.pc = "restore"
    <3>1. PICK p \in ord.todo : ~FreeProduct(p)
      BY <1>1, <2>1 DEF Blocked
    <3>2. p \notin Picked \cup Restored
      <4>1. ord.cart = NoItems
        BY <1>1, <2>1 DEF TypeOK, Selling, Confirming, Cancelling
      <4>2. Picked = {}
        BY <4>1 DEF Picked, NoItems
      <4> QED
        BY <2>1, <3>1, <4>2 DEF Restored
    <3>3. cat.id = p \/ inv.id = p
      BY <3>1, <3>2 DEF FreeProduct
    <3>4. WaitsFor(w, "product") \/ WaitsFor(w, "import")
      BY <2>1, <3>1, <3>3 DEF WaitsFor
    <3> QED
      BY <2>1, <3>4 DEF Sessions
  <2>2. CASE w = "order" /\ ord.pc = "refund"
    <3>1. payment[ord.id] = "SUCCESS" /\ ~FreePayment(ord.id) /\ ~ord.refund
      BY <1>1, <2>2 DEF Blocked, RefundLast
    <3>2. WaitsFor(w, "payment")
      BY <2>2, <3>1 DEF WaitsFor, FreePayment
    <3> QED
      BY <2>2, <3>2 DEF Sessions
  <2>3. CASE w = "order" /\ ord.pc = "ships"
    <3>1. WaitsFor(w, "shipment")
      BY <1>1, <2>3 DEF Blocked, WaitsFor, FreeShipment
    <3> QED
      BY <2>3, <3>1 DEF Sessions
  <2>4. CASE w = "payment" /\ pay.pc = "selected"
    <3>1. WaitsFor(w, "order")
      BY <1>1, <2>4 DEF Blocked, WaitsFor, FreePayment
    <3> QED
      BY <2>4, <3>1 DEF Sessions
  <2>5. CASE w = "payment" /\ pay.pc = "paid"
    <3>1. WaitsFor(w, "order") \/ WaitsFor(w, "shipment")
      BY <1>1, <2>5 DEF Blocked, WaitsFor, FreeOrder
    <3> QED
      BY <2>5, <3>1 DEF Sessions
  <2>6. CASE w = "shipment"
    <3>1. WaitsFor(w, "order")
      BY <1>1, <2>6 DEF Blocked, WaitsFor, FreeOrder
    <3> QED
      BY <2>6, <3>1 DEF Sessions
  <2> QED
    BY <1>1, <2>1, <2>2, <2>3, <2>4, <2>5, <2>6 DEF Blocked
<1>2. ASSUME LifeInv, ~Deadlocked, NEW w \in Sessions, NEW h \in Sessions, WaitsFor(w, h)
      PROVE  Level(h) < Level(w)
  <2>1. ~(w = "order" /\ h = "payment")
    BY <1>2 DEF WaitsFor, LifeInv, PaymentOpen
  <2>2. ~(w = "order" /\ h = "shipment")
    BY <1>2 DEF WaitsFor, Deadlocked
  <2> QED
    BY <1>2, <2>1, <2>2 DEF WaitsFor, Level
<1>3. TypeOK /\ LifeInv /\ RefundLast => OneDeadlock
  BY <1>1, <1>2 DEF OneDeadlock
<1>4. Init => RefundLast
  BY DEF Init, IdleOrder, RefundLast
<1> QED
  BY <1>3, <1>4, RefundLastStep, LifeInvariance, TypeCorrect, PTL DEF Spec
=============================================================================
