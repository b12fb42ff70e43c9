\* Two orders compete for the units of one product.
CONSTANTS
  p1 = p1
  o1 = o1
  o2 = o2
  Products = {p1}
  Orders = {o1, o2}
  None = None
  Quantities <- One
  InitialStocks <- OneOrTwo
  ImportSizes <- One
  StockDeltas <- Corrections
  MaxItems = 1
  MaxMovements = 2
SYMMETRY Interchangeable
SPECIFICATION Spec
INVARIANTS
  TypeOK
  ReadsStayFresh
  SoldOnceReturnedOnce
  CancelledShipsNothing
  DeliveredIffCompleted
  ShipmentOnlyForPaid
  OutOfStockIffZero
PROPERTIES
  OrderNeverRegresses
  ImplementsLedger
