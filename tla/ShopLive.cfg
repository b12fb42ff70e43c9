\* One product and one order under fairness: lock waits, the deadlock and its
\* victim, and what every transaction and every paid order must come to.
CONSTANTS
  p1 = p1
  o1 = o1
  Products = {p1}
  Orders = {o1}
  None = None
  Quantities <- One
  InitialStocks <- One
  ImportSizes <- One
  StockDeltas <- Corrections
  MaxItems = 1
  MaxMovements = 2
SPECIFICATION FairSpec
PROPERTIES
  EveryTransactionEnds
  PaidOrderShips
