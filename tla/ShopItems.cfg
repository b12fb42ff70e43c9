\* One order of up to two products: its stock is restored product by product
\* while the catalogue and the imports hold rows of their own.
CONSTANTS
  p1 = p1
  p2 = p2
  o1 = o1
  Products = {p1, p2}
  Orders = {o1}
  None = None
  Quantities <- OneOrTwo
  InitialStocks <- Two
  ImportSizes <- One
  StockDeltas <- Corrections
  MaxItems = 2
  MaxMovements = 3
SYMMETRY Interchangeable
SPECIFICATION Spec
PROPERTIES
  ImplementsLedger
