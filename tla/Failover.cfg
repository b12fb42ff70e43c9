\* Three nodes, one failover; two probes and one change of the workload.
CONSTANTS
  n1 = n1
  n2 = n2
  n3 = n3
  None = None
  Endpoints <- Three
  First = n2
  MaxLag = 1
  MaxOrders = 1
SPECIFICATION FairSpec
INVARIANTS
  TypeOK
  MissedOnlyBeforeSlot
  CleanFailoverLosesNothing
  PassProvesPropagation
  PassWithComparisonMissesNothing
PROPERTIES
  WriteEndpointReturns
CHECK_DEADLOCK FALSE
