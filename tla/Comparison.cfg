\* A count and a sum, two changes of each.
CONSTANTS
  count = count
  sum = sum
  CheckOrder <- CountThenSum
  Sums = {sum}
  MaxWrites = 2
SPECIFICATION FairSpec
INVARIANTS
  TypeOK
  QuietPassHasCounts
  NoFalseAlarm
  HistoryIsWhole
PROPERTIES
  RunEnds
