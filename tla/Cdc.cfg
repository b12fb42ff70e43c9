\* Two rows, three changes, one tolerated failure and one JobManager loss.
CONSTANTS
  k1 = k1
  k2 = k2
  Keys = {k1, k2}
  Clocks <- AroundASecond
  MaxWal = 3
  MaxFailures = 1
  MaxLosses = 1
SPECIFICATION FairSpec
INVARIANTS
  VersionsFollowCommits
  CheckpointIsDurable
  NothingLost
  RestartPointRetained
PROPERTIES
  ImplementsLatestState
  CatchesUp
