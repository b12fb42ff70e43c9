\* One resubmission, three attempts of a job, three checkpoints.
CONSTANTS
  MaxJobs = 2
  MaxAttempts = 3
  MaxCheckpoints = 3
SPECIFICATION FairSpec
INVARIANTS
  RecoverySeen
  NoSecondJob
  PassNeedsNewCheckpoint
PROPERTIES
  VerdictReached
CHECK_DEADLOCK FALSE
