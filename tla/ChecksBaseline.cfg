\* One resubmission, three attempts of a job, three checkpoints.
CONSTANTS
  MaxJobs = 2
  MaxAttempts = 3
  MaxCheckpoints = 3
SPECIFICATION Spec
INVARIANTS
  HealthyBaselineAccepted
CHECK_DEADLOCK FALSE
