------------------------------ MODULE StackChecks ------------------------------
(***************************************************************************)
(* The scripts that judge the Flink job from outside: verify_stack.py,     *)
(* fault_tolerance_test.py (all scenarios in order) and the baseline of    *)
(* flink_recovery_test.py.  They poll Flink's REST API and PostgreSQL's    *)
(* slots, restart containers, and reach a verdict while the job goes its   *)
(* own way.                                                                *)
(*                                                                         *)
(* The job is seen as the scripts see it: its state in /jobs/overview, its *)
(* count of completed checkpoints, and whether the nine slots are active.  *)
(* What a job does inside is CdcPipeline's matter.                         *)
(***************************************************************************)
EXTENDS Integers, Sequences, FiniteSets

CONSTANTS
  MaxJobs,         \* bound: jobs ever submitted
  MaxAttempts,     \* bound: attempts of one job
  MaxCheckpoints   \* bound: completed checkpoints of one job

ASSUME ChecksAssumption ==
  /\ MaxJobs \in Nat \ {0}
  /\ MaxAttempts \in Nat \ {0}
  /\ MaxCheckpoints \in Nat

Jobs == 1..MaxJobs
Nobody == 0

VARIABLES
  state,       \* the jobs' states in /jobs/overview
  attempts,    \* how often each job was deployed
  completed,   \* completed checkpoints of each job
  alive,       \* jobs whose tasks are running
  holder,      \* the job that has the nine slots active
  script,      \* which script is run
  at,          \* fault_tolerance_test: number of scenarios begun
  pc,          \* where the script is
  running,     \* RUNNING jobs of the last poll
  path,        \* what the script puts into /jobs/{...}/checkpoints
  initial,     \* the checkpoint count a wait starts from
  timeUp,      \* the deadline of the current wait is over
  resubmitted, \* this scenario has started the submitter
  failures,    \* scenarios whose validation failed
  reason,      \* why the script gave up
  \* History.
  before,      \* attempts when the scenario restarted its container
  floor        \* completed when the script saw the job running with its slots

vars == <<state, attempts, completed, alive, holder, script, at, pc, running, path, initial,
          timeUp, resubmitted, failures, reason, before, floor>>
cluster == <<state, attempts, completed, alive, holder>>
test == <<script, at, pc, running, path, initial, timeUp, resubmitted, failures, reason, before, floor>>

Scenarios == <<"taskmanager", "jobmanager", "clickhouse", "exporter">>
Ended == {"pass", "fail"}

\* A running stack, and a script about to be started.
Init ==
  /\ state = [j \in Jobs |-> IF j = 1 THEN "RUNNING" ELSE "NONE"]
  /\ attempts = [j \in Jobs |-> IF j = 1 THEN 1 ELSE 0]
  /\ completed = [j \in Jobs |-> 0]
  /\ alive = {1} /\ holder = 1
  /\ script \in {"verify_stack", "fault_tolerance", "flink_recovery"}
  /\ at = 0 /\ pc = "jobs" /\ running = {} /\ path = <<>> /\ initial = 0
  /\ timeUp = FALSE /\ resubmitted = FALSE /\ failures = 0 /\ reason = "none"
  /\ before = attempts /\ floor = 0

-----------------------------------------------------------------------------
(* The cluster.                                                             *)

TakeCheckpoint(j) ==
  /\ state[j] = "RUNNING" /\ holder = j /\ completed[j] < MaxCheckpoints
  /\ completed' = [completed EXCEPT ![j] = @ + 1]
  /\ UNCHANGED <<state, attempts, alive, holder, test>>

LoseTasks(lost) ==
  /\ alive' = alive \ lost
  /\ holder' = IF holder \in lost THEN Nobody ELSE holder

\* A task fails.  Its replication connections end with it.
TasksFail(j) ==
  /\ j \in alive /\ LoseTasks({j})
  /\ UNCHANGED <<state, attempts, completed, test>>

\* The JobManager learns of it only after a while.
NoticeLoss(j) ==
  /\ state[j] = "RUNNING" /\ j \notin alive
  /\ state' = [state EXCEPT ![j] = "DEPLOYING"]
  /\ UNCHANGED <<attempts, completed, alive, holder, test>>

Deploy(j) ==
  /\ state[j] = "DEPLOYING" /\ attempts[j] < MaxAttempts
  /\ state' = [state EXCEPT ![j] = "RUNNING"]
  /\ attempts' = [attempts EXCEPT ![j] = @ + 1]
  /\ alive' = alive \cup {j}
  /\ UNCHANGED <<completed, holder, test>>

\* The restart strategy gives up.
GiveUp(j) ==
  /\ state[j] = "DEPLOYING"
  /\ state' = [state EXCEPT ![j] = "FAILED"]
  /\ UNCHANGED <<attempts, completed, alive, holder, test>>

\* The sources connect to their slots, if no other job has them.
Attach(j) ==
  /\ j \in alive /\ holder = Nobody
  /\ holder' = j
  /\ UNCHANGED <<state, attempts, completed, alive, test>>

Cluster(j) ==
  TakeCheckpoint(j) \/ TasksFail(j) \/ NoticeLoss(j) \/ Deploy(j) \/ GiveUp(j) \/ Attach(j)

-----------------------------------------------------------------------------
(* verify_jobs_and_slots: poll until one job runs and all slots are active. *)

StartWait(label) == pc' = label /\ timeUp' = FALSE

Deadline ==
  /\ pc \notin Ended /\ ~timeUp
  /\ timeUp' = TRUE
  /\ UNCHANGED <<cluster, script, at, pc, running, path, initial, resubmitted, failures, reason,
                 before, floor>>

ReadJobs ==
  /\ pc = "jobs"
  /\ running' = {j \in Jobs : state[j] = "RUNNING"}
  /\ pc' = "slots"
  /\ UNCHANGED <<cluster, script, at, path, initial, timeUp, resubmitted, failures, reason, before, floor>>

Ready_JobsOnly == Cardinality(running) = 1
Ready == Cardinality(running) = 1 /\ holder # Nobody

\* What the caller makes of the returned pair of job id and last-modification:
\* verify_stack takes it apart, fault_tolerance_test ignores it, and
\* flink_recovery_test uses it as the id.
Verified ==
  LET j == CHOOSE i \in running : TRUE IN
  /\ floor' = completed[j]
  /\ CASE script = "verify_stack"    -> pc' = "initial" /\ path' = <<j>>
       [] script = "flink_recovery"  -> pc' = "baseline" /\ path' = <<j, attempts[j]>>
       [] script = "fault_tolerance" -> /\ pc' = IF at = 0 THEN "restarting" ELSE "validating"
                                        /\ UNCHANGED path

Fail(why) == pc' = "fail" /\ reason' = why

\* Only the jobmanager scenario has resubmit_if_job_missing, and only once.
MayResubmit_Always == at > 0 /\ ~resubmitted
MayResubmit == at > 0 /\ Scenarios[at] = "jobmanager" /\ ~resubmitted

ReadSlots_NoDeadline ==
  /\ pc = "slots"
  /\ IF Ready THEN Verified /\ UNCHANGED reason
     ELSE /\ UNCHANGED <<path, floor, reason>>
          /\ pc' = IF timeUp /\ MayResubmit THEN "resubmitting" ELSE "jobs"
  /\ UNCHANGED <<cluster, script, at, running, initial, timeUp, resubmitted, failures, before>>
ReadSlots ==
  /\ pc = "slots"
  /\ IF Ready THEN Verified /\ UNCHANGED reason
     ELSE /\ UNCHANGED <<path, floor>>
          /\ IF ~timeUp THEN pc' = "jobs" /\ UNCHANGED reason
             ELSE IF MayResubmit THEN pc' = "resubmitting" /\ UNCHANGED reason
             ELSE Fail("not ready")
  /\ UNCHANGED <<cluster, script, at, running, initial, timeUp, resubmitted, failures, before>>

\* Any other exception: psql, docker or the REST API fails, a container stays
\* unhealthy, the logs contain a marker, a table or an object is missing.
Raise ==
  /\ pc \notin Ended
  /\ Fail("raised")
  /\ UNCHANGED <<cluster, script, at, running, path, initial, timeUp, resubmitted, failures, before, floor>>

-----------------------------------------------------------------------------
(* The checkpoints of a job.                                                *)

Known == {<<j>> : j \in {i \in Jobs : state[i] # "NONE"}}
Count == completed[path[1]]

\* verify_checkpoints
ReadInitial ==
  /\ pc = "initial" /\ path \in Known
  /\ initial' = Count
  /\ StartWait("waiting")
  /\ UNCHANGED <<cluster, script, at, running, path, resubmitted, failures, reason, before, floor>>

Continues_OrStays == Count >= 2 /\ Count >= initial
Continues == Count >= 2 /\ Count > initial

AwaitCheckpoint ==
  /\ pc = "waiting" /\ path \in Known
  /\ IF Continues THEN pc' = "pass" /\ UNCHANGED reason
     ELSE timeUp /\ Fail("no new checkpoint")
  /\ UNCHANGED <<cluster, script, at, running, path, initial, timeUp, resubmitted, failures, before, floor>>

\* baseline_snapshot: completed_checkpoint_count, then "at least one".  No job has
\* the path the pair is formatted to, so the steps after it are never reached.
CountBaseline ==
  /\ pc = "baseline"
  /\ IF path \notin Known THEN Fail("no such job")
     ELSE IF Count < 1 THEN Fail("no checkpoint")
     ELSE pc' = "pass" /\ UNCHANGED reason
  /\ UNCHANGED <<cluster, script, at, running, path, initial, timeUp, resubmitted, failures, before, floor>>

-----------------------------------------------------------------------------
(* run_scenario.                                                            *)

\* docker restart, and the wait until the container is healthy.
RestartContainer ==
  /\ pc = "restarting"
  /\ at' = at + 1
  /\ before' = attempts /\ resubmitted' = FALSE
  /\ CASE Scenarios[at'] = "taskmanager" -> LoseTasks(alive) /\ UNCHANGED state
       [] Scenarios[at'] = "jobmanager"  -> LoseTasks(alive) /\ state' = [j \in Jobs |-> "NONE"]
       [] OTHER                          -> UNCHANGED <<alive, holder, state>>
  /\ IF Scenarios[at'] = "exporter"
     THEN pc' = (IF failures = 0 THEN "pass" ELSE "fail") /\ UNCHANGED timeUp
     ELSE StartWait("jobs")
  /\ UNCHANGED <<attempts, completed, script, running, path, initial, failures, reason, floor>>

\* docker start -a flink-job-submitter
Resubmit ==
  /\ pc = "resubmitting"
  /\ \E j \in Jobs :
       /\ attempts[j] = 0 /\ state[j] = "NONE" /\ \A i \in 1..(j - 1) : attempts[i] > 0
       /\ state' = [state EXCEPT ![j] = "DEPLOYING"]
  /\ resubmitted' = TRUE
  /\ StartWait("jobs")
  /\ UNCHANGED <<attempts, completed, alive, holder, script, at, running, path, initial, failures, reason,
                 before, floor>>

\* run_checks, whose outcome the last summary takes into account.
Validate ==
  /\ pc = "validating"
  /\ failures' \in {failures, failures + 1}
  /\ pc' = "restarting"
  /\ UNCHANGED <<cluster, script, at, running, path, initial, timeUp, resubmitted, reason, before, floor>>

-----------------------------------------------------------------------------
Proceed ==
  \/ ReadJobs \/ ReadSlots \/ ReadInitial \/ AwaitCheckpoint \/ CountBaseline
  \/ RestartContainer \/ Resubmit \/ Validate

Next == Proceed \/ Raise \/ Deadline \/ \E j \in Jobs : Cluster(j)

Spec == Init /\ [][Next]_vars

\* The script goes on, and time passes; nothing obliges the script to raise, or
\* the cluster to do anything.
FairSpec == Spec /\ WF_vars(Proceed) /\ WF_vars(Deadline)

-----------------------------------------------------------------------------
(* Properties.                                                              *)

\* Every variable has its type, and slots are active for a job with tasks only.
TypeOK ==
  /\ state \in [Jobs -> {"NONE", "RUNNING", "DEPLOYING", "FAILED"}]
  /\ attempts \in [Jobs -> 0..MaxAttempts] /\ before \in [Jobs -> 0..MaxAttempts]
  /\ completed \in [Jobs -> 0..MaxCheckpoints] /\ floor \in 0..MaxCheckpoints
  /\ alive \subseteq Jobs /\ holder \in alive \cup {Nobody}
  /\ at \in 0..Len(Scenarios) /\ failures \in 0..Len(Scenarios)
  /\ pc \in Ended \cup {"jobs", "slots", "initial", "baseline", "waiting", "restarting",
                        "resubmitting", "validating"}
  /\ running \subseteq Jobs /\ initial \in 0..MaxCheckpoints
  /\ timeUp \in BOOLEAN /\ resubmitted \in BOOLEAN

\* Data are validated only after the job has recovered: since the TaskManager or
\* the JobManager was restarted, a job was deployed anew, even when /jobs/overview
\* went on saying RUNNING for a while.
RecoverySeen ==
  pc = "validating" /\ Scenarios[at] \in {"taskmanager", "jobmanager"} =>
    \E j \in Jobs : attempts[j] > before[j]

\* The scripts never have two jobs in the cluster, competing for the nine slots:
\* the submitter is started only when the old job is gone.
NoSecondJob == Cardinality({j \in Jobs : state[j] \in {"RUNNING", "DEPLOYING"}}) <= 1

\* "CDC stack verification passed." was printed after a checkpoint that completed
\* later than the job was seen running with all its slots.
PassNeedsNewCheckpoint ==
  script = "verify_stack" /\ pc = "pass" => completed[path[1]] > floor

\* Every script comes to a verdict, whatever becomes of the job.
VerdictReached == <>(pc \in Ended)

\* "prove a completed checkpoint exists in MinIO before restart": a job that runs,
\* has its slots and has completed a checkpoint is not turned down as the baseline.
HealthyBaselineAccepted ==
  script = "flink_recovery" /\ pc = "fail" /\ floor > 0 =>
    reason \in {"raised", "not ready"}
=============================================================================
