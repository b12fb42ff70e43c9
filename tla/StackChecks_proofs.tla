---------------------------- MODULE StackChecks_proofs ----------------------------
(* Any number of jobs, attempts and checkpoints: what the scripts' verdicts rest on. *)
EXTENDS StackChecks, FiniteSetTheorems, TLAPS

(* The parts of the inductive invariant. *)

Types ==
  /\ state \in [Jobs -> {"NONE", "RUNNING", "DEPLOYING", "FAILED"}]
  /\ attempts \in [Jobs -> 0..MaxAttempts] /\ before \in [Jobs -> 0..MaxAttempts]
  /\ completed \in [Jobs -> 0..MaxCheckpoints] /\ floor \in 0..MaxCheckpoints
  /\ alive \subseteq Jobs /\ holder \in alive \cup {Nobody}
  /\ at \in 0..4 /\ failures \in 0..4
  /\ pc \in {"pass", "fail", "jobs", "slots", "initial", "baseline", "waiting", "restarting",
             "resubmitting", "validating"}
  /\ running \subseteq Jobs /\ initial \in 0..MaxCheckpoints
  /\ script \in {"verify_stack", "fault_tolerance", "flink_recovery"}

\* Each script has steps of its own, and the last scenario ends it.
Steps ==
  /\ pc \in {"initial", "waiting"} => script = "verify_stack"
  /\ pc = "baseline" => script = "flink_recovery"
  /\ pc \in {"restarting", "validating", "resubmitting"} => script = "fault_tolerance"
  /\ at > 0 => script = "fault_tolerance"
  /\ pc \notin Ended => at <= 3 /\ failures <= at
  /\ pc \in {"jobs", "slots", "resubmitting", "validating"} /\ at > 0 => failures < at
  /\ pc \in {"resubmitting", "validating"} => at > 0

Flags == timeUp \in BOOLEAN /\ resubmitted \in BOOLEAN

Active(j) == state[j] \in {"RUNNING", "DEPLOYING"}

\* The submitter finds an empty JobManager: the restart has forgotten every job, and
\* none is there until it is started.
OneJob ==
  /\ \A i, j \in Jobs : Active(i) /\ Active(j) => i = j
  /\ at = 2 /\ ~resubmitted => \A j \in Jobs : state[j] = "NONE"
  /\ pc = "resubmitting" => at = 2 /\ ~resubmitted

\* After a restart of TaskManager or JobManager, only jobs deployed since have tasks.
Redeployed ==
  /\ \A j \in Jobs : before[j] <= attempts[j]
  /\ at \in {1, 2} => \A j \in alive : attempts[j] > before[j]
  /\ at \in {1, 2} /\ pc = "validating" => \E j \in Jobs : attempts[j] > before[j]

\* The checkpoints that verify_stack counts are those of the job it saw running.
Counting ==
  script = "verify_stack" /\ pc \in {"initial", "waiting", "pass"} =>
    \E j \in Jobs :
      /\ path = <<j>> /\ floor <= completed[j]
      /\ pc = "waiting" => floor <= initial
      /\ pc = "pass" => floor < completed[j]

IInv == Types /\ Steps /\ Flags /\ OneJob /\ Redeployed /\ Counting

-----------------------------------------------------------------------------
\* What the scenarios' numbers say.
LEMMA ScenarioNumbers ==
  /\ Len(Scenarios) = 4
  /\ Scenarios[1] = "taskmanager" /\ Scenarios[2] = "jobmanager"
  /\ Scenarios[3] = "clickhouse" /\ Scenarios[4] = "exporter"
BY DEF Scenarios

LEMMA InitHolds == Init => IInv
<1> SUFFICES ASSUME Init PROVE IInv
  OBVIOUS
<1>1. 1 \in Jobs /\ 1 \in 0..MaxAttempts /\ 0 \in 0..MaxAttempts /\ 0 \in 0..MaxCheckpoints
  BY ChecksAssumption DEF Jobs
<1>2. Types
  <2>1. /\ state \in [Jobs -> {"NONE", "RUNNING", "DEPLOYING", "FAILED"}]
        /\ attempts \in [Jobs -> 0..MaxAttempts] /\ before \in [Jobs -> 0..MaxAttempts]
        /\ completed \in [Jobs -> 0..MaxCheckpoints]
    BY <1>1 DEF Init
  <2> QED
    BY <1>1, <2>1 DEF Init, Types
<1>3. Steps /\ Flags
  <2>1. at = 0 /\ pc = "jobs" /\ failures = 0 /\ timeUp = FALSE /\ resubmitted = FALSE
    BY DEF Init
  <2>2. Flags
    BY <2>1, Zenon DEF Flags
  <2> QED
    BY <2>1, <2>2 DEF Steps, Ended
<1>4. OneJob
  BY <1>2 DEF Init, Types, OneJob, Active
<1>5. Redeployed
  BY DEF Init, Redeployed
<1>6. Counting
  BY DEF Init, Counting
<1> QED
  BY <1>2, <1>3, <1>4, <1>5, <1>6 DEF IInv

\* A step of the cluster leaves the script alone.
LEMMA ClusterKeeps ==
  ASSUME IInv, NEW j \in Jobs, Cluster(j)
  PROVE  IInv'
<1>0. UNCHANGED test /\ MaxAttempts \in Nat /\ MaxCheckpoints \in Nat
  BY ChecksAssumption DEF Cluster, TakeCheckpoint, TasksFail, NoticeLoss, Deploy, GiveUp, Attach
<1>1. Steps' /\ Flags'
  BY <1>0 DEF IInv, Steps, Flags, test
<1>2. Types'
  <2>1. CASE TakeCheckpoint(j)
    BY <1>0, <2>1 DEF TakeCheckpoint, IInv, Types, test
  <2>2. CASE TasksFail(j)
    BY <2>2 DEF TasksFail, LoseTasks, IInv, Types, test, Nobody
  <2>3. CASE NoticeLoss(j) \/ GiveUp(j) \/ Attach(j)
    BY <2>3 DEF NoticeLoss, GiveUp, Attach, IInv, Types, test
  <2>4. CASE Deploy(j)
    BY <1>0, <2>4 DEF Deploy, IInv, Types, test
  <2> QED
    BY <2>1, <2>2, <2>3, <2>4 DEF Cluster
<1>3. OneJob'
  <2>1. \A i \in Jobs : (Active(i)' => Active(i)) /\ (state[i] = "NONE" => state'[i] = "NONE")
    BY DEF IInv, Types, Active, Cluster, TakeCheckpoint, TasksFail, NoticeLoss, Deploy, GiveUp, Attach
  <2> QED
    BY <1>0, <2>1 DEF IInv, OneJob, test
<1>4. Redeployed'
  <2>1. \A i \in Jobs : attempts'[i] >= attempts[i]
    BY <1>0 DEF IInv, Types, Cluster, TakeCheckpoint, TasksFail, NoticeLoss, Deploy, GiveUp, Attach
  <2>2. \A i \in alive' : i \in alive \/ attempts'[i] > attempts[i]
    BY <1>0 DEF IInv, Types, Cluster, TakeCheckpoint, TasksFail, NoticeLoss, Deploy, GiveUp, Attach,
      LoseTasks
  <2>3. \A i \in Jobs : attempts[i] \in Nat /\ before[i] \in Nat /\ attempts'[i] \in Nat
    BY <1>0, <1>2 DEF IInv, Types
  <2> QED
    BY <1>0, <1>2, <2>1, <2>2, <2>3 DEF IInv, Types, Redeployed, test
<1>5. Counting'
  <2>1. \A i \in Jobs : completed'[i] >= completed[i] /\ completed[i] \in Nat /\ completed'[i] \in Nat
    BY <1>0, <1>2 DEF IInv, Types, Cluster, TakeCheckpoint, TasksFail, NoticeLoss, Deploy, GiveUp, Attach
  <2> QED
    BY <1>0, <2>1 DEF IInv, Types, Counting, test
<1> QED
  BY <1>1, <1>2, <1>3, <1>4, <1>5 DEF IInv

\* A failure ends the script; a deadline is only noted; jobs are only read.
LEMMA NotesKeep ==
  ASSUME IInv, Raise \/ Deadline \/ ReadJobs
  PROVE  IInv'
<1>1. CASE Raise
  BY <1>1 DEF Raise, Fail, IInv, Types, Steps, Flags, OneJob, Active, Redeployed, Counting, Ended,
    cluster
<1>2. CASE Deadline
  BY <1>2 DEF Deadline, IInv, Types, Steps, Flags, OneJob, Active, Redeployed, Counting, Ended,
    cluster
<1>3. CASE ReadJobs
  BY <1>3 DEF ReadJobs, IInv, Types, Steps, Flags, OneJob, Active, Redeployed, Counting, Ended,
    cluster
<1> QED
  BY <1>1, <1>2, <1>3

\* A script goes on when a job runs and has the slots: after a restart of the tasks, one
\* that was deployed since.
LEMMA ReadSlotsKeeps ==
  ASSUME IInv, ReadSlots
  PROVE  IInv'
<1>0. pc = "slots" /\ UNCHANGED <<cluster, script, at, running, initial, timeUp, resubmitted, failures, before>>
  BY DEF ReadSlots
<1>1. CASE Ready
  <2> DEFINE j == CHOOSE i \in running : TRUE
  <2>1. j \in Jobs
    <3>1. running # {}
      BY <1>1, FS_EmptySet DEF Ready
    <3> QED
      BY <3>1 DEF IInv, Types
  <2>2. floor' = completed[j] /\ Verified
    BY <1>0, <1>1 DEF ReadSlots, Verified
  <2>3. \/ script = "verify_stack" /\ pc' = "initial" /\ path' = <<j>>
        \/ script = "flink_recovery" /\ pc' = "baseline"
        \/ script = "fault_tolerance" /\ pc' = IF at = 0 THEN "restarting" ELSE "validating"
    BY <2>2 DEF Verified, IInv, Types
  <2>4. Types'
    BY <1>0, <2>1, <2>2, <2>3 DEF IInv, Types, cluster
  <2>5. Steps' /\ Flags'
    BY <1>0, <2>3 DEF IInv, Types, Steps, Flags, Ended
  <2>6. OneJob'
    BY <1>0, <2>3 DEF IInv, OneJob, Active, cluster
  <2>7. Redeployed'
    <3>1. holder \in alive /\ alive \subseteq Jobs
      BY <1>1 DEF Ready, IInv, Types
    <3> QED
      BY <1>0, <3>1 DEF IInv, Redeployed, cluster
  <2>8. Counting'
    <3>1. floor' <= completed'[j]
      BY <1>0, <2>1, <2>2, ChecksAssumption DEF IInv, Types, cluster
    <3> QED
      BY <1>0, <2>1, <2>3, <3>1 DEF Counting
  <2> QED
    BY <2>4, <2>5, <2>6, <2>7, <2>8 DEF IInv
<1>2. CASE ~Ready
  <2>1. /\ UNCHANGED <<path, floor>>
        /\ pc' \in {"jobs", "fail"} \/ (pc' = "resubmitting" /\ MayResubmit)
    BY <1>0, <1>2 DEF ReadSlots, Fail
  <2>2. MayResubmit => at = 2 /\ ~resubmitted
    BY ScenarioNumbers DEF MayResubmit, IInv, Types
  <2>3. Types' /\ Flags'
    BY <1>0, <2>1 DEF IInv, Types, Flags, cluster
  <2>4. Steps'
    BY <1>0, <2>1, <2>2 DEF IInv, Types, Steps, Ended
  <2>5. OneJob' /\ Redeployed'
    BY <1>0, <2>1, <2>2 DEF IInv, OneJob, Active, Redeployed, cluster
  <2>6. Counting'
    BY <1>0, <2>1 DEF Counting
  <2> QED
    BY <2>3, <2>4, <2>5, <2>6 DEF IInv
<1> QED
  BY <1>1, <1>2

\* The checkpoints of verify_stack's job, before and after.
LEMMA CheckpointsKeep ==
  ASSUME IInv, ReadInitial \/ AwaitCheckpoint \/ CountBaseline
  PROVE  IInv'
<1>0. UNCHANGED <<cluster, script, at, running, path, resubmitted, failures, before, floor>>
  BY DEF ReadInitial, AwaitCheckpoint, CountBaseline
<1>1. CASE ReadInitial
  <2>1. pc = "initial" /\ pc' = "waiting" /\ initial' = completed[path[1]] /\ timeUp' = FALSE
    BY <1>1 DEF ReadInitial, StartWait, Count
  <2>2. PICK j \in Jobs : path = <<j>> /\ floor <= completed[j]
    BY <2>1 DEF IInv, Steps, Counting
  <2>3. initial' = completed[j]
    BY <2>1, <2>2
  <2>4. Types'
    BY <1>0, <2>1, <2>2, <2>3 DEF IInv, Types, cluster
  <2>5. Steps' /\ Flags'
    BY <1>0, <2>1 DEF IInv, Steps, Flags, Ended
  <2>6. OneJob' /\ Redeployed'
    BY <1>0, <2>1 DEF IInv, OneJob, Active, Redeployed, cluster
  <2>7. Counting'
    BY <1>0, <2>1, <2>2, <2>3 DEF Counting, cluster
  <2> QED
    BY <2>4, <2>5, <2>6, <2>7 DEF IInv
<1>2. CASE AwaitCheckpoint
  <2>1. /\ pc = "waiting" /\ UNCHANGED <<initial, timeUp>>
        /\ (pc' = "pass" /\ completed[path[1]] > initial) \/ pc' = "fail"
    BY <1>2 DEF AwaitCheckpoint, Continues, Count, Fail
  <2>2. PICK j \in Jobs : path = <<j>> /\ floor <= completed[j] /\ floor <= initial
    BY <2>1 DEF IInv, Steps, Counting
  <2>3. pc' = "pass" => completed[j] > floor
    BY <2>1, <2>2, ChecksAssumption DEF IInv, Types
  <2>4. Types' /\ Flags'
    BY <1>0, <2>1 DEF IInv, Types, Flags, cluster
  <2>5. Steps'
    BY <1>0, <2>1 DEF IInv, Steps, Ended
  <2>6. OneJob' /\ Redeployed'
    BY <1>0, <2>1 DEF IInv, OneJob, Active, Redeployed, cluster
  <2>7. Counting'
    BY <1>0, <2>1, <2>2, <2>3 DEF Counting, cluster
  <2> QED
    BY <2>4, <2>5, <2>6, <2>7 DEF IInv
<1>3. CASE CountBaseline
  <2>1. pc = "baseline" /\ UNCHANGED <<initial, timeUp>> /\ pc' \in {"pass", "fail"}
    BY <1>3 DEF CountBaseline, Fail
  <2>2. script # "verify_stack"
    BY <2>1 DEF IInv, Steps
  <2>3. Types' /\ Flags'
    BY <1>0, <2>1 DEF IInv, Types, Flags, cluster
  <2>4. Steps'
    BY <1>0, <2>1 DEF IInv, Steps, Ended
  <2>5. OneJob' /\ Redeployed' /\ Counting'
    BY <1>0, <2>1, <2>2 DEF IInv, OneJob, Active, Redeployed, Counting, cluster
  <2> QED
    BY <2>3, <2>4, <2>5 DEF IInv
<1> QED
  BY <1>1, <1>2, <1>3

\* A restart takes the tasks, or the jobs with them, and is remembered by the attempts.
LEMMA RestartKeeps ==
  ASSUME IInv, RestartContainer
  PROVE  IInv'
<1>0. /\ pc = "restarting" /\ at' = at + 1 /\ before' = attempts /\ resubmitted' = FALSE
      /\ script = "fault_tolerance" /\ at \in {0, 1, 2, 3} /\ failures <= at
      /\ UNCHANGED <<attempts, completed, script, running, path, initial, failures, floor>>
  BY DEF RestartContainer, IInv, Steps, Types, Ended
<1>1. /\ at' \in {1, 2} => alive' = {} /\ holder' = Nobody
      /\ at' = 2 => state' = [j \in Jobs |-> "NONE"]
      /\ at' # 2 => state' = state
      /\ at' \notin {1, 2} => UNCHANGED <<alive, holder>>
  BY <1>0, ScenarioNumbers DEF RestartContainer, LoseTasks, IInv, Types
<1>2. /\ at' = 4 => pc' \in Ended /\ timeUp' = timeUp
      /\ at' # 4 => pc' = "jobs" /\ timeUp' = FALSE
  BY <1>0, ScenarioNumbers DEF RestartContainer, StartWait, Ended
<1>3. Types'
  <2>1. state' \in [Jobs -> {"NONE", "RUNNING", "DEPLOYING", "FAILED"}]
    BY <1>1 DEF IInv, Types
  <2>2. alive' \subseteq Jobs /\ holder' \in alive' \cup {Nobody}
    BY <1>1 DEF IInv, Types
  <2> QED
    BY <1>0, <1>2, <2>1, <2>2 DEF IInv, Types, Ended
<1>4. Steps'
  BY <1>0, <1>2 DEF IInv, Types, Steps, Ended
<1>5. Flags'
  BY <1>0, <1>2 DEF IInv, Flags
<1>6. OneJob'
  BY <1>0, <1>1, <1>2 DEF IInv, OneJob, Active, Ended
<1>7. Redeployed'
  BY <1>0, <1>1, <1>2, ChecksAssumption DEF IInv, Types, Redeployed, Ended
<1>8. Counting'
  BY <1>0 DEF Counting
<1> QED
  BY <1>3, <1>4, <1>5, <1>6, <1>7, <1>8 DEF IInv

\* The submitter starts its job where there is none.
LEMMA ResubmitKeeps ==
  ASSUME IInv, Resubmit
  PROVE  IInv'
<1>1. PICK j \in Jobs : state' = [state EXCEPT ![j] = "DEPLOYING"]
  BY DEF Resubmit
<1>2. /\ pc = "resubmitting" /\ pc' = "jobs" /\ resubmitted' = TRUE /\ timeUp' = FALSE
      /\ UNCHANGED <<attempts, completed, alive, holder, script, at, running, path, initial,
                     failures, before, floor>>
  BY DEF Resubmit, StartWait
<1>3. \A i \in Jobs : state[i] = "NONE"
  BY <1>2 DEF IInv, OneJob
<1>4. Types' /\ Flags'
  BY <1>1, <1>2 DEF IInv, Types, Flags
<1>5. Steps'
  BY <1>2 DEF IInv, Steps, Ended
<1>6. OneJob'
  BY <1>1, <1>2, <1>3 DEF IInv, Types, OneJob, Active
<1>7. Redeployed' /\ Counting'
  BY <1>2 DEF IInv, Redeployed, Counting
<1> QED
  BY <1>4, <1>5, <1>6, <1>7 DEF IInv

\* A scenario's validation fails at most once.
LEMMA ValidateKeeps ==
  ASSUME IInv, Validate
  PROVE  IInv'
<1>1. /\ pc = "validating" /\ pc' = "restarting" /\ failures' \in {failures, failures + 1}
      /\ failures < at /\ at <= 3
      /\ UNCHANGED <<cluster, script, at, running, path, initial, timeUp, resubmitted, before, floor>>
  BY DEF Validate, IInv, Steps, Ended
<1>2. Types' /\ Flags'
  BY <1>1 DEF IInv, Types, Flags, cluster
<1>3. Steps'
  BY <1>1 DEF IInv, Types, Steps, Ended
<1>4. OneJob' /\ Redeployed' /\ Counting'
  BY <1>1 DEF IInv, OneJob, Active, Redeployed, Counting, cluster
<1> QED
  BY <1>2, <1>3, <1>4 DEF IInv

LEMMA NextKeeps == IInv /\ [Next]_vars => IInv'
<1> SUFFICES ASSUME IInv, [Next]_vars PROVE IInv'
  OBVIOUS
<1>1. CASE UNCHANGED vars
  BY <1>1 DEF vars, IInv, Types, Steps, Flags, OneJob, Active, Redeployed, Counting
<1> QED
  BY <1>1, ClusterKeeps, NotesKeep, ReadSlotsKeeps, CheckpointsKeep, RestartKeeps, ResubmitKeeps,
    ValidateKeeps DEF Next, Proceed

LEMMA Invariance == Spec => []IInv
BY InitHolds, NextKeeps, PTL DEF Spec

\* The types, for any bounds; slots are active for a job with tasks only.
THEOREM ChecksTypeCorrect == Spec => []TypeOK
<1>1. IInv => TypeOK
  BY ScenarioNumbers DEF IInv, Types, Flags, TypeOK, Ended
<1> QED
  BY <1>1, Invariance, PTL

\* A restart of TaskManager or JobManager is judged only on a job deployed after it.
THEOREM RecoveryIsSeen == Spec => []RecoverySeen
<1>1. IInv => RecoverySeen
  <2> SUFFICES ASSUME IInv, pc = "validating", Scenarios[at] \in {"taskmanager", "jobmanager"}
               PROVE  \E j \in Jobs : attempts[j] > before[j]
    BY DEF RecoverySeen
  <2>1. at \in {1, 2}
    BY ScenarioNumbers DEF IInv, Types, Steps, Ended
  <2> QED
    BY <2>1 DEF IInv, Redeployed
<1> QED
  BY <1>1, Invariance, PTL

\* The scripts never bring about a second job.
THEOREM NeverASecondJob == Spec => []NoSecondJob
<1>1. IInv => NoSecondJob
  <2> SUFFICES ASSUME IInv PROVE NoSecondJob
    OBVIOUS
  <2> DEFINE Some == {j \in Jobs : state[j] \in {"RUNNING", "DEPLOYING"}}
  <2>1. CASE Some = {}
    BY <2>1, FS_EmptySet DEF NoSecondJob
  <2>2. CASE Some # {}
    <3>1. PICK j \in Some : TRUE
      BY <2>2
    <3>2. Some = {j}
      BY <3>1 DEF IInv, OneJob, Active
    <3>3. Cardinality(Some) = 1
      BY <3>2, FS_Singleton
    <3> QED
      BY <3>3 DEF NoSecondJob
  <2> QED
    BY <2>1, <2>2
<1> QED
  BY <1>1, Invariance, PTL

\* verify_stack passes only after a checkpoint of the job that it saw running.
THEOREM PassMeansNewCheckpoint == Spec => []PassNeedsNewCheckpoint
<1>1. IInv => PassNeedsNewCheckpoint
  BY ChecksAssumption DEF IInv, Types, Counting, PassNeedsNewCheckpoint
<1> QED
  BY <1>1, Invariance, PTL
=============================================================================
