---------------------------- MODULE PgFailover_proofs ----------------------------
(***************************************************************************)
(* Any number of nodes, lag and changes.  First what the failover test     *)
(* shows when the primary it stops is given the time to stop cleanly; then *)
(* what holds of every run, one whose primary is killed included, in which *)
(* acknowledged changes are lost, logs part and replicas are rewound.      *)
(***************************************************************************)
EXTENDS PgFailover, FiniteSetTheorems, SequenceTheorems, WellFoundedInduction, TLAPS

(* The parts of the inductive invariant.  All but the types are about runs *)
(* in which no node was killed.                                            *)

Types ==
  /\ history \in Seq(Tables)
  /\ role \in [Nodes -> {"primary", "replica", "down"}]
  /\ key \in Nodes \cup {None} /\ routed \in Nodes \cup {None}
  /\ at \in 1..15 /\ asked \in 0..Len(Endpoints)
  /\ status \in {"running", "PASS", "FAIL"}
  /\ tookOver \in Int

\* A log is the history up to some change: nothing ever parted two of them.
Logs ==
  /\ wal \in [Nodes -> Seq(Nat)]
  /\ \A n \in Nodes :
       Len(wal[n]) <= Len(history) /\ \A i \in 1..Len(wal[n]) : wal[n][i] = i

\* The holder of the key is the one primary and has every change; while the key is
\* free, every node has.
Leader ==
  /\ \A n \in Nodes : Primary(n) <=> n = key
  /\ \A n \in Nodes : n = key \/ key = None => Len(wal[n]) = Len(history)

\* Until the test stops it, the primary stays the one that it was.
BeforeStop ==
  /\ status = "running" /\ at <= 6 =>
       /\ key = First /\ tookOver = Never /\ ~stopped
       /\ \A n \in Nodes : role[n] # "down"
       /\ IF at = 1 THEN seen \subseteq {First} ELSE before = First /\ seen = {}

\* After it, a key that is taken was taken by another node, and the script knows of a
\* new primary only then.
AfterStop ==
  /\ stopped => before \in Nodes /\ role[before] = "down"
  /\ status # "FAIL" /\ at >= 7 /\ (tookOver = Never \/ seen # {}) =>
       at = 7 /\ status = "running" /\ (tookOver = Never => key = None /\ seen = {})

\* The second probe is younger than the promotion.
Probed ==
  /\ tookOver <= Len(history)
  /\ buf \cup ch \subseteq 1..Len(history)
  /\ status = "PASS" => at >= 13
  /\ status # "FAIL" /\ at >= 12 =>
       \E c \in 1..Len(history) : probe = {c} /\ c > tookOver /\ (at > 12 => c \in ch)

\* PostgreSQL's count is that of all rows as long as none is written.
Counted ==
  quiet /\ at >= 14 =>
    /\ counted = Compared(DOMAIN history)
    /\ at = 15 => Compared(DOMAIN history) \subseteq ch

Clean == Logs /\ Leader /\ BeforeStop /\ AfterStop /\ Probed /\ Counted
IInv == Types /\ (~killed => Clean)

-----------------------------------------------------------------------------
\* The numbers of the steps.
LEMMA StepNumbers ==
  ASSUME Types
  PROVE  /\ Len(Steps) = 14
         /\ Doing("primary") => status = "running" /\ at = 1
         /\ Doing("stop") => status = "running" /\ at = 6
         /\ Doing("promotion") => status = "running" /\ at = 7
         /\ Doing("probe") => status = "running" /\ at \in {4, 11}
         /\ Doing("arrival") => status = "running" /\ at \in {5, 12}
         /\ Doing("write") => status = "running" /\ at \in {2, 8}
         /\ Doing("flink") => status = "running" /\ at \in {3, 9}
         /\ Doing("slots") => status = "running" /\ at = 10
         /\ Doing("count") => status = "running" /\ at = 13
         /\ Doing("compare") => status = "running" /\ at = 14
<1>1. at \in {1, 2, 3, 4, 5, 6, 7, 8, 9, 10, 11, 12, 13, 14, 15}
  BY DEF Types
<1> QED
  BY <1>1 DEF Doing, Steps

\* What a script that asks every node is told.
LEMMA EndpointsAreNodes ==
  Endpoints \in Seq(Nodes) /\ \A i \in 1..Len(Endpoints) : Endpoints[i] \in Nodes
BY FailoverAssumption DEF Nodes, ToSet

\* Nothing parts the logs, so that no replica is ever rewound.
LEMMA NoLogsPart ==
  ASSUME Types, Logs, Leader, NEW n \in Nodes, NEW p \in Nodes, Primary(p)
  PROVE  IsPrefix(wal[n], wal[p])
<1>1. wal[n] \in Seq(Nat) /\ wal[p] \in Seq(Nat) /\ Len(wal[n]) <= Len(wal[p])
  BY DEF Types, Logs, Leader
<1> DEFINE k == Len(wal[n])
<1>2. k \in Nat /\ \A i \in 1..k : wal[n][i] = i /\ wal[p][i] = i
  BY <1>1 DEF Logs
<1>3. SubSeq(wal[n], 1, k) \in Seq(Nat) /\ Len(SubSeq(wal[n], 1, k)) = k
      /\ \A i \in 1..k : SubSeq(wal[n], 1, k)[i] = i
  BY <1>1, <1>2
<1>4. SubSeq(wal[p], 1, k) \in Seq(Nat) /\ Len(SubSeq(wal[p], 1, k)) = k
      /\ \A i \in 1..k : SubSeq(wal[p], 1, k)[i] = i
  BY <1>1, <1>2
<1>5. SubSeq(wal[n], 1, k) = SubSeq(wal[p], 1, k)
  BY <1>3, <1>4, SeqEqual
<1> QED
  BY <1>1, <1>5 DEF IsPrefix

-----------------------------------------------------------------------------
(* Types.                                                                    *)

LEMMA InitHolds == Init => IInv
<1> SUFFICES ASSUME Init PROVE IInv
  OBVIOUS
<1>1. First \in Nodes /\ None \notin Nodes
  BY FailoverAssumption
<1>2. Len(Endpoints) \in Nat /\ history = <<>> /\ wal = [n \in Nodes |-> <<>>]
      /\ Len(<<>>) = 0 /\ <<>> \in Seq(Tables) /\ <<>> \in Seq(Nat)
  BY EndpointsAreNodes DEF Init
<1>3. Types
  BY <1>1, <1>2 DEF Init, Types, Never
<1>4. Logs
  BY <1>2 DEF Logs
<1>5. Leader
  BY <1>1, <1>2 DEF Init, Leader, Primary
<1>6. BeforeStop /\ AfterStop /\ Probed /\ Counted
  BY <1>1, <1>2 DEF Init, BeforeStop, AfterStop, Probed, Counted, Never
<1> QED
  BY <1>3, <1>4, <1>5, <1>6 DEF IInv, Clean

\* A commit keeps the history a sequence of tables.
LEMMA CommitGrows ==
  ASSUME Types, NEW t \in Tables, Commit(t)
  PROVE  /\ history' \in Seq(Tables) /\ Len(history') = Len(history) + 1
         /\ DOMAIN history = 1..Len(history) /\ routed \in Nodes /\ Primary(routed)
BY DEF Types, Commit, Writable

LEMMA TypesKept == Types /\ [Next]_vars => Types'
<1> SUFFICES ASSUME Types, [Next]_vars PROVE Types'
  OBVIOUS
<1>0. Len(Endpoints) \in Nat /\ Len(history) \in Nat /\ -1 \in Int
  BY EndpointsAreNodes DEF Types
<1> USE DEF Types
<1>1. CASE Workload
  BY <1>1, CommitGrows DEF Workload, Commit, script, flink, Tables
<1>2. CASE Elect
  <2>1. CASE Expire
    BY <2>1 DEF Expire, script
  <2>2. CASE Route
    <3>1. routed' \in Nodes \cup {None}
      BY <2>2 DEF Route
    <3> QED
      BY <2>2, <3>1 DEF Route, script
  <2>3. ASSUME NEW n \in Nodes, Promote(n) PROVE Types'
    BY <1>0, <2>3 DEF Promote, script
  <2> QED
    BY <1>2, <2>1, <2>2, <2>3 DEF Elect
<1>3. CASE \E n, p \in Nodes : Replicate(n, p) \/ Rewind(n, p)
  BY <1>3 DEF Replicate, Rewind, script
<1>4. CASE Pipeline
  BY <1>4 DEF Pipeline, Deploy, GiveUp, Attach, Read, Checkpoint, Fail, Deliver, script, database
<1>5. CASE Abort
  BY <1>0, <1>5 DEF Abort, database, Never
<1>6. CASE RunTest
  <2>1. CASE AskNode
    BY <1>0, <2>1 DEF AskNode, database, Never
  <2>2. CASE CurrentPrimary \/ WaitForNewPrimary
    BY <1>0, <1>5, <2>2, StepNumbers DEF CurrentPrimary, WaitForNewPrimary, world, database, Advance
  <2>3. CASE Await
    BY <2>3, StepNumbers DEF Await, world, database, Advance
  <2>4. CASE InsertProbe
    <3>1. CASE Commit("cdc_latency_probe") /\ Advance /\ UNCHANGED <<asked, stopped>> /\ Doing("probe")
      BY <3>1, CommitGrows, StepNumbers DEF Commit, Advance, Tables
    <3>2. CASE Abort
      BY <3>2, <1>5
    <3> QED
      BY <2>4, <3>1, <3>2 DEF InsertProbe
  <2>5. CASE StopPrimary
    <3>1. /\ role' = [role EXCEPT ![before] = "down"] /\ key' \in {key, None}
          /\ at' = at + 1 /\ at = 6
          /\ UNCHANGED <<history, routed, asked, status, tookOver>>
      <4>1. key' \in {key, None} /\ role' = [role EXCEPT ![before] = "down"]
        BY <2>5 DEF StopPrimary, Leave, StopCleanly, Kill
      <4>2. at = 6
        BY <2>5, StepNumbers DEF StopPrimary
      <4> QED
        BY <2>5, <4>1, <4>2 DEF StopPrimary, Advance
    <3>2. role' \in [Nodes -> {"primary", "replica", "down"}]
      BY <3>1
    <3>3. key' \in Nodes \cup {None}
      BY <3>1
    <3> QED
      BY <3>1, <3>2, <3>3
  <2>6. CASE CountPostgres \/ CompareCounts
    BY <2>6, StepNumbers DEF CountPostgres, CompareCounts, world, database, Advance
  <2>7. CASE Pass \/ Restore
    BY <2>7 DEF Pass, Restore, Return, world, database
  <2> QED
    BY <1>6, <2>1, <2>2, <2>3, <2>4, <2>5, <2>6, <2>7 DEF RunTest
<1>7. CASE UNCHANGED vars
  BY <1>7 DEF vars, database, script
<1> QED
  BY <1>1, <1>2, <1>3, <1>4, <1>5, <1>6, <1>7 DEF Next, Cluster, TimeOut, Raise

-----------------------------------------------------------------------------
(* Runs without a killed node: what the cluster and the job do.              *)

\* Steps that leave PostgreSQL's state, the script and ClickHouse alone.
LEMMA QuietStepKeeps ==
  ASSUME Clean, buf' \subseteq buf,
         UNCHANGED <<history, wal, role, key, ch, at, seen, before, stopped, probe, counted,
                     status, tookOver, quiet>>
  PROVE  Clean'
<1>1. Logs'
  BY DEF Clean, Logs
<1>2. Leader'
  BY DEF Clean, Leader, Primary
<1>3. BeforeStop' /\ AfterStop'
  BY DEF Clean, BeforeStop, AfterStop
<1>4. Probed'
  BY DEF Clean, Probed
<1>5. Counted'
  BY DEF Clean, Counted, Compared
<1> QED
  BY <1>1, <1>2, <1>3, <1>4, <1>5 DEF Clean

\* The sources read no further than the history; the sinks write what they read.
LEMMA PipelineKeeps ==
  ASSUME Types, Clean, Pipeline
  PROVE  Clean'
<1>1. CASE Deploy \/ GiveUp \/ Attach \/ Checkpoint \/ Fail
  <2>1. buf' \subseteq buf /\
        UNCHANGED <<history, wal, role, key, ch, at, seen, before, stopped, probe, counted,
                    status, tookOver, quiet>>
    BY <1>1 DEF Deploy, GiveUp, Attach, Checkpoint, Fail, database, script
  <2> QED
    BY <2>1, QuietStepKeeps
<1>2. CASE Read \/ \E t \in Tables : Deliver(t)
  <2>1. /\ UNCHANGED <<history, wal, role, key, at, seen, before, stopped, probe, counted,
                       status, tookOver, quiet>>
        /\ ch \subseteq ch'
    BY <1>2 DEF Read, Deliver, database, script
  <2>2. buf' \cup ch' \subseteq 1..Len(history)
    <3>1. CASE Read
      <4>1. \A i \in DOMAIN wal[on] : wal[on][i] \in 1..Len(history)
        BY <3>1 DEF Types, Clean, Logs, Read
      <4> QED
        BY <3>1, <4>1 DEF Read, Changes, Clean, Probed
    <3>2. CASE \E t \in Tables : Deliver(t)
      BY <3>2 DEF Deliver, Clean, Probed
    <3> QED
      BY <1>2, <3>1, <3>2
  <2>3. Logs' /\ Leader'
    BY <2>1 DEF Clean, Logs, Leader, Primary
  <2>4. BeforeStop' /\ AfterStop'
    BY <2>1 DEF Clean, BeforeStop, AfterStop
  <2>5. Probed'
    BY <2>1, <2>2 DEF Clean, Probed
  <2>6. Counted'
    BY <2>1 DEF Clean, Counted, Compared
  <2> QED
    BY <2>3, <2>4, <2>5, <2>6 DEF Clean
<1> QED
  BY <1>1, <1>2 DEF Pipeline

\* The key of a running leader does not expire; a free key is taken by a full node.
LEMMA ElectKeeps ==
  ASSUME Types, Clean, Elect
  PROVE  Clean'
<1>0. None \notin Nodes /\ First \in Nodes
  BY FailoverAssumption
<1>1. CASE Expire
  BY <1>1, <1>0 DEF Expire, Clean, Leader, Primary, Types
<1>2. CASE Route
  <2>1. UNCHANGED <<history, wal, role, key, ch, at, seen, before, stopped, probe, counted,
                    status, tookOver, quiet, buf>>
    BY <1>2 DEF Route, script, flink, unread
  <2> QED
    BY <2>1, QuietStepKeeps
<1>3. ASSUME NEW n \in Nodes, Promote(n) PROVE Clean'
  <2>1. key = None /\ role[n] = "replica" /\ \A m \in Nodes : ~Primary(m)
    BY <1>0, <1>3 DEF Promote, Clean, Leader, Primary, Types
  <2>2. /\ key' = n /\ role' = [role EXCEPT ![n] = "primary"]
        /\ tookOver' = IF status = "running" /\ tookOver = Never THEN Len(history) ELSE tookOver
        /\ UNCHANGED <<history, wal, ch, buf, at, seen, before, stopped, probe, counted, status, quiet>>
    BY <1>3 DEF Promote, script, flink, unread
  <2>3. Logs' /\ Counted'
    BY <2>2 DEF Clean, Logs, Counted, Compared
  <2>4. Leader'
    BY <1>0, <2>1, <2>2 DEF Clean, Leader, Primary, Types
  <2>5. ~(status = "running" /\ at <= 6)
    BY <1>0, <2>1 DEF Clean, BeforeStop
  <2>6. BeforeStop'
    BY <2>2, <2>5 DEF BeforeStop
  <2>7. AfterStop'
    BY <2>1, <2>2, <2>5 DEF Clean, AfterStop, Types, Never
  <2>8. Probed'
    BY <2>1, <2>2 DEF Clean, Probed, AfterStop, Types, Never
  <2> QED
    BY <2>3, <2>4, <2>6, <2>7, <2>8 DEF Clean
<1> QED
  BY <1>1, <1>2, <1>3 DEF Elect

\* A replica gets the primary's log; none needs to be rewound.
LEMMA ReplicationKeeps ==
  ASSUME Types, Clean, NEW n \in Nodes, NEW p \in Nodes, Replicate(n, p) \/ Rewind(n, p)
  PROVE  Clean'
<1>1. Replicate(n, p) /\ wal' = [wal EXCEPT ![n] = wal[p]]
      /\ UNCHANGED <<history, role, key, ch, buf, at, seen, before, stopped, probe, counted,
                     status, tookOver, quiet>>
  BY NoLogsPart DEF Replicate, Rewind, Clean, script, flink, unread
<1>2. Primary(p)
  BY <1>1 DEF Replicate
<1>3. Logs'
  BY <1>1 DEF Clean, Logs
<1>4. Leader'
  BY <1>1, <1>2 DEF Clean, Leader, Logs, Primary
<1>5. BeforeStop' /\ AfterStop' /\ Probed' /\ Counted'
  BY <1>1 DEF Clean, BeforeStop, AfterStop, Probed, Counted, Compared
<1> QED
  BY <1>3, <1>4, <1>5 DEF Clean

\* A commit goes to the log of the primary, which had every change before.
LEMMA CommitKeeps ==
  ASSUME Types, Clean, NEW t \in Tables, Commit(t)
  PROVE  /\ Logs' /\ Leader'
         /\ buf' \cup ch' \subseteq 1..Len(history') /\ ch' = ch
         /\ Len(history') = Len(history) + 1 /\ Len(history) \in Nat
         /\ UNCHANGED <<role, key, tookOver>> /\ ~quiet'
<1>1. /\ Len(history') = Len(history) + 1 /\ Len(history) \in Nat
      /\ routed \in Nodes /\ routed = key
  BY CommitGrows DEF Types, Clean, Leader
<1>2. /\ wal' = [wal EXCEPT ![routed] = Append(@, Len(history) + 1)]
      /\ UNCHANGED <<role, key, ch, buf, tookOver>> /\ quiet' = FALSE
  BY DEF Commit, flink, unread
<1>3. Len(wal[routed]) = Len(history) /\ wal[routed] \in Seq(Nat)
      /\ \A i \in 1..Len(wal[routed]) : wal[routed][i] = i
  BY <1>1 DEF Clean, Leader, Logs
<1>4. /\ wal'[routed] \in Seq(Nat) /\ Len(wal'[routed]) = Len(history) + 1
      /\ \A i \in 1..(Len(history) + 1) : wal'[routed][i] = i
  <2>1. wal'[routed] = Append(wal[routed], Len(history) + 1)
    BY <1>1, <1>2 DEF Clean, Logs
  <2> QED
    BY <1>1, <1>3, <2>1
<1>5. \A n \in Nodes \ {routed} : wal'[n] = wal[n]
  BY <1>2 DEF Clean, Logs
<1>6. wal' \in [Nodes -> Seq(Nat)]
  BY <1>2, <1>4, <1>5 DEF Clean, Logs
<1>7. Logs'
  <2>1. ASSUME NEW n \in Nodes
        PROVE  Len(wal'[n]) <= Len(history') /\ \A i \in 1..Len(wal'[n]) : wal'[n][i] = i
    <3>1. CASE n = routed
      BY <1>1, <1>4, <3>1
    <3>2. CASE n # routed
      <4>1. wal'[n] = wal[n] /\ Len(wal[n]) \in Nat /\ Len(wal[n]) <= Len(history)
            /\ \A i \in 1..Len(wal[n]) : wal[n][i] = i
        BY <1>5, <3>2 DEF Clean, Logs
      <4> QED
        BY <1>1, <4>1
    <3> QED
      BY <3>1, <3>2
  <2> QED
    BY <1>6, <2>1 DEF Logs
<1>8. Leader'
  <2>1. key # None /\ \A n \in Nodes : n = key => n = routed
    BY <1>1, FailoverAssumption
  <2>2. \A n \in Nodes : Primary(n)' <=> n = key'
    BY <1>2 DEF Clean, Leader, Primary
  <2> QED
    BY <1>1, <1>2, <1>4, <2>1, <2>2 DEF Leader
<1> QED
  BY <1>1, <1>2, <1>7, <1>8 DEF Clean, Probed

LEMMA WorkloadKeeps ==
  ASSUME Types, Clean, Workload
  PROVE  Clean'
<1>1. /\ Logs' /\ Leader' /\ buf' \cup ch' \subseteq 1..Len(history') /\ ch' = ch
      /\ Len(history') = Len(history) + 1 /\ Len(history) \in Nat
      /\ UNCHANGED <<role, key, tookOver>> /\ ~quiet'
  BY CommitKeeps DEF Workload, Tables
<1>2. UNCHANGED <<at, seen, before, stopped, probe, counted, status>>
  BY DEF Workload, script
<1>3. BeforeStop' /\ AfterStop' /\ Counted'
  BY <1>1, <1>2 DEF Clean, BeforeStop, AfterStop, Counted
<1>4. Probed'
  <2>1. 1..Len(history) \subseteq 1..Len(history')
    BY <1>1
  <2>2. status # "FAIL" /\ at >= 12 =>
          \E c \in 1..Len(history') : probe = {c} /\ c > tookOver /\ (at > 12 => c \in ch)
    BY <2>1 DEF Clean, Probed
  <2>3. tookOver <= Len(history')
    BY <1>1 DEF Clean, Probed, Types
  <2> QED
    BY <1>1, <1>2, <2>2, <2>3 DEF Clean, Probed
<1> QED
  BY <1>1, <1>3, <1>4 DEF Clean

-----------------------------------------------------------------------------
(* Runs without a killed node: the script.                                   *)

\* What a step of the script leaves alone unless it commits or stops a node.
Untouched == UNCHANGED <<history, wal, role, key, buf, ch>>

LEMMA DatabaseKept == ASSUME Clean, Untouched PROVE Logs' /\ Leader'
BY DEF Clean, Logs, Leader, Primary, Untouched

\* After an exception the script judges nothing any more.
LEMMA AbortKeeps ==
  ASSUME Types, Clean, Abort
  PROVE  Clean'
<1>1. Untouched /\ status' = "FAIL" /\ tookOver' = -1 /\ quiet' = FALSE
      /\ stopped' = stopped /\ (stopped => before' = before)
  BY DEF Abort, Untouched, database, flink, unread, Never
<1>2. Logs' /\ Leader'
  BY <1>1, DatabaseKept
<1>3. BeforeStop' /\ Counted'
  BY <1>1 DEF BeforeStop, Counted
<1>4. AfterStop' /\ Probed'
  BY <1>1 DEF Clean, AfterStop, Probed, Untouched, Types
<1> QED
  BY <1>2, <1>3, <1>4 DEF Clean

\* A node that calls itself primary is the holder of the key.
LEMMA AskNodeKeeps ==
  ASSUME Types, Clean, AskNode
  PROVE  Clean'
<1>0. None \notin Nodes
  BY FailoverAssumption
<1> DEFINE n == Endpoints[asked + 1]
<1>1. n \in Nodes /\ at \in {1, 7} /\ status = "running"
  <2>1. asked + 1 \in 1..Len(Endpoints)
    BY EndpointsAreNodes DEF AskNode, Types
  <2> QED
    BY <2>1, EndpointsAreNodes, StepNumbers DEF AskNode
<1>2. /\ Untouched /\ UNCHANGED <<at, before, stopped, probe, counted, status, quiet>>
      /\ seen' = IF Primary(n) THEN seen \cup {n} ELSE seen
      /\ tookOver' = tookOver \/ (tookOver' = Never /\ at = 1)
  BY StepNumbers DEF AskNode, Untouched, database, flink, unread
<1>3. Logs' /\ Leader'
  BY <1>2, DatabaseKept
<1>4. Primary(n) <=> n = key
  BY <1>1 DEF Clean, Leader
<1>5. BeforeStop'
  BY <1>1, <1>2, <1>4 DEF Clean, BeforeStop, Untouched
<1>6. AfterStop'
  BY <1>0, <1>1, <1>2, <1>4 DEF Clean, AfterStop, Untouched
<1>7. Probed' /\ Counted'
  BY <1>1, <1>2 DEF Clean, Probed, Counted, Untouched, Never, Types
<1> QED
  BY <1>3, <1>5, <1>6, <1>7 DEF Clean

\* The primary that the script remembers is the one, and the new one is another.
LEMMA FindPrimaryKeeps ==
  ASSUME Types, Clean, CurrentPrimary \/ WaitForNewPrimary
  PROVE  Clean'
<1>0. Cardinality({}) = 0
  BY FS_EmptySet
<1>1. CASE Abort
  BY <1>1, AbortKeeps
<1>2. CASE CurrentPrimary /\ ~Abort
  <2>1. /\ Untouched /\ at = 1 /\ status = "running" /\ seen # {}
        /\ before' \in seen /\ seen' = {} /\ at' = 2
        /\ UNCHANGED <<stopped, probe, counted, status, quiet, tookOver>>
    <3>1. Doing("primary") /\ Cardinality(seen) = 1 /\ before' = (CHOOSE n \in seen : TRUE)
          /\ seen' = {} /\ Advance /\ UNCHANGED <<world, stopped, probe, counted>>
      BY <1>2 DEF CurrentPrimary
    <3>2. seen # {}
      BY <1>0, <3>1
    <3>3. before' \in seen
      BY <3>1, <3>2
    <3>4. at = 1 /\ status = "running" /\ at' = 2 /\ status' = status
      BY <3>1, StepNumbers DEF Advance
    <3> QED
      BY <3>1, <3>2, <3>3, <3>4 DEF Untouched, world, database, flink, unread
  <2>2. Logs' /\ Leader'
    BY <2>1, DatabaseKept
  <2>3. BeforeStop' /\ AfterStop' /\ Probed' /\ Counted'
    BY <2>1 DEF Clean, BeforeStop, AfterStop, Probed, Counted, Untouched
  <2> QED
    BY <2>2, <2>3 DEF Clean
<1>3. CASE WaitForNewPrimary
  <2>1. /\ Untouched /\ at = 7 /\ status = "running" /\ seen' = {}
        /\ at' = at \/ (at' = 8 /\ seen # {})
        /\ UNCHANGED <<before, stopped, probe, counted, status, quiet, tookOver>>
    <3>1. at = 7 /\ status = "running"
      BY <1>3, StepNumbers DEF WaitForNewPrimary
    <3>2. status' = status /\ (at' = at \/ (at' = at + 1 /\ seen # {}))
      <4>1. (Cardinality(seen) = 1 /\ Advance) \/ UNCHANGED <<at, status>>
        BY <1>3 DEF WaitForNewPrimary
      <4>2. Cardinality(seen) = 1 => seen # {}
        BY <1>0
      <4> QED
        BY <4>1, <4>2 DEF Advance
    <3> QED
      BY <1>3, <3>1, <3>2 DEF WaitForNewPrimary, Untouched, world, database, flink, unread
  <2>2. Logs' /\ Leader'
    BY <2>1, DatabaseKept
  <2>3. BeforeStop' /\ AfterStop'
    BY <2>1 DEF Clean, BeforeStop, AfterStop, Untouched
  <2>4. Probed' /\ Counted'
    BY <2>1 DEF Clean, Probed, Counted, Untouched
  <2> QED
    BY <2>2, <2>3, <2>4 DEF Clean
<1> QED
  BY <1>1, <1>2, <1>3

\* The wait for the second probe ends when ClickHouse has it.
LEMMA AwaitKeeps ==
  ASSUME Types, Clean, Await
  PROVE  Clean'
<1>1. /\ Untouched /\ at \in {2, 3, 5, 8, 9, 10, 12} /\ at' = at + 1 /\ status = "running"
      /\ UNCHANGED <<seen, before, stopped, probe, counted, status, quiet, tookOver>>
  BY StepNumbers DEF Await, Advance, Untouched, world, database, flink, unread
<1>2. at = 12 => probe \cap ch # {}
  BY DEF Await, Awaited, Steps
<1>3. Logs' /\ Leader'
  BY <1>1, DatabaseKept
<1>4. BeforeStop' /\ AfterStop' /\ Counted'
  BY <1>1 DEF Clean, BeforeStop, AfterStop, Counted, Untouched
<1>5. Probed'
  BY <1>1, <1>2 DEF Clean, Probed, Untouched
<1> QED
  BY <1>3, <1>4, <1>5 DEF Clean

\* A probe is the last change; no probe has been lost.
LEMMA InsertProbeKeeps ==
  ASSUME Types, Clean, InsertProbe
  PROVE  Clean'
<1>1. CASE Abort
  BY <1>1, AbortKeeps
<1>2. CASE Commit("cdc_latency_probe") /\ InsertProbe /\ ~Abort
  <2>1. /\ Logs' /\ Leader' /\ buf' \cup ch' \subseteq 1..Len(history') /\ ch' = ch
        /\ Len(history') = Len(history) + 1 /\ Len(history) \in Nat
        /\ UNCHANGED <<role, key, tookOver>> /\ ~quiet'
    BY <1>2, CommitKeeps DEF Tables
  <2>2. DOMAIN history = 1..Len(history) /\ routed \in Nodes /\ Primary(routed)
    BY <1>2, CommitGrows DEF Tables
  <2>3. LostProbes = {}
    <3>1. \A c \in 1..Len(history) : c \in DOMAIN wal[routed] /\ wal[routed][c] = c
      BY <2>1, <2>2 DEF Clean, Leader, Logs
    <3> QED
      BY <2>2, <3>1 DEF LostProbes, ToSet
  <2>4. probe' = {Len(history')} /\ at \in {4, 11} /\ at' = at + 1 /\ status = "running"
        /\ UNCHANGED <<seen, before, stopped, counted, status>>
    <3>1. Doing("probe") /\ Advance /\ UNCHANGED <<asked, seen, before, stopped, counted>>
          /\ \E lost \in {{}} \cup {{c} : c \in LostProbes} : probe' = {Len(history')} \cup lost
      BY <1>2 DEF InsertProbe
    <3> QED
      BY <2>3, <3>1, StepNumbers DEF Advance
  <2>5. BeforeStop' /\ AfterStop' /\ Counted'
    BY <2>1, <2>4 DEF Clean, BeforeStop, AfterStop, Counted
  <2>6. Probed'
    <3>1. Len(history') \in 1..Len(history') /\ Len(history') > tookOver'
      BY <2>1 DEF Clean, Probed, Types
    <3>2. tookOver' <= Len(history')
      BY <2>1 DEF Clean, Probed, Types
    <3>3. status' = "running" /\ at' <= 12
      BY <2>4
    <3> QED
      BY <2>1, <2>4, <3>1, <3>2, <3>3 DEF Probed
  <2> QED
    BY <2>1, <2>5, <2>6 DEF Clean
<1> QED
  BY <1>1, <1>2 DEF InsertProbe

\* A primary that stops cleanly leaves its log to every replica.
LEMMA StopKeeps ==
  ASSUME Types, Clean, StopPrimary, ~killed'
  PROVE  Clean'
<1>0. First \in Nodes /\ None \notin Nodes
  BY FailoverAssumption
<1>1. at = 6 /\ status = "running" /\ at' = 7 /\ status' = status /\ stopped' = TRUE
      /\ before' = before
      /\ UNCHANGED <<history, wal, buf, ch, seen, probe, counted, tookOver, quiet>>
  BY StepNumbers DEF StopPrimary, Advance, unread
<1>2. before = First /\ key = First /\ tookOver = Never /\ seen = {}
      /\ (\A n \in Nodes : role[n] # "down") /\ Primary(First)
  BY <1>0, <1>1 DEF Clean, BeforeStop, Leader
<1>3. /\ \A m \in Nodes : role[m] = "replica" => wal[m] = wal[First]
      /\ key' = None /\ role' = [role EXCEPT ![First] = "down"]
  BY <1>2 DEF StopPrimary, Leave, StopCleanly, Kill
<1>4. \A m \in Nodes : Len(wal[m]) = Len(history)
  <2>1. \A m \in Nodes : m = First \/ role[m] = "replica"
    BY <1>2 DEF Clean, Leader, Primary, Types
  <2> QED
    BY <1>0, <1>2, <1>3, <2>1 DEF Clean, Leader
<1>5. Logs' /\ Counted'
  BY <1>1 DEF Clean, Logs, Counted
<1>6. Leader'
  <2>1. \A n \in Nodes : role'[n] # "primary"
    BY <1>0, <1>2, <1>3 DEF Clean, Leader, Primary, Types
  <2> QED
    BY <1>0, <1>1, <1>3, <1>4, <2>1 DEF Leader, Primary
<1>7. BeforeStop' /\ AfterStop'
  BY <1>0, <1>1, <1>2, <1>3 DEF BeforeStop, AfterStop, Types
<1>8. Probed'
  BY <1>1 DEF Clean, Probed
<1> QED
  BY <1>5, <1>6, <1>7, <1>8 DEF Clean

\* The comparison: equal counts of a set and of one that includes it are equal sets.
LEMMA CompareKeeps ==
  ASSUME Types, Clean, CountPostgres \/ CompareCounts
  PROVE  Clean'
<1>0. DOMAIN history = 1..Len(history) /\ Len(history) \in Nat
  BY DEF Types
<1>1. CASE CountPostgres
  <2>1. /\ Untouched /\ at = 13 /\ at' = 14 /\ status = "running"
        /\ UNCHANGED <<seen, before, stopped, probe, status, tookOver>>
        /\ counted' = Compared(ToSet(wal[routed])) /\ Writable
    BY <1>1, StepNumbers DEF CountPostgres, Advance, Untouched, database, flink, unread
  <2>2. ToSet(wal[routed]) = DOMAIN history
    <3>1. routed \in Nodes /\ Len(wal[routed]) = Len(history) /\ wal[routed] \in Seq(Nat)
          /\ \A c \in 1..Len(history) : wal[routed][c] = c
      BY <2>1 DEF Writable, Types, Clean, Leader, Logs
    <3> QED
      BY <1>0, <3>1 DEF ToSet
  <2>3. Logs' /\ Leader'
    BY <2>1, DatabaseKept
  <2>4. BeforeStop' /\ AfterStop'
    BY <2>1 DEF Clean, BeforeStop, AfterStop, Untouched
  <2>5. Probed'
    BY <2>1 DEF Clean, Probed, Untouched
  <2>6. Counted'
    BY <2>1, <2>2 DEF Counted, Compared, Untouched
  <2> QED
    BY <2>3, <2>4, <2>5, <2>6 DEF Clean
<1>2. CASE CompareCounts
  <2>1. /\ Untouched /\ at = 14 /\ status = "running"
        /\ \/ at' = 15 /\ Cardinality(Compared(ch)) = Cardinality(counted)
           \/ at' = 13
        /\ UNCHANGED <<seen, before, stopped, probe, counted, status, quiet, tookOver>>
    <3>1. at = 14 /\ status = "running"
      BY <1>2, StepNumbers DEF CompareCounts
    <3> QED
      BY <1>2, <3>1 DEF CompareCounts, Advance, Untouched, world, database, flink, unread
  <2>2. ASSUME quiet, at' = 15
        PROVE  counted = Compared(DOMAIN history) /\ Compared(DOMAIN history) \subseteq ch
    <3>1. counted = Compared(DOMAIN history)
      BY <2>1, <2>2 DEF Clean, Counted
    <3>2. Compared(ch) \subseteq counted /\ counted \subseteq 1..Len(history)
      BY <1>0, <3>1 DEF Clean, Probed, Compared
    <3>3. IsFiniteSet(1..Len(history))
      BY <1>0, FS_Interval
    <3>4. IsFiniteSet(counted)
      BY <3>2, <3>3, FS_Subset
    <3>5. Compared(ch) = counted
      BY <2>1, <2>2, <3>2, <3>4, FS_Subset
    <3> QED
      BY <3>1, <3>5 DEF Compared
  <2>3. Logs' /\ Leader'
    BY <2>1, DatabaseKept
  <2>4. BeforeStop' /\ AfterStop'
    BY <2>1 DEF Clean, BeforeStop, AfterStop, Untouched
  <2>5. Probed'
    BY <2>1 DEF Clean, Probed, Untouched
  <2>6. Counted'
    BY <2>1, <2>2 DEF Counted, Compared, Untouched
  <2> QED
    BY <2>3, <2>4, <2>5, <2>6 DEF Clean
<1> QED
  BY <1>1, <1>2

\* The end of the test.
LEMMA EndKeeps ==
  ASSUME Types, Clean, Pass \/ Restore
  PROVE  Clean'
<1>1. CASE Pass
  <2>1. /\ Untouched /\ at \in {13, 15} /\ status = "running" /\ status' = "PASS"
        /\ UNCHANGED <<at, seen, before, stopped, probe, counted, quiet, tookOver>>
    <3>1. Len(Steps) = 14
      BY StepNumbers
    <3>2. at \in {13, 15}
      BY <1>1, <3>1 DEF Pass
    <3> QED
      BY <1>1, <3>2 DEF Pass, Untouched, world, database, flink, unread
  <2>2. Logs' /\ Leader'
    BY <2>1, DatabaseKept
  <2>3. BeforeStop' /\ AfterStop'
    BY <2>1 DEF Clean, BeforeStop, AfterStop, Untouched
  <2>4. Probed'
    BY <2>1 DEF Clean, Probed, Untouched
  <2>5. Counted'
    BY <2>1 DEF Clean, Counted, Compared, Untouched
  <2> QED
    BY <2>2, <2>3, <2>4, <2>5 DEF Clean
<1>2. CASE Restore
  <2>1. /\ status # "running" /\ stopped /\ stopped' = FALSE
        /\ role' = [role EXCEPT ![before] = "replica"]
        /\ UNCHANGED <<history, wal, key, buf, ch, at, seen, probe, counted, status, quiet, tookOver>>
    BY <1>2 DEF Restore, Return, flink, unread
  <2>2. before \in Nodes /\ role[before] = "down"
    BY <2>1 DEF Clean, AfterStop
  <2>3. \A n \in Nodes : Primary(n)' <=> Primary(n)
    BY <2>1, <2>2 DEF Primary, Types
  <2>4. Logs' /\ Leader'
    BY <2>1, <2>3 DEF Clean, Logs, Leader
  <2>5. BeforeStop' /\ AfterStop'
    BY <2>1 DEF Clean, BeforeStop, AfterStop
  <2>6. Probed'
    BY <2>1 DEF Clean, Probed
  <2>7. Counted'
    BY <2>1 DEF Clean, Counted, Compared
  <2> QED
    BY <2>4, <2>5, <2>6, <2>7 DEF Clean
<1> QED
  BY <1>1, <1>2

-----------------------------------------------------------------------------
\* A node that was killed stays so.
LEMMA KilledStays == [Next]_vars => (killed => killed')
<1> SUFFICES ASSUME [Next]_vars, killed PROVE killed'
  OBVIOUS
<1>1. CASE Cluster
  BY <1>1 DEF Cluster, Workload, Commit, Elect, Expire, Route, Promote, Replicate, Rewind
<1>2. CASE Pipeline
  BY <1>2 DEF Pipeline, Deploy, GiveUp, Attach, Read, Checkpoint, Fail, Deliver
<1>3. CASE Abort
  BY <1>3 DEF Abort
<1>4. CASE RunTest
  BY <1>3, <1>4 DEF RunTest, AskNode, CurrentPrimary, WaitForNewPrimary, Await, InsertProbe,
    StopPrimary, CountPostgres, CompareCounts, Pass, Restore, world, Commit, Leave, StopCleanly,
    Kill
<1>5. CASE UNCHANGED vars
  BY <1>5 DEF vars
<1> QED
  BY <1>1, <1>2, <1>3, <1>4, <1>5 DEF Next, TimeOut, Raise

LEMMA NextKeeps == IInv /\ [Next]_vars => IInv'
<1> SUFFICES ASSUME IInv, [Next]_vars, ~killed' PROVE Clean'
  BY TypesKept DEF IInv
<1>1. Types /\ Clean
  BY KilledStays DEF IInv
<1>2. CASE Cluster
  BY <1>1, <1>2, WorkloadKeeps, ElectKeeps, ReplicationKeeps DEF Cluster
<1>3. CASE Pipeline
  BY <1>1, <1>3, PipelineKeeps
<1>4. CASE TimeOut \/ Raise
  BY <1>1, <1>4, AbortKeeps DEF TimeOut, Raise
<1>5. CASE RunTest
  BY <1>1, <1>5, AskNodeKeeps, FindPrimaryKeeps, AwaitKeeps, InsertProbeKeeps, StopKeeps,
    CompareKeeps, EndKeeps DEF RunTest
<1>6. CASE UNCHANGED vars
  <2>1. buf' \subseteq buf /\
        UNCHANGED <<history, wal, role, key, ch, at, seen, before, stopped, probe, counted,
                    status, tookOver, quiet>>
    BY <1>6 DEF vars, database, flink, unread, script
  <2> QED
    BY <1>1, <2>1, QuietStepKeeps
<1> QED
  BY <1>2, <1>3, <1>4, <1>5, <1>6 DEF Next

LEMMA Invariance == Spec => []IInv
BY InitHolds, NextKeeps, PTL DEF Spec

\* For any nodes: a failover whose primary was not killed loses no acknowledged change.
THEOREM CleanFailoverIsLossless == Spec => []CleanFailoverLosesNothing
<1>1. IInv => CleanFailoverLosesNothing
  <2> SUFFICES ASSUME IInv, ~killed, NEW n \in Nodes, Primary(n)
               PROVE  ToSet(wal[n]) = DOMAIN history
    BY DEF CleanFailoverLosesNothing
  <2>1. Len(wal[n]) = Len(history) /\ wal[n] \in Seq(Nat) /\ history \in Seq(Tables)
        /\ \A c \in 1..Len(wal[n]) : wal[n][c] = c
    BY DEF IInv, Types, Clean, Leader, Logs
  <2>2. DOMAIN wal[n] = 1..Len(history) /\ DOMAIN history = 1..Len(history)
    BY <2>1
  <2>3. ToSet(wal[n]) = {c : c \in 1..Len(history)}
    BY <2>1, <2>2 DEF ToSet
  <2> QED
    BY <2>2, <2>3
<1> QED
  BY <1>1, Invariance, PTL

\* For any nodes: a PASS without a killed node shows that a probe written after the
\* promotion of another one has reached ClickHouse.
THEOREM PassMeansPropagation == Spec => []PassProvesPropagation
<1>1. IInv => PassProvesPropagation
  BY DEF IInv, Types, Clean, AfterStop, Probed, PassProvesPropagation
<1> QED
  BY <1>1, Invariance, PTL

\* For any nodes and changes: with the comparison, and nothing written since, a PASS
\* shows that ClickHouse misses no row of the compared table.
THEOREM ComparedPassMissesNothing == Spec => []PassWithComparisonMissesNothing
<1>1. IInv => PassWithComparisonMissesNothing
  <2> SUFFICES ASSUME IInv, status = "PASS", at > Len(Steps), ~killed, quiet
               PROVE  Compared(DOMAIN history) \subseteq ch
    BY DEF PassWithComparisonMissesNothing
  <2>1. at = 15
    <3>1. Types
      BY DEF IInv
    <3>2. Len(Steps) = 14
      BY <3>1, StepNumbers
    <3> QED
      BY <3>1, <3>2 DEF Types
  <2> QED
    BY <2>1 DEF IInv, Clean, Counted
<1> QED
  BY <1>1, Invariance, PTL

-----------------------------------------------------------------------------
(* Every run, with killed nodes too: the parts of its inductive invariant.   *)

\* The changes of table t.
Of(t) == {c \in DOMAIN history : history[c] = t}

\* How many changes there may be: run_test writes its two probes at steps 4 and 11.
Bounded ==
  /\ Cardinality(Of("orders")) <= MaxOrders
  /\ Cardinality(Of("cdc_latency_probe")) <= 2
  /\ status = "running" /\ at <= 4 => Cardinality(Of("cdc_latency_probe")) = 0
  /\ status = "running" /\ at <= 11 => Cardinality(Of("cdc_latency_probe")) <= 1

\* A node has no change twice and none before its turn: no log is longer than the history.
InTurn ==
  /\ wal \in [Nodes -> Seq(Nat \ {0})]
  /\ \A n \in Nodes : \A i \in 1..Len(wal[n]) : i <= wal[n][i] /\ wal[n][i] <= Len(history)

\* Every position and every change lies within the history.
Within ==
  /\ rd \in 0..Len(history) /\ ck \in 0..Len(history) /\ resume \in 0..Len(history)
  /\ published \in 0..Len(history)
  /\ \A n \in Nodes : slot[n] = NoSlot \/ slot[n] \in 0..Len(history)
  /\ buf \subseteq 1..Len(history) /\ ch \subseteq 1..Len(history)
  /\ probe \subseteq 1..Len(history) /\ counted \subseteq 1..Len(history)
  /\ tookOver = Never \/ tookOver \in 0..Len(history)

\* The script knows the node that it stops, which stays down until the end of the test.
Target ==
  /\ before \in Nodes \cup {None} /\ seen \subseteq Nodes
  /\ status = "running" /\ at >= 2 => before \in Nodes
  /\ status = "running" /\ at <= 6 => ~stopped
  /\ stopped => before \in Nodes /\ role[before] = "down"

Flags == stopped \in BOOLEAN /\ killed \in BOOLEAN /\ quiet \in BOOLEAN

\* One holder of the key.
OneKey == \A n \in Nodes : Primary(n) => key = n

\* The sources are connected to a primary on which they have a slot.
Attached ==
  /\ on \in Nodes \cup {None, Broken} /\ home \in Nodes /\ slot \in [Nodes -> Int]
  /\ job \in {"RUNNING", "RESTARTING", "FAILED"}
  /\ on \in Nodes => on = home /\ Primary(on) /\ slot[on] # NoSlot
  /\ on = None => buf = {}

\* While its slot is there, the node that the sources read from has kept its log up to
\* where they are, and all that they passed since they began there is on its way.
Covered ==
  slot[home] # NoSlot =>
    /\ ck <= Larger(resume, Len(wal[home])) /\ slot[home] <= Larger(resume, Len(wal[home]))
    /\ on # None => rd <= Larger(resume, Len(wal[home]))
    /\ Changes(home, resume + 1, Larger(ck, slot[home])) \subseteq ch
    /\ on # None => Changes(home, resume + 1, rd) \subseteq ch \cup buf

\* The inductive invariant of every run.
GInv == Bounded /\ InTurn /\ Within /\ Target /\ Flags /\ OneKey /\ Attached /\ Covered

-----------------------------------------------------------------------------
(* What a step may do.                                                       *)

\* A step that is not a commit, a replication or a rewind leaves the logs alone.
LEMMA LogSteps ==
  ASSUME [Next]_vars
  PROVE  \/ \E t \in Tables : Commit(t)
         \/ \E n, p \in Nodes : Replicate(n, p) \/ Rewind(n, p)
         \/ UNCHANGED <<history, wal>>
<1>1. CASE Cluster
  BY <1>1 DEF Cluster, Workload, Elect, Expire, Route, Promote, Tables
<1>2. CASE Pipeline
  BY <1>2 DEF Pipeline, Deploy, GiveUp, Attach, Read, Checkpoint, Fail, Deliver, database
<1>3. CASE Abort
  BY <1>3 DEF Abort, database
<1>4. CASE RunTest
  BY <1>3, <1>4 DEF RunTest, AskNode, CurrentPrimary, WaitForNewPrimary, Await, InsertProbe,
    StopPrimary, CountPostgres, CompareCounts, Pass, Restore, world, database, Tables
<1>5. CASE UNCHANGED vars
  BY <1>5 DEF vars, database
<1> QED
  BY <1>1, <1>2, <1>3, <1>4, <1>5 DEF Next, TimeOut, Raise

\* The test goes forward, but for the comparison, which counts again.
LEMMA ScriptMoves ==
  ASSUME Types, [Next]_vars, status' = "running"
  PROVE  status = "running" /\ (at <= at' \/ at' = 13)
<1>0. at \in Int /\ at' \in Int
  <2>1. Types'
    BY TypesKept
  <2>2. at \in Int
    BY DEF Types
  <2> QED
    BY <2>1, <2>2 DEF Types
<1>1. CASE UNCHANGED script
  BY <1>0, <1>1 DEF script
<1>2. CASE Abort
  BY <1>2 DEF Abort
<1>3. CASE RunTest
  <2>1. CASE AskNode \/ CurrentPrimary \/ WaitForNewPrimary \/ Await
    BY <1>0, <1>2, <2>1 DEF AskNode, CurrentPrimary, WaitForNewPrimary, Await, Advance
  <2>2. CASE InsertProbe
    BY <1>0, <1>2, <2>2 DEF InsertProbe, Advance
  <2>3. CASE StopPrimary \/ CountPostgres
    BY <1>0, <2>3 DEF StopPrimary, CountPostgres, Advance
  <2>4. CASE CompareCounts
    BY <1>0, <2>4, StepNumbers DEF CompareCounts, Advance
  <2>5. CASE Pass \/ Restore
    BY <1>0, <2>5 DEF Pass, Restore
  <2> QED
    BY <1>3, <2>1, <2>2, <2>3, <2>4, <2>5 DEF RunTest
<1>4. CASE Cluster \/ Pipeline \/ UNCHANGED vars
  BY <1>1, <1>4 DEF Cluster, Workload, Elect, Expire, Route, Promote, Replicate, Rewind,
    Pipeline, Deploy, GiveUp, Attach, Read, Checkpoint, Fail, Deliver, vars
<1> QED
  BY <1>2, <1>3, <1>4 DEF Next, TimeOut, Raise

-----------------------------------------------------------------------------
(* How many changes there are.                                               *)

LEMMA OfIsFinite ==
  ASSUME Types, NEW t
  PROVE  IsFiniteSet(Of(t)) /\ Cardinality(Of(t)) \in Nat /\ Of(t) \subseteq 1..Len(history)
<1>1. Len(history) \in Nat /\ DOMAIN history = 1..Len(history)
  BY DEF Types
<1>2. Of(t) \in SUBSET (1..Len(history))
  BY <1>1 DEF Of
<1>3. IsFiniteSet(1..Len(history))
  BY <1>1, FS_Interval
<1>4. IsFiniteSet(Of(t))
  BY <1>2, <1>3, FS_Subset
<1> QED
  BY <1>2, <1>4, FS_CardinalityType

LEMMA OfGrows ==
  ASSUME Types, NEW t \in Tables, Commit(t)
  PROVE  /\ Cardinality(Of(t)') = Cardinality(Of(t)) + 1
         /\ \A u \in Tables \ {t} : Of(u)' = Of(u)
<1>1. /\ history' = Append(history, t) /\ Len(history) \in Nat
      /\ DOMAIN history = 1..Len(history) /\ DOMAIN history' = 1..(Len(history) + 1)
      /\ history'[Len(history) + 1] = t
      /\ \A c \in 1..Len(history) : history'[c] = history[c]
  BY DEF Commit, Types
<1>2. Of(t)' = Of(t) \cup {Len(history) + 1} /\ Len(history) + 1 \notin Of(t)
  BY <1>1 DEF Of
<1>3. \A u \in Tables \ {t} : Of(u)' = Of(u)
  BY <1>1 DEF Of
<1> QED
  BY <1>2, <1>3, OfIsFinite, FS_AddElement

LEMMA BoundedKept ==
  ASSUME Types, Bounded, [Next]_vars
  PROVE  Bounded'
<1>0. /\ MaxOrders \in Nat /\ at \in Int /\ at' \in Int
      /\ Cardinality(Of("orders")) \in Nat /\ Cardinality(Of("cdc_latency_probe")) \in Nat
  BY TypesKept, OfIsFinite, FailoverAssumption DEF Types
<1>1. CASE UNCHANGED history
  BY <1>0, <1>1, ScriptMoves DEF Bounded, Of
<1>2. CASE Workload
  <2>1. Cardinality(Of("orders")) < MaxOrders /\ Commit("orders") /\ UNCHANGED <<at, status>>
    BY <1>2 DEF Workload, Of, script
  <2>2. Cardinality(Of("orders")') = Cardinality(Of("orders")) + 1
        /\ Of("cdc_latency_probe")' = Of("cdc_latency_probe")
    BY <2>1, OfGrows DEF Tables
  <2> QED
    BY <1>0, <2>1, <2>2 DEF Bounded
<1>3. CASE InsertProbe /\ Commit("cdc_latency_probe") /\ ~Abort
  <2>1. at \in {4, 11} /\ at' = at + 1 /\ status = "running"
    BY <1>3, StepNumbers DEF InsertProbe, Advance
  <2>2. Cardinality(Of("cdc_latency_probe")') = Cardinality(Of("cdc_latency_probe")) + 1
        /\ Of("orders")' = Of("orders")
    BY <1>3, OfGrows DEF Tables
  <2> QED
    BY <1>0, <2>1, <2>2 DEF Bounded
<1>4. Workload \/ (InsertProbe /\ Commit("cdc_latency_probe") /\ ~Abort) \/ UNCHANGED history
  <2>1. CASE Cluster
    BY <2>1 DEF Cluster, Elect, Expire, Route, Promote, Replicate, Rewind
  <2>2. CASE Pipeline
    BY <2>2 DEF Pipeline, Deploy, GiveUp, Attach, Read, Checkpoint, Fail, Deliver, database
  <2>3. CASE Abort
    BY <2>3 DEF Abort, database
  <2>4. CASE RunTest
    BY <2>3, <2>4 DEF RunTest, AskNode, CurrentPrimary, WaitForNewPrimary, Await, InsertProbe,
      StopPrimary, CountPostgres, CompareCounts, Pass, Restore, world, database
  <2>5. CASE UNCHANGED vars
    BY <2>5 DEF vars, database
  <2> QED
    BY <2>1, <2>2, <2>3, <2>4, <2>5 DEF Next, TimeOut, Raise
<1> QED
  BY <1>1, <1>2, <1>3, <1>4

\* The workload and the two probes are all there is.
LEMMA HistoryBounded ==
  ASSUME Types, Bounded
  PROVE  Len(history) <= MaxChanges /\ MaxChanges \in Nat
<1>1. /\ Len(history) \in Nat /\ DOMAIN history = 1..Len(history)
      /\ \A c \in 1..Len(history) : history[c] \in Tables
  BY DEF Types
<1>2. Of("orders") \cup Of("cdc_latency_probe") = 1..Len(history)
      /\ Of("orders") \cap Of("cdc_latency_probe") = {}
  BY <1>1 DEF Of, Tables
<1>3. Cardinality(1..Len(history)) = Len(history)
  BY <1>1, FS_Interval
<1>4. Len(history) = Cardinality(Of("orders")) + Cardinality(Of("cdc_latency_probe")) - Cardinality({})
  BY <1>2, <1>3, OfIsFinite, FS_Union
<1> QED
  BY <1>4, OfIsFinite, FS_EmptySet, FailoverAssumption DEF Bounded, MaxChanges

-----------------------------------------------------------------------------
(* The logs.                                                                 *)

\* Two logs part somewhere: they have a longest common prefix.
LEMMA LongestPrefix ==
  ASSUME NEW u \in Seq(Nat), NEW v \in Seq(Nat), NEW w, w = LongestCommonPrefix({u, v})
  PROVE  /\ w \in Seq(Nat) /\ Len(w) <= Len(u)
         /\ \A i \in 1..Len(w) : w[i] = u[i]
<1> DEFINE P == CommonPrefixes({u, v})
           R == OpToRel(<, Nat)
           T == {Len(u) - Len(x) : x \in P}
<1>1. ASSUME NEW x \in P
      PROVE  /\ x \in Seq(Nat) /\ Len(x) \in Nat /\ Len(x) <= Len(u)
             /\ \A i \in 1..Len(x) : x[i] = u[i]
  <2>1. PICK y \in {u, v} : x \in Prefixes(y)
    BY DEF CommonPrefixes
  <2>2. PICK l \in 0..Len(y) : x = SubSeq(y, 1, l)
    BY <2>1 DEF Prefixes
  <2>3. y \in Seq(Nat)
    OBVIOUS
  <2>4. x \in Seq(Nat)
    BY <2>2, <2>3
  <2>5. Len(x) <= Len(u) /\ SubSeq(x, 1, Len(x)) = SubSeq(u, 1, Len(x))
    BY DEF CommonPrefixes, IsPrefix
  <2> HIDE DEF P
  <2>6. ASSUME NEW i \in 1..Len(x) PROVE x[i] = u[i]
    <3>1. SubSeq(x, 1, Len(x))[i] = x[i]
      BY <2>4
    <3>2. SubSeq(u, 1, Len(x))[i] = u[i]
      BY <2>4, <2>5
    <3> QED
      BY <2>5, <3>1, <3>2
  <2> QED
    BY <2>4, <2>5, <2>6
<1>3. <<>> \in P
  <2>1. SubSeq(u, 1, 0) = <<>> /\ SubSeq(v, 1, 0) = <<>> /\ Len(<<>>) = 0 /\ SubSeq(<<>>, 1, 0) = <<>>
    OBVIOUS
  <2>2. Len(u) \in Nat /\ Len(v) \in Nat /\ 0 \in 0..Len(u)
    OBVIOUS
  <2>3. <<>> \in Prefixes(u)
    BY <2>1, <2>2 DEF Prefixes
  <2>4. IsPrefix(<<>>, u) /\ IsPrefix(<<>>, v)
    BY <2>1, <2>2 DEF IsPrefix
  <2> QED
    BY <2>3, <2>4 DEF CommonPrefixes
<1> HIDE DEF P
<1>4. T \subseteq Nat /\ T # {}
  <2>1. ASSUME NEW x \in P PROVE Len(u) - Len(x) \in Nat
    BY <1>1
  <2> QED
    BY <1>3, <2>1
<1>5. PICK m \in T : \A k \in T : <<k, m>> \notin R
  BY <1>4, NatLessThanWellFounded, WFMin
<1>6. PICK x \in P : m = Len(u) - Len(x)
  OBVIOUS
<1>7. \A y \in P : Len(y) <= Len(x)
  <2> SUFFICES ASSUME NEW y \in P, Len(y) > Len(x) PROVE FALSE
    BY <1>1
  <2>1. Len(y) \in Nat /\ Len(x) \in Nat /\ Len(y) <= Len(u) /\ Len(x) <= Len(u)
    BY <1>1
  <2>2. Len(u) - Len(y) < m /\ Len(u) - Len(y) \in Nat /\ m \in Nat
    BY <1>6, <2>1
  <2>3. Len(u) - Len(y) \in T
    OBVIOUS
  <2> QED
    BY <1>5, <2>2, <2>3 DEF OpToRel
<1>8. w \in P
  BY <1>7 DEF LongestCommonPrefix, P
<1> QED
  BY <1>1, <1>8

\* What a log holds lies within the history.
LEMMA LogWithin ==
  ASSUME Types, InTurn, NEW n \in Nodes
  PROVE  /\ Len(wal[n]) \in 0..Len(history) /\ ToSet(wal[n]) \subseteq 1..Len(history)
         /\ \A a, b : Changes(n, a, b) \subseteq 1..Len(history)
<1>1. wal[n] \in Seq(Nat \ {0}) /\ Len(wal[n]) \in Nat /\ DOMAIN wal[n] = 1..Len(wal[n])
      /\ Len(history) \in Nat
  BY DEF InTurn, Types
<1>2. \A i \in 1..Len(wal[n]) : i <= wal[n][i] /\ wal[n][i] \in 1..Len(history)
  BY <1>1 DEF InTurn
<1>3. Len(wal[n]) <= Len(history)
  <2>1. CASE Len(wal[n]) = 0
    BY <1>1, <2>1
  <2>2. CASE Len(wal[n]) # 0
    <3>1. Len(wal[n]) \in 1..Len(wal[n])
      BY <1>1, <2>2
    <3> QED
      BY <1>1, <1>2, <3>1
  <2> QED
    BY <2>1, <2>2
<1> QED
  BY <1>1, <1>2, <1>3 DEF ToSet, Changes

\* The primary's log grows by the change that is committed.
LEMMA CommitLog ==
  ASSUME Types, InTurn, NEW t \in Tables, Commit(t)
  PROVE  /\ routed \in Nodes /\ wal'[routed] \in Seq(Nat \ {0})
         /\ Len(wal'[routed]) = Len(wal[routed]) + 1
         /\ wal'[routed][Len(wal[routed]) + 1] = Len(history) + 1
         /\ \A i \in 1..Len(wal[routed]) : wal'[routed][i] = wal[routed][i]
         /\ \A n \in Nodes \ {routed} : wal'[n] = wal[n]
         /\ Len(history') = Len(history) + 1
<1>1. routed \in Nodes /\ Len(history') = Len(history) + 1 /\ Len(history) \in Nat
  BY CommitGrows DEF Types
<1>2. wal \in [Nodes -> Seq(Nat \ {0})] /\ wal' = [wal EXCEPT ![routed] = Append(@, Len(history) + 1)]
  BY DEF InTurn, Commit
<1>3. wal'[routed] = Append(wal[routed], Len(history) + 1) /\ wal[routed] \in Seq(Nat \ {0})
      /\ Len(history) + 1 \in Nat \ {0}
  BY <1>1, <1>2
<1> QED
  BY <1>1, <1>2, <1>3

LEMMA InTurnKept ==
  ASSUME Types, InTurn, [Next]_vars
  PROVE  InTurn'
<1>1. CASE UNCHANGED <<history, wal>>
  BY <1>1 DEF InTurn
<1>2. ASSUME NEW t \in Tables, Commit(t) PROVE InTurn'
  <2>1. wal' \in [Nodes -> Seq(Nat \ {0})]
    BY <1>2, CommitLog DEF InTurn, Commit
  <2>2. \A i \in 1..Len(wal'[routed]) : i <= wal'[routed][i] /\ wal'[routed][i] <= Len(history')
    <3>1. routed \in Nodes /\ Len(wal[routed]) \in 0..Len(history) /\ Len(history) \in Nat
      BY <1>2, CommitLog, LogWithin DEF Types
    <3>2. \A i \in 1..Len(wal[routed]) :
            i <= wal[routed][i] /\ wal[routed][i] <= Len(history) /\ wal[routed][i] \in Nat
      BY <3>1 DEF InTurn
    <3>3. ASSUME NEW i \in 1..Len(wal'[routed])
          PROVE  i <= wal'[routed][i] /\ wal'[routed][i] <= Len(history')
      <4>1. CASE i = Len(wal[routed]) + 1
        BY <1>2, <3>1, <4>1, CommitLog
      <4>2. CASE i # Len(wal[routed]) + 1
        <5>1. i \in 1..Len(wal[routed])
          BY <1>2, <3>1, <4>2, CommitLog
        <5>2. wal'[routed][i] = wal[routed][i] /\ Len(history') = Len(history) + 1
          BY <1>2, <5>1, CommitLog
        <5> QED
          BY <3>1, <3>2, <5>1, <5>2
      <4> QED
        BY <4>1, <4>2
    <3> QED
      BY <3>3
  <2>3. \A n \in Nodes \ {routed} : \A i \in 1..Len(wal'[n]) :
          i <= wal'[n][i] /\ wal'[n][i] <= Len(history')
    <3>1. Len(history) \in Nat /\ Len(history') = Len(history) + 1
          /\ \A n \in Nodes \ {routed} : wal'[n] = wal[n] /\ wal[n] \in Seq(Nat \ {0})
      BY <1>2, CommitLog DEF Types, InTurn
    <3> QED
      BY <3>1 DEF InTurn
  <2> QED
    BY <2>1, <2>2, <2>3 DEF InTurn
<1>3. ASSUME NEW n \in Nodes, NEW p \in Nodes, Replicate(n, p) PROVE InTurn'
  BY <1>3 DEF InTurn, Replicate
<1>4. ASSUME NEW n \in Nodes, NEW p \in Nodes, Rewind(n, p) PROVE InTurn'
  <2>1. PICK w : w = LongestCommonPrefix({wal[n], wal[p]})
    OBVIOUS
  <2>2. wal' = [wal EXCEPT ![n] = w] /\ history' = history
    BY <1>4, <2>1 DEF Rewind
  <2>3. wal[n] \in Seq(Nat \ {0}) /\ wal[n] \in Seq(Nat) /\ wal[p] \in Seq(Nat)
    BY DEF InTurn
  <2>4. w \in Seq(Nat) /\ Len(w) <= Len(wal[n]) /\ \A i \in 1..Len(w) : w[i] = wal[n][i]
    <3>1. PICK u, v : u = wal[n] /\ v = wal[p]
      OBVIOUS
    <3>2. u \in Seq(Nat) /\ v \in Seq(Nat) /\ w = LongestCommonPrefix({u, v})
      BY <2>1, <2>3, <3>1
    <3>3. w \in Seq(Nat) /\ Len(w) <= Len(u) /\ \A i \in 1..Len(w) : w[i] = u[i]
      BY <3>2, LongestPrefix
    <3> QED
      BY <3>1, <3>3
  <2>5. \A i \in 1..Len(w) : i \in 1..Len(wal[n]) /\ w[i] = wal[n][i] /\ w[i] \in Nat \ {0}
    BY <2>3, <2>4
  <2>6. w \in Seq(Nat \ {0})
    BY <2>4, <2>5
  <2>7. wal' \in [Nodes -> Seq(Nat \ {0})] /\ wal'[n] = w /\ \A m \in Nodes \ {n} : wal'[m] = wal[m]
    BY <2>2, <2>6 DEF InTurn
  <2>8. \A i \in 1..Len(wal'[n]) : i <= wal'[n][i] /\ wal'[n][i] <= Len(history')
    BY <2>2, <2>5, <2>7 DEF InTurn
  <2> QED
    BY <2>2, <2>7, <2>8 DEF InTurn
<1> QED
  BY <1>1, <1>2, <1>3, <1>4, LogSteps

-----------------------------------------------------------------------------
(* The script's node, the key and the slots.                                 *)

LEMMA FlagsKept ==
  ASSUME Flags, [Next]_vars
  PROVE  Flags'
<1>1. /\ stopped' = stopped \/ stopped' = TRUE \/ stopped' = FALSE
      /\ killed' = killed \/ killed' = TRUE
      /\ quiet' = quiet \/ quiet' = TRUE \/ quiet' = FALSE
  <2>1. CASE Cluster
    BY <2>1 DEF Cluster, Workload, Elect, Expire, Route, Promote, Replicate, Rewind, Commit, script
  <2>2. CASE Pipeline \/ UNCHANGED vars
    BY <2>2 DEF Pipeline, Deploy, GiveUp, Attach, Read, Checkpoint, Fail, Deliver, script, vars
  <2>3. CASE Abort
    BY <2>3 DEF Abort
  <2>4. CASE RunTest
    BY <2>3, <2>4 DEF RunTest, AskNode, CurrentPrimary, WaitForNewPrimary, Await, InsertProbe,
      StopPrimary, Leave, StopCleanly, Kill, CountPostgres, CompareCounts, Pass, Restore, world, Commit
  <2> QED
    BY <2>1, <2>2, <2>3, <2>4 DEF Next, TimeOut, Raise
<1> QED
  BY <1>1, Zenon DEF Flags

LEMMA TargetKept ==
  ASSUME Types, Target, [Next]_vars
  PROVE  Target'
<1>0. None \notin Nodes /\ at \in 1..15
  BY FailoverAssumption DEF Types
<1>1. CASE Cluster
  <2>1. UNCHANGED script
    BY <1>1 DEF Cluster, Workload, Elect, Expire, Route, Promote, Replicate, Rewind, Commit
  <2>2. \A n \in Nodes : role[n] = "down" => role'[n] = "down"
    BY <1>1 DEF Cluster, Workload, Elect, Expire, Route, Promote, Replicate, Rewind, Commit, Types
  <2> QED
    BY <2>1, <2>2 DEF Target, script
<1>2. CASE Pipeline \/ UNCHANGED vars
  BY <1>2 DEF Pipeline, Deploy, GiveUp, Attach, Read, Checkpoint, Fail, Deliver, database, script,
    vars, Target
<1>3. CASE Abort
  BY <1>3 DEF Abort, database, Target
<1>4. CASE AskNode
  <2>1. Endpoints[asked + 1] \in Nodes
    BY <1>4, EndpointsAreNodes DEF AskNode, Types
  <2>2. seen' \subseteq Nodes
    BY <1>4, <2>1 DEF AskNode, Target
  <2> QED
    BY <1>4, <2>2 DEF AskNode, database, Target
<1>5. CASE CurrentPrimary
  <2>1. CASE ~Abort
    <3>1. Doing("primary") /\ Cardinality(seen) = 1 /\ before' = (CHOOSE n \in seen : TRUE)
          /\ seen' = {} /\ Advance /\ UNCHANGED <<world, stopped>>
      BY <1>5, <2>1 DEF CurrentPrimary
    <3>2. seen # {}
      BY <3>1, FS_EmptySet
    <3>3. before' \in Nodes
      BY <3>1, <3>2 DEF Target
    <3>4. at = 1 /\ status = "running" /\ at' = 2 /\ status' = "running"
      BY <3>1, StepNumbers DEF Advance
    <3> QED
      BY <3>1, <3>3, <3>4 DEF Target, world, database
  <2> QED
    BY <1>3, <2>1
<1>6. ASSUME UNCHANGED <<before, stopped, role, status>>, seen' \in {seen, {}},
             at' = at \/ at' = at + 1 \/ at' = 13, at' # at => at \notin {1, 6}, at' \in Nat,
             status = "running" \/ at' = at
      PROVE  Target'
  BY <1>0, <1>6 DEF Target
<1>7. CASE WaitForNewPrimary
  BY <1>0, <1>6, <1>7, StepNumbers DEF WaitForNewPrimary, Advance, world, database
<1>8. CASE Await
  BY <1>0, <1>6, <1>8, StepNumbers DEF Await, Advance, world, database
<1>9. CASE CountPostgres \/ CompareCounts
  BY <1>0, <1>6, <1>9, StepNumbers DEF CountPostgres, CompareCounts, Advance, world, database
<1>10. CASE InsertProbe
  <2>1. CASE ~Abort
    <3>1. at \in {4, 11} /\ status = "running" /\ at' = at + 1 /\ status' = status
          /\ UNCHANGED <<seen, before, stopped, role>>
      BY <1>10, <2>1, StepNumbers DEF InsertProbe, Advance, Commit
    <3> QED
      BY <1>6, <3>1
  <2> QED
    BY <1>3, <2>1
<1>11. CASE StopPrimary
  <2>1. at = 6 /\ status = "running" /\ at' = 7 /\ status' = status
        /\ UNCHANGED <<seen, before>> /\ role' = [role EXCEPT ![before] = "down"]
    <3>1. at = 6 /\ status = "running"
      BY <1>11, StepNumbers DEF StopPrimary
    <3> QED
      BY <1>11, <3>1 DEF StopPrimary, Advance, Leave
  <2>2. before \in Nodes /\ role'[before] = "down"
    BY <2>1 DEF Target, Types
  <2> QED
    BY <2>1, <2>2 DEF Target
<1>12. CASE Pass
  BY <1>12 DEF Pass, Target, world, database
<1>13. CASE Restore
  <2>1. before' = None /\ ~stopped' /\ UNCHANGED <<seen, status>> /\ status # "running"
    BY <1>13 DEF Restore
  <2> QED
    BY <2>1 DEF Target
<1> QED
  BY <1>1, <1>2, <1>3, <1>4, <1>5, <1>7, <1>8, <1>9, <1>10, <1>11, <1>12, <1>13
    DEF Next, TimeOut, Raise, RunTest

\* The key is given to one node at a time; the leader that loses it is down.
LEMMA OneKeyKept ==
  ASSUME Types, Target, OneKey, [Next]_vars
  PROVE  OneKey'
<1>0. None \notin Nodes
  BY FailoverAssumption
<1>1. ASSUME NEW n \in Nodes, Promote(n) PROVE OneKey'
  BY <1>0, <1>1 DEF Promote, OneKey, Primary, Types
<1>2. CASE Expire
  BY <1>2 DEF Expire, OneKey, Primary
<1>3. CASE StopPrimary
  <2>1. role' = [role EXCEPT ![before] = "down"] /\ (key' = key \/ (key = before /\ key' = None))
    BY <1>3 DEF StopPrimary, Leave, StopCleanly, Kill
  <2>2. before \in Nodes
    BY <1>3, StepNumbers DEF StopPrimary, Target
  <2>3. \A n \in Nodes : role'[n] = "primary" => n # before /\ role[n] = "primary"
    BY <2>1, <2>2 DEF Types
  <2> QED
    BY <2>1, <2>3 DEF OneKey, Primary
<1>4. CASE Restore
  <2>1. role' = [role EXCEPT ![before] = "replica"] /\ key' = key /\ before \in Nodes
    BY <1>4 DEF Restore, Return, Target
  <2> QED
    BY <2>1 DEF OneKey, Primary, Types
<1>5. CASE UNCHANGED <<role, key>>
  BY <1>5 DEF OneKey, Primary
<1>6. \/ \E n \in Nodes : Promote(n)
      \/ Expire \/ StopPrimary \/ Restore \/ UNCHANGED <<role, key>>
  <2>1. CASE Cluster
    BY <2>1 DEF Cluster, Workload, Elect, Route, Replicate, Rewind, Commit
  <2>2. CASE Pipeline \/ UNCHANGED vars
    BY <2>2 DEF Pipeline, Deploy, GiveUp, Attach, Read, Checkpoint, Fail, Deliver, database, vars
  <2>3. CASE Abort
    BY <2>3 DEF Abort, database
  <2>4. CASE RunTest
    BY <2>3, <2>4 DEF RunTest, AskNode, CurrentPrimary, WaitForNewPrimary, Await, InsertProbe,
      CountPostgres, CompareCounts, Pass, world, database, Commit
  <2> QED
    BY <2>1, <2>2, <2>3, <2>4 DEF Next, TimeOut, Raise
<1> QED
  BY <1>1, <1>2, <1>3, <1>4, <1>5, <1>6

-----------------------------------------------------------------------------
(* Positions and changes.                                                    *)

\* What lies within the history stays there: it only grows.
LEMMA HistoryGrows ==
  ASSUME Types, [Next]_vars
  PROVE  /\ Len(history) \in Nat /\ Len(history') \in Nat /\ Len(history) <= Len(history')
         /\ \A c \in 1..Len(history) : c \in 1..Len(history')
         /\ \A i \in 0..Len(history) : i \in 0..Len(history')
<1>1. Len(history) \in Nat
  BY DEF Types
<1>2. Len(history') = Len(history) \/ Len(history') = Len(history) + 1
  BY LogSteps, CommitGrows DEF Replicate, Rewind
<1> QED
  BY <1>1, <1>2

LEMMA PipelineWithin ==
  ASSUME Types, InTurn, Within, Attached, Pipeline
  PROVE  Within'
<1>1. /\ UNCHANGED <<history, wal, routed, published, probe, counted, tookOver>>
      /\ Len(history) \in Nat
  BY DEF Types, Pipeline, Deploy, GiveUp, Attach, Read, Checkpoint, Fail, Deliver, database, script
<1>2. CASE Deploy \/ GiveUp \/ Fail
  BY <1>1, <1>2 DEF Deploy, GiveUp, Fail, Within
<1>3. CASE Attach
  <2>1. routed \in Nodes /\ Len(wal[routed]) \in 0..Len(history)
    BY <1>3, LogWithin DEF Attach, Writable, Types
  <2>2. /\ slot' = [slot EXCEPT ![routed] = IF @ = NoSlot THEN Len(wal[routed]) ELSE @]
        /\ rd' = Larger(ck, slot'[routed])
        /\ resume' = (IF routed # home \/ slot[routed] = NoSlot THEN rd' ELSE resume)
        /\ UNCHANGED <<buf, ck, ch>>
    BY <1>3 DEF Attach
  <2>3. slot'[routed] \in 0..Len(history) /\ \A n \in Nodes \ {routed} : slot'[n] = slot[n]
    BY <2>1, <2>2 DEF Within, Attached
  <2>4. rd' \in 0..Len(history) /\ resume' \in 0..Len(history)
    BY <2>2, <2>3 DEF Within, Larger
  <2> QED
    BY <1>1, <2>2, <2>3, <2>4 DEF Within
<1>4. CASE Read
  <2>1. Len(wal[on]) \in 0..Len(history) /\ Changes(on, rd + 1, Len(wal[on])) \subseteq 1..Len(history)
    BY <1>4, LogWithin DEF Read
  <2> QED
    BY <1>1, <1>4, <2>1 DEF Read, Within
<1>5. CASE Checkpoint
  <2>1. ck' = rd /\ UNCHANGED <<rd, buf, ch, resume>>
        /\ (slot' = slot \/ slot' = [slot EXCEPT ![on] = rd])
    BY <1>5 DEF Checkpoint
  <2>2. \A n \in Nodes : slot'[n] = slot[n] \/ slot'[n] = rd
    BY <2>1 DEF Attached
  <2> QED
    BY <1>1, <2>1, <2>2 DEF Within
<1>6. ASSUME NEW t \in Tables, Deliver(t) PROVE Within'
  BY <1>1, <1>6 DEF Deliver, Within
<1> QED
  BY <1>2, <1>3, <1>4, <1>5, <1>6 DEF Pipeline

LEMMA WithinKept ==
  ASSUME Types, InTurn, Within, Target, Attached, [Next]_vars
  PROVE  Within'
<1>0. /\ Len(history) \in Nat /\ Len(history') \in Nat /\ Len(history) <= Len(history')
      /\ \A c \in 1..Len(history) : c \in 1..Len(history')
      /\ \A i \in 0..Len(history) : i \in 0..Len(history')
  BY HistoryGrows
<1>1. ASSUME UNCHANGED <<rd, ck, resume, buf, ch>>,
             \A n \in Nodes : slot'[n] \in {slot[n], NoSlot},
             published' \in 0..Len(history), tookOver' \in {tookOver, Never, Len(history)},
             probe' \subseteq 1..Len(history'), counted' \subseteq 1..Len(history')
      PROVE  Within'
  BY <1>0, <1>1 DEF Within
<1>2. probe \subseteq 1..Len(history') /\ counted \subseteq 1..Len(history')
      /\ published \in 0..Len(history)
  BY <1>0 DEF Within
<1>3. CASE Cluster
  <2>1. UNCHANGED <<rd, ck, resume, buf, ch, probe, counted>>
    BY <1>3 DEF Cluster, Workload, Commit, Elect, Expire, Route, Promote, Replicate, Rewind, flink,
      unread, script
  <2>2. \A n \in Nodes : slot'[n] \in {slot[n], NoSlot}
    BY <1>3 DEF Cluster, Workload, Commit, Elect, Expire, Route, Promote, Replicate, Rewind, Attached
  <2>3. published' = published \/ published' = 0
    BY <1>3 DEF Cluster, Workload, Commit, Elect, Expire, Route, Promote, Replicate, Rewind
  <2>4. tookOver' \in {tookOver, Never, Len(history)}
    BY <1>3 DEF Cluster, Workload, Commit, Elect, Expire, Route, Promote, Replicate, Rewind
  <2> QED
    BY <1>0, <1>1, <1>2, <2>1, <2>2, <2>3, <2>4
<1>4. CASE Pipeline
  BY <1>4, PipelineWithin
<1>5. CASE Abort
  BY <1>1, <1>2, <1>5 DEF Abort, database, flink, unread
<1>6. CASE UNCHANGED vars
  BY <1>1, <1>2, <1>6 DEF vars, database, flink, unread, script
<1>7. CASE AskNode \/ CurrentPrimary \/ WaitForNewPrimary \/ Await \/ CompareCounts \/ Pass
  BY <1>1, <1>2, <1>5, <1>7 DEF AskNode, CurrentPrimary, WaitForNewPrimary, Await, CompareCounts, Pass,
    world, database, flink, unread
<1>8. CASE InsertProbe
  <2>1. CASE ~Abort
    <3>1. /\ Commit("cdc_latency_probe") /\ UNCHANGED counted
          /\ \E lost \in {{}} \cup {{c} : c \in LostProbes} : probe' = {Len(history')} \cup lost
      BY <1>8, <2>1 DEF InsertProbe
    <3>2. UNCHANGED <<rd, ck, resume, buf, ch, slot, published, tookOver>>
      BY <3>1 DEF Commit, flink, unread
    <3>3. Len(history') = Len(history) + 1 /\ DOMAIN history = 1..Len(history)
      BY <3>1, CommitGrows DEF Tables
    <3>4. LostProbes \subseteq 1..Len(history')
      BY <1>0, <3>3 DEF LostProbes
    <3>5. probe' \subseteq 1..Len(history')
      BY <1>0, <3>1, <3>3, <3>4
    <3> QED
      BY <1>1, <1>2, <3>1, <3>2, <3>5
  <2> QED
    BY <1>5, <2>1
<1>9. CASE StopPrimary
  <2>1. before \in Nodes /\ UNCHANGED <<history, slot, unread, tookOver, probe, counted>>
        /\ (published' = published \/ published' \in 0..Len(wal[before]))
    BY <1>9, StepNumbers DEF StopPrimary, Leave, Target
  <2>2. Len(wal[before]) \in 0..Len(history)
    BY <2>1, LogWithin
  <2>3. published' \in 0..Len(history)
    BY <1>0, <1>2, <2>1, <2>2
  <2> QED
    BY <1>1, <1>2, <2>1, <2>3 DEF unread
<1>10. CASE CountPostgres
  <2>1. /\ routed \in Nodes /\ counted' = Compared(ToSet(wal[routed]))
        /\ UNCHANGED <<database, slot, flink, tookOver, probe>>
    BY <1>10 DEF CountPostgres, Writable, Types
  <2>2. counted' \subseteq 1..Len(history)
    BY <2>1, LogWithin DEF Compared
  <2> QED
    BY <1>0, <1>1, <1>2, <2>1, <2>2 DEF database, flink, unread
<1>11. CASE Restore
  <2>1. /\ UNCHANGED <<history, published, flink, tookOver, probe, counted>>
        /\ (slot' = slot \/ slot' = [slot EXCEPT ![before] = NoSlot])
    BY <1>11 DEF Restore, Return
  <2>2. \A n \in Nodes : slot'[n] \in {slot[n], NoSlot}
    BY <2>1 DEF Attached
  <2> QED
    BY <1>1, <1>2, <2>1, <2>2 DEF flink, unread
<1> QED
  BY <1>3, <1>4, <1>5, <1>6, <1>7, <1>8, <1>9, <1>10, <1>11 DEF Next, TimeOut, Raise, RunTest

-----------------------------------------------------------------------------
(* What the sources have passed.                                             *)

LEMMA AttachedKept ==
  ASSUME Types, InTurn, Within, Target, Attached, [Next]_vars
  PROVE  Attached'
<1>0. None \notin Nodes /\ Broken \notin Nodes /\ Broken # None
  BY FailoverAssumption
<1>1. NoSlot \notin Nat /\ NoSlot \in Int
  BY DEF NoSlot
<1>2. CASE Cluster
  <2>1. UNCHANGED <<on, home, job, buf>>
    BY <1>2 DEF Cluster, Workload, Commit, Elect, Expire, Route, Promote, Replicate, Rewind, flink,
      unread
  <2>2. \A n \in Nodes : Primary(n) => Primary(n)'
    BY <1>2 DEF Cluster, Workload, Commit, Elect, Expire, Route, Promote, Replicate, Rewind, Primary,
      Types
  <2>3. slot' \in [Nodes -> Int] /\ \A n \in Nodes : Primary(n) => slot'[n] = slot[n]
    BY <1>1, <1>2 DEF Cluster, Workload, Commit, Elect, Expire, Route, Promote, Replicate, Rewind,
      Primary, Attached
  <2> QED
    BY <2>1, <2>2, <2>3 DEF Attached
<1>3. CASE Pipeline
  <2>0. UNCHANGED role
    BY <1>3 DEF Pipeline, Deploy, GiveUp, Attach, Read, Checkpoint, Fail, Deliver, database
  <2>1. CASE Deploy \/ GiveUp \/ Fail
    BY <1>0, <2>0, <2>1 DEF Deploy, GiveUp, Fail, Attached, Primary
  <2>2. CASE Attach
    <3>1. routed \in Nodes /\ Primary(routed) /\ Len(wal[routed]) \in Nat
      BY <2>2 DEF Attach, Writable, Types, InTurn
    <3>2. /\ on' = routed /\ home' = routed /\ UNCHANGED <<job, buf>>
          /\ slot' = [slot EXCEPT ![routed] = IF @ = NoSlot THEN Len(wal[routed]) ELSE @]
      BY <2>2 DEF Attach
    <3>3. slot' \in [Nodes -> Int] /\ slot'[routed] # NoSlot
      BY <1>1, <3>1, <3>2 DEF Attached
    <3> QED
      BY <1>0, <2>0, <3>1, <3>2, <3>3 DEF Attached, Primary
  <2>3. CASE Read
    BY <1>0, <2>0, <2>3 DEF Read, Attached, Primary
  <2>4. CASE Checkpoint
    <3>1. rd \in Int /\ rd # NoSlot
      BY <1>1 DEF Within
    <3>2. /\ UNCHANGED <<on, home, job, buf>>
          /\ slot' = slot \/ slot' = [slot EXCEPT ![on] = rd]
      BY <2>4 DEF Checkpoint
    <3>3. slot' \in [Nodes -> Int] /\ \A n \in Nodes : slot'[n] = NoSlot => slot[n] = NoSlot
      BY <3>1, <3>2 DEF Attached
    <3> QED
      BY <2>0, <3>2, <3>3 DEF Attached, Primary
  <2>5. ASSUME NEW t \in Tables, Deliver(t) PROVE Attached'
    BY <2>0, <2>5 DEF Deliver, Attached, Primary
  <2> QED
    BY <1>3, <2>1, <2>2, <2>3, <2>4, <2>5 DEF Pipeline
<1>4. CASE StopPrimary
  <2>1. before \in Nodes
    BY <1>4, StepNumbers DEF StopPrimary, Target
  <2>2. /\ on' = (IF on = before THEN Broken ELSE on) /\ UNCHANGED <<home, job, buf, slot>>
        /\ role' = [role EXCEPT ![before] = "down"]
    BY <1>4 DEF StopPrimary, Leave, unread
  <2>3. \A n \in Nodes \ {before} : Primary(n) => Primary(n)'
    BY <2>2 DEF Primary, Types
  <2> QED
    BY <1>0, <2>1, <2>2, <2>3 DEF Attached
<1>5. CASE Restore
  <2>1. before \in Nodes /\ role[before] = "down"
    BY <1>5 DEF Restore, Target
  <2>2. /\ UNCHANGED <<on, home, job, buf>> /\ role' = [role EXCEPT ![before] = "replica"]
        /\ slot' = slot \/ slot' = [slot EXCEPT ![before] = NoSlot]
    BY <1>5 DEF Restore, Return, flink, unread
  <2>3. \A n \in Nodes : Primary(n) => Primary(n)' /\ slot'[n] = slot[n]
    BY <2>1, <2>2 DEF Primary, Types, Attached
  <2>4. slot' \in [Nodes -> Int]
    BY <1>1, <2>2 DEF Attached
  <2> QED
    BY <2>2, <2>3, <2>4 DEF Attached
<1>6. CASE UNCHANGED <<role, slot, on, home, job, buf>>
  BY <1>6 DEF Attached, Primary
<1>7. CASE Abort \/ UNCHANGED vars
  BY <1>6, <1>7 DEF Abort, vars, database, flink, unread
<1>8. CASE \/ AskNode \/ CurrentPrimary \/ WaitForNewPrimary \/ Await
           \/ CountPostgres \/ CompareCounts \/ Pass
  BY <1>6, <1>7, <1>8 DEF AskNode, CurrentPrimary, WaitForNewPrimary, Await, CountPostgres,
    CompareCounts, Pass, world, database, flink, unread
<1>9. CASE InsertProbe
  BY <1>6, <1>7, <1>9 DEF InsertProbe, Commit, flink, unread
<1> QED
  BY <1>2, <1>3, <1>4, <1>5, <1>7, <1>8, <1>9 DEF Next, TimeOut, Raise, RunTest

\* A log that grows at its end keeps what the sources have passed.
LEMMA CoveredWhenGrown ==
  ASSUME Types, InTurn, Within, Attached, Covered,
         UNCHANGED <<rd, ck, resume, ch, buf, on, home>>, slot'[home] = slot[home],
         Len(wal'[home]) \in Nat, Len(wal[home]) <= Len(wal'[home]),
         DOMAIN wal'[home] = 1..Len(wal'[home]),
         \A i \in 1..Len(wal[home]) : wal'[home][i] = wal[home][i]
  PROVE  Covered'
<1> SUFFICES ASSUME slot[home] # NoSlot PROVE Covered'
  BY DEF Covered
<1>1. /\ rd \in Nat /\ ck \in Nat /\ resume \in Nat /\ home \in Nodes /\ slot[home] \in Nat
      /\ Len(wal[home]) \in Nat /\ DOMAIN wal[home] = 1..Len(wal[home])
  BY DEF Within, Attached, InTurn
<1>2. ASSUME NEW b \in Nat, b <= Larger(resume, Len(wal[home]))
      PROVE  /\ b <= Larger(resume', Len(wal'[home']))
             /\ Changes(home, resume + 1, b)' = Changes(home, resume + 1, b)
  <2>1. b <= Larger(resume', Len(wal'[home']))
    BY <1>1, <1>2 DEF Larger
  <2>2. \A i \in (resume + 1)..b : i \in 1..Len(wal[home]) /\ i \in 1..Len(wal'[home])
    BY <1>1, <1>2 DEF Larger
  <2>3. Changes(home, resume + 1, b)' = {wal'[home][i] : i \in (resume + 1)..b}
    BY <2>2 DEF Changes
  <2>4. Changes(home, resume + 1, b) = {wal[home][i] : i \in (resume + 1)..b}
    BY <1>1, <2>2 DEF Changes
  <2> QED
    BY <2>1, <2>2, <2>3, <2>4
<1>3. Larger(ck, slot[home]) \in Nat /\ Larger(ck, slot[home]) <= Larger(resume, Len(wal[home]))
  BY <1>1 DEF Covered, Larger
<1>4. PICK b \in Nat : b = Larger(ck, slot[home])
  BY <1>3
<1>5. Changes(home, resume + 1, b)' \subseteq ch'
  BY <1>2, <1>3, <1>4 DEF Covered
<1>6. Larger(ck, slot[home])' = b
  BY <1>4 DEF Larger
<1>7. Changes(home, resume + 1, Larger(ck, slot[home]))' \subseteq ch'
  BY <1>5, <1>6 DEF Changes
<1>8. ck' <= Larger(resume', Len(wal'[home'])) /\ slot'[home'] <= Larger(resume', Len(wal'[home']))
  BY <1>1, <1>2 DEF Covered
<1>9. ASSUME on' # None
      PROVE  /\ rd' <= Larger(resume', Len(wal'[home']))
             /\ Changes(home, resume + 1, rd)' \subseteq ch' \cup buf'
  <2>1. rd <= Larger(resume, Len(wal[home])) /\ Changes(home, resume + 1, rd) \subseteq ch \cup buf
    BY <1>9 DEF Covered
  <2>2. PICK r \in Nat : r = rd
    BY <1>1
  <2>3. Changes(home, resume + 1, r)' = Changes(home, resume + 1, r)
        /\ r <= Larger(resume', Len(wal'[home']))
    BY <1>2, <2>1, <2>2
  <2>4. Changes(home, resume + 1, r)' \subseteq ch' \cup buf'
    BY <2>1, <2>2, <2>3
  <2>5. Changes(home, resume + 1, rd)' \subseteq ch' \cup buf'
    BY <2>2, <2>4 DEF Changes
  <2> QED
    BY <2>2, <2>3, <2>5
<1> QED
  BY <1>7, <1>8, <1>9 DEF Covered

\* A commit or a replication only adds to a log.
LEMMA LogsGrow ==
  ASSUME Types, InTurn, NEW m \in Nodes,
         \/ \E t \in Tables : Commit(t)
         \/ \E n, p \in Nodes : Replicate(n, p)
  PROVE  /\ Len(wal'[m]) \in Nat /\ Len(wal[m]) <= Len(wal'[m])
         /\ DOMAIN wal'[m] = 1..Len(wal'[m])
         /\ \A i \in 1..Len(wal[m]) : wal'[m][i] = wal[m][i]
<1>0. wal \in [Nodes -> Seq(Nat \ {0})] /\ Len(wal[m]) \in Nat
  BY DEF InTurn
<1>1. CASE wal'[m] = wal[m]
  BY <1>0, <1>1
<1>2. ASSUME NEW t \in Tables, Commit(t), m = routed
      PROVE  /\ wal'[m] \in Seq(Nat \ {0}) /\ Len(wal'[m]) = Len(wal[m]) + 1
             /\ \A i \in 1..Len(wal[m]) : wal'[m][i] = wal[m][i]
  BY <1>2, CommitLog
<1>3. ASSUME NEW n \in Nodes, NEW p \in Nodes, Replicate(n, p), m = n
      PROVE  /\ wal'[m] \in Seq(Nat \ {0}) /\ Len(wal[m]) <= Len(wal'[m])
             /\ \A i \in 1..Len(wal[m]) : wal'[m][i] = wal[m][i]
  <2>1. wal'[m] = wal[p] /\ IsPrefix(wal[m], wal[p])
    BY <1>0, <1>3 DEF Replicate, IsStrictPrefix
  <2>2. PICK u, v : u = wal[m] /\ v = wal[p]
    OBVIOUS
  <2>3. u \in Seq(Nat \ {0}) /\ v \in Seq(Nat \ {0})
    BY <1>0, <2>2
  <2>4. Len(u) <= Len(v) /\ SubSeq(u, 1, Len(u)) = SubSeq(v, 1, Len(u))
    BY <2>1, <2>2 DEF IsPrefix
  <2>5. ASSUME NEW i \in 1..Len(u) PROVE v[i] = u[i]
    <3>1. SubSeq(u, 1, Len(u))[i] = u[i] /\ SubSeq(v, 1, Len(u))[i] = v[i]
      BY <2>3, <2>4
    <3> QED
      BY <2>4, <3>1
  <2> QED
    BY <2>1, <2>2, <2>3, <2>4, <2>5
<1>4. \/ wal'[m] = wal[m]
      \/ \E t \in Tables : Commit(t) /\ m = routed
      \/ \E n, p \in Nodes : Replicate(n, p) /\ m = n
  BY <1>0 DEF Commit, Replicate
<1> QED
  BY <1>0, <1>1, <1>2, <1>3, <1>4

\* Nothing that the sources have passed since they began on a node is missed, as long
\* as they find their slot there.
LEMMA CoveredKept ==
  ASSUME Types, InTurn, Within, Target, Attached, Covered, [Next]_vars
  PROVE  Covered'
<1>0. None \notin Nodes /\ Broken \notin Nodes /\ Broken # None
  BY FailoverAssumption
<1>1. /\ rd \in Nat /\ ck \in Nat /\ resume \in Nat /\ home \in Nodes
      /\ Len(wal[home]) \in Nat /\ DOMAIN wal[home] = 1..Len(wal[home])
      /\ slot[home] \in Int /\ (slot[home] # NoSlot => slot[home] \in Nat)
  BY DEF Within, Attached, InTurn
<1>2. ASSUME UNCHANGED <<rd, ck, resume, ch, buf, home>>, wal'[home] = wal[home],
             slot'[home] \in {slot[home], NoSlot}, on' # None => on # None
      PROVE  Covered'
  BY <1>2 DEF Covered, Larger, Changes
<1>3. ASSUME UNCHANGED <<slot, unread, on>>,
             (\E t \in Tables : Commit(t)) \/ (\E n, p \in Nodes : Replicate(n, p))
      PROVE  Covered'
  BY <1>1, <1>3, LogsGrow, CoveredWhenGrown DEF unread
<1>4. CASE Cluster
  <2>1. CASE Workload \/ \E n, p \in Nodes : Replicate(n, p)
    BY <1>3, <2>1 DEF Workload, Commit, Replicate, flink, Tables
  <2>2. CASE Elect
    BY <1>2, <2>2 DEF Elect, Expire, Route, Promote, flink, unread
  <2>3. ASSUME NEW n \in Nodes, NEW p \in Nodes, Rewind(n, p) PROVE Covered'
    <3>1. UNCHANGED <<rd, ck, resume, ch, buf, home, on>> /\ slot' = [slot EXCEPT ![n] = NoSlot]
          /\ wal' = [wal EXCEPT ![n] = LongestCommonPrefix({wal[n], wal[p]})]
      BY <2>3 DEF Rewind, flink, unread
    <3>2. CASE home = n
      BY <1>1, <3>1, <3>2 DEF Covered, Attached
    <3>3. CASE home # n
      <4>1. wal'[home] = wal[home] /\ slot'[home] = slot[home]
        BY <1>1, <3>1, <3>3 DEF Attached, InTurn
      <4> QED
        BY <1>2, <3>1, <4>1
    <3> QED
      BY <3>2, <3>3
  <2> QED
    BY <1>4, <2>1, <2>2, <2>3 DEF Cluster
<1>5. CASE Pipeline
  <2>0. UNCHANGED wal
    BY <1>5 DEF Pipeline, Deploy, GiveUp, Attach, Read, Checkpoint, Fail, Deliver, database
  <2>1. CASE Deploy \/ GiveUp
    BY <1>2, <2>0, <2>1 DEF Deploy, GiveUp
  <2>2. CASE Fail
    <3>1. UNCHANGED <<ck, resume, ch, home, slot>> /\ on' = None
      BY <2>2 DEF Fail
    <3> QED
      BY <2>0, <3>1 DEF Covered, Changes
  <2>3. CASE Attach
    <3>1. /\ routed \in Nodes /\ home' = routed /\ on = None /\ on' = routed /\ UNCHANGED <<ck, ch, buf>>
          /\ slot' = [slot EXCEPT ![routed] = IF @ = NoSlot THEN Len(wal[routed]) ELSE @]
          /\ rd' = Larger(ck, slot'[routed])
          /\ resume' = (IF routed # home \/ slot[routed] = NoSlot THEN rd' ELSE resume)
      BY <2>3 DEF Attach, Writable, Types
    <3>2. slot'[routed] \in Nat /\ Len(wal[routed]) \in Nat
      BY <3>1 DEF Within, Attached, InTurn
    <3>3. CASE routed # home \/ slot[routed] = NoSlot
      <4>1. resume' = rd' /\ rd' \in Nat /\ rd' = Larger(ck', slot'[home'])
            /\ ck' <= rd' /\ slot'[home'] <= rd'
        BY <1>1, <3>1, <3>2, <3>3 DEF Larger
      <4>2. rd' <= Larger(resume', Len(wal'[home']))
        BY <2>0, <3>1, <3>2, <4>1 DEF Larger
      <4>3. Larger(resume', Len(wal'[home'])) \in Nat /\ ck' \in Nat /\ slot'[home'] \in Nat
        BY <1>1, <2>0, <3>1, <3>2, <4>1 DEF Larger
      <4>4. Changes(home, resume + 1, rd)' = {}
        BY <4>1 DEF Changes
      <4>5. Changes(home, resume + 1, Larger(ck, slot[home]))' = {}
        BY <4>1 DEF Changes, Larger
      <4> QED
        BY <4>1, <4>2, <4>3, <4>4, <4>5 DEF Covered
    <3>4. CASE routed = home /\ slot[routed] # NoSlot
      <4>1. resume' = resume /\ home' = home /\ slot'[home] = slot[home] /\ rd' = Larger(ck, slot[home])
        BY <1>1, <3>1, <3>4
      <4> QED
        BY <1>1, <2>0, <3>1, <3>4, <4>1 DEF Covered, Changes, Larger
    <3> QED
      BY <3>3, <3>4
  <2>4. CASE Read
    <3>1. /\ on \in Nodes /\ on = home /\ rd < Len(wal[on]) /\ rd' = Len(wal[on]) /\ on # None
          /\ buf' = buf \cup Changes(home, rd + 1, Len(wal[home]))
          /\ UNCHANGED <<slot, on, ck, ch, home, resume>>
      BY <1>0, <2>4 DEF Read, Attached
    <3>2. Changes(home, resume + 1, Len(wal[home]))
            \subseteq Changes(home, resume + 1, rd) \cup Changes(home, rd + 1, Len(wal[home]))
      BY <1>1 DEF Changes
    <3>3. Changes(home, resume + 1, rd)' = Changes(home, resume + 1, Len(wal[home]))
      BY <2>0, <3>1 DEF Changes
    <3>4. rd' <= Larger(resume, Len(wal[home]))
      BY <1>1, <3>1 DEF Larger
    <3> SUFFICES ASSUME slot[home] # NoSlot PROVE Covered'
      BY <3>1 DEF Covered
    <3>5. Changes(home, resume + 1, rd)' \subseteq ch' \cup buf'
      BY <3>1, <3>2, <3>3 DEF Covered
    <3>6. Changes(home, resume + 1, Larger(ck, slot[home]))' \subseteq ch'
      BY <2>0, <3>1 DEF Covered, Changes, Larger
    <3> QED
      BY <2>0, <3>1, <3>4, <3>5, <3>6 DEF Covered
  <2>5. CASE Checkpoint
    <3>1. /\ on # None /\ buf = {} /\ ck' = rd /\ UNCHANGED <<on, rd, buf, ch, home, resume>>
          /\ slot' = slot \/ (on \in Nodes /\ on = home /\ slot' = [slot EXCEPT ![home] = rd])
      BY <2>5 DEF Checkpoint, Attached
    <3>2. slot'[home] = slot[home] \/ (slot[home] # NoSlot /\ slot'[home] = rd)
      BY <3>1 DEF Attached
    <3> SUFFICES ASSUME slot[home] # NoSlot PROVE Covered'
      BY <3>1, <3>2 DEF Covered
    <3>3. Larger(rd, slot'[home]) \in {rd, Larger(ck, slot[home]), slot[home]}
      BY <1>1, <3>2 DEF Larger
    <3>4. Changes(home, resume + 1, rd) \subseteq ch
          /\ Changes(home, resume + 1, slot[home]) \subseteq ch
      BY <1>1, <3>1 DEF Covered, Changes, Larger
    <3>5. Larger(rd, slot'[home]) = rd \/ Larger(rd, slot'[home]) = slot[home]
      BY <1>1, <3>2 DEF Larger
    <3>6. Changes(home, resume + 1, Larger(ck, slot[home]))' \subseteq ch
      BY <2>0, <3>1, <3>4, <3>5 DEF Changes, Larger
    <3>7. Changes(home, resume + 1, rd)' \subseteq ch
      BY <2>0, <3>1, <3>4 DEF Changes
    <3> QED
      BY <2>0, <3>1, <3>2, <3>6, <3>7 DEF Covered, Larger
  <2>6. ASSUME NEW t \in Tables, Deliver(t) PROVE Covered'
    <3>1. ch \subseteq ch' /\ ch \cup buf = ch' \cup buf' /\ UNCHANGED <<slot, on, rd, ck, home, resume>>
      BY <2>6 DEF Deliver
    <3> QED
      BY <2>0, <3>1 DEF Covered, Changes
  <2> QED
    BY <1>5, <2>1, <2>2, <2>3, <2>4, <2>5, <2>6 DEF Pipeline
<1>6. CASE StopPrimary
  <2>1. before \in Nodes
    BY <1>6, StepNumbers DEF StopPrimary, Target
  <2>2. on' = (IF on = before THEN Broken ELSE on)
        /\ UNCHANGED <<wal, slot, rd, ck, resume, ch, buf, home>>
    BY <1>6 DEF StopPrimary, Leave, unread
  <2> QED
    BY <1>0, <1>2, <2>1, <2>2
<1>7. CASE Restore
  <2>1. /\ UNCHANGED <<wal, on, rd, ck, resume, ch, buf, home>>
        /\ slot' = slot \/ slot' = [slot EXCEPT ![before] = NoSlot]
    BY <1>7 DEF Restore, Return, flink, unread
  <2>2. slot'[home] \in {slot[home], NoSlot}
    BY <1>1, <2>1 DEF Attached
  <2> QED
    BY <1>2, <2>1, <2>2
<1>8. CASE Abort \/ UNCHANGED vars
  BY <1>2, <1>8 DEF Abort, vars, database, flink, unread
<1>9. CASE \/ AskNode \/ CurrentPrimary \/ WaitForNewPrimary \/ Await
           \/ CountPostgres \/ CompareCounts \/ Pass
  BY <1>2, <1>8, <1>9 DEF AskNode, CurrentPrimary, WaitForNewPrimary, Await, CountPostgres,
    CompareCounts, Pass, world, database, flink, unread
<1>10. CASE InsertProbe
  BY <1>3, <1>8, <1>10 DEF InsertProbe, Commit, flink, Tables
<1> QED
  BY <1>4, <1>5, <1>6, <1>7, <1>8, <1>9, <1>10 DEF Next, TimeOut, Raise, RunTest

-----------------------------------------------------------------------------
(* Every run's invariant.                                                    *)

LEMMA GInitHolds == Init => GInv
<1> SUFFICES ASSUME Init PROVE GInv
  OBVIOUS
<1>1. First \in Nodes /\ None \notin Nodes /\ MaxOrders \in Nat /\ Broken \notin Nodes
  BY FailoverAssumption
<1>2. history = <<>> /\ wal = [n \in Nodes |-> <<>>]
      /\ Len(<<>>) = 0 /\ <<>> \in Seq(Nat \ {0}) /\ DOMAIN <<>> = {}
  BY DEF Init
<1>3. Bounded
  <2>1. \A t : Of(t) = {}
    BY <1>2 DEF Of
  <2> QED
    BY <1>1, <2>1, FS_EmptySet DEF Bounded
<1>4. InTurn
  BY <1>2 DEF InTurn
<1>5. NoSlot \in Int /\ NoSlot \notin Nat
  BY DEF NoSlot
<1>6. slot \in [Nodes -> Int] /\ slot[First] = 0 /\ \A n \in Nodes : slot[n] = NoSlot \/ slot[n] = 0
  BY <1>1, <1>5 DEF Init
<1>7. Within
  BY <1>2, <1>6 DEF Init, Within
<1>8. Target /\ Flags
  <2>1. Target
    BY <1>1 DEF Init, Target
  <2>2. Flags
    BY Zenon DEF Init, Flags
  <2> QED
    BY <2>1, <2>2
<1>9. OneKey
  BY DEF Init, OneKey, Primary
<1>10. Attached
  BY <1>1, <1>5, <1>6, FailoverAssumption DEF Init, Attached, Primary
<1>11. Covered
  BY <1>1, <1>2, <1>6 DEF Init, Covered, Changes, Larger
<1> QED
  BY <1>3, <1>4, <1>7, <1>8, <1>9, <1>10, <1>11 DEF GInv

LEMMA GInvariance == Spec => [](Types /\ GInv)
<1>1. Init => Types /\ GInv
  BY InitHolds, GInitHolds DEF IInv
<1>2. Types /\ GInv /\ [Next]_vars => Types' /\ GInv'
  BY TypesKept, BoundedKept, InTurnKept, WithinKept, TargetKept, FlagsKept, OneKeyKept, AttachedKept,
    CoveredKept DEF GInv
<1> QED
  BY <1>1, <1>2, PTL DEF Spec

\* For any nodes, killed ones included: the state is what the code expects, no two
\* nodes are primaries at once, and no position or change lies outside the history,
\* although logs part and are rewound.
THEOREM TypeCorrect == Spec => []TypeOK
<1>1. Types /\ GInv => TypeOK
  <2> SUFFICES ASSUME Types, GInv PROVE TypeOK
    OBVIOUS
  <2>1. Len(history) \in 0..MaxChanges /\ MaxChanges \in Nat
    BY HistoryBounded DEF GInv, Types
  <2>2. wal \in [Nodes -> Seq(1..MaxChanges)]
    <3>1. ASSUME NEW n \in Nodes PROVE wal[n] \in Seq(1..MaxChanges)
      <4>1. wal[n] \in Seq(Nat \ {0}) /\ \A i \in 1..Len(wal[n]) : wal[n][i] \in 1..MaxChanges
        BY <2>1 DEF GInv, InTurn
      <4>2. PICK w : w = wal[n]
        OBVIOUS
      <4>3. w \in Seq(Nat \ {0}) /\ \A i \in 1..Len(w) : w[i] \in 1..MaxChanges
        BY <4>1, <4>2
      <4>4. w \in Seq(1..MaxChanges)
        <5>1. PICK S : S = 1..MaxChanges
          OBVIOUS
        <5>2. \A i \in 1..Len(w) : w[i] \in S
          BY <4>3, <5>1
        <5>3. w \in Seq(S)
          BY <4>3, <5>2
        <5> QED
          BY <5>1, <5>3
      <4> QED
        BY <4>2, <4>4
    <3> QED
      BY <3>1 DEF GInv, InTurn
  <2>3. slot \in [Nodes -> NoSlot..MaxChanges]
    <3>1. ASSUME NEW n \in Nodes PROVE slot[n] \in NoSlot..MaxChanges
      BY <2>1 DEF GInv, Within, NoSlot
    <3> QED
      BY <3>1 DEF GInv, Attached
  <2>4. tookOver \in Never..MaxChanges
    BY <2>1 DEF GInv, Within, Never
  <2>5. published \in 0..MaxChanges /\ {rd, ck, resume} \subseteq 0..MaxChanges
    BY <2>1 DEF GInv, Within
  <2>6. Len(Steps) = 14
    BY StepNumbers
  <2>7. {stopped, killed, quiet} \subseteq BOOLEAN
    BY Zenon DEF GInv, Flags
  <2>8. buf \cup ch \cup probe \cup counted \subseteq 1..Len(history)
    BY DEF GInv, Within
  <2>9. {key, routed, on, home, before} \subseteq Nodes \cup {None, Broken} /\ seen \subseteq Nodes
        /\ job \in {"RUNNING", "RESTARTING", "FAILED"}
    BY DEF GInv, Types, Attached, Target
  <2>10. at \in 1..(Len(Steps) + 1)
    BY <2>6 DEF Types
  <2> QED
    BY <2>1, <2>2, <2>3, <2>4, <2>5, <2>7, <2>8, <2>9, <2>10 DEF GInv, Types, OneKey, TypeOK
<1> QED
  BY <1>1, GInvariance, PTL

\* For any nodes, killed ones included: whatever the sources skip on a promoted node
\* lies before the slot that they created there, over any restarts of the job.
THEOREM NothingMissedAfterSlot == Spec => []MissedOnlyBeforeSlot
<1>1. Types /\ GInv => MissedOnlyBeforeSlot
  <2> SUFFICES ASSUME GInv, on \in Nodes PROVE Changes(on, resume + 1, rd) \subseteq ch \cup buf
    BY DEF MissedOnlyBeforeSlot
  <2>1. on = home /\ slot[home] # NoSlot /\ on # None
    BY FailoverAssumption DEF GInv, Attached
  <2> QED
    BY <2>1 DEF GInv, Covered
<1> QED
  BY <1>1, GInvariance, PTL
=============================================================================
