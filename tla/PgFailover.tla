------------------------------- MODULE PgFailover -------------------------------
(***************************************************************************)
(* PostgreSQL under Patroni behind HAProxy, the Flink job that reads it    *)
(* through HAProxy, and postgres_failover_test.py, which stops the primary *)
(* and judges what follows.                                                *)
(*                                                                         *)
(* Replication is asynchronous (patroni.yml.template sets no synchronous   *)
(* mode): a change is acknowledged when the primary has it.  Patroni keeps *)
(* no logical slots (no "slots" section): a slot exists on the node where  *)
(* a source created it.  Patroni, HAProxy, PostgreSQL and Flink are not    *)
(* part of the repository: they are modelled from how its files configure  *)
(* them.  Network partitions are not modelled.  What the sink does with    *)
(* its buffer between checkpoints is CdcPipeline's matter.                 *)
(***************************************************************************)
EXTENDS Integers, Sequences, FiniteSets, SequencesExt

CONSTANTS
  Endpoints,    \* PATRONI_ENDPOINTS: the nodes, in the order the test asks them
  None,         \* no node
  MaxLag,       \* maximum_lag_on_failover, in changes
  First,        \* the primary when the test begins
  MaxOrders     \* bound: changes the workload commits

Nodes == ToSet(Endpoints)
Broken == "broken"

ASSUME FailoverAssumption ==
  /\ Endpoints \in Seq(Nodes) /\ None \notin Nodes /\ Broken \notin Nodes \cup {None}
  /\ First \in Nodes /\ MaxLag \in Nat /\ MaxOrders \in Nat

\* The probe table, which the comparison leaves out, and one of those it compares.
Tables == {"cdc_latency_probe", "orders"}
\* run_test inserts two probes.
MaxChanges == MaxOrders + 2
NoSlot == -1
Never == -1

VARIABLES
  history,     \* the table of every change ever acknowledged; a change is its index
  wal,         \* the changes each node has, in its log's order
  role,        \* each node's role
  key,         \* the holder of the leader key in etcd
  published,   \* the position that the leader which is gone had last written to etcd
  routed,      \* the node HAProxy sends the write endpoint's sessions to
  slot,        \* confirmed position of the slots on each node
  job,         \* the Flink job as /jobs/overview shows it
  on,          \* the node its sources are connected to, Broken, or None
  rd,          \* log position the sources have read up to
  buf,         \* changes read and not yet in ClickHouse
  ck,          \* log position of the last completed checkpoint
  ch,          \* changes ClickHouse has
  \* postgres_failover_test.py
  at,          \* the step of run_test
  asked,       \* nodes asked in the current round of patroni_statuses
  seen,        \* those of them that called themselves primary
  before,      \* primary_before
  stopped,     \* stopped_primary is set
  probe,       \* the changes that wrote the id of the probe last inserted
  counted,     \* the rows of the compared table that PostgreSQL's count saw
  status,
  \* History.
  home,        \* the node the sources last connected to
  resume,      \* where they began reading its log
  tookOver,    \* changes acknowledged when a node was first promoted since the
               \* script saw the primary, or Never
  killed,      \* the stopped node ended without handing its log to the replicas
  quiet        \* no change was committed since PostgreSQL's rows were counted

database == <<history, wal, role, key, published, routed>>
unread == <<job, rd, buf, ck, ch, home, resume>>
flink == <<unread, on>>
script == <<at, asked, seen, before, stopped, probe, counted, status>>
vars == <<database, slot, flink, script, tookOver, killed, quiet>>

Init ==
  /\ history = <<>>
  /\ wal = [n \in Nodes |-> <<>>]
  /\ key = First /\ routed = First /\ on = First /\ home = First
  /\ role = [n \in Nodes |-> IF n = key THEN "primary" ELSE "replica"]
  /\ slot = [n \in Nodes |-> IF n = key THEN 0 ELSE NoSlot]
  /\ published = 0
  /\ job = "RUNNING" /\ buf = {} /\ ch = {}
  /\ rd = 0 /\ ck = 0 /\ resume = 0
  /\ at = 1 /\ asked = 0 /\ seen = {} /\ before = None /\ stopped = FALSE /\ probe = {}
  /\ counted = {} /\ status = "running"
  /\ tookOver = Never /\ killed = FALSE /\ quiet = FALSE

-----------------------------------------------------------------------------
(* PostgreSQL and Patroni.                                                  *)

Primary(n) == role[n] = "primary"
Writable == routed # None /\ Primary(routed)

\* A client commits a change of table t through HAProxy.
Commit(t) ==
  /\ Writable
  /\ history' = Append(history, t)
  /\ wal' = [wal EXCEPT ![routed] = Append(@, Len(history) + 1)]
  /\ quiet' = FALSE
  /\ UNCHANGED <<role, key, published, routed, slot, flink, tookOver, killed>>

Workload ==
  /\ Cardinality({c \in DOMAIN history : history[c] = "orders"}) < MaxOrders
  /\ Commit("orders")
  /\ UNCHANGED script

\* A replica receives what it lacks of the primary's log.
Replicate(n, p) ==
  /\ role[n] = "replica" /\ Primary(p) /\ IsStrictPrefix(wal[n], wal[p])
  /\ wal' = [wal EXCEPT ![n] = wal[p]]
  /\ UNCHANGED <<history, role, key, published, routed, slot, flink, script, tookOver, killed, quiet>>

\* use_pg_rewind: a replica with changes the primary lacks goes back to where the
\* logs part, and its pg_replslot is emptied.
Rewind(n, p) ==
  /\ role[n] = "replica" /\ Primary(p) /\ ~IsPrefix(wal[n], wal[p])
  /\ wal' = [wal EXCEPT ![n] = LongestCommonPrefix({wal[n], wal[p]})]
  /\ slot' = [slot EXCEPT ![n] = NoSlot]
  /\ UNCHANGED <<history, role, key, published, routed, flink, script, tookOver, killed, quiet>>

\* The key of a leader that is gone expires after ttl.
Expire_Any ==
  /\ key # None
  /\ key' = None
  /\ UNCHANGED <<history, wal, role, published, routed, slot, flink, script, tookOver, killed, quiet>>
Expire ==
  /\ key # None /\ role[key] = "down"
  /\ key' = None
  /\ UNCHANGED <<history, wal, role, published, routed, slot, flink, script, tookOver, killed, quiet>>

\* A replica takes the free key if it does not lag too much and no reachable member
\* is ahead of it; a node that still holds its key becomes the primary again.
Healthiest(n) ==
  /\ published - Len(wal[n]) <= MaxLag
  /\ \A m \in Nodes : role[m] = "replica" => Len(wal[m]) <= Len(wal[n])

Promote(n) ==
  /\ role[n] = "replica"
  /\ key = n \/ (key = None /\ Healthiest(n))
  /\ key' = n /\ published' = 0 /\ role' = [role EXCEPT ![n] = "primary"]
  /\ tookOver' = IF status = "running" /\ tookOver = Never THEN Len(history) ELSE tookOver
  /\ UNCHANGED <<history, wal, routed, slot, flink, script, killed, quiet>>

\* SIGTERM: the primary's walsenders finish sending before it ends, and Patroni
\* gives the key back.
StopCleanly_NoWait(n) ==
  /\ key' = IF key = n THEN None ELSE key
  /\ UNCHANGED killed
StopCleanly(n) ==
  /\ Primary(n) => \A m \in Nodes : role[m] = "replica" => wal[m] = wal[n]
  /\ key' = IF key = n THEN None ELSE key
  /\ UNCHANGED killed

\* SIGKILL, when the grace period of docker stop is over first.
Kill(n) == killed' = TRUE /\ UNCHANGED key

\* Every loop_wait the leader writes its position beside its key: what is there when
\* it is gone may be old.
Leave(n) ==
  /\ StopCleanly(n) \/ Kill(n)
  /\ IF Primary(n) THEN published' \in 0..Len(wal[n]) ELSE UNCHANGED published
  /\ role' = [role EXCEPT ![n] = "down"]
  /\ on' = IF on = n THEN Broken ELSE on

\* A node comes back as a replica.  Whether its own slots survive depends on what
\* Patroni finds there.
Return(n) ==
  /\ role' = [role EXCEPT ![n] = "replica"]
  /\ \/ UNCHANGED slot
     \/ slot' = [slot EXCEPT ![n] = NoSlot]

\* HAProxy's checks of /primary: fall 2 and rise 2, on-marked-down shutdown-sessions.
Route ==
  /\ ~Writable
  /\ routed' = IF \E n \in Nodes : Primary(n) THEN CHOOSE n \in Nodes : Primary(n) ELSE None
  /\ routed' # routed
  /\ UNCHANGED <<history, wal, role, key, published, slot, flink, script, tookOver, killed, quiet>>

-----------------------------------------------------------------------------
(* The Flink job.                                                           *)

\* The restart strategy's delay is over, or its failure rate exceeded.
Deploy ==
  /\ job = "RESTARTING"
  /\ job' = "RUNNING"
  /\ UNCHANGED <<database, slot, on, rd, buf, ck, ch, home, resume, script, tookOver, killed, quiet>>

GiveUp ==
  /\ job = "RESTARTING"
  /\ job' = "FAILED"
  /\ UNCHANGED <<database, slot, on, rd, buf, ck, ch, home, resume, script, tookOver, killed, quiet>>

Larger(a, b) == IF a < b THEN b ELSE a

\* The sources connect through HAProxy.  A slot that is missing is created, at the
\* end of the log; reading starts at the checkpoint or the slot, whichever is later.
Attach_WhereItWas ==
  /\ job = "RUNNING" /\ on = None /\ Writable
  /\ on' = routed /\ home' = routed
  /\ slot' = [slot EXCEPT ![routed] = IF @ = NoSlot THEN Len(wal[routed]) ELSE @]
  /\ rd' = Larger(rd, slot'[routed])
  /\ resume' = IF routed # home \/ slot[routed] = NoSlot THEN Larger(ck, slot'[routed]) ELSE resume
  /\ UNCHANGED <<database, job, buf, ck, ch, script, tookOver, killed, quiet>>
Attach ==
  /\ job = "RUNNING" /\ on = None /\ Writable
  /\ on' = routed /\ home' = routed
  /\ slot' = [slot EXCEPT ![routed] = IF @ = NoSlot THEN Len(wal[routed]) ELSE @]
  /\ rd' = Larger(ck, slot'[routed])
  /\ resume' = IF routed # home \/ slot[routed] = NoSlot THEN rd' ELSE resume
  /\ UNCHANGED <<database, job, buf, ck, ch, script, tookOver, killed, quiet>>

\* The changes at positions first..last of node n's log.
Changes(n, first, last) == {wal[n][i] : i \in DOMAIN wal[n] \cap first..last}

\* The sources read on to the end of the log.
Read ==
  /\ on \in Nodes /\ rd < Len(wal[on])
  /\ buf' = buf \cup Changes(on, rd + 1, Len(wal[on]))
  /\ rd' = Len(wal[on])
  /\ UNCHANGED <<database, slot, job, on, ck, ch, home, resume, script, tookOver, killed, quiet>>

\* Each table's sink writes at its own time.
Deliver(t) ==
  /\ \E c \in buf : history[c] = t
  /\ ch' = ch \cup {c \in buf : history[c] = t}
  /\ buf' = {c \in buf : history[c] # t}
  /\ UNCHANGED <<database, slot, job, on, rd, ck, home, resume, script, tookOver, killed, quiet>>

\* A checkpoint completes, the sinks having written what is ahead of its barriers,
\* and is confirmed to the slots if the connection is still there.
Checkpoint ==
  /\ on # None /\ buf = {} /\ ck # rd
  /\ ck' = rd
  /\ slot' = IF on = Broken THEN slot ELSE [slot EXCEPT ![on] = rd]
  /\ UNCHANGED <<database, job, on, rd, buf, ch, home, resume, script, tookOver, killed, quiet>>

\* A lost connection, when it is noticed, or any other failure.
Fail ==
  /\ job = "RUNNING"
  /\ job' = "RESTARTING" /\ on' = None /\ buf' = {}
  /\ UNCHANGED <<database, slot, rd, ck, ch, home, resume, script, tookOver, killed, quiet>>

-----------------------------------------------------------------------------
(* postgres_failover_test.py: run_test, step by step.                       *)

Steps == <<"primary", "write", "flink", "probe", "arrival", "stop", "promotion", "write",
           "flink", "slots", "probe", "arrival", "count", "compare">>
Doing(s) == status = "running" /\ at <= Len(Steps) /\ Steps[at] = s

world == <<database, slot, flink, tookOver, killed, quiet>>

Advance == at' = at + 1 /\ UNCHANGED status

\* An exception ends run_test: its other locals are gone, finally knows the node it
\* has stopped.
Abort ==
  /\ status = "running"
  /\ status' = "FAIL"
  /\ at' = 1 /\ asked' = 0 /\ seen' = {} /\ probe' = {} /\ counted' = {}
  /\ before' = (IF stopped THEN before ELSE None)
  /\ tookOver' = Never /\ quiet' = FALSE
  /\ UNCHANGED <<database, slot, flink, stopped, killed>>

\* Docker, PostgreSQL or ClickHouse fails a call, or the comparison ends with ERROR.
Raise == Abort

\* A wait's deadline is over (patroni_statuses asks every node before it is looked at).
TimeOut ==
  /\ \/ Doing("promotion") /\ asked = 0
     \/ \E s \in {"write", "flink", "slots", "arrival", "count", "compare"} : Doing(s)
  /\ Abort

\* patroni_statuses asks the nodes one after the other.
AskNode ==
  /\ Doing("primary") \/ Doing("promotion")
  /\ asked < Len(Endpoints)
  /\ asked' = asked + 1
  /\ seen' = IF Primary(Endpoints[asked']) THEN seen \cup {Endpoints[asked']} ELSE seen
  /\ tookOver' = IF Doing("primary") /\ Primary(Endpoints[asked']) THEN Never ELSE tookOver
  /\ UNCHANGED <<database, slot, flink, killed, quiet, at, before, stopped, probe, counted, status>>

\* current_primary: exactly one node says that it is the primary, or it raises.
CurrentPrimary ==
  /\ Doing("primary") /\ asked = Len(Endpoints)
  /\ \/ /\ Cardinality(seen) = 1
        /\ before' = (CHOOSE n \in seen : TRUE) /\ asked' = 0 /\ seen' = {}
        /\ Advance
        /\ UNCHANGED <<world, stopped, probe, counted>>
     \/ Cardinality(seen) # 1 /\ Abort

\* wait_for_new_primary asks again until it is another node.
WaitForNewPrimary ==
  /\ Doing("promotion") /\ asked = Len(Endpoints)
  /\ asked' = 0 /\ seen' = {}
  /\ IF Cardinality(seen) = 1 /\ before \notin seen THEN Advance ELSE UNCHANGED <<at, status>>
  /\ UNCHANGED <<world, before, stopped, probe, counted>>

\* What the other waits look for, until their deadline.
Awaited ==
  CASE Steps[at] = "write"   -> Writable
    [] Steps[at] = "flink"   -> job = "RUNNING"
    [] Steps[at] = "slots"   -> Writable /\ on = routed
    [] Steps[at] = "arrival" -> probe \cap ch # {}
    [] OTHER -> FALSE

Await ==
  /\ \E s \in {"write", "flink", "slots", "arrival"} : Doing(s)
  /\ Awaited /\ Advance
  /\ UNCHANGED <<world, asked, seen, before, stopped, probe, counted>>

\* probe_id is a bigserial: when the records of the sequence were lost with those of
\* the probes, an id is given a second time.
LostProbes == {c \in DOMAIN history : history[c] = "cdc_latency_probe"} \ ToSet(wal[routed])

InsertProbe_FirstId ==
  /\ Doing("probe")
  /\ \/ /\ Commit("cdc_latency_probe")
        /\ probe' = IF probe = {} THEN {Len(history')} ELSE probe
        /\ Advance
        /\ UNCHANGED <<asked, seen, before, stopped, counted>>
     \/ ~Writable /\ Abort
InsertProbe ==
  /\ Doing("probe")
  /\ \/ /\ Commit("cdc_latency_probe")
        /\ \E lost \in {{}} \cup {{c} : c \in LostProbes} : probe' = {Len(history')} \cup lost
        /\ Advance
        /\ UNCHANGED <<asked, seen, before, stopped, counted>>
     \/ ~Writable /\ Abort

\* docker stop, which returns when the container has ended.
StopPrimary ==
  /\ Doing("stop")
  /\ Leave(before)
  /\ stopped' = TRUE
  /\ Advance
  /\ UNCHANGED <<history, wal, routed, slot, unread, tookOver, quiet,
                 asked, seen, before, probe, counted>>

\* run_validation: the comparison counts in PostgreSQL, then in ClickHouse, and
\* does both again until the counts agree or its deadline is over.
Compared(changes) == {c \in changes : history[c] = "orders"}

CountPostgres ==
  /\ Doing("count") /\ Writable
  /\ counted' = Compared(ToSet(wal[routed]))
  /\ quiet' = TRUE
  /\ Advance
  /\ UNCHANGED <<database, slot, flink, tookOver, killed, asked, seen, before, stopped, probe>>

CompareCounts_Lenient ==
  /\ Doing("compare")
  /\ \/ Advance
     \/ Cardinality(Compared(ch)) # Cardinality(counted) /\ at' = at - 1 /\ UNCHANGED status
  /\ UNCHANGED <<world, asked, seen, before, stopped, probe, counted>>
CompareCounts ==
  /\ Doing("compare")
  /\ IF Cardinality(Compared(ch)) = Cardinality(counted) THEN Advance
     ELSE at' = at - 1 /\ UNCHANGED status
  /\ UNCHANGED <<world, asked, seen, before, stopped, probe, counted>>

\* --skip-validation ends with the second probe's arrival.
Pass ==
  /\ status = "running" /\ at \in {Len(Steps) - 1, Len(Steps) + 1}
  /\ status' = "PASS"
  /\ UNCHANGED <<world, at, asked, seen, before, stopped, probe, counted>>

\* finally: the stopped node is started again.
Restore_OnPass ==
  /\ status = "PASS" /\ stopped
  /\ stopped' = FALSE /\ before' = None
  /\ Return(before)
  /\ UNCHANGED <<history, wal, key, published, routed, flink, tookOver, killed, quiet,
                 at, asked, seen, probe, counted, status>>
Restore ==
  /\ status # "running" /\ stopped
  /\ stopped' = FALSE /\ before' = None
  /\ Return(before)
  /\ UNCHANGED <<history, wal, key, published, routed, flink, tookOver, killed, quiet,
                 at, asked, seen, probe, counted, status>>

-----------------------------------------------------------------------------
Elect == Expire \/ Route \/ \E n \in Nodes : Promote(n)

Cluster ==
  \/ Workload \/ Elect
  \/ \E n, p \in Nodes : Replicate(n, p) \/ Rewind(n, p)

Pipeline ==
  Deploy \/ GiveUp \/ Attach \/ Read \/ Checkpoint \/ Fail \/ \E t \in Tables : Deliver(t)

RunTest ==
  \/ AskNode \/ CurrentPrimary \/ WaitForNewPrimary \/ Await \/ InsertProbe \/ StopPrimary
  \/ CountPostgres \/ CompareCounts \/ Pass \/ Restore

Next == Cluster \/ Pipeline \/ RunTest \/ TimeOut \/ Raise

Spec == Init /\ [][Next]_vars

\* The script goes on and its deadlines pass; a key that is not refreshed expires,
\* members run for a free key, and HAProxy goes on checking.
Fairness ==
  /\ WF_vars(RunTest) /\ SF_vars(TimeOut)
  /\ WF_vars(Elect)

FairSpec == Spec /\ Fairness

-----------------------------------------------------------------------------
(* Properties.                                                              *)

\* The type invariant.  Two nodes are never primaries at once: the key is given to
\* one, and a leader that loses it is down.
TypeOK ==
  /\ history \in Seq(Tables) /\ Len(history) \in 0..MaxChanges
  /\ wal \in [Nodes -> Seq(1..MaxChanges)]
  /\ role \in [Nodes -> {"primary", "replica", "down"}]
  /\ {key, routed, on, home, before} \subseteq Nodes \cup {None, Broken}
  /\ \A n \in Nodes : Primary(n) => key = n
  /\ published \in 0..MaxChanges
  /\ slot \in [Nodes -> NoSlot..MaxChanges]
  /\ job \in {"RUNNING", "RESTARTING", "FAILED"}
  /\ {rd, ck, resume} \subseteq 0..MaxChanges
  /\ buf \cup ch \cup probe \cup counted \subseteq 1..Len(history)
  /\ at \in 1..(Len(Steps) + 1) /\ asked \in 0..Len(Endpoints) /\ seen \subseteq Nodes
  /\ {stopped, killed, quiet} \subseteq BOOLEAN
  /\ status \in {"running", "PASS", "FAIL"} /\ tookOver \in Never..MaxChanges

\* What a source skips on a promoted node lies before the slot it created there: from
\* where it began on that node, every change it has passed is in ClickHouse or on the
\* way there, over any number of restarts of the job.
MissedOnlyBeforeSlot ==
  on \in Nodes => Changes(on, resume + 1, rd) \subseteq ch \cup buf

\* Without a killed node no acknowledged change is lost: docker stop lets the primary
\* send its log to the replicas first, although replication is asynchronous.
CleanFailoverLosesNothing ==
  ~killed => \A n \in Nodes : Primary(n) => ToSet(wal[n]) = DOMAIN history

\* What write_report says a PASS proves: a probe inserted after another node was
\* promoted has gone through to ClickHouse (unless records of probes were lost: then
\* the id may be that of a probe from before).
PassProvesPropagation ==
  status = "PASS" /\ ~killed =>
    tookOver # Never /\ \E c \in probe \cap ch : c > tookOver

\* A PASS with the comparison, after a clean failover and with nothing written since
\* PostgreSQL was counted: ClickHouse has every row, what was written between the
\* promotion and the new slot too.
PassWithComparisonMissesNothing ==
  status = "PASS" /\ at > Len(Steps) /\ ~killed /\ quiet => Compared(DOMAIN history) \subseteq ch

\* The write endpoint has a writable primary again, even when the stop left every
\* replica too far behind to be promoted.
WriteEndpointReturns == []<>Writable
=============================================================================
