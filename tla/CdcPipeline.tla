----------------------------- MODULE CdcPipeline -----------------------------
(***************************************************************************)
(* The path of one table from PostgreSQL to ClickHouse: the WAL, the       *)
(* table's logical replication slot, the Flink job with its checkpoints    *)
(* and restarts, and the ReplacingMergeTree(updated_at) sink.  The nine    *)
(* tables have a slot and a sink each and share nothing but the job.       *)
(*                                                                         *)
(* A row is known by its key and its version, the value of updated_at; the *)
(* other columns are abstracted away.  Deletes are soft (deleted_at), so   *)
(* they are updates.  Flink, its two connectors and ClickHouse are not     *)
(* part of the repository: they are modelled from how the job SQL, the     *)
(* compose file and the DDL configure them.                                *)
(***************************************************************************)
EXTENDS Integers, Sequences, UpdatedAt

CONSTANTS
  Keys,          \* primary keys of the table
  Clocks,        \* the readings the primary's clock may give, in any order
  MaxWal,        \* bound: number of changes
  MaxFailures,   \* restart-strategy.failure-rate.max-failures-per-interval
  MaxLosses      \* bound: JobManager losses

ASSUME CdcAssumption ==
  /\ Clocks \subseteq Nat \ {0}
  /\ MaxWal \in Nat /\ MaxFailures \in Nat /\ MaxLosses \in Nat

None == -1       \* no slot, no checkpoint, no barrier

VARIABLES
  db,            \* PostgreSQL: the committed version of each row, 0 if there is none
  wal,           \* the changes of the table in commit order
  slot,          \* confirmed position of the logical slot: WAL up to it may be recycled
  job,           \* state of the Flink job
  pos,           \* WAL position the source has read up to
  buffer,        \* rows the sink has received and not yet written
  barrier,       \* source position of the checkpoint in progress
  ck,            \* source position of the last completed checkpoint
  ch,            \* ClickHouse: the versions stored for each key
  recent,        \* failures within the failure-rate interval
  losses

vars == <<db, wal, slot, job, pos, buffer, barrier, ck, ch, recent, losses>>
flink == <<job, pos, buffer, barrier, ck, recent, losses>>

Rows == [key : Keys, ver : Nat \ {0}, at : Nat]

Init ==
  /\ db = [k \in Keys |-> 0]
  /\ wal = <<>>
  /\ slot = None
  /\ job = "none"
  /\ pos = 0
  /\ buffer = {}
  /\ barrier = None
  /\ ck = None
  /\ ch = [k \in Keys |-> {}]
  /\ recent = 0
  /\ losses = 0

-----------------------------------------------------------------------------
(* PostgreSQL.                                                              *)

\* An INSERT takes CURRENT_TIMESTAMP, an UPDATE what the trigger computes.
Write(k) ==
  /\ Len(wal) < MaxWal
  /\ \E c \in Clocks : LET v == IF db[k] = 0 THEN c ELSE NextUpdatedAt(db[k], c) IN
       /\ db' = [db EXCEPT ![k] = v]
       /\ wal' = Append(wal, [key |-> k, ver |-> v])
  /\ UNCHANGED <<slot, flink, ch>>

-----------------------------------------------------------------------------
(* The Flink job.                                                           *)

\* A source without state: it creates its slot if there is none, reads a
\* consistent snapshot of the table and goes on from the end of the WAL.
Snapshot ==
  /\ buffer' = {[key |-> k, ver |-> db[k], at |-> Len(wal)] : k \in {x \in Keys : db[x] # 0}}
  /\ pos' = Len(wal)
  /\ slot' = IF slot = None THEN Len(wal) ELSE slot

\* flink-job-submitter: a new job knows nothing of an earlier job's checkpoints.
Submit ==
  /\ job \in {"none", "failed"}
  /\ job' = "running"
  /\ Snapshot
  /\ ck' = None /\ barrier' = None /\ recent' = 0
  /\ UNCHANGED <<db, wal, ch, losses>>

\* The source hands the next change to the sink.
Read ==
  /\ job = "running" /\ pos < Len(wal)
  /\ buffer' = buffer \cup {[key |-> wal[pos + 1].key, ver |-> wal[pos + 1].ver, at |-> pos + 1]}
  /\ pos' = pos + 1
  /\ UNCHANGED <<db, wal, slot, job, barrier, ck, ch, recent, losses>>

\* Store rows in ClickHouse: sink.update-strategy insert appends a version.
Stored(rows) == [k \in Keys |-> ch[k] \cup {r.ver : r \in {x \in rows : x.key = k}}]

\* The sink writes a batch, which may be any part of what it holds.
Flush(rows) ==
  /\ job = "running" /\ rows # {}
  /\ ch' = Stored(rows)
  /\ buffer' = buffer \ rows
  /\ UNCHANGED <<db, wal, slot, job, pos, barrier, ck, recent, losses>>

\* The barrier leaves the source; one checkpoint at a time.
BeginCheckpoint ==
  /\ job = "running" /\ barrier = None
  /\ barrier' = pos
  /\ UNCHANGED <<db, wal, slot, job, pos, buffer, ck, ch, recent, losses>>

\* What the ClickHouse connector is assumed to do at a barrier, before it acknowledges
\* the checkpoint: write out every row ahead of it.
SinkFlushed == \A r \in buffer : r.at > barrier

CompleteCheckpoint_NoFlush ==
  /\ job = "running" /\ barrier # None
  /\ ck' = barrier /\ barrier' = None
  /\ UNCHANGED <<db, wal, slot, job, pos, buffer, ch, recent, losses>>
CompleteCheckpoint ==
  /\ job = "running" /\ barrier # None
  /\ SinkFlushed
  /\ ck' = barrier /\ barrier' = None
  /\ UNCHANGED <<db, wal, slot, job, pos, buffer, ch, recent, losses>>

\* A checkpoint that times out: tolerable, the job goes on without it.
AbandonCheckpoint ==
  /\ job = "running" /\ barrier # None
  /\ barrier' = None
  /\ UNCHANGED <<db, wal, slot, job, pos, buffer, ck, ch, recent, losses>>

\* The source confirms the checkpointed position to the slot.
ConfirmSlot_ReadPosition ==
  /\ job = "running" /\ slot < pos
  /\ slot' = pos
  /\ UNCHANGED <<db, wal, flink, ch>>
ConfirmSlot ==
  /\ job = "running" /\ slot < ck
  /\ slot' = ck
  /\ UNCHANGED <<db, wal, flink, ch>>

-----------------------------------------------------------------------------
(* Failures.                                                                *)

\* A TaskManager restart, a dropped connection, a sink error: what the sink
\* held is gone.  The failure-rate strategy restarts the job or gives it up.
Fail ==
  /\ job = "running"
  /\ job' = IF recent < MaxFailures THEN "restarting" ELSE "failed"
  /\ recent' = IF recent < MaxFailures THEN recent + 1 ELSE recent
  /\ buffer' = {} /\ barrier' = None
  /\ UNCHANGED <<db, wal, slot, pos, ck, ch, losses>>

\* Recovery from the last completed checkpoint, or from nothing.
Restart_WhereItWas ==
  /\ job = "restarting"
  /\ job' = "running"
  /\ IF ck = None THEN Snapshot ELSE UNCHANGED <<pos, buffer, slot>>
  /\ UNCHANGED <<db, wal, barrier, ck, ch, recent, losses>>
Restart ==
  /\ job = "restarting"
  /\ job' = "running"
  /\ IF ck = None THEN Snapshot ELSE pos' = ck /\ UNCHANGED <<buffer, slot>>
  /\ UNCHANGED <<db, wal, barrier, ck, ch, recent, losses>>

\* The failure-rate interval passes without a failure.
IntervalPasses ==
  /\ recent > 0 /\ job = "running"
  /\ recent' = 0
  /\ UNCHANGED <<db, wal, slot, job, pos, buffer, barrier, ck, ch, losses>>

\* A JobManager restart forgets the job: there is no JobManager HA.
LoseJobManager ==
  /\ job # "none" /\ losses < MaxLosses
  /\ job' = "none" /\ losses' = losses + 1
  /\ buffer' = {} /\ barrier' = None /\ ck' = None /\ recent' = 0
  /\ UNCHANGED <<db, wal, slot, pos, ch>>

-----------------------------------------------------------------------------
Next ==
  \/ \E k \in Keys : Write(k)
  \/ Submit \/ Read \/ BeginCheckpoint \/ CompleteCheckpoint \/ AbandonCheckpoint \/ ConfirmSlot
  \/ \E rows \in SUBSET buffer : Flush(rows)
  \/ Fail \/ Restart \/ IntervalPasses \/ LoseJobManager

Spec == Init /\ [][Next]_vars

\* A running job reads and writes on, and a restarting one restarts after its
\* delay.  Nothing makes writes, checkpoints, failures or resubmissions happen.
Fairness ==
  /\ WF_vars(Read)
  /\ WF_vars(Flush(buffer))
  /\ WF_vars(Restart)

FairSpec == Spec /\ Fairness

-----------------------------------------------------------------------------
(* Properties.                                                              *)

\* Every variable has its type; a checkpoint in progress is never ahead of the
\* position its own attempt of the job has read, whatever failed in between.
TypeOK ==
  /\ db \in [Keys -> Nat]
  /\ wal \in Seq([key : Keys, ver : Nat \ {0}])
  /\ slot \in Nat \cup {None}
  /\ job \in {"none", "running", "restarting", "failed"}
  /\ pos \in 0..Len(wal)
  /\ buffer \subseteq Rows
  /\ barrier \in 0..pos \cup {None}
  /\ ck \in 0..Len(wal) \cup {None}
  /\ ch \in [Keys -> SUBSET (Nat \ {0})]
  /\ recent \in 0..MaxFailures
  /\ losses \in 0..MaxLosses

\* SELECT ... FINAL: the stored row with the highest version.
Final(k) == IF ch[k] = {} THEN 0 ELSE CHOOSE v \in ch[k] : \A u \in ch[k] : u <= v

\* Of two changes of one row the one committed later has the higher version, with
\* any clock: otherwise ReplacingMergeTree would keep the wrong one for ever.
VersionsFollowCommits ==
  \A i, j \in 1..Len(wal) : i < j /\ wal[i].key = wal[j].key => wal[i].ver < wal[j].ver

\* A completed checkpoint covers only changes ClickHouse already has, or has newer
\* versions of: recovery starts at ck and will never send them again.
CheckpointIsDurable ==
  ck # None => \A i \in 1..ck : \E v \in ch[wal[i].key] : v >= wal[i].ver

\* While a job runs, every change it has read past is in ClickHouse or on its way,
\* through checkpoints, lost buffers, replays and snapshots taken again.
NothingLost ==
  job = "running" => \A i \in 1..pos :
    \/ \E v \in ch[wal[i].key] : v >= wal[i].ver
    \/ \E r \in buffer : r.key = wal[i].key /\ r.ver >= wal[i].ver

\* The slot never confirms what recovery still needs: PostgreSQL may recycle the
\* WAL up to the slot, and a restart reads on from ck.
RestartPointRetained ==
  /\ job = "running" => slot <= pos
  /\ job \in {"running", "restarting"} /\ ck # None => slot <= ck

\* If the job stays up from some point on, ClickHouse ends with PostgreSQL's rows.
CatchesUp == <>[](job = "running") => <>[](\A k \in Keys : Final(k) = db[k])

\* A reader of the sink sees committed rows that only move forward, whatever is
\* delivered twice, late or out of order.
Sync == INSTANCE LatestState
        WITH committed <- [k \in Keys |-> {wal[i].ver : i \in {j \in 1..Len(wal) : wal[j].key = k}}],
             view <- [k \in Keys |-> Final(k)]
ImplementsLatestState == Sync!Spec
=============================================================================
