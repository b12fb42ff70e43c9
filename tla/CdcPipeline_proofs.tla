-------------------------- MODULE CdcPipeline_proofs --------------------------
(***************************************************************************)
(* Proofs about UpdatedAt and CdcPipeline for any keys, clock readings and *)
(* bounds: the versions a row gets, what checkpoints and restarts keep,    *)
(* and that the pipeline implements LatestState.                           *)
(***************************************************************************)
EXTENDS CdcPipeline, SequenceTheorems, WellFoundedInduction, TLAPS

-----------------------------------------------------------------------------
(* The trigger.                                                             *)

\* The squeezed time of a clock reading is a positive number of microseconds, and
\* the trigger's result is above the row's previous version whatever the clock reads.
LEMMA SafeTimestampType == \A raw \in Nat : SafeTimestamp(raw) \in Nat
<1> SUFFICES ASSUME NEW raw \in Nat PROVE SafeTimestamp(raw) \in Nat
  OBVIOUS
<1> DEFINE q == raw \div Second  r == raw % Second  f == (r * 9) \div 10
<1>1. Second \in Nat \ {0}
  BY DEF Second
<1>2. q \in Nat /\ r \in Nat
  <2>1. \A n \in Nat, d \in Nat \ {0} : n \div d \in Nat /\ n % d \in Nat
    BY SMT
  <2> QED BY <1>1, <2>1
<1>3. f \in Nat
  <2> HIDE DEF r
  <2>1. r * 9 \in Nat
    BY <1>2
  <2> QED BY <2>1
<1>4. q * Second \in Nat
  BY <1>1, <1>2, SMT
<1>5. SafeTimestamp(raw) = q * Second + 100000 + f
  BY DEF SafeTimestamp
<1> HIDE DEF q, r, f
<1> QED BY <1>3, <1>4, <1>5

\* NextUpdatedAt, the body of set_updated_at, moves a row's version forward.
THEOREM TriggerAdvances ==
  ASSUME NEW old \in Nat, NEW raw \in Nat
  PROVE  NextUpdatedAt(old, raw) \in Nat /\ NextUpdatedAt(old, raw) > old
<1>1. SafeTimestamp(raw) \in Nat
  BY SafeTimestampType
<1> QED BY <1>1 DEF NextUpdatedAt

-----------------------------------------------------------------------------
(* Types.                                                                   *)

\* What a write appends: a version above the row's current one.
LEMMA WriteVersion ==
  ASSUME TypeOK, NEW k \in Keys, Write(k)
  PROVE  \E v \in Nat \ {0} :
           /\ v > db[k] /\ db' = [db EXCEPT ![k] = v]
           /\ wal' = Append(wal, [key |-> k, ver |-> v])
<1>1. PICK c \in Clocks :
        LET v == IF db[k] = 0 THEN c ELSE NextUpdatedAt(db[k], c) IN
          /\ db' = [db EXCEPT ![k] = v]
          /\ wal' = Append(wal, [key |-> k, ver |-> v])
  BY DEF Write
<1>2. c \in Nat /\ c # 0 /\ db[k] \in Nat
  BY CdcAssumption DEF TypeOK
<1>3. NextUpdatedAt(db[k], c) \in Nat /\ NextUpdatedAt(db[k], c) > db[k]
  BY <1>2, TriggerAdvances
<1> DEFINE v == IF db[k] = 0 THEN c ELSE NextUpdatedAt(db[k], c)
<1>4. v \in Nat \ {0} /\ v > db[k]
  BY <1>2, <1>3
<1>5. db' = [db EXCEPT ![k] = v] /\ wal' = Append(wal, [key |-> k, ver |-> v])
  BY <1>1
<1> HIDE DEF v
<1> QED BY <1>4, <1>5

LEMMA SnapshotType ==
  ASSUME TypeOK, Snapshot, UNCHANGED wal
  PROVE  slot' \in Nat \cup {None} /\ pos' \in 0..Len(wal') /\ buffer' \subseteq Rows
<1>1. Len(wal) \in Nat
  BY DEF TypeOK
<1>2. buffer' \subseteq Rows
  BY <1>1 DEF TypeOK, Snapshot, Rows
<1> QED BY <1>1, <1>2 DEF TypeOK, Snapshot

\* Every action preserves the types; for Fail and Restart this includes that no
\* checkpoint is in progress when the source's position goes back.
LEMMA TypeStep == TypeOK /\ (job # "running" => barrier = None) /\ [Next]_vars => TypeOK'
<1> SUFFICES ASSUME TypeOK, job # "running" => barrier = None, [Next]_vars PROVE TypeOK'
  OBVIOUS
<1>a. Len(wal) \in Nat
  BY DEF TypeOK
<1>1. ASSUME NEW k \in Keys, Write(k) PROVE TypeOK'
  <2>1. PICK v \in Nat \ {0} :
          db' = [db EXCEPT ![k] = v] /\ wal' = Append(wal, [key |-> k, ver |-> v])
    BY <1>1, WriteVersion
  <2>2. db' \in [Keys -> Nat]
    BY <2>1 DEF TypeOK
  <2>3. wal' \in Seq([key : Keys, ver : Nat \ {0}]) /\ Len(wal') = Len(wal) + 1
    BY <2>1 DEF TypeOK
  <2>4. UNCHANGED <<slot, job, pos, buffer, barrier, ck, ch, recent, losses>>
    BY <1>1 DEF Write, flink
  <2>5. pos' \in 0..Len(wal') /\ ck' \in 0..Len(wal') \cup {None}
    BY <1>a, <2>3, <2>4 DEF TypeOK
  <2> QED BY <2>2, <2>3, <2>4, <2>5 DEF TypeOK
<1>2. CASE Submit
  <2>1. slot' \in Nat \cup {None} /\ pos' \in 0..Len(wal') /\ buffer' \subseteq Rows
    BY <1>2, SnapshotType DEF Submit
  <2> QED BY <1>2, <2>1, CdcAssumption DEF TypeOK, Submit
<1>3. CASE Read
  <2>0. pos + 1 \in 1..Len(wal)
    BY <1>3, <1>a DEF TypeOK, Read
  <2>1. pos + 1 \in 1..Len(wal) /\ wal[pos + 1] \in [key : Keys, ver : Nat \ {0}]
    BY <2>0, ElementOfSeq DEF TypeOK
  <2>2. buffer' \subseteq Rows
    BY <1>3, <2>1 DEF TypeOK, Read, Rows
  <2> QED BY <1>3, <1>a, <2>1, <2>2 DEF TypeOK, Read, None
<1>4. CASE BeginCheckpoint
  BY <1>4, <1>a DEF TypeOK, BeginCheckpoint
<1>5. CASE CompleteCheckpoint
  BY <1>5, <1>a DEF TypeOK, CompleteCheckpoint
<1>6. CASE AbandonCheckpoint
  BY <1>6 DEF TypeOK, AbandonCheckpoint
<1>7. CASE ConfirmSlot
  BY <1>7, <1>a DEF TypeOK, ConfirmSlot, flink, None
<1>8. ASSUME NEW rows \in SUBSET buffer, Flush(rows) PROVE TypeOK'
  <2>1. ch' \in [Keys -> SUBSET (Nat \ {0})]
    BY <1>8 DEF TypeOK, Flush, Stored, Rows
  <2> QED BY <1>8, <2>1 DEF TypeOK, Flush
<1>9. CASE Fail
  BY <1>9, CdcAssumption DEF TypeOK, Fail
<1>10. CASE Restart
  <2>1. CASE ck = None
    <3>1. slot' \in Nat \cup {None} /\ pos' \in 0..Len(wal') /\ buffer' \subseteq Rows
      BY <1>10, <2>1, SnapshotType DEF Restart
    <3> QED BY <1>10, <3>1 DEF TypeOK, Restart
  <2>2. CASE ck # None
    BY <1>10, <2>2 DEF TypeOK, Restart
  <2> QED BY <2>1, <2>2
<1>11. CASE IntervalPasses
  BY <1>11, CdcAssumption DEF TypeOK, IntervalPasses
<1>12. CASE LoseJobManager
  BY <1>12, CdcAssumption DEF TypeOK, LoseJobManager
<1>13. CASE UNCHANGED vars
  BY <1>13 DEF TypeOK, vars
<1> QED BY <1>1, <1>2, <1>3, <1>4, <1>5, <1>6, <1>7, <1>8, <1>9, <1>10, <1>11, <1>12, <1>13 DEF Next

-----------------------------------------------------------------------------
(* The inductive invariant.                                                 *)

Committed(k, v) == \E i \in 1..Len(wal) : wal[i].key = k /\ wal[i].ver = v

\* db holds the last version of each row.
DbIsLast ==
  /\ \A k \in Keys : db[k] # 0 => Committed(k, db[k])
  /\ \A i \in 1..Len(wal) : wal[i].ver <= db[wal[i].key]

\* Rows on their way and rows stored are committed ones.
OnlyCommitted ==
  /\ \A r \in buffer : Committed(r.key, r.ver)
  /\ \A k \in Keys : \A v \in ch[k] : Committed(k, v)

\* A job that does not run holds no rows and has no checkpoint in progress.
Quiet == job # "running" => buffer = {} /\ barrier = None

\* Change i is stored, or a newer version is, or it is among the buffered rows
\* that were received at or before position n.
Covered(i, n) ==
  \/ \E v \in ch[wal[i].key] : v >= wal[i].ver
  \/ \E r \in buffer : r.key = wal[i].key /\ r.ver >= wal[i].ver /\ r.at <= n

\* What a running source has read past is covered.
ReadCovered == job = "running" => \A i \in 1..pos : Covered(i, pos)

\* What lies before a barrier is covered by rows before the barrier.
BarrierCovered == barrier # None => \A i \in 1..barrier : Covered(i, barrier)

\* Slot <= checkpoint <= barrier <= position of the source.
Ordered ==
  /\ slot <= Len(wal)
  /\ job = "running" /\ ck # None => ck <= pos
  /\ barrier # None => slot <= barrier /\ (ck # None => ck <= barrier)

History == VersionsFollowCommits /\ DbIsLast
Delivery == ReadCovered /\ CheckpointIsDurable /\ BarrierCovered

IInv == TypeOK /\ History /\ OnlyCommitted /\ Quiet /\ Delivery /\ Ordered /\ RestartPointRetained

-----------------------------------------------------------------------------
(* The write-ahead log.                                                     *)

LEMMA WalRows ==
  ASSUME TypeOK
  PROVE  /\ Len(wal) \in Nat
         /\ \A i \in 1..Len(wal) : wal[i].key \in Keys /\ wal[i].ver \in Nat \ {0}
<1>1. wal \in Seq([key : Keys, ver : Nat \ {0}])
  BY DEF TypeOK
<1>2. \A i \in 1..Len(wal) : wal[i] \in [key : Keys, ver : Nat \ {0}]
  BY <1>1, ElementOfSeq
<1> QED BY <1>1, <1>2

\* A write adds one change and leaves the others where they are.
LEMMA Appended ==
  ASSUME TypeOK, NEW k \in Keys, Write(k)
  PROVE  \E v \in Nat \ {0} :
           /\ v > db[k] /\ db' = [db EXCEPT ![k] = v]
           /\ Len(wal') = Len(wal) + 1
           /\ wal'[Len(wal) + 1].key = k /\ wal'[Len(wal) + 1].ver = v
           /\ \A i \in 1..Len(wal) : wal'[i] = wal[i]
<1>1. PICK v \in Nat \ {0} :
        /\ v > db[k] /\ db' = [db EXCEPT ![k] = v]
        /\ wal' = Append(wal, [key |-> k, ver |-> v])
  BY WriteVersion
<1>2. wal \in Seq([key : Keys, ver : Nat \ {0}]) /\ [key |-> k, ver |-> v] \in [key : Keys, ver : Nat \ {0}]
  BY DEF TypeOK
<1>3. /\ Len(wal') = Len(wal) + 1
      /\ wal'[Len(wal) + 1] = [key |-> k, ver |-> v]
      /\ \A i \in 1..Len(wal) : wal'[i] = wal[i]
  BY <1>1, <1>2, AppendProperties
<1>4. wal'[Len(wal) + 1].key = k /\ wal'[Len(wal) + 1].ver = v
  BY <1>3
<1> QED BY <1>1, <1>3, <1>4, Zenon

\* The log only grows, and only by writes.
LEMMA LogGrows ==
  ASSUME TypeOK, [Next]_vars
  PROVE  /\ Len(wal') \in Nat /\ Len(wal) <= Len(wal')
         /\ \A i \in 1..Len(wal) : wal'[i] = wal[i]
<1>1. Len(wal) \in Nat
  BY DEF TypeOK
<1>2. ASSUME NEW k \in Keys, Write(k)
      PROVE  Len(wal') = Len(wal) + 1 /\ \A i \in 1..Len(wal) : wal'[i] = wal[i]
  BY <1>2, Appended
<1>3. (\A k \in Keys : ~Write(k)) => UNCHANGED wal
  BY DEF Next, vars, flink, Submit, Snapshot, Read, BeginCheckpoint, CompleteCheckpoint, AbandonCheckpoint,
         ConfirmSlot, Flush, Fail, Restart, IntervalPasses, LoseJobManager
<1> QED BY <1>1, <1>2, <1>3

LEMMA CommittedStays ==
  ASSUME TypeOK, [Next]_vars
  PROVE  \A k, v : Committed(k, v) => \E i \in 1..Len(wal') : wal'[i].key = k /\ wal'[i].ver = v
<1>1. \A i \in 1..Len(wal) : i \in 1..Len(wal') /\ wal'[i] = wal[i]
  BY LogGrows, WalRows
<1> QED BY <1>1 DEF Committed

\* The trigger gives later changes of a row higher versions, and db the highest.
LEMMA HistoryStep == TypeOK /\ History /\ [Next]_vars => History'
<1> SUFFICES ASSUME TypeOK, History, [Next]_vars PROVE History'
  OBVIOUS
<1>a. /\ Len(wal) \in Nat /\ db \in [Keys -> Nat]
      /\ \A i \in 1..Len(wal) : wal[i].key \in Keys /\ wal[i].ver \in Nat \ {0}
  BY WalRows DEF TypeOK
<1>1. ASSUME NEW k \in Keys, Write(k) PROVE History'
  <2>1. PICK v \in Nat \ {0} :
          /\ v > db[k] /\ db' = [db EXCEPT ![k] = v]
          /\ Len(wal') = Len(wal) + 1
          /\ wal'[Len(wal) + 1].key = k /\ wal'[Len(wal) + 1].ver = v
          /\ \A i \in 1..Len(wal) : wal'[i] = wal[i]
    BY <1>1, Appended
  <2>2. VersionsFollowCommits'
    <3> SUFFICES ASSUME NEW i \in 1..Len(wal'), NEW j \in 1..Len(wal'),
                        i < j, wal'[i].key = wal'[j].key
                 PROVE  wal'[i].ver < wal'[j].ver
      BY DEF VersionsFollowCommits
    <3>1. i \in 1..Len(wal) /\ wal'[i] = wal[i]
      BY <1>a, <2>1
    <3>2. CASE j = Len(wal) + 1
      <4>1. wal[i].key = k /\ wal[i].ver <= db[k]
        BY <2>1, <3>1, <3>2 DEF History, DbIsLast
      <4> QED BY <1>a, <2>1, <3>1, <3>2, <4>1
    <3>3. CASE j \in 1..Len(wal)
      BY <2>1, <3>1, <3>3 DEF History, VersionsFollowCommits
    <3>4. Len(wal') = Len(wal) + 1 /\ Len(wal) \in Nat
      BY <1>a, <2>1
    <3>5. j = Len(wal) + 1 \/ j \in 1..Len(wal)
      BY <3>4
    <3> QED BY <3>2, <3>3, <3>5
  <2>3. ASSUME NEW x \in Keys, db'[x] # 0
        PROVE  \E i \in 1..Len(wal') : wal'[i].key = x /\ wal'[i].ver = db'[x]
    <3>1. CASE x = k
      <4>1. db'[x] = v /\ Len(wal) + 1 \in 1..Len(wal')
        BY <1>a, <2>1, <3>1
      <4> QED BY <2>1, <3>1, <4>1
    <3>2. CASE x # k
      <4>1. db'[x] = db[x] /\ Committed(x, db[x])
        BY <1>a, <2>1, <2>3, <3>2 DEF History, DbIsLast
      <4> QED BY <4>1, CommittedStays
    <3> QED BY <3>1, <3>2
  <2>4. ASSUME NEW i \in 1..Len(wal') PROVE wal'[i].ver <= db'[wal'[i].key]
    <3>1. CASE i = Len(wal) + 1
      BY <1>a, <2>1, <3>1
    <3>2. CASE i \in 1..Len(wal)
      <4>1. wal'[i] = wal[i] /\ wal[i].ver <= db[wal[i].key]
        BY <2>1, <3>2 DEF History, DbIsLast
      <4>2. db[wal[i].key] <= db'[wal[i].key]
        BY <1>a, <2>1, <3>2
      <4> QED BY <1>a, <2>1, <3>2, <4>1, <4>2
    <3> QED BY <1>a, <2>1, <3>1, <3>2
  <2> QED BY <2>2, <2>3, <2>4 DEF History, DbIsLast, Committed
<1>2. (\A k \in Keys : ~Write(k)) => UNCHANGED <<wal, db>>
  BY DEF Next, vars, flink, Submit, Snapshot, Read, BeginCheckpoint, CompleteCheckpoint, AbandonCheckpoint,
         ConfirmSlot, Flush, Fail, Restart, IntervalPasses, LoseJobManager
<1>3. CASE UNCHANGED <<wal, db>>
  BY <1>3 DEF History, VersionsFollowCommits, DbIsLast, Committed
<1> QED BY <1>1, <1>2, <1>3

-----------------------------------------------------------------------------
(* Delivery.                                                                *)

\* The steps by what they do to the sink's side.
LEMMA StepKinds ==
  ASSUME [Next]_vars
  PROVE  \/ \E k \in Keys : Write(k)
         \/ Submit \/ Read \/ BeginCheckpoint \/ CompleteCheckpoint
         \/ \E rows \in SUBSET buffer : Flush(rows)
         \/ Fail \/ Restart \/ LoseJobManager
         \/ UNCHANGED <<db, wal, job, pos, buffer, ck, ch>> /\ barrier' \in {barrier, None}
BY DEF Next, vars, flink, AbandonCheckpoint, ConfirmSlot, IntervalPasses

\* As long as no row is dropped, what is covered stays covered.
LEMMA CoverageStays ==
  ASSUME TypeOK, [Next]_vars,
         \A k \in Keys : ch[k] \subseteq ch'[k],
         \A r \in buffer : r \in buffer' \/ r.ver \in ch'[r.key]
  PROVE  \A i \in 1..Len(wal), n \in Int : Covered(i, n) => Covered(i, n)'
<1> SUFFICES ASSUME NEW i \in 1..Len(wal), NEW n \in Int, Covered(i, n) PROVE Covered(i, n)'
  OBVIOUS
<1>1. wal'[i] = wal[i] /\ wal[i].key \in Keys
  BY LogGrows, WalRows
<1>2. CASE \E v \in ch[wal[i].key] : v >= wal[i].ver
  BY <1>1, <1>2 DEF Covered
<1>3. CASE \E r \in buffer : r.key = wal[i].key /\ r.ver >= wal[i].ver /\ r.at <= n
  <2>1. PICK r \in buffer : r.key = wal[i].key /\ r.ver >= wal[i].ver /\ r.at <= n
    BY <1>3
  <2>2. CASE r \in buffer'
    BY <1>1, <2>1, <2>2 DEF Covered
  <2>3. CASE r.ver \in ch'[r.key]
    BY <1>1, <2>1, <2>3 DEF Covered
  <2> QED BY <2>2, <2>3
<1> QED BY <1>2, <1>3 DEF Covered

\* A later position covers what an earlier one does.
LEMMA CoverageWidens ==
  ASSUME TypeOK, NEW i, NEW m \in Int, NEW n \in Int, m <= n, Covered(i, m)
  PROVE  Covered(i, n)
<1>1. \A r \in buffer : r.at \in Nat
  BY DEF TypeOK, Rows
<1> QED BY <1>1 DEF Covered

\* A snapshot holds the last version of every row that has a change in the log.
LEMMA SnapshotCovers ==
  ASSUME TypeOK, History, Snapshot, UNCHANGED <<wal, db>>
  PROVE  /\ \A i \in 1..Len(wal) : Covered(i, Len(wal))'
         /\ \A r \in buffer' : Committed(r.key, r.ver)'
<1>1. ASSUME NEW i \in 1..Len(wal) PROVE Covered(i, Len(wal))'
  <2> DEFINE k == wal[i].key  row == [key |-> k, ver |-> db[k], at |-> Len(wal)]
  <2>1. k \in Keys /\ wal[i].ver \in Nat \ {0} /\ wal[i].ver <= db[k] /\ db[k] \in Nat /\ Len(wal) \in Nat
    BY WalRows DEF TypeOK, History, DbIsLast
  <2>2. row \in buffer'
    BY <2>1 DEF Snapshot
  <2>3. row.key = wal'[i].key /\ row.ver >= wal'[i].ver /\ row.at <= Len(wal')
    BY <2>1
  <2> HIDE DEF row
  <2> QED BY <2>2, <2>3 DEF Covered
<1>2. ASSUME NEW r \in buffer' PROVE Committed(r.key, r.ver)'
  BY <1>2 DEF Snapshot, History, DbIsLast, Committed
<1> QED BY <1>1, <1>2

\* Sources, sink and stored rows only ever hold committed versions, and a job that
\* is not running holds nothing.
LEMMA CommittedStep == TypeOK /\ History /\ OnlyCommitted /\ Quiet /\ [Next]_vars => (OnlyCommitted /\ Quiet)'
<1> SUFFICES ASSUME TypeOK, History, OnlyCommitted, Quiet, [Next]_vars PROVE (OnlyCommitted /\ Quiet)'
  OBVIOUS
<1>a. \A k, v : Committed(k, v) => Committed(k, v)'
  BY CommittedStays DEF Committed
<1>1. CASE UNCHANGED <<buffer, ch>> /\ (job' # "running" => buffer' = {} /\ barrier' = None)
  <2>1. (\A r \in buffer' : Committed(r.key, r.ver)) /\ \A k \in Keys : \A v \in ch'[k] : Committed(k, v)
    BY <1>1 DEF OnlyCommitted
  <2>2. OnlyCommitted'
    BY <1>a, <2>1 DEF OnlyCommitted
  <2> QED BY <1>1, <2>2 DEF Quiet
<1>2. CASE buffer' = {} /\ barrier' = None /\ UNCHANGED ch
  <2>1. \A k \in Keys : \A v \in ch'[k] : Committed(k, v)
    BY <1>2 DEF OnlyCommitted
  <2> QED BY <1>2, <1>a, <2>1 DEF OnlyCommitted, Quiet
<1>3. ASSUME Snapshot, UNCHANGED <<wal, db, ch>>, job' = "running" PROVE (OnlyCommitted /\ Quiet)'
  <2>1. \A r \in buffer' : Committed(r.key, r.ver)'
    BY <1>3, SnapshotCovers
  <2> QED BY <1>3, <1>a, <2>1 DEF OnlyCommitted, Quiet
<1>4. CASE Read
  <2>1. pos + 1 \in 1..Len(wal)
    BY <1>4 DEF TypeOK, Read
  <2>2. \A r \in buffer' : Committed(r.key, r.ver)
    BY <1>4, <2>1 DEF Read, OnlyCommitted, Committed
  <2> QED BY <1>4, <1>a, <2>2 DEF OnlyCommitted, Quiet, Read
<1>5. ASSUME NEW rows \in SUBSET buffer, Flush(rows) PROVE (OnlyCommitted /\ Quiet)'
  <2>1. ASSUME NEW k \in Keys, NEW v \in ch'[k] PROVE Committed(k, v)
    <3>1. v \in ch[k] \/ \E r \in rows : r.key = k /\ r.ver = v
      BY <1>5, <2>1 DEF Flush, Stored
    <3> QED BY <3>1 DEF OnlyCommitted
  <2>2. \A r \in buffer' : Committed(r.key, r.ver)
    BY <1>5 DEF Flush, OnlyCommitted
  <2> QED BY <1>5, <1>a, <2>1, <2>2 DEF OnlyCommitted, Quiet, Flush
<1>6. CASE Restart
  <2>1. CASE ck = None
    BY <1>3, <1>6, <2>1 DEF Restart
  <2>2. CASE ck # None
    BY <1>1, <1>6, <2>2 DEF Restart
  <2> QED BY <2>1, <2>2
<1>7. CASE Submit
  BY <1>3, <1>7 DEF Submit
<1>8. CASE Fail \/ LoseJobManager
  BY <1>2, <1>8 DEF Fail, LoseJobManager
<1>9. CASE BeginCheckpoint \/ CompleteCheckpoint \/ \E k \in Keys : Write(k)
  BY <1>1, <1>9 DEF BeginCheckpoint, CompleteCheckpoint, Write, flink, Quiet
<1>10. CASE UNCHANGED <<db, wal, job, pos, buffer, ck, ch>> /\ barrier' \in {barrier, None}
  BY <1>1, <1>10 DEF Quiet
<1> QED BY <1>4, <1>5, <1>6, <1>7, <1>8, <1>9, <1>10, StepKinds

\* Nothing read is lost: a failure drops the buffer, but recovery reads again from
\* a checkpoint whose changes are stored, or takes a new snapshot.
LEMMA DeliveryStep == TypeOK /\ History /\ Quiet /\ Delivery /\ [Next]_vars => Delivery'
<1> SUFFICES ASSUME TypeOK, History, Quiet, Delivery, [Next]_vars PROVE Delivery'
  OBVIOUS
<1>a. /\ Len(wal) \in Nat /\ pos \in 0..Len(wal) /\ barrier \in 0..pos \cup {None} /\ ck \in 0..Len(wal) \cup {None}
      /\ \A i \in 1..Len(wal) : wal'[i] = wal[i]
  BY LogGrows DEF TypeOK
<1>b. (\A k \in Keys : ch[k] \subseteq ch'[k]) => (ck' = ck => CheckpointIsDurable')
  BY <1>a, WalRows DEF Delivery, CheckpointIsDurable, None
\* The steps that keep every row and leave the source where it is.
<1>1. ASSUME \A k \in Keys : ch[k] \subseteq ch'[k],
             \A r \in buffer : r \in buffer' \/ r.ver \in ch'[r.key],
             UNCHANGED <<job, pos>>
      PROVE  ReadCovered' /\ (barrier' \in {barrier, None} => BarrierCovered')
  <2>1. \A i \in 1..Len(wal), n \in Int : Covered(i, n) => Covered(i, n)'
    BY <1>1, CoverageStays
  <2>2. ReadCovered'
    BY <1>1, <1>a, <2>1 DEF Delivery, ReadCovered
  <2>3. ASSUME barrier' = barrier PROVE BarrierCovered'
    BY <1>a, <2>1, <2>3 DEF Delivery, BarrierCovered, None
  <2>4. ASSUME barrier' = None PROVE BarrierCovered'
    BY <2>4 DEF BarrierCovered
  <2> QED BY <2>2, <2>3, <2>4
<1>2. CASE UNCHANGED <<job, pos, buffer, ch, ck>> /\ barrier' \in {barrier, None}
  BY <1>1, <1>2, <1>b DEF Delivery
<1>3. ASSUME Snapshot, UNCHANGED <<wal, db, ch>>, barrier' = None, ck' = None PROVE Delivery'
  <2>1. \A i \in 1..Len(wal) : Covered(i, Len(wal))'
    BY <1>3, SnapshotCovers
  <2>2. pos' = Len(wal') /\ wal' = wal
    BY <1>3 DEF Snapshot
  <2> QED BY <1>3, <2>1, <2>2 DEF Delivery, ReadCovered, BarrierCovered, CheckpointIsDurable
<1>4. CASE Read
  <2>0. UNCHANGED <<wal, job, barrier, ck, ch>> /\ buffer \subseteq buffer' /\ job = "running" /\ pos' = pos + 1
        /\ pos + 1 \in 1..Len(wal)
    BY <1>4, <1>a DEF Read
  <2>1. \A i \in 1..Len(wal), n \in Int : Covered(i, n) => Covered(i, n)'
    BY <2>0, CoverageStays
  <2>2. ASSUME NEW i \in 1..pos' PROVE Covered(i, pos)'
    <3>1. CASE i \in 1..pos
      <4>1. Covered(i, pos)
        BY <2>0, <3>1 DEF Delivery, ReadCovered
      <4>2. Covered(i, pos + 1)
        BY <1>a, <4>1, CoverageWidens
      <4>3. pos + 1 \in Int /\ i \in 1..Len(wal)
        BY <1>a, <2>0, <3>1
      <4>4. (Covered(i, pos + 1) => \/ \E v \in ch'[wal'[i].key] : v >= wal'[i].ver
                                    \/ \E r \in buffer' : r.key = wal'[i].key /\ r.ver >= wal'[i].ver /\ r.at <= pos + 1)
        BY <2>0 DEF Covered
      <4> QED BY <2>0, <4>2, <4>4 DEF Covered
    <3>2. CASE i = pos + 1
      <4> DEFINE row == [key |-> wal[pos + 1].key, ver |-> wal[pos + 1].ver, at |-> pos + 1]
      <4>1. row \in buffer' /\ wal[pos + 1].ver \in Nat
        BY <1>4, <2>0, WalRows DEF Read
      <4>2. row.key = wal'[i].key /\ row.ver >= wal'[i].ver /\ row.at <= pos'
        BY <1>a, <2>0, <3>2, <4>1
      <4> HIDE DEF row
      <4> QED BY <4>1, <4>2 DEF Covered
    <3> QED BY <1>a, <2>0, <2>2, <3>1, <3>2
  <2>3. ReadCovered'
    BY <2>2 DEF ReadCovered
  <2>4. BarrierCovered'
    BY <1>a, <2>0, <2>1 DEF Delivery, BarrierCovered, None
  <2> QED BY <1>b, <2>0, <2>3, <2>4 DEF Delivery
<1>5. ASSUME NEW rows \in SUBSET buffer, Flush(rows) PROVE Delivery'
  <2>1. \A k \in Keys : ch[k] \subseteq ch'[k]
    BY <1>5 DEF Flush, Stored
  <2>2. \A r \in buffer : r \in buffer' \/ r.ver \in ch'[r.key]
    <3>1. \A r \in buffer : r.key \in Keys
      BY DEF TypeOK, Rows
    <3> QED BY <1>5, <3>1 DEF Flush, Stored
  <2>3. UNCHANGED <<job, pos, barrier, ck>>
    BY <1>5 DEF Flush
  <2> QED BY <1>1, <1>b, <2>1, <2>2, <2>3 DEF Delivery
<1>6. CASE BeginCheckpoint
  <2>1. ReadCovered' /\ CheckpointIsDurable'
    BY <1>1, <1>6, <1>b DEF BeginCheckpoint
  <2>2. BarrierCovered'
    BY <1>6, <2>1, <1>a DEF BeginCheckpoint, ReadCovered, BarrierCovered, Covered
  <2> QED BY <2>1, <2>2 DEF Delivery
<1>7. CASE CompleteCheckpoint
  <2>1. ReadCovered' /\ BarrierCovered'
    BY <1>1, <1>7 DEF CompleteCheckpoint
  <2>2. ASSUME NEW i \in 1..barrier PROVE \E v \in ch[wal[i].key] : v >= wal[i].ver
    <3>1. Covered(i, barrier) /\ \A r \in buffer : r.at > barrier /\ r.at \in Nat
      BY <1>7, <2>2 DEF Delivery, BarrierCovered, CompleteCheckpoint, SinkFlushed, TypeOK,
        Rows
    <3> QED BY <1>a, <1>7, <3>1 DEF Covered, CompleteCheckpoint
  <2>3. CheckpointIsDurable'
    BY <1>7, <2>2 DEF CompleteCheckpoint, CheckpointIsDurable
  <2> QED BY <2>1, <2>3 DEF Delivery
<1>8. CASE Fail \/ LoseJobManager
  <2>1. job' # "running" /\ barrier' = None /\ ch' = ch /\ wal' = wal /\ ck' \in {ck, None}
    BY <1>8 DEF Fail, LoseJobManager
  <2> QED BY <2>1 DEF Delivery, ReadCovered, BarrierCovered, CheckpointIsDurable
<1>9. CASE Restart
  <2>1. CASE ck = None
    BY <1>3, <1>9, <2>1 DEF Restart, Quiet
  <2>2. CASE ck # None
    <3>1. pos' = ck /\ barrier' = None /\ UNCHANGED <<wal, ch, ck>>
      BY <1>9, <2>2 DEF Restart, Quiet
    <3> QED BY <2>2, <3>1 DEF Delivery, ReadCovered, BarrierCovered, CheckpointIsDurable, Covered
  <2> QED BY <2>1, <2>2
<1>10. CASE Submit
  BY <1>3, <1>10 DEF Submit
<1>11. CASE \E k \in Keys : Write(k)
  BY <1>2, <1>11 DEF Write, flink
<1> QED BY <1>2, <1>4, <1>5, <1>6, <1>7, <1>8, <1>9, <1>10, <1>11, StepKinds

\* Slot, checkpoint, barrier and source position keep their order.
LEMMA OrderStep ==
  TypeOK /\ Quiet /\ Ordered /\ RestartPointRetained /\ [Next]_vars => (Ordered /\ RestartPointRetained)'
<1> SUFFICES ASSUME TypeOK, Quiet, Ordered, RestartPointRetained, [Next]_vars
             PROVE  (Ordered /\ RestartPointRetained)'
  OBVIOUS
<1>a. /\ Len(wal) \in Nat /\ Len(wal') \in Nat /\ Len(wal) <= Len(wal')
      /\ slot \in Nat \cup {None} /\ pos \in 0..Len(wal)
      /\ barrier \in 0..pos \cup {None} /\ ck \in 0..Len(wal) \cup {None}
  BY LogGrows DEF TypeOK
<1>1. CASE Submit
  <2>1. slot' <= pos' /\ pos' = Len(wal') /\ ck' = None /\ barrier' = None
    BY <1>1, <1>a DEF Submit, Snapshot, Ordered
  <2> QED BY <2>1 DEF Ordered, RestartPointRetained
<1>2. CASE Read
  BY <1>2, <1>a DEF Read, Ordered, RestartPointRetained, None
<1>3. CASE BeginCheckpoint
  BY <1>3, <1>a DEF BeginCheckpoint, Ordered, RestartPointRetained, None
<1>4. CASE CompleteCheckpoint
  BY <1>4, <1>a DEF CompleteCheckpoint, Ordered, RestartPointRetained, None
<1>5. CASE ConfirmSlot
  <2>1. ck # None /\ job = "running" /\ slot' = ck /\ UNCHANGED <<wal, job, pos, barrier, ck>>
    BY <1>5, <1>a DEF ConfirmSlot, flink, None
  <2> QED BY <1>a, <2>1 DEF Ordered, RestartPointRetained, None
<1>6. CASE Fail \/ LoseJobManager
  BY <1>6, <1>a DEF Fail, LoseJobManager, Ordered, RestartPointRetained, None
<1>7. CASE Restart
  <2>1. CASE ck = None
    <3>1. slot' <= pos' /\ pos' = Len(wal') /\ ck' = None /\ barrier' = None
      BY <1>7, <1>a, <2>1 DEF Restart, Snapshot, Ordered, Quiet
    <3> QED BY <3>1 DEF Ordered, RestartPointRetained
  <2>2. CASE ck # None
    BY <1>7, <1>a, <2>2 DEF Restart, Ordered, RestartPointRetained, Quiet
  <2> QED BY <2>1, <2>2
<1>8. CASE UNCHANGED <<slot, job, pos, ck>> /\ barrier' \in {barrier, None}
  BY <1>8, <1>a DEF Ordered, RestartPointRetained
<1>9. (\E k \in Keys : Write(k)) => UNCHANGED <<slot, job, pos, ck, barrier>>
  BY DEF Write, flink
<1>10. (\E rows \in SUBSET buffer : Flush(rows)) => UNCHANGED <<slot, job, pos, ck, barrier>>
  BY DEF Flush
<1> QED BY <1>1, <1>2, <1>3, <1>4, <1>5, <1>6, <1>7, <1>8, <1>9, <1>10
        DEF Next, vars, AbandonCheckpoint, IntervalPasses

-----------------------------------------------------------------------------
(* The invariance theorems.                                                 *)

LEMMA InvInit == Init => IInv
<1> SUFFICES ASSUME Init PROVE IInv
  OBVIOUS
<1>1. TypeOK
  BY CdcAssumption DEF Init, TypeOK
<1>2. Len(wal) = 0
  BY DEF Init
<1>3. History /\ OnlyCommitted /\ Quiet /\ Delivery /\ Ordered /\ RestartPointRetained
  BY <1>2 DEF Init, History, VersionsFollowCommits, DbIsLast, OnlyCommitted, Quiet, Delivery, ReadCovered,
              CheckpointIsDurable, BarrierCovered, Ordered, RestartPointRetained, None
<1> QED BY <1>1, <1>3 DEF IInv

LEMMA InvStep == IInv /\ [Next]_vars => IInv'
<1> SUFFICES ASSUME IInv, [Next]_vars PROVE IInv'
  OBVIOUS
<1>1. TypeOK'
  BY TypeStep DEF IInv, Quiet
<1>2. History' /\ (OnlyCommitted /\ Quiet)' /\ Delivery' /\ (Ordered /\ RestartPointRetained)'
  BY HistoryStep, CommittedStep, DeliveryStep, OrderStep DEF IInv
<1> QED BY <1>1, <1>2 DEF IInv

LEMMA Invariance == Spec => []IInv
BY InvInit, InvStep, PTL DEF Spec

\* Types, and no checkpoint in progress from an earlier attempt of the job.
THEOREM PipelineTypeCorrect == Spec => []TypeOK
<1>1. IInv => TypeOK
  BY DEF IInv
<1> QED BY <1>1, Invariance, PTL

\* set_updated_at: later changes of a row have higher versions, with any clock.
THEOREM VersionsIncrease == Spec => []VersionsFollowCommits
<1>1. IInv => VersionsFollowCommits
  BY DEF IInv, History
<1> QED BY <1>1, Invariance, PTL

\* What a running job has read past is stored or on its way, whatever failed before.
THEOREM NoChangeLost == Spec => []NothingLost
<1>1. IInv => NothingLost
  <2> SUFFICES ASSUME IInv, job = "running", NEW i \in 1..pos
               PROVE  \/ \E v \in ch[wal[i].key] : v >= wal[i].ver
                      \/ \E r \in buffer : r.key = wal[i].key /\ r.ver >= wal[i].ver
    BY DEF NothingLost
  <2>1. Covered(i, pos)
    BY DEF IInv, Delivery, ReadCovered
  <2> QED BY <2>1 DEF Covered
<1> QED BY <1>1, Invariance, PTL

\* Everything a completed checkpoint covers is stored in ClickHouse.
THEOREM CheckpointsAreDurable == Spec => []CheckpointIsDurable
<1>1. IInv => CheckpointIsDurable
  BY DEF IInv, Delivery
<1> QED BY <1>1, Invariance, PTL

\* The slot never passes the position a restart would read from.
THEOREM SlotRetainsRestartPoint == Spec => []RestartPointRetained
<1>1. IInv => RestartPointRetained
  BY DEF IInv
<1> QED BY <1>1, Invariance, PTL

-----------------------------------------------------------------------------
(* Refinement of LatestState.                                               *)

LEMMA BoundedSetHasMax ==
  ASSUME NEW T \in SUBSET Nat, NEW b \in Nat, T # {}, \A t \in T : t <= b
  PROVE  \E m \in T : \A t \in T : t <= m
<1> DEFINE D == {b - t : t \in T}  R == {ss \in Nat \X Nat : ss[1] < ss[2]}
<1>1. IsWellFoundedOn(R, Nat)
  BY NatLessThanWellFounded DEF OpToRel
<1>2. D \subseteq Nat /\ D # {}
  <2>1. \A t \in T : b - t \in Nat
    OBVIOUS
  <2> QED BY <2>1
<1>3. PICK x \in D : \A y \in D : <<y, x>> \notin R
  <2> HIDE DEF R, D
  <2> QED BY <1>1, <1>2, WFMin
<1>4. ASSUME NEW y \in D PROVE y >= x
  <2>1. x \in Nat /\ y \in Nat
    BY <1>2, <1>3, <1>4
  <2>2. <<y, x>> \notin R
    BY <1>3, <1>4
  <2> HIDE DEF D
  <2> QED BY <2>1, <2>2
<1>5. PICK m \in T : x = b - m
  OBVIOUS
<1>6. ASSUME NEW t \in T PROVE t <= m
  <2>1. b - t >= x
    BY <1>4
  <2> QED BY <1>5, <2>1
<1> QED BY <1>6

\* FINAL shows the highest of the stored versions, and it is a committed one.
FinalIsLatest ==
  \A k \in Keys :
    /\ Final(k) \in Nat
    /\ \A u \in ch[k] : u \in Nat /\ u <= Final(k)
    /\ ch[k] # {} => Final(k) \in ch[k] /\ Committed(k, Final(k))
    /\ ch[k] = {} => Final(k) = 0

LEMMA FinalFact == IInv => FinalIsLatest
<1> SUFFICES ASSUME IInv, NEW k \in Keys
             PROVE  /\ Final(k) \in Nat
                    /\ \A u \in ch[k] : u \in Nat /\ u <= Final(k)
                    /\ ch[k] # {} => Final(k) \in ch[k] /\ Committed(k, Final(k))
                    /\ ch[k] = {} => Final(k) = 0
  BY DEF FinalIsLatest
<1>1. ch[k] \subseteq Nat /\ db[k] \in Nat
  BY DEF IInv, TypeOK
<1>2. \A u \in ch[k] : u <= db[k]
  BY DEF IInv, OnlyCommitted, Committed, History, DbIsLast
<1>3. CASE ch[k] = {}
  BY <1>3 DEF Final
<1>4. CASE ch[k] # {}
  <2>1. \E m \in ch[k] : \A u \in ch[k] : u <= m
    BY <1>1, <1>2, <1>4, BoundedSetHasMax
  <2>2. Final(k) \in ch[k] /\ \A u \in ch[k] : u <= Final(k)
    BY <1>4, <2>1 DEF Final
  <2>3. Committed(k, Final(k))
    BY <2>2 DEF IInv, OnlyCommitted
  <2> QED BY <1>1, <1>4, <2>2, <2>3
<1> QED BY <1>3, <1>4

\* The job has read all that was committed, its sink has written all that it read.
Drained == job = "running" /\ pos = Len(wal) /\ buffer = {}

DrainedIsEqual == Drained => \A k \in Keys : Final(k) = db[k]

\* The safe half of CatchesUp: when the running job has nothing left to do, ClickHouse
\* shows PostgreSQL's rows, whatever failed, restarted or was sent again before.
THEOREM DrainedShowsDatabase == Spec => []DrainedIsEqual
<1>1. IInv /\ FinalIsLatest => DrainedIsEqual
  <2> SUFFICES ASSUME IInv, FinalIsLatest, Drained, NEW k \in Keys PROVE Final(k) = db[k]
    BY DEF DrainedIsEqual
  <2>1. /\ Final(k) \in Nat /\ \A u \in ch[k] : u \in Nat /\ u <= Final(k)
        /\ ch[k] # {} => Committed(k, Final(k))
        /\ ch[k] = {} => Final(k) = 0
    BY DEF FinalIsLatest
  <2>2. db[k] \in Nat /\ \A v : Committed(k, v) => v <= db[k]
    BY DEF IInv, TypeOK, History, DbIsLast, Committed
  <2>3. Final(k) <= db[k]
    BY <2>1, <2>2
  <2>4. CASE db[k] # 0
    <3>1. PICK i \in 1..Len(wal) : wal[i].key = k /\ wal[i].ver = db[k]
      BY <2>4 DEF IInv, History, DbIsLast, Committed
    <3>2. \E v \in ch[k] : v >= db[k]
      BY <3>1 DEF IInv, Delivery, ReadCovered, Covered, Drained
    <3> QED
      BY <2>1, <2>2, <2>3, <3>2
  <2> QED
    BY <2>1, <2>2, <2>3, <2>4
<1> QED
  BY <1>1, FinalFact, Invariance, PTL

\* The versions of row k in the log: the abstract committed[k].
Versions(k) == {wal[i].ver : i \in {j \in 1..Len(wal) : wal[j].key = k}}

LEMMA SyncInit == Init => Sync!Init
<1> SUFFICES ASSUME Init PROVE Sync!Init
  OBVIOUS
<1>1. \A k \in Keys : Versions(k) = {} /\ Final(k) = 0
  BY DEF Init, Versions, Final
<1> QED BY <1>1 DEF Sync!Init, Versions

LEMMA SyncCommit ==
  ASSUME IInv, NEW k \in Keys, Write(k)
  PROVE  Sync!Commit
<1>a. TypeOK /\ DbIsLast
  BY DEF IInv, History
<1>b. Len(wal) \in Nat /\ \A i \in 1..Len(wal) : wal[i].ver \in Nat
  BY <1>a, WalRows
<1>1. PICK v \in Nat \ {0} :
        /\ v > db[k]
        /\ Len(wal') = Len(wal) + 1
        /\ wal'[Len(wal) + 1].key = k /\ wal'[Len(wal) + 1].ver = v
        /\ \A i \in 1..Len(wal) : wal'[i] = wal[i]
  BY <1>a, Appended
<1>2. 1..Len(wal') = 1..Len(wal) \cup {Len(wal) + 1} /\ Len(wal) + 1 \notin 1..Len(wal)
  BY <1>b, <1>1
<1>3. Versions(k)' = Versions(k) \cup {v}
  BY <1>1, <1>2 DEF Versions
<1>4. ASSUME NEW x \in Keys \ {k} PROVE Versions(x)' = Versions(x)
  BY <1>1, <1>2, <1>4 DEF Versions
<1>5. [x \in Keys |-> Versions(x)]' = [[x \in Keys |-> Versions(x)] EXCEPT ![k] = @ \cup {v}]
  BY <1>3, <1>4
<1>6. v \in Versions(k)' /\ v > 0 /\ \A u \in Versions(k) : u < v
  <2>1. \A u \in Versions(k) : u \in Nat /\ u <= db[k]
    BY <1>a, <1>b DEF Versions, DbIsLast
  <2>2. db[k] \in Nat
    BY <1>a DEF TypeOK
  <2> QED BY <1>1, <1>3, <2>1, <2>2
<1>7. UNCHANGED [x \in Keys |-> Final(x)]
  BY DEF Write, Final
<1> QED BY <1>5, <1>6, <1>7 DEF Sync!Commit, Versions

LEMMA SyncShow ==
  ASSUME FinalIsLatest, FinalIsLatest', UNCHANGED wal, \A k \in Keys : ch[k] \subseteq ch'[k]
  PROVE  Sync!Show
<1>1. ASSUME NEW k \in Keys, Final(k)' # Final(k)
      PROVE  Final(k)' > Final(k) /\ Final(k)' \in Versions(k)
  <2>1. /\ Final(k) \in Nat /\ \A u \in ch[k] : u \in Nat /\ u <= Final(k)
        /\ ch[k] # {} => Final(k) \in ch[k]
        /\ ch[k] = {} => Final(k) = 0
    BY DEF FinalIsLatest
  <2>2. /\ Final(k)' \in Nat /\ \A u \in ch'[k] : u \in Nat /\ u <= Final(k)'
        /\ ch'[k] # {} => Committed(k, Final(k))'
        /\ ch'[k] = {} => Final(k)' = 0
    BY DEF FinalIsLatest
  <2>3. Final(k)' > Final(k)
    BY <1>1, <2>1, <2>2
  <2>4. Committed(k, Final(k))'
    BY <2>1, <2>2, <2>3
  <2> QED BY <2>3, <2>4 DEF Committed, Versions
<1>2. UNCHANGED [k \in Keys |-> Versions(k)]
  BY DEF Versions
<1> QED BY <1>1, <1>2 DEF Sync!Show, Versions

\* Every step of the pipeline commits a version, shows newer rows, or changes
\* nothing a reader can see.
THEOREM PipelineImplementsLatestState == Spec => ImplementsLatestState
<1>1. IInv /\ FinalIsLatest /\ FinalIsLatest' /\ [Next]_vars => Sync!Commit \/ Sync!Show
  <2> SUFFICES ASSUME IInv, FinalIsLatest, FinalIsLatest', [Next]_vars PROVE Sync!Commit \/ Sync!Show
    OBVIOUS
  <2>1. ASSUME NEW k \in Keys, Write(k) PROVE Sync!Commit
    BY <2>1, SyncCommit
  <2>2. ASSUME NEW rows \in SUBSET buffer, Flush(rows) PROVE Sync!Show
    <3>1. UNCHANGED wal /\ \A k \in Keys : ch[k] \subseteq ch'[k]
      BY <2>2 DEF Flush, Stored
    <3> QED BY <3>1, SyncShow
  <2>3. CASE UNCHANGED <<wal, ch>>
    BY <2>3, SyncShow
  <2>4. \/ \E k \in Keys : Write(k)
        \/ \E rows \in SUBSET buffer : Flush(rows)
        \/ UNCHANGED <<wal, ch>>
    BY DEF Next, vars, flink, Submit, Snapshot, Read, BeginCheckpoint, CompleteCheckpoint, AbandonCheckpoint,
           ConfirmSlot, Fail, Restart, IntervalPasses, LoseJobManager
  <2> QED BY <2>1, <2>2, <2>3, <2>4
<1>2. IInv /\ FinalIsLatest /\ FinalIsLatest' /\ [Next]_vars => [Sync!Next]_<<[k \in Keys |-> {wal[i].ver : i \in {j \in 1..Len(wal) : wal[j].key = k}}],
                                                    [k \in Keys |-> Final(k)]>>
  BY <1>1 DEF Sync!Next
<1> QED BY <1>2, SyncInit, FinalFact, Invariance, PTL DEF Spec, ImplementsLatestState, Sync!Spec
=============================================================================
