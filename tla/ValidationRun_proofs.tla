-------------------------- MODULE ValidationRun_proofs --------------------------
(* What a validation run may conclude, for any checks and any writes. *)
EXTENDS ValidationRun, FiniteSums

Performing == pc \in {"postgres", "clickhouse", "judging"}

(* The parts of the inductive invariant. *)

Shape ==
  /\ pg \in [Checks -> Seq({-1, 1})]
  /\ ch = [c \in Checks |-> ch[c]]
  /\ \A c \in Checks : ch[c] \subseteq DOMAIN pg[c]
  /\ next \in 1..Len(CheckOrder)
  /\ mismatches \subseteq Checks

\* As long as the stores agreed all the time, so did the values read from them.
Agreement ==
  synced =>
    /\ InSync
    /\ Performing => mismatches = {}
    /\ pc = "clickhouse" => pgValue = Total(CheckOrder[next], DOMAIN pg[CheckOrder[next]])

\* The outcome being recorded is the one of the mismatches that are kept.
Outcome ==
  pc \in {"recording", "committing"} =>
    /\ status \in Status
    /\ status = "PASS" => mismatches = {}
    /\ status = "FAIL" => mismatches # {}

WholeDraft ==
  pc = "committing" =>
    draft = [status |-> status, results |-> Results, failing |-> mismatches \cap Results]

RowOfStatus ==
  pc = "recording" /\ draft # NoDraft => draft = [NoDraft EXCEPT !.status = status]

Closed == pc \notin {"recording", "committing"} => draft = NoDraft

IInv ==
  Shape /\ Agreement /\ Outcome /\ Closed /\ WholeDraft /\ RowOfStatus /\ HistoryIsWhole

-----------------------------------------------------------------------------
\* There is at least one check.
LEMMA SomeCheck == Checks # {} /\ \A i \in 1..Len(CheckOrder) : CheckOrder[i] \in Checks
<1>1. Len(CheckOrder) \in Nat /\ Len(CheckOrder) # 0
  BY RunAssumption
<1>2. 1 \in 1..Len(CheckOrder)
  BY <1>1
<1> QED
  BY <1>2 DEF Checks

\* No write, delivery or read has happened yet.
LEMMA InitHolds == Init => IInv
<1> SUFFICES ASSUME Init PROVE IInv
  OBVIOUS
<1>1. Len(CheckOrder) \in Nat /\ Len(CheckOrder) # 0
  BY RunAssumption
<1>2. Shape
  BY <1>1 DEF Init, Shape
<1>3. InSync
  BY DEF Init, InSync
<1>4. Agreement
  BY <1>3 DEF Init, Agreement, Performing
<1>5. Outcome /\ Closed /\ WholeDraft /\ RowOfStatus /\ HistoryIsWhole
  BY DEF Init, Outcome, Closed, WholeDraft, RowOfStatus, HistoryIsWhole
<1> QED
  BY <1>2, <1>4, <1>5 DEF IInv

\* The stores' steps: a write ends the agreement, a delivery cannot.
LEMMA StoresKeep == IInv /\ (\E c \in Checks : Write(c) \/ Deliver(c)) => IInv'
<1> SUFFICES ASSUME IInv, NEW c \in Checks, Write(c) \/ Deliver(c) PROVE IInv'
  OBVIOUS
<1> USE DEF IInv
<1>1. UNCHANGED <<pc, next, pgValue, mismatches, timeUp, status, draft, history>>
  BY DEF Write, Deliver
<1>2. Outcome' /\ Closed' /\ WholeDraft' /\ RowOfStatus' /\ HistoryIsWhole'
  <2>1. Outcome' /\ Closed' /\ RowOfStatus' /\ HistoryIsWhole'
    BY <1>1 DEF Outcome, Closed, RowOfStatus, HistoryIsWhole
  <2>2. Results' = Results
    BY <1>1 DEF Results
  <2> QED
    BY <1>1, <2>1, <2>2 DEF WholeDraft
<1>3. CASE Write(c)
  <2>1. ~synced' /\ ch' = ch
    BY <1>3 DEF Write
  <2>2. PICK amount \in {-1, 1} : pg' = [pg EXCEPT ![c] = Append(@, amount)]
    BY <1>3 DEF Write
  <2>3. \A d \in Checks : ch[d] \subseteq DOMAIN pg'[d]
    <3>1. pg[c] \in Seq({-1, 1}) /\ ch[c] \subseteq 1..Len(pg[c])
      BY DEF Shape
    <3>2. DOMAIN Append(pg[c], amount) = 1..(Len(pg[c]) + 1)
      BY <3>1
    <3>3. ch[c] \subseteq DOMAIN Append(pg[c], amount)
      BY <3>1, <3>2
    <3> QED
      BY <2>2, <3>3 DEF Shape
  <2>4. Shape'
    <3>1. Append(pg[c], amount) \in Seq({-1, 1})
      BY DEF Shape
    <3> QED
      BY <1>1, <2>1, <2>2, <2>3, <3>1 DEF Shape
  <2> QED
    BY <1>2, <2>1, <2>4 DEF Agreement
<1>4. CASE Deliver(c)
  <2>1. pg' = pg /\ synced' = synced
    BY <1>4 DEF Deliver
  <2>2. PICK i \in DOMAIN pg[c] \ ch[c] : ch' = [ch EXCEPT ![c] = @ \cup {i}]
    BY <1>4 DEF Deliver
  <2>3. Shape'
    BY <1>1, <2>1, <2>2 DEF Shape
  <2>4. ASSUME synced, InSync PROVE FALSE
    BY <2>2, <2>4 DEF InSync
  <2>5. ~synced'
    BY <2>1, <2>4 DEF Agreement
  <2> QED
    BY <1>2, <2>3, <2>5 DEF Agreement
<1> QED
  BY <1>3, <1>4

-----------------------------------------------------------------------------
\* The run's steps leave the stores alone.
LEMMA StoresUnchanged ==
  Shape /\ UNCHANGED stores /\ (next' = next \/ next' \in 1..Len(CheckOrder))
        /\ mismatches' \subseteq Checks => Shape' /\ (InSync <=> InSync')
BY DEF Shape, stores, InSync

\* An attempt starts from the agreement it finds and from no mismatch.
LEMMA BeginAttemptKeeps == IInv /\ BeginAttempt => IInv'
<1> SUFFICES ASSUME IInv, BeginAttempt PROVE IInv'
  OBVIOUS
<1> USE DEF IInv
<1>1. pc' = "postgres" /\ mismatches' = {} /\ synced' = InSync /\ next' \in 1..Len(CheckOrder)
  BY SomeCheck DEF BeginAttempt, Checks
<1>2. UNCHANGED <<pg, ch, status, draft, history>>
  BY DEF BeginAttempt
<1>3. Shape' /\ (InSync' <=> InSync)
  BY <1>1, <1>2 DEF Shape, InSync
<1>4. Agreement'
  BY <1>1, <1>3 DEF Agreement
<1>5. Outcome' /\ Closed' /\ WholeDraft' /\ RowOfStatus' /\ HistoryIsWhole'
  BY <1>1, <1>2 DEF BeginAttempt, Outcome, Closed, WholeDraft, RowOfStatus, HistoryIsWhole
<1> QED
  BY <1>3, <1>4, <1>5

\* While the stores agree, so do the two readings of a check.
LEMMA ReadsKeep == IInv /\ (ReadPostgres \/ ReadClickHouse) => IInv'
<1> SUFFICES ASSUME IInv, ReadPostgres \/ ReadClickHouse PROVE IInv'
  OBVIOUS
<1> USE DEF IInv
<1>1. UNCHANGED <<pg, ch, quiet, synced, status, draft, history>> /\ Performing /\ pc # "judging"
  BY DEF ReadPostgres, ReadClickHouse, stores, Performing
<1>2. pc' \in {"postgres", "clickhouse", "judging"}
  BY DEF ReadPostgres, ReadClickHouse
<1>3. Outcome' /\ Closed' /\ WholeDraft' /\ RowOfStatus' /\ HistoryIsWhole'
  BY <1>1, <1>2 DEF Performing, Outcome, Closed, WholeDraft, RowOfStatus, HistoryIsWhole
<1>4. CASE ReadPostgres
  <2>1. Shape' /\ (InSync <=> InSync')
    BY <1>4, StoresUnchanged DEF ReadPostgres, Shape
  <2>2. pgValue' = Total(CheckOrder[next], DOMAIN pg[CheckOrder[next]])
    BY <1>4 DEF ReadPostgres
  <2>3. pgValue' = Total(CheckOrder[next], DOMAIN pg[CheckOrder[next]])'
    BY <1>4, <2>2 DEF ReadPostgres, stores, Total
  <2>4. mismatches' = mismatches
    BY <1>4 DEF ReadPostgres
  <2> QED
    BY <1>1, <1>3, <2>1, <2>3, <2>4 DEF Agreement
<1>5. CASE ReadClickHouse
  <2> DEFINE c == CheckOrder[next]
  <2>1. c \in Checks
    BY SomeCheck DEF Shape
  <2>2. mismatches' = mismatches \cup IF Total(c, ch[c]) = pgValue THEN {} ELSE {c}
    BY <1>5 DEF ReadClickHouse
  <2>3. pc = "clickhouse" /\ pc' # "clickhouse"
    BY <1>5 DEF ReadClickHouse
  <2>4. next' \in 1..Len(CheckOrder)
    BY <1>5, RunAssumption DEF ReadClickHouse, Shape
  <2>5. Shape' /\ (InSync <=> InSync')
    <3>1. mismatches' \subseteq Checks
      BY <2>1, <2>2 DEF Shape
    <3> QED
      BY <1>5, <2>4, <3>1, StoresUnchanged DEF ReadClickHouse
  <2>6. ASSUME synced PROVE mismatches' = {}
    <3>1. mismatches = {} /\ pgValue = Total(c, DOMAIN pg[c]) /\ ch[c] = DOMAIN pg[c]
      BY <1>1, <2>1, <2>3, <2>6 DEF Agreement, InSync
    <3> QED
      BY <2>2, <3>1
  <2>7. synced' => mismatches' = {} /\ InSync'
    BY <1>1, <2>5, <2>6 DEF Agreement
  <2> QED
    BY <1>3, <2>3, <2>5, <2>7 DEF Agreement
<1> QED
  BY <1>4, <1>5

\* Steps that change neither what was compared nor what is recorded.
LEMMA QuietStepsKeep == IInv /\ (Start \/ Judge \/ Raise \/ DeadlinePasses) => IInv'
<1> SUFFICES ASSUME IInv, Start \/ Judge \/ Raise \/ DeadlinePasses PROVE IInv'
  OBVIOUS
<1> USE DEF IInv
<1>1. UNCHANGED <<pg, ch, quiet, synced, next, pgValue, mismatches, draft, history>>
  BY DEF Start, Judge, Raise, DeadlinePasses, stores
<1>2. Shape' /\ (InSync <=> InSync') /\ HistoryIsWhole'
  BY <1>1, StoresUnchanged DEF stores, Shape, HistoryIsWhole
<1>3. Performing' => Performing
  BY DEF Performing, Start, Judge, Raise, DeadlinePasses
<1>4. pc' = "clickhouse" => pc = "clickhouse"
  BY DEF Start, Judge, Raise, DeadlinePasses
<1>5. Total(CheckOrder[next], DOMAIN pg[CheckOrder[next]])' = Total(CheckOrder[next], DOMAIN pg[CheckOrder[next]])
  BY <1>1 DEF Total
<1>6. Agreement'
  BY <1>1, <1>2, <1>3, <1>4, <1>5 DEF Agreement
<1>7. Outcome'
  BY <1>1 DEF Outcome, Status, Start, Judge, Raise, DeadlinePasses
<1>8. Closed' /\ WholeDraft' /\ RowOfStatus'
  <2>1. CASE DeadlinePasses
    <3>1. pc' = pc /\ status' = status /\ Results' = Results
      BY <2>1 DEF DeadlinePasses, Results
    <3> QED
      BY <1>1, <3>1 DEF Closed, WholeDraft, RowOfStatus
  <2>2. CASE Start \/ Judge \/ Raise
    <3>1. pc \notin {"recording", "committing"} /\ pc' # "committing"
      BY <2>2 DEF Start, Judge, Raise
    <3> QED
      BY <1>1, <3>1 DEF WholeDraft, RowOfStatus, Closed
  <2> QED
    BY <2>1, <2>2
<1> QED
  BY <1>2, <1>6, <1>7, <1>8

\* Recording: the rows of the transaction are those of the run that was judged.
LEMMA RecordingKeeps ==
  IInv /\ (InsertRun \/ InsertResults \/ CommitHistory \/ SkipHistory) => IInv'
<1> SUFFICES ASSUME IInv, InsertRun \/ InsertResults \/ CommitHistory \/ SkipHistory PROVE IInv'
  OBVIOUS
<1> USE DEF IInv
<1>1. UNCHANGED <<pg, ch, quiet, synced, next, pgValue, mismatches, status>>
  BY DEF InsertRun, InsertResults, CommitHistory, SkipHistory, stores
<1>2. pc \in {"recording", "committing"} /\ pc' \in {"idle", "recording", "committing"}
  BY DEF InsertRun, InsertResults, CommitHistory, SkipHistory
<1>3. Shape' /\ (InSync <=> InSync')
  BY <1>1, StoresUnchanged DEF stores, Shape
<1>4. Agreement'
  BY <1>1, <1>2, <1>3 DEF Agreement, Performing
<1>5. Outcome'
  BY <1>1, <1>2 DEF Outcome
<1>6. Results' = Results
  BY <1>1 DEF Results
<1>7. Closed' /\ WholeDraft' /\ RowOfStatus' /\ HistoryIsWhole'
  <2>1. CASE InsertRun
    <3>1. /\ pc' = "recording" /\ history' = history
          /\ draft' = [NoDraft EXCEPT !.status = status]
      BY <2>1 DEF InsertRun
    <3> QED
      BY <1>1, <3>1 DEF Closed, WholeDraft, RowOfStatus, HistoryIsWhole
  <2>2. CASE InsertResults
    <3>1. /\ pc' = "committing" /\ history' = history
          /\ draft' = [draft EXCEPT !.results = Results, !.failing = mismatches \cap Results]
      BY <2>2 DEF InsertResults
    <3>2. draft = [NoDraft EXCEPT !.status = status]
      BY <2>2 DEF InsertResults, RowOfStatus
    <3>3. draft' = [status |-> status, results |-> Results, failing |-> mismatches \cap Results]
      BY <3>1, <3>2 DEF NoDraft
    <3> QED
      BY <1>1, <1>6, <3>1, <3>3 DEF Closed, WholeDraft, RowOfStatus, HistoryIsWhole
  <2>3. CASE CommitHistory
    <3>1. /\ pc = "committing" /\ pc' = "idle" /\ draft' = NoDraft
          /\ history' = history \cup {draft}
      BY <2>3 DEF CommitHistory
    <3>2. draft = [status |-> status, results |-> Results, failing |-> mismatches \cap Results]
      BY <3>1 DEF WholeDraft
    <3>3. /\ status \in Status /\ mismatches \subseteq Checks
          /\ status = "PASS" => mismatches = {}
          /\ status = "FAIL" => mismatches # {}
      BY <3>1 DEF Outcome, Shape
    <3>4. /\ draft.results = IF draft.status = "ERROR" THEN {} ELSE Checks
          /\ draft.status = "PASS" <=> draft.results # {} /\ draft.failing = {}
      <4>1. CASE status = "PASS"
        BY <3>2, <3>3, <4>1, SomeCheck DEF Results
      <4>2. CASE status = "FAIL"
        BY <3>2, <3>3, <4>2, SomeCheck DEF Results
      <4>3. CASE status = "ERROR"
        BY <3>2, <4>3 DEF Results
      <4> QED
        BY <3>3, <4>1, <4>2, <4>3 DEF Status
    <3>5. HistoryIsWhole'
      BY <3>1, <3>4 DEF HistoryIsWhole
    <3> QED
      BY <3>1, <3>5 DEF Closed, WholeDraft, RowOfStatus
  <2>4. CASE SkipHistory
    <3>1. pc' = "idle" /\ draft' = NoDraft /\ history' = history
      BY <2>4 DEF SkipHistory
    <3> QED
      BY <3>1 DEF Closed, WholeDraft, RowOfStatus, HistoryIsWhole
  <2> QED
    BY <2>1, <2>2, <2>3, <2>4
<1> QED
  BY <1>3, <1>4, <1>5, <1>7

-----------------------------------------------------------------------------
\* Every step keeps the invariant.
LEMMA NextKeeps == IInv /\ [Next]_vars => IInv'
<1> SUFFICES ASSUME IInv, [Next]_vars PROVE IInv'
  OBVIOUS
<1>1. CASE \E c \in Checks : Write(c) \/ Deliver(c)
  BY <1>1, StoresKeep
<1>2. CASE Start \/ Judge \/ Raise \/ DeadlinePasses
  BY <1>2, QuietStepsKeep
<1>3. CASE BeginAttempt
  BY <1>3, BeginAttemptKeeps
<1>4. CASE ReadPostgres \/ ReadClickHouse
  BY <1>4, ReadsKeep
<1>5. CASE InsertRun \/ InsertResults \/ CommitHistory \/ SkipHistory
  BY <1>5, RecordingKeeps
<1>6. CASE UNCHANGED vars
  <2>1. UNCHANGED stores /\ UNCHANGED <<pc, next, pgValue, mismatches, status, draft, history>>
    BY <1>6 DEF vars, stores
  <2>2. Shape' /\ (InSync <=> InSync')
    BY <2>1, StoresUnchanged DEF IInv, Shape
  <2>3. Total(CheckOrder[next], DOMAIN pg[CheckOrder[next]])' = Total(CheckOrder[next], DOMAIN pg[CheckOrder[next]])
    BY <2>1 DEF Total, stores
  <2>4. Agreement'
    BY <2>1, <2>2, <2>3 DEF IInv, Agreement, Performing, stores
  <2>5. Results' = Results
    BY <2>1 DEF Results
  <2>6. Outcome' /\ Closed' /\ WholeDraft' /\ RowOfStatus' /\ HistoryIsWhole'
    BY <2>1, <2>5 DEF IInv, Outcome, Closed, WholeDraft, RowOfStatus, HistoryIsWhole
  <2> QED
    BY <2>2, <2>4, <2>6 DEF IInv
<1> QED
  BY <1>1, <1>2, <1>3, <1>4, <1>5, <1>6 DEF Next, Perform

LEMMA Invariance == Spec => []IInv
BY InitHolds, NextKeeps, PTL DEF Spec

\* A mismatch that ends an attempt is never an artefact of reading the two stores
\* one after the other: if ClickHouse had everything from the attempt's first read
\* on and nothing was written, run_check_results_once finds none.
THEOREM MismatchIsReal == Spec => []NoFalseAlarm
<1>1. IInv => NoFalseAlarm
  BY DEF IInv, Agreement, Performing, NoFalseAlarm
<1> QED
  BY <1>1, Invariance, PTL

\* The history tables never hold part of a run, nor an outcome that the results
\* beside it contradict, whatever write_validation_history meets on its way.
THEOREM RecordedRunIsWhole == Spec => []HistoryIsWhole
<1>1. IInv => HistoryIsWhole
  BY DEF IInv
<1> QED
  BY <1>1, Invariance, PTL

-----------------------------------------------------------------------------
(* What a pass says of the counts.                                          *)

Complete(c) == ch[c] = DOMAIN pg[c]

\* A check over rows that are never removed: every change counts one more.
CountsGrow == \A c \in Checks \ Sums : \A i \in DOMAIN pg[c] : pg[c][i] = 1

Typed ==
  /\ pc \in {"idle", "started", "postgres", "clickhouse", "judging", "sleeping", "recording", "committing"}
  /\ pgValue \in Int
  /\ timeUp \in BOOLEAN /\ quiet \in BOOLEAN /\ synced \in BOOLEAN
  /\ status \in Status \cup {"NONE"}
  /\ \A c \in Checks : Len(pg[c]) <= MaxWrites

Visited(i) == i < next \/ pc = "judging"

\* While nobody writes, what was read from PostgreSQL still holds, and a count that
\* was found equal stays so: ClickHouse has nothing more to receive.
QuietReads ==
  quiet /\ Performing =>
    /\ \A i \in 1..Len(CheckOrder) :
         Visited(i) /\ CheckOrder[i] \notin Sums \cup mismatches => Complete(CheckOrder[i])
    /\ pc = "clickhouse" => pgValue = Total(CheckOrder[next], DOMAIN pg[CheckOrder[next]])

CountInv == Typed /\ CountsGrow /\ QuietReads /\ QuietPassHasCounts

LEMMA TotalIsInt ==
  ASSUME Shape, NEW c \in Checks, NEW changes, changes \subseteq DOMAIN pg[c]
  PROVE  IsFiniteSet(changes) /\ Total(c, changes) \in Int
<1>1. /\ DOMAIN pg[c] = 1..Len(pg[c]) /\ Len(pg[c]) \in Nat
      /\ \A i \in changes : pg[c][i] \in {-1, 1}
  BY DEF Shape
<1>2. IsFiniteSet(changes)
  <2>1. IsFiniteSet(1..Len(pg[c])) /\ changes \in SUBSET (1..Len(pg[c]))
    BY <1>1, FS_Interval
  <2> QED
    BY <2>1, FS_Subset
<1> QED
  BY <1>1, <1>2, SumIsInt DEF Total

\* Equal counts are the same changes.
LEMMA EqualCountsAgree ==
  ASSUME Shape, CountsGrow, NEW c \in Checks \ Sums, Total(c, ch[c]) = Total(c, DOMAIN pg[c])
  PROVE  Complete(c)
<1> DEFINE all == DOMAIN pg[c]
<1>1. ch[c] \subseteq all
  BY DEF Shape
<1>2. IsFiniteSet(all)
  BY TotalIsInt
<1>3. ASSUME NEW S, S \subseteq all PROVE Total(c, S) = Cardinality(S)
  <2>1. IsFiniteSet(S) /\ \A i \in S : pg[c][i] = 1
    BY <1>3, TotalIsInt DEF CountsGrow
  <2> QED
    BY <2>1, SumOfOnes DEF Total
<1>4. Cardinality(ch[c]) = Cardinality(all)
  BY <1>1, <1>3
<1>5. ch[c] \in SUBSET all
  BY <1>1
<1>6. all = ch[c]
  BY <1>2, <1>4, <1>5, FS_Subset
<1> QED
  BY <1>6 DEF Complete

LEMMA CountsInit == Init => CountInv
<1> SUFFICES ASSUME Init PROVE CountInv
  OBVIOUS
<1>1. MaxWrites \in Nat
  BY RunAssumption
<1>2. Typed
  <2>1. ASSUME NEW c \in Checks PROVE Len(pg[c]) = 0
    <3>1. pg[c] = <<>>
      BY DEF Init
    <3> QED
      BY <3>1
  <2>2. \A c \in Checks : Len(pg[c]) <= MaxWrites
    BY <1>1, <2>1
  <2>3. pc = "idle" /\ pgValue \in Int /\ status \in Status \cup {"NONE"}
    BY DEF Init
  <2>4. timeUp \in BOOLEAN /\ quiet \in BOOLEAN /\ synced \in BOOLEAN
    BY DEF Init
  <2> QED
    BY <2>2, <2>3, <2>4 DEF Typed
<1> QED
  BY <1>2 DEF Init, CountInv, CountsGrow, QuietReads, QuietPassHasCounts, Performing

LEMMA StoresKeepCounts ==
  IInv /\ CountInv /\ (\E c \in Checks : Write(c) \/ Deliver(c)) => CountInv'
<1> SUFFICES ASSUME IInv, CountInv, NEW c \in Checks, Write(c) \/ Deliver(c) PROVE CountInv'
  OBVIOUS
<1> USE DEF CountInv
<1>0. pg[c] \in Seq({-1, 1}) /\ ch[c] \subseteq DOMAIN pg[c] /\ pg = [d \in Checks |-> pg[d]]
      /\ ch = [d \in Checks |-> ch[d]]
  BY DEF IInv, Shape
<1>1. CASE Write(c)
  <2>1. PICK amount \in {-1, 1} : /\ pg' = [pg EXCEPT ![c] = Append(@, amount)]
                                  /\ c \notin Sums => amount = 1
    BY <1>1 DEF Write
  <2>2. Len(pg[c]) < MaxWrites /\ quiet' = FALSE /\ synced' = FALSE
        /\ UNCHANGED <<pc, pgValue, timeUp, status>>
    BY <1>1 DEF Write
  <2> DEFINE longer == Append(pg[c], amount)
  <2>3. /\ Len(longer) = Len(pg[c]) + 1 /\ DOMAIN longer = DOMAIN pg[c] \cup {Len(pg[c]) + 1}
        /\ longer[Len(pg[c]) + 1] = amount
        /\ \A i \in DOMAIN pg[c] : longer[i] = pg[c][i]
    BY <1>0
  <2>4. Typed'
    <3>1. Len(longer) <= MaxWrites
      BY <1>0, <2>2, <2>3, RunAssumption
    <3>2. \A d \in Checks : Len(pg'[d]) <= MaxWrites
      BY <1>0, <2>1, <3>1 DEF Typed
    <3> QED
      BY <2>2, <3>2 DEF Typed
  <2>5. CountsGrow'
    <3>1. c \notin Sums => \A i \in DOMAIN longer : longer[i] = 1
      BY <2>1, <2>3 DEF CountsGrow
    <3>2. pg'[c] = longer /\ \A d \in Checks : d # c => pg'[d] = pg[d]
      BY <1>0, <2>1
    <3>3. ASSUME NEW d \in Checks \ Sums PROVE \A i \in DOMAIN pg'[d] : pg'[d][i] = 1
      <4>1. CASE d = c
        BY <3>1, <3>2, <4>1
      <4>2. CASE d # c
        BY <3>2, <4>2 DEF CountsGrow
      <4> QED
        BY <4>1, <4>2
    <3> QED
      BY <3>3 DEF CountsGrow
  <2> QED
    BY <2>2, <2>4, <2>5 DEF QuietReads, QuietPassHasCounts
<1>2. CASE Deliver(c)
  <2>1. PICK n \in DOMAIN pg[c] \ ch[c] : ch' = [ch EXCEPT ![c] = @ \cup {n}]
    BY <1>2 DEF Deliver
  <2>2. UNCHANGED <<pg, pc, next, pgValue, mismatches, timeUp, status, quiet, synced>>
    BY <1>2 DEF Deliver
  <2>3. Typed' /\ CountsGrow'
    BY <2>2 DEF Typed, CountsGrow
  <2>4. ASSUME NEW d \in Checks, Complete(d) PROVE Complete(d)'
    <3>1. d # c
      BY <2>1, <2>4 DEF Complete
    <3> QED
      BY <1>0, <2>1, <2>2, <2>4, <3>1 DEF Complete
  <2>5. Total(CheckOrder[next], DOMAIN pg[CheckOrder[next]])' = Total(CheckOrder[next], DOMAIN pg[CheckOrder[next]])
    BY <2>2 DEF Total
  <2>6. QuietReads'
    <3>1. \A i \in 1..Len(CheckOrder) : CheckOrder[i] \in Checks /\ (Visited(i)' <=> Visited(i))
      BY <2>2, SomeCheck DEF Visited
    <3> QED
      BY <2>2, <2>4, <2>5, <3>1 DEF QuietReads, Performing
  <2>7. QuietPassHasCounts'
    BY <2>2, <2>4 DEF QuietPassHasCounts, Complete
  <2> QED
    BY <2>3, <2>6, <2>7
<1> QED
  BY <1>1, <1>2

LEMMA ReadsKeepCounts == IInv /\ CountInv /\ (ReadPostgres \/ ReadClickHouse) => CountInv'
<1> SUFFICES ASSUME IInv, CountInv, ReadPostgres \/ ReadClickHouse PROVE CountInv'
  OBVIOUS
<1> USE DEF CountInv
<1> DEFINE c == CheckOrder[next]
<1>0. Shape /\ c \in Checks /\ Len(CheckOrder) \in Nat /\ next \in 1..Len(CheckOrder)
  BY SomeCheck, RunAssumption DEF IInv, Shape
<1>1. UNCHANGED <<pg, ch, timeUp, status, quiet, synced>> /\ Performing /\ pc # "judging"
  BY DEF ReadPostgres, ReadClickHouse, stores, Performing
<1>2. CountsGrow'
  BY <1>1 DEF CountsGrow
<1>3. pc' \in {"postgres", "clickhouse", "judging"}
  BY DEF ReadPostgres, ReadClickHouse
<1>4. QuietPassHasCounts'
  BY <1>3 DEF QuietPassHasCounts
<1>5. CASE ReadPostgres
  <2>1. pgValue' = Total(c, DOMAIN pg[c]) /\ pc' = "clickhouse" /\ UNCHANGED <<next, mismatches>>
    BY <1>5 DEF ReadPostgres
  <2>2. Total(c, DOMAIN pg[c])' = Total(c, DOMAIN pg[c])
    BY <1>1, <2>1 DEF Total
  <2>3. pgValue' \in Int
    BY <1>0, <2>1, TotalIsInt
  <2>4. Typed'
    BY <1>1, <2>1, <2>3 DEF Typed
  <2>5. \A i \in 1..Len(CheckOrder) : (Visited(i)' <=> Visited(i)) /\ (Complete(CheckOrder[i])' <=> Complete(CheckOrder[i]))
    BY <1>1, <2>1 DEF Visited, Complete
  <2>6. QuietReads'
    BY <1>1, <2>1, <2>2, <2>5 DEF QuietReads
  <2> QED
    BY <1>2, <1>4, <2>4, <2>6
<1>6. CASE ReadClickHouse
  <2>1. /\ pc = "clickhouse" /\ pgValue' = pgValue
        /\ mismatches' = mismatches \cup IF Total(c, ch[c]) = pgValue THEN {} ELSE {c}
    BY <1>6 DEF ReadClickHouse
  <2>2. \/ next = Len(CheckOrder) /\ pc' = "judging" /\ next' = next
        \/ pc' = "postgres" /\ next' = next + 1
    BY <1>6 DEF ReadClickHouse
  <2>3. Typed'
    BY <1>1, <1>3, <2>1 DEF Typed
  <2>4. ASSUME quiet, c \notin Sums \cup mismatches' PROVE Complete(c)
    <3>1. Total(c, ch[c]) = Total(c, DOMAIN pg[c])
      BY <1>1, <2>1, <2>4 DEF QuietReads
    <3> QED
      BY <1>0, <2>4, <3>1, EqualCountsAgree
  <2>5. ASSUME NEW i \in 1..Len(CheckOrder), quiet, Visited(i)', CheckOrder[i] \notin Sums \cup mismatches'
        PROVE  Complete(CheckOrder[i])
    <3>1. i = next \/ i < next
      BY <1>0, <2>2, <2>5 DEF Visited
    <3>2. CASE i < next
      BY <1>1, <2>1, <2>5, <3>2 DEF QuietReads, Visited
    <3> QED
      BY <2>4, <2>5, <3>1, <3>2
  <2>6. \A d \in Checks : Complete(d)' <=> Complete(d)
    BY <1>1 DEF Complete
  <2>7. QuietReads'
    BY <1>1, <2>2, <2>5, <2>6, SomeCheck DEF QuietReads
  <2> QED
    BY <1>2, <1>4, <2>3, <2>7
<1> QED
  BY <1>5, <1>6

\* The outcome is PASS only when every check was visited and none is a mismatch.
LEMMA OtherStepsKeepCounts ==
  ASSUME IInv, CountInv,
         \/ BeginAttempt \/ Start \/ Judge \/ Raise \/ DeadlinePasses
         \/ InsertRun \/ InsertResults \/ CommitHistory \/ SkipHistory \/ UNCHANGED vars
  PROVE  CountInv'
<1> USE DEF CountInv
<1>1. UNCHANGED <<pg, ch, pgValue>>
  BY DEF BeginAttempt, Start, Judge, Raise, DeadlinePasses, InsertRun, InsertResults,
    CommitHistory, SkipHistory, vars, stores
<1>2. CountsGrow' /\ (\A d \in Checks : Complete(d)' <=> Complete(d))
  BY <1>1 DEF CountsGrow, Complete
<1>3. Typed'
  <2>1. CASE BeginAttempt
    <3>1. InSync \in BOOLEAN
      BY DEF InSync
    <3> QED
      BY <1>1, <2>1, <3>1 DEF BeginAttempt, Typed
  <2>2. CASE Start \/ Judge \/ Raise \/ DeadlinePasses
    BY <1>1, <2>2 DEF Start, Judge, Raise, DeadlinePasses, Typed, Status, stores
  <2>3. CASE InsertRun \/ InsertResults \/ CommitHistory \/ SkipHistory
    BY <1>1, <2>3 DEF InsertRun, InsertResults, CommitHistory, SkipHistory, Typed, stores
  <2>4. CASE UNCHANGED vars
    BY <2>4 DEF Typed, vars
  <2> QED
    BY <2>1, <2>2, <2>3, <2>4
<1>4. QuietReads'
  <2>1. CASE BeginAttempt
    <3>1. pc' = "postgres" /\ next' = 1
      BY <2>1 DEF BeginAttempt
    <3>2. \A i \in 1..Len(CheckOrder) : ~Visited(i)'
      BY <3>1 DEF Visited
    <3> QED
      BY <3>1, <3>2 DEF QuietReads
  <2>2. CASE Start \/ Judge \/ Raise \/ InsertRun \/ InsertResults \/ CommitHistory \/ SkipHistory
    <3>1. ~Performing'
      BY <2>2 DEF Start, Judge, Raise, InsertRun, InsertResults, CommitHistory, SkipHistory, Performing
    <3> QED
      BY <3>1 DEF QuietReads
  <2>3. CASE DeadlinePasses \/ UNCHANGED vars
    <3>1. UNCHANGED <<pg, pc, next, pgValue, mismatches, quiet>>
      BY <2>3 DEF DeadlinePasses, vars, stores
    <3>2. Total(CheckOrder[next], DOMAIN pg[CheckOrder[next]])' = Total(CheckOrder[next], DOMAIN pg[CheckOrder[next]])
      BY <3>1 DEF Total
    <3>3. \A i \in 1..Len(CheckOrder) : CheckOrder[i] \in Checks /\ (Visited(i)' <=> Visited(i))
      BY <3>1, SomeCheck DEF Visited
    <3> QED
      BY <1>2, <3>1, <3>2, <3>3 DEF QuietReads, Performing
  <2> QED
    BY <2>1, <2>2, <2>3
<1>5. QuietPassHasCounts'
  <2>1. CASE Judge
    <3> SUFFICES ASSUME pc' = "recording", status' = "PASS", quiet', NEW d \in Checks \ Sums
                 PROVE  Complete(d)'
      BY DEF QuietPassHasCounts, Complete
    <3>1. pc = "judging" /\ quiet /\ mismatches = {}
      BY <2>1 DEF Judge, stores
    <3>2. PICK i \in 1..Len(CheckOrder) : d = CheckOrder[i]
      BY DEF Checks
    <3>3. Complete(d)
      BY <3>1, <3>2 DEF QuietReads, Performing, Visited
    <3> QED
      BY <1>2, <3>3
  <2>2. CASE Raise \/ BeginAttempt \/ Start \/ InsertResults \/ CommitHistory \/ SkipHistory
    BY <2>2 DEF Raise, BeginAttempt, Start, InsertResults, CommitHistory, SkipHistory, QuietPassHasCounts
  <2>3. CASE DeadlinePasses \/ InsertRun \/ UNCHANGED vars
    <3>1. UNCHANGED <<pg, ch, status, quiet>> /\ (pc' = "recording" => pc = "recording")
      BY <2>3 DEF DeadlinePasses, InsertRun, vars, stores
    <3> QED
      BY <3>1 DEF QuietPassHasCounts
  <2> QED
    BY <2>1, <2>2, <2>3
<1> QED
  BY <1>2, <1>3, <1>4, <1>5

LEMMA CountsInvariance == Spec => []CountInv
<1>1. IInv /\ CountInv /\ [Next]_vars => CountInv'
  <2> SUFFICES ASSUME IInv, CountInv, [Next]_vars PROVE CountInv'
    OBVIOUS
  <2>1. CASE \E c \in Checks : Write(c) \/ Deliver(c)
    BY <2>1, StoresKeepCounts
  <2>2. CASE ReadPostgres \/ ReadClickHouse
    BY <2>2, ReadsKeepCounts
  <2>3. CASE ~(\E c \in Checks : Write(c) \/ Deliver(c)) /\ ~(ReadPostgres \/ ReadClickHouse)
    BY <2>3, OtherStepsKeepCounts DEF Next, Perform
  <2> QED
    BY <2>1, <2>2, <2>3
<1> QED
  BY <1>1, CountsInit, Invariance, PTL DEF Spec

\* Every variable has its type for any checks and any number of writes, and a
\* history transaction that is open belongs to a run with an outcome.
THEOREM RunTypeCorrect == Spec => []TypeOK
<1>1. ASSUME IInv, CountInv PROVE TypeOK
  <2>1. pg \in [Checks -> Seq({-1, 1})] /\ next \in 1..Len(CheckOrder) /\ mismatches \subseteq Checks
    BY <1>1 DEF IInv, Shape
  <2>2. ch \in [Checks -> SUBSET (1..MaxWrites)] /\ \A c \in Checks : ch[c] \subseteq DOMAIN pg[c]
    <3>1. ASSUME NEW c \in Checks PROVE ch[c] \subseteq DOMAIN pg[c] /\ ch[c] \subseteq 1..MaxWrites
      <4>1. pg[c] \in Seq({-1, 1}) /\ ch[c] \subseteq DOMAIN pg[c] /\ Len(pg[c]) <= MaxWrites
        BY <1>1 DEF IInv, Shape, CountInv, Typed
      <4> QED
        BY <4>1, RunAssumption
    <3> QED
      BY <1>1, <3>1 DEF IInv, Shape
  <2>3. draft # NoDraft => pc \in {"recording", "committing"} /\ draft.status = status /\ status # "NONE"
    <3> SUFFICES ASSUME draft # NoDraft
                 PROVE  pc \in {"recording", "committing"} /\ draft.status = status /\ status # "NONE"
      OBVIOUS
    <3>1. pc \in {"recording", "committing"} /\ status \in Status
      BY <1>1 DEF IInv, Closed, Outcome
    <3>2. draft.status = status
      BY <1>1, <3>1 DEF IInv, WholeDraft, RowOfStatus, NoDraft
    <3> QED
      BY <3>1, <3>2 DEF Status
  <2> QED
    BY <1>1, <2>1, <2>2, <2>3 DEF CountInv, Typed, TypeOK
<1> QED
  BY <1>1, Invariance, CountsInvariance, PTL

\* A run that passes while nobody writes proves that ClickHouse has every row and
\* event the counting checks count: for any checks, each read at its own time.
THEOREM PassCountsEverything == Spec => []QuietPassHasCounts
<1>1. CountInv => QuietPassHasCounts
  BY DEF CountInv
<1> QED
  BY <1>1, CountsInvariance, PTL
=============================================================================
