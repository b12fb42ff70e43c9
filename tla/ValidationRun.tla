----------------------------- MODULE ValidationRun -----------------------------
(***************************************************************************)
(* compare_postgres_clickhouse.py: the checks are run one after the other, *)
(* each reading PostgreSQL and then ClickHouse while both go on changing;  *)
(* attempts are repeated until one has no mismatch or the deadline is over,*)
(* and the outcome is recorded in the history tables as far as possible.   *)
(*                                                                         *)
(* What a check aggregates is a sequence of committed changes, each with   *)
(* what it adds to the check's value.  A count only grows: rows are never  *)
(* removed, a deleted or updated row stays one, and a shipment only moves  *)
(* forward.  A sum (stock, revenue, quantities) has changes of either sign.*)
(* ClickHouse shows the changes delivered so far, those of different rows  *)
(* in any order, which is what LatestState lets it do.                     *)
(***************************************************************************)
EXTENDS Integers, Sequences, Functions

CONSTANTS
  CheckOrder,    \* CHECKS, in order
  Sums,          \* the checks that add up amounts
  MaxWrites      \* bound: changes of each check's table

Checks == {CheckOrder[i] : i \in 1..Len(CheckOrder)}

ASSUME RunAssumption ==
  /\ CheckOrder \in Seq(Checks) /\ CheckOrder # <<>>
  /\ Sums \subseteq Checks
  /\ MaxWrites \in Nat

VARIABLES
  pg,          \* the committed changes behind each check
  ch,          \* which of them ClickHouse has
  pc,          \* where the run is
  next,        \* index of the check to perform
  pgValue,     \* what the check read from PostgreSQL
  mismatches,  \* checks of this attempt that did not pass
  timeUp,      \* time.monotonic() >= deadline
  status,      \* the run's outcome
  draft,       \* rows written by the history transaction that is open
  history,     \* committed rows of the history tables
  \* History: since this attempt began, ...
  quiet,       \* ... PostgreSQL has not changed
  synced       \* ... and ClickHouse had everything all the time

vars == <<pg, ch, pc, next, pgValue, mismatches, timeUp, status, draft, history, quiet, synced>>
stores == <<pg, ch, quiet, synced>>

Status == {"PASS", "FAIL", "ERROR"}
NoDraft == [status |-> "NONE", results |-> {}, failing |-> {}]

InSync == \A c \in Checks : ch[c] = DOMAIN pg[c]

Init ==
  /\ pg = [c \in Checks |-> <<>>]
  /\ ch = [c \in Checks |-> {}]
  /\ pc = "idle" /\ next = 1 /\ pgValue = 0 /\ mismatches = {}
  /\ timeUp = FALSE /\ status = "NONE"
  /\ draft = NoDraft /\ history = {}
  /\ quiet = TRUE /\ synced = TRUE

-----------------------------------------------------------------------------
(* The two stores.                                                          *)

Write(c) ==
  /\ Len(pg[c]) < MaxWrites
  /\ \E amount \in IF c \in Sums THEN {-1, 1} ELSE {1} : pg' = [pg EXCEPT ![c] = Append(@, amount)]
  /\ quiet' = FALSE /\ synced' = FALSE
  /\ UNCHANGED <<ch, pc, next, pgValue, mismatches, timeUp, status, draft, history>>

Deliver(c) ==
  /\ \E i \in DOMAIN pg[c] \ ch[c] : ch' = [ch EXCEPT ![c] = @ \cup {i}]
  /\ UNCHANGED <<pg, pc, next, pgValue, mismatches, timeUp, status, draft, history, quiet, synced>>

Total(c, changes) == SumFunctionOnSet(pg[c], changes)

-----------------------------------------------------------------------------
(* The run.                                                                 *)

\* run_check_results_once: a new list of results, a new connection.
BeginAttempt_KeepsResults ==
  /\ pc \in {"started", "sleeping"}
  /\ pc' = "postgres" /\ next' = 1
  /\ quiet' = TRUE /\ synced' = InSync
  /\ UNCHANGED <<pg, ch, pgValue, mismatches, timeUp, status, draft, history>>
BeginAttempt ==
  /\ pc \in {"started", "sleeping"}
  /\ pc' = "postgres" /\ next' = 1 /\ mismatches' = {}
  /\ quiet' = TRUE /\ synced' = InSync
  /\ UNCHANGED <<pg, ch, pgValue, timeUp, status, draft, history>>

Start ==
  /\ pc = "idle"
  /\ pc' = "started" /\ timeUp' = FALSE /\ status' = "NONE"
  /\ UNCHANGED <<next, pgValue, mismatches, draft, history, stores>>

ReadPostgres ==
  /\ pc = "postgres"
  /\ pgValue' = Total(CheckOrder[next], DOMAIN pg[CheckOrder[next]])
  /\ pc' = "clickhouse"
  /\ UNCHANGED <<next, mismatches, timeUp, status, draft, history, stores>>

ReadClickHouse_ForgetsEarlier ==
  /\ pc = "clickhouse"
  /\ LET c == CheckOrder[next]
     IN  mismatches' = IF Total(c, ch[c]) = pgValue THEN {} ELSE {c}
  /\ IF next = Len(CheckOrder) THEN pc' = "judging" /\ UNCHANGED next
                               ELSE pc' = "postgres" /\ next' = next + 1
  /\ UNCHANGED <<pgValue, timeUp, status, draft, history, stores>>
ReadClickHouse ==
  /\ pc = "clickhouse"
  /\ LET c == CheckOrder[next]
     IN  mismatches' = mismatches \cup IF Total(c, ch[c]) = pgValue THEN {} ELSE {c}
  /\ IF next = Len(CheckOrder) THEN pc' = "judging" /\ UNCHANGED next
                               ELSE pc' = "postgres" /\ next' = next + 1
  /\ UNCHANGED <<pgValue, timeUp, status, draft, history, stores>>

\* A query or a connection fails: the exception leaves run_checks.
Raise ==
  /\ pc \in {"postgres", "clickhouse"}
  /\ status' = "ERROR" /\ pc' = "recording"
  /\ UNCHANGED <<next, pgValue, mismatches, timeUp, draft, history, stores>>

Judge_ForEver ==
  /\ pc = "judging"
  /\ IF mismatches = {} THEN status' = "PASS" /\ pc' = "recording"
                        ELSE pc' = "sleeping" /\ UNCHANGED status
  /\ UNCHANGED <<next, pgValue, mismatches, timeUp, draft, history, stores>>
Judge ==
  /\ pc = "judging"
  /\ IF mismatches = {} THEN status' = "PASS" /\ pc' = "recording"
     ELSE IF timeUp THEN status' = "FAIL" /\ pc' = "recording"
                    ELSE pc' = "sleeping" /\ UNCHANGED status
  /\ UNCHANGED <<next, pgValue, mismatches, timeUp, draft, history, stores>>

DeadlinePasses ==
  /\ ~timeUp /\ pc # "idle"
  /\ timeUp' = TRUE
  /\ UNCHANGED <<pc, next, pgValue, mismatches, status, draft, history, stores>>

-----------------------------------------------------------------------------
(* write_validation_history: one transaction, and best effort.              *)

Results == IF status = "ERROR" THEN {} ELSE Checks

InsertRun_Committed ==
  /\ pc = "recording" /\ draft = NoDraft
  /\ draft' = [NoDraft EXCEPT !.status = status]
  /\ history' = history \cup {draft'}
  /\ UNCHANGED <<pc, next, pgValue, mismatches, timeUp, status, stores>>
InsertRun ==
  /\ pc = "recording" /\ draft = NoDraft
  /\ draft' = [NoDraft EXCEPT !.status = status]
  /\ UNCHANGED <<pc, next, pgValue, mismatches, timeUp, status, history, stores>>

InsertResults ==
  /\ pc = "recording" /\ draft # NoDraft
  /\ draft' = [draft EXCEPT !.results = Results, !.failing = mismatches \cap Results]
  /\ pc' = "committing"
  /\ UNCHANGED <<next, pgValue, mismatches, timeUp, status, history, stores>>

CommitHistory ==
  /\ pc = "committing"
  /\ history' = history \cup {draft}
  /\ draft' = NoDraft /\ pc' = "idle"
  /\ UNCHANGED <<next, pgValue, mismatches, timeUp, status, stores>>

\* The exception is reported and the transaction rolled back; with
\* VALIDATION_HISTORY_ENABLED=0 nothing is written in the first place.
SkipHistory_NotRolledBack ==
  /\ pc \in {"recording", "committing"}
  /\ pc' = "idle"
  /\ UNCHANGED <<next, pgValue, mismatches, timeUp, status, draft, history, stores>>
SkipHistory ==
  /\ pc \in {"recording", "committing"}
  /\ draft' = NoDraft /\ pc' = "idle"
  /\ UNCHANGED <<next, pgValue, mismatches, timeUp, status, history, stores>>

-----------------------------------------------------------------------------
Perform ==
  \/ BeginAttempt \/ ReadPostgres \/ ReadClickHouse \/ Raise \/ Judge
  \/ InsertRun \/ InsertResults \/ CommitHistory \/ SkipHistory

Next ==
  \/ \E c \in Checks : Write(c) \/ Deliver(c)
  \/ Start \/ DeadlinePasses \/ Perform

Spec == Init /\ [][Next]_vars

\* A started run goes on, and time passes.
FairSpec == Spec /\ WF_vars(Perform) /\ WF_vars(DeadlinePasses)

-----------------------------------------------------------------------------
(* Properties.                                                              *)

\* Every variable has its type; an open history transaction belongs to a run that
\* has its outcome.
TypeOK ==
  /\ pg \in [Checks -> Seq({-1, 1})]
  /\ ch \in [Checks -> SUBSET (1..MaxWrites)] /\ \A c \in Checks : ch[c] \subseteq DOMAIN pg[c]
  /\ pc \in {"idle", "started", "postgres", "clickhouse", "judging", "sleeping", "recording", "committing"}
  /\ next \in 1..Len(CheckOrder) /\ pgValue \in Int /\ mismatches \subseteq Checks
  /\ timeUp \in BOOLEAN /\ quiet \in BOOLEAN /\ synced \in BOOLEAN
  /\ status \in Status \cup {"NONE"}
  /\ draft # NoDraft => pc \in {"recording", "committing"} /\ draft.status = status /\ status # "NONE"

\* A run that passed while nobody wrote says that ClickHouse has every counted
\* change, although each check read the stores at a time of its own.  It says
\* nothing of sums: missing changes that cancel out pass every check.
QuietPassHasCounts ==
  pc = "recording" /\ status = "PASS" /\ quiet =>
    \A c \in Checks \ Sums : ch[c] = DOMAIN pg[c]

\* An attempt that finds a mismatch met a change that ClickHouse did not have:
\* nothing is reported when the stores agreed from its first read to its last.
NoFalseAlarm == pc = "judging" /\ mismatches # {} => ~synced

\* A recorded run has the results of all its checks, or none if it could not be
\* performed, and it passed iff none of them failed.
HistoryIsWhole ==
  \A row \in history :
    /\ row.results = IF row.status = "ERROR" THEN {} ELSE Checks
    /\ row.status = "PASS" <=> row.results # {} /\ row.failing = {}

\* Every run ends: retries stop at the deadline.
RunEnds == pc = "started" ~> pc = "idle"
=============================================================================
