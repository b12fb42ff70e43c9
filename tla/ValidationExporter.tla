-------------------------- MODULE ValidationExporter --------------------------
(***************************************************************************)
(* cdc_validation_exporter.py: a ThreadingHTTPServer whose request threads *)
(* share the dictionary STATE.  A scrape that finds the last refresh older *)
(* than the interval refreshes STATE itself, key by key, and then renders  *)
(* a page from it, key by key; nothing is locked, so scrapes interleave at *)
(* every assignment and every read.  One run of the checks can take longer *)
(* than the interval: nine ClickHouse queries of up to VALIDATION_TIMEOUT  *)
(* each.                                                                   *)
(*                                                                         *)
(* STATE is abstracted to the keys the pages' meaning rests on.  Row       *)
(* counts, slots and their like are one key, "loaded", whose value is the  *)
(* number of the run that loaded them; latency percentiles are one key,    *)
(* "latency", likewise.  Patroni's roles are read apart from the checks    *)
(* and are left out.                                                       *)
(***************************************************************************)
EXTENDS Integers, Sequences, FiniteSets

CONSTANTS
  Checks,     \* CHECKS of compare_postgres_clickhouse.py
  Scrapers,   \* request threads
  Main,       \* the thread of main(), which refreshes once before serving
  MaxRuns     \* bound: no further interval passes once this many refreshes have begun

ASSUME ExporterAssumption ==
  /\ IsFiniteSet(Checks) /\ Main \notin Scrapers
  /\ MaxRuns \in Nat

Threads == Scrapers \cup {Main}

VARIABLES
  state,      \* STATE
  due,        \* STATE["last_run"] is at least the interval ago
  serving,    \* main has reached serve_forever
  pc,         \* where each thread is
  todo,       \* the assignments its refresh has still to make
  page,       \* what its render has read so far, in the order of Reads
  \* History: the runs by number, and which of them are out of date.
  runs,       \* outcomes of the refreshes begun so far
  run,        \* the run each thread performs
  ended,      \* runs whose refresh has returned
  before,     \* runs that had ended when the thread's run began
  old,        \* runs that ended before another ended run even began
  oldAtAsk    \* old, when the thread's scrape began

vars == <<state, due, serving, pc, todo, page, runs, run, ended, before, old, oldAtAsk>>
history == <<runs, run, ended, before, old, oldAtAsk>>

Init ==
  /\ state = [up |-> 0, failed |-> Cardinality(Checks), passing |-> {}, loaded |-> 0,
              latencyUp |-> 0, latency |-> 0]
  /\ due = TRUE
  /\ serving = FALSE
  /\ pc = [t \in Threads |-> IF t = Main THEN "stale" ELSE "idle"]
  /\ todo = [t \in Threads |-> <<>>]
  /\ page = [t \in Threads |-> <<>>]
  /\ runs = <<>>
  /\ run = [t \in Threads |-> 0]
  /\ ended = {} /\ old = {}
  /\ before = [t \in Threads |-> {}]
  /\ oldAtAsk = [t \in Threads |-> {}]

Goto(t, label) == pc' = [pc EXCEPT ![t] = label]

\* The interval since the last refresh runs out.
IntervalPasses ==
  /\ ~due /\ Len(runs) < MaxRuns
  /\ due' = TRUE
  /\ UNCHANGED <<state, serving, pc, todo, page, history>>

-----------------------------------------------------------------------------
(* refresh_state.  The outcome of a run is the set of checks that failed,   *)
(* or Error if the checks or the queries after them raised.                 *)

Error == [kind |-> "error", failing |-> {}]
Outcome == {Error} \cup [kind : {"checked"}, failing : SUBSET Checks]

\* STATE["last_run"] = time.time(), before anything is read.
BeginRefresh(t) ==
  /\ pc[t] = "stale"
  /\ due' = FALSE
  /\ Goto(t, "checking")
  /\ runs' = Append(runs, Error)
  /\ run' = [run EXCEPT ![t] = Len(runs) + 1]
  /\ before' = [before EXCEPT ![t] = ended]
  /\ UNCHANGED <<state, serving, todo, page, ended, old, oldAtAsk>>

Checked(r, failing) ==
  << <<"up", 1>>, <<"failed", Cardinality(failing)>>, <<"passing", Checks \ failing>>,
     <<"loaded", r>> >>

Reset_KeepsFailed == << <<"up", 0>>, <<"passing", {}>>, <<"loaded", 0>> >>
Reset_KeepsLoaded ==
  << <<"up", 0>>, <<"failed", Cardinality(Checks)>>, <<"passing", {}>> >>
Reset ==
  << <<"up", 0>>, <<"failed", Cardinality(Checks)>>, <<"passing", {}>>, <<"loaded", 0>> >>

\* refresh_latency_state, called only when the checks ran.
LatencyLoaded(r) == << <<"latencyUp", 1>>, <<"latency", r>> >>
LatencyError == << <<"latencyUp", 0>> >>

RunChecks_Uncaught(t) ==
  /\ pc[t] = "checking"
  /\ \E o \in Outcome :
       /\ runs' = [runs EXCEPT ![run[t]] = o]
       /\ IF o = Error
          THEN Goto(t, "died") /\ UNCHANGED todo
          ELSE Goto(t, "storing") /\ todo' = [todo EXCEPT ![t] = Checked(run[t], o.failing)]
  /\ UNCHANGED <<state, due, serving, page, run, ended, before, old, oldAtAsk>>
RunChecks(t) ==
  /\ pc[t] = "checking"
  /\ Goto(t, "storing")
  /\ \E o \in Outcome, latency \in {LatencyLoaded(run[t]), LatencyError} :
       /\ runs' = [runs EXCEPT ![run[t]] = o]
       /\ todo' = [todo EXCEPT ![t] = IF o = Error THEN Reset ELSE Checked(run[t], o.failing) \o latency]
  /\ UNCHANGED <<state, due, serving, page, run, ended, before, old, oldAtAsk>>

\* The next assignment to STATE.
Store(t) ==
  /\ pc[t] = "storing" /\ todo[t] # <<>>
  /\ state' = [state EXCEPT ![Head(todo[t])[1]] = Head(todo[t])[2]]
  /\ todo' = [todo EXCEPT ![t] = Tail(@)]
  /\ UNCHANGED <<due, serving, pc, page, history>>

\* refresh_state returns: to render_metrics, or to main, which starts serving.
EndRefresh(t) ==
  /\ pc[t] = "storing" /\ todo[t] = <<>>
  /\ Goto(t, IF t = Main THEN "serving" ELSE "rendering")
  /\ serving' = (serving \/ t = Main)
  /\ ended' = ended \cup {run[t]}
  /\ old' = old \cup before[t]
  /\ run' = [run EXCEPT ![t] = 0]
  /\ before' = [before EXCEPT ![t] = {}]
  /\ UNCHANGED <<state, due, todo, page, runs, oldAtAsk>>

-----------------------------------------------------------------------------
(* render_metrics.                                                          *)

\* The keys in the order the page reads them; cdc_validation_pass reads two.
Reads == <<"up", "failed", "up", "latencyUp">>

Ask(t) ==
  /\ serving /\ pc[t] \in {"idle", "answered"}
  /\ Goto(t, "asked")
  /\ page' = [page EXCEPT ![t] = <<>>]
  /\ oldAtAsk' = [oldAtAsk EXCEPT ![t] = old]
  /\ UNCHANGED <<state, due, serving, todo, runs, run, ended, before, old>>

\* if now - STATE["last_run"] >= interval
Compare(t) ==
  /\ pc[t] = "asked"
  /\ Goto(t, IF due THEN "stale" ELSE "rendering")
  /\ UNCHANGED <<state, due, serving, todo, page, history>>

Render(t) ==
  /\ pc[t] = "rendering"
  /\ page' = [page EXCEPT ![t] = Append(@, state[Reads[Len(@) + 1]])]
  /\ Goto(t, IF Len(page'[t]) = Len(Reads) THEN "answered" ELSE "rendering")
  /\ UNCHANGED <<state, due, serving, todo, history>>

-----------------------------------------------------------------------------
Step(t) ==
  \/ BeginRefresh(t) \/ RunChecks(t) \/ Store(t) \/ EndRefresh(t)
  \/ Compare(t) \/ Render(t)

Next ==
  \/ IntervalPasses
  \/ \E t \in Scrapers : Ask(t)
  \/ \E t \in Threads : Step(t)

Spec == Init /\ [][Next]_vars

\* A started request goes on: every query has a timeout or is answered.
FairSpec == Spec /\ \A t \in Threads : WF_vars(Step(t))

-----------------------------------------------------------------------------
(* Properties.                                                              *)

Clean(r) == runs[r].kind = "checked" /\ runs[r].failing = {}

\* The runs a page may speak of: all but those that were out of date, because a
\* later one had begun and ended, when the page was asked for.
Recent(t) == (1..Len(runs)) \ oldAtAsk[t]

\* cdc_validation_pass = 1 on a page means that a recent run found no mismatch,
\* and cdc_validation_up = 0 that a recent run could not be performed, however
\* refreshes and renders interleave: a pass does not outlive the run it came from.
PageTellsARecentRun ==
  \A t \in Scrapers : pc[t] = "answered" =>
    /\ page[t][2] = 0 /\ page[t][3] = 1 => \E r \in Recent(t) : Clean(r)
    /\ page[t][1] = 0 => \E r \in Recent(t) : runs[r] = Error

\* Nobody is between reading last_run and the end of a refresh.
Settled == \A t \in Threads : pc[t] \notin {"stale", "checking", "storing"}

\* The last run to end ran alone: it began after every other run had ended.
LastAlone == ended # {} /\ ended = 1..Len(runs) /\ old = 1..(Len(runs) - 1)

\* After a refresh that overlapped no other, the keys agree with one another and
\* with what that run found; after an error nothing of an earlier run is left.
AloneIsConsistent ==
  Settled /\ LastAlone =>
    LET r == Len(runs) IN
    /\ state.up = 1 <=> runs[r] # Error
    /\ state.failed = Cardinality(Checks \ state.passing)
    /\ state.up = 1 => state.passing = Checks \ runs[r].failing /\ state.loaded = r
    /\ state.up = 0 => state.passing = {} /\ state.loaded = 0

\* Every scrape is answered, although refreshes fail and overlap.
ScrapeAnswered == \A t \in Scrapers : pc[t] = "asked" ~> pc[t] = "answered"

\* cdc_validation_failed_checks is the "number of failed CDC validation checks",
\* those whose cdc_validation_check_pass is 0, whenever nothing is being refreshed.
CountMatchesChecks == Settled => state.failed = Cardinality(Checks \ state.passing)

\* cdc_latency_up tells "whether latency probe metrics refreshed successfully":
\* once the last run has ended, 1 means that this run loaded the latency figures.
LatencyUpIsHonest ==
  Settled /\ LastAlone /\ state.latencyUp = 1 => state.latency = Len(runs)
=============================================================================
