------------------------ MODULE ValidationExporter_proofs ------------------------
(***************************************************************************)
(* Any number of scrapers, checks and overlapping refreshes: what a page   *)
(* says comes from a recent run, although its keys may come from several.  *)
(***************************************************************************)
EXTENDS ValidationExporter, FiniteSetTheorems, TLAPS

Keys == {"up", "failed", "passing", "loaded", "latencyUp", "latency"}
State == [up : Nat, failed : Nat, passing : SUBSET Checks, loaded : Nat, latencyUp : Nat,
          latency : Nat]
Assignment == ((Keys \ {"passing"}) \X Nat) \cup ({"passing"} \X SUBSET Checks)

\* The keys that every refresh assigns, whatever its outcome.
Shown == {"up", "failed", "passing", "loaded"}

\* The checks that run r shows as failed: all of them if it could not be performed.
Failing(r) == IF runs[r] = Error THEN Checks ELSE runs[r].failing

\* What run r assigns to key k.
Value(k, r) ==
  CASE k = "up"      -> IF runs[r] = Error THEN 0 ELSE 1
    [] k = "failed"  -> Cardinality(Failing(r))
    [] k = "passing" -> Checks \ Failing(r)
    [] OTHER         -> IF runs[r] = Error THEN 0 ELSE r

(* The parts of the inductive invariant.                                     *)

Types ==
  /\ state \in State
  /\ pc \in [Threads -> {"idle", "asked", "stale", "checking", "storing", "rendering", "answered",
                        "serving"}]
  /\ todo \in [Threads -> Seq(Assignment)]
  /\ page \in [Threads -> Seq(Nat)]
  /\ runs \in Seq(Outcome)
  /\ run \in [Threads -> Nat]
  /\ before \in [Threads -> SUBSET Nat] /\ oldAtAsk \in [Threads -> SUBSET Nat]

Busy(t) == pc[t] \in {"checking", "storing"}

\* Every run is performed by one thread, and is old only when it has ended.
Numbered ==
  /\ ended \subseteq 1..Len(runs) /\ old \subseteq ended
  /\ \A t \in Threads :
       /\ before[t] \subseteq ended /\ oldAtAsk[t] \subseteq old
       /\ Busy(t) => run[t] \in (1..Len(runs)) \ ended
       /\ \A u \in Threads \ {t} : Busy(t) /\ Busy(u) => run[t] # run[u]

\* No page is rendered before the first refresh is over.
Served ==
  /\ serving => ended # {}
  /\ \A t \in Threads : pc[t] \in {"asked", "rendering", "answered"} => ended # {}

\* What a thread has still to assign is what its run found.
Pending ==
  \A t \in Threads : pc[t] = "storing" =>
    \A i \in 1..Len(todo[t]) : todo[t][i][1] \in Shown => todo[t][i][2] = Value(todo[t][i][1], run[t])

\* Thread t has assigned key k in the run it performs.
Stored(t, k) == pc[t] = "storing" /\ \A i \in 1..Len(todo[t]) : todo[t][i][1] # k

\* The outcome of run r is known.
Known(r) == r \in 1..Len(runs) /\ \A t \in Threads : pc[t] = "checking" => run[t] # r

\* The run that assigned key k last: not an old one, and none that was over when a
\* thread began that has assigned the key since.
Source(k, r) ==
  /\ Known(r) /\ r \notin old /\ state[k] = Value(k, r)
  /\ \A t \in Threads : Stored(t, k) => r \notin before[t]

Sourced ==
  \A k \in Shown :
    ended # {} \/ (\E t \in Threads : Stored(t, k)) => \E r \in 1..Len(runs) : Source(k, r)

\* What a thread has read was assigned by a run that was not old when it was asked.
SoundPage(t) ==
  \A i \in 1..Len(page[t]) : Reads[i] \in Shown =>
    \E r \in 1..Len(runs) : Known(r) /\ r \notin oldAtAsk[t] /\ page[t][i] = Value(Reads[i], r)

Read ==
  \A t \in Threads :
    /\ pc[t] \in {"asked", "stale", "checking", "storing"} => page[t] = <<>>
    /\ pc[t] = "rendering" => Len(page[t]) < Len(Reads)
    /\ pc[t] = "answered" => Len(page[t]) = Len(Reads)
    /\ Len(page[t]) <= Len(Reads)
    /\ SoundPage(t)

IInv == Types /\ Numbered /\ Served /\ Pending /\ Sourced /\ Read

-----------------------------------------------------------------------------
(* The keys and their values.                                                *)

LEMMA StateIsFunction ==
  ASSUME state \in State PROVE state = [k \in Keys |-> state[k]]
BY DEF State, Keys

\* An assignment to one key leaves the others as they are.
LEMMA StateUpdate ==
  ASSUME state \in State, NEW e \in Assignment, state' = [state EXCEPT ![e[1]] = e[2]]
  PROVE  state' \in State /\ state'[e[1]] = e[2] /\ \A k \in Keys \ {e[1]} : state'[k] = state[k]
<1>1. e[1] \in Keys /\ (e[1] = "passing" => e[2] \in SUBSET Checks)
      /\ (e[1] # "passing" => e[2] \in Nat)
  BY DEF Assignment, Keys
<1>2. state'[e[1]] = e[2] /\ \A k \in Keys \ {e[1]} : state'[k] = state[k]
  BY <1>1, StateIsFunction
<1>3. state' \in State
  <2>1. CASE e[1] = "up"
    BY <1>1, <2>1 DEF State
  <2>2. CASE e[1] = "failed"
    BY <1>1, <2>2 DEF State
  <2>3. CASE e[1] = "passing"
    BY <1>1, <2>3 DEF State
  <2>4. CASE e[1] = "loaded"
    BY <1>1, <2>4 DEF State
  <2>5. CASE e[1] = "latencyUp"
    BY <1>1, <2>5 DEF State
  <2>6. CASE e[1] = "latency"
    BY <1>1, <2>6 DEF State
  <2> QED
    BY <1>1, <2>1, <2>2, <2>3, <2>4, <2>5, <2>6 DEF Keys
<1> QED
  BY <1>2, <1>3

\* What a run assigns depends on its outcome alone.
LEMMA ValueKept ==
  ASSUME NEW k, NEW r, runs'[r] = runs[r]
  PROVE  Value(k, r)' = Value(k, r)
BY DEF Value, Failing

LEMMA Concatenated ==
  ASSUME NEW S, NEW c \in Seq(S), NEW d \in Seq(S), NEW s, s = c \o d
  PROVE  /\ s \in Seq(S) /\ Len(s) = Len(c) + Len(d)
         /\ \A i \in 1..Len(c) : s[i] = c[i]
         /\ \A i \in 1..Len(d) : s[Len(c) + i] = d[i]
OBVIOUS

\* The assignments s of run r if it found the checks f to fail.
RunAssigns(s, r, f) ==
  /\ s \in Seq(Assignment)
  /\ \A k \in Shown : \E i \in 1..Len(s) : s[i][1] = k
  /\ \A i \in 1..Len(s) :
       \/ s[i] = <<"up", 1>> \/ s[i] = <<"failed", Cardinality(f)>>
       \/ s[i] = <<"passing", Checks \ f>> \/ s[i] = <<"loaded", r>>
       \/ s[i][1] \notin Shown

LEMMA CheckedAssigns ==
  ASSUME NEW r \in Nat, NEW f \in SUBSET Checks,
         NEW latency \in {LatencyLoaded(r), LatencyError}
  PROVE  RunAssigns(Checked(r, f) \o latency, r, f)
<1> SUFFICES ASSUME NEW s, s = Checked(r, f) \o latency PROVE RunAssigns(s, r, f)
  OBVIOUS
<1>1. f \in SUBSET Checks /\ Cardinality(f) \in Nat
  BY ExporterAssumption, FS_Subset, FS_CardinalityType
<1>2. PICK c : c = Checked(r, f)
  OBVIOUS
<1>3. /\ c \in Seq(Assignment) /\ Len(c) = 4
      /\ c[1] = <<"up", 1>> /\ c[2] = <<"failed", Cardinality(f)>>
      /\ c[3] = <<"passing", Checks \ f>> /\ c[4] = <<"loaded", r>>
  BY <1>1, <1>2 DEF Checked, Assignment, Keys
<1>4. latency \in Seq(Assignment) /\ \A i \in 1..Len(latency) : latency[i][1] \notin Shown
  BY DEF LatencyLoaded, LatencyError, Assignment, Keys, Shown
<1>5. /\ s \in Seq(Assignment) /\ Len(s) = 4 + Len(latency) /\ Len(latency) \in Nat
      /\ \A i \in 1..4 : s[i] = c[i]
      /\ \A i \in 1..Len(latency) : s[4 + i] = latency[i]
  <2>1. s = c \o latency /\ c \in Seq(Assignment) /\ latency \in Seq(Assignment)
    BY <1>2, <1>3, <1>4
  <2>2. /\ s \in Seq(Assignment) /\ Len(s) = Len(c) + Len(latency)
        /\ \A i \in 1..Len(c) : s[i] = c[i]
        /\ \A i \in 1..Len(latency) : s[Len(c) + i] = latency[i]
    BY <2>1, Concatenated
  <2>3. Len(c) = 4 /\ Len(latency) \in Nat
    BY <1>3, <1>4
  <2> QED
    BY <2>2, <2>3
<1>6. s[1] = c[1] /\ s[2] = c[2] /\ s[3] = c[3] /\ s[4] = c[4]
  BY <1>5
<1>7. \A k \in Shown : \E i \in 1..Len(s) : s[i][1] = k
  <2>1. 1 \in 1..Len(s) /\ 2 \in 1..Len(s) /\ 3 \in 1..Len(s) /\ 4 \in 1..Len(s)
    BY <1>5
  <2>2. s[1][1] = "up" /\ s[2][1] = "failed" /\ s[3][1] = "passing" /\ s[4][1] = "loaded"
    BY <1>3, <1>6
  <2> QED
    BY <2>1, <2>2, Zenon DEF Shown
<1>8. ASSUME NEW i \in 1..Len(s), i \notin 1..4 PROVE s[i][1] \notin Shown
  <2>1. i - 4 \in 1..Len(latency) /\ i = 4 + (i - 4)
    BY <1>5, <1>8
  <2> QED
    BY <2>1, <1>4, <1>5
<1>9. ASSUME NEW i \in 1..Len(s)
      PROVE  \/ s[i] = <<"up", 1>> \/ s[i] = <<"failed", Cardinality(f)>>
             \/ s[i] = <<"passing", Checks \ f>> \/ s[i] = <<"loaded", r>>
             \/ s[i][1] \notin Shown
  <2>1. i \notin 1..4 \/ i = 1 \/ i = 2 \/ i = 3 \/ i = 4
    OBVIOUS
  <2> QED
    BY <2>1, <1>3, <1>6, <1>8
<1> QED
  BY <1>5, <1>7, <1>9 DEF RunAssigns

LEMMA ResetAssigns ==
  /\ Reset \in Seq(Assignment)
  /\ \A k \in Shown : \E i \in 1..Len(Reset) : Reset[i][1] = k
  /\ \A i \in 1..Len(Reset) :
       \/ Reset[i] = <<"up", 0>> \/ Reset[i] = <<"failed", Cardinality(Checks)>>
       \/ Reset[i] = <<"passing", {}>> \/ Reset[i] = <<"loaded", 0>>
<1>1. Cardinality(Checks) \in Nat
  BY ExporterAssumption, FS_CardinalityType
<1>2. Reset = << <<"up", 0>>, <<"failed", Cardinality(Checks)>>, <<"passing", {}>>, <<"loaded", 0>> >>
  BY DEF Reset
<1>3. Reset \in Seq(Assignment)
  BY <1>1, <1>2 DEF Assignment, Keys
<1> QED
  BY <1>2, <1>3 DEF Shown

-----------------------------------------------------------------------------
(* The inductive invariant.                                                  *)

LEMMA InitInv == Init => IInv
<1> SUFFICES ASSUME Init PROVE IInv
  OBVIOUS
<1>1. Cardinality(Checks) \in Nat
  BY ExporterAssumption, FS_CardinalityType
<1>2. Types
  BY <1>1 DEF Init, Types, State, Assignment, Threads
<1>3. Numbered /\ Served /\ Pending
  BY DEF Init, Numbered, Served, Pending, Busy
<1>4. Sourced
  BY DEF Init, Sourced, Stored
<1>5. Read
  BY DEF Init, Read, SoundPage, Reads
<1> QED
  BY <1>2, <1>3, <1>4, <1>5 DEF IInv

\* A step that leaves the refreshes and STATE alone.
QuietStep ==
  /\ UNCHANGED <<state, todo, runs, run, ended, before, old>>
  /\ \A u \in Threads : Busy(u) \/ Busy(u)' => pc'[u] = pc[u]

LEMMA QuietKeeps ==
  ASSUME IInv, QuietStep, \A u \in Threads : oldAtAsk'[u] \subseteq old
  PROVE  Numbered' /\ Pending' /\ Sourced' /\ \A r : Known(r)' <=> Known(r)
<1>1. \A r : Known(r)' <=> Known(r)
  BY DEF QuietStep, Busy, Known
<1>2. \A u \in Threads : Busy(u)' <=> Busy(u)
  BY DEF QuietStep, Busy
<1>3. Numbered'
  BY <1>2 DEF IInv, Numbered, QuietStep
<1>4. \A k, r : Value(k, r)' = Value(k, r)
  BY DEF QuietStep, Value, Failing
<1>5. Pending'
  <2>1. \A u \in Threads : pc'[u] = "storing" => pc[u] = "storing"
    BY DEF QuietStep, Busy
  <2> QED
    BY <2>1, <1>4 DEF IInv, Pending, QuietStep
<1>6. \A k : \A u \in Threads : Stored(u, k)' <=> Stored(u, k)
  BY DEF QuietStep, Busy, Stored
<1>7. \A k, r : Source(k, r) => Source(k, r)'
  BY <1>1, <1>4, <1>6 DEF QuietStep, Source
<1>8. Sourced'
  BY <1>6, <1>7 DEF IInv, Sourced, QuietStep
<1> QED
  BY <1>1, <1>3, <1>5, <1>8

\* The pages that do not change still tell of runs that were not old.
LEMMA PageKept ==
  ASSUME IInv,
         Len(runs) \in Nat, Len(runs') \in Nat, Len(runs) <= Len(runs'),
         \A r : Known(r) => Known(r)' /\ runs'[r] = runs[r]
  PROVE  \A t \in Threads : page'[t] = page[t] /\ oldAtAsk'[t] = oldAtAsk[t] => SoundPage(t)'
<1> SUFFICES ASSUME NEW t \in Threads, page'[t] = page[t], oldAtAsk'[t] = oldAtAsk[t],
                    NEW i \in 1..Len(page'[t]), Reads[i] \in Shown
             PROVE  \E r \in 1..Len(runs') :
                      Known(r)' /\ r \notin oldAtAsk'[t] /\ page'[t][i] = Value(Reads[i], r)'
  BY DEF SoundPage
<1>1. PICK r \in 1..Len(runs) :
        Known(r) /\ r \notin oldAtAsk[t] /\ page[t][i] = Value(Reads[i], r)
  BY DEF IInv, Read, SoundPage
<1>2. Value(Reads[i], r)' = Value(Reads[i], r)
  BY <1>1, ValueKept
<1> QED
  BY <1>1, <1>2

LEMMA IntervalPassesInv ==
  ASSUME IInv, IntervalPasses \/ UNCHANGED vars PROVE IInv'
<1>1. UNCHANGED <<state, serving, pc, todo, page, runs, run, ended, before, old, oldAtAsk>>
  BY DEF IntervalPasses, vars, history
<1>2. QuietStep /\ \A u \in Threads : oldAtAsk'[u] \subseteq old
  BY <1>1 DEF QuietStep, IInv, Numbered
<1>3. Numbered' /\ Pending' /\ Sourced' /\ \A r : Known(r)' <=> Known(r)
  BY <1>2, QuietKeeps
<1>4. Types' /\ Served'
  BY <1>1 DEF IInv, Types, Served
<1>5. Read'
  <2>1. \A u \in Threads : SoundPage(u)'
    BY <1>1, <1>3, PageKept DEF IInv, Types
  <2> QED
    BY <1>1, <2>1 DEF IInv, Read
<1> QED
  BY <1>3, <1>4, <1>5 DEF IInv

LEMMA AskInv ==
  ASSUME IInv, NEW t \in Scrapers, Ask(t) PROVE IInv'
<1> t \in Threads
  BY DEF Threads
<1>1. /\ serving /\ pc[t] \in {"idle", "answered"} /\ pc' = [pc EXCEPT ![t] = "asked"]
      /\ page' = [page EXCEPT ![t] = <<>>] /\ oldAtAsk' = [oldAtAsk EXCEPT ![t] = old]
      /\ UNCHANGED <<state, due, serving, todo, runs, run, ended, before, old>>
  BY DEF Ask, Goto
<1>2. QuietStep /\ \A u \in Threads : oldAtAsk'[u] \subseteq old
  BY <1>1 DEF QuietStep, Busy, IInv, Types, Numbered
<1>3. Numbered' /\ Pending' /\ Sourced' /\ \A r : Known(r)' <=> Known(r)
  BY <1>2, QuietKeeps
<1>4. Types'
  <2>1. old \in SUBSET Nat
    BY DEF IInv, Types, Numbered
  <2>2. <<>> \in Seq(Nat)
    OBVIOUS
  <2> QED
    BY <1>1, <2>1, <2>2 DEF IInv, Types
<1>5. Served'
  BY <1>1 DEF IInv, Types, Served
<1>6. Read'
  <2>1. \A u \in Threads \ {t} : SoundPage(u)'
    <3>1. \A u \in Threads \ {t} : page'[u] = page[u] /\ oldAtAsk'[u] = oldAtAsk[u]
      BY <1>1 DEF IInv, Types
    <3> QED
      BY <1>1, <1>3, <3>1, PageKept DEF IInv, Types
  <2>2. page'[t] = <<>> /\ pc'[t] = "asked"
    BY <1>1 DEF IInv, Types
  <2>3. \A u \in Threads \ {t} : page'[u] = page[u] /\ pc'[u] = pc[u]
    BY <1>1 DEF IInv, Types
  <2>4. Len(Reads) = 4
    BY DEF Reads
  <2> QED
    BY <2>1, <2>2, <2>3, <2>4 DEF IInv, Read, SoundPage
<1> QED
  BY <1>3, <1>4, <1>5, <1>6 DEF IInv

LEMMA CompareInv ==
  ASSUME IInv, NEW t \in Threads, Compare(t) PROVE IInv'
<1>1. /\ pc[t] = "asked" /\ pc'[t] \in {"stale", "rendering"}
      /\ \A u \in Threads \ {t} : pc'[u] = pc[u]
      /\ pc' = [pc EXCEPT ![t] = pc'[t]]
      /\ UNCHANGED <<state, serving, todo, page, runs, run, ended, before, old, oldAtAsk>>
  BY DEF Compare, Goto, history, IInv, Types
<1>2. QuietStep /\ \A u \in Threads : oldAtAsk'[u] \subseteq old
  BY <1>1 DEF QuietStep, Busy, IInv, Types, Numbered
<1>3. Numbered' /\ Pending' /\ Sourced' /\ \A r : Known(r)' <=> Known(r)
  BY <1>2, QuietKeeps
<1>4. Types'
  BY <1>1 DEF IInv, Types
<1>5. Served'
  BY <1>1 DEF IInv, Types, Served
<1>6. Read'
  <2>1. \A u \in Threads : SoundPage(u)'
    BY <1>1, <1>3, PageKept DEF IInv, Types
  <2>2. page[t] = <<>> /\ Len(Reads) = 4
    BY <1>1 DEF IInv, Read, Reads
  <2> QED
    BY <1>1, <2>1, <2>2 DEF IInv, Read
<1> QED
  BY <1>3, <1>4, <1>5, <1>6 DEF IInv

\* After the first refresh every key was assigned by a run that is not old.
LEMMA RenderInv ==
  ASSUME IInv, NEW t \in Threads, Render(t) PROVE IInv'
<1> DEFINE n == Len(page[t]) + 1
<1>1. /\ pc[t] = "rendering" /\ pc' = [pc EXCEPT ![t] = pc'[t]]
      /\ page' = [page EXCEPT ![t] = Append(@, state[Reads[n]])]
      /\ pc'[t] = IF Len(page'[t]) = Len(Reads) THEN "answered" ELSE "rendering"
      /\ \A u \in Threads \ {t} : pc'[u] = pc[u]
      /\ UNCHANGED <<state, serving, todo, runs, run, ended, before, old, oldAtAsk>>
  BY DEF Render, Goto, history, IInv, Types
<1>2. QuietStep /\ \A u \in Threads : oldAtAsk'[u] \subseteq old
  BY <1>1 DEF QuietStep, Busy, IInv, Types, Numbered
<1>3. Numbered' /\ Pending' /\ Sourced' /\ \A r : Known(r)' <=> Known(r)
  BY <1>2, QuietKeeps
<1>4. n \in 1..4 /\ Len(Reads) = 4 /\ page[t] \in Seq(Nat)
  BY <1>1 DEF IInv, Types, Read, Reads
<1>5. Reads[n] \in {"up", "failed", "latencyUp"}
  BY <1>4 DEF Reads
<1>6. state[Reads[n]] \in Nat
  BY <1>5 DEF IInv, Types, State
<1>7. /\ page'[t] \in Seq(Nat) /\ Len(page'[t]) = n /\ page'[t][n] = state[Reads[n]]
      /\ \A i \in 1..(n - 1) : page'[t][i] = page[t][i]
      /\ \A u \in Threads \ {t} : page'[u] = page[u]
  <2>1. page'[t] = Append(page[t], state[Reads[n]]) /\ \A u \in Threads \ {t} : page'[u] = page[u]
    BY <1>1 DEF IInv, Types
  <2> HIDE DEF n
  <2> QED
    BY <2>1, <1>4, <1>6 DEF n
<1>8. Types'
  <2>1. page' \in [Threads -> Seq(Nat)]
    BY <1>1, <1>7 DEF IInv, Types
  <2> QED
    BY <1>1, <2>1 DEF IInv, Types
<1>9. Served'
  BY <1>1 DEF IInv, Types, Served
<1>10. Read'
  <2>1. \A u \in Threads \ {t} : SoundPage(u)'
    BY <1>1, <1>3, <1>7, PageKept DEF IInv, Types
  <2>2. ASSUME NEW i \in 1..Len(page'[t]), Reads[i] \in Shown
        PROVE  \E r \in 1..Len(runs') :
                 Known(r)' /\ r \notin oldAtAsk'[t] /\ page'[t][i] = Value(Reads[i], r)'
    <3>1. CASE i # n
      <4>1. i \in 1..Len(page[t]) /\ page'[t][i] = page[t][i]
        BY <1>4, <1>7, <2>2, <3>1
      <4>2. PICK r \in 1..Len(runs) :
              Known(r) /\ r \notin oldAtAsk[t] /\ page[t][i] = Value(Reads[i], r)
        BY <4>1, <2>2 DEF IInv, Read, SoundPage
      <4>3. Value(Reads[i], r)' = Value(Reads[i], r)
        BY <1>1, ValueKept
      <4> QED
        BY <1>1, <1>3, <4>1, <4>2, <4>3
    <3>2. CASE i = n
      <4>1. PICK r \in 1..Len(runs) : Source(Reads[i], r)
        BY <1>1, <2>2, <3>2 DEF IInv, Served, Sourced
      <4>2. Known(r) /\ r \notin oldAtAsk[t] /\ page'[t][i] = Value(Reads[i], r)
        BY <1>7, <3>2, <4>1 DEF Source, IInv, Numbered
      <4>3. Value(Reads[i], r)' = Value(Reads[i], r)
        BY <1>1, ValueKept
      <4> QED
        BY <1>1, <1>3, <4>2, <4>3
    <3> QED
      BY <3>1, <3>2
  <2>3. pc'[t] = "rendering" => Len(page'[t]) < Len(Reads)
    BY <1>1, <1>4, <1>7
  <2>4. pc'[t] = "answered" => Len(page'[t]) = Len(Reads)
    BY <1>1, <1>4, <1>7
  <2>5. Len(page'[t]) <= Len(Reads) /\ pc'[t] \in {"rendering", "answered"}
    BY <1>1, <1>4, <1>7
  <2> HIDE DEF n
  <2> QED
    BY <1>1, <1>7, <2>1, <2>2, <2>3, <2>4, <2>5 DEF IInv, Read, SoundPage
<1> QED
  BY <1>3, <1>8, <1>9, <1>10 DEF IInv

\* A run takes a number of its own, so that the outcomes already known stay.
LEMMA BeginRefreshInv ==
  ASSUME IInv, NEW t \in Threads, BeginRefresh(t) PROVE IInv'
<1>1. /\ pc[t] = "stale" /\ pc' = [pc EXCEPT ![t] = "checking"]
      /\ runs' = Append(runs, Error) /\ run' = [run EXCEPT ![t] = Len(runs) + 1]
      /\ before' = [before EXCEPT ![t] = ended]
      /\ UNCHANGED <<state, serving, todo, page, ended, old, oldAtAsk>>
  BY DEF BeginRefresh, Goto
<1>2. /\ runs \in Seq(Outcome) /\ runs' \in Seq(Outcome) /\ Len(runs') = Len(runs) + 1
      /\ Len(runs) \in Nat /\ \A r \in 1..Len(runs) : runs'[r] = runs[r]
  BY <1>1 DEF IInv, Types, Outcome
<1>3. /\ pc'[t] = "checking" /\ run'[t] = Len(runs) + 1 /\ before'[t] = ended
      /\ \A u \in Threads \ {t} : pc'[u] = pc[u] /\ run'[u] = run[u] /\ before'[u] = before[u]
  BY <1>1 DEF IInv, Types
<1>4. Types'
  <2>1. ended \in SUBSET Nat
    BY <1>2 DEF IInv, Numbered
  <2> QED
    BY <1>1, <1>2, <2>1 DEF IInv, Types
<1>5. Numbered'
  <2>1. ended' \subseteq 1..Len(runs') /\ old' \subseteq ended'
    BY <1>1, <1>2 DEF IInv, Numbered
  <2>2. \A u \in Threads : Busy(u)' /\ u # t => Busy(u)
    BY <1>3 DEF Busy
  <2>3. \A u \in Threads \ {t} : Busy(u) => run[u] \in 1..Len(runs) /\ run[u] \notin ended
    BY DEF IInv, Numbered
  <2>4. run'[t] \in 1..Len(runs') /\ run'[t] \notin ended
    BY <1>2, <1>3 DEF IInv, Numbered
  <2>5. ASSUME NEW u \in Threads
        PROVE  /\ before'[u] \subseteq ended' /\ oldAtAsk'[u] \subseteq old'
               /\ Busy(u)' => run'[u] \in (1..Len(runs')) \ ended'
    BY <1>1, <1>2, <1>3, <2>2, <2>3, <2>4 DEF IInv, Numbered
  <2>6. ASSUME NEW u \in Threads, NEW v \in Threads \ {u}, Busy(u)', Busy(v)' PROVE run'[u] # run'[v]
    <3>1. CASE u = t \/ v = t
      BY <1>2, <1>3, <2>2, <2>3, <2>6, <3>1
    <3>2. CASE u # t /\ v # t
      BY <1>3, <2>2, <2>6, <3>2 DEF IInv, Numbered
    <3> QED
      BY <3>1, <3>2
  <2> QED
    BY <2>1, <2>5, <2>6 DEF Numbered
<1>6. Served'
  BY <1>1, <1>3 DEF IInv, Served
<1>7. \A r : Known(r) => Known(r)' /\ runs'[r] = runs[r]
  BY <1>2, <1>3 DEF Known
<1>8. Pending'
  <2> SUFFICES ASSUME NEW u \in Threads, pc'[u] = "storing", NEW i \in 1..Len(todo'[u]),
                      todo'[u][i][1] \in Shown
               PROVE  todo'[u][i][2] = Value(todo[u][i][1], run[u])' 
    BY <1>1, <1>3 DEF Pending
  <2>1. u # t /\ pc[u] = "storing" /\ run'[u] = run[u] /\ runs'[run[u]] = runs[run[u]]
    BY <1>2, <1>3 DEF IInv, Numbered, Busy
  <2>2. todo[u][i][2] = Value(todo[u][i][1], run[u])
    BY <1>1, <2>1 DEF IInv, Pending
  <2> QED
    BY <1>1, <2>1, <2>2 DEF Value, Failing
<1>9. Sourced'
  <2>1. \A k : \A u \in Threads : Stored(u, k)' => Stored(u, k) /\ before'[u] = before[u]
    BY <1>1, <1>3 DEF Stored
  <2>2. ASSUME NEW k, NEW r, Source(k, r) PROVE Source(k, r)'
    <3>1. Value(k, r)' = Value(k, r)
      BY <1>7, <2>2, ValueKept DEF Source
    <3> QED
      BY <1>1, <1>7, <2>1, <2>2, <3>1 DEF Source
  <2>3. 1..Len(runs) \subseteq 1..Len(runs')
    BY <1>2
  <2> QED
    BY <1>1, <2>1, <2>2, <2>3 DEF IInv, Sourced
<1>10. Read'
  <2>1. \A u \in Threads : SoundPage(u)'
    <3>1. Len(runs) \in Nat /\ Len(runs') \in Nat /\ Len(runs) <= Len(runs')
      BY <1>2
    <3>2. \A u \in Threads : SoundPage(u)'
      BY <1>1, <1>7, <3>1, PageKept DEF IInv
    <3> QED
      BY <3>2
  <2>2. page[t] = <<>>
    BY <1>1 DEF IInv, Read
  <2> QED
    BY <1>1, <1>3, <2>1, <2>2 DEF IInv, Read
<1> QED
  BY <1>4, <1>5, <1>6, <1>8, <1>9, <1>10 DEF IInv

\* A run's outcome is its own thread's alone until it is known.
LEMMA RunChecksInv ==
  ASSUME IInv, NEW t \in Threads, RunChecks(t) PROVE IInv'
<1>1. PICK o \in Outcome, latency \in {LatencyLoaded(run[t]), LatencyError} :
        /\ runs' = [runs EXCEPT ![run[t]] = o]
        /\ todo' = [todo EXCEPT ![t] =
             IF o = Error THEN Reset ELSE Checked(run[t], o.failing) \o latency]
  BY DEF RunChecks
<1>2. /\ pc[t] = "checking" /\ pc' = [pc EXCEPT ![t] = "storing"]
      /\ UNCHANGED <<state, serving, page, run, ended, before, old, oldAtAsk>>
  BY DEF RunChecks, Goto
<1>3. run[t] \in 1..Len(runs) /\ run[t] \in Nat /\ run[t] \notin ended
  BY <1>2 DEF IInv, Types, Numbered, Busy
<1>4. /\ runs \in Seq(Outcome) /\ runs' \in Seq(Outcome) /\ Len(runs') = Len(runs)
      /\ runs'[run[t]] = o /\ \A r \in 1..Len(runs) : r # run[t] => runs'[r] = runs[r]
  BY <1>1, <1>3 DEF IInv, Types
<1>5. /\ pc'[t] = "storing" /\ \A u \in Threads \ {t} : pc'[u] = pc[u] /\ todo'[u] = todo[u]
      /\ todo'[t] = IF o = Error THEN Reset ELSE Checked(run[t], o.failing) \o latency
  BY <1>1, <1>2 DEF IInv, Types
<1>6. \A u \in Threads : Busy(u)' <=> Busy(u)
  BY <1>2, <1>5 DEF Busy
<1>7. /\ todo'[t] \in Seq(Assignment)
      /\ \A k \in Shown : \E i \in 1..Len(todo'[t]) : todo'[t][i][1] = k
  <2>1. CASE o = Error
    BY <1>5, <2>1, ResetAssigns
  <2>2. CASE o # Error
    <3>1. PICK r, f, s : r = run[t] /\ f = o.failing /\ s = todo'[t]
      OBVIOUS
    <3>2. r \in Nat /\ f \in SUBSET Checks /\ latency \in {LatencyLoaded(r), LatencyError}
      BY <1>1, <1>3, <2>2, <3>1 DEF Outcome
    <3>3. s = Checked(r, f) \o latency
      BY <1>5, <2>2, <3>1
    <3>4. RunAssigns(Checked(r, f) \o latency, r, f)
      BY <3>2, CheckedAssigns
    <3> QED
      BY <3>1, <3>3, <3>4 DEF RunAssigns
  <2> QED
    BY <2>1, <2>2
<1>8. \A i \in 1..Len(todo'[t]) : todo'[t][i][1] \in Shown =>
        todo'[t][i][2] = Value(todo[t][i][1], run[t])'
  <2> SUFFICES ASSUME NEW i \in 1..Len(todo'[t]), todo'[t][i][1] \in Shown
               PROVE  todo'[t][i][2] = Value(todo[t][i][1], run[t])'
    OBVIOUS
  <2>1. CASE o = Error
    <3>1. runs'[run'[t]] = Error
      BY <1>2, <1>4, <2>1
    <3>2. \/ todo'[t][i] = <<"up", 0>> \/ todo'[t][i] = <<"failed", Cardinality(Checks)>>
          \/ todo'[t][i] = <<"passing", {}>> \/ todo'[t][i] = <<"loaded", 0>>
      BY <1>5, <2>1, ResetAssigns
    <3> QED
      <4>1. CASE todo'[t][i] = <<"up", 0>>
        <5>1. todo'[t][i][1] = "up" /\ todo'[t][i][2] = 0
          BY <4>1
        <5> QED
          BY <3>1, <5>1 DEF Value, Failing
      <4>2. CASE todo'[t][i] = <<"failed", Cardinality(Checks)>>
        <5>1. todo'[t][i][1] = "failed" /\ todo'[t][i][2] = Cardinality(Checks)
          BY <4>2
        <5> QED
          BY <3>1, <5>1 DEF Value, Failing
      <4>3. CASE todo'[t][i] = <<"passing", {}>>
        <5>1. todo'[t][i][1] = "passing" /\ todo'[t][i][2] = {}
          BY <4>3
        <5> QED
          BY <3>1, <5>1 DEF Value, Failing
      <4>4. CASE todo'[t][i] = <<"loaded", 0>>
        <5>1. todo'[t][i][1] = "loaded" /\ todo'[t][i][2] = 0
          BY <4>4
        <5> QED
          BY <3>1, <5>1 DEF Value, Failing
      <4> QED
        BY <3>2, <4>1, <4>2, <4>3, <4>4
  <2>2. CASE o # Error
    <3>1. runs'[run'[t]] = o /\ run'[t] = run[t]
      BY <1>2, <1>4
    <3>2. \/ todo'[t][i] = <<"up", 1>> \/ todo'[t][i] = <<"failed", Cardinality(o.failing)>>
          \/ todo'[t][i] = <<"passing", Checks \ o.failing>> \/ todo'[t][i] = <<"loaded", run[t]>>
      <4>1. PICK r, f, s : r = run[t] /\ f = o.failing /\ s = todo'[t]
        OBVIOUS
      <4>2. r \in Nat /\ f \in SUBSET Checks /\ latency \in {LatencyLoaded(r), LatencyError}
        BY <1>1, <1>3, <2>2, <4>1 DEF Outcome
      <4>3. s = Checked(r, f) \o latency
        BY <1>5, <2>2, <4>1
      <4>4. RunAssigns(Checked(r, f) \o latency, r, f)
        BY <4>2, CheckedAssigns
      <4> QED
        BY <4>1, <4>3, <4>4 DEF RunAssigns
    <3> QED
      <4>1. CASE todo'[t][i] = <<"up", 1>>
        <5>1. todo'[t][i][1] = "up" /\ todo'[t][i][2] = 1
          BY <4>1
        <5> QED
          BY <3>1, <5>1, <2>2 DEF Value, Failing
      <4>2. CASE todo'[t][i] = <<"failed", Cardinality(o.failing)>>
        <5>1. todo'[t][i][1] = "failed" /\ todo'[t][i][2] = Cardinality(o.failing)
          BY <4>2
        <5> QED
          BY <3>1, <5>1, <2>2 DEF Value, Failing
      <4>3. CASE todo'[t][i] = <<"passing", Checks \ o.failing>>
        <5>1. todo'[t][i][1] = "passing" /\ todo'[t][i][2] = Checks \ o.failing
          BY <4>3
        <5> QED
          BY <3>1, <5>1, <2>2 DEF Value, Failing
      <4>4. CASE todo'[t][i] = <<"loaded", run[t]>>
        <5>1. todo'[t][i][1] = "loaded" /\ todo'[t][i][2] = run[t]
          BY <4>4
        <5> QED
          BY <3>1, <5>1, <2>2 DEF Value, Failing
      <4> QED
        BY <3>2, <4>1, <4>2, <4>3, <4>4
  <2> QED
    BY <2>1, <2>2
<1>9. Types'
  BY <1>1, <1>2, <1>4, <1>7 DEF IInv, Types
<1>10. Numbered'
  BY <1>2, <1>4, <1>6 DEF IInv, Numbered
<1>11. Served'
  BY <1>2, <1>5 DEF IInv, Served
<1>12. \A r : Known(r) => r # run[t] /\ Known(r)' /\ runs'[r] = runs[r]
  BY <1>2, <1>4, <1>5 DEF Known
<1>13. Pending'
  <2>1. ASSUME NEW u \in Threads \ {t}, pc'[u] = "storing", NEW i \in 1..Len(todo'[u]),
               todo'[u][i][1] \in Shown
        PROVE  todo'[u][i][2] = Value(todo[u][i][1], run[u])'
    <3>1. pc[u] = "storing" /\ todo'[u] = todo[u] /\ run[u] \in 1..Len(runs) /\ run[u] # run[t]
      BY <1>2, <1>5, <2>1 DEF IInv, Numbered, Busy
    <3>2. todo[u][i][2] = Value(todo[u][i][1], run[u])
      BY <2>1, <3>1 DEF IInv, Pending
    <3> QED
      BY <1>2, <1>4, <3>1, <3>2 DEF Value, Failing
  <2> QED
    BY <1>2, <1>5, <1>8, <2>1 DEF Pending
<1>14. Sourced'
  <2>1. \A k \in Shown : \A u \in Threads : Stored(u, k)' => Stored(u, k) /\ u # t
    BY <1>5, <1>7 DEF Stored
  <2>2. ASSUME NEW k \in Shown, NEW r, Source(k, r) PROVE Source(k, r)'
    <3>1. Value(k, r)' = Value(k, r)
      BY <1>12, <2>2, ValueKept DEF Source
    <3> QED
      BY <1>2, <1>12, <2>1, <2>2, <3>1 DEF Source
  <2> QED
    BY <1>2, <1>4, <2>1, <2>2 DEF IInv, Sourced
<1>15. Read'
  <2>1. \A u \in Threads : SoundPage(u)'
    BY <1>2, <1>4, <1>12, PageKept DEF IInv, Types
  <2>2. page[t] = <<>>
    BY <1>2 DEF IInv, Read
  <2> QED
    BY <1>2, <1>5, <2>1, <2>2 DEF IInv, Read
<1> QED
  BY <1>9, <1>10, <1>11, <1>13, <1>14, <1>15 DEF IInv

\* The key assigned now comes from a run that is still going on.
LEMMA StoreInv ==
  ASSUME IInv, NEW t \in Threads, Store(t) PROVE IInv'
<1>1. PICK e : e = Head(todo[t])
  OBVIOUS
<1>2. /\ pc[t] = "storing" /\ todo[t] # <<>> /\ state' = [state EXCEPT ![e[1]] = e[2]]
      /\ todo' = [todo EXCEPT ![t] = Tail(@)]
      /\ UNCHANGED <<serving, pc, page, runs, run, ended, before, old, oldAtAsk>>
  BY <1>1 DEF Store, history
<1>3. /\ todo[t] \in Seq(Assignment) /\ e = todo[t][1] /\ Len(todo[t]) \in Nat /\ Len(todo[t]) > 0
  BY <1>1, <1>2 DEF IInv, Types
<1>4. e \in Assignment
  BY <1>3
<1>5. PICK rest : rest = Tail(todo[t])
  OBVIOUS
<1>6. /\ rest \in Seq(Assignment) /\ Len(rest) = Len(todo[t]) - 1 /\ Len(rest) \in Nat
      /\ \A i \in 1..Len(rest) : rest[i] = todo[t][i + 1]
  BY <1>3, <1>5
<1>7. todo'[t] = rest /\ \A u \in Threads \ {t} : todo'[u] = todo[u]
  BY <1>2, <1>5 DEF IInv, Types
<1>8. state' \in State /\ state'[e[1]] = e[2] /\ \A k \in Keys \ {e[1]} : state'[k] = state[k]
  BY <1>2, <1>4, StateUpdate DEF IInv, Types
<1>9. Types'
  <2>1. todo' \in [Threads -> Seq(Assignment)]
    BY <1>2, <1>5, <1>6 DEF IInv, Types
  <2> QED
    BY <1>2, <1>8, <2>1 DEF IInv, Types
<1>10. Numbered' /\ Served'
  BY <1>2 DEF IInv, Numbered, Served, Busy
<1>11. \A k, r : Value(k, r)' = Value(k, r) /\ (Known(r)' <=> Known(r))
  BY <1>2 DEF Value, Failing, Known
<1>12. Pending'
  <2>1. ASSUME NEW u \in Threads \ {t}, pc'[u] = "storing", NEW i \in 1..Len(todo'[u]),
               todo'[u][i][1] \in Shown
        PROVE  todo'[u][i][2] = Value(todo[u][i][1], run[u])'
    <3>1. pc[u] = "storing" /\ todo'[u] = todo[u]
      BY <1>2, <1>7, <2>1
    <3>2. todo[u][i][2] = Value(todo[u][i][1], run[u])
      BY <2>1, <3>1 DEF IInv, Pending
    <3> QED
      BY <1>2, <3>1, <3>2 DEF Value, Failing
  <2>2. ASSUME NEW i \in 1..Len(todo'[t]), todo'[t][i][1] \in Shown
        PROVE  todo'[t][i][2] = Value(todo[t][i][1], run[t])'
    <3>1. todo'[t][i] = todo[t][i + 1] /\ i + 1 \in 1..Len(todo[t])
      BY <1>3, <1>6, <1>7
    <3>2. todo[t][i + 1][2] = Value(todo[t][i + 1][1], run[t])
      BY <1>2, <2>2, <3>1 DEF IInv, Pending
    <3> QED
      BY <1>2, <3>1, <3>2 DEF Value, Failing
  <2> QED
    BY <2>1, <2>2 DEF Pending
<1>13. ASSUME NEW k \in Shown, k # e[1], NEW u \in Threads PROVE Stored(u, k)' => Stored(u, k)
  <2>1. CASE u # t
    BY <1>2, <1>7, <2>1 DEF Stored
  <2>2. CASE u = t
    <3> SUFFICES ASSUME Stored(t, k)', NEW i \in 1..Len(todo[t]) PROVE todo[t][i][1] # k
      BY <1>2, <2>2 DEF Stored
    <3>1. CASE i = 1
      BY <1>3, <1>13, <3>1
    <3>2. CASE i # 1
      <4>1. i - 1 \in 1..Len(rest) /\ todo[t][i] = rest[i - 1]
        BY <1>3, <1>6, <3>2
      <4> QED
        BY <1>7, <4>1 DEF Stored
    <3> QED
      BY <3>1, <3>2
  <2> QED
    BY <2>1, <2>2
<1>14. Sourced'
  <2> SUFFICES ASSUME NEW k \in Shown, ended' # {} \/ \E u \in Threads : Stored(u, k)'
               PROVE  \E r \in 1..Len(runs') : Source(k, r)'
    BY DEF Sourced
  <2>1. CASE k = e[1]
    <3>1. run[t] \in 1..Len(runs) /\ run[t] \notin ended
      BY <1>2 DEF IInv, Numbered, Busy
    <3>2. run[t] \notin old /\ \A u \in Threads : run[t] \notin before[u]
      BY <3>1 DEF IInv, Numbered
    <3>3. Known(run[t])
      BY <1>2, <3>1 DEF IInv, Numbered, Known, Busy
    <3>4. e[2] = Value(e[1], run[t])
      BY <1>2, <1>3, <2>1 DEF IInv, Pending
    <3>5. PICK r : r = run[t]
      OBVIOUS
    <3>6. Known(r) /\ r \notin old /\ state'[k] = Value(k, r) /\ \A u \in Threads : r \notin before[u]
      BY <1>8, <2>1, <3>2, <3>3, <3>4, <3>5
    <3>7. Source(k, r)'
      BY <1>2, <1>11, <3>6 DEF Source
    <3> QED
      BY <1>2, <3>1, <3>5, <3>7
  <2>2. CASE k # e[1]
    <3>1. PICK r \in 1..Len(runs) : Source(k, r)
      BY <1>2, <1>13, <2>2 DEF IInv, Sourced
    <3>2. state'[k] = state[k]
      BY <1>8, <2>2 DEF Shown, Keys
    <3>3. Source(k, r)'
      BY <1>2, <1>11, <1>13, <2>2, <3>1, <3>2 DEF Source
    <3> QED
      BY <1>2, <3>1, <3>3
  <2> QED
    BY <2>1, <2>2
<1>15. Read'
  <2>1. Len(runs) \in Nat
    BY DEF IInv, Types
  <2>2. \A u \in Threads : SoundPage(u)'
    BY <1>2, <1>11, <2>1, PageKept
  <2> QED
    BY <1>2, <2>2 DEF IInv, Read
<1> QED
  BY <1>9, <1>10, <1>12, <1>14, <1>15 DEF IInv

\* A refresh that ends has assigned every key: no key is left from a run that was
\* over before it began.
LEMMA EndRefreshInv ==
  ASSUME IInv, NEW t \in Threads, EndRefresh(t) PROVE IInv'
<1>1. /\ pc[t] = "storing" /\ todo[t] = <<>>
      /\ pc' = [pc EXCEPT ![t] = IF t = Main THEN "serving" ELSE "rendering"]
      /\ ended' = ended \cup {run[t]} /\ old' = old \cup before[t]
      /\ run' = [run EXCEPT ![t] = 0] /\ before' = [before EXCEPT ![t] = {}]
      /\ UNCHANGED <<state, todo, page, runs, oldAtAsk>>
  BY DEF EndRefresh, Goto
<1>2. /\ pc'[t] \in {"serving", "rendering"} /\ run'[t] = 0 /\ before'[t] = {}
      /\ \A u \in Threads \ {t} : pc'[u] = pc[u] /\ run'[u] = run[u] /\ before'[u] = before[u]
  BY <1>1 DEF IInv, Types
<1>3. run[t] \in 1..Len(runs) /\ run[t] \notin ended
  BY <1>1 DEF IInv, Numbered, Busy
<1>4. Types'
  BY <1>1, <1>2 DEF IInv, Types
<1>5. Numbered'
  <2>1. ended' \subseteq 1..Len(runs') /\ old' \subseteq ended'
    BY <1>1, <1>3 DEF IInv, Numbered
  <2>2. \A u \in Threads : Busy(u)' => u # t /\ Busy(u)
    BY <1>2 DEF Busy
  <2>3. ASSUME NEW u \in Threads
        PROVE  /\ before'[u] \subseteq ended' /\ oldAtAsk'[u] \subseteq old'
               /\ Busy(u)' => run'[u] \in (1..Len(runs')) \ ended'
    <3>1. before'[u] \subseteq ended' /\ oldAtAsk'[u] \subseteq old'
      BY <1>1, <1>2 DEF IInv, Numbered
    <3>2. ASSUME Busy(u)' PROVE run'[u] \in (1..Len(runs')) \ ended'
      <4>1. Busy(u) /\ Busy(t) /\ u # t /\ run'[u] = run[u]
        BY <1>1, <1>2, <2>2, <3>2 DEF Busy
      <4> QED
        BY <1>1, <4>1 DEF IInv, Numbered
    <3> QED
      BY <3>1, <3>2
  <2>4. \A u \in Threads : \A v \in Threads \ {u} : Busy(u)' /\ Busy(v)' => run'[u] # run'[v]
    BY <1>2, <2>2 DEF IInv, Numbered
  <2> QED
    BY <2>1, <2>3, <2>4 DEF Numbered
<1>6. Served'
  BY <1>1 DEF Served
<1>7. \A r : Known(r) => Known(r)' /\ runs'[r] = runs[r]
  BY <1>1, <1>2 DEF Known
<1>8. Pending'
  <2>1. ASSUME NEW u \in Threads, pc'[u] = "storing", NEW i \in 1..Len(todo'[u]),
               todo'[u][i][1] \in Shown
        PROVE  todo'[u][i][2] = Value(todo[u][i][1], run[u])'
    <3>1. pc[u] = "storing" /\ run'[u] = run[u]
      BY <1>2, <2>1
    <3> QED
      BY <1>1, <2>1, <3>1 DEF IInv, Pending, Value, Failing
  <2> QED
    BY <2>1 DEF Pending
<1>9. Sourced'
  <2> SUFFICES ASSUME NEW k \in Shown PROVE \E r \in 1..Len(runs') : Source(k, r)'
    BY DEF Sourced
  <2>1. Stored(t, k)
    BY <1>1 DEF Stored
  <2>2. PICK r \in 1..Len(runs) : Source(k, r)
    BY <2>1 DEF IInv, Sourced
  <2>3. r \notin before[t]
    BY <2>1, <2>2 DEF Source
  <2>4. \A u \in Threads : Stored(u, k)' => Stored(u, k) /\ before'[u] = before[u]
    BY <1>1, <1>2 DEF Stored
  <2>5. Value(k, r)' = Value(k, r)
    BY <1>1, ValueKept
  <2>6. Source(k, r)'
    BY <1>1, <1>7, <2>2, <2>3, <2>4, <2>5 DEF Source
  <2> QED
    BY <1>1, <2>2, <2>6
<1>10. Read'
  <2>1. Len(runs) \in Nat
    BY DEF IInv, Types
  <2>2. \A u \in Threads : SoundPage(u)'
    BY <1>1, <1>7, <2>1, PageKept
  <2>3. page[t] = <<>> /\ Len(Reads) = 4
    BY <1>1 DEF IInv, Read, Reads
  <2> QED
    BY <1>1, <1>2, <2>2, <2>3 DEF IInv, Read
<1> QED
  BY <1>4, <1>5, <1>6, <1>8, <1>9, <1>10 DEF IInv

LEMMA NextInv ==
  ASSUME IInv, [Next]_vars PROVE IInv'
<1>1. ASSUME NEW t \in Threads, Step(t) PROVE IInv'
  BY <1>1, BeginRefreshInv, RunChecksInv, StoreInv, EndRefreshInv, CompareInv, RenderInv DEF Step
<1>2. ASSUME NEW t \in Scrapers, Ask(t) PROVE IInv'
  BY <1>2, AskInv
<1>3. CASE IntervalPasses \/ UNCHANGED vars
  BY <1>3, IntervalPassesInv
<1> QED
  BY <1>1, <1>2, <1>3 DEF Next

LEMMA Invariance == Spec => []IInv
<1>1. IInv /\ [Next]_vars => IInv'
  BY NextInv
<1> QED
  BY InitInv, <1>1, PTL DEF Spec

-----------------------------------------------------------------------------
(* What a page and STATE tell.                                               *)

\* However many refreshes and renders interleave, a page that shows the checks
\* passing comes with a recent run that found no mismatch, and a page that shows
\* the checks unavailable with a recent run that failed (render_metrics).
THEOREM PageIsRecent == Spec => []PageTellsARecentRun
<1>1. IInv => PageTellsARecentRun
  <2> SUFFICES ASSUME IInv, NEW t \in Scrapers, pc[t] = "answered"
               PROVE  /\ page[t][2] = 0 /\ page[t][3] = 1 => \E r \in Recent(t) : Clean(r)
                      /\ page[t][1] = 0 => \E r \in Recent(t) : runs[r] = Error
    BY DEF PageTellsARecentRun
  <2>1. t \in Threads
    BY DEF Threads
  <2>2. \A i \in 1..4 : Reads[i] \in Shown =>
          \E r \in Recent(t) : page[t][i] = Value(Reads[i], r)
    BY <2>1 DEF IInv, Read, SoundPage, Reads, Recent
  <2>3. Reads[1] = "up" /\ Reads[2] = "failed" /\ Reads[3] = "up"
    BY DEF Reads
  <2>4. /\ \E r \in Recent(t) : page[t][1] = Value("up", r)
        /\ \E r \in Recent(t) : page[t][2] = Value("failed", r)
        /\ \E r \in Recent(t) : page[t][3] = Value("up", r)
    BY <2>2, <2>3 DEF Shown
  <2>5. \A r \in Recent(t) : runs[r] \in Outcome
    BY DEF IInv, Types, Recent
  <2>6. ASSUME page[t][1] = 0 PROVE \E r \in Recent(t) : runs[r] = Error
    BY <2>4, <2>6 DEF Value
  <2>7. ASSUME page[t][2] = 0, page[t][3] = 1 PROVE \E r \in Recent(t) : Clean(r)
    <3>1. PICK r \in Recent(t) : Cardinality(Failing(r)) = 0
      BY <2>4, <2>7 DEF Value
    <3>2. Failing(r) \in SUBSET Checks
      BY <2>5 DEF Failing, Outcome
    <3>3. Failing(r) = {}
      BY <3>1, <3>2, ExporterAssumption, FS_Subset, FS_EmptySet
    <3>4. CASE runs[r] # Error
      BY <2>5, <3>3, <3>4 DEF Failing, Outcome, Clean
    <3>5. CASE runs[r] = Error
      <4>1. Checks = {}
        BY <3>3, <3>5 DEF Failing
      <4>2. PICK q \in Recent(t) : runs[q] # Error
        BY <2>4, <2>7 DEF Value
      <4> QED
        BY <2>5, <4>1, <4>2 DEF Outcome, Clean
    <3> QED
      BY <3>4, <3>5
  <2> QED
    BY <2>6, <2>7
<1> QED
  BY Invariance, <1>1, PTL

\* A refresh that overlapped no other leaves STATE in agreement with itself and with
\* what it found, an error included (refresh_state).
THEOREM AloneAgrees == Spec => []AloneIsConsistent
<1>1. IInv => AloneIsConsistent
  <2> SUFFICES ASSUME IInv, LastAlone, NEW r, r = Len(runs)
               PROVE  /\ state.up = 1 <=> runs[r] # Error
                      /\ state.failed = Cardinality(Checks \ state.passing)
                      /\ state.up = 1 => state.passing = Checks \ runs[r].failing /\ state.loaded = r
                      /\ state.up = 0 => state.passing = {} /\ state.loaded = 0
    BY DEF AloneIsConsistent
  <2>1. r \in Nat /\ r \in 1..Len(runs) /\ runs[r] \in Outcome
    BY DEF IInv, Types, LastAlone
  <2>2. \A k \in Shown : state[k] = Value(k, r)
    <3> SUFFICES ASSUME NEW k \in Shown PROVE state[k] = Value(k, r)
      OBVIOUS
    <3>1. PICK q \in 1..Len(runs) : Source(k, q)
      BY DEF IInv, Sourced, LastAlone
    <3>2. q = r
      BY <2>1, <3>1 DEF Source, LastAlone
    <3> QED
      BY <3>1, <3>2 DEF Source
  <2>3. /\ state.up = IF runs[r] = Error THEN 0 ELSE 1
        /\ state.failed = Cardinality(Failing(r))
        /\ state.passing = Checks \ Failing(r)
        /\ state.loaded = IF runs[r] = Error THEN 0 ELSE r
    BY <2>2 DEF Shown, Value
  <2>4. Failing(r) \in SUBSET Checks
    BY <2>1 DEF Failing, Outcome
  <2>5. Checks \ state.passing = Failing(r)
    BY <2>3, <2>4
  <2> QED
    <3>1. CASE runs[r] = Error
      <4>1. Failing(r) = Checks /\ state.up = 0 /\ state.loaded = 0
        BY <2>3, <3>1 DEF Failing
      <4>2. state.passing = {} /\ state.up # 1
        BY <2>3, <4>1
      <4> QED
        BY <2>3, <2>5, <3>1, <4>1, <4>2, Zenon
    <3>2. CASE runs[r] # Error
      <4>1. Failing(r) = runs[r].failing /\ state.up = 1 /\ state.loaded = r
        BY <2>3, <3>2 DEF Failing
      <4>2. state.up # 0 /\ state.passing = Checks \ runs[r].failing
        BY <2>3, <4>1
      <4> QED
        BY <2>3, <2>5, <3>2, <4>1, <4>2, Zenon
    <3> QED
      BY <3>1, <3>2
<1> QED
  BY Invariance, <1>1, PTL
=============================================================================
