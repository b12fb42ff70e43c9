----------------------------- MODULE Workload_proofs -----------------------------
(***************************************************************************)
(* Theorems about StreamThreads for any streams with any cycles of calls,  *)
(* and about the seeding before them for any targets.                      *)
(***************************************************************************)
EXTENDS Workload, TLAPS

(* The parts of the inductive invariant. *)

\* A thread that has not connected has no transaction.
Fresh == \A t \in Streams : phase[t] = "starting" => txn[t] = "none" /\ ~rows[t]

\* A call that goes on has attempts left, and each call begins with all of them.
AttemptsLeft ==
  \A t \in Streams :
    /\ phase[t] \in {"starting", "ready"} => tries[t] = 0
    /\ phase[t] = "calling" => tries[t] < MaxAttempts

IInv == TypeOK /\ Fresh /\ AttemptsLeft /\ CallsStartClean

Phase == {"starting", "ready", "calling", "handling", "dead"}

-----------------------------------------------------------------------------
\* The threads start without transactions and rows.
LEMMA InitHolds == Init => IInv
<1> SUFFICES ASSUME Init PROVE IInv
  OBVIOUS
<1>0. MaxAttempts \in Nat \ {0} /\ 0 \in 0..MaxAttempts
  BY StreamAssumption
<1>1. at \in [Streams -> Nat] /\ \A t \in Streams : at[t] \in 1..Len(Cycle[t])
  <2>1. ASSUME NEW t \in Streams PROVE 1 \in 1..Len(Cycle[t])
    <3>1. Cycle[t] \in Seq(Services) /\ Cycle[t] # <<>>
      BY StreamAssumption
    <3> QED
      BY <3>1
  <2> QED
    BY <2>1 DEF Init
<1>2. TypeOK
  BY <1>0, <1>1 DEF Init, TypeOK
<1> QED
  BY <1>0, <1>2 DEF Init, IInv, Fresh, AttemptsLeft, CallsStartClean

\* The endpoint and the clock do not touch a thread, except that connections are cut.
LEMMA EnvironmentKeeps ==
  IInv /\ (LoseConnections \/ AcceptConnections \/ Ripen) => IInv'
BY DEF IInv, TypeOK, Fresh, AttemptsLeft, CallsStartClean,
  LoseConnections, AcceptConnections, Ripen, tracked, Underway, NextShipmentStatus

\* The position in the cycle stays in it.
LEMMA NextCallInCycle ==
  ASSUME TypeOK, NEW t \in Streams, NextCall(t)
  PROVE  /\ phase' = [phase EXCEPT ![t] = "ready"] /\ tries' = [tries EXCEPT ![t] = 0]
         /\ phase' \in [Streams -> Phase] /\ tries' \in [Streams -> 0..MaxAttempts]
         /\ at' \in [Streams -> Nat] /\ \A u \in Streams : at'[u] \in 1..Len(Cycle[u])
<1>1. \A u \in Streams : Cycle[u] \in Seq(Services) /\ Len(Cycle[u]) \in Nat \ {0}
  BY StreamAssumption
<1>2. MaxAttempts \in Nat
  BY StreamAssumption
<1> QED
  BY <1>1, <1>2 DEF TypeOK, NextCall, Phase

\* Connecting, the start of a call, a refused statement, a collision, an error, a write.
LEMMA InsideCallKeeps ==
  ASSUME IInv, NEW t \in Streams,
         Connect(t) \/ BeginCall(t) \/ Refuse(t) \/ Collide(t) \/ Fail(t) \/ Write(t)
  PROVE  IInv'
<1> USE StreamAssumption DEF IInv, TypeOK, Fresh, AttemptsLeft, CallsStartClean, tracked,
     Calling
<1>1. CASE Connect(t)
  BY <1>1 DEF Connect
<1>2. CASE BeginCall(t)
  BY <1>2 DEF BeginCall
<1>3. CASE Refuse(t)
  BY <1>3 DEF Refuse
<1>4. CASE Collide(t)
  BY <1>4 DEF Collide
<1>5. CASE Fail(t)
  BY <1>5 DEF Fail
<1>6. CASE Write(t)
  BY <1>6 DEF Write
<1> QED
  BY <1>1, <1>2, <1>3, <1>4, <1>5, <1>6

\* A call is left out, or ends with a commit, an early return, or in the handler.
LEMMA EndOfCallKeeps ==
  ASSUME IInv, NEW t \in Streams,
         \/ LeaveOut(t) \/ Commit(t) \/ CancelOrder(t) \/ ReturnNone(t) \/ CreateShipment(t)
         \/ AdvanceOther(t) \/ AdvanceShipment(t) \/ Handle(t)
  PROVE  IInv'
<1>0. MaxAttempts \in Nat \ {0}
  BY StreamAssumption
<1>1. ASSUME CommitCall(t), shipment' \in Underway \cup {"none", "DELIVERED", "deleted"},
             {ripe', view'} \subseteq BOOLEAN
      PROVE  IInv'
  <2>1. NextCall(t) /\ txn' = [txn EXCEPT ![t] = "none"] /\ rows' = [rows EXCEPT ![t] = FALSE]
        /\ UNCHANGED <<db, cut>>
    BY <1>1 DEF CommitCall
  <2>2. TypeOK'
    BY <2>1, <1>1, NextCallInCycle DEF IInv, TypeOK, Phase
  <2>3. Fresh' /\ AttemptsLeft'
    BY <1>0, <2>1, NextCallInCycle DEF IInv, TypeOK, Fresh, AttemptsLeft
  <2>4. CallsStartClean'
    BY <2>1, NextCallInCycle DEF IInv, TypeOK, CallsStartClean
  <2> QED
    BY <2>2, <2>3, <2>4 DEF IInv
<1>2. CASE Commit(t)
  BY <1>1, <1>2 DEF Commit, tracked, IInv, TypeOK
<1>3. CASE CreateShipment(t)
  BY <1>1, <1>3 DEF CreateShipment, IInv, TypeOK, Underway, NextShipmentStatus
<1>4. CASE AdvanceOther(t)
  BY <1>1, <1>4 DEF AdvanceOther, tracked, IInv, TypeOK
<1>5. CASE AdvanceShipment(t)
  <2>1. shipment' \in {"PICKED_UP", "IN_TRANSIT", "DELIVERED"}
    BY <1>5 DEF AdvanceShipment, Underway, NextShipmentStatus
  <2>2. shipment' \in Underway \cup {"none", "DELIVERED", "deleted"}
    BY <2>1 DEF Underway, NextShipmentStatus
  <2>3. CommitCall(t) /\ {ripe', view'} \subseteq BOOLEAN
    BY <1>5 DEF AdvanceShipment, IInv, TypeOK
  <2> QED
    BY <1>1, <2>2, <2>3
<1>6. CASE ReturnNone(t)
  BY <1>0, <1>6, NextCallInCycle DEF ReturnNone, Calling, tracked, IInv, TypeOK, Fresh,
    AttemptsLeft, CallsStartClean, Phase
<1>7. CASE Handle(t) /\ cut[t]
  BY <1>0, <1>7 DEF Handle, tracked, IInv, TypeOK, Fresh, AttemptsLeft, CallsStartClean
<1>8. CASE Handle(t) /\ ~cut[t]
  <2>1. NextCall(t) /\ txn' = [txn EXCEPT ![t] = "none"] /\ rows' = [rows EXCEPT ![t] = FALSE]
        /\ UNCHANGED <<db, cut, shipment, ripe, view>>
    BY <1>8 DEF Handle, tracked
  <2>2. TypeOK'
    BY <2>1, NextCallInCycle DEF IInv, TypeOK, Phase
  <2>3. Fresh' /\ AttemptsLeft'
    BY <1>0, <2>1, NextCallInCycle DEF IInv, TypeOK, Fresh, AttemptsLeft
  <2>4. CallsStartClean'
    BY <2>1, NextCallInCycle DEF IInv, TypeOK, CallsStartClean
  <2> QED
    BY <2>2, <2>3, <2>4 DEF IInv
<1>9. CASE CancelOrder(t)
  <2>1. shipment' \in Underway \cup {"none", "DELIVERED", "deleted"}
    BY <1>9 DEF CancelOrder
  <2>2. CommitCall(t) /\ {ripe', view'} \subseteq BOOLEAN
    BY <1>9 DEF CancelOrder, IInv, TypeOK
  <2> QED
    BY <1>1, <2>1, <2>2
<1>10. CASE LeaveOut(t)
  BY <1>0, <1>10, NextCallInCycle DEF LeaveOut, tracked, IInv, TypeOK, Fresh, AttemptsLeft,
    CallsStartClean, Phase
<1> QED
  BY <1>2, <1>3, <1>4, <1>5, <1>6, <1>7, <1>8, <1>9, <1>10

LEMMA NextKeeps == IInv /\ [Next]_vars => IInv'
<1> SUFFICES ASSUME IInv, [Next]_vars PROVE IInv'
  OBVIOUS
<1>1. CASE LoseConnections \/ AcceptConnections \/ Ripen
  BY <1>1, EnvironmentKeeps
<1>2. ASSUME NEW t \in Streams, Run(t) \/ Collide(t) \/ Fail(t) PROVE IInv'
  BY <1>2, InsideCallKeeps, EndOfCallKeeps DEF Run
<1>3. CASE UNCHANGED vars
  BY <1>3 DEF IInv, TypeOK, Fresh, AttemptsLeft, CallsStartClean,
    vars, Underway, NextShipmentStatus
<1> QED
  BY <1>1, <1>2, <1>3 DEF Next

LEMMA Invariance == Spec => []IInv
BY InitHolds, NextKeeps, PTL DEF Spec

\* Types hold for any threads, cycles and number of attempts.
THEOREM ThreadsTypeCorrect == Spec => []TypeOK
BY Invariance, PTL DEF IInv

\* No stream begins a call in a failed transaction or with rows of a call that raised.
THEOREM EveryCallStartsClean == Spec => []CallsStartClean
BY Invariance, PTL DEF IInv

-----------------------------------------------------------------------------
(* The seeding. *)

Tables == Seed!Tables

SeedTypes ==
  /\ count \in [Tables -> Nat] /\ left \in [Tables -> Nat] /\ paid \in Nat
  /\ payments \in BOOLEAN /\ seeder \in Tables \cup {"off", "done"}

\* The counts that a run took at its start stay right: only it inserts.
CountsHold ==
  seeder \in Tables => \A t \in Tables \ {"shipments"} : count[t] + left[t] = Target[t]

\* A phase begins when the ones before it have nothing left.
Before(t) ==
  CASE t = "customers" -> {}
    [] t = "categories" -> {"customers"}
    [] t = "products" -> {"customers", "categories"}
    [] t = "orders" -> {"customers", "categories", "products"}
    [] t = "shipments" -> {"customers", "categories", "products", "orders"}
EarlierPhasesDone == seeder \in Tables => \A t \in Before(seeder) : left[t] = 0

SInv == SeedTypes /\ CountsHold /\ EarlierPhasesDone /\ SeedTopsUp

-----------------------------------------------------------------------------
\* How many rows are missing.
LEMMA MissingIs ==
  ASSUME SInv, NEW t \in Tables
  PROVE  Seed!Missing(t) \in Nat /\ count[t] + Seed!Missing(t) = Target[t]
BY TargetAssumption DEF SInv, SeedTypes, SeedTopsUp, Seed!SeedTopsUp, Seed!Missing, Tables

LEMMA SeedInitHolds == Seed!Init => SInv
<1> SUFFICES ASSUME Seed!Init PROVE SInv
  OBVIOUS
<1>1. seeder = "off" /\ "off" \notin Tables
  BY DEF Seed!Init, Tables, Seed!Tables
<1>2. \A t \in Tables : count[t] = 0 /\ Target[t] \in Nat
  BY TargetAssumption DEF Seed!Init, Tables
<1>3. SeedTypes
  BY DEF Seed!Init, SeedTypes, Tables
<1> QED
  BY <1>1, <1>2, <1>3 DEF SInv, CountsHold, EarlierPhasesDone, SeedTopsUp, Seed!SeedTopsUp, Tables

\* A run starts, and counts.
LEMMA StartKeeps == SInv /\ Seed!Start => SInv'
<1> SUFFICES ASSUME SInv, Seed!Start PROVE SInv'
  OBVIOUS
<1>1. \A t \in Tables : Seed!Missing(t) \in Nat /\ count[t] + Seed!Missing(t) = Target[t]
  BY MissingIs
<1>2. seeder' = "customers" /\ left' = [t \in Tables |-> Seed!Missing(t)]
      /\ UNCHANGED <<count, payments, paid>>
  BY DEF Seed!Start, Tables
<1>3. SeedTypes' /\ CountsHold' /\ EarlierPhasesDone'
  BY <1>1, <1>2 DEF SInv, SeedTypes, CountsHold, EarlierPhasesDone, Before, Tables, Seed!Tables
<1>4. SeedTopsUp'
  BY <1>2 DEF SInv, SeedTopsUp, Seed!SeedTopsUp
<1> QED
  BY <1>3, <1>4 DEF SInv

\* Rows of the phases that main counted for.
LEMMA InsertKeeps ==
  SInv /\ (Seed!InsertCategories \/ \E t \in Tables : Seed!InsertRow(t)) => SInv'
<1> USE TargetAssumption DEF SInv, SeedTypes, CountsHold, EarlierPhasesDone, Before, SeedTopsUp,
     Seed!SeedTopsUp, Tables, Seed!Tables
<1>1. ASSUME SInv, Seed!InsertCategories PROVE SInv'
  BY <1>1 DEF Seed!InsertCategories
<1>2. ASSUME SInv, NEW t \in Tables, Seed!InsertRow(t) PROVE SInv'
  <2>1. /\ seeder = t /\ t \in {"customers", "products", "orders"} /\ left[t] > 0
        /\ count' = [count EXCEPT ![t] = @ + 1] /\ left' = [left EXCEPT ![t] = @ - 1]
        /\ seeder' = seeder
    BY <1>2 DEF Seed!InsertRow
  <2>2. count[t] + left[t] = Target[t] /\ Target[t] \in Nat
    BY <1>2, <2>1
  <2>3. payments' \in BOOLEAN /\ paid' \in Nat
    <3>1. \/ payments' = payments /\ paid' = paid
          \/ payments' = TRUE /\ (paid' = paid \/ paid' = paid + 1)
      BY <1>2 DEF Seed!InsertRow
    <3>2. payments \in BOOLEAN /\ paid \in Nat
      BY <1>2
    <3>3. payments' \in BOOLEAN
      BY <3>1, <3>2, Zenon
    <3>4. paid' \in Nat
      BY <3>1, <3>2
    <3> QED
      BY <3>3, <3>4
  <2>4. SeedTypes'
    BY <1>2, <2>1, <2>3
  <2>5. CountsHold' /\ EarlierPhasesDone'
    BY <1>2, <2>1
  <2>6. SeedTopsUp'
    BY <1>2, <2>1, <2>2
  <2> QED
    BY <2>4, <2>5, <2>6
<1> QED
  BY <1>1, <1>2

LEMMA InsertShipmentKeeps == SInv /\ Seed!InsertShipment => SInv'
BY TargetAssumption DEF SInv, SeedTypes, CountsHold, EarlierPhasesDone, Before, SeedTopsUp,
  Seed!SeedTopsUp, Tables, Seed!Tables, Seed!InsertShipment, Seed!Missing

LEMMA NextPhaseKeeps == SInv /\ Seed!NextPhase => SInv'
<1> SUFFICES ASSUME SInv, Seed!NextPhase PROVE SInv'
  OBVIOUS
<1>1. /\ seeder \in Tables /\ left[seeder] = 0
      /\ seeder' \in Tables /\ Before(seeder') = Before(seeder) \cup {seeder}
      /\ UNCHANGED <<count, payments, paid, left>>
  BY DEF Seed!NextPhase, Seed!Phases, Before, Tables, Seed!Tables
<1> QED
  BY <1>1 DEF SInv, SeedTypes, CountsHold, EarlierPhasesDone, SeedTopsUp, Seed!SeedTopsUp, Tables,
    Seed!Tables

\* The check at the end passes only with every target reached.
LEMMA VerifyKeeps == SInv /\ Seed!Verify => SInv'
<1> SUFFICES ASSUME SInv, Seed!Verify PROVE SInv'
  OBVIOUS
<1>1. \A t \in Tables : count[t] = Target[t]
  BY MissingIs, TargetAssumption DEF Seed!Verify, SInv, SeedTypes, CountsHold, EarlierPhasesDone,
    Before, Tables, Seed!Tables
<1>2. count = Target
  BY <1>1, TargetAssumption DEF SInv, SeedTypes, Tables
<1> QED
  BY <1>2 DEF Seed!Verify, SInv, SeedTypes, CountsHold, EarlierPhasesDone, SeedTopsUp,
    Seed!SeedTopsUp, Tables, Seed!Tables

LEMMA BreakOffKeeps == SInv /\ Seed!BreakOff => SInv'
BY DEF Seed!BreakOff, SInv, SeedTypes, CountsHold, EarlierPhasesDone, SeedTopsUp,
  Seed!SeedTopsUp, Tables, Seed!Tables

LEMMA SeedInvariance == WorkloadSpec => []SInv
<1>1. WorkloadInit => SInv
  BY SeedInitHolds DEF WorkloadInit
<1>2. ASSUME SInv, SeedStep PROVE SInv'
  BY <1>2, StartKeeps, InsertKeeps, InsertShipmentKeeps, NextPhaseKeeps, VerifyKeeps,
    BreakOffKeeps DEF SeedStep, Seed!Next, Tables
<1>3. ASSUME SInv, UNCHANGED seedVars PROVE SInv'
  BY <1>3 DEF seedVars, SInv, SeedTypes, CountsHold, EarlierPhasesDone, SeedTopsUp,
    Seed!SeedTopsUp
<1>4. SInv /\ [WorkloadNext]_allVars => SInv'
  BY <1>2, <1>3 DEF WorkloadNext, Streaming, allVars
<1> QED
  BY <1>1, <1>4, PTL DEF WorkloadSpec

\* For any targets, and however often runs break off: no table gets more rows than its
\* target, and the run that completes leaves all of them.
THEOREM SeedingTopsUp == WorkloadSpec => []SeedTopsUp
BY SeedInvariance, PTL DEF SInv

\* What a user does with make seed and make stream is, for the streams, their own
\* specification: while the seeding runs they stutter.
THEOREM WorkloadRunsStreams == WorkloadSpec => Spec
<1>1. WorkloadInit => Init
  BY DEF WorkloadInit
<1>2. [WorkloadNext]_allVars => [Next]_vars
  BY DEF WorkloadNext, SeedStep, Streaming, allVars
<1> QED
  BY <1>1, <1>2, PTL DEF WorkloadSpec, Spec
=============================================================================
