------------------------------- MODULE Workload -------------------------------
(* What a user runs against the cluster: make seed until it is done, then make *)
(* stream.                                                                     *)
EXTENDS StreamThreads

CONSTANT Target
VARIABLES count, payments, paid, seeder, left

Seed == INSTANCE Seeding

ASSUME TargetAssumption == Target \in [Seed!Tables -> Nat \ {0}]

seedVars == <<count, payments, paid, seeder, left>>

Seeded == seeder = "done"

WorkloadInit == Init /\ Seed!Init

SeedStep == Seed!Next /\ UNCHANGED vars
Streaming(A) == Seeded /\ A /\ UNCHANGED seedVars

WorkloadNext == SeedStep \/ Streaming(Next)

allVars == <<vars, seedVars>>

\* The fairness of the streams once they run; the user may never get the seed done.
WorkloadFairness ==
  /\ WF_allVars(Streaming(Ripen))
  /\ \A t \in Streams :
       WF_allVars(Streaming(Run(t))) /\ SF_allVars(Streaming(AdvanceShipment(t)))

WorkloadSpec == WorkloadInit /\ [][WorkloadNext]_allVars /\ WorkloadFairness

\* What the seeding promises, whatever breaks off in it.
SeedTopsUp == Seed!SeedTopsUp
=============================================================================
