\* Seeding, then two of the streams; the endpoint may go and come back at any time.
CONSTANTS
  Streams <- TheStreams
  Cycle <- TheCycle
  MaxAttempts = 3
  Target <- TheTarget
SPECIFICATION WorkloadSpec
INVARIANTS
  CallsStartClean
  SeedTopsUp
PROPERTIES
  EveryCallComesRound
  ShipmentsAdvance
CHECK_DEADLOCK FALSE
