SPECIFICATION FairSpec
CONSTANTS
  LastFrame = 2
  TimeId = {1}
  Image <- MCImage
  Bytes <- MCBytes
  SourceDataBytes = 2
  OpenAttempts = 2
  RepairRounds = 2
  SessionRestarts = 2
  NackBase = {0, 1}
  NackBit = {0, 1}
  NoJob = NoJob
INVARIANTS TypeOK OneJobAtATime NoLostWakeup QuietAfterFault
PROPERTIES ResponsePriority EveryJobEnds
