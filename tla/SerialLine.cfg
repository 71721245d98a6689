SPECIFICATION FairSpec
CONSTANTS
  Image = {1, 2, 3}
  Payload <- MCPayload
  SlotCount = 1
  NoJob = NoJob
  Timeout = 4
  NoTimer = NoTimer
  Gaps = {0, 8}
  MaxHarm = 2
  MaxLogs = 1
INVARIANTS FlagCoversRecord ImagesAccounted GapsAreLostRecords IntactSaved
PROPERTIES CandidateResolved
CHECK_DEADLOCK FALSE
