SPECIFICATION FairSpec
CONSTANTS
  Image = {1, 2, 3}
  Payload <- MCPayload
  SlotCount = 1
  NoJob = NoJob
  Timeout = 4
  NoTimer = NoTimer
  Gaps = {0, 3}
  MaxHarm = 1
  MaxLogs = 1
INVARIANTS IntactSaved
CHECK_DEADLOCK FALSE
