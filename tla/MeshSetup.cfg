SPECIFICATION FairSpec
CONSTANTS
  Uuid <- MCUuid
  MaxNodes = 2
  Retries = 1
  NoUuid = NoUuid
  NoKey = NoKey
  NoMessage = NoMessage
  MaxHarm = 1
INVARIANTS ReadyMeansConfigured KeysAgree OneOwnerEach CompletionsKept FaultStaysNotReady
PROPERTIES SetupCompletes
CHECK_DEADLOCK FALSE
