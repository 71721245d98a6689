SPECIFICATION Spec
CONSTANTS
  Node = c6
  Detected = {5}
  RxTime = {}
  Crc = {"a", "b"}
  Payload = {"head", "tail-a", "tail-b"}
  Bytes <- MCBytes
  ImageLen <- MCLen
  JpegOk = {"a"}
  WireLen = {3}
  WireIndex = {0, 1}
  WireBytes = {1, 2}
  DataBytes = 2
  MaxBytes = 4
  NackBits = 2
  ReplyMax = 1
  CacheEntries = 1
  FrameTimeout = 1
  CacheTime = 1
  NoSession = NoSession
  NoEntry = NoEntry
  NoPublication = NoPublication
  Unwritten = Unwritten
  LastFrame = 3
  Image <- MCImage
  OpenAttempts = 1
  RepairRounds = 2
  SessionRestarts = 1
  NoJob = NoJob
  MaxInFlight = 1
  MaxHarm = 1
  Trouble = {"timeout", "fault", "time", "idle", "route"}
PROPERTIES DeliveryKept
VIEW View
CHECK_DEADLOCK FALSE
