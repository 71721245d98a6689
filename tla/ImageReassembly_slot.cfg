SPECIFICATION FairSpec
CONSTANTS
  Source = {s1, s2}
  FrameId = {1}
  Detected = {0}
  RxTime = {7}
  Crc = {"a", "b"}
  Payload = {"head", "tail-a", "tail-b"}
  Bytes <- MCBytes
  ImageLen <- MCTwoChunks
  JpegOk = {"a"}
  WireLen = {0, 3}
  WireIndex = {0, 1, 2}
  WireBytes = {1, 2}
  DataBytes = 2
  MaxBytes = 4
  NackBits = 1
  ReplyMax = 2
  CacheEntries = 2
  FrameTimeout = 1
  CacheTime = 2
  NoSession = NoSession
  NoEntry = NoEntry
  NoPublication = NoPublication
  Unwritten = Unwritten
INVARIANTS TypeOK PendingImageIntact IdleWindowExclusive CompleteMeansVerified NackNamesMissing KeyRememberedOnce OldestEvictedFirst
PROPERTIES SessionIsolated SlotReclaimed SessionOnlyGrows
