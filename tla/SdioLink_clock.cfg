SPECIFICATION Spec
CONSTANTS
  LastFrame = 1
  Image = {"a", "b"}
  JpegOk = {"a"}
  ChunkCount = 2
  BleFrame = {1}
  LastRequest = 1
  EventQueue = 1
  ChannelMax = 1
  Noise = Noise
  None = None
  Trouble = {}
  MaxHarm = 1
INVARIANTS TypeOK
PROPERTIES LifecycleLossless
VIEW View
CHECK_DEADLOCK FALSE
