SPECIFICATION Spec
CONSTANTS
  LastFrame = 1
  Image = {"a"}
  JpegOk = {"a"}
  ChunkCount = 1
  BleFrame = {1}
  LastRequest = 1
  EventQueue = 1
  ChannelMax = 1
  Noise = Noise
  None = None
  Trouble = {"race"}
  MaxHarm = 1
PROPERTIES LifecycleLossless
VIEW View
CHECK_DEADLOCK FALSE
