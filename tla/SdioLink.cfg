SPECIFICATION Spec
CONSTANTS
  LastFrame = 2
  Image = {"a"}
  JpegOk = {"a"}
  ChunkCount = 1
  BleFrame = {1}
  LastRequest = 0
  EventQueue = 1
  ChannelMax = 1
  Noise = Noise
  None = None
  Trouble = {"loss", "fault", "damage", "race"}
  MaxHarm = 1
INVARIANTS BufferIntact
PROPERTIES AckedMeansAcked
VIEW View
CHECK_DEADLOCK FALSE
