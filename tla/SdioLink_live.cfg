SPECIFICATION FairSpec
CONSTANTS
  LastFrame = 1
  Image = {"a"}
  JpegOk = {"a"}
  ChunkCount = 2
  BleFrame = {1}
  LastRequest = 0
  EventQueue = 1
  ChannelMax = 1
  Noise = Noise
  None = None
  Trouble = {"loss", "restart", "mesh"}
  MaxHarm = 1
PROPERTIES ReservationEnds
CHECK_DEADLOCK FALSE
