SPECIFICATION FairSpec
CONSTANTS
  CMD_QUEUE_SIZE = 5
  KeyCodes = {"caps", "rctrl"}
  FifoSize = 3
  MaxResends = 1
INVARIANTS KeysInSync RingSound
PROPERTIES RingDrains
