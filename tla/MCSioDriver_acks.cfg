SPECIFICATION DSpec
CONSTANTS
  Bytes = {0, 1, 2, 3}
  BYTES = 4
  ByteXor <- MCXor
  CARD = 1
  PAD = 0
  READ = 0
  WRITE = 1
  POLL = 0
  CONFIG = 3
  MODE = 1
  QUERY = 2
  ON = 1
  LOCK = 3
  SECTORS = 4
  SECTOR_SIZE = 2
  RX_SIZE = 1
  TX_COUNTS = 14
  ByteCycles = {1, 2}
  Slices = {1, 2}
  Sends = {0, 1}
  MAX_POS = 14
  Jobs <- MCJobs
  MAX_ABORTS = 2
PROPERTIES WriteIntact FramesComplete
