SPECIFICATION DriverSpec
CONSTANTS
  QUEUE_SIZE = 4
  PARAM_FIFO_SIZE = 1
  DATA_SIZE = 1
  RAW_SIZE = 1
  LBA_SPACE = 1
  Cmds = {}
  ParamVals = {}
  AckMasks = {}
  EnableMasks = {}
  Issued = {"Read"}
  Streaming = {"Read"}
  Discs = {TRUE}
INVARIANT NothingDiscarded
