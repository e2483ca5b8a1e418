SPECIFICATION DriverSpec
CONSTANTS
  QUEUE_SIZE = 2
  PARAM_FIFO_SIZE = 1
  DATA_SIZE = 1
  RAW_SIZE = 2
  LBA_SPACE = 2
  Cmds <- MCCmds
  ParamVals = {160}
  AckMasks <- MCAcks
  EnableMasks <- MCEnables
  Issued <- Commands
  Streaming <- MCCareful
  Discs = {TRUE, FALSE}
INVARIANTS ArmedForFront BusyHasEvent DeferredHasBlocker
PROPERTIES SectorsWaitForAck AnswerWithInterrupt CommandsComplete
