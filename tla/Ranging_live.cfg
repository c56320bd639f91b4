SPECIFICATION MCFairSpec
CONSTANTS
  Device = {1, 2}
  Pan = {7}
  ForeignPan = 9
  ForeignLen = {20}
  TimeoutUus = {5}
  FwtoMod = 8
  SeqMod = 2
  Offset <- MCOffset
  Flight <- MCFlight
  AntennaDelay = 1
  PollTxToRespRx = 2
  PollRxToRespTx = 3
  CommandGap = 4
  MaxLatency = 1
  ClockMod = 32
  StampMod = 16
  DxUnit = 1
  Horizon = 9
  MaxOps = 1
  Prompt = FALSE
PROPERTIES OperationReturns
