SPECIFICATION MCSpec
CONSTANTS
  Device = {1, 2}
  Pan = {7}
  ForeignPan = 9
  ForeignLen = {20}
  TimeoutUus = {0, 1, 5}
  FwtoMod = 8
  SeqMod = 2
  Offset <- MCOffset
  Flight <- MCFlight
  AntennaDelay = 1
  PollTxToRespRx = 2
  PollRxToRespTx = 3
  CommandGap = 4
  MaxLatency = 4
  ClockMod = 32
  StampMod = 16
  DxUnit = 1
  Horizon = 20
  MaxOps = 2
  Prompt = TRUE
INVARIANTS RangeCorrect RadioInStep IInv
PROPERTIES ResponseTrue
