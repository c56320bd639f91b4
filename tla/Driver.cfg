SPECIFICATION MCSpec
CONSTANTS
  Double = TRUE
  MainTurnsOff = TRUE
  MaxFrames = 3
  Configs <- FourConfigs
  MaxRetriesPLL = 3
  MaxCalls = 6
  Cells = 4
  Registers = {0, 1, 22, 28}
  BaseOffsets = {0, 4, 63, 124}
  Indexes = {0, 3, 63}
  BufferOffsets = {0, 10, 127, 128, 1011, 1030}
  Lo = {"RXFCG", "SPIRDY"}
  Hi = {"AES_DONE"}
  Codes = {3, 250}
  Reference = 120
CHECK_DEADLOCK FALSE
INVARIANTS RegistersAsMeant ReadingsTrue
PROPERTIES HandlesEach CopyHolds DriverGoesOn
