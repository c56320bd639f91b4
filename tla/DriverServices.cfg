SPECIFICATION MCSpec
CONSTANTS
  \* The last one has the low octet of the first.
  Addresses = {5, 6, 261}
  Bits = {0, 1}
  MaxCalls = 3
  SingleMasks = {{}, {"ALL"}, {"MIN"}}
  DoubleMasks = {{"MIN"}, {"MID"}, {"ALL", "MAX"}}
  MaxFrames = 3
CHECK_DEADLOCK FALSE
INVARIANTS DiagnosticsTrue
PROPERTIES WordsKept 
