SPECIFICATION MCSpec
CONSTANTS
  \* At once, up to the slowest host that is in time, and slower ones.
  Latencies = {0, 100, 674, 675, 1500}
  ReplyLatencies = {0, 100, 400, 700, 1500}
  MaxRounds = 2
  Warnings = {"PEAK_GROWTH_RATE", "HIGH_NOISE_THREASH"}
  SleepWrap = 24
  BlinkWrap = 3
  Places = {1, 10, 125}
  Lengths = {2, 20, 127}
  Tags = 3
  MaxFaults = 4
  AesTags = 2
  SeqWrap = 16
  CntWrap = 3
  LoneFaults = 2
  CrowdFaults = 1
CHECK_DEADLOCK FALSE
INVARIANTS WindowsFit ErrorsCounted
PROPERTIES BlinksHold LoopsInStep ExamplesGoOn
