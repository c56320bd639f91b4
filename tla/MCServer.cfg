SPECIFICATION MCSpec
CONSTANTS
  Device = {d1, d2}
  MaxConns = 3
  \* Ticks of 10 ms. CheckInterval is that of the firmware (20 ms), ListenTime
  \* its 123 ms rounded down, RangingTime its 15 ms rounded up.
  Devices = 3
  Lead = 8
  PairDelay = 18
  SequenceDelay = 10
  ListenTime = 12
  RangingTime = 2
  CheckInterval = 2
  Jitter = 1
  Late = 30
  MaxFaults = 1
  Grace = 2
  SerialMod = 8
CHECK_DEADLOCK FALSE
PROPERTIES RegistryKept DelaysSuffice ServerGoesOn
