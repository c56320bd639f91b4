SPECIFICATION MCSpec
CONSTANTS
  Parts = {"time", "pair", "table", "radio", "config"}
  NoFrame = NoFrame
  Tag = tag
  Anchors = {a1}
  Restarting = {a1, tag}
  BlinkPeriod = 4
  Inactivity = 2
  Addr = {a, b, c, d}
  MaxDevices = 4
  LenData = 90
  Chips = {c1}
  Channels = {1, 2, 3, 4, 5, 7}
  Delays = {0, 16436}
  Overflow = 32
  Grain = 4
  AntennaDelay = 1
  ReplyDelay = 7
  MaxLatency = 1
  MaxTof = 3
  Gains = {0, 1, 8}
  Offsets = {0, 13, 31}
INVARIANTS TimesTrue CloseWithDrift RadioTellsAll ChipAsSet
PROPERTIES PairRanges TableKept SilentLeave
