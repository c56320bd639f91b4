SPECIFICATION MCSpec
CONSTANTS
  MaxTasks = 4
  Patient = FALSE
  \* A check every 5 s, an association within less.
  CheckInterval = 4
  AssocTime = 3
  MaxLosses = 2
  MaxBoots = 3
  MaxLength = 3
  MaxPort = 1
  \* Each limit of a byte of three values and of a long has numerals below and above it.
  Numerals = {1, 4, 40}
  Timeouts = {0, 10, 40}
  Byte = 3
  LongMax = 20
CHECK_DEADLOCK FALSE
INVARIANTS WifiObeys BootsWell PathsAgree PairServed
PROPERTIES TasksApart FirmwareGoesOn
