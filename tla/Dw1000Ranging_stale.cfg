SPECIFICATION Spec
CONSTANTS
  Anchors = {a1, a2}
  Tag = tag
  NoFrame = NoFrame
  BlinkPeriod = 4
  Inactivity = 2
  Restarting = {}
INVARIANTS OneExchange
