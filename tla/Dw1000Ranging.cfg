SPECIFICATION LiveSpec
CONSTANTS
  Anchors = {a1, a2}
  Tag = tag
  NoFrame = NoFrame
  BlinkPeriod = 3
  Inactivity = 1
  Restarting = {a1, tag}
PROPERTIES AnswersServe
