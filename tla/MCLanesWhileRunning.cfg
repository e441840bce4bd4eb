CONSTANTS
  SEND_TIME_EVERY_COUNTS = 20
  INACTIVE_TIME_AFTER_START = 200
  LaneNos <- LaneSet
  MaxRound = 3
  FrameDigits <- OneResult
  SecondHalf <- NoChannels
SPECIFICATION Spec
INVARIANT LanesOnlyWhileRunning
