CONSTANTS
  SEND_TIME_EVERY_COUNTS = 1
  INACTIVE_TIME_AFTER_START = 200
  LaneNos <- LaneSet
  MaxRound = 15
  FrameDigits <- RaceDigits
  SecondHalf <- LanesAndRounds
SPECIFICATION OneKindSpec
INVARIANTS RaceFollowsClock GateLag QuietAfterHeader LossIsLocal
PROPERTIES StopOnlyAtZero OnlyNews FirstResultPublished RoundsNumbered
  ZeroClockEndsRace RunningClockOpensGate
