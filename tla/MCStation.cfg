CONSTANTS
  MaxHandles = 3
  MaxSent = 5
SPECIFICATION StationSpec
INVARIANTS OpenOnce OneSocket
PROPERTIES EndsOrReadsAgain TopicSpec NotCutOff ArrivesUnlessCrowdedOut
