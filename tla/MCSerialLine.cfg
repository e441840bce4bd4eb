CONSTANTS
  Bytes <- SentBytes
  Frames <- MCFrames
  MaxLoss = 4
  MaxRepeats = 5
  NoiseBytes <- HeardBytes
SPECIFICATION MCSpec
INVARIANTS LineInv NoiseHarmless
PROPERTIES NothingMissed DeliverySpec Resync WholeOrNothing
