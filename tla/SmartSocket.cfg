\* One of the two equal inputs; its timer wraps at almost every pulse.
SPECIFICATION FairSpec
CONSTANTS
  Channels = {"CF"}
  TimerSize = 4
  Periods = {3}
  PulsesPerMean = 2
  CALIBRATING_SAMPLES = 2
  DefaultCoef = 6
  NotReported = NotReported
INVARIANTS TicksAreTrue ButtonsMatch OwnSamples
PROPERTIES StoredIsMeasured CalibrationEnds CoordinatorFollows
