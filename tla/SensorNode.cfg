\* Units of 200 ms; the period of a minute is cut to 1.2 s.
SPECIFICATION FairSpec
CONSTANTS
  ON_TIME = 3
  OFF_TIME = 2
  PowerUp = 1
  Conversion = 4
  READ_PERIOD = 6
  Elapsed = {1, 2}
  IdentifyTimes = {0, 2}
  Temps = {0, 20}
  ReportEvery = 1
  Off = Off
  NotReported = NotReported
  MaxRequests = 3
INVARIANTS OneMeasurement LitIsTimed LossIsMadeUp
PROPERTIES SleepsAgain HeartBeat
