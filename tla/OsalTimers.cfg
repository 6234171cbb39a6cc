\* Two slots for one event timer and two callbacks: the table can be full.
SPECIFICATION FairSpec
CONSTANTS
  t1 = t1
  evA = evA
  cb1 = cb1
  cb2 = cb2
  NoTimer = NoTimer
  MaxElements = 2
  Tasks = {t1}
  Events = {evA}
  Callbacks = {cb1, cb2}
  IsrTimers <- IsrTimer
  Timeouts = {0, 1, 3}
  Elapsed = {1, 2}
  ClockSize = 2
INVARIANTS TypeOK UniqueTimers
PROPERTIES ImplementsService UpdateEnds
