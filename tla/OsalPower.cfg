\* Both hal_sleep.c; of the two timers either can be the next to expire.  3 ms is
\* the least timeout worth a sleep.
SPECIFICATION FairSpec
CONSTANTS
  tm1 = tm1
  tm2 = tm2
  Off = Off
  Timers = {tm1, tm2}
  Timeouts = {3}
  OSAL_TIMERS_MAX_TIMEOUT = 7
  MacTimeouts = {0, 9}
  maxSleepLoopTime = 12
  Boards = {"CC2530EB", "CC2530PMP4712"}
  MacTaskTimeout = 9
  MacTaskTries = 1
  DeepAllowed = TRUE
  MaxBusy = 4
INVARIANTS SleepsOnlyIdle RadioOnWithoutMacTask NeverOversleeps
PROPERTIES TimersExpire
