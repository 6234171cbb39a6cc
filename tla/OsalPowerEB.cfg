\* hal_sleep.c of CC2530EB.
SPECIFICATION Spec
CONSTANTS
  tm1 = tm1
  tm2 = tm2
  Off = Off
  Timers = {tm1}
  Timeouts = {4}
  OSAL_TIMERS_MAX_TIMEOUT = 7
  MacTimeouts = {0, 9}
  maxSleepLoopTime = 15
  Boards = {"CC2530EB"}
  MacTaskTimeout = 9
  MacTaskTries = 2
  DeepAllowed = TRUE
  MaxBusy = 4
INVARIANTS RadioOnInLoop
