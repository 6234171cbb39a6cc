---------------------------- MODULE MCOsalTimers ----------------------------
(* Small instances of OsalTimers for TLC.                                  *)
EXTENDS OsalTimers

CONSTANTS t1, evA, cb1, cb2

\* The one timer an interrupt handler starts (HAL_KEY_EVENT in the code).
IsrTimer == {<<t1, evA>>}
=============================================================================
