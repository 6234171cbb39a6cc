----------------------------- MODULE MCOsalTasks -----------------------------
(* Small instances of OsalTasks for TLC.                                   *)
EXTENDS OsalTasks

CONSTANTS m1, m2, m3, evF

\* An interrupt handler sets one event of the most urgent task, which may then
\* starve the others.
IsrFirst == {<<0, evF>>}
=============================================================================
