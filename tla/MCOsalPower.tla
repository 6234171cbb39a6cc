---------------------------- MODULE MCOsalPower ----------------------------
(* Small instances of OsalPower for TLC.                                   *)
EXTENDS OsalPower

CONSTANTS tm1, tm2
=============================================================================
