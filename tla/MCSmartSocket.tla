---------------------------- MODULE MCSmartSocket ----------------------------
(* Small instances of SmartSocket for TLC.                                 *)
EXTENDS SmartSocket
=============================================================================
