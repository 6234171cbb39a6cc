------------------------------- MODULE MCZdApp -------------------------------
(* Small instances of ZdApp for TLC.                                       *)
EXTENDS ZdApp
=============================================================================
