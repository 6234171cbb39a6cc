---------------------------- MODULE MCSensorNode ----------------------------
(* Small instances of SensorNode for TLC.                                  *)
EXTENDS SensorNode
=============================================================================
