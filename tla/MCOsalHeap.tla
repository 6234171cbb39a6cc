----------------------------- MODULE MCOsalHeap -----------------------------
(* Small instances of OsalHeap for TLC.                                    *)
EXTENDS OsalHeap
=============================================================================
