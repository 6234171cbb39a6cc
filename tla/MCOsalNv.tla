------------------------------ MODULE MCOsalNv ------------------------------
(* Small instances of OsalNv for TLC.                                      *)
EXTENDS OsalNv

CONSTANTS x, y, v1, v2

OneEach == [id \in Ids |-> 1]
Uneven == [id \in Ids |-> IF id = x THEN 1 ELSE 2]

\* The items of a torn erase are there as long as its page header is.
HeaderFirst == {{}, {"inUse"}, {"xfer"}, {"inUse", "xfer"}, {"inUse", "items"}}
\* ... and the inUse word goes no later than the xfer word.
InUseFirst == HeaderFirst \ {{"xfer"}}
NotTorn == {{}}

Symmetry == Permutations(Values)
=============================================================================
