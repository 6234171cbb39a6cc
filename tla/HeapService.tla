----------------------------- MODULE HeapService -----------------------------
(***************************************************************************)
(* What osal_mem_alloc and osal_mem_free promise their callers: every      *)
(* piece of memory handed out is at least as long as what was asked for,   *)
(* no two pieces that are held share a byte, and only the holder gives a   *)
(* piece back.  Where a piece lies, and when a request is refused, is left *)
(* open.                                                                   *)
(***************************************************************************)
EXTENDS Integers, FiniteSets

CONSTANTS HeapLen,    \* bytes that may be handed out
          Sizes,      \* sizes that are asked for
          NULL

VARIABLES held,       \* the pieces in use: records [at, len]
          answer      \* the last request: the size, and an address or NULL

vars == <<held, answer>>

Apart(p, q) == p.at + p.len <= q.at \/ q.at + q.len <= p.at

Pieces == [at : 0 .. HeapLen, len : 1 .. HeapLen]

Init ==
  /\ held = {}
  /\ answer = [asked |-> 0, got |-> NULL]

Grant(n) ==
  \E p \in Pieces :
    /\ p.len >= n /\ p.at + p.len <= HeapLen
    /\ \A q \in held : Apart(p, q)
    /\ held' = held \cup {p}
    /\ answer' = [asked |-> n, got |-> p.at]

Refuse(n) ==
  /\ answer' = [asked |-> n, got |-> NULL]
  /\ UNCHANGED held

Free(p) ==
  /\ held' = held \ {p}
  /\ UNCHANGED answer

Next ==
  \/ \E n \in Sizes : Grant(n) \/ Refuse(n)
  \/ \E p \in held : Free(p)

Spec == Init /\ [][Next]_vars
=============================================================================
