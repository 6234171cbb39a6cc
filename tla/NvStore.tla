------------------------------ MODULE NvStore ------------------------------
(***************************************************************************)
(* What the non-volatile memory promises: a value for each item, which a   *)
(* call changes at one moment, and which a reset, at any moment and        *)
(* however often, leaves as it is.                                         *)
(***************************************************************************)
CONSTANTS Ids, Values,
          Nothing,  \* an item that does not exist
          NoCall

VARIABLES value,    \* what each item holds
          busy,     \* the call in progress: which item is to hold what
          up        \* has the memory been initialized since the last reset

vars == <<value, busy, up>>

Init == value = [id \in Ids |-> Nothing] /\ busy = NoCall /\ up = FALSE

Boot == ~ up /\ up' = TRUE /\ UNCHANGED <<value, busy>>

Begin(id, v) ==
  /\ up /\ busy = NoCall
  /\ busy' = [id |-> id, val |-> v]
  /\ UNCHANGED <<value, up>>

Commit ==
  /\ up /\ busy # NoCall
  /\ value' = [value EXCEPT ![busy.id] = busy.val]
  /\ UNCHANGED <<busy, up>>

\* The call returns, and what it was asked to do is done.
Return ==
  /\ busy # NoCall /\ value[busy.id] = busy.val
  /\ busy' = NoCall
  /\ UNCHANGED <<value, up>>

Reset == busy' = NoCall /\ up' = FALSE /\ UNCHANGED value

Next == \/ Boot
        \/ \E id \in Ids, v \in Values \cup {Nothing} : Begin(id, v)
        \/ Commit \/ Return \/ Reset

Spec == Init /\ [][Next]_vars
=============================================================================
