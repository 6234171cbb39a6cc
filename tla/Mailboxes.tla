----------------------------- MODULE Mailboxes -----------------------------
(***************************************************************************)
(* What the OSAL message functions promise: a mailbox per task.  A message *)
(* buffer is free, in the hands of some code, or in exactly one mailbox.   *)
(***************************************************************************)
EXTENDS Sequences

CONSTANTS Places, Msgs, Fronts

VARIABLES box,  \* the messages waiting for each task, oldest first
          hand  \* buffers that are allocated and in no mailbox

vars == <<box, hand>>

Init == box = [p \in Places |-> <<>>] /\ hand = {}

Waiting == UNION {{box[p][k] : k \in DOMAIN box[p]} : p \in Places}

Allocate(m) ==
  /\ m \notin hand \cup Waiting
  /\ hand' = hand \cup {m}
  /\ UNCHANGED box

Free(m) ==
  /\ m \in hand
  /\ hand' = hand \ {m}
  /\ UNCHANGED box

Post(m, p, front) ==
  /\ m \in hand
  /\ box' = [box EXCEPT ![p] = IF front THEN <<m>> \o @ ELSE Append(@, m)]
  /\ hand' = hand \ {m}

Fetch(p) ==
  /\ box[p] # <<>>
  /\ hand' = hand \cup {Head(box[p])}
  /\ box' = [box EXCEPT ![p] = Tail(@)]

Next ==
  \/ \E m \in Msgs : Allocate(m) \/ Free(m)
  \/ \E m \in Msgs, p \in Places, front \in Fronts : Post(m, p, front)
  \/ \E p \in Places : Fetch(p)

Spec == Init /\ [][Next]_vars
=============================================================================
