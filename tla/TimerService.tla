---------------------------- MODULE TimerService ----------------------------
(***************************************************************************)
(* What the OSAL timer functions promise their callers, without slots and  *)
(* without an order among the timers: a bounded set of armed timers, each  *)
(* with the time it has left; an update that takes the same time from all  *)
(* of them at once; and the obligation to serve every timer that this made *)
(* due before the update ends.                                             *)
(*                                                                         *)
(* The one liberty it leaves is where a timer armed during an update       *)
(* starts counting: from now, or from before the time being charged.       *)
(***************************************************************************)
EXTENDS Integers, FiniteSets

CONSTANTS Capacity,   \* how many timers can be armed at a time
          Tasks, Events, Callbacks, IsrTimers, NoTimer, Timeouts, Elapsed

EventTimers == Tasks \X Events
Timers == EventTimers \cup Callbacks

VARIABLES armed,      \* records [id, left, period], period 0 for a one-shot
          due,        \* ids the running update must still serve
          charging,   \* the time the running update charges, 0 if none runs
          calling,    \* the callback being served, or NoTimer
          pending     \* events set and not yet taken, by task

vars == <<armed, due, charging, calling, pending>>

Armed(id) == \E t \in armed : t.id = id
Others(id) == {t \in armed : t.id # id}

Init ==
  /\ armed = {} /\ due = {}
  /\ charging = 0 /\ calling = NoTimer
  /\ pending = [t \in Tasks |-> {}]

\* Task code between updates, a callback, or an interrupt handler.
MayCall(id) == charging = 0 \/ calling # NoTimer \/ id \in IsrTimers

\* (Re)arm id for n; base is the part of n the running update takes away.
ArmFor(id, n, period) ==
  /\ MayCall(id)
  /\ Armed(id) \/ Cardinality(armed) < Capacity
  /\ \E base \in {0, charging} :
       /\ armed' = Others(id) \cup
                   {[id |-> id, left |-> n - base, period |-> period]}
       /\ due' = (due \ {id}) \cup
                 {x \in {id} : base # 0 /\ n <= base}
  /\ UNCHANGED <<charging, calling, pending>>

\* A one-shot start leaves a periodic timer periodic.
Arm(id, n) ==
  \/ \E t \in armed : t.id = id /\ ArmFor(id, n, t.period)
  \/ ~ Armed(id) /\ ArmFor(id, n, 0)

ArmPeriodic(id, n) == ArmFor(id, n, n)

Disarm(id) ==
  /\ MayCall(id)
  /\ Armed(id)
  /\ armed' = Others(id)
  /\ due' = due \ {id}
  /\ UNCHANGED <<charging, calling, pending>>

Charge(d) ==
  /\ charging = 0
  /\ charging' = d
  /\ armed' = {[t EXCEPT !.left = @ - d] : t \in armed}
  /\ due' = {t.id : t \in {u \in armed : u.left <= d}}
  /\ UNCHANGED <<calling, pending>>

\* Serve one due timer: set its event or enter its callback, and re-arm it for
\* a full period if it has one.
Serve(t) ==
  /\ t \in armed /\ t.id \in due
  /\ calling = NoTimer
  /\ armed' = Others(t.id) \cup
              {u \in {[t EXCEPT !.left = t.period]} : t.period # 0}
  /\ due' = due \ {t.id}
  /\ \/ /\ t.id \in EventTimers
        /\ pending' = [pending EXCEPT ![t.id[1]] = @ \cup {t.id[2]}]
        /\ UNCHANGED calling
     \/ /\ t.id \in Callbacks
        /\ calling' = t.id
        /\ UNCHANGED pending
  /\ UNCHANGED charging

CallbackDone ==
  /\ calling # NoTimer
  /\ calling' = NoTimer
  /\ UNCHANGED <<armed, due, charging, pending>>

\* The update may end only when everything that was due has been served.
Settle ==
  /\ charging # 0 /\ calling = NoTimer /\ due = {}
  /\ charging' = 0
  /\ UNCHANGED <<armed, due, calling, pending>>

TakePending(k) ==
  /\ charging = 0
  /\ pending[k] # {}
  /\ pending' = [pending EXCEPT ![k] = {}]
  /\ UNCHANGED <<armed, due, charging, calling>>

Next ==
  \/ \E id \in Timers, n \in Timeouts : Arm(id, n) \/ ArmPeriodic(id, n)
  \/ \E id \in Timers : Disarm(id)
  \/ \E d \in Elapsed : Charge(d)
  \/ \E t \in armed : Serve(t)
  \/ CallbackDone
  \/ Settle
  \/ \E k \in Tasks : TakePending(k)

Spec == Init /\ [][Next]_vars
=============================================================================
