----------------------------- MODULE OsalTimers -----------------------------
(***************************************************************************)
(* The timer table of Components/osal/common/OSAL_Timers2.c, the array     *)
(* implementation every build of this repository links in place of         *)
(* OSAL_Timers.c.                                                          *)
(*                                                                         *)
(* A timer is identified by what it does when it expires: it sets one      *)
(* event of one task (an element of Tasks \X Events) or it calls a         *)
(* callback.  A slot is free in the code when eventFlag = 0 and callback = *)
(* NULL; here when its id is NoTimer.                                      *)
(*                                                                         *)
(* osalTimerUpdate walks the table one slot at a time.  It tests whether   *)
(* the slot is free with interrupts enabled, charges it in a critical      *)
(* section, and leaves the critical section to call a callback, so its     *)
(* steps are separate actions here; the start and stop functions are       *)
(* single critical sections.                                               *)
(***************************************************************************)
EXTENDS Integers

CONSTANTS MaxElements,  \* MAXELEMENTS, the number of slots
          Tasks,        \* task ids
          Events,       \* event flags
          Callbacks,    \* addresses of void f(void) functions
          IsrTimers,    \* timers that interrupt handlers start
          NoTimer,      \* the id of a free slot; also "no callback running"
          Timeouts,     \* timeout_value arguments, in milliseconds
          Elapsed,      \* updateTime arguments of osalTimerUpdate
          ClockSize     \* the range of osal_systemClock, 2^32 in the code

EventTimers == Tasks \X Events
Timers == EventTimers \cup Callbacks

ASSUME SlotsAssumption == MaxElements \in Nat \ {0}
ASSUME TimeAssumption ==
  /\ Timeouts \subseteq Nat
  /\ Elapsed \subseteq Nat \ {0}
  /\ ClockSize \in Nat \ {0}
ASSUME IdAssumption ==
  /\ NoTimer \notin Timers
  /\ Callbacks \cap EventTimers = {}
  /\ IsrTimers \subseteq EventTimers

VARIABLES timerRec,         \* the table: slot number -> timer record
          osal_systemClock, \* milliseconds, modulo ClockSize
          tasksEvents,      \* events set and not yet taken, by task
          pc,               \* where osalTimerUpdate is
          iter,             \* the slot it is at
          updateTime,       \* its argument, 0 when it is not running
          callback          \* the callback it is running, or NoTimer

vars == <<timerRec, osal_systemClock, tasksEvents, pc, iter, updateTime,
          callback>>
passVars == <<osal_systemClock, pc, iter, updateTime, callback>>

Slots == 1 .. MaxElements

TimerRec == [id : Timers \cup {NoTimer}, timeout : Nat, reloadTimeout : Nat]

ActiveSlots == {i \in Slots : timerRec[i].id # NoTimer}
FreeSlots == {i \in Slots : timerRec[i].id = NoTimer}
SlotsOf(id) == {i \in Slots : timerRec[i].id = id}
First(S) == CHOOSE i \in S : \A j \in S : i <= j

Init ==
  /\ timerRec = [i \in Slots |->
                   [id |-> NoTimer, timeout |-> 0, reloadTimeout |-> 0]]
  /\ osal_systemClock = 0
  /\ tasksEvents = [t \in Tasks |-> {}]
  /\ pc = "idle" /\ iter = 1 /\ updateTime = 0 /\ callback = NoTimer

-----------------------------------------------------------------------------
(* The interface.  Task code runs between two updates, a callback inside   *)
(* one, and an interrupt handler outside every critical section.           *)

MayCall(id) == pc \in {"idle", "callback"} \/ id \in IsrTimers

\* The slot osalAddTimer uses: the first that holds the timer, else the first
\* free one; there is none when the timer is not running and the table is full.
HasSlot(id) == SlotsOf(id) \cup FreeSlots # {}
SlotForWithoutSearch(id) == \* mutant: no search for the timer first
  IF FreeSlots # {} THEN First(FreeSlots) ELSE First(SlotsOf(id))
SlotFor(id) == IF SlotsOf(id) # {} THEN First(SlotsOf(id)) ELSE First(FreeSlots)

\* osal_start_timerEx, osal_start_timerEx_cb: a timer that is already in the
\* table gets the new timeout and keeps its reloadTimeout.
Start(id, n) ==
  /\ MayCall(id)
  /\ HasSlot(id)
  /\ LET period == IF SlotsOf(id) # {} THEN timerRec[SlotFor(id)].reloadTimeout
                   ELSE 0
     IN timerRec' = [timerRec EXCEPT ![SlotFor(id)] =
                       [id |-> id, timeout |-> n, reloadTimeout |-> period]]
  /\ UNCHANGED <<tasksEvents, passVars>>

\* osal_start_reload_timer, osal_start_reload_timer_cb.
StartReload(id, n) ==
  /\ MayCall(id)
  /\ HasSlot(id)
  /\ timerRec' = [timerRec EXCEPT ![SlotFor(id)] =
                    [id |-> id, timeout |-> n, reloadTimeout |-> n]]
  /\ UNCHANGED <<tasksEvents, passVars>>

\* Any of the four, answering NO_TIMER_AVAIL.
StartRefused(id) ==
  /\ MayCall(id)
  /\ ~ HasSlot(id)
  /\ UNCHANGED vars

\* osal_stop_timerEx frees the first slot that holds the timer.
StopEvent(id) ==
  /\ MayCall(id)
  /\ id \in EventTimers
  /\ SlotsOf(id) # {}
  /\ timerRec' = [timerRec EXCEPT ![First(SlotsOf(id))].id = NoTimer]
  /\ UNCHANGED <<tasksEvents, passVars>>

\* osal_stop_timerEx_cb frees every slot that holds the callback.
StopCallback(id) ==
  /\ MayCall(id)
  /\ id \in Callbacks
  /\ SlotsOf(id) # {}
  /\ timerRec' = [i \in Slots |->
                    IF timerRec[i].id = id
                    THEN [timerRec[i] EXCEPT !.id = NoTimer] ELSE timerRec[i]]
  /\ UNCHANGED <<tasksEvents, passVars>>

-----------------------------------------------------------------------------
(* osalTimerUpdate.                                                        *)

BeginUpdate(d) ==
  /\ pc = "idle"
  /\ osal_systemClock' = (osal_systemClock + d) % ClockSize
  /\ pc' = "scan" /\ iter' = 1 /\ updateTime' = d
  /\ UNCHANGED <<timerRec, tasksEvents, callback>>

\* The test of line 443, outside the critical section.
SkipFree ==
  /\ pc = "scan" /\ iter \in FreeSlots
  /\ iter' = iter + 1
  /\ UNCHANGED <<timerRec, osal_systemClock, tasksEvents, pc, updateTime,
                 callback>>

SeeActive ==
  /\ pc = "scan" /\ iter \in ActiveSlots
  /\ pc' = "charge"
  /\ UNCHANGED <<timerRec, osal_systemClock, tasksEvents, iter, updateTime,
                 callback>>

\* mutant: the slot is charged without a test of what is left
ChargeAnySlot ==
  /\ pc = "charge"
  /\ timerRec' = [timerRec EXCEPT ![iter].timeout = @ - updateTime]
  /\ pc' = "scan" /\ iter' = iter + 1
  /\ UNCHANGED <<osal_systemClock, tasksEvents, updateTime, callback>>

\* The critical section: a slot with time left is only charged.
ChargeSlot ==
  /\ pc = "charge"
  /\ timerRec[iter].timeout > updateTime
  /\ timerRec' = [timerRec EXCEPT ![iter].timeout = @ - updateTime]
  /\ pc' = "scan" /\ iter' = iter + 1
  /\ UNCHANGED <<osal_systemClock, tasksEvents, updateTime, callback>>

\* The record an expired timer leaves behind: reloaded, or free.
Expired(rec) ==
  IF rec.reloadTimeout # 0
  THEN [rec EXCEPT !.timeout = rec.reloadTimeout]
  ELSE [rec EXCEPT !.id = NoTimer, !.timeout = 0]

\* osal_set_event; event flag 0 of a slot freed since the test sets nothing.
SetEvent(id) ==
  [t \in Tasks |-> tasksEvents[t] \cup {e \in Events : <<t, e>> = id}]

ExpireEvent ==
  /\ pc = "charge"
  /\ timerRec[iter].timeout <= updateTime
  /\ timerRec[iter].id \notin Callbacks
  /\ tasksEvents' = SetEvent(timerRec[iter].id)
  /\ timerRec' = [timerRec EXCEPT ![iter] = Expired(@)]
  /\ pc' = "scan" /\ iter' = iter + 1
  /\ UNCHANGED <<osal_systemClock, updateTime, callback>>

ExpireCallback ==
  /\ pc = "charge"
  /\ timerRec[iter].timeout <= updateTime
  /\ timerRec[iter].id \in Callbacks
  /\ timerRec' = [timerRec EXCEPT ![iter] = Expired(@)]
  /\ pc' = "callback" /\ callback' = timerRec[iter].id
  /\ UNCHANGED <<osal_systemClock, tasksEvents, iter, updateTime>>

\* mutant: the slot is visited again after its callback
CallbackReturnsToSlot ==
  /\ pc = "callback"
  /\ pc' = "scan" /\ callback' = NoTimer
  /\ UNCHANGED <<timerRec, osal_systemClock, tasksEvents, iter, updateTime>>

\* mutant: the walk starts over after a callback
CallbackRestartsWalk ==
  /\ pc = "callback"
  /\ pc' = "scan" /\ callback' = NoTimer /\ iter' = 1
  /\ UNCHANGED <<timerRec, osal_systemClock, tasksEvents, updateTime>>

\* The callback returns; until then its own calls are the interface actions.
CallbackReturns ==
  /\ pc = "callback"
  /\ pc' = "scan" /\ callback' = NoTimer /\ iter' = iter + 1
  /\ UNCHANGED <<timerRec, osal_systemClock, tasksEvents, updateTime>>

EndUpdate ==
  /\ pc = "scan" /\ iter = MaxElements + 1
  /\ pc' = "idle" /\ iter' = 1 /\ updateTime' = 0
  /\ UNCHANGED <<timerRec, osal_systemClock, tasksEvents, callback>>

\* osal_run_system takes all the events of a task (OsalTasks has the order).
TakeEvents(t) ==
  /\ pc = "idle"
  /\ tasksEvents[t] # {}
  /\ tasksEvents' = [tasksEvents EXCEPT ![t] = {}]
  /\ UNCHANGED <<timerRec, passVars>>

Pass == \/ SkipFree \/ SeeActive \/ ChargeSlot \/ ExpireEvent
        \/ ExpireCallback \/ CallbackReturns \/ EndUpdate

Next ==
  \/ \E id \in Timers, n \in Timeouts : Start(id, n) \/ StartReload(id, n)
  \/ \E id \in Timers : StartRefused(id) \/ StopEvent(id) \/ StopCallback(id)
  \/ \E d \in Elapsed : BeginUpdate(d)
  \/ Pass
  \/ \E t \in Tasks : TakeEvents(t)

Spec == Init /\ [][Next]_vars

\* The update is plain straight-line code: once begun it keeps going, and the
\* callbacks of this repository return.
FairSpec == Spec /\ WF_vars(Pass)

-----------------------------------------------------------------------------
(* Properties.                                                             *)

TypeOK ==
  /\ timerRec \in [Slots -> TimerRec]
  /\ osal_systemClock \in 0 .. ClockSize - 1
  /\ tasksEvents \in [Tasks -> SUBSET Events]
  /\ pc \in {"idle", "scan", "charge", "callback"}
  /\ iter \in 1 .. MaxElements + 1
  /\ updateTime \in Nat
  /\ callback \in Callbacks \cup {NoTimer}

\* Where the update is and what it holds agree: it has a time to charge exactly
\* while it runs, a callback exactly while it calls one, and a slot of the
\* table at each of its critical sections.
PassOK ==
  /\ (pc = "idle") <=> (updateTime = 0)
  /\ (pc = "callback") <=> (callback # NoTimer)
  /\ pc \in {"charge", "callback"} => iter \in Slots

\* No timer ever holds two slots, whatever callbacks and interrupt handlers
\* start while the table is walked: a second slot would fire twice, and
\* osal_stop_timerEx would cancel only the first.
UniqueTimers ==
  \A i, j \in ActiveSlots : timerRec[i].id = timerRec[j].id => i = j

\* The slots the running update has still to charge.
Uncharged ==
  CASE pc \in {"scan", "charge"} -> {i \in Slots : i >= iter}
    [] pc = "callback" -> {i \in Slots : i > iter}
    [] OTHER -> {}

\* What is left of slot i's time, as of the clock.
Left(i) ==
  timerRec[i].timeout - (IF i \in Uncharged THEN updateTime ELSE 0)

Armed == {[id |-> timerRec[i].id, left |-> Left(i),
           period |-> timerRec[i].reloadTimeout] : i \in ActiveSlots}

Due == {timerRec[i].id : i \in {j \in ActiveSlots \cap Uncharged : Left(j) <= 0}}

\* An update that has begun ends, whatever its callbacks start: a callback
\* that re-arms itself ahead of the walk cannot keep it going.
UpdateEnds == pc # "idle" ~> pc = "idle"

Service == INSTANCE TimerService WITH
             Capacity <- MaxElements,
             armed <- Armed,
             due <- Due,
             charging <- updateTime,
             calling <- callback,
             pending <- tasksEvents

\* The table implements the timer service: a timer expires exactly once per
\* period, in the first update that exhausts its time, and no operation on one
\* timer disturbs another.
ImplementsService == Service!Spec
=============================================================================
