-------------------------- MODULE OsalPower_proofs --------------------------
(***************************************************************************)
(* The processor is never stopped while a task has an event, whichever     *)
(* hal_sleep.c the board has and whatever the timeouts are; and the one of *)
(* CC2530PMP4712 never lets the loop run with the radio off.  No sleep     *)
(* lasts longer than the next timer, for all timeouts: the conversions     *)
(* between milliseconds, ticks and the periods of the sleep timer round in *)
(* favour of the timer by more than they lose.                             *)
(***************************************************************************)
EXTENDS OsalPower, WellFoundedInduction, TLAPS

\* From the scan on, an event that is set has cleared halSleepPconValue, also
\* when task 0 runs inside halSleep; once the sleep is prepared, the interrupts
\* that are left set no event.
Cancelled ==
  /\ pc \in {"conserve", "sleep", "mac", "off"} /\ halSleepPconValue => ready = {}
  /\ pc \in {"armed", "asleep"} => ready = {}

LEMMA CancelledInit == Init => Cancelled
BY DEF Init, Cancelled

LEMMA CancelledNext == Cancelled /\ [Next]_vars => Cancelled'
<1> SUFFICES ASSUME Cancelled, [Next]_vars PROVE Cancelled'
  OBVIOUS
<1> USE DEF Cancelled
<1>1. CASE osalTimeUpdate
  BY <1>1 DEF osalTimeUpdate
<1>2. CASE Hal_ProcessPoll
  BY <1>2 DEF Hal_ProcessPoll
<1>3. CASE Scan
  BY <1>3 DEF Scan
<1>4. CASE Run
  BY <1>4 DEF Run, RunMac, RunApp, RunAppStart, RunAppStop, RunAppPower, EndTurn
<1>5. CASE osal_pwrmgr_powerconserve
  BY <1>5 DEF osal_pwrmgr_powerconserve
<1>6. CASE Sleep
  <2>1. ASSUME NEW mac \in MacTimeouts, EnterSleep(mac) PROVE Cancelled'
    BY <2>1 DEF EnterSleep
  <2>2. ASSUME NEW posted \in SUBSET Tasks, NEW agreed \in BOOLEAN,
               RunMacTask(posted, agreed)
        PROVE  Cancelled'
    \* The MAC task had an event, so the sleep was cancelled already.
    <3>1. MAC \in ready => ~ halSleepPconValue
      BY <2>2 DEF RunMacTask
    <3>2. QED
      BY <2>2, <3>1 DEF RunMacTask, HandlerLeaves
  <2>3. CASE SkipMacTask
    BY <2>3 DEF SkipMacTask
  <2>4. CASE PowerOff
    BY <2>4 DEF PowerOff
  <2>5. CASE StayAwake \/ PowerOn
    BY <2>5 DEF StayAwake, PowerOn, EndTurn
  <2>6. CASE halSetSleepMode
    BY <2>6 DEF halSetSleepMode
  <2>7. QED
    BY <1>6, <2>1, <2>2, <2>3, <2>4, <2>5, <2>6 DEF Sleep
<1>7. CASE MacIsr
  BY <1>7 DEF MacIsr, loopVars
<1>8. CASE PortIsr \/ halSleepTimerIsr
  BY <1>8 DEF PortIsr, halSleepTimerIsr, Woken
<1>9. CASE Tick
  BY <1>9 DEF Tick
<1>10. CASE UNCHANGED vars
  BY <1>10 DEF vars, loopVars
<1>11. QED
  BY <1>1, <1>2, <1>3, <1>4, <1>5, <1>6, <1>7, <1>8, <1>9, <1>10 DEF Next, Loop

\* The processor stops only when no task has an event: an event that an
\* interrupt sets before the stop, or that task 0 posts inside halSleep of
\* CC2530EB, always finds the sleep cancelled.
THEOREM StopsOnlyIdle == Spec => []SleepsOnlyIdle
<1>1. Cancelled => SleepsOnlyIdle
  BY DEF Cancelled, SleepsOnlyIdle
<1>2. QED
  BY <1>1, CancelledInit, CancelledNext, PTL DEF Spec

\* The MAC's radio is off only from PowerOff to PowerOn, which osal_run_system does
\* not see.
RadioOffAsleep ==
  board = "CC2530PMP4712" =>
    (pc \in {"update", "poll", "scan", "run", "conserve", "sleep", "mac", "off"} => radio)

LEMMA RadioOffAsleepNext == RadioOffAsleep /\ [Next]_vars => RadioOffAsleep'
<1> SUFFICES ASSUME RadioOffAsleep, [Next]_vars, board = "CC2530PMP4712",
                    pc' \in {"update", "poll", "scan", "run", "conserve", "sleep", "mac", "off"}
             PROVE  radio'
  BY DEF RadioOffAsleep, Next, vars
<1> USE DEF RadioOffAsleep
<1>1. CASE osalTimeUpdate
  BY <1>1 DEF osalTimeUpdate
<1>2. CASE Hal_ProcessPoll \/ Scan
  BY <1>2 DEF Hal_ProcessPoll, Scan
<1>3. CASE Run
  BY <1>3 DEF Run, RunMac, RunApp, RunAppStart, RunAppStop, RunAppPower
<1>4. CASE osal_pwrmgr_powerconserve
  BY <1>4 DEF osal_pwrmgr_powerconserve
<1>5. CASE Sleep
  <2>1. ASSUME NEW mac \in MacTimeouts, EnterSleep(mac) PROVE radio'
    BY <2>1 DEF EnterSleep
  <2>2. ASSUME NEW posted \in SUBSET Tasks, NEW agreed \in BOOLEAN,
               RunMacTask(posted, agreed)
        PROVE  radio'
    \* The board does not run task 0 in halSleep.
    BY <2>2 DEF RunMacTask, MacTurn
  <2>3. CASE SkipMacTask
    BY <2>3 DEF SkipMacTask
  <2>4. CASE PowerOff \/ halSetSleepMode
    BY <2>4 DEF PowerOff, halSetSleepMode
  <2>5. CASE StayAwake
    BY <2>5 DEF StayAwake
  <2>6. CASE PowerOn
    BY <2>6 DEF PowerOn
  <2>7. QED
    BY <1>5, <2>1, <2>2, <2>3, <2>4, <2>5, <2>6 DEF Sleep
<1>6. CASE MacIsr
  BY <1>6 DEF MacIsr, loopVars
<1>7. CASE PortIsr \/ halSleepTimerIsr
  BY <1>7 DEF PortIsr, halSleepTimerIsr, Woken
<1>8. CASE Tick
  BY <1>8 DEF Tick
<1>9. CASE UNCHANGED vars
  BY <1>9 DEF vars, loopVars
<1>10. QED
  BY <1>1, <1>2, <1>3, <1>4, <1>5, <1>6, <1>7, <1>8, <1>9 DEF Next, Loop

\* On the board that does not run task 0 inside halSleep the loop always runs with
\* the radio on, whichever interrupt cancels a sleep and at whatever moment.
THEOREM RadioOn == Spec => []RadioOnWithoutMacTask
<1>1. Init => RadioOffAsleep
  BY DEF Init, RadioOffAsleep
<1>2. RadioOffAsleep => RadioOnWithoutMacTask
  BY DEF RadioOffAsleep, RadioOnWithoutMacTask, RadioOnInLoop
<1>3. QED
  BY <1>1, <1>2, RadioOffAsleepNext, PTL DEF Spec

-----------------------------------------------------------------------------
(* Time.                                                                   *)

\* HAL_SLEEP_MS_TO_320US rounds up, by less than a tick.
LEMMA ToTicksBounds ==
  ASSUME NEW ms \in Nat \ {0}
  PROVE  ToTicks(ms) \in Nat \ {0} /\ 8 * ToTicks(ms) <= 25 * ms + 8
BY SMT DEF ToTicks

\* halSleepSetTimer wakes the processor at least a tick early.
LEMMA WakeTicksBounds ==
  ASSUME NEW n \in Nat, n >= 3
  PROVE  WakeTicks(n) \in Nat /\ WakeTicks(n) <= n - 1
<1> DEFINE periods == (n * 671) \div 64
           scaled  == ((periods - HAL_SLEEP_ADJ_TICKS) * 3125) \div 32768
<1>1. periods \in Nat /\ periods >= 31 /\ 64 * periods <= 671 * n
  BY SMT
<1> HIDE DEF periods
<1>2. scaled \in Nat /\ 32768 * scaled <= (periods - 23) * 3125
  BY <1>1, SMT DEF HAL_SLEEP_ADJ_TICKS
<1> HIDE DEF scaled
<1>3. scaled <= n - 2
  BY <1>1, <1>2, SMT
<1>4. WakeTicks(n) = scaled + 1
  BY DEF WakeTicks, scaled, periods
<1> QED
  BY <1>2, <1>3, <1>4

\* osal_next_timeout is not 0 and not later than any timer that runs.
LEMMA NextTimeoutLeast ==
  ASSUME timeout \in [Timers -> Nat \cup {Off}], \A t \in Running : timeout[t] > 0
  PROVE  /\ osal_next_timeout \in Nat \ {0}
         /\ \A t \in Running : osal_next_timeout <= timeout[t]
<1> DEFINE lefts == {timeout[t] : t \in Running} \cup {OSAL_TIMERS_MAX_TIMEOUT}
<1>1. lefts \in SUBSET (Nat \ {0}) /\ lefts # {}
  BY TimeAssumption DEF Running
<1>2. \A t \in Running : timeout[t] \in lefts
  OBVIOUS
<1>3. osal_next_timeout = CHOOSE n \in lefts : \A m \in lefts : n <= m
  BY DEF osal_next_timeout
<1> HIDE DEF lefts
<1>4. \E n \in lefts : \A m \in lefts : n <= m
  <2>1. PICK n \in lefts : \A m \in lefts : ~ (<<m, n>> \in OpToRel(<, Nat))
    BY <1>1, NatLessThanWellFounded, WFMin
  <2>2. \A m \in lefts : ~ (m < n)
    BY <1>1, <2>1, Zenon DEF OpToRel
  <2> QED
    BY <1>1, <2>2
<1>5. osal_next_timeout \in lefts /\ \A m \in lefts : osal_next_timeout <= m
  BY <1>3, <1>4
<1> QED
  BY <1>1, <1>2, <1>5

\* What each part of the loop knows of the timers.
TimeInv ==
  /\ TypeOK
  /\ \A t \in Running : timeout[t] > 0
  /\ NeverOversleeps
  /\ pc \in {"poll", "scan", "run", "conserve", "sleep", "mac", "off"} => ticks <= MaxBusy
  /\ pc = "sleep" => next > 0 /\ \A t \in Running : next <= timeout[t]
  /\ pc \in {"mac", "off"} =>
       next >= 3 /\ \A t \in Running : 8 * next <= 25 * timeout[t] + 8
  /\ pc \in {"armed", "asleep"} /\ wake # Off =>
       \A t \in Running :
         (ticks + wake) * 8 + remUsTicks <= timeout[t] * 25 + 8 * MaxBusy + 24

LEMMA TimeInvInit == Init => TimeInv
<1> SUFFICES ASSUME Init PROVE TimeInv
  OBVIOUS
<1>1. TypeOK
  <2>1. timeout \in [Timers -> Nat \cup {Off}]
    BY DEF Init
  <2>2. board \in Boards
    BY DEF Init
  <2>3. 0 \in 0 .. MacTaskTries
    BY BoardAssumption
  <2>4. halSleepPconValue \in BOOLEAN /\ battery \in BOOLEAN /\ radio \in BOOLEAN
    BY Zenon DEF Init
  <2>5. /\ ready = {} /\ holds = {} /\ ticks = 0 /\ remUsTicks = 0
        /\ pc = "update" /\ next = 0 /\ tries = 0 /\ wake = Off
    BY DEF Init
  <2> QED
    BY <2>1, <2>2, <2>3, <2>4, <2>5 DEF TypeOK
<1>2. Running = {} /\ pc = "update"
  BY DEF Init, Running
<1> QED
  BY <1>1, <1>2 DEF TimeInv, NeverOversleeps

\* The other parts of TimeInv follow from its type and these.
LEMMA TimeUpdateKeeps ==
  ASSUME TimeInv, osalTimeUpdate, UNCHANGED board PROVE TimeInv'
<1> USE TimeAssumption, BoardAssumption
<1>1. CASE ticks < TIMER_CLOCK_UPDATE
  <2>1. ticks <= MaxBusy /\ UNCHANGED <<timeout, ready, ticks, remUsTicks>>
    BY <1>1 DEF TimeInv, TypeOK, osalTimeUpdate, TIMER_CLOCK_UPDATE
  <2> QED
    BY <2>1 DEF osalTimeUpdate, TimeInv, TypeOK, NeverOversleeps, Running, powerVars
<1>2. CASE ~ (ticks < TIMER_CLOCK_UPDATE)
  <2> DEFINE us40 == ticks * 8 + remUsTicks
             elapsed == us40 \div 25
  <2>1. us40 \in Nat
    BY DEF TimeInv, TypeOK
  <2>2. /\ remUsTicks' = us40 % 25 /\ ticks' = 0
        /\ timeout' = [t \in Timers |-> IF t \in Running \ Expired(elapsed)
                                        THEN timeout[t] - elapsed ELSE Off]
        /\ ready' = ready \cup {App : t \in Expired(elapsed)}
        /\ pc' = "poll"
        /\ UNCHANGED <<halSleepPconValue, holds, battery, radio, next, tries, wake>>
    BY <1>2 DEF osalTimeUpdate, powerVars
  <2> HIDE DEF us40
  <2>3. elapsed \in Nat /\ us40 % 25 \in 0 .. 24
    BY <2>1
  <2> HIDE DEF elapsed
  <2>4. ASSUME NEW t \in Timers, t \in Running, t \notin Expired(elapsed)
        PROVE  timeout[t] - elapsed \in Nat /\ timeout[t] - elapsed > 0
    BY <2>3, <2>4 DEF TimeInv, TypeOK, Running, Expired
  <2>5. /\ timeout' \in [Timers -> Nat \cup {Off}]
        /\ \A t \in Timers : timeout'[t] # Off => timeout'[t] > 0
    BY <2>2, <2>4
  <2>6. TypeOK'
    BY <2>2, <2>3, <2>5 DEF TimeInv, TypeOK, Tasks
  <2>7. NeverOversleeps'
    BY <2>2, <2>3, <2>5 DEF NeverOversleeps, Running
  <2> QED
    BY <2>2, <2>5, <2>6, <2>7 DEF TimeInv, Running
<1> QED
  BY <1>1, <1>2

LEMMA RunKeeps ==
  ASSUME TimeInv, Run, UNCHANGED board PROVE TimeInv'
<1> USE TimeAssumption, BoardAssumption DEF TimeInv, TypeOK, NeverOversleeps, Running, EndTurn
<1> PICK posted \in SUBSET Tasks :
      \/ RunMac(posted)
      \/ \E t \in Timers, n \in Timeouts : RunAppStart(posted, t, n)
      \/ \E t \in Timers : RunAppStop(posted, t)
      \/ \E hold \in SUBSET {App}, supply \in BOOLEAN : RunAppPower(posted, hold, supply)
  BY DEF Run
<1>1. CASE RunMac(posted)
  BY <1>1 DEF RunMac, HandlerLeaves, powerVars, timeVars
<1>2. ASSUME NEW t \in Timers, NEW n \in Timeouts, RunAppStart(posted, t, n)
      PROVE  TimeInv'
  BY <1>2 DEF RunAppStart, RunApp, HandlerLeaves, timeVars, Tasks
<1>3. ASSUME NEW t \in Timers, RunAppStop(posted, t)
      PROVE  TimeInv'
  BY <1>3 DEF RunAppStop, RunApp, HandlerLeaves, timeVars, Tasks
<1>4. ASSUME NEW hold \in SUBSET {App}, NEW supply \in BOOLEAN,
             RunAppPower(posted, hold, supply)
      PROVE  TimeInv'
  BY <1>4 DEF RunAppPower, RunApp, HandlerLeaves, timeVars, Tasks
<1> QED
  BY <1>1, <1>2, <1>3, <1>4

\* The time that halSleep takes for its sleep is the next timer's, or less.
LEMMA EnterSleepKeeps ==
  ASSUME TimeInv, NEW mac \in MacTimeouts, EnterSleep(mac), UNCHANGED board
  PROVE  TimeInv'
<1> USE TimeAssumption, BoardAssumption
<1> DEFINE n == Sooner(ToTicks(next), mac)
<1>1. /\ next \in Nat \ {0} /\ mac \in Nat
      /\ \A t \in Running : next <= timeout[t] /\ timeout[t] \in Nat
  BY DEF EnterSleep, TimeInv, TypeOK, Running
<1>2. /\ ToTicks(next) \in Nat \ {0} /\ 8 * ToTicks(next) <= 25 * next + 8
  BY <1>1, ToTicksBounds
<1>3. n \in Nat \ {0} /\ n <= ToTicks(next)
  BY <1>1, <1>2 DEF Sooner
<1>4. ToTicks(PM_MIN_SLEEP_TIME) = 7
  BY SMT DEF ToTicks, PM_MIN_SLEEP_TIME
<1>5. /\ IF WorthSleeping(n) THEN pc' = "mac" /\ next' = n ELSE pc' = "update" /\ next' = 0
      /\ UNCHANGED <<timeout, ready, halSleepPconValue, holds, battery, ticks, remUsTicks,
                     radio, tries, wake>>
  BY DEF EnterSleep, powerVars, timeVars
<1>6. WorthSleeping(n) => n >= 3
  BY <1>3, <1>4 DEF WorthSleeping
<1> HIDE DEF n
<1>7. \A t \in Running : 8 * n <= 25 * timeout[t] + 8
  BY <1>1, <1>2, <1>3
<1>8. CASE WorthSleeping(n)
  BY <1>3, <1>5, <1>6, <1>7, <1>8 DEF EnterSleep, TimeInv, TypeOK, NeverOversleeps, Running
<1>9. CASE ~ WorthSleeping(n)
  BY <1>5, <1>9 DEF TimeInv, TypeOK, NeverOversleeps, Running
<1> QED
  BY <1>8, <1>9

\* The sleep timer is set to fire before the next timer is due.
LEMMA PowerOffKeeps ==
  ASSUME TimeInv, PowerOff, UNCHANGED board PROVE TimeInv'
<1> USE TimeAssumption, BoardAssumption
<1> DEFINE n == IF next > maxSleepLoopTime THEN maxSleepLoopTime ELSE next
<1>1. n \in Nat /\ n >= 3 /\ n <= next /\ next \in Nat
  BY DEF PowerOff, TimeInv, TypeOK
<1>2. /\ next' = n /\ wake' = IF n = 0 THEN Off ELSE WakeTicks(n)
      /\ pc = "off" /\ pc' = "armed"
      /\ halSleepPconValue' = TRUE /\ radio' = FALSE
      /\ UNCHANGED <<timeout, ready, holds, battery, ticks, remUsTicks, tries>>
  BY DEF PowerOff, powerVars, timeVars
<1> HIDE DEF n
<1>3. wake' \in Nat /\ wake' <= n - 1
  BY <1>1, <1>2, WakeTicksBounds
<1>4. ASSUME NEW t \in Running
      PROVE  (ticks + wake') * 8 + remUsTicks <= timeout[t] * 25 + 8 * MaxBusy + 24
  BY <1>1, <1>2, <1>3 DEF TimeInv, TypeOK, Running
<1> QED
  BY <1>1, <1>2, <1>3, <1>4 DEF TimeInv, TypeOK, NeverOversleeps, Running

LEMMA SleepKeeps ==
  ASSUME TimeInv, Sleep, UNCHANGED board PROVE TimeInv'
<1> USE TimeAssumption, BoardAssumption
<1>1. ASSUME NEW mac \in MacTimeouts, EnterSleep(mac) PROVE TimeInv'
  BY <1>1, EnterSleepKeeps
<1>2. ASSUME NEW posted \in SUBSET Tasks, NEW agreed \in BOOLEAN,
             RunMacTask(posted, agreed)
      PROVE  TimeInv'
  <2>1. pc = "mac" /\ tries < MacTaskTries
    BY <1>2 DEF RunMacTask, MacTurn
  <2>2. ready' \in SUBSET Tasks /\ pc' \in {"mac", "off"} /\ radio' \in BOOLEAN
    BY <1>2 DEF RunMacTask, HandlerLeaves, TimeInv, TypeOK
  <2>3. tries' \in 0 .. MacTaskTries
    BY <1>2, <2>1 DEF RunMacTask, TimeInv, TypeOK
  <2>4. UNCHANGED <<timeout, halSleepPconValue, holds, battery, ticks, remUsTicks, next,
                    wake>>
    BY <1>2 DEF RunMacTask, powerVars, timeVars
  <2> QED
    BY <2>1, <2>2, <2>3, <2>4 DEF TimeInv, TypeOK, NeverOversleeps, Running
<1>3. CASE SkipMacTask
  BY <1>3 DEF SkipMacTask, powerVars, timeVars, TimeInv, TypeOK, NeverOversleeps, Running
<1>4. CASE PowerOff
  BY <1>4, PowerOffKeeps
<1>5. CASE StayAwake
  BY <1>5 DEF StayAwake, EndTurn, powerVars, timeVars, TimeInv, TypeOK, NeverOversleeps,
              Running
<1>6. CASE halSetSleepMode
  BY <1>6 DEF halSetSleepMode, powerVars, timeVars, TimeInv, TypeOK, NeverOversleeps,
              Running
<1>7. CASE PowerOn
  BY <1>7 DEF PowerOn, EndTurn, powerVars, timeVars, TimeInv, TypeOK, NeverOversleeps,
              Running
<1> QED
  BY <1>1, <1>2, <1>3, <1>4, <1>5, <1>6, <1>7 DEF Sleep

LEMMA TickKeeps ==
  ASSUME TimeInv, Tick, UNCHANGED board PROVE TimeInv'
<1> USE TimeAssumption, BoardAssumption
<1>1. /\ ticks' = ticks + 1
      /\ wake' = IF wake \in {Off, 0} THEN wake ELSE wake - 1
      /\ UNCHANGED <<timeout, ready, halSleepPconValue, holds, battery, remUsTicks, radio,
                     pc, next, tries>>
  BY DEF Tick, powerVars
<1>2. TypeOK'
  BY <1>1 DEF TimeInv, TypeOK
\* Asleep, the sleep timer counts down as the ticks count up.
<1>3. CASE pc = "asleep"
  BY <1>1, <1>2, <1>3 DEF Tick, TimeInv, TypeOK, NeverOversleeps, Running
<1>4. CASE pc # "asleep"
  <2>1. ticks' <= MaxBusy
    BY <1>1, <1>4 DEF Tick, TimeInv, TypeOK
  <2>2. ASSUME NEW t \in Running, wake # Off, pc = "armed"
        PROVE  (ticks' + wake') * 8 + remUsTicks <= timeout[t] * 25 + 8 * MaxBusy + 24
    BY <1>1, <2>1, <2>2 DEF TimeInv, TypeOK, Running
  <2> QED
    BY <1>1, <1>2, <1>4, <2>1, <2>2 DEF TimeInv, TypeOK, NeverOversleeps, Running
<1> QED
  BY <1>3, <1>4

LEMMA TimeInvNext == TimeInv /\ [Next]_vars => TimeInv'
<1> SUFFICES ASSUME TimeInv, [Next]_vars PROVE TimeInv'
  OBVIOUS
<1> USE TimeAssumption, BoardAssumption
<1>1. CASE osalTimeUpdate /\ UNCHANGED board
  BY <1>1, TimeUpdateKeeps
<1>2. CASE (Hal_ProcessPoll \/ Scan) /\ UNCHANGED board
  BY <1>2 DEF Hal_ProcessPoll, Scan, powerVars, timeVars, TimeInv, TypeOK,
              NeverOversleeps, Running
<1>3. CASE Run /\ UNCHANGED board
  BY <1>3, RunKeeps
<1>4. CASE osal_pwrmgr_powerconserve /\ UNCHANGED board
  <2>1. /\ osal_next_timeout \in Nat \ {0}
        /\ \A t \in Running : osal_next_timeout <= timeout[t]
    BY NextTimeoutLeast DEF TimeInv, TypeOK
  <2> QED
    BY <1>4, <2>1 DEF osal_pwrmgr_powerconserve, powerVars, timeVars, TimeInv, TypeOK,
                      NeverOversleeps, Running
<1>5. CASE Sleep /\ UNCHANGED board
  BY <1>5, SleepKeeps
<1>6. CASE MacIsr /\ UNCHANGED board
  BY <1>6 DEF MacIsr, loopVars, powerVars, timeVars, TimeInv, TypeOK, NeverOversleeps,
              Running, Tasks
<1>7. CASE (PortIsr \/ halSleepTimerIsr) /\ UNCHANGED board
  BY <1>7 DEF PortIsr, halSleepTimerIsr, Woken, powerVars, timeVars, TimeInv, TypeOK,
              NeverOversleeps, Running
<1>8. CASE Tick /\ UNCHANGED board
  BY <1>8, TickKeeps
<1>9. CASE UNCHANGED vars
  BY <1>9 DEF vars, loopVars, powerVars, timeVars, TimeInv, TypeOK, NeverOversleeps,
              Running
<1> QED
  BY <1>1, <1>2, <1>3, <1>4, <1>5, <1>6, <1>7, <1>8, <1>9 DEF Next, Loop

\* The state keeps its type: the sleep timer is never set to a negative time.
THEOREM TypeCorrect == Spec => []TypeOK
<1>1. TimeInv => TypeOK
  BY DEF TimeInv
<1>2. QED
  BY <1>1, TimeInvInit, TimeInvNext, PTL DEF Spec

\* No sleep lasts past a timer, whatever the timeouts of OSAL and of the MAC are:
\* halSleep takes the lesser of the two and every conversion leaves time over.
THEOREM TimersInTime == Spec => []NeverOversleeps
<1>1. TimeInv => NeverOversleeps
  BY DEF TimeInv
<1>2. QED
  BY <1>1, TimeInvInit, TimeInvNext, PTL DEF Spec
=============================================================================
