----------------------------- MODULE OsalPower -----------------------------
(***************************************************************************)
(* How the processor goes to sleep: one turn of osal_run_system (OSAL.c)   *)
(* with osalTimeUpdate (OSAL_Clock.c), Hal_ProcessPoll (hal_drivers.c),    *)
(* osal_pwrmgr_powerconserve (OSAL_PwrMgr.c), osal_next_timeout            *)
(* (OSAL_Timers2.c) and halSleep (hal_sleep.c), against interrupts.        *)
(*                                                                         *)
(* Time is counted in the 320 us ticks of the MAC timer.  OSAL timers are  *)
(* in milliseconds and are only charged by osalTimeUpdate, so the sleep    *)
(* has to be computed from a table that is already a little old.  An       *)
(* interrupt handler that has work for a task also clears                  *)
(* halSleepPconValue, which cancels a sleep being prepared.                *)
(*                                                                         *)
(* OsalTimers has the slots of the timer table and OsalTasks the order of  *)
(* the scheduler; here a timer is what is left of its time, and a task is  *)
(* ready or not.  The projects build one of two hal_sleep.c: that of       *)
(* CC2530EB runs task 0 inside halSleep, that of CC2530PMP4712 does not.   *)
(***************************************************************************)
EXTENDS Integers

CONSTANTS Timers, Off,
          Timeouts,                \* timeout_value arguments, in ms
          OSAL_TIMERS_MAX_TIMEOUT, \* in ms
          MacTimeouts,             \* answers of MAC_PwrNextTimeout, 0 for none
          maxSleepLoopTime,        \* in ticks
          Boards,                  \* whose hal_sleep.c is built
          MacTaskTimeout,          \* its 1000, in ticks
          MacTaskTries,            \* its 20
          DeepAllowed,             \* zgPollRate = 0, or no NWK_AUTO_POLL
          MaxBusy                  \* bound: ticks from one update to the next
                                   \* update or sleep

MAC == 0   \* task 0, the MAC layer
App == 1   \* the task the timers belong to; stands for all the others
Tasks == {MAC, App}

PM_MIN_SLEEP_TIME == 2
TIMER_CLOCK_UPDATE == 4
HAL_SLEEP_ADJ_TICKS == 23

\* No timer is started with a timeout of 0, which osal_next_timeout would hand on
\* as no timeout.  halSleepSetTimer has a time to set from 3 ticks on.
ASSUME TimeAssumption ==
  /\ Timeouts \subseteq Nat \ {0} /\ MacTimeouts \subseteq Nat
  /\ OSAL_TIMERS_MAX_TIMEOUT \in Nat \ {0}
  /\ maxSleepLoopTime \in Nat /\ maxSleepLoopTime >= 3
  /\ MaxBusy \in Nat /\ MaxBusy >= TIMER_CLOCK_UPDATE
ASSUME BoardAssumption ==
  /\ Off \notin Int
  /\ Boards \subseteq {"CC2530EB", "CC2530PMP4712"}
  /\ DeepAllowed \in BOOLEAN
  /\ MacTaskTimeout \in Nat /\ MacTaskTries \in Nat

VARIABLES timeout,           \* what is left of each timer, as of the last update
          ready,             \* tasks with an event
          halSleepPconValue, \* TRUE: PCON_IDLE, sleep allowed; FALSE: 0
          holds,             \* pwrmgr_task_state: tasks that hold the power
          battery,           \* pwrmgr_device # PWRMGR_ALWAYS_ON
          ticks,             \* MAC timer ticks since previousMacTimerTick
          remUsTicks,        \* remainder of the last conversion, 40 us each
          radio,             \* has the MAC its radio powered
          pc,                \* where the loop is
          next,              \* ms, then ticks, to sleep
          tries,             \* passes of the loop that runs the MAC task
          wake,              \* ticks until the sleep timer fires, or Off
          board              \* the board, chosen once

loopVars == <<pc, next, tries, wake>>
powerVars == <<holds, battery>>
timeVars == <<ticks, remUsTicks>>
vars == <<timeout, ready, halSleepPconValue, powerVars, timeVars, radio,
          loopVars, board>>

Running == {t \in Timers : timeout[t] # Off}

\* HAL_SLEEP_MS_TO_320US, rounded up.
ToTicks(ms) == (ms * 100 + 31) \div 32

\* The ticks halSleepSetTimer lets pass: it converts to periods of 32768 Hz and
\* takes off the time that going to sleep and waking up cost.
WakeTicks(n) == (((n * 671) \div 64 - HAL_SLEEP_ADJ_TICKS) * 3125) \div 32768 + 1

Init ==
  /\ timeout = [t \in Timers |-> Off]
  /\ ready = {} /\ halSleepPconValue = TRUE
  /\ holds = {} /\ battery = FALSE
  /\ ticks = 0 /\ remUsTicks = 0 /\ radio = TRUE
  /\ pc = "update" /\ next = 0 /\ tries = 0 /\ wake = Off
  /\ board \in Boards

-----------------------------------------------------------------------------
(* The loop.                                                               *)

Expired(elapsed) == {t \in Running : timeout[t] <= elapsed}

\* Fewer than TIMER_CLOCK_UPDATE ticks are left for the next turn.
osalTimeUpdate ==
  /\ pc = "update"
  /\ pc' = "poll"
  /\ IF ticks < TIMER_CLOCK_UPDATE
     THEN UNCHANGED <<timeout, ready, ticks, remUsTicks>>
     ELSE LET us40 == ticks * 8 + remUsTicks
              elapsed == us40 \div 25
          IN  /\ remUsTicks' = us40 % 25
              /\ ticks' = 0
              /\ timeout' = [t \in Timers |->
                               IF t \in Running \ Expired(elapsed)
                               THEN timeout[t] - elapsed ELSE Off]
              /\ ready' = ready \cup {App : t \in Expired(elapsed)}
  /\ UNCHANGED <<halSleepPconValue, powerVars, radio, next, tries, wake>>

Hal_ProcessPoll ==
  /\ pc = "poll"
  /\ halSleepPconValue' = TRUE
  /\ pc' = "scan"
  /\ UNCHANGED <<timeout, ready, powerVars, timeVars, radio, next, tries, wake>>

Scan ==
  /\ pc = "scan"
  /\ pc' = IF ready # {} THEN "run" ELSE "conserve"
  /\ UNCHANGED <<timeout, ready, halSleepPconValue, powerVars, timeVars, radio, next, tries, wake>>

\* A handler may leave any task with an event, start or stop a timer of its
\* task, and change what the power manager is told.
HandlerLeaves(task, posted) == ready' = (ready \ {task}) \cup posted

EndTurn ==
  /\ pc' = "update" /\ next' = 0 /\ tries' = 0 /\ wake' = Off

RunMac(posted) ==
  /\ pc = "run" /\ MAC \in ready
  /\ HandlerLeaves(MAC, posted)
  /\ EndTurn
  /\ UNCHANGED <<timeout, halSleepPconValue, powerVars, timeVars, radio>>

RunApp(posted, hold, supply) ==
  /\ pc = "run" /\ MAC \notin ready
  /\ HandlerLeaves(App, posted)
  /\ holds' = hold /\ battery' = supply
  /\ EndTurn
  /\ UNCHANGED <<halSleepPconValue, timeVars, radio>>

\* osal_start_timerEx sets the table at once; what the ticks before it cost is
\* charged to the timer too.
RunAppStart(posted, t, n) ==
  /\ RunApp(posted, holds, battery)
  /\ timeout' = [timeout EXCEPT ![t] = n]

RunAppStop(posted, t) ==
  /\ RunApp(posted, holds, battery)
  /\ timeout' = [timeout EXCEPT ![t] = Off]

RunAppPower(posted, hold, supply) ==
  /\ RunApp(posted, hold, supply)
  /\ UNCHANGED timeout

\* mutant: the first timer of the table is taken for the next one to expire
AnyTimeout ==
  IF Running = {} THEN OSAL_TIMERS_MAX_TIMEOUT
  ELSE timeout[CHOOSE t \in Running : TRUE]

\* The least timeout of the table, starting from OSAL_TIMERS_MAX_TIMEOUT.
osal_next_timeout ==
  LET lefts == {timeout[t] : t \in Running} \cup {OSAL_TIMERS_MAX_TIMEOUT}
  IN  CHOOSE n \in lefts : \A m \in lefts : n <= m

osal_pwrmgr_powerconserve ==
  /\ pc = "conserve"
  /\ IF battery /\ holds = {}
     THEN pc' = "sleep" /\ next' = osal_next_timeout
     ELSE pc' = "update" /\ next' = 0
  /\ UNCHANGED <<timeout, ready, halSleepPconValue, powerVars, timeVars, radio, tries, wake>>

-----------------------------------------------------------------------------
(* halSleep.                                                               *)

\* mutant: a MAC timeout of 0 counts as the sooner one
SoonerUnchecked(osal, mac) == IF osal = 0 \/ mac < osal THEN mac ELSE osal

\* The lesser of the two timeouts, 0 meaning that there is none.
Sooner(osal, mac) == IF osal = 0 \/ (mac # 0 /\ mac < osal) THEN mac ELSE osal

WorthSleeping(n) ==
  \/ n > ToTicks(PM_MIN_SLEEP_TIME)
  \/ n = 0 /\ DeepAllowed

\* Interrupts are off from here to the window before PCON is written.
EnterSleep(mac) ==
  /\ pc = "sleep"
  /\ LET n == Sooner(ToTicks(next), mac)
     IN  IF WorthSleeping(n)
         THEN pc' = "mac" /\ next' = n
         ELSE pc' = "update" /\ next' = 0
  /\ UNCHANGED <<timeout, ready, halSleepPconValue, powerVars, timeVars, radio, tries, wake>>

MacTurn == board = "CC2530EB" /\ next > MacTaskTimeout /\ tries < MacTaskTries

\* CC2530EB only: task 0 runs, if it has an event, until the MAC agrees to turn
\* its radio off.
RunMacTask(posted, agreed) ==
  /\ pc = "mac" /\ MacTurn
  /\ IF MAC \in ready THEN HandlerLeaves(MAC, posted) ELSE UNCHANGED ready
  /\ IF agreed THEN pc' = "off" /\ radio' = FALSE /\ UNCHANGED tries
     ELSE tries' = tries + 1 /\ UNCHANGED <<pc, radio>>
  /\ UNCHANGED <<timeout, halSleepPconValue, powerVars, timeVars, next, wake>>

SkipMacTask ==
  /\ pc = "mac" /\ ~ MacTurn
  /\ pc' = "off"
  /\ UNCHANGED <<timeout, ready, halSleepPconValue, powerVars, timeVars, radio, next, tries, wake>>

\* mutant: halSleepPconValue is not looked at
PowerOffAnyway ==
  /\ pc = "off"
  /\ pc' = "armed"
  /\ halSleepPconValue' = TRUE
  /\ LET n == IF next > maxSleepLoopTime THEN maxSleepLoopTime ELSE next
     IN  next' = n /\ wake' = IF n = 0 THEN Off ELSE WakeTicks(n)
  /\ radio' = FALSE
  /\ UNCHANGED <<timeout, ready, powerVars, timeVars, tries>>

\* No interrupt has objected and the MAC agrees: the sleep timer is set,
\* HAL_SLEEP_PREP_POWER_MODE allows the sleep and interrupts are on again.
PowerOff ==
  /\ pc = "off"
  /\ halSleepPconValue
  /\ pc' = "armed"
  /\ halSleepPconValue' = TRUE
  /\ LET n == IF next > maxSleepLoopTime THEN maxSleepLoopTime ELSE next
     IN  next' = n /\ wake' = IF n = 0 THEN Off ELSE WakeTicks(n)
  /\ radio' = FALSE
  /\ UNCHANGED <<timeout, ready, powerVars, timeVars, tries>>

\* mutant: the MAC is asked before halSleepPconValue is looked at
AskThenStayAwake ==
  /\ pc = "off"
  /\ halSleepPconValue => radio
  /\ EndTurn
  /\ radio' \in {radio, halSleepPconValue /\ radio}
  /\ UNCHANGED <<timeout, ready, halSleepPconValue, powerVars, timeVars>>

\* An interrupt has objected, or MAC_PwrOffReq is denied; it is not denied when
\* task 0 has already had the radio turned off.
StayAwake ==
  /\ pc = "off"
  /\ halSleepPconValue => radio
  /\ EndTurn
  /\ UNCHANGED <<timeout, ready, halSleepPconValue, powerVars, timeVars, radio>>

\* halSetSleepMode writes PCON; with 0 the processor goes on.
halSetSleepMode ==
  /\ pc = "armed"
  /\ pc' = IF halSleepPconValue THEN "asleep" ELSE "on"
  /\ UNCHANGED <<timeout, ready, halSleepPconValue, powerVars, timeVars, radio, next, tries, wake>>

\* MAC_PwrOnReq, and back to the loop.
PowerOn ==
  /\ pc = "on"
  /\ EndTurn
  /\ radio' = TRUE
  /\ UNCHANGED <<timeout, ready, halSleepPconValue, powerVars, timeVars>>

-----------------------------------------------------------------------------
(* Interrupts and time.                                                    *)

Woken == pc' = IF pc = "asleep" THEN "on" ELSE pc

\* A MAC interrupt: it sets an event of task 0 (macSetEvent) and calls
\* CLEAR_SLEEP_MODE.  halSleep masks it while the radio is off.
MacIsr ==
  /\ pc \in {"update", "poll", "scan", "run", "conserve", "sleep"}
  /\ ready' = ready \cup {MAC}
  /\ halSleepPconValue' = FALSE
  /\ UNCHANGED <<timeout, powerVars, timeVars, radio, loopVars>>

\* An interrupt of an I/O port, which can end a sleep.
PortIsr ==
  /\ pc \in {"armed", "asleep"}
  /\ halSleepPconValue' = FALSE
  /\ Woken
  /\ UNCHANGED <<timeout, ready, powerVars, timeVars, radio, next, tries, wake>>

halSleepTimerIsr ==
  /\ pc \in {"armed", "asleep"} /\ wake = 0
  /\ halSleepPconValue' = FALSE
  /\ wake' = Off
  /\ Woken
  /\ UNCHANGED <<timeout, ready, powerVars, timeVars, radio, next, tries>>

\* A tick passes: while the loop runs, as long as it is not late; asleep, until
\* the sleep timer fires.  In the deep mode (wake = Off) every oscillator is off
\* and none is counted.
Tick ==
  /\ IF pc = "asleep" THEN wake \notin {Off, 0} ELSE ticks < MaxBusy
  /\ ticks' = ticks + 1
  /\ wake' = IF wake \in {Off, 0} THEN wake ELSE wake - 1
  /\ UNCHANGED <<timeout, ready, halSleepPconValue, powerVars, remUsTicks, radio,
                 pc, next, tries>>

Run ==
  \E posted \in SUBSET Tasks :
    \/ RunMac(posted)
    \/ \E t \in Timers, n \in Timeouts : RunAppStart(posted, t, n)
    \/ \E t \in Timers : RunAppStop(posted, t)
    \/ \E hold \in SUBSET {App}, supply \in BOOLEAN :
         RunAppPower(posted, hold, supply)

Sleep ==
  \/ \E mac \in MacTimeouts : EnterSleep(mac)
  \/ \E posted \in SUBSET Tasks, agreed \in BOOLEAN : RunMacTask(posted, agreed)
  \/ SkipMacTask \/ PowerOff \/ StayAwake \/ halSetSleepMode \/ PowerOn

Loop == \/ osalTimeUpdate \/ Hal_ProcessPoll \/ Scan \/ Run
        \/ osal_pwrmgr_powerconserve \/ Sleep

Next ==
  /\ Loop \/ MacIsr \/ PortIsr \/ halSleepTimerIsr \/ Tick
  /\ UNCHANGED board

Spec == Init /\ [][Next]_vars

\* The loop keeps running, time keeps passing and a sleep timer that is due
\* interrupts; nothing else need ever happen.
Fairness ==
  /\ WF_vars(Loop /\ UNCHANGED board)
  /\ WF_vars(halSleepTimerIsr /\ UNCHANGED board)
  /\ WF_vars(Tick /\ UNCHANGED board)

FairSpec == Spec /\ Fairness

-----------------------------------------------------------------------------
(* Properties.                                                             *)

TypeOK ==
  /\ timeout \in [Timers -> Nat \cup {Off}]
  /\ ready \subseteq Tasks
  /\ halSleepPconValue \in BOOLEAN
  /\ holds \subseteq Tasks /\ battery \in BOOLEAN
  /\ ticks \in Nat /\ remUsTicks \in 0 .. 24 /\ radio \in BOOLEAN
  /\ pc \in {"update", "poll", "scan", "run", "conserve", "sleep", "mac",
             "off", "armed", "asleep", "on"}
  /\ next \in Nat /\ tries \in 0 .. MacTaskTries
  /\ wake \in Nat \cup {Off}
  /\ board \in Boards

\* The loop calls osal_pwrmgr_powerconserve "when there are no events
\* scheduled" (OSAL_PwrMgr.c, lines 157-158): an interrupt that sets an event at
\* any moment before the processor stops must cancel the sleep.
SleepsOnlyIdle == pc = "asleep" => ready = {}

\* No timer is left to sleep through: when its time is up, the loop is at most
\* MaxBusy ticks, and the rounding of the conversions, away from noticing.
NeverOversleeps ==
  \A t \in Running : ticks * 8 + remUsTicks <= timeout[t] * 25 + 8 * MaxBusy + 24

\* When halSleep decides not to sleep after all, the loop goes on "normally"
\* (CC2530EB/hal_sleep.c, lines 444-446): with the radio on.
RadioOnInLoop ==
  pc \in {"update", "poll", "scan", "run", "conserve", "sleep"} => radio

\* It does so on the board that does not run task 0 inside halSleep.
RadioOnWithoutMacTask == board = "CC2530PMP4712" => RadioOnInLoop

\* A timer that is not started over and over expires or is stopped: no sleep
\* lasts for ever while a timer runs.
Starts(t) == \E posted \in SUBSET Tasks, n \in Timeouts : RunAppStart(posted, t, n)

TimersExpire ==
  \A t \in Timers : []<>(t \notin Running) \/ []<><<Starts(t)>>_vars
=============================================================================
