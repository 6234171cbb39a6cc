----------------------------- MODULE SmartSocket -----------------------------
(***************************************************************************)
(* The application of zSmartSocket: the BL0937 power meter, whose pulses   *)
(* interrupt handlers time, the calibration of the meter from a menu that  *)
(* one button drives, and the on/off cluster.  They meet in the table of   *)
(* the event manager, where each event has one callback.                   *)
(*                                                                         *)
(* Timer callbacks, button and messages are served by one loop, so each is *)
(* one action, but for the end of a calibration, whose write to the flash  *)
(* is a step of its own; they come in any order, which is more than the    *)
(* timers allow.  A pulse interrupts the loop and comes between any two    *)
(* steps.  The two inputs have the same code and state of their own.       *)
(***************************************************************************)
EXTENDS Integers, Sequences, FiniteSets

CONSTANTS Channels,            \* the pulse inputs, CF and CF1
          TimerSize,           \* timer 1 counts modulo this (2^16)
          Periods,             \* ticks from one pulse to the next
          PulsesPerMean,       \* the 100 of the interrupt handlers
          CALIBRATING_SAMPLES,
          DefaultCoef,         \* COEF_POWER, COEF_VOLT
          NotReported

\* A period of TimerSize or more is counted modulo TimerSize; the meter is only
\* right for the faster pulses.
ASSUME SocketAssumption ==
  /\ TimerSize \in Nat \ {0}
  /\ Periods \subseteq 1 .. TimerSize - 1
  /\ PulsesPerMean \in Nat \ {0}
  /\ CALIBRATING_SAMPLES \in Nat \ {0, 1}
  /\ DefaultCoef \in Nat

VARIABLES prevValue, accCount, count, mean,  \* of each input
          elapsed,         \* ticks that passed since its last mean was begun
          coef,            \* bl0937Flash, by input
          nv,              \* its copy in non-volatile memory
          power,           \* activePower and RMSCurrent, by input
          newPower,        \* NEW_POWER is set
          callbacks,       \* the table of the event manager
          context,         \* what the display shows: 0 main, 1 menu,
                           \* 2 calibration
          selectedRow,
          running,         \* the timer of calibrating is started
          saving,          \* bl0937Flash is new, osal_nv_write is still to come
          calibratingCount, calibratingTot,
          samples,         \* what this calibration has read, oldest first
          onOffValue, relay, connected,
          reported         \* the last on/off report since the device joined

meterVars == <<prevValue, accCount, count, mean, elapsed>>
coefVars == <<coef, nv>>
uiVars == <<callbacks, context, selectedRow>>
calVars == <<running, saving, calibratingCount, calibratingTot, samples>>
onOffVars == <<onOffValue, relay, connected, reported>>
vars == <<meterVars, coefVars, power, newPower, uiVars, calVars, onOffVars>>

Zeros == [c \in Channels |-> 0]

\* zSmartSocketInit: electricityMeasureClusterReadAttributeInit registers
\* newPowerValue for NEW_POWER, and onOffInit after it onOffClusterStart.
Handlers == [PRESS_BUTTON |-> "shortPress0", PRESS_BUTTON_LONG |-> "longPress0",
             NEW_POWER |-> "onOffClusterStart"]

-----------------------------------------------------------------------------
(* bl0937.c                                                                *)

\* mutant: a wrap of the timer loses a tick
PeriodLosesTick(value, prev) ==
  IF value > prev THEN value - prev ELSE (value + (TimerSize - 1) - prev) % TimerSize

\* The ticks between two readings of the timer.
Period(value, prev) ==
  IF value > prev THEN value - prev
  ELSE (value + (TimerSize - 1) - prev + 1) % TimerSize

\* Timer1Isr and IOisr: a pulse, p ticks after the one before.
Pulse(c, p) ==
  LET value == (prevValue[c] + p) % TimerSize
      acc == accCount[c] + Period(value, prevValue[c])
      full == count[c] + 1 >= PulsesPerMean
  IN  /\ prevValue' = [prevValue EXCEPT ![c] = value]
      /\ accCount' = [accCount EXCEPT ![c] = IF full THEN 0 ELSE acc]
      /\ count' = [count EXCEPT ![c] = IF full THEN 0 ELSE @ + 1]
      /\ mean' = [mean EXCEPT ![c] = IF full THEN acc \div (count[c] + 1) ELSE @]
      /\ elapsed' = [elapsed EXCEPT ![c] = IF full THEN 0 ELSE @ + p]
      /\ UNCHANGED <<coefVars, power, newPower, uiVars, calVars, onOffVars>>

\* The timer of one second.  It takes the means, so that a calibration sees
\* those that are completed after it.
readCFs ==
  /\ power' = [c \in Channels |-> IF mean[c] = 0 THEN 0 ELSE coef[c] \div mean[c]]
  /\ mean' = Zeros
  /\ newPower' = TRUE
  /\ UNCHANGED <<prevValue, accCount, count, elapsed, coefVars, uiVars, calVars,
                 onOffVars>>

-----------------------------------------------------------------------------
(* ui.c; the button calls handleEvent from the background code.            *)

\* f names callbacks of events that are all in the table since zSmartSocketInit.
addEventCB(f) ==
  callbacks' = [e \in DOMAIN callbacks |-> IF e \in DOMAIN f THEN f[e] ELSE callbacks[e]]

Pressed(button, callback) == callbacks[button] = callback

MenuHandlers == [PRESS_BUTTON |-> "shortPressMenu1",
                 PRESS_BUTTON_LONG |-> "longPressMenu1"]

MainHandlers == [PRESS_BUTTON |-> "shortPress0",
                 PRESS_BUTTON_LONG |-> "longPress0"]

\* mutant: the long press keeps the callback of the main screen
StartsHalfUI ==
  /\ \/ Pressed("PRESS_BUTTON_LONG", "longPress0")
     \/ Pressed("PRESS_BUTTON", "calibratingWaitPress")
  /\ context' = 1
  /\ addEventCB([PRESS_BUTTON |-> "shortPressMenu1"])
  /\ UNCHANGED <<meterVars, coefVars, power, newPower, selectedRow, calVars, onOffVars>>

\* longPress0, and calibratingWaitPress after a calibration.
startUI ==
  /\ \/ Pressed("PRESS_BUTTON_LONG", "longPress0")
     \/ Pressed("PRESS_BUTTON", "calibratingWaitPress")
  /\ context' = 1
  /\ addEventCB(MenuHandlers)
  /\ UNCHANGED <<meterVars, coefVars, power, newPower, selectedRow, calVars, onOffVars>>

shortPressMenu1 ==
  /\ Pressed("PRESS_BUTTON", "shortPressMenu1")
  /\ selectedRow' = (selectedRow + 1) % 3
  /\ UNCHANGED <<meterVars, coefVars, power, newPower, callbacks, context, calVars,
                 onOffVars>>

\* EXIT in the menu; the calibration, if one runs, goes on.
Exit ==
  /\ Pressed("PRESS_BUTTON_LONG", "longPressMenu1") /\ selectedRow = 2
  /\ context' = 0
  /\ addEventCB(MainHandlers)
  /\ UNCHANGED <<meterVars, coefVars, power, newPower, selectedRow, calVars, onOffVars>>

\* mutant: a second calibration adds to the totals of the first
CalibrateOn ==
  /\ Pressed("PRESS_BUTTON_LONG", "longPressMenu1") /\ selectedRow = 1
  /\ context' = 2
  /\ calibratingTot' = [c \in Channels |-> calibratingTot[c] + mean[c]]
  /\ mean' = Zeros
  /\ calibratingCount' = 1 /\ samples' = <<mean>>
  /\ running' = TRUE
  /\ UNCHANGED <<prevValue, accCount, count, elapsed, coefVars, power, newPower,
                 callbacks, selectedRow, saving, onOffVars>>

\* CALIBRATION in the menu.  The timer of a calibration that runs is restarted.
BL0937_calibrate ==
  /\ Pressed("PRESS_BUTTON_LONG", "longPressMenu1") /\ selectedRow = 1
  /\ context' = 2
  /\ calibratingTot' = mean
  /\ mean' = Zeros
  /\ calibratingCount' = 1 /\ samples' = <<mean>>
  /\ running' = TRUE
  /\ UNCHANGED <<prevValue, accCount, count, elapsed, coefVars, power, newPower,
                 callbacks, selectedRow, saving, onOffVars>>

\* mutant: the samples are not counted
SampleUncounted ==
  /\ running /\ calibratingCount < CALIBRATING_SAMPLES
  /\ calibratingTot' = [c \in Channels |-> calibratingTot[c] + mean[c]]
  /\ mean' = Zeros
  /\ UNCHANGED <<prevValue, accCount, count, elapsed, coefVars, power, newPower,
                 uiVars, calibratingCount, samples, running, saving, onOffVars>>

\* The timer of two seconds fires: one more sample, and the timer again, ...
Sample ==
  /\ running /\ calibratingCount < CALIBRATING_SAMPLES
  /\ calibratingTot' = [c \in Channels |-> calibratingTot[c] + mean[c]]
  /\ calibratingCount' = calibratingCount + 1
  /\ samples' = Append(samples, mean)
  /\ mean' = Zeros
  /\ UNCHANGED <<prevValue, accCount, count, elapsed, coefVars, power, newPower,
                 uiVars, running, saving, onOffVars>>

\* ... or the new coefficients, in multiples of the power and the current of the
\* reference load, whatever the display shows by now.  The meter works with them at
\* once; the rest of calibrating is Save.
Finish ==
  /\ running /\ calibratingCount >= CALIBRATING_SAMPLES
  /\ running' = FALSE /\ saving' = TRUE
  /\ coef' = [c \in Channels |-> calibratingTot[c] \div CALIBRATING_SAMPLES]
  /\ UNCHANGED <<nv, meterVars, power, newPower, uiVars, calibratingCount,
                 calibratingTot, samples, onOffVars>>

\* osal_nv_write, which may fail, its result ignored; it changes the item as a whole
\* or not at all, as OsalNv shows.  Then the button waits for the user.
Save ==
  /\ saving /\ saving' = FALSE
  /\ nv' \in {coef, nv}
  /\ addEventCB([PRESS_BUTTON |-> "calibratingWaitPress"])
  /\ UNCHANGED <<coef, meterVars, power, newPower, context, selectedRow, running,
                 calibratingCount, calibratingTot, samples, onOffVars>>

-----------------------------------------------------------------------------
(* ClusterOnOff.c                                                          *)

\* onOffClusterSendReport of this value.  A report that finds no buffer is lost.
SendReport(value) ==
  IF connected THEN reported' \in {value, reported} ELSE UNCHANGED reported

\* mutant: the write of the attribute forgets setIOStatus
WriteOnly(on) ==
  /\ onOffValue' = on
  /\ UNCHANGED <<meterVars, coefVars, power, newPower, uiVars, calVars, relay, connected,
                 reported>>

\* A command, or a write of the attribute, then setIOStatus.
SetOnOff(on) ==
  /\ onOffValue' = on /\ relay' = on
  /\ SendReport(on)
  /\ UNCHANGED <<meterVars, coefVars, power, newPower, uiVars, calVars, connected>>

\* onOffClusterStart on NEW_POWER.
onOffClusterStart ==
  /\ newPower /\ Pressed("NEW_POWER", "onOffClusterStart")
  /\ newPower' = FALSE
  /\ SendReport(onOffValue)
  /\ UNCHANGED <<meterVars, coefVars, power, uiVars, calVars, onOffValue, relay, connected>>

\* The reload timer of the report.
onOffClusterSendReport ==
  /\ connected
  /\ SendReport(onOffValue)
  /\ UNCHANGED <<meterVars, coefVars, power, newPower, uiVars, calVars, onOffValue, relay,
                 connected>>

\* ZDOStateChange: the device joins or loses the network.
ZDOStateChange ==
  /\ connected' = ~ connected
  /\ reported' = NotReported
  /\ UNCHANGED <<meterVars, coefVars, power, newPower, uiVars, calVars, onOffValue, relay>>

-----------------------------------------------------------------------------

\* zSmartSocketInit on a new device: osal_nv_item_init creates the item.
Init ==
  /\ prevValue = Zeros /\ accCount = Zeros /\ count = Zeros /\ mean = Zeros
  /\ elapsed = Zeros
  /\ nv = [c \in Channels |-> DefaultCoef] /\ coef = nv
  /\ power = Zeros /\ newPower = TRUE
  /\ callbacks = Handlers /\ context = 0 /\ selectedRow = 0
  /\ running = FALSE /\ saving = FALSE
  /\ calibratingCount = 0 /\ calibratingTot = Zeros
  /\ samples = <<>>
  /\ onOffValue = TRUE /\ relay = TRUE /\ connected = FALSE
  /\ reported = NotReported

\* mutant: BL0937_init writes the defaults over the item
InitOverwrites ==
  /\ prevValue' = Zeros /\ accCount' = Zeros /\ count' = Zeros /\ mean' = Zeros
  /\ elapsed' = Zeros
  /\ nv' = [c \in Channels |-> DefaultCoef] /\ coef' = nv'
  /\ power' = Zeros /\ newPower' = TRUE
  /\ callbacks' = Handlers /\ context' = 0 /\ selectedRow' = 0
  /\ running' = FALSE /\ saving' = FALSE
  /\ calibratingCount' = 0 /\ calibratingTot' = Zeros
  /\ samples' = <<>>
  /\ onOffValue' = TRUE /\ relay' = TRUE /\ connected' = FALSE
  /\ reported' = NotReported

\* The socket loses its supply and starts again: BL0937_init reads the item.
Reset ==
  /\ prevValue' = Zeros /\ accCount' = Zeros /\ count' = Zeros /\ mean' = Zeros
  /\ elapsed' = Zeros
  /\ coef' = nv /\ UNCHANGED nv
  /\ power' = Zeros /\ newPower' = TRUE
  /\ callbacks' = Handlers /\ context' = 0 /\ selectedRow' = 0
  /\ running' = FALSE /\ saving' = FALSE
  /\ calibratingCount' = 0 /\ calibratingTot' = Zeros
  /\ samples' = <<>>
  /\ onOffValue' = TRUE /\ relay' = TRUE /\ connected' = FALSE
  /\ reported' = NotReported

Button == startUI \/ shortPressMenu1 \/ Exit \/ BL0937_calibrate

calibrating == Sample \/ Finish

Loop ==
  \/ readCFs \/ Button \/ calibrating
  \/ \E on \in BOOLEAN : SetOnOff(on)
  \/ onOffClusterStart \/ onOffClusterSendReport \/ ZDOStateChange

Interrupt == \E c \in Channels, p \in Periods : Pulse(c, p)

\* The loop serves nothing else before calibrating returns.
Next == Interrupt \/ (~ saving /\ Loop) \/ Save \/ Reset

Spec == Init /\ [][Next]_vars

\* calibrating returns.  The timers that ran out meanwhile are served after it, the
\* event is handled, and a report is not lost every time.
Fairness ==
  /\ WF_vars(Save)
  /\ SF_vars(~ saving /\ readCFs) /\ WF_vars(~ saving /\ calibrating)
  /\ SF_vars(~ saving /\ onOffClusterStart /\ (connected => reported' = onOffValue))

FairSpec == Spec /\ Fairness

-----------------------------------------------------------------------------
(* Properties.                                                             *)

TypeOK ==
  /\ prevValue \in [Channels -> 0 .. TimerSize - 1]
  /\ count \in [Channels -> 0 .. PulsesPerMean - 1]
  /\ mean \in [Channels -> 0 .. TimerSize - 1]
  /\ DOMAIN coef = Channels /\ DOMAIN nv = Channels /\ DOMAIN power = Channels
  /\ callbacks.PRESS_BUTTON \in
       {"shortPress0", "shortPressMenu1", "calibratingWaitPress"}
  /\ callbacks.PRESS_BUTTON_LONG \in {"longPress0", "longPressMenu1"}
  /\ context \in 0 .. 2 /\ selectedRow \in 0 .. 2
  /\ calibratingCount \in 0 .. CALIBRATING_SAMPLES
  /\ running \in BOOLEAN /\ saving \in BOOLEAN /\ newPower \in BOOLEAN
  /\ {onOffValue, relay, connected} \subseteq BOOLEAN
  /\ reported \in BOOLEAN \union {NotReported}

\* Through every wrap of the timer the ticks a handler adds up are those that
\* passed since it began the mean, so a mean of PulsesPerMean periods is true.
TicksAreTrue == accCount = elapsed

\* What the button does fits what the display shows, whenever a calibration that the
\* user left ends and takes the short press: the long press opens the menu exactly on
\* the main screen, the short press belongs to the main screen or the menu only there,
\* and a calibration that is over can always be left by a short press.
ButtonsMatch ==
  /\ Pressed("PRESS_BUTTON_LONG", "longPress0") <=> context = 0
  /\ Pressed("PRESS_BUTTON", "shortPress0") => context = 0
  /\ Pressed("PRESS_BUTTON", "shortPressMenu1") => context # 0
  /\ context = 2 /\ ~ running /\ ~ saving => Pressed("PRESS_BUTTON", "calibratingWaitPress")

\* The ticks of input c in the samples of a list.
SumOf(list, c) ==
  LET sum[k \in 0 .. Len(list)] == IF k = 0 THEN 0 ELSE sum[k - 1] + list[k][c]
  IN  sum[Len(list)]

\* However the user restarts or leaves it, a calibration works with its own
\* samples only, and with as many as it divides by.
OwnSamples ==
  running => /\ calibratingCount = Len(samples)
             /\ \A c \in Channels : calibratingTot[c] = SumOf(samples, c)

\* k are the coefficients of a calibration that has all its samples.
Measured(k) ==
  /\ Len(samples) = CALIBRATING_SAMPLES
  /\ k = [c \in Channels |-> SumOf(samples, c) \div CALIBRATING_SAMPLES]

\* The item in non-volatile memory is only ever replaced by the result of a complete
\* calibration, whether its write fails or the supply does before, during or after it;
\* and the meter works with such a result, or since a start with the item.
StoredIsMeasured ==
  [][/\ nv' # nv => Measured(nv')
     /\ coef' # coef => coef' = nv' \/ Measured(coef')]_vars

\* A calibration ends, unless the user restarts it again and again.
CalibrationEnds ==
  []<>(~ running) \/ []<><<BL0937_calibrate>>_vars

\* With or without the reports that were lost, the coordinator learns what the
\* relay was set to, once nobody sets it and the network stays.
CoordinatorFollows ==
  \/ []<><<ZDOStateChange \/ Reset \/ \E on \in BOOLEAN : SetOnOff(on)>>_vars
  \/ <>[](connected => reported = relay)
=============================================================================
