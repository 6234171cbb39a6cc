----------------------------- MODULE SensorNode -----------------------------
(***************************************************************************)
(* The application of ztemp: the identify cluster, the DS18B20 driver and  *)
(* the temperature report, which share one task, one power vote and the    *)
(* callback timers.                                                        *)
(*                                                                         *)
(* The timers are those TimerService promises: an update takes the same    *)
(* time from all of them and serves the ones that are due in any order,    *)
(* and a timer a callback starts counts from now or from before the time   *)
(* being charged.  Between updates the task handles its events.            *)
(***************************************************************************)
EXTENDS Integers, FiniteSets

CONSTANTS ON_TIME, OFF_TIME,      \* of the LED while it identifies
          PowerUp, Conversion,    \* the 200 ms and 750 ms of the driver
          READ_PERIOD,            \* ms from one measurement to the next
          Elapsed,                \* times one update may charge
          IdentifyTimes,          \* arguments of an identify command
          Temps,                  \* what the sensor may measure; 0 is the
                                  \* value of temp and prevTemp at reset
          ReportEvery,            \* the 10 of sendReport
          Off,
          NotReported,            \* value of reported before a report has left
          MaxRequests             \* bound: requests that set identifyTime

SensorTimers == {"powerOn", "readTemperature", "finalizeReadTemp"}
Callbacks == SensorTimers \cup {"ledOn", "ledOff"}

ASSUME SensorAssumption ==
  /\ {ON_TIME, OFF_TIME, PowerUp, Conversion, READ_PERIOD} \subseteq Nat \ {0}
  /\ Elapsed \subseteq Nat \ {0} /\ IdentifyTimes \subseteq Nat
  /\ Temps \subseteq Int
  /\ ReportEvery \in Nat /\ MaxRequests \in Nat
  /\ Off \notin Int \cup Callbacks /\ NotReported \notin Int

VARIABLES left,           \* what is left of each callback timer, or Off
          charged,        \* the time the running update charges, 0 if none runs
          led,            \* the identify pin
          identifyTime,
          hold,           \* the vote of the task is PWRMGR_HOLD
          DS18B20_POWER,  \* the power pin of the sensor
          temp, prevTemp,
          newTemp,        \* NEW_TEMP is set
          reportCounter,
          requests,       \* requests made
          \* History: the value of the last report that left, what became of the
          \* last one tried ("none", "sent", "lost"), and the measurements handled
          \* since then.
          reported, attempt, quiet

identifyVars == <<led, identifyTime, requests>>
reportVars == <<prevTemp, reportCounter, reported, attempt, quiet>>
vars == <<left, charged, identifyVars, hold, DS18B20_POWER, temp, newTemp,
          reportVars>>

-----------------------------------------------------------------------------
(* Timers.                                                                 *)

Armed(cb) == left[cb] # Off

Due(l) == {cb \in Callbacks : l[cb] # Off /\ l[cb] <= 0}

\* left after cb has been served and the timers of starts begun.
After(cb, starts) ==
  {[c \in Callbacks |-> CASE c \in DOMAIN starts -> starts[c] - base
                          [] c = cb /\ c \notin DOMAIN starts -> Off
                          [] OTHER -> left[c]] : base \in {0, charged}}

\* osal_start_timerEx_cb of one callback, or of none.
Start(cb, n) == [c \in {cb} |-> n]
NoStart == [c \in {} |-> 0]

\* cb is served by the running update and starts these timers.
Served(cb, starts) ==
  /\ cb \in Due(left)
  /\ left' \in After(cb, starts)
  /\ charged' = IF Due(left') = {} THEN 0 ELSE charged

\* The task runs between updates.
TaskStarts(starts) ==
  /\ charged = 0
  /\ left' \in After(Off, starts)
  /\ UNCHANGED charged

Update(d) ==
  /\ charged = 0
  /\ left' = [c \in Callbacks |-> IF Armed(c) THEN left[c] - d ELSE Off]
  /\ charged' = IF Due(left') = {} THEN 0 ELSE d
  /\ UNCHANGED <<identifyVars, hold, DS18B20_POWER, temp, newTemp, reportVars>>

-----------------------------------------------------------------------------
(* DS18B20.c                                                               *)

\* waitRead, with the sensor off.
WaitRead == DS18B20_POWER' = FALSE /\ hold' = FALSE

powerOn ==
  /\ Served("powerOn", Start("readTemperature", PowerUp))
  /\ DS18B20_POWER' = TRUE /\ hold' = TRUE
  /\ UNCHANGED <<identifyVars, temp, newTemp, reportVars>>

\* The sensor answers the reset and converts.
readTemperature ==
  /\ Served("readTemperature", Start("finalizeReadTemp", Conversion))
  /\ DS18B20_POWER' = TRUE /\ hold' = TRUE
  /\ UNCHANGED <<identifyVars, temp, newTemp, reportVars>>

\* mutant: a measurement that fails is not tried again
GiveUp ==
  /\ Served("readTemperature", NoStart)
  /\ WaitRead
  /\ UNCHANGED <<identifyVars, temp, newTemp, reportVars>>

\* mutant: the sensor stays powered when it does not answer
StaysPowered ==
  /\ Served("readTemperature", Start("powerOn", READ_PERIOD))
  /\ hold' = FALSE
  /\ UNCHANGED <<DS18B20_POWER, identifyVars, temp, newTemp, reportVars>>

\* It does not answer.
NoPresence ==
  /\ Served("readTemperature", Start("powerOn", READ_PERIOD))
  /\ WaitRead
  /\ UNCHANGED <<identifyVars, temp, newTemp, reportVars>>

finalizeReadTemp ==
  /\ Served("finalizeReadTemp", Start("powerOn", READ_PERIOD))
  /\ WaitRead
  /\ temp' \in Temps
  /\ newTemp' = TRUE
  /\ UNCHANGED <<identifyVars, reportVars>>

-----------------------------------------------------------------------------
(* ClusterIdentify.c                                                       *)

\* What ledOn does with the identify time n; a timer of ledOff is started only
\* when it lights.
Lights(n) == led' = (n > 0) /\ hold' = (n > 0)
LedOnStarts(n) == IF n > 0 THEN Start("ledOff", ON_TIME) ELSE NoStart

ledOn ==
  /\ Served("ledOn", LedOnStarts(identifyTime))
  /\ Lights(identifyTime)
  /\ UNCHANGED <<identifyTime, requests, DS18B20_POWER, temp, newTemp, reportVars>>

ledOff ==
  /\ Served("ledOff", IF identifyTime > 0 THEN Start("ledOn", OFF_TIME) ELSE NoStart)
  /\ led' = FALSE
  /\ identifyTime' = IF identifyTime > 0 THEN identifyTime - 1 ELSE 0
  /\ hold' = (hold /\ identifyTime > 0)
  /\ UNCHANGED <<requests, DS18B20_POWER, temp, newTemp, reportVars>>

Request == requests < MaxRequests /\ requests' = requests + 1

\* mutant: the command lights the LED and leaves the timers to run
IdentifyLights(n) ==
  /\ Request
  /\ TaskStarts(NoStart)
  /\ identifyTime' = n
  /\ Lights(n)
  /\ UNCHANGED <<DS18B20_POWER, temp, newTemp, reportVars>>

\* COMMAND_IDENTIFY
Identify(n) ==
  /\ Request
  /\ TaskStarts(LedOnStarts(n))
  /\ identifyTime' = n
  /\ Lights(n)
  /\ UNCHANGED <<DS18B20_POWER, temp, newTemp, reportVars>>

\* What is stored is the first field of the request, the attribute id, and the
\* id of IdentifyTime is 0: any write ends the identification.
identifyClusterWriteAttribute ==
  /\ Request
  /\ charged = 0
  /\ identifyTime' = 0
  /\ UNCHANGED <<left, charged, led, hold, DS18B20_POWER, temp, newTemp, reportVars>>

-----------------------------------------------------------------------------
(* ClusterTemperatureMeasurement.c                                         *)

Reports == reportCounter > ReportEvery \/ prevTemp # temp

\* zcl_SendCommand, whose result is ignored: it finds no buffer, or the node is in
\* no network, and the report is lost.
Attempt ==
  /\ reportCounter' = 1 /\ quiet' = 0
  /\ \/ reported' = temp /\ attempt' = "sent"
     \/ attempt' = "lost" /\ UNCHANGED reported

NoAttempt ==
  /\ reportCounter' = reportCounter + 1 /\ quiet' = quiet + 1
  /\ UNCHANGED <<reported, attempt>>

\* mutant: a change is remembered in prevTemp and waits for the counter
ReportSeldom ==
  /\ charged = 0 /\ newTemp
  /\ newTemp' = FALSE
  /\ IF reportCounter > ReportEvery THEN Attempt ELSE NoAttempt
  /\ prevTemp' = temp
  /\ UNCHANGED <<left, charged, identifyVars, hold, DS18B20_POWER, temp>>

\* handleEvent, NEW_TEMP_BIT.
sendReport ==
  /\ charged = 0 /\ newTemp
  /\ newTemp' = FALSE
  /\ IF Reports THEN Attempt ELSE NoAttempt
  /\ prevTemp' = temp
  /\ UNCHANGED <<left, charged, identifyVars, hold, DS18B20_POWER, temp>>

-----------------------------------------------------------------------------

\* temperatureSensorInit: DS18B20_init makes a first measurement at once.
Init ==
  /\ \E answers \in BOOLEAN :
       /\ left = [c \in Callbacks |->
                    CASE c = "finalizeReadTemp" /\ answers -> Conversion
                      [] c = "powerOn" /\ ~ answers -> READ_PERIOD
                      [] OTHER -> Off]
       /\ hold = answers /\ DS18B20_POWER = answers
  /\ charged = 0
  /\ led = FALSE /\ identifyTime = 0 /\ requests = 0
  /\ temp = 0 /\ prevTemp = 0 /\ newTemp = FALSE
  /\ reportCounter = 0 /\ reported = NotReported /\ attempt = "none" /\ quiet = 0

Sensor == powerOn \/ readTemperature \/ NoPresence \/ finalizeReadTemp

Led == ledOn \/ ledOff

Task ==
  \/ sendReport
  \/ \E n \in IdentifyTimes : Identify(n)
  \/ identifyClusterWriteAttribute

Time == \E d \in Elapsed : Update(d)

Next == Sensor \/ Led \/ Task \/ Time

Spec == Init /\ [][Next]_vars

\* Updates go on, each serves what is due, and the task handles its event.
Fairness == WF_vars(Time) /\ WF_vars(Sensor \/ Led) /\ SF_vars(sendReport)

FairSpec == Spec /\ Fairness

-----------------------------------------------------------------------------
(* Properties.                                                             *)

TypeOK ==
  /\ left \in [Callbacks -> Int \cup {Off}]
  /\ charged \in Elapsed \cup {0}
  /\ charged = 0 => Due(left) = {}
  /\ led \in BOOLEAN /\ hold \in BOOLEAN /\ DS18B20_POWER \in BOOLEAN
  /\ identifyTime \in Nat
  /\ requests \in 0 .. MaxRequests
  /\ {temp, prevTemp} \subseteq Temps \cup {0}
  /\ reported \in Temps \cup {0, NotReported}
  /\ attempt \in {"none", "sent", "lost"}
  /\ newTemp \in BOOLEAN
  /\ reportCounter \in 0 .. ReportEvery + 1 /\ quiet \in Nat

\* The three timers of the driver hand the measurement on: one of them runs at
\* any time, never two, and the sensor draws current only on the way to a
\* measurement, also when it did not answer.
OneMeasurement ==
  /\ Cardinality({c \in SensorTimers : Armed(c)}) = 1
  /\ DS18B20_POWER <=> ~ Armed("powerOn")

\* A second identify command, or a write, in the middle of a flash leaves no
\* LED burning: while it is lit a timer is running that will darken it, and no
\* more than that timer decides about it.
LitIsTimed == led => Armed("ledOff")

\* prevTemp is what was measured before, not what was reported.  With no
\* measurement waiting, the last report that left may differ from what was measured
\* last only because the last attempt was lost, or because every measurement so far
\* was the 0 that prevTemp starts with; and never for more than ReportEvery
\* measurements (one more at the start) without a new attempt.
LossIsMadeUp ==
  ~ newTemp /\ reported # temp =>
    \/ attempt = "lost" /\ quiet <= ReportEvery
    \/ attempt = "none" /\ temp = 0 /\ quiet <= ReportEvery + 1

\* The LED, once requests have stopped, goes dark for good, and the vote is
\* given back again and again: no mixture of the two users of the one vote
\* keeps the device from sleeping for ever.
SleepsAgain == <>[](~ led) /\ []<>(~ hold)

\* A report is tried over and over, also of a temperature that never changes,
\* if the sensor answers over and over.
HeartBeat ==
  /\ []<><<readTemperature \/ NoPresence>>_vars
  /\ []<><<finalizeReadTemp>>_vars => []<><<sendReport /\ Reports>>_vars
=============================================================================
