-------------------------- MODULE SensorNode_proofs --------------------------
(***************************************************************************)
(* The safety of the temperature node for every length of its timers and   *)
(* of the updates, in particular for updates that are longer than several  *)
(* of the timers and serve them in any order.                              *)
(***************************************************************************)
EXTENDS SensorNode, FiniteSetTheorems, TLAPS

\* A timer that is due is served by a running update.
TimersOK ==
  /\ left \in [Callbacks -> Int \cup {Off}]
  /\ charged \in Elapsed \cup {0}
  /\ charged = 0 => Due(left) = {}

\* The callback that is served stops, unless it starts itself, and the others run on.
LEMMA AfterArms ==
  ASSUME TimersOK, NEW cb, NEW starts,
         DOMAIN starts \subseteq Callbacks, \A c \in DOMAIN starts : starts[c] \in Int,
         left' \in After(cb, starts)
  PROVE  /\ left' \in [Callbacks -> Int \cup {Off}]
         /\ \A c \in Callbacks :
              left'[c] # Off <=> c \in DOMAIN starts \/ (c # cb /\ left[c] # Off)
<1>1. PICK base \in {0, charged} :
        left' = [c \in Callbacks |-> CASE c \in DOMAIN starts -> starts[c] - base
                                       [] c = cb /\ c \notin DOMAIN starts -> Off
                                       [] OTHER -> left[c]]
  BY DEF After
<1>2. base \in Int
  BY DEF TimersOK
<1>3. ASSUME NEW c \in Callbacks
      PROVE  /\ left'[c] \in Int \cup {Off}
             /\ left'[c] # Off <=> c \in DOMAIN starts \/ (c # cb /\ left[c] # Off)
  <2>1. CASE c \in DOMAIN starts
    <3>1. left'[c] = starts[c] - base
      BY <1>1, <2>1
    <3>2. left'[c] \in Int
      BY <1>2, <2>1, <3>1
    <3> QED
      BY <2>1, <3>2, SensorAssumption
  <2>2. CASE c \notin DOMAIN starts /\ c = cb
    BY <1>1, <2>2
  <2>3. CASE c \notin DOMAIN starts /\ c # cb
    BY <1>1, <2>3 DEF TimersOK
  <2> QED
    BY <2>1, <2>2, <2>3
<1> QED
  BY <1>1, <1>3

LEMMA ServedArms ==
  ASSUME TimersOK, NEW cb \in Callbacks, NEW starts,
         DOMAIN starts \subseteq Callbacks, \A c \in DOMAIN starts : starts[c] \in Int,
         Served(cb, starts)
  PROVE  /\ TimersOK'
         /\ left[cb] # Off
         /\ \A c \in Callbacks :
              left'[c] # Off <=> c \in DOMAIN starts \/ (c # cb /\ left[c] # Off)
<1>1. left' \in After(cb, starts) /\ cb \in Due(left)
  BY DEF Served
<1>2. charged' = IF Due(left') = {} THEN 0 ELSE charged
  BY DEF Served
<1>3. charged # 0
  BY <1>1 DEF TimersOK
<1>4. left[cb] # Off
  BY <1>1 DEF Due
<1>5. /\ left' \in [Callbacks -> Int \cup {Off}]
      /\ \A c \in Callbacks :
           left'[c] # Off <=> c \in DOMAIN starts \/ (c # cb /\ left[c] # Off)
  BY <1>1, AfterArms
<1> QED
  BY <1>2, <1>3, <1>4, <1>5 DEF TimersOK

\* Between updates a timer starts with its whole time, so that none is due.
LEMMA TaskArms ==
  ASSUME TimersOK, NEW starts, DOMAIN starts \subseteq Callbacks,
         \A c \in DOMAIN starts : starts[c] \in Nat \ {0}, TaskStarts(starts)
  PROVE  /\ TimersOK'
         /\ \A c \in Callbacks : left'[c] # Off <=> c \in DOMAIN starts \/ left[c] # Off
<1>1. left' \in After(Off, starts) /\ charged = 0 /\ charged' = 0
  BY DEF TaskStarts
<1>2. /\ left' \in [Callbacks -> Int \cup {Off}]
      /\ \A c \in Callbacks : left'[c] # Off <=> c \in DOMAIN starts \/ left[c] # Off
  BY <1>1, AfterArms, SensorAssumption
<1>3. left' = [c \in Callbacks |-> CASE c \in DOMAIN starts -> starts[c] - 0
                                     [] c = Off /\ c \notin DOMAIN starts -> Off
                                     [] OTHER -> left[c]]
  BY <1>1, Zenon DEF After
<1>4. ASSUME NEW c \in Callbacks, left'[c] # Off PROVE ~ (left'[c] <= 0)
  <2>1. CASE c \in DOMAIN starts
    <3>1. left'[c] = starts[c] - 0
      BY <1>3, <2>1
    <3>2. starts[c] \in Nat \ {0}
      BY <2>1
    <3> QED
      BY <3>1, <3>2
  <2>2. CASE c \notin DOMAIN starts
    <3>1. left'[c] = left[c]
      BY <1>3, <2>2, SensorAssumption
    <3> QED
      BY <1>1, <1>4, <3>1 DEF TimersOK, Due
  <2> QED
    BY <2>1, <2>2
<1> QED
  BY <1>1, <1>2, <1>4 DEF TimersOK, Due

LEMMA UpdateArms ==
  ASSUME TimersOK, NEW d \in Elapsed, Update(d)
  PROVE  TimersOK' /\ \A c \in Callbacks : left'[c] # Off <=> left[c] # Off
<1>1. /\ left' = [c \in Callbacks |-> IF left[c] # Off THEN left[c] - d ELSE Off]
      /\ charged' = IF Due(left') = {} THEN 0 ELSE d
  BY DEF Update, Armed
<1>2. d \in Nat \ {0}
  BY SensorAssumption
<1>3. ASSUME NEW c \in Callbacks
      PROVE  left'[c] \in Int \cup {Off} /\ (left'[c] # Off <=> left[c] # Off)
  BY <1>1, <1>2, SensorAssumption DEF TimersOK
<1> QED
  BY <1>1, <1>2, <1>3 DEF TimersOK

-----------------------------------------------------------------------------
(* The invariant.                                                          *)

\* One timer of the driver runs, and the sensor is powered unless it is powerOn.
Measuring ==
  /\ \E m \in SensorTimers :
       left[m] # Off /\ \A n \in SensorTimers : n # m => left[n] = Off
  /\ DS18B20_POWER = (left["powerOn"] = Off)

Flags == led \in BOOLEAN /\ hold \in BOOLEAN /\ newTemp \in BOOLEAN

Values ==
  /\ identifyTime \in Nat
  /\ requests \in 0 .. MaxRequests
  /\ {temp, prevTemp} \subseteq Temps \cup {0}
  /\ reported \in Temps \cup {0, NotReported}
  /\ attempt \in {"none", "sent", "lost"}
  /\ reportCounter \in 0 .. ReportEvery + 1 /\ quiet \in Nat

\* prevTemp is what was measured before, so what was reported if the last attempt
\* succeeded; and reportCounter counts the measurements since that attempt, which it
\* counts itself.
Reported ==
  /\ newTemp = FALSE => temp = prevTemp
  /\ attempt = "sent" => reported = prevTemp
  /\ attempt = "none" => prevTemp = 0
  /\ reportCounter = quiet + (IF attempt = "none" THEN 0 ELSE 1)

NodeInv == TimersOK /\ Measuring /\ LitIsTimed /\ Flags /\ Values /\ Reported

LEMMA NodeInvInit == Init => NodeInv
<1> SUFFICES ASSUME Init PROVE NodeInv
  OBVIOUS
<1>1. PICK answers \in BOOLEAN :
        /\ left = [c \in Callbacks |->
                     CASE c = "finalizeReadTemp" /\ answers -> Conversion
                       [] c = "powerOn" /\ ~ answers -> READ_PERIOD
                       [] OTHER -> Off]
        /\ DS18B20_POWER = answers
        /\ hold = answers
  BY Zenon DEF Init
<1>2. charged = 0
  BY DEF Init
<1>3. ASSUME answers = TRUE PROVE TimersOK /\ Measuring
  <2>1. left = [c \in Callbacks |-> IF c = "finalizeReadTemp" THEN Conversion ELSE Off]
    BY <1>1, <1>3
  <2>2. TimersOK
    BY <1>2, <2>1, SensorAssumption DEF TimersOK, Due
  <2>3. /\ left["finalizeReadTemp"] # Off /\ left["powerOn"] = Off
        /\ left["readTemperature"] = Off
    BY <2>1, SensorAssumption DEF SensorTimers, Callbacks
  <2>4. DS18B20_POWER = TRUE
    BY <1>1, <1>3
  <2> QED
    BY <2>2, <2>3, <2>4 DEF Measuring, SensorTimers
<1>4. ASSUME answers = FALSE PROVE TimersOK /\ Measuring
  <2>1. left = [c \in Callbacks |-> IF c = "powerOn" THEN READ_PERIOD ELSE Off]
    BY <1>1, <1>4
  <2>2. TimersOK
    BY <1>2, <2>1, SensorAssumption DEF TimersOK, Due
  <2>3. /\ left["finalizeReadTemp"] = Off /\ left["powerOn"] # Off
        /\ left["readTemperature"] = Off
    BY <2>1, SensorAssumption DEF SensorTimers, Callbacks
  <2>4. DS18B20_POWER = FALSE
    BY <1>1, <1>4
  <2> QED
    BY <2>2, <2>3, <2>4 DEF Measuring, SensorTimers
<1>5. Flags
  BY <1>1, Zenon DEF Init, Flags
<1>6. Values
  <2>1. /\ identifyTime = 0 /\ requests = 0 /\ temp = 0 /\ prevTemp = 0
        /\ reported = NotReported /\ attempt = "none"
        /\ reportCounter = 0 /\ quiet = 0
    BY DEF Init
  <2> QED
    BY <2>1, SensorAssumption DEF Values
<1>7. LitIsTimed
  BY Zenon DEF Init, LitIsTimed
<1>8. Reported
  BY DEF Init, Reported
<1> QED
  BY <1>1, <1>3, <1>4, <1>5, <1>6, <1>7, <1>8, Zenon DEF NodeInv

\* What an action does to the timers of the driver and of the LED.
LEMMA MeasuringHandedOn ==
  ASSUME Measuring, NEW m \in SensorTimers, NEW n \in SensorTimers, left[m] # Off,
         \A c \in Callbacks : left'[c] # Off <=> c = n \/ (c # m /\ left[c] # Off),
         DS18B20_POWER' = (n # "powerOn")
  PROVE  Measuring'
<1>1. SensorTimers \subseteq Callbacks
  BY DEF Callbacks
<1> QED
  BY <1>1 DEF Measuring, SensorTimers

LEMMA MeasuringKept ==
  ASSUME Measuring, DS18B20_POWER' = DS18B20_POWER,
         \A c \in SensorTimers : left'[c] # Off <=> left[c] # Off
  PROVE  Measuring'
BY DEF Measuring, SensorTimers

USE DEF identifyVars, reportVars

\* The driver hands its measurement on and leaves the LED alone.
LEMMA SensorServed ==
  ASSUME TimersOK, Measuring, LitIsTimed,
         NEW cb \in SensorTimers, NEW n \in SensorTimers, NEW k \in Nat \ {0},
         Served(cb, Start(n, k)), DS18B20_POWER' = (n # "powerOn"), led' = led
  PROVE  TimersOK' /\ Measuring' /\ LitIsTimed'
<1>1. /\ TimersOK' /\ left[cb] # Off
      /\ \A c \in Callbacks : left'[c] # Off <=> c = n \/ (c # cb /\ left[c] # Off)
  BY ServedArms DEF Start, Callbacks
<1>2. Measuring'
  BY <1>1, MeasuringHandedOn
<1>3. "ledOff" \in Callbacks /\ "ledOff" \notin SensorTimers
  BY DEF Callbacks, SensorTimers
<1>4. left["ledOff"] # Off => left'["ledOff"] # Off
  BY <1>1, <1>3
<1>5. LitIsTimed'
  BY <1>4, Zenon DEF LitIsTimed, Armed
<1> QED
  BY <1>1, <1>2, <1>5

LEMMA TimersInvNext ==
  ASSUME TimersOK, Measuring, LitIsTimed, identifyTime \in Nat, [Next]_vars
  PROVE  TimersOK' /\ Measuring' /\ LitIsTimed'
<1> USE SensorAssumption
<1>0. /\ SensorTimers \subseteq Callbacks /\ {"ledOn", "ledOff"} \subseteq Callbacks
      /\ "ledOff" \notin SensorTimers /\ "ledOn" \notin SensorTimers
      /\ {"powerOn", "readTemperature", "finalizeReadTemp"} \subseteq SensorTimers
  BY DEF Callbacks, SensorTimers
<1>1. CASE powerOn
  <2>1. /\ Served("powerOn", Start("readTemperature", PowerUp))
        /\ DS18B20_POWER' = TRUE /\ led' = led
    BY <1>1, Zenon DEF powerOn
  <2> QED
    BY <1>0, <2>1, SensorServed
<1>2. CASE readTemperature
  <2>1. /\ Served("readTemperature", Start("finalizeReadTemp", Conversion))
        /\ DS18B20_POWER' = TRUE /\ led' = led
    BY <1>2, Zenon DEF readTemperature
  <2> QED
    BY <1>0, <2>1, SensorServed
<1>3. CASE NoPresence
  <2>1. /\ Served("readTemperature", Start("powerOn", READ_PERIOD))
        /\ DS18B20_POWER' = FALSE /\ led' = led
    BY <1>3, Zenon DEF NoPresence, WaitRead
  <2> QED
    BY <1>0, <2>1, SensorServed
<1>4. CASE finalizeReadTemp
  <2>1. /\ Served("finalizeReadTemp", Start("powerOn", READ_PERIOD))
        /\ DS18B20_POWER' = FALSE /\ led' = led
    BY <1>4, Zenon DEF finalizeReadTemp, WaitRead
  <2> QED
    BY <1>0, <2>1, SensorServed
<1>5. CASE ledOn
  <2> DEFINE starts == LedOnStarts(identifyTime)
  <2>1. /\ Served("ledOn", starts)
        /\ led' = (identifyTime > 0) /\ DS18B20_POWER' = DS18B20_POWER
    BY <1>5, Zenon DEF ledOn, Lights
  <2>2. DOMAIN starts = IF identifyTime > 0 THEN {"ledOff"} ELSE {}
    BY DEF LedOnStarts, Start, NoStart
  <2>3. \A c \in DOMAIN starts : starts[c] \in Int
    BY DEF LedOnStarts, Start, NoStart
  <2> HIDE DEF starts
  <2>4. /\ TimersOK'
        /\ \A c \in Callbacks :
             left'[c] # Off <=> c \in DOMAIN starts \/ (c # "ledOn" /\ left[c] # Off)
    BY <1>0, <2>1, <2>2, <2>3, ServedArms
  <2>5. Measuring'
    BY <1>0, <2>1, <2>2, <2>4, MeasuringKept
  <2>6. identifyTime > 0 => left'["ledOff"] # Off
    BY <1>0, <2>2, <2>4
  <2>7. LitIsTimed'
    BY <2>1, <2>6, Zenon DEF LitIsTimed, Armed
  <2> QED
    BY <2>4, <2>5, <2>7
<1>6. CASE ledOff
  <2> DEFINE starts == IF identifyTime > 0 THEN Start("ledOn", OFF_TIME) ELSE NoStart
  <2>1. Served("ledOff", starts) /\ led' = FALSE /\ DS18B20_POWER' = DS18B20_POWER
    BY <1>6, Zenon DEF ledOff
  <2>2. DOMAIN starts = IF identifyTime > 0 THEN {"ledOn"} ELSE {}
    BY DEF Start, NoStart
  <2>3. \A c \in DOMAIN starts : starts[c] \in Int
    BY DEF Start, NoStart
  <2> HIDE DEF starts
  <2>4. /\ TimersOK'
        /\ \A c \in Callbacks :
             left'[c] # Off <=> c \in DOMAIN starts \/ (c # "ledOff" /\ left[c] # Off)
    BY <1>0, <2>1, <2>2, <2>3, ServedArms
  <2>5. Measuring'
    BY <1>0, <2>1, <2>2, <2>4, MeasuringKept
  <2>6. LitIsTimed'
    BY <2>1, Zenon DEF LitIsTimed
  <2> QED
    BY <2>4, <2>5, <2>6
<1>7. ASSUME NEW n \in IdentifyTimes, Identify(n)
      PROVE  TimersOK' /\ Measuring' /\ LitIsTimed'
  <2> DEFINE starts == LedOnStarts(n)
  <2>1. TaskStarts(starts) /\ led' = (n > 0) /\ DS18B20_POWER' = DS18B20_POWER
    BY <1>7, Zenon DEF Identify, Lights
  <2>2. DOMAIN starts = IF n > 0 THEN {"ledOff"} ELSE {}
    BY DEF LedOnStarts, Start, NoStart
  <2>3. \A c \in DOMAIN starts : starts[c] \in Nat \ {0}
    BY DEF LedOnStarts, Start, NoStart
  <2> HIDE DEF starts
  <2>4. /\ TimersOK'
        /\ \A c \in Callbacks : left'[c] # Off <=> c \in DOMAIN starts \/ left[c] # Off
    BY <1>0, <2>1, <2>2, <2>3, TaskArms
  <2>5. Measuring'
    BY <1>0, <2>1, <2>2, <2>4, MeasuringKept
  <2>6. n > 0 => left'["ledOff"] # Off
    BY <1>0, <2>2, <2>4
  <2>7. LitIsTimed'
    BY <2>1, <2>6, Zenon DEF LitIsTimed, Armed
  <2> QED
    BY <2>4, <2>5, <2>7
<1>8. ASSUME NEW d \in Elapsed, Update(d) PROVE TimersOK' /\ Measuring' /\ LitIsTimed'
  <2>1. TimersOK' /\ \A c \in Callbacks : left'[c] # Off <=> left[c] # Off
    BY <1>8, UpdateArms
  <2>2. led' = led /\ DS18B20_POWER' = DS18B20_POWER
    BY <1>8, Zenon DEF Update
  <2>3. Measuring'
    BY <1>0, <2>1, <2>2, MeasuringKept
  <2>4. left["ledOff"] # Off => left'["ledOff"] # Off
    BY <1>0, <2>1
  <2>5. LitIsTimed'
    BY <2>2, <2>4, Zenon DEF LitIsTimed, Armed
  <2> QED
    BY <2>1, <2>3, <2>5
<1>9. CASE sendReport \/ identifyClusterWriteAttribute \/ UNCHANGED vars
  <2>1. left' = left /\ charged' = charged /\ led' = led /\ DS18B20_POWER' = DS18B20_POWER
    BY <1>9, Zenon DEF sendReport, identifyClusterWriteAttribute, vars
  <2>2. TimersOK'
    BY <2>1 DEF TimersOK, Due
  <2>3. Measuring'
    BY <2>1, MeasuringKept
  <2>4. LitIsTimed'
    BY <2>1, Zenon DEF LitIsTimed, Armed
  <2> QED
    BY <2>2, <2>3, <2>4
<1> QED
  BY <1>1, <1>2, <1>3, <1>4, <1>5, <1>6, <1>7, <1>8, <1>9, Zenon
     DEF Next, Sensor, Led, Task, Time

LEMMA FlagsNext == ASSUME Flags, [Next]_vars PROVE Flags'
<1>1. CASE Sensor
  <2>1. led' = led /\ (hold' = TRUE \/ hold' = FALSE) /\ (newTemp' = newTemp \/ newTemp' = TRUE)
    BY <1>1 DEF Sensor, powerOn, readTemperature, NoPresence, finalizeReadTemp, WaitRead
  <2> QED
    BY <2>1, Zenon DEF Flags
<1>2. CASE ledOn
  <2>0. (identifyTime > 0) \in BOOLEAN
    OBVIOUS
  <2>1. newTemp' = newTemp /\ led' = (identifyTime > 0) /\ hold' = (identifyTime > 0)
    BY <1>2, Zenon DEF ledOn, Lights
  <2>2. led' \in BOOLEAN /\ hold' \in BOOLEAN
    BY <2>0, <2>1
  <2> QED
    BY <2>1, <2>2, Zenon DEF Flags
<1>3. CASE ledOff
  <2>1. led' = FALSE /\ newTemp' = newTemp /\ hold' = (hold /\ identifyTime > 0)
    BY <1>3, Zenon DEF ledOff
  <2>2. hold' \in BOOLEAN
    BY <2>1, Zenon
  <2> QED
    BY <2>1, <2>2, Zenon DEF Flags
<1>4. ASSUME NEW n \in IdentifyTimes, Identify(n) PROVE Flags'
  <2>0. (n > 0) \in BOOLEAN
    OBVIOUS
  <2>1. newTemp' = newTemp /\ led' = (n > 0) /\ hold' = (n > 0)
    BY <1>4, Zenon DEF Identify, Lights
  <2>2. led' \in BOOLEAN /\ hold' \in BOOLEAN
    BY <2>0, <2>1
  <2> QED
    BY <2>1, <2>2, Zenon DEF Flags
<1>5. CASE identifyClusterWriteAttribute \/ sendReport
  <2>1. led' = led /\ hold' = hold /\ (newTemp' = newTemp \/ newTemp' = FALSE)
    BY <1>5 DEF identifyClusterWriteAttribute, sendReport
  <2> QED
    BY <2>1, Zenon DEF Flags
<1>6. CASE Time \/ UNCHANGED vars
  <2>1. led' = led /\ hold' = hold /\ newTemp' = newTemp
    BY <1>6 DEF Time, Update, vars
  <2> QED
    BY <2>1, Zenon DEF Flags
<1> QED
  BY <1>1, <1>2, <1>3, <1>4, <1>5, <1>6, Zenon DEF Next, Led, Task

LEMMA ValuesNext ==
  ASSUME Flags, Values, Reported, [Next]_vars PROVE Values' /\ Reported'
<1> USE SensorAssumption DEF Values, Reported
<1>1. CASE powerOn
  BY <1>1 DEF powerOn
<1>2. CASE readTemperature
  BY <1>2 DEF readTemperature
<1>3. CASE NoPresence
  BY <1>3 DEF NoPresence, WaitRead
<1>4. CASE finalizeReadTemp
  BY <1>4 DEF finalizeReadTemp, WaitRead
<1>5. CASE ledOn
  BY <1>5 DEF ledOn, Lights
<1>6. CASE ledOff
  <2>1. /\ identifyTime' = IF identifyTime > 0 THEN identifyTime - 1 ELSE 0
        /\ UNCHANGED <<requests, temp, newTemp, reportVars>>
    BY <1>6, Zenon DEF ledOff
  <2> QED
    BY <2>1
<1>7. ASSUME NEW n \in IdentifyTimes, Identify(n) PROVE Values' /\ Reported'
  <2>1. identifyTime' = n /\ Request /\ UNCHANGED <<temp, newTemp, reportVars>>
    BY <1>7, Zenon DEF Identify
  <2> QED
    BY <2>1 DEF Request
<1>8. CASE identifyClusterWriteAttribute
  BY <1>8 DEF identifyClusterWriteAttribute, Request
<1>9. CASE sendReport
  <2>1. /\ UNCHANGED <<identifyTime, requests, temp>>
        /\ prevTemp' = temp
        /\ IF Reports THEN Attempt ELSE NoAttempt
    BY <1>9, Zenon DEF sendReport
  <2>2. newTemp' = FALSE
    BY <1>9, Zenon DEF sendReport
  <2>3. CASE Reports
    <3>1. Attempt
      BY <2>1, <2>3, Zenon
    <3> QED
      BY <2>1, <2>2, <3>1 DEF Attempt
  <2>4. CASE ~ Reports
    <3>1. NoAttempt
      BY <2>1, <2>4, Zenon
    <3>2. reportCounter <= ReportEvery /\ prevTemp = temp
      BY <2>4 DEF Reports
    <3> QED
      BY <2>1, <2>2, <3>1, <3>2 DEF NoAttempt
  <2> QED
    BY <2>3, <2>4
<1>10. ASSUME NEW d \in Elapsed, Update(d) PROVE Values' /\ Reported'
  BY <1>10 DEF Update
<1>11. CASE UNCHANGED vars
  BY <1>11 DEF vars
<1> QED
  BY <1>1, <1>2, <1>3, <1>4, <1>5, <1>6, <1>7, <1>8, <1>9, <1>10, <1>11, Zenon
     DEF Next, Sensor, Led, Task, Time

LEMMA NodeInvNext == NodeInv /\ [Next]_vars => NodeInv'
<1> SUFFICES ASSUME NodeInv, [Next]_vars PROVE NodeInv'
  OBVIOUS
<1>1. TimersOK /\ Measuring /\ LitIsTimed /\ Flags /\ Values /\ Reported
  BY Zenon DEF NodeInv
<1>2. identifyTime \in Nat
  BY <1>1 DEF Values
<1> QED
  BY <1>1, <1>2, TimersInvNext, FlagsNext, ValuesNext, Zenon DEF NodeInv

\* The state keeps its type, and no timer is due when no update runs.
THEOREM TypeCorrect == Spec => []TypeOK
<1>1. NodeInv => TypeOK
  <2> SUFFICES ASSUME NodeInv PROVE TypeOK
    OBVIOUS
  <2>1. TimersOK /\ Flags /\ Values
    BY Zenon DEF NodeInv
  <2>2. DS18B20_POWER \in BOOLEAN
    <3>1. DS18B20_POWER = (left["powerOn"] = Off)
      BY Zenon DEF NodeInv, Measuring
    <3> QED
      BY <3>1, Zenon
  <2> QED
    BY <2>1, <2>2, Zenon DEF TimersOK, Flags, Values, TypeOK
<1>2. QED
  BY <1>1, NodeInvInit, NodeInvNext, PTL DEF Spec

\* The timers of the driver hand on one measurement, with the sensor powered exactly
\* while it lasts, whether the sensor answers or not and however late it is served.
THEOREM MeasuresOnce == Spec => []OneMeasurement
<1>1. NodeInv => OneMeasurement
  <2> SUFFICES ASSUME Measuring PROVE OneMeasurement
    BY Zenon DEF NodeInv
  <2>1. PICK m \in SensorTimers :
          left[m] # Off /\ \A n \in SensorTimers : n # m => left[n] = Off
    BY DEF Measuring
  <2>2. {c \in SensorTimers : Armed(c)} = {m}
    BY <2>1 DEF Armed
  <2>3. Cardinality({c \in SensorTimers : Armed(c)}) = 1
    BY <2>2, FS_Singleton
  <2>4. DS18B20_POWER <=> ~ Armed("powerOn")
    BY Zenon DEF Measuring, Armed
  <2> QED
    BY <2>3, <2>4, Zenon DEF OneMeasurement
<1>2. QED
  BY <1>1, NodeInvInit, NodeInvNext, PTL DEF Spec

\* The LED is never lit without a timer that will darken it, whatever commands and
\* writes come between its callbacks.
THEOREM LedTimed == Spec => []LitIsTimed
<1>1. NodeInv => LitIsTimed
  BY DEF NodeInv
<1>2. QED
  BY <1>1, NodeInvInit, NodeInvNext, PTL DEF Spec

\* Whatever reports are lost, what was measured last and what has been reported differ
\* only after a lost attempt or before any was needed, and for a bounded number of
\* measurements.
THEOREM LossesMadeUp == Spec => []LossIsMadeUp
<1>1. NodeInv => LossIsMadeUp
  <2> SUFFICES ASSUME NodeInv, ~ newTemp, reported # temp
               PROVE  \/ attempt = "lost" /\ quiet <= ReportEvery
                      \/ attempt = "none" /\ temp = 0 /\ quiet <= ReportEvery + 1
    BY DEF LossIsMadeUp
  <2>0. Values /\ Reported /\ newTemp = FALSE
    BY Zenon DEF NodeInv, Flags
  <2>1. attempt # "sent" /\ (attempt = "none" => temp = 0)
    BY <2>0 DEF Reported
  <2>2. attempt \in {"none", "lost"}
    BY <2>0, <2>1 DEF Values
  <2>3. quiet <= (IF attempt = "none" THEN ReportEvery + 1 ELSE ReportEvery)
    BY <2>0, <2>2, SensorAssumption DEF Values, Reported
  <2> QED
    BY <2>1, <2>2, <2>3
<1>2. QED
  BY <1>1, NodeInvInit, NodeInvNext, PTL DEF Spec
=============================================================================
