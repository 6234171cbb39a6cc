------------------------- MODULE SmartSocket_proofs --------------------------
(***************************************************************************)
(* The power meter and the menu of the smart socket, for every size of the *)
(* timer, length of a mean and number of samples.                          *)
(***************************************************************************)
EXTENDS SmartSocket, SequenceTheorems, WellFoundedInduction, TLAPS

-----------------------------------------------------------------------------
(* Arithmetic.                                                             *)

LEMMA ModSmall ==
  ASSUME NEW n \in Nat \ {0}, NEW x \in 0 .. n - 1
  PROVE  x % n = x
OBVIOUS

LEMMA ModOnce ==
  ASSUME NEW n \in Nat \ {0}, NEW x \in n .. 2 * n - 1
  PROVE  x % n = x - n
OBVIOUS

\* Of periods that each are below n the mean is.
LEMMA MeanBound ==
  ASSUME NEW sum \in Nat, NEW c \in Nat \ {0}, NEW n \in Nat \ {0}, sum <= c * (n - 1)
  PROVE  sum \div c \in 0 .. n - 1
<1> DEFINE q == sum \div c
<1>1. q \in Nat /\ q * c <= sum
  OBVIOUS
<1> HIDE DEF q
<1>2. ASSUME q >= n PROVE FALSE
  <2>1. q * c >= n * c
    BY <1>1, <1>2
  <2>2. c * (n - 1) = n * c - c
    OBVIOUS
  <2> QED
    BY <1>1, <2>1, <2>2
<1> QED
  BY <1>1, <1>2 DEF q

\* The difference of two readings of the timer is the time between them, also when it
\* wrapped.
LEMMA PeriodTrue ==
  ASSUME NEW prev \in 0 .. TimerSize - 1, NEW p \in 1 .. TimerSize - 1
  PROVE  LET value == (prev + p) % TimerSize
         IN  value \in 0 .. TimerSize - 1 /\ Period(value, prev) = p
<1> USE SocketAssumption
<1>1. CASE prev + p < TimerSize
  <2>1. (prev + p) % TimerSize = prev + p
    BY <1>1, ModSmall
  <2> QED
    BY <1>1, <2>1 DEF Period
<1>2. CASE ~ (prev + p < TimerSize)
  <2>1. (prev + p) % TimerSize = prev + p - TimerSize
    BY <1>2, ModOnce
  <2>2. PICK value \in 0 .. TimerSize - 1 : value = prev + p - TimerSize /\ value < prev
    BY <1>2
  <2>3. (value + (TimerSize - 1) - prev + 1) = p
    BY <2>2
  <2>4. p % TimerSize = p
    BY ModSmall
  <2>5. Period(value, prev) = p
    BY <2>2, <2>3, <2>4 DEF Period
  <2> QED
    BY <2>1, <2>2, <2>5
<1> QED
  BY <1>1, <1>2

-----------------------------------------------------------------------------
(* The meter.                                                              *)

\* What the handlers have counted of each input: PulsesPerMean periods at most,
\* and no more ticks than so many periods can have.
MeterInv ==
  /\ prevValue \in [Channels -> 0 .. TimerSize - 1]
  /\ count \in [Channels -> 0 .. PulsesPerMean - 1]
  /\ mean \in [Channels -> 0 .. TimerSize - 1]
  /\ accCount \in [Channels -> Nat]
  /\ \A c \in Channels : accCount[c] <= count[c] * (TimerSize - 1)
  /\ accCount = elapsed

LEMMA NewMeter ==
  ASSUME prevValue = Zeros, accCount = Zeros, count = Zeros, mean = Zeros, elapsed = Zeros
  PROVE  MeterInv
BY SocketAssumption DEF MeterInv, Zeros

LEMMA PulseCounted ==
  ASSUME MeterInv, NEW c \in Channels, NEW p \in Periods, Pulse(c, p)
  PROVE  MeterInv'
<1> USE SocketAssumption
<1>1. p \in 1 .. TimerSize - 1 /\ prevValue[c] \in 0 .. TimerSize - 1
  BY DEF MeterInv
<1> DEFINE value == (prevValue[c] + p) % TimerSize
           acc == accCount[c] + p
           full == count[c] + 1 >= PulsesPerMean
<1>2. value \in 0 .. TimerSize - 1 /\ Period(value, prevValue[c]) = p
  BY <1>1, PeriodTrue
<1>3. /\ prevValue' = [prevValue EXCEPT ![c] = value]
      /\ accCount' = [accCount EXCEPT ![c] = IF full THEN 0 ELSE acc]
      /\ count' = [count EXCEPT ![c] = IF full THEN 0 ELSE @ + 1]
      /\ mean' = [mean EXCEPT ![c] = IF full THEN acc \div (count[c] + 1) ELSE @]
      /\ elapsed' = [elapsed EXCEPT ![c] = IF full THEN 0 ELSE @ + p]
  BY <1>2 DEF Pulse
<1>4. /\ acc \in Nat /\ count[c] \in 0 .. PulsesPerMean - 1
      /\ acc <= (count[c] + 1) * (TimerSize - 1)
  <2>1. /\ accCount[c] \in Nat /\ count[c] \in 0 .. PulsesPerMean - 1
        /\ accCount[c] <= count[c] * (TimerSize - 1)
    BY DEF MeterInv
  <2>2. (count[c] + 1) * (TimerSize - 1) = count[c] * (TimerSize - 1) + (TimerSize - 1)
    BY <2>1
  <2>3. count[c] * (TimerSize - 1) \in Nat
    BY <2>1
  <2> QED
    BY <1>1, <2>1, <2>2, <2>3
<1>5. acc \div (count[c] + 1) \in 0 .. TimerSize - 1
  <2>1. PICK k \in Nat \ {0} : k = count[c] + 1
    BY <1>4
  <2>2. PICK sum \in Nat : sum = acc
    BY <1>4
  <2>3. sum <= k * (TimerSize - 1)
    BY <1>4, <2>1, <2>2
  <2>4. sum \div k \in 0 .. TimerSize - 1
    BY <2>3, MeanBound
  <2> QED
    BY <2>1, <2>2, <2>4
<1> HIDE DEF value, acc
<1>6. prevValue' \in [Channels -> 0 .. TimerSize - 1]
  BY <1>2, <1>3 DEF MeterInv
<1>7. mean' \in [Channels -> 0 .. TimerSize - 1]
  BY <1>3, <1>5 DEF MeterInv
<1>8. count' \in [Channels -> 0 .. PulsesPerMean - 1]
  BY <1>3, <1>4 DEF MeterInv
<1>9. accCount' \in [Channels -> Nat]
  BY <1>3, <1>4 DEF MeterInv
<1>10. ASSUME NEW d \in Channels
       PROVE  accCount'[d] <= count'[d] * (TimerSize - 1)
  <2>1. CASE d # c
    <3>1. accCount'[d] = accCount[d] /\ count'[d] = count[d]
      BY <1>3, <2>1 DEF MeterInv
    <3> QED
      BY <3>1 DEF MeterInv
  <2>2. CASE d = c /\ full
    <3>1. accCount'[d] = 0 /\ count'[d] = 0
      BY <1>3, <2>2 DEF MeterInv
    <3> QED
      BY <3>1
  <2>3. CASE d = c /\ ~ full
    <3>1. accCount'[d] = acc /\ count'[d] = count[c] + 1
      BY <1>3, <2>3 DEF MeterInv
    <3> QED
      BY <3>1, <1>4
  <2> QED
    BY <2>1, <2>2, <2>3
<1>11. accCount' = elapsed'
  BY <1>3 DEF MeterInv, acc
<1> QED
  BY <1>6, <1>7, <1>8, <1>9, <1>10, <1>11 DEF MeterInv

LEMMA MeterStep ==
  ASSUME MeterInv, [Next]_vars
  PROVE  MeterInv'
<1> USE SocketAssumption
<1>1. ASSUME NEW c \in Channels, NEW p \in Periods, Pulse(c, p)
      PROVE  MeterInv'
  BY <1>1, PulseCounted
<1>2. ASSUME readCFs \/ BL0937_calibrate \/ Sample
      PROVE  MeterInv'
  <2>1. mean' = Zeros /\ UNCHANGED <<prevValue, accCount, count, elapsed>>
    BY <1>2 DEF readCFs, BL0937_calibrate, Sample
  <2>2. Zeros \in [Channels -> 0 .. TimerSize - 1]
    BY DEF Zeros
  <2> QED
    BY <2>1, <2>2 DEF MeterInv
<1>3. CASE UNCHANGED meterVars
  BY <1>3 DEF MeterInv, meterVars
<1>4. ASSUME startUI \/ shortPressMenu1 \/ Exit \/ Finish \/ Save \/ onOffClusterStart
             \/ onOffClusterSendReport \/ ZDOStateChange \/ UNCHANGED vars
      PROVE  MeterInv'
  BY <1>3, <1>4 DEF startUI, shortPressMenu1, Exit, Finish, Save, onOffClusterStart,
     onOffClusterSendReport, ZDOStateChange, vars
<1>5. ASSUME NEW on \in BOOLEAN, SetOnOff(on)
      PROVE  MeterInv'
  BY <1>3, <1>5 DEF SetOnOff
<1>6. CASE Reset
  <2>1. (prevValue = Zeros /\ accCount = Zeros /\ count = Zeros /\ mean = Zeros
          /\ elapsed = Zeros)'
    BY <1>6 DEF Reset, Zeros
  <2>2. Zeros \in [Channels -> 0 .. TimerSize - 1] /\ Zeros \in [Channels -> Nat]
        /\ Zeros \in [Channels -> 0 .. PulsesPerMean - 1]
    BY DEF Zeros
  <2> QED
    BY <2>1, <2>2 DEF MeterInv, Zeros
<1> QED
  BY <1>1, <1>2, <1>4, <1>5, <1>6 DEF Next, Loop, Interrupt, Button, calibrating

\* The ticks the handlers of the pulses add up are those that passed, through every wrap
\* of the timer (Timer1Isr, IOisr).
THEOREM TicksTrue == Spec => []TicksAreTrue
<1>1. Init => MeterInv
  BY NewMeter DEF Init
<1>2. MeterInv /\ [Next]_vars => MeterInv'
  BY MeterStep
<1>3. MeterInv => TicksAreTrue
  BY DEF MeterInv, TicksAreTrue
<1> QED
  BY <1>1, <1>2, <1>3, PTL DEF Spec

-----------------------------------------------------------------------------
(* The menu and the calibration.                                           *)

Entries == {"PRESS_BUTTON", "PRESS_BUTTON_LONG", "NEW_POWER"}

ShortPresses == {"shortPress0", "shortPressMenu1", "calibratingWaitPress"}

\* The two callbacks of the button belong to what the display shows; a calibration that
\* ends takes the short press and leaves the long press alone.
MenuInv ==
  /\ DOMAIN callbacks = Entries
  /\ callbacks["PRESS_BUTTON"] \in ShortPresses
  /\ callbacks["PRESS_BUTTON_LONG"] \in {"longPress0", "longPressMenu1"}
  /\ context \in 0 .. 2 /\ selectedRow \in 0 .. 2
  /\ ButtonsMatch

\* addEventCB replaces the entries of the functions it is given and keeps the others.
LEMMA Registered ==
  ASSUME NEW f, addEventCB(f), DOMAIN callbacks = Entries, DOMAIN f \subseteq Entries
  PROVE  /\ DOMAIN callbacks' = Entries
         /\ \A e \in Entries : callbacks'[e] = IF e \in DOMAIN f THEN f[e] ELSE callbacks[e]
BY DEF addEventCB

LEMMA MenuStep ==
  ASSUME MenuInv, [Next]_vars
  PROVE  MenuInv'
<1>1. CASE startUI
  <2> DEFINE f == MenuHandlers
  <2>1. DOMAIN f = {"PRESS_BUTTON", "PRESS_BUTTON_LONG"}
        /\ f["PRESS_BUTTON"] = "shortPressMenu1" /\ f["PRESS_BUTTON_LONG"] = "longPressMenu1"
    BY DEF MenuHandlers
  <2>2. addEventCB(f) /\ context' = 1 /\ UNCHANGED selectedRow
    BY <1>1 DEF startUI
  <2> HIDE DEF f
  <2>3. /\ DOMAIN callbacks' = Entries
        /\ callbacks'["PRESS_BUTTON"] = "shortPressMenu1"
        /\ callbacks'["PRESS_BUTTON_LONG"] = "longPressMenu1"
    BY <2>1, <2>2, Registered DEF MenuInv, Entries
  <2> QED
    BY <2>2, <2>3 DEF MenuInv, ShortPresses, ButtonsMatch, Pressed
<1>2. CASE Exit
  <2> DEFINE f == MainHandlers
  <2>1. DOMAIN f = {"PRESS_BUTTON", "PRESS_BUTTON_LONG"}
        /\ f["PRESS_BUTTON"] = "shortPress0" /\ f["PRESS_BUTTON_LONG"] = "longPress0"
    BY DEF MainHandlers
  <2>2. addEventCB(f) /\ context' = 0 /\ UNCHANGED selectedRow
    BY <1>2 DEF Exit
  <2> HIDE DEF f
  <2>3. /\ DOMAIN callbacks' = Entries
        /\ callbacks'["PRESS_BUTTON"] = "shortPress0"
        /\ callbacks'["PRESS_BUTTON_LONG"] = "longPress0"
    BY <2>1, <2>2, Registered DEF MenuInv, Entries
  <2> QED
    BY <2>2, <2>3 DEF MenuInv, ShortPresses, ButtonsMatch, Pressed
<1>3. CASE Save
  <2> DEFINE f == [PRESS_BUTTON |-> "calibratingWaitPress"]
  <2>1. DOMAIN f = {"PRESS_BUTTON"} /\ f["PRESS_BUTTON"] = "calibratingWaitPress"
    OBVIOUS
  <2>2. addEventCB(f) /\ UNCHANGED <<context, selectedRow>>
    BY <1>3 DEF Save
  <2> HIDE DEF f
  <2>3. /\ DOMAIN callbacks' = Entries
        /\ callbacks'["PRESS_BUTTON"] = "calibratingWaitPress"
        /\ callbacks'["PRESS_BUTTON_LONG"] = callbacks["PRESS_BUTTON_LONG"]
    BY <2>1, <2>2, Registered DEF MenuInv, Entries
  <2> QED
    BY <2>2, <2>3 DEF MenuInv, ShortPresses, ButtonsMatch, Pressed
<1>11. CASE Finish
  <2>1. UNCHANGED <<callbacks, context, selectedRow>> /\ saving' = TRUE
    BY <1>11 DEF Finish, uiVars
  <2> QED
    BY <2>1 DEF MenuInv, ButtonsMatch, Pressed
<1>4. CASE BL0937_calibrate
  BY <1>4 DEF BL0937_calibrate, MenuInv, ButtonsMatch, Pressed
<1>5. CASE shortPressMenu1
  BY <1>5 DEF shortPressMenu1, calVars, MenuInv, ButtonsMatch, Pressed
<1>6. CASE Reset
  BY <1>6 DEF Reset, Handlers, MenuInv, ButtonsMatch, Pressed, Entries, ShortPresses
<1>7. CASE UNCHANGED <<uiVars, running, saving>>
  BY <1>7 DEF uiVars, MenuInv, ButtonsMatch, Pressed
<1>8. ASSUME readCFs \/ Sample \/ onOffClusterStart \/ onOffClusterSendReport
             \/ ZDOStateChange \/ UNCHANGED vars
      PROVE  MenuInv'
  BY <1>7, <1>8 DEF readCFs, Sample, onOffClusterStart, onOffClusterSendReport,
     ZDOStateChange, calVars, vars
<1>9. ASSUME NEW c \in Channels, NEW p \in Periods, Pulse(c, p)
      PROVE  MenuInv'
  BY <1>7, <1>9 DEF Pulse, calVars
<1>10. ASSUME NEW on \in BOOLEAN, SetOnOff(on)
       PROVE  MenuInv'
  BY <1>7, <1>10 DEF SetOnOff, calVars
<1> QED
  BY <1>1, <1>2, <1>3, <1>4, <1>5, <1>6, <1>8, <1>9, <1>10, <1>11
     DEF Next, Loop, Interrupt, Button, calibrating

\* What the button does fits what the display shows, and a calibration that is over can
\* be left by a short press (startUI, longPressMenu1, calibrating in ui.c).
THEOREM MenuMatches == Spec => []ButtonsMatch
<1>1. Init => MenuInv
  BY DEF Init, Handlers, MenuInv, ButtonsMatch, Pressed, Entries, ShortPresses
<1>2. MenuInv /\ [Next]_vars => MenuInv'
  BY MenuStep
<1>3. MenuInv => ButtonsMatch
  BY DEF MenuInv
<1> QED
  BY <1>1, <1>2, <1>3, PTL DEF Spec

\* Each input has its coefficient, in RAM and in non-volatile memory.
CoefInv == DOMAIN coef = Channels /\ DOMAIN nv = Channels /\ DOMAIN power = Channels

LEMMA CoefStep ==
  ASSUME CoefInv, [Next]_vars
  PROVE  CoefInv'
<1>1. CASE UNCHANGED <<coefVars, power>>
  BY <1>1 DEF CoefInv, coefVars
<1>2. CASE Finish
  BY <1>2 DEF Finish, CoefInv
<1>8. CASE Save
  BY <1>8 DEF Save, CoefInv
<1>3. CASE Reset
  BY <1>3 DEF Reset, CoefInv, Zeros
<1>4. CASE readCFs
  BY <1>4 DEF readCFs, CoefInv, coefVars
<1>5. ASSUME NEW c \in Channels, NEW p \in Periods, Pulse(c, p)
      PROVE  CoefInv'
  BY <1>1, <1>5 DEF Pulse
<1>6. ASSUME NEW on \in BOOLEAN, SetOnOff(on)
      PROVE  CoefInv'
  BY <1>1, <1>6 DEF SetOnOff
<1>7. ASSUME Button \/ Sample \/ onOffClusterStart \/ onOffClusterSendReport
             \/ ZDOStateChange \/ UNCHANGED vars
      PROVE  CoefInv'
  BY <1>1, <1>7 DEF Button, startUI, shortPressMenu1, Exit, BL0937_calibrate, Sample,
     onOffClusterStart, onOffClusterSendReport, ZDOStateChange, vars
<1> QED
  BY <1>2, <1>3, <1>4, <1>5, <1>6, <1>7, <1>8 DEF Next, Loop, Interrupt, calibrating

-----------------------------------------------------------------------------
(* The sums of the calibration.                                            *)

\* A nonempty set of natural numbers has a least element; induction below is by
\* the least number for which a fact would fail.
LEMMA LeastElement ==
  ASSUME NEW S \in SUBSET Nat, S # {}
  PROVE  \E i \in S : \A j \in S : i <= j
<1>1. PICK i \in S : \A j \in S : ~ (<<j, i>> \in OpToRel(<, Nat))
  BY NatLessThanWellFounded, WFMin
<1>2. \A j \in S : ~ (j < i)
  BY <1>1, Zenon DEF OpToRel
<1> QED
  BY <1>2

\* s[k] is the sum of the first k of the n numbers f.
Sums(s, f, n) == s = [k \in 0 .. n |-> IF k = 0 THEN 0 ELSE s[k - 1] + f[k]]

LEMMA SumsAt ==
  ASSUME NEW f, NEW n, NEW s, Sums(s, f, n), NEW k \in 0 .. n
  PROVE  s[k] = IF k = 0 THEN 0 ELSE s[k - 1] + f[k]
BY Zenon DEF Sums

LEMMA SumsExist ==
  ASSUME NEW f, NEW n \in Nat, \A i \in 1 .. n : f[i] \in Nat
  PROVE  \E s \in [0 .. n -> Nat] : Sums(s, f, n)
<1> DEFINE Has(m) == \E s \in [0 .. m -> Nat] : Sums(s, f, m)
           Bad == {m \in 0 .. n : ~ Has(m)}
<1> HIDE DEF Has
<1>1. SUFFICES ASSUME Bad # {} PROVE FALSE
  BY DEF Has
<1>2. PICK m \in Bad : \A j \in Bad : m <= j
  <2>1. Bad \in SUBSET Nat
    OBVIOUS
  <2> QED
    BY <1>1, <2>1, LeastElement
<1>3. CASE m = 0
  <2>1. [k \in 0 .. 0 |-> 0] \in [0 .. m -> Nat] /\ Sums([k \in 0 .. 0 |-> 0], f, m)
    BY <1>3 DEF Sums
  <2> QED
    BY <1>2, <2>1 DEF Has
<1>4. CASE m > 0
  <2>1. m - 1 \in 0 .. n /\ m - 1 \notin Bad
    BY <1>2, <1>4
  <2>2. PICK s \in [0 .. m - 1 -> Nat] : Sums(s, f, m - 1)
    BY <2>1 DEF Has
  <2> DEFINE t == [k \in 0 .. m |-> IF k = m THEN s[m - 1] + f[m] ELSE s[k]]
  <2>3. t \in [0 .. m -> Nat]
    BY <1>2, <1>4
  <2>4. \A k \in 0 .. m - 1 : s[k] = IF k = 0 THEN 0 ELSE s[k - 1] + f[k]
    <3>1. ASSUME NEW k \in 0 .. m - 1
          PROVE  s[k] = IF k = 0 THEN 0 ELSE s[k - 1] + f[k]
      BY <2>2, Zenon DEF Sums
    <3> QED
      BY <3>1
  <2>5. \A k \in 0 .. m : t[k] = IF k = 0 THEN 0 ELSE t[k - 1] + f[k]
    BY <2>4, <1>4
  <2>6. Sums(t, f, m)
    BY <2>3, <2>5, Zenon DEF Sums
  <2> QED
    BY <1>2, <2>3, <2>6 DEF Has
<1> QED
  BY <1>2, <1>3, <1>4

LEMMA SumsUnique ==
  ASSUME NEW f, NEW m \in Nat, NEW n \in Nat, m <= n, NEW s, Sums(s, f, m), NEW t, Sums(t, f, n)
  PROVE  \A k \in 0 .. m : s[k] = t[k]
<1> DEFINE Bad == {k \in 0 .. m : s[k] # t[k]}
<1>1. SUFFICES ASSUME Bad # {} PROVE FALSE
  OBVIOUS
<1>2. PICK k \in Bad : \A j \in Bad : k <= j
  <2>1. Bad \in SUBSET Nat
    OBVIOUS
  <2> QED
    BY <1>1, <2>1, LeastElement
<1>3. /\ s[k] = IF k = 0 THEN 0 ELSE s[k - 1] + f[k]
      /\ t[k] = IF k = 0 THEN 0 ELSE t[k - 1] + f[k]
  <2>1. k \in 0 .. m /\ k \in 0 .. n
    OBVIOUS
  <2> QED
    BY <2>1, SumsAt
<1>4. CASE k = 0
  BY <1>2, <1>3, <1>4
<1>5. CASE k > 0
  <2>1. k - 1 \in 0 .. m /\ k - 1 \notin Bad
    BY <1>2, <1>5
  <2> QED
    BY <1>2, <1>3, <1>5, <2>1
<1> QED
  BY <1>2, <1>4, <1>5

\* What a list of samples has for input c, sample by sample.
Column(list, c) == [k \in 1 .. Len(list) |-> list[k][c]]
Samples == [Channels -> Nat]

\* SumOf is a sum.
LEMMA SumOfIs ==
  ASSUME NEW list \in Seq(Samples), NEW c \in Channels, NEW s, Sums(s, Column(list, c), Len(list))
  PROVE  SumOf(list, c) = s[Len(list)]
<1> DEFINE n == Len(list)
           Is(t) == t = [k \in 0 .. n |-> IF k = 0 THEN 0 ELSE t[k - 1] + list[k][c]]
           t == CHOOSE t : Is(t)
<1>1. n \in Nat
  BY LenProperties
<1>2. ASSUME NEW x, Sums(x, Column(list, c), n) PROVE Is(x)
  <2>1. x = [k \in 0 .. n |-> IF k = 0 THEN 0 ELSE x[k - 1] + Column(list, c)[k]]
    BY <1>2 DEF Sums
  <2>2. \A k \in 0 .. n : k # 0 => Column(list, c)[k] = list[k][c]
    BY <1>1 DEF Column
  <2> QED
    BY <2>1, <2>2
<1>3. Is(s)
  BY <1>2
<1>4. Is(t)
  BY <1>3
<1>5. SumOf(list, c) = t[n]
  BY DEF SumOf
<1> HIDE DEF t
<1>6. Sums(t, Column(list, c), n)
  <2>1. \A k \in 0 .. n : k # 0 => Column(list, c)[k] = list[k][c]
    BY <1>1 DEF Column
  <2> QED
    BY <1>4, <2>1 DEF Sums
<1>7. t[n] = s[n]
  BY <1>1, <1>6, SumsUnique
<1> QED
  BY <1>5, <1>7

\* One more sample adds what it has.
LEMMA SumOfMore ==
  ASSUME NEW list \in Seq(Samples), NEW m \in Samples, NEW c \in Channels
  PROVE  /\ SumOf(list, c) \in Nat
         /\ SumOf(<<m>>, c) = m[c]
         /\ SumOf(Append(list, m), c) = SumOf(list, c) + m[c]
<1> DEFINE n == Len(list)
           more == Append(list, m)
           f == Column(more, c)
           g == Column(list, c)
<1>1. /\ n \in Nat /\ more \in Seq(Samples) /\ Len(more) = n + 1 /\ more[n + 1] = m
      /\ \A i \in 1 .. n : more[i] = list[i] /\ list[i][c] \in Nat
      /\ m[c] \in Nat
  BY AppendProperties, LenProperties DEF Samples
<1> HIDE DEF more
<1>2. /\ \A i \in 1 .. n + 1 : f[i] \in Nat
      /\ \A i \in 1 .. n : g[i] \in Nat /\ f[i] = g[i]
      /\ f[n + 1] = m[c]
  BY <1>1 DEF Column
<1>3. PICK s \in [0 .. n + 1 -> Nat] : Sums(s, f, n + 1)
  BY <1>1, <1>2, SumsExist
<1>4. PICK t \in [0 .. n -> Nat] : Sums(t, g, n)
  BY <1>1, <1>2, SumsExist
<1>5. SumOf(more, c) = s[n + 1] /\ SumOf(list, c) = t[n] /\ t[n] \in Nat
  BY <1>1, <1>3, <1>4, SumOfIs
<1>6. s[n + 1] = s[n] + m[c]
  <2>1. n + 1 \in 0 .. n + 1 /\ n + 1 # 0 /\ (n + 1) - 1 = n
    BY <1>1
  <2> QED
    BY <1>2, <1>3, <2>1, SumsAt
<1>7. s[n] = t[n]
  <2> DEFINE r == [k \in 0 .. n |-> s[k]]
  <2>1. ASSUME NEW k \in 0 .. n PROVE r[k] = IF k = 0 THEN 0 ELSE r[k - 1] + g[k]
    <3>1. k \in 0 .. n + 1 /\ (k # 0 => k - 1 \in 0 .. n /\ k \in 1 .. n)
      BY <1>1
    <3>2. s[k] = IF k = 0 THEN 0 ELSE s[k - 1] + f[k]
      BY <1>3, <3>1, SumsAt
    <3> QED
      BY <1>2, <3>1, <3>2
  <2>2. Sums(r, g, n)
    BY <2>1, Zenon DEF Sums
  <2> HIDE DEF r
  <2>3. r[n] = t[n]
    BY <1>1, <1>4, <2>2, SumsUnique
  <2> QED
    BY <1>1, <2>3 DEF r
<1>8. SumOf(<<m>>, c) = m[c]
  <2>1. <<m>> \in Seq(Samples) /\ Len(<<m>>) = 1 /\ <<m>>[1] = m
    OBVIOUS
  <2>2. Column(<<m>>, c) = [k \in 1 .. 1 |-> m[c]]
    BY <2>1 DEF Column
  <2> DEFINE h == [k \in 1 .. 1 |-> m[c]]
             r == [k \in 0 .. 1 |-> IF k = 0 THEN 0 ELSE m[c]]
  <2>3. \A k \in 0 .. 1 : r[k] = IF k = 0 THEN 0 ELSE r[k - 1] + h[k]
    BY <1>1
  <2>4. Sums(r, h, 1)
    BY <2>3, Zenon DEF Sums
  <2>5. r[1] = m[c]
    OBVIOUS
  <2> HIDE DEF r, h
  <2>6. SumOf(<<m>>, c) = r[1]
    BY <2>1, <2>2, <2>4, SumOfIs DEF h
  <2> QED
    BY <2>5, <2>6
<1> QED
  BY <1>5, <1>6, <1>7, <1>8 DEF more

\* The totals are those of the samples; a calibration that is over keeps both.
CalInv ==
  /\ calibratingTot \in Samples /\ samples \in Seq(Samples)
  /\ OwnSamples

LEMMA NewCalibration == Init => CalInv
<1> SUFFICES ASSUME Init PROVE CalInv
  OBVIOUS
<1>1. Zeros \in Samples /\ <<>> \in Seq(Samples)
  BY DEF Zeros, Samples
<1> QED
  BY <1>1 DEF Init, CalInv, OwnSamples

LEMMA CalStep ==
  ASSUME MeterInv, CalInv, [Next]_vars
  PROVE  CalInv'
<1>1. mean \in Samples
  BY SocketAssumption DEF MeterInv, Samples
<1>2. CASE BL0937_calibrate
  <2>1. /\ calibratingTot' = mean /\ calibratingCount' = 1 /\ samples' = <<mean>>
    BY <1>2 DEF BL0937_calibrate
  <2>2. <<mean>> \in Seq(Samples) /\ Len(<<mean>>) = 1
    BY <1>1
  <2>3. \A c \in Channels : SumOf(<<mean>>, c) = mean[c]
    BY <1>1, <2>2, SumOfMore
  <2> QED
    BY <1>1, <2>1, <2>2, <2>3 DEF CalInv, OwnSamples
<1>3. CASE Sample
  <2>1. /\ running /\ calibratingTot' = [c \in Channels |-> calibratingTot[c] + mean[c]]
        /\ calibratingCount' = calibratingCount + 1 /\ samples' = Append(samples, mean)
    BY <1>3 DEF Sample
  <2>2. /\ samples \in Seq(Samples) /\ calibratingTot \in Samples
        /\ calibratingCount = Len(samples)
        /\ \A c \in Channels : calibratingTot[c] = SumOf(samples, c)
    BY <2>1 DEF CalInv, OwnSamples
  <2>3. Append(samples, mean) \in Seq(Samples) /\ Len(Append(samples, mean)) = Len(samples) + 1
    BY <1>1, <2>2, AppendProperties
  <2>4. \A c \in Channels : SumOf(Append(samples, mean), c) = calibratingTot[c] + mean[c]
    BY <1>1, <2>2, SumOfMore
  <2>5. calibratingTot' \in Samples
    BY <1>1, <2>1, <2>2 DEF Samples
  <2> QED
    BY <2>1, <2>2, <2>3, <2>4, <2>5 DEF CalInv, OwnSamples
<1>4. CASE Finish \/ Save
  BY <1>4 DEF Finish, Save, CalInv, OwnSamples
<1>5. CASE Reset
  <2>1. Zeros \in Samples /\ <<>> \in Seq(Samples)
    BY DEF Zeros, Samples
  <2> QED
    BY <1>5, <2>1 DEF Reset, CalInv, OwnSamples, Zeros
<1>6. CASE UNCHANGED calVars
  BY <1>6 DEF calVars, CalInv, OwnSamples
<1>7. ASSUME readCFs \/ startUI \/ shortPressMenu1 \/ Exit \/ onOffClusterStart
             \/ onOffClusterSendReport \/ ZDOStateChange \/ UNCHANGED vars
      PROVE  CalInv'
  BY <1>6, <1>7 DEF readCFs, startUI, shortPressMenu1, Exit, onOffClusterStart,
     onOffClusterSendReport, ZDOStateChange, vars
<1>8. ASSUME NEW c \in Channels, NEW p \in Periods, Pulse(c, p)
      PROVE  CalInv'
  BY <1>6, <1>8 DEF Pulse
<1>9. ASSUME NEW on \in BOOLEAN, SetOnOff(on)
      PROVE  CalInv'
  BY <1>6, <1>9 DEF SetOnOff
<1> QED
  BY <1>2, <1>3, <1>4, <1>5, <1>7, <1>8, <1>9 DEF Next, Loop, Interrupt, Button, calibrating

\* A calibration divides the sum of its own samples, by as many as there are, however the
\* user restarts or leaves it (BL0937_calibrate, calibrating in ui.c).
THEOREM SamplesOwn == Spec => []OwnSamples
<1>1. Init => MeterInv /\ CalInv
  <2> SUFFICES ASSUME Init PROVE MeterInv /\ CalInv
    OBVIOUS
  <2>1. MeterInv
    BY NewMeter DEF Init
  <2> QED
    BY <2>1, NewCalibration
<1>2. MeterInv /\ CalInv /\ [Next]_vars => (MeterInv /\ CalInv)'
  BY MeterStep, CalStep
<1>3. CalInv => OwnSamples
  BY DEF CalInv
<1> QED
  BY <1>1, <1>2, <1>3, PTL DEF Spec

-----------------------------------------------------------------------------
(* Types.                                                                  *)

\* What is left of TypeOK: the count of the calibration and the attributes.
RestOK ==
  /\ calibratingCount \in 0 .. CALIBRATING_SAMPLES
  /\ running \in BOOLEAN /\ saving \in BOOLEAN /\ newPower \in BOOLEAN
  /\ onOffValue \in BOOLEAN /\ relay \in BOOLEAN /\ connected \in BOOLEAN
  /\ reported \in BOOLEAN \union {NotReported}

LEMMA NewRest == Init => RestOK
<1> SUFFICES ASSUME Init PROVE RestOK
  OBVIOUS
<1>1. calibratingCount \in 0 .. CALIBRATING_SAMPLES
  BY SocketAssumption DEF Init
<1> QED
  BY <1>1, Zenon DEF Init, RestOK

LEMMA RestStep ==
  ASSUME RestOK, [Next]_vars
  PROVE  RestOK'
<1> USE SocketAssumption DEF RestOK
<1>1. CASE readCFs
  BY <1>1 DEF readCFs, calVars, onOffVars
<1>2. CASE BL0937_calibrate
  BY <1>2 DEF BL0937_calibrate, onOffVars
<1>3. CASE Sample
  BY <1>3 DEF Sample, onOffVars
<1>4. CASE Finish \/ Save
  BY <1>4 DEF Finish, Save, onOffVars
<1>5. ASSUME NEW on \in BOOLEAN, SetOnOff(on)
      PROVE  RestOK'
  BY <1>5, Zenon DEF SetOnOff, SendReport, calVars
<1>6. CASE onOffClusterStart
  BY <1>6, Zenon DEF onOffClusterStart, SendReport, calVars
<1>7. CASE onOffClusterSendReport
  BY <1>7, Zenon DEF onOffClusterSendReport, SendReport, calVars
<1>8. CASE ZDOStateChange
  BY <1>8, Zenon DEF ZDOStateChange, calVars
<1>9. CASE Reset
  <2>1. calibratingCount' \in 0 .. CALIBRATING_SAMPLES
    BY <1>9 DEF Reset
  <2> QED
    BY <1>9, <2>1, Zenon DEF Reset
<1>10. CASE UNCHANGED <<newPower, calVars, onOffVars>>
  BY <1>10 DEF calVars, onOffVars
<1>11. ASSUME NEW c \in Channels, NEW p \in Periods, Pulse(c, p)
       PROVE  RestOK'
  BY <1>10, <1>11 DEF Pulse
<1>12. ASSUME startUI \/ shortPressMenu1 \/ Exit \/ UNCHANGED vars
       PROVE  RestOK'
  BY <1>10, <1>12 DEF startUI, shortPressMenu1, Exit, vars
<1> QED
  BY <1>1, <1>2, <1>3, <1>4, <1>5, <1>6, <1>7, <1>8, <1>9, <1>11, <1>12
     DEF Next, Loop, Interrupt, Button, calibrating

\* The state keeps its types; above all no mean exceeds the timer's range, so that it fits
\* its uint16 (IOisr, Timer1Isr).
THEOREM TypeCorrect == Spec => []TypeOK
<1> DEFINE AllInv == MeterInv /\ MenuInv /\ CoefInv /\ RestOK
<1>1. Init => AllInv
  <2> SUFFICES ASSUME Init PROVE AllInv
    OBVIOUS
  <2>1. MeterInv
    BY NewMeter DEF Init
  <2>2. MenuInv
    BY DEF Init, Handlers, MenuInv, ButtonsMatch, Pressed, Entries, ShortPresses
  <2>3. CoefInv
    BY DEF Init, CoefInv, Zeros
  <2>4. RestOK
    BY NewRest
  <2> QED
    BY <2>1, <2>2, <2>3, <2>4
<1>2. AllInv /\ [Next]_vars => AllInv'
  BY MeterStep, MenuStep, CoefStep, RestStep
<1>3. AllInv => TypeOK
  BY DEF TypeOK, MeterInv, MenuInv, CoefInv, RestOK, ShortPresses
<1> QED
  BY <1>1, <1>2, <1>3, PTL DEF Spec

-----------------------------------------------------------------------------
(* What is saved.                                                          *)

\* Until calibrating returns, the coefficients in RAM are those of its samples.
SaveInv == saving => Measured(coef)

LEMMA SaveStep ==
  ASSUME RestOK, CalInv, SaveInv, [Next]_vars
  PROVE  SaveInv' /\ (nv' # nv => Measured(nv')) /\ (coef' # coef => coef' = nv' \/ Measured(coef'))
<1> USE DEF SaveInv
<1>1. CASE Finish
  <2>1. /\ running /\ calibratingCount >= CALIBRATING_SAMPLES
        /\ coef' = [c \in Channels |-> calibratingTot[c] \div CALIBRATING_SAMPLES]
        /\ samples' = samples /\ nv' = nv
    BY <1>1 DEF Finish
  <2>2. /\ calibratingCount = Len(samples)
        /\ \A c \in Channels : calibratingTot[c] = SumOf(samples, c)
    BY <2>1 DEF CalInv, OwnSamples
  <2>3. Len(samples) = CALIBRATING_SAMPLES
    BY <2>1, <2>2, SocketAssumption DEF RestOK
  <2>4. coef' = [c \in Channels |-> SumOf(samples, c) \div CALIBRATING_SAMPLES]
    BY <2>1, <2>2
  <2>5. Measured(coef') /\ Measured(coef)'
    BY <2>1, <2>3, <2>4 DEF Measured
  <2> QED
    BY <2>1, <2>5
<1>2. CASE Save
  <2>1. saving /\ saving' = FALSE /\ (nv' = coef \/ nv' = nv) /\ coef' = coef
    BY <1>2 DEF Save
  <2> QED
    BY <2>1
<1>3. CASE Reset
  <2>1. saving' = FALSE /\ nv' = nv /\ coef' = nv'
    BY <1>3 DEF Reset
  <2> QED
    BY <2>1
<1>4. ASSUME ~ saving, Loop, ~ Finish
      PROVE  saving' = saving /\ nv' = nv /\ coef' = coef
  <2>1. ASSUME NEW on \in BOOLEAN, SetOnOff(on)
        PROVE  saving' = saving /\ nv' = nv /\ coef' = coef
    BY <2>1 DEF SetOnOff, coefVars, calVars
  <2>2. ASSUME readCFs \/ Button \/ Sample
        PROVE  saving' = saving /\ nv' = nv /\ coef' = coef
    BY <2>2 DEF readCFs, Button, startUI, shortPressMenu1, Exit, BL0937_calibrate, Sample,
       coefVars, calVars
  <2>3. ASSUME onOffClusterStart \/ onOffClusterSendReport \/ ZDOStateChange
        PROVE  saving' = saving /\ nv' = nv /\ coef' = coef
    BY <2>3 DEF onOffClusterStart, onOffClusterSendReport, ZDOStateChange, coefVars, calVars
  <2> QED
    BY <1>4, <2>1, <2>2, <2>3 DEF Loop, calibrating
<1>5. ASSUME Interrupt \/ UNCHANGED vars
      PROVE  UNCHANGED <<saving, nv, coef, samples>>
  BY <1>5 DEF Interrupt, Pulse, vars, coefVars, calVars
<1>6. CASE UNCHANGED <<saving, nv, coef, samples>>
  BY <1>6 DEF Measured, SumOf
<1>7. CASE ~ saving /\ Loop
  <2>1. CASE ~ Finish
    BY <1>4, <1>7, <2>1
  <2> QED
    BY <1>1, <2>1
<1> QED
  BY <1>2, <1>3, <1>5, <1>6, <1>7 DEF Next

\* Only the result of a complete calibration replaces what is saved, and the meter works
\* with such a result or with what is saved, whenever a write or the supply fails
\* (calibrating in ui.c, saveConvertCoeff and BL0937_init in bl0937.c).
THEOREM CoefficientsMeasured == Spec => StoredIsMeasured
<1> DEFINE AllInv == MeterInv /\ RestOK /\ CalInv /\ SaveInv
<1>1. Init => AllInv
  <2> SUFFICES ASSUME Init PROVE AllInv
    OBVIOUS
  <2>1. MeterInv
    BY NewMeter DEF Init
  <2>2. RestOK
    BY NewRest
  <2>3. CalInv
    BY NewCalibration
  <2>4. SaveInv
    BY DEF Init, SaveInv
  <2> QED
    BY <2>1, <2>2, <2>3, <2>4
<1>2. AllInv /\ [Next]_vars => AllInv'
  BY MeterStep, RestStep, CalStep, SaveStep
<1>3. AllInv /\ [Next]_vars =>
        [/\ nv' # nv => Measured(nv')
         /\ coef' # coef => coef' = nv' \/ Measured(coef')]_vars
  BY SaveStep
<1> QED
  BY <1>1, <1>2, <1>3, PTL DEF Spec, StoredIsMeasured

=============================================================================
