-------------------------- MODULE OsalTimers_proofs --------------------------
(***************************************************************************)
(* Proofs about OsalTimers, for every table size, set of timers and set of *)
(* time values.                                                            *)
(***************************************************************************)
EXTENDS OsalTimers, FiniteSetTheorems, WellFoundedInduction, TLAPS

IInv == TypeOK /\ PassOK /\ UniqueTimers

-----------------------------------------------------------------------------
(* The choice of a slot.                                                   *)

\* A nonempty set of slots has a first element, as the search loops of the code
\* assume.
LEMMA FirstInSet ==
  ASSUME NEW S \in SUBSET Slots, S # {}
  PROVE  First(S) \in S /\ \A j \in S : First(S) <= j
<1>1. S \subseteq Nat
  BY SlotsAssumption DEF Slots
<1>2. PICK i \in S : \A j \in S : ~ (<<j, i>> \in OpToRel(<, Nat))
  BY <1>1, NatLessThanWellFounded, WFMin
<1>3. \A j \in S : ~ (j < i)
  BY <1>1, <1>2, Zenon DEF OpToRel
<1>4. \A j \in S : i <= j
  BY <1>1, <1>3
<1>. QED
  BY <1>4, Zenon DEF First

\* A start uses the slot the timer already has, else one that is free.
LEMMA SlotForOK ==
  ASSUME NEW id, HasSlot(id)
  PROVE  /\ SlotFor(id) \in Slots
         /\ SlotsOf(id) # {} => timerRec[SlotFor(id)].id = id
         /\ SlotsOf(id) = {} => SlotFor(id) \in FreeSlots
<1>. SlotsOf(id) \in SUBSET Slots /\ FreeSlots \in SUBSET Slots
  BY DEF SlotsOf, FreeSlots
<1>1. CASE SlotsOf(id) # {}
  <2>. First(SlotsOf(id)) \in SlotsOf(id)
    BY <1>1, FirstInSet
  <2>. QED
    BY <1>1 DEF SlotFor, SlotsOf
<1>2. CASE SlotsOf(id) = {}
  <2>. First(FreeSlots) \in FreeSlots
    BY <1>2, FirstInSet DEF HasSlot
  <2>. QED
    BY <1>2 DEF SlotFor, FreeSlots
<1>. QED
  BY <1>1, <1>2

-----------------------------------------------------------------------------
(* Types.                                                                  *)

LEMMA TypeInit == Init => TypeOK /\ PassOK
  BY SlotsAssumption, TimeAssumption, IdAssumption
  DEF Init, TypeOK, PassOK, TimerRec, Slots

LEMMA TypeStep ==
  ASSUME TypeOK, PassOK, [Next]_vars
  PROVE  TypeOK' /\ PassOK'
<1>. USE SlotsAssumption, TimeAssumption, IdAssumption
<1>1. ASSUME NEW id \in Timers, NEW n \in Timeouts, Start(id, n)
      PROVE  TypeOK' /\ PassOK'
  <2>. SlotFor(id) \in Slots
    BY <1>1, SlotForOK DEF Start
  <2>. QED
    BY <1>1 DEF Start, TypeOK, PassOK, TimerRec, passVars
<1>2. ASSUME NEW id \in Timers, NEW n \in Timeouts, StartReload(id, n)
      PROVE  TypeOK' /\ PassOK'
  BY <1>2 DEF StartReload, TypeOK, PassOK, TimerRec, passVars
<1>3. ASSUME NEW id \in Timers, StartRefused(id)
      PROVE  TypeOK' /\ PassOK'
  BY <1>3 DEF StartRefused, TypeOK, PassOK, vars
<1>4. ASSUME NEW id \in Timers, StopEvent(id)
      PROVE  TypeOK' /\ PassOK'
  BY <1>4 DEF StopEvent, TypeOK, PassOK, TimerRec, passVars
<1>5. ASSUME NEW id \in Timers, StopCallback(id)
      PROVE  TypeOK' /\ PassOK'
  BY <1>5 DEF StopCallback, TypeOK, PassOK, TimerRec, passVars
<1>6. ASSUME NEW d \in Elapsed, BeginUpdate(d)
      PROVE  TypeOK' /\ PassOK'
  <2>. (osal_systemClock + d) % ClockSize \in 0 .. ClockSize - 1
    BY DEF TypeOK
  <2>. QED
    BY <1>6 DEF BeginUpdate, TypeOK, PassOK, Slots
<1>7. CASE SkipFree
  BY <1>7 DEF SkipFree, TypeOK, PassOK, FreeSlots, Slots
<1>8. CASE SeeActive
  BY <1>8 DEF SeeActive, TypeOK, PassOK, ActiveSlots, Slots
<1>9. CASE ChargeSlot
  <2>1. iter \in Slots /\ timerRec[iter] \in TimerRec
    BY <1>9 DEF ChargeSlot, TypeOK, PassOK
  <2>2. timerRec[iter].timeout - updateTime \in Nat
    BY <1>9, <2>1 DEF ChargeSlot, TypeOK, TimerRec
  <2>3. [timerRec[iter] EXCEPT !.timeout = @ - updateTime] \in TimerRec
    BY <2>1, <2>2 DEF TimerRec
  <2>4. timerRec' \in [Slots -> TimerRec]
    BY <1>9, <2>3 DEF ChargeSlot, TypeOK
  <2>. QED
    BY <1>9, <2>1, <2>4 DEF ChargeSlot, TypeOK, PassOK, Slots
<1>10. ASSUME iter \in Slots
       PROVE  Expired(timerRec[iter]) \in TimerRec
  BY <1>10 DEF Expired, TypeOK, TimerRec
<1>11. CASE ExpireEvent
  <2>. tasksEvents' \in [Tasks -> SUBSET Events]
    BY <1>11 DEF ExpireEvent, SetEvent, TypeOK
  <2>. QED
    BY <1>10, <1>11 DEF ExpireEvent, TypeOK, PassOK, Slots
<1>12. CASE ExpireCallback
  BY <1>10, <1>12 DEF ExpireCallback, TypeOK, PassOK, Timers
<1>13. CASE CallbackReturns
  BY <1>13 DEF CallbackReturns, TypeOK, PassOK, Slots
<1>14. CASE EndUpdate
  BY <1>14 DEF EndUpdate, TypeOK, PassOK
<1>15. ASSUME NEW t \in Tasks, TakeEvents(t)
       PROVE  TypeOK' /\ PassOK'
  BY <1>15 DEF TakeEvents, TypeOK, PassOK, passVars
<1>16. CASE UNCHANGED vars
  BY <1>16 DEF vars, TypeOK, PassOK
<1>. QED
  BY <1>1, <1>2, <1>3, <1>4, <1>5, <1>6, <1>7, <1>8, <1>9, <1>11, <1>12,
     <1>13, <1>14, <1>15, <1>16 DEF Next, Pass

-----------------------------------------------------------------------------
(* No timer holds two slots.                                               *)

\* Writing a record into one slot keeps ids unique when no other slot has its
\* id, in particular when it frees the slot.
LEMMA UniqueUpdate ==
  ASSUME TypeOK, UniqueTimers,
         NEW k \in Slots, NEW rec,
         rec.id = NoTimer \/ \A i \in Slots \ {k} : timerRec[i].id # rec.id,
         timerRec' = [timerRec EXCEPT ![k] = rec]
  PROVE  UniqueTimers'
  BY DEF TypeOK, UniqueTimers, ActiveSlots

\* The start functions look the timer up before they take a free slot.
LEMMA UniqueStart ==
  ASSUME TypeOK, UniqueTimers,
         NEW id \in Timers, HasSlot(id), NEW rec, rec.id = id,
         timerRec' = [timerRec EXCEPT ![SlotFor(id)] = rec]
  PROVE  UniqueTimers'
<1>1. SlotFor(id) \in Slots
  BY SlotForOK
<1>2. \A i \in Slots \ {SlotFor(id)} : timerRec[i].id # id
  <2>1. CASE SlotsOf(id) # {}
    BY <2>1, <1>1, SlotForOK, IdAssumption DEF UniqueTimers, ActiveSlots
  <2>2. CASE SlotsOf(id) = {}
    BY <2>2 DEF SlotsOf
  <2>. QED
    BY <2>1, <2>2
<1>. QED
  BY <1>1, <1>2, UniqueUpdate

LEMMA UniqueStep ==
  ASSUME TypeOK, PassOK, UniqueTimers, [Next]_vars
  PROVE  UniqueTimers'
<1>1. ASSUME NEW id \in Timers, NEW n \in Timeouts, Start(id, n)
      PROVE  UniqueTimers'
  <2> DEFINE period == IF SlotsOf(id) # {}
                       THEN timerRec[SlotFor(id)].reloadTimeout ELSE 0
             rec == [id |-> id, timeout |-> n, reloadTimeout |-> period]
  <2>1. rec.id = id
    OBVIOUS
  <2>2. HasSlot(id) /\ timerRec' = [timerRec EXCEPT ![SlotFor(id)] = rec]
    BY <1>1 DEF Start
  <2> HIDE DEF rec
  <2>. QED
    BY <2>1, <2>2, UniqueStart
<1>2. ASSUME NEW id \in Timers, NEW n \in Timeouts, StartReload(id, n)
      PROVE  UniqueTimers'
  <2> DEFINE rec == [id |-> id, timeout |-> n, reloadTimeout |-> n]
  <2>1. rec.id = id
    OBVIOUS
  <2>2. HasSlot(id) /\ timerRec' = [timerRec EXCEPT ![SlotFor(id)] = rec]
    BY <1>2 DEF StartReload
  <2> HIDE DEF rec
  <2>. QED
    BY <2>1, <2>2, UniqueStart
<1>3. ASSUME NEW id \in Timers, StopEvent(id)
      PROVE  UniqueTimers'
  BY <1>3 DEF StopEvent, TypeOK, UniqueTimers, ActiveSlots, TimerRec
<1>4. ASSUME NEW id \in Timers, StopCallback(id)
      PROVE  UniqueTimers'
  BY <1>4 DEF StopCallback, TypeOK, UniqueTimers, ActiveSlots, TimerRec
<1>5. CASE ChargeSlot
  <2>1. iter \in Slots
    BY <1>5 DEF ChargeSlot, PassOK
  <2>2. \A i \in Slots : timerRec'[i].id = timerRec[i].id
    BY <1>5, <2>1 DEF ChargeSlot, TypeOK, TimerRec
  <2>. QED
    BY <2>2 DEF UniqueTimers, ActiveSlots
<1>6. CASE ExpireEvent \/ ExpireCallback
  <2> DEFINE rec == Expired(timerRec[iter])
  <2>1. iter \in Slots
    BY <1>6 DEF ExpireEvent, ExpireCallback, PassOK
  <2>2. rec.id \in {NoTimer, timerRec[iter].id}
    BY <2>1 DEF Expired, TypeOK, TimerRec
  <2>3. rec.id = NoTimer \/ \A i \in Slots \ {iter} : timerRec[i].id # rec.id
    BY <2>1, <2>2 DEF UniqueTimers, ActiveSlots
  <2>4. timerRec' = [timerRec EXCEPT ![iter] = rec]
    BY <1>6 DEF ExpireEvent, ExpireCallback
  <2> HIDE DEF rec
  <2>. QED
    BY <2>1, <2>3, <2>4, UniqueUpdate
<1>7. ASSUME UNCHANGED timerRec
      PROVE  UniqueTimers'
  BY <1>7 DEF UniqueTimers, ActiveSlots
<1>. QED
  BY <1>1, <1>2, <1>3, <1>4, <1>5, <1>6, <1>7
  DEF Next, Pass, vars, passVars, StartRefused, BeginUpdate, SkipFree,
      SeeActive, CallbackReturns, EndUpdate, TakeEvents

-----------------------------------------------------------------------------
(* The table implements the timer service.                                 *)

\* The timer in slot i, as the service sees it.
View(i) == [id |-> timerRec[i].id, left |-> Left(i),
            period |-> timerRec[i].reloadTimeout]

DueAt(i) == i \in Uncharged /\ Left(i) <= 0

\* A step leaves what the service sees of slot i.
Kept(i) ==
  /\ timerRec'[i].id = timerRec[i].id
  /\ timerRec[i].id # NoTimer => View(i)' = View(i) /\ (DueAt(i)' <=> DueAt(i))

LEMMA Seen ==
  /\ Armed = {View(i) : i \in ActiveSlots}
  /\ Due = {timerRec[i].id : i \in {j \in ActiveSlots : DueAt(j)}}
BY DEF Armed, View, Due, DueAt

LEMMA AllKept ==
  ASSUME \A i \in Slots : Kept(i)
  PROVE  Armed' = Armed /\ Due' = Due
<1>1. ActiveSlots' = ActiveSlots
  BY DEF ActiveSlots, Kept
<1>2. \A i \in ActiveSlots :
        View(i)' = View(i) /\ timerRec'[i].id = timerRec[i].id /\ (DueAt(i)' <=> DueAt(i))
  BY DEF ActiveSlots, Kept
<1>3. Armed' = {View(i)' : i \in ActiveSlots'}
      /\ Due' = {timerRec'[i].id : i \in {j \in ActiveSlots' : DueAt(j)'}}
  BY DEF Armed, View, Due, DueAt
<1>. QED
  BY <1>1, <1>2, <1>3, Seen

\* A step changes one slot, to or from the timer id.
LEMMA OneChanged ==
  ASSUME NEW k \in Slots, NEW id \in Timers,
         timerRec[k].id \in {id, NoTimer},
         \A i \in Slots \ {k} : Kept(i) /\ timerRec[i].id # id
  PROVE  /\ Armed' = Service!Others(id) \cup {View(i)' : i \in ActiveSlots' \cap {k}}
         /\ Due' = (Due \ {id}) \cup
                   {timerRec'[i].id : i \in {j \in ActiveSlots' \cap {k} : DueAt(j)'}}
         /\ Service!Armed(id) <=> timerRec[k].id = id
<1> DEFINE Rest == {i \in Slots \ {k} : timerRec[i].id # NoTimer}
<1>1. ActiveSlots' = Rest \cup (ActiveSlots' \cap {k})
      /\ ActiveSlots = Rest \cup (ActiveSlots \cap {k})
  BY DEF ActiveSlots, Kept
<1>2. \A i \in Rest : /\ View(i)' = View(i) /\ timerRec'[i].id = timerRec[i].id
                      /\ DueAt(i)' <=> DueAt(i)
                      /\ timerRec[i].id # id
  BY DEF Kept
<1>3. \A i \in ActiveSlots : View(i).id = timerRec[i].id
  BY DEF View
<1>4. \A i \in ActiveSlots \cap {k} : timerRec[i].id = id
  BY DEF ActiveSlots
<1>5. Service!Others(id) = {View(i) : i \in Rest}
  BY <1>1, <1>2, <1>3, <1>4, Seen DEF Service!Others
<1>6. Due \ {id} = {timerRec[i].id : i \in {j \in Rest : DueAt(j)}}
  BY <1>1, <1>2, <1>4, Seen
<1>7. Armed' = {View(i)' : i \in ActiveSlots'}
      /\ Due' = {timerRec'[i].id : i \in {j \in ActiveSlots' : DueAt(j)'}}
  BY DEF Armed, View, Due, DueAt
<1>8. Service!Armed(id) <=> timerRec[k].id = id
  BY <1>1, <1>2, <1>3, <1>4, Seen, IdAssumption DEF Service!Armed, ActiveSlots
<1> HIDE DEF Rest
<1>9. Armed' = {View(i)' : i \in Rest} \cup {View(i)' : i \in ActiveSlots' \cap {k}}
  BY <1>1, <1>7
<1>10. Due' = {timerRec'[i].id : i \in {j \in Rest : DueAt(j)'}} \cup
              {timerRec'[i].id : i \in {j \in ActiveSlots' \cap {k} : DueAt(j)'}}
  BY <1>1, <1>7
<1>. QED
  BY <1>2, <1>5, <1>6, <1>8, <1>9, <1>10

\* With a slot free, fewer timers are armed than the table has slots.
LEMMA RoomLeft ==
  ASSUME FreeSlots # {}
  PROVE  Cardinality(Armed) < MaxElements
<1>1. IsFiniteSet(Slots) /\ Cardinality(Slots) = MaxElements
  BY FS_Interval, SlotsAssumption DEF Slots
<1>2. ActiveSlots \subseteq Slots /\ ActiveSlots # Slots
  BY DEF ActiveSlots, FreeSlots
<1>3. IsFiniteSet(ActiveSlots) /\ Cardinality(ActiveSlots) < MaxElements
  <2>1. /\ IsFiniteSet(ActiveSlots) /\ Cardinality(ActiveSlots) <= MaxElements
        /\ Cardinality(ActiveSlots) # MaxElements
    BY <1>1, <1>2, FS_Subset
  <2>2. Cardinality(ActiveSlots) \in Nat
    BY <2>1, FS_CardinalityType
  <2>. QED
    BY <2>1, <2>2, SlotsAssumption
<1>4. IsFiniteSet(Armed) /\ Cardinality(Armed) <= Cardinality(ActiveSlots)
  <2> DEFINE f == [i \in ActiveSlots |-> View(i)]
  <2>1. f \in Surjection(ActiveSlots, Armed)
    BY Seen DEF Surjection
  <2>. QED
    BY <1>3, <2>1, FS_Surjection
<1>. QED
  BY <1>3, <1>4, FS_CardinalityType, SlotsAssumption

LEMMA SlotKept ==
  ASSUME NEW i \in Slots, timerRec'[i] = timerRec[i], updateTime' = updateTime,
         i \in Uncharged' <=> i \in Uncharged
  PROVE  Kept(i)
BY DEF Kept, View, DueAt, Left

\* Who may call the table may call the service.
LEMMA Callers ==
  ASSUME PassOK, NEW id, MayCall(id)
  PROVE  Service!MayCall(id)
BY DEF PassOK, MayCall, Service!MayCall

LEMMA ArmRefines ==
  ASSUME IInv, NEW id \in Timers, NEW n \in Timeouts, NEW period \in Nat,
         MayCall(id), HasSlot(id),
         timerRec' = [timerRec EXCEPT ![SlotFor(id)] =
                        [id |-> id, timeout |-> n, reloadTimeout |-> period]],
         UNCHANGED <<tasksEvents, passVars>>
  PROVE  Service!ArmFor(id, n, period)
<1>1. PICK k \in Slots : k = SlotFor(id) /\ timerRec[k].id \in {id, NoTimer}
  BY SlotForOK DEF FreeSlots
<1> DEFINE base == IF k \in Uncharged THEN updateTime ELSE 0
<1>2. \A i \in Slots \ {k} : timerRec[i].id # id
  <2>1. CASE SlotsOf(id) # {}
    BY <2>1, <1>1, SlotForOK, IdAssumption DEF IInv, UniqueTimers, ActiveSlots
  <2>2. CASE SlotsOf(id) = {}
    BY <2>2 DEF SlotsOf
  <2>. QED
    BY <2>1, <2>2
<1>3. SlotsOf(id) # {} => timerRec[k].id = id
  BY <1>1, SlotForOK
<1>4. FreeSlots # {} \/ timerRec[k].id = id
  BY <1>3 DEF HasSlot
<1>5. /\ timerRec' = [timerRec EXCEPT ![k] =
                        [id |-> id, timeout |-> n, reloadTimeout |-> period]]
      /\ timerRec \in [Slots -> TimerRec]
  BY <1>1 DEF IInv, TypeOK
<1>6. Uncharged' = Uncharged /\ updateTime' = updateTime /\ updateTime \in Nat
  BY DEF passVars, Uncharged, IInv, TypeOK
<1>7. \A i \in Slots \ {k} : Kept(i)
  BY <1>5, <1>6, SlotKept
<1>8. /\ timerRec'[k] = [id |-> id, timeout |-> n, reloadTimeout |-> period]
      /\ ActiveSlots' \cap {k} = {k}
  BY <1>1, <1>5, IdAssumption DEF ActiveSlots
<1>9. k \in Uncharged => updateTime # 0
  BY DEF Uncharged, IInv, PassOK
<1>10. n \in Nat /\ base \in Nat
  BY <1>6, TimeAssumption
<1>11. /\ View(k)' = [id |-> id, left |-> n - base, period |-> period]
       /\ DueAt(k)' <=> base # 0 /\ n <= base
  BY <1>6, <1>8, <1>9, <1>10 DEF View, DueAt, Left
<1>12. /\ Armed' = Service!Others(id) \cup {View(i)' : i \in ActiveSlots' \cap {k}}
       /\ Due' = (Due \ {id}) \cup
                 {timerRec'[i].id : i \in {j \in ActiveSlots' \cap {k} : DueAt(j)'}}
       /\ Service!Armed(id) <=> timerRec[k].id = id
  BY <1>1, <1>2, <1>7, OneChanged
<1>13. Armed' = Service!Others(id) \cup {[id |-> id, left |-> n - base, period |-> period]}
  <2>1. {View(i)' : i \in ActiveSlots' \cap {k}} = {View(k)'}
    BY <1>8
  <2>. QED
    BY <1>11, <1>12, <2>1
<1>14. Due' = (Due \ {id}) \cup {x \in {id} : base # 0 /\ n <= base}
  <2>1. {timerRec'[i].id : i \in {j \in ActiveSlots' \cap {k} : DueAt(j)'}}
          = {x \in {id} : DueAt(k)'}
    BY <1>8
  <2>. QED
    BY <1>11, <1>12, <2>1
<1>15. Service!Armed(id) \/ Service!Cardinality(Armed) < MaxElements
  <2>1. Service!Cardinality(Armed) = Cardinality(Armed)
    BY DEF Service!Cardinality, Cardinality
  <2>. QED
    BY <1>4, <1>12, <2>1, RoomLeft
<1>16. Service!MayCall(id)
  BY Callers DEF IInv
<1>17. base \in {0, updateTime} /\ UNCHANGED <<updateTime, callback, tasksEvents>>
  BY DEF passVars
<1> HIDE DEF base
<1>18. \E b \in {0, updateTime} :
         /\ Armed' = Service!Others(id) \cup {[id |-> id, left |-> n - b, period |-> period]}
         /\ Due' = (Due \ {id}) \cup {x \in {id} : b # 0 /\ n <= b}
  BY <1>13, <1>14, <1>17
<1>. QED
  BY <1>15, <1>16, <1>17, <1>18 DEF Service!ArmFor

LEMMA StartRefines ==
  ASSUME IInv, NEW id \in Timers, NEW n \in Timeouts, Start(id, n)
  PROVE  Service!Arm(id, n)
<1>1. PICK k \in Slots : k = SlotFor(id) /\ (SlotsOf(id) # {} => timerRec[k].id = id)
  BY SlotForOK DEF Start
<1>2. PICK period \in Nat :
        period = IF SlotsOf(id) # {} THEN timerRec[k].reloadTimeout ELSE 0
  BY <1>1 DEF IInv, TypeOK, TimerRec
<1>3. Service!ArmFor(id, n, period)
  BY <1>1, <1>2, ArmRefines DEF Start
<1>4. CASE SlotsOf(id) # {}
  <2>1. k \in ActiveSlots
    BY <1>1, <1>4, IdAssumption DEF ActiveSlots
  <2>2. View(k) \in Armed /\ View(k).id = id /\ View(k).period = period
    BY <1>1, <1>2, <1>4, <2>1, Seen DEF View
  <2>. QED
    BY <1>3, <2>2 DEF Service!Arm
<1>5. CASE SlotsOf(id) = {}
  <2>1. ~ Service!Armed(id)
    BY <1>5, Seen DEF Service!Armed, View, SlotsOf, ActiveSlots
  <2>. QED
    BY <1>2, <1>3, <1>5, <2>1 DEF Service!Arm
<1>. QED
  BY <1>4, <1>5

LEMMA DisarmRefines ==
  ASSUME IInv, NEW id \in Timers, MayCall(id), NEW k \in Slots,
         timerRec[k].id = id, timerRec'[k].id = NoTimer,
         \A i \in Slots \ {k} : timerRec'[i] = timerRec[i],
         UNCHANGED <<tasksEvents, passVars>>
  PROVE  Service!Disarm(id)
<1>1. Uncharged' = Uncharged /\ updateTime' = updateTime
  BY DEF passVars, Uncharged
<1>2. \A i \in Slots \ {k} : Kept(i) /\ timerRec[i].id # id
  BY <1>1, SlotKept, IdAssumption DEF IInv, UniqueTimers, ActiveSlots
<1>3. ActiveSlots' \cap {k} = {}
  BY DEF ActiveSlots
<1>4. Armed' = Service!Others(id) /\ Due' = Due \ {id} /\ Service!Armed(id)
  <2>1. /\ Armed' = Service!Others(id) \cup {View(i)' : i \in ActiveSlots' \cap {k}}
        /\ Due' = (Due \ {id}) \cup
                  {timerRec'[i].id : i \in {j \in ActiveSlots' \cap {k} : DueAt(j)'}}
        /\ Service!Armed(id)
    BY <1>2, OneChanged
  <2>. QED
    BY <1>3, <2>1
<1>5. Service!MayCall(id) /\ UNCHANGED <<updateTime, callback, tasksEvents>>
  BY Callers DEF IInv, passVars
<1>. QED
  BY <1>4, <1>5 DEF Service!Disarm

\* The timer of the slot at hand expires.
LEMMA ServeRefines ==
  ASSUME IInv, pc = "charge", NEW k \in Slots, iter = k, NEW id \in Timers, timerRec[k].id = id,
         timerRec[k].timeout <= updateTime,
         timerRec' = [timerRec EXCEPT ![k] = Expired(@)],
         updateTime' = updateTime,
         \/ pc' = "scan" /\ iter' = iter + 1
         \/ pc' = "callback" /\ iter' = iter
  PROVE  LET t == View(k)
         IN  /\ t \in Armed /\ t.id = id /\ id \in Due
             /\ Armed' = Service!Others(t.id) \cup
                         {u \in {[t EXCEPT !.left = t.period]} : t.period # 0}
             /\ Due' = Due \ {t.id}
<1>1. timerRec \in [Slots -> TimerRec] /\ updateTime \in Nat
      /\ Slots \subseteq Nat
  BY DEF IInv, PassOK, TypeOK, Slots
<1>2. \A i \in Slots : /\ i \in Uncharged <=> i >= k
                       /\ i \in Uncharged' <=> i > k
  BY <1>1 DEF Uncharged
<1>3. \A i \in Slots \ {k} : Kept(i) /\ timerRec[i].id # id
  <2>1. \A i \in Slots \ {k} : timerRec'[i] = timerRec[i] /\ (i \in Uncharged' <=> i \in Uncharged)
    BY <1>1, <1>2
  <2>. QED
    BY <1>1, <2>1, SlotKept, IdAssumption DEF IInv, UniqueTimers, ActiveSlots
<1>4. k \in ActiveSlots /\ k \in Uncharged /\ k \notin Uncharged'
  BY <1>1, <1>2, IdAssumption DEF ActiveSlots
<1>5. View(k) \in Armed /\ View(k).id = id
  BY <1>4, Seen DEF View
<1>6. DueAt(k) /\ ~ DueAt(k)'
  BY <1>1, <1>4 DEF DueAt, Left, TimerRec
<1>7. id \in Due
  BY <1>4, <1>6, Seen
<1>8. Armed' = Service!Others(id) \cup {View(i)' : i \in ActiveSlots' \cap {k}}
      /\ Due' = (Due \ {id}) \cup
                {timerRec'[i].id : i \in {j \in ActiveSlots' \cap {k} : DueAt(j)'}}
  BY <1>1, <1>3, OneChanged
<1>9. Due' = Due \ {id}
  <2>1. {j \in ActiveSlots' \cap {k} : DueAt(j)'} = {}
    BY <1>6
  <2>. QED
    BY <1>8, <2>1
<1>10. timerRec'[k] = Expired(timerRec[k])
  BY <1>1
<1>11. CASE timerRec[k].reloadTimeout # 0
  <2>1. /\ timerRec'[k].id = id
        /\ timerRec'[k].timeout = timerRec[k].reloadTimeout
        /\ timerRec'[k].reloadTimeout = timerRec[k].reloadTimeout
    BY <1>1, <1>10, <1>11 DEF Expired, TimerRec
  <2>2. View(k)' = [id |-> id, left |-> timerRec[k].reloadTimeout,
                       period |-> timerRec[k].reloadTimeout]
    <3>1. Left(k)' = timerRec[k].reloadTimeout - 0
      BY <1>4, <2>1 DEF Left
    <3>2. timerRec[k].reloadTimeout \in Nat
      BY <1>1 DEF TimerRec
    <3>. QED
      BY <2>1, <3>1, <3>2 DEF View
  <2>3. ActiveSlots' \cap {k} = {k}
    BY <1>1, <2>1, IdAssumption DEF ActiveSlots
  <2>4. {View(i)' : i \in ActiveSlots' \cap {k}} = {View(k)'}
    BY <2>3
  <2>5. [View(k) EXCEPT !.left = View(k).period] = View(k)'
    BY <1>5, <2>2 DEF View
  <2>6. View(k).period # 0
    BY <1>11 DEF View
  <2>. QED
    BY <1>5, <1>7, <1>8, <1>9, <2>4, <2>5, <2>6
<1>12. CASE timerRec[k].reloadTimeout = 0
  <2>1. timerRec'[k].id = NoTimer
    BY <1>1, <1>10, <1>12 DEF Expired, TimerRec
  <2>2. ActiveSlots' \cap {k} = {}
    BY <2>1 DEF ActiveSlots
  <2>3. {View(i)' : i \in ActiveSlots' \cap {k}} = {} /\ View(k).period = 0
    BY <1>12, <2>2 DEF View
  <2>. QED
    BY <1>5, <1>7, <1>8, <1>9, <2>3
<1>. QED
  BY <1>11, <1>12

LEMMA StepRefines == IInv /\ IInv' /\ [Next]_vars => [Service!Next]_(Service!vars)
<1> SUFFICES ASSUME IInv, IInv', [Next]_vars
             PROVE  [Service!Next]_(Service!vars)
  OBVIOUS
<1>0. /\ timerRec \in [Slots -> TimerRec] /\ updateTime \in Nat /\ Slots \subseteq Nat
      /\ iter \in 1 .. MaxElements + 1
  BY DEF IInv, TypeOK, Slots
<1>1. ASSUME NEW id \in Timers, NEW n \in Timeouts, Start(id, n)
      PROVE  Service!Next
  BY <1>1, StartRefines DEF Service!Next, Service!Timers, Service!EventTimers, Timers,
                            EventTimers
<1>2. ASSUME NEW id \in Timers, NEW n \in Timeouts, StartReload(id, n)
      PROVE  Service!Next
  <2>1. Service!ArmFor(id, n, n)
    BY <1>2, TimeAssumption, ArmRefines DEF StartReload
  <2>. QED
    BY <2>1 DEF Service!Next, Service!ArmPeriodic, Service!Timers, Service!EventTimers,
                Timers, EventTimers
<1>3. ASSUME NEW id \in Timers, StopEvent(id) \/ StopCallback(id)
      PROVE  Service!Next
  <2>1. SlotsOf(id) # {} /\ MayCall(id) /\ UNCHANGED <<tasksEvents, passVars>>
    BY <1>3 DEF StopEvent, StopCallback
  <2>2. PICK k \in Slots : k = First(SlotsOf(id)) /\ timerRec[k].id = id
    <3>1. SlotsOf(id) \in SUBSET Slots
      BY DEF SlotsOf
    <3>2. First(SlotsOf(id)) \in SlotsOf(id)
      BY <2>1, <3>1, FirstInSet
    <3>. QED
      BY <3>2 DEF SlotsOf
  <2>3. \A i \in Slots : timerRec[i].id = id => i = k
    BY <2>2, IdAssumption DEF IInv, UniqueTimers, ActiveSlots
  <2>4. timerRec'[k].id = NoTimer /\ \A i \in Slots \ {k} : timerRec'[i] = timerRec[i]
    <3>1. CASE StopEvent(id)
      BY <1>0, <2>2, <3>1 DEF StopEvent, TimerRec
    <3>2. CASE StopCallback(id)
      BY <1>0, <2>2, <2>3, <3>2 DEF StopCallback, TimerRec
    <3>. QED
      BY <1>3, <3>1, <3>2
  <2>5. Service!Disarm(id)
    BY <2>1, <2>2, <2>4, DisarmRefines
  <2>. QED
    BY <2>5 DEF Service!Next, Service!Timers, Service!EventTimers, Timers, EventTimers
<1>4. ASSUME NEW d \in Elapsed, BeginUpdate(d)
      PROVE  Service!Charge(d)
  <2>1. /\ pc = "idle" /\ pc' = "scan" /\ iter' = 1 /\ updateTime' = d
        /\ timerRec' = timerRec /\ callback' = callback /\ tasksEvents' = tasksEvents
    BY <1>4 DEF BeginUpdate
  <2>2. updateTime = 0 /\ d \in Nat
    BY <2>1, TimeAssumption DEF IInv, PassOK
  <2>3. Uncharged = {} /\ Uncharged' = Slots
    BY <2>1 DEF Uncharged, Slots
  <2>4. \A i \in ActiveSlots : View(i).id = timerRec[i].id /\ View(i).left = timerRec[i].timeout
    BY <1>0, <2>3 DEF View, Left, ActiveSlots, TimerRec
  <2>5. ASSUME NEW i \in ActiveSlots
        PROVE  /\ View(i)' = [View(i) EXCEPT !.left = @ - d]
               /\ DueAt(i)' <=> View(i).left <= d
    <3>1. i \in Slots /\ timerRec[i].timeout \in Nat
      BY <1>0 DEF ActiveSlots, TimerRec
    <3>2. Left(i)' = timerRec[i].timeout - d
      BY <2>1, <2>3, <3>1 DEF Left
    <3>3. View(i)' = [View(i) EXCEPT !.left = @ - d]
      BY <2>1, <2>4, <3>2 DEF View
    <3>4. DueAt(i)' <=> timerRec[i].timeout - d <= 0
      BY <2>3, <3>1, <3>2 DEF DueAt
    <3>. QED
      BY <2>2, <2>4, <3>1, <3>3, <3>4
  <2>6. ActiveSlots' = ActiveSlots
    BY <2>1 DEF ActiveSlots
  <2>7. Armed' = {[t EXCEPT !.left = @ - d] : t \in Armed}
    <3>1. Armed' = {View(i)' : i \in ActiveSlots}
      BY <2>6 DEF Armed, View
    <3>. QED
      BY <2>5, <3>1, Seen
  <2>8. Due' = {t.id : t \in {u \in Armed : u.left <= d}}
    <3>1. Due' = {timerRec[i].id : i \in {j \in ActiveSlots : DueAt(j)'}}
      BY <2>1, <2>6 DEF Due, DueAt
    <3>. QED
      BY <2>4, <2>5, <3>1, Seen
  <2>. QED
    BY <2>1, <2>2, <2>7, <2>8 DEF Service!Charge
\* The steps that move the walk and no timer.
<1>5. CASE SkipFree \/ SeeActive \/ ChargeSlot
  <2>1. /\ updateTime' = updateTime /\ callback' = callback /\ tasksEvents' = tasksEvents
    BY <1>5 DEF SkipFree, SeeActive, ChargeSlot
  <2>2. ASSUME NEW i \in Slots PROVE Kept(i)
    <3>1. CASE SkipFree
      BY <1>0, <3>1 DEF SkipFree, Kept, View, DueAt, Left, Uncharged, FreeSlots
    <3>2. CASE SeeActive
      BY <3>2 DEF SeeActive, Kept, View, DueAt, Left, Uncharged
    <3>3. CASE ChargeSlot /\ i # iter
      <4>1. timerRec'[i] = timerRec[i] /\ (i \in Uncharged' <=> i \in Uncharged)
        BY <1>0, <3>3 DEF ChargeSlot, Uncharged
      <4>. QED
        BY <2>1, <4>1, SlotKept
    <3>4. CASE ChargeSlot /\ i = iter
      <4>1. /\ timerRec'[i].id = timerRec[i].id
            /\ timerRec'[i].reloadTimeout = timerRec[i].reloadTimeout
            /\ timerRec'[i].timeout = timerRec[i].timeout - updateTime
            /\ timerRec[i].timeout > updateTime /\ timerRec[i].timeout \in Nat
        BY <1>0, <3>4 DEF ChargeSlot, TimerRec
      <4>2. i \in Uncharged /\ i \notin Uncharged'
        BY <1>0, <3>4 DEF ChargeSlot, Uncharged
      <4>3. Left(i) = timerRec[i].timeout - updateTime /\ Left(i)' = Left(i) /\ Left(i) > 0
        BY <1>0, <4>1, <4>2 DEF Left
      <4>. QED
        BY <1>0, <4>1, <4>2, <4>3 DEF Kept, View, DueAt
    <3>. QED
      BY <1>5, <3>1, <3>2, <3>3, <3>4
  <2>3. Armed' = Armed /\ Due' = Due
    BY <2>2, AllKept
  <2>. QED
    BY <2>1, <2>3 DEF Service!vars
<1>6. CASE ExpireEvent
  <2>1. PICK k \in Slots : k = iter
    BY <1>6 DEF ExpireEvent, IInv, PassOK
  <2>2. /\ pc = "charge" /\ timerRec[k].timeout <= updateTime /\ timerRec[k].id \notin Callbacks
        /\ tasksEvents' = SetEvent(timerRec[k].id)
        /\ timerRec' = [timerRec EXCEPT ![k] = Expired(@)]
        /\ pc' = "scan" /\ iter' = iter + 1 /\ updateTime' = updateTime /\ callback' = callback
    BY <1>6, <2>1 DEF ExpireEvent
  <2>3. tasksEvents \in [Tasks -> SUBSET Events] /\ callback = NoTimer
    BY <2>2 DEF IInv, TypeOK, PassOK
  <2>4. CASE timerRec[k].id = NoTimer
    <3>1. tasksEvents' = tasksEvents
      <4>1. \A t \in Tasks, e \in Events : <<t, e>> # NoTimer
        BY IdAssumption DEF Timers, EventTimers
      <4>. QED
        BY <2>2, <2>3, <2>4, <4>1 DEF SetEvent
    <3>2. ASSUME NEW i \in Slots PROVE Kept(i)
      <4>1. CASE i = k
        <5>1. timerRec'[k].id = NoTimer
          BY <1>0, <2>2, <2>4 DEF Expired, TimerRec
        <5>. QED
          BY <2>4, <4>1, <5>1 DEF Kept
      <4>2. CASE i # k
        <5>1. timerRec'[i] = timerRec[i] /\ (i \in Uncharged' <=> i \in Uncharged)
          BY <1>0, <2>1, <2>2, <4>2 DEF Uncharged
        <5>. QED
          BY <2>2, <5>1, SlotKept
      <4>. QED
        BY <4>1, <4>2
    <3>3. Armed' = Armed /\ Due' = Due
      BY <3>2, AllKept
    <3>. QED
      BY <2>2, <3>1, <3>3 DEF Service!vars
  <2>5. CASE timerRec[k].id # NoTimer
    <3>1. PICK id \in EventTimers : id = timerRec[k].id
      BY <1>0, <2>2, <2>5 DEF TimerRec, Timers
    <3>2. PICK t \in Armed : t = View(k)
      BY <2>1, <2>2, <3>1, ServeRefines DEF Timers
    <3>3. /\ t.id = id /\ id \in Due
          /\ Armed' = Service!Others(t.id) \cup
                      {u \in {[t EXCEPT !.left = t.period]} : t.period # 0}
          /\ Due' = Due \ {t.id}
      BY <2>1, <2>2, <3>1, <3>2, ServeRefines DEF Timers
    <3>4. tasksEvents' = [tasksEvents EXCEPT ![id[1]] = @ \cup {id[2]}]
      <4>1. PICK t1 \in Tasks, e1 \in Events : id = <<t1, e1>>
        BY DEF EventTimers
      <4>2. \A s \in Tasks : {e \in Events : <<s, e>> = id} = IF s = t1 THEN {e1} ELSE {}
        BY <4>1
      <4>3. tasksEvents' = [s \in Tasks |-> tasksEvents[s] \cup {e \in Events : <<s, e>> = id}]
        BY <2>2, <3>1 DEF SetEvent
      <4>. QED
        BY <2>3, <4>1, <4>2, <4>3
    <3>5. Service!Serve(t)
      BY <2>2, <2>3, <3>3, <3>4 DEF Service!Serve, Service!EventTimers, EventTimers
    <3>. QED
      BY <3>5 DEF Service!Next
  <2>. QED
    BY <2>4, <2>5
<1>7. CASE ExpireCallback
  <2>1. PICK k \in Slots : k = iter
    BY <1>7 DEF ExpireCallback, IInv, PassOK
  <2>2. /\ pc = "charge" /\ timerRec[k].timeout <= updateTime /\ timerRec[k].id \in Callbacks
        /\ timerRec' = [timerRec EXCEPT ![k] = Expired(@)]
        /\ pc' = "callback" /\ callback' = timerRec[k].id
        /\ iter' = iter /\ updateTime' = updateTime /\ tasksEvents' = tasksEvents
    BY <1>7, <2>1 DEF ExpireCallback
  <2>3. callback = NoTimer
    BY <2>2 DEF IInv, PassOK
  <2>4. PICK id \in Callbacks : id = timerRec[k].id
    BY <2>2
  <2>5. PICK t \in Armed : t = View(k)
    BY <2>1, <2>2, <2>4, ServeRefines DEF Timers
  <2>6. /\ t.id = id /\ id \in Due
        /\ Armed' = Service!Others(t.id) \cup
                    {u \in {[t EXCEPT !.left = t.period]} : t.period # 0}
        /\ Due' = Due \ {t.id}
    BY <2>1, <2>2, <2>4, <2>5, ServeRefines DEF Timers
  <2>7. Service!Serve(t)
    BY <2>2, <2>3, <2>4, <2>6 DEF Service!Serve
  <2>. QED
    BY <2>7 DEF Service!Next
<1>8. CASE CallbackReturns
  <2>1. /\ pc = "callback" /\ pc' = "scan" /\ callback' = NoTimer /\ iter' = iter + 1
        /\ timerRec' = timerRec /\ tasksEvents' = tasksEvents /\ updateTime' = updateTime
    BY <1>8 DEF CallbackReturns
  <2>2. callback # NoTimer
    BY <2>1 DEF IInv, PassOK
  <2>3. Uncharged' = Uncharged
    BY <1>0, <2>1 DEF Uncharged
  <2>4. Armed' = Armed /\ Due' = Due
    BY <2>1, <2>3, SlotKept, AllKept
  <2>. QED
    BY <2>1, <2>2, <2>4 DEF Service!Next, Service!CallbackDone
<1>9. CASE EndUpdate
  <2>1. /\ pc = "scan" /\ iter = MaxElements + 1 /\ pc' = "idle" /\ updateTime' = 0
        /\ timerRec' = timerRec /\ tasksEvents' = tasksEvents /\ callback' = callback
    BY <1>9 DEF EndUpdate
  <2>2. Uncharged = {} /\ Uncharged' = {}
    BY <2>1, SlotsAssumption DEF Uncharged, Slots
  <2>3. updateTime # 0 /\ callback = NoTimer
    BY <2>1 DEF IInv, PassOK
  <2>4. \A i \in Slots : Kept(i)
    BY <2>1, <2>2 DEF Kept, View, DueAt, Left
  <2>5. Armed' = Armed /\ Due' = Due /\ Due = {}
    BY <2>2, <2>4, AllKept DEF Due
  <2>. QED
    BY <2>1, <2>3, <2>5 DEF Service!Next, Service!Settle
<1>10. ASSUME NEW t \in Tasks, TakeEvents(t)
       PROVE  Service!TakePending(t)
  <2>1. Armed' = Armed /\ Due' = Due
    BY <1>10 DEF TakeEvents, passVars, Armed, Due, ActiveSlots, Left, Uncharged
  <2>. QED
    BY <1>10, <2>1 DEF TakeEvents, passVars, IInv, PassOK, Service!TakePending
<1>11. CASE UNCHANGED vars
  BY <1>11 DEF vars, Service!vars, Armed, Due, ActiveSlots, Left, Uncharged
<1>. QED
  BY <1>1, <1>2, <1>3, <1>4, <1>5, <1>6, <1>7, <1>8, <1>9, <1>10, <1>11
  DEF Next, Pass, StartRefused, Service!Next

-----------------------------------------------------------------------------
(* The invariants of the specification.                                    *)

\* Every state of the timer table has its types.
THEOREM TypeCorrect == Spec => []TypeOK
<1>1. Init => TypeOK /\ PassOK
  BY TypeInit
<1>2. TypeOK /\ PassOK /\ [Next]_vars => TypeOK' /\ PassOK'
  BY TypeStep
<1>. QED
  BY <1>1, <1>2, PTL DEF Spec

\* In every reachable state the running update, its callback and the slot it
\* is at agree, and no timer holds two slots: no double expiry, and a stop
\* cancels all there is of a timer.
THEOREM TimersUnique == Spec => [](PassOK /\ UniqueTimers)
<1>1. Init => IInv
  BY TypeInit DEF IInv, Init, UniqueTimers, ActiveSlots
<1>2. IInv /\ [Next]_vars => IInv'
  BY TypeStep, UniqueStep DEF IInv
<1>3. IInv => PassOK /\ UniqueTimers
  BY DEF IInv
<1>. QED
  BY <1>1, <1>2, <1>3, PTL DEF Spec

\* Each timer expires exactly once per period, in the first update that exhausts its
\* time, and no operation on one timer disturbs another: what the table does is what
\* the service allows.
THEOREM Implements == Spec => ImplementsService
<1>1. Init => IInv
  BY TypeInit DEF IInv, Init, UniqueTimers, ActiveSlots
<1>2. IInv /\ [Next]_vars => IInv'
  BY TypeStep, UniqueStep DEF IInv
<1>3. Init => Service!Init
  BY DEF Init, Service!Init, Armed, Due, ActiveSlots
<1>. QED
  BY <1>1, <1>2, <1>3, StepRefines, PTL DEF Spec, ImplementsService, Service!Spec
=============================================================================
