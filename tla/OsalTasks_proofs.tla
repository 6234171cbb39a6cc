-------------------------- MODULE OsalTasks_proofs --------------------------
(***************************************************************************)
(* Proofs about OsalTasks, for any number of tasks, messages and flags.    *)
(***************************************************************************)
EXTENDS OsalTasks, SequenceTheorems, WellFoundedInduction, TLAPS

IInv == TypeOK /\ SendOK /\ HeadersTellQueued /\ NoLostWakeup

-----------------------------------------------------------------------------
(* The queue.                                                              *)

\* A nonempty set of natural numbers has a least element.  Induction below is by the
\* least number for which a fact would fail.
LEMMA LeastElement ==
  ASSUME NEW S \in SUBSET Nat, S # {}
  PROVE  \E i \in S : \A j \in S : i <= j
<1>1. PICK i \in S : \A j \in S : ~ (<<j, i>> \in OpToRel(<, Nat))
  BY NatLessThanWellFounded, WFMin
<1>2. \A j \in S : ~ (j < i)
  BY <1>1, Zenon DEF OpToRel
<1> QED
  BY <1>2

\* The search of osal_msg_receive stops at the first message of the task.
LEMMA FirstPlace ==
  ASSUME TypeOK, NEW t, PlacesOf(t) # {}
  PROVE  First(PlacesOf(t)) \in PlacesOf(t) /\ \A j \in PlacesOf(t) : First(PlacesOf(t)) <= j
<1>1. PlacesOf(t) \in SUBSET Nat
  BY DEF PlacesOf, TypeOK
<1>2. \E i \in PlacesOf(t) : \A j \in PlacesOf(t) : i <= j
  BY <1>1, LeastElement
<1> QED
  BY <1>2 DEF First

\* Taking element k out of a sequence keeps the others in their order.
LEMMA RemoveOne ==
  ASSUME NEW E, NEW q \in Seq(E), NEW k \in 1 .. Len(q)
  PROVE  LET r == SubSeq(q, 1, k - 1) \o SubSeq(q, k + 1, Len(q))
         IN  /\ r \in Seq(E)
             /\ Len(r) = Len(q) - 1
             /\ \A i \in 1 .. Len(q) - 1 :
                  r[i] = IF i < k THEN q[i] ELSE q[i + 1]
<1> DEFINE a == SubSeq(q, 1, k - 1)
           b == SubSeq(q, k + 1, Len(q))
<1>1. /\ a \in Seq(E) /\ Len(a) = k - 1
      /\ \A i \in 1 .. k - 1 : a[i] = q[i]
  OBVIOUS
<1>2. /\ b \in Seq(E) /\ Len(b) = Len(q) - k
      /\ \A i \in 1 .. Len(q) - k : b[i] = q[k + i]
  OBVIOUS
<1> HIDE DEF a, b
<1>3. /\ a \o b \in Seq(E)
      /\ Len(a \o b) = Len(q) - 1
  <2>1. a \o b \in Seq(E) /\ Len(a \o b) = Len(a) + Len(b)
    BY <1>1, <1>2, ConcatProperties
  <2>. QED
    BY <2>1, <1>1, <1>2
<1>4. ASSUME NEW i \in 1 .. Len(q) - 1
      PROVE  (a \o b)[i] = IF i < k THEN q[i] ELSE q[i + 1]
  <2>1. (a \o b)[i] = IF i <= Len(a) THEN a[i] ELSE b[i - Len(a)]
    BY <1>1, <1>2, ConcatProperties
  <2>2. CASE i < k
    BY <2>1, <2>2, <1>1
  <2>3. CASE ~ (i < k)
    <3>1. i - Len(a) \in 1 .. Len(q) - k /\ k + (i - Len(a)) = i + 1
      BY <2>3, <1>1
    <3>. QED
      BY <2>1, <2>3, <3>1, <1>1, <1>2
  <2>. QED
    BY <2>2, <2>3
<1>. QED
  BY <1>3, <1>4 DEF a, b

\* osal_msg_extract takes one message out of the list and leaves the others.
LEMMA Extract ==
  ASSUME TypeOK, NEW k \in DOMAIN osal_qHead,
         osal_qHead' = Without(osal_qHead, k),
         \A i, j \in DOMAIN osal_qHead : osal_qHead[i] = osal_qHead[j] => i = j
  PROVE  /\ osal_qHead' \in Seq(Msgs)
         /\ \A i, j \in DOMAIN osal_qHead' :
              osal_qHead'[i] = osal_qHead'[j] => i = j
         /\ Queued' = Queued \ {osal_qHead[k]}
<1> DEFINE q == osal_qHead
           r == osal_qHead'
<1>1. q \in Seq(Msgs) /\ k \in 1 .. Len(q) /\ DOMAIN q = 1 .. Len(q)
  BY DEF TypeOK
<1>2. /\ r \in Seq(Msgs) /\ Len(r) = Len(q) - 1
      /\ \A i \in 1 .. Len(q) - 1 : r[i] = IF i < k THEN q[i] ELSE q[i + 1]
  BY <1>1, RemoveOne DEF Without
<1>3. DOMAIN r = 1 .. Len(q) - 1
  BY <1>2
<1> DEFINE at(n) == IF n < k THEN n ELSE n + 1
<1>4. ASSUME NEW i \in DOMAIN r
      PROVE  at(i) \in DOMAIN q /\ at(i) # k /\ r[i] = q[at(i)]
  BY <1>1, <1>2, <1>3
<1>5. /\ \A i, j \in DOMAIN r : r[i] = r[j] => i = j
      /\ \A i \in DOMAIN r : r[i] \in Queued \ {q[k]}
  <2>1. ASSUME NEW i \in DOMAIN r, NEW j \in DOMAIN r, r[i] = r[j]
        PROVE  i = j
    <3>1. at(i) = at(j)
      BY <1>4, <2>1
    <3>. QED
      BY <3>1, <1>1, <1>3
  <2>2. ASSUME NEW i \in DOMAIN r
        PROVE  r[i] \in Queued \ {q[k]}
    <3>1. q[at(i)] \in Queued /\ q[at(i)] # q[k]
      BY <1>4 DEF Queued
    <3>. QED
      BY <1>4, <3>1
  <2>. QED
    BY <2>1, <2>2
<1>6. ASSUME NEW j \in DOMAIN q, j # k
      PROVE  \E i \in DOMAIN r : r[i] = q[j]
  <2>1. CASE j < k
    BY <2>1, <1>1, <1>2, <1>3
  <2>2. CASE j > k
    <3>1. j - 1 \in DOMAIN r /\ ~ (j - 1 < k) /\ (j - 1) + 1 = j
      BY <2>2, <1>1, <1>3
    <3>2. r[j - 1] = q[(j - 1) + 1]
      BY <3>1, <1>2, <1>3
    <3>. QED
      BY <3>1, <3>2
  <2>. QED
    BY <1>1, <1>6, <2>1, <2>2
<1>7. Queued' = Queued \ {q[k]}
  BY <1>5, <1>6 DEF Queued
<1>. QED
  BY <1>2, <1>5, <1>7

\* osal_msg_enqueue and osal_msg_push add one message to the list.
LEMMA Link ==
  ASSUME TypeOK, NEW m \in Msgs, m \notin Queued,
         \/ osal_qHead' = <<m>> \o osal_qHead
         \/ osal_qHead' = Append(osal_qHead, m),
         \A i, j \in DOMAIN osal_qHead : osal_qHead[i] = osal_qHead[j] => i = j
  PROVE  /\ osal_qHead' \in Seq(Msgs)
         /\ \A i, j \in DOMAIN osal_qHead' :
              osal_qHead'[i] = osal_qHead'[j] => i = j
         /\ Queued' = Queued \cup {m}
<1> DEFINE q == osal_qHead
           r == osal_qHead'
<1>1. q \in Seq(Msgs) /\ DOMAIN q = 1 .. Len(q) /\ Len(q) \in Nat
  BY DEF TypeOK
<1>0. \A i \in DOMAIN q : q[i] \in Queued /\ q[i] # m
  BY DEF Queued
<1>2. CASE r = <<m>> \o q
  <2>1. r \in Seq(Msgs) /\ Len(r) = Len(q) + 1
    BY <1>1, <1>2
  <2>2. r[1] = m /\ \A i \in 1 .. Len(q) : r[i + 1] = q[i]
    BY <1>1, <1>2
  <2>3. \A i \in 2 .. Len(q) + 1 : r[i] = q[i - 1] /\ i - 1 \in DOMAIN q
    BY <1>1, <2>2
  <2>4. DOMAIN r = 1 .. Len(q) + 1
    BY <2>1
  <2>5. ASSUME NEW i \in DOMAIN r, NEW j \in DOMAIN r, r[i] = r[j]
        PROVE  i = j
    <3>0. \A n \in 2 .. Len(q) + 1 : r[n] # r[1]
      BY <1>0, <2>2, <2>3
    <3>1. CASE i = 1 \/ j = 1
      BY <1>1, <2>4, <2>5, <3>0, <3>1
    <3>2. CASE i \in 2 .. Len(q) + 1 /\ j \in 2 .. Len(q) + 1
      <4>1. q[i - 1] = q[j - 1] /\ i - 1 \in DOMAIN q /\ j - 1 \in DOMAIN q
        BY <2>3, <2>5, <3>2
      <4>2. i - 1 = j - 1
        BY <4>1
      <4>. QED
        BY <4>2, <3>2, <1>1
    <3>. QED
      BY <1>1, <2>4, <3>1, <3>2
  <2>6. Queued' = Queued \cup {m}
    <3>1. ASSUME NEW i \in DOMAIN r
          PROVE  r[i] \in Queued \cup {m}
      <4>1. CASE i = 1
        BY <2>2, <4>1
      <4>2. CASE i \in 2 .. Len(q) + 1
        BY <1>0, <2>3, <4>2
      <4>. QED
        BY <1>1, <2>4, <4>1, <4>2
    <3>2. m \in Queued'
      BY <1>1, <2>2, <2>4 DEF Queued
    <3>3. ASSUME NEW i \in DOMAIN q
          PROVE  q[i] \in Queued'
      <4>1. i + 1 \in DOMAIN r /\ r[i + 1] = q[i]
        BY <1>1, <2>2, <2>4
      <4>. QED
        BY <4>1 DEF Queued
    <3>. QED
      BY <3>1, <3>2, <3>3 DEF Queued
  <2>. QED
    BY <2>1, <2>5, <2>6
<1>3. CASE r = Append(q, m)
  <2>1. /\ r \in Seq(Msgs) /\ Len(r) = Len(q) + 1 /\ r[Len(q) + 1] = m
        /\ \A i \in 1 .. Len(q) : r[i] = q[i]
    BY <1>1, <1>3
  <2>2. DOMAIN r = 1 .. Len(q) + 1
    BY <2>1
  <2>3. ASSUME NEW i \in DOMAIN r, NEW j \in DOMAIN r, r[i] = r[j]
        PROVE  i = j
    <3>1. CASE i = Len(q) + 1 \/ j = Len(q) + 1
      BY <1>0, <1>1, <2>1, <2>2, <2>3, <3>1
    <3>2. CASE i \in DOMAIN q /\ j \in DOMAIN q
      BY <1>1, <2>1, <2>3, <3>2
    <3>. QED
      BY <1>1, <2>2, <3>1, <3>2
  <2>4. Queued' = Queued \cup {m}
    <3>1. ASSUME NEW i \in DOMAIN r
          PROVE  r[i] \in Queued \cup {m}
      BY <1>0, <1>1, <2>1, <2>2
    <3>2. m \in Queued'
      BY <1>1, <2>1, <2>2 DEF Queued
    <3>3. ASSUME NEW i \in DOMAIN q
          PROVE  q[i] \in Queued'
      <4>1. i \in DOMAIN r /\ r[i] = q[i]
        BY <1>1, <2>1, <2>2
      <4>. QED
        BY <4>1 DEF Queued
    <3>. QED
      BY <3>1, <3>2, <3>3 DEF Queued
  <2>. QED
    BY <2>1, <2>3, <2>4
<1>. QED
  BY <1>2, <1>3

\* A task has a place in the queue when some queued message is addressed to it.
LEMMA PlacesQueued ==
  ASSUME NEW t
  PROVE  PlacesOf(t) # {} <=> \E m \in Queued : dest_id[m] = t
  BY DEF PlacesOf, Queued

-----------------------------------------------------------------------------
(* Types.                                                                  *)

LEMMA TypeStep ==
  ASSUME TypeOK, [Next]_vars
  PROVE  TypeOK'
<1>. USE TaskAssumption, FlagAssumption
     DEF TypeOK, Tasks, AllFlags, queueVars, loopVars, InCode, NoSend
<1>1. ASSUME NEW m \in Msgs, osal_msg_allocate(m) PROVE TypeOK'
  BY <1>1 DEF osal_msg_allocate
<1>2. ASSUME NEW m \in Msgs, osal_msg_deallocate(m) PROVE TypeOK'
  BY <1>2 DEF osal_msg_deallocate
<1>3. ASSUME NEW m \in Msgs, SendQueued(m) PROVE TypeOK'
  BY <1>3 DEF SendQueued, vars
<1>4. ASSUME NEW m \in Msgs, NEW t \in Tasks, NEW push \in Fronts,
             MarkMsg(m, t, push)
      PROVE  TypeOK'
  BY <1>4 DEF MarkMsg
<1>5. CASE LinkMsg
  <2>1. sending[1] \in Msgs /\ sending[2] \in BOOLEAN
    BY <1>5 DEF LinkMsg
  <2>2. sending' \in Msgs \X BOOLEAN \X {"link", "signal"}
    BY <1>5 DEF LinkMsg
  <2>3. osal_qHead' \in Seq(Msgs)
    BY <1>5, <2>1, ConcatProperties, AppendProperties DEF LinkMsg
  <2>. QED
    BY <1>5, <2>2, <2>3 DEF LinkMsg
<1>6. CASE SignalMsg
  BY <1>6 DEF SignalMsg, SetEvents
<1>7. ASSUME NEW t \in Tasks, osal_msg_receive(t) PROVE TypeOK'
  <2>1. tasksEvents' \in [Tasks -> SUBSET AllFlags]
    BY <1>7 DEF osal_msg_receive, SetEvents, ClearEvents
  <2>2. osal_qHead' \in Seq(Msgs) /\ dest_id' \in [Msgs -> Tasks \cup {TASK_NO_TASK}]
    <3>1. CASE PlacesOf(t) = {}
      BY <1>7, <3>1 DEF osal_msg_receive
    <3>2. CASE PlacesOf(t) # {}
      <4> DEFINE k == First(PlacesOf(t))
      <4>1. k \in DOMAIN osal_qHead
        BY <3>2, FirstPlace DEF PlacesOf
      <4>2. k \in 1 .. Len(osal_qHead)
        BY <4>1
      <4>3. osal_qHead' = Without(osal_qHead, k)
            /\ dest_id' = [dest_id EXCEPT ![osal_qHead[k]] = TASK_NO_TASK]
        BY <1>7, <3>2 DEF osal_msg_receive
      <4> HIDE DEF k
      <4>4. Without(osal_qHead, k) \in Seq(Msgs)
        BY <4>2, RemoveOne DEF Without
      <4>. QED
        BY <4>3, <4>4
    <3>. QED
      BY <3>1, <3>2
  <2>. QED
    BY <1>7, <2>1, <2>2 DEF osal_msg_receive
<1>8. ASSUME NEW t \in Tasks, NEW f \in Flags,
             osal_set_event(t, f) \/ osal_clear_event(t, f)
      PROVE  TypeOK'
  <2>1. /\ SetEvents(t, {f}) \in [Tasks -> SUBSET AllFlags]
        /\ ClearEvents(t, {f}) \in [Tasks -> SUBSET AllFlags]
    BY DEF SetEvents, ClearEvents
  <2>2. tasksEvents' \in [Tasks -> SUBSET AllFlags]
    BY <1>8, <2>1 DEF osal_set_event, osal_clear_event
  <2>. QED
    BY <1>8, <2>2 DEF osal_set_event, osal_clear_event
<1>9. CASE Return
  BY <1>9 DEF Return, HandlerReturns
<1>10. CASE PollDone \/ ScanNext \/ ScanFound \/ PowerConserve
  <2>1. CASE PollDone \/ PowerConserve
    BY <2>1 DEF PollDone, PowerConserve
  <2>2. CASE ScanNext
    BY <2>2 DEF ScanNext
  <2>3. CASE ScanFound
    BY <2>3 DEF ScanFound
  <2>. QED
    BY <1>10, <2>1, <2>2, <2>3
<1>11. CASE TakeEvents
  BY <1>11 DEF TakeEvents
<1>12. CASE GiveBack
  <2>1. idx \in Tasks
    BY <1>12 DEF GiveBack
  <2>2. SetEvents(idx, events) \in [Tasks -> SUBSET AllFlags]
    BY <2>1 DEF SetEvents
  <2>. QED
    BY <1>12, <2>2 DEF GiveBack
<1>13. ASSUME NEW e \in IsrEvents, Interrupt(e[1], e[2]) PROVE TypeOK'
  <2>1. e[1] \in Tasks /\ e[2] \in Flags
    OBVIOUS
  <2>2. SetEvents(e[1], {e[2]}) \in [Tasks -> SUBSET AllFlags]
    BY <2>1 DEF SetEvents
  <2>. QED
    BY <1>13, <2>2 DEF Interrupt
<1>14. CASE UNCHANGED vars
  BY <1>14 DEF vars
<1>. QED
  BY <1>1, <1>2, <1>3, <1>4, <1>5, <1>6, <1>7, <1>8, <1>9, <1>10, <1>11,
     <1>12, <1>13, <1>14 DEF Next, Code, Loop, SendToInvalidTask

-----------------------------------------------------------------------------
(* Headers tell what is queued.                                            *)

QInv == SendOK /\ HeadersTellQueued

LEMMA QueueStep ==
  ASSUME TypeOK, QInv, [Next]_vars
  PROVE  QInv'
<1>. USE TaskAssumption DEF InCode, NoSend, Tasks
<1>1. ASSUME NEW m \in Msgs, osal_msg_allocate(m) PROVE QInv'
  <2>1. m \notin Queued /\ Queued' = Queued /\ sending' = NoSend
    BY <1>1 DEF osal_msg_allocate, QInv, HeadersTellQueued, Queued
  <2>. QED
    BY <1>1, <2>1
    DEF osal_msg_allocate, QInv, SendOK, HeadersTellQueued, Linking, TypeOK
<1>2. ASSUME NEW m \in Msgs, osal_msg_deallocate(m) PROVE QInv'
  <2>1. m \notin Queued /\ Queued' = Queued /\ sending' = NoSend
    BY <1>2 DEF osal_msg_deallocate, QInv, HeadersTellQueued, Queued
  <2>. QED
    BY <1>2, <2>1
    DEF osal_msg_deallocate, QInv, SendOK, HeadersTellQueued, Linking, TypeOK
<1>3. ASSUME NEW m \in Msgs, NEW t \in Tasks, NEW push \in Fronts,
             MarkMsg(m, t, push)
      PROVE  QInv'
  <2>1. m \notin Queued /\ Queued' = Queued
    BY <1>3 DEF MarkMsg, QInv, HeadersTellQueued, Linking, Queued
  <2>2. /\ sending'[1] = m /\ sending'[3] = "link" /\ sending' # NoSend
        /\ dest_id'[m] = t
        /\ \A n \in Msgs \ {m} : dest_id'[n] = dest_id[n]
    BY <1>3 DEF MarkMsg, TypeOK
  <2>3. SendOK'
    <3>1. m \in heap' /\ pc' \in {"poll", "run"}
      BY <1>3 DEF MarkMsg, loopVars
    <3>. QED
      BY <2>1, <2>2, <3>1 DEF SendOK
  <2>4. HeadersTellQueued'
    BY <1>3, <2>1, <2>2 DEF MarkMsg, QInv, HeadersTellQueued, Linking, TypeOK
  <2>. QED
    BY <2>3, <2>4 DEF QInv
<1>4. CASE LinkMsg
  <2> DEFINE m == sending[1]
  <2>1. m \in Msgs /\ m \notin Queued /\ m \in heap /\ dest_id[m] \in Tasks
    BY <1>4 DEF LinkMsg, QInv, SendOK, TypeOK
  <2>2. /\ \A i, j \in DOMAIN osal_qHead' :
              osal_qHead'[i] = osal_qHead'[j] => i = j
        /\ Queued' = Queued \cup {m}
    BY <1>4, <2>1, Link DEF LinkMsg, QInv, HeadersTellQueued
  <2>3. sending' # NoSend /\ sending'[1] = m /\ sending'[3] = "signal"
    BY <1>4 DEF LinkMsg, TypeOK
  <2>4. UNCHANGED <<heap, dest_id, pc>>
    BY <1>4 DEF LinkMsg, loopVars
  <2>5. SendOK'
    <3>1. pc \in {"poll", "run"}
      BY <1>4 DEF LinkMsg, QInv, SendOK
    <3> HIDE DEF m
    <3>. QED
      BY <2>1, <2>2, <2>3, <2>4, <3>1 DEF SendOK
  <2>6. HeadersTellQueued'
    <3>1. \A n \in Queued' : n \in heap'
      BY <2>1, <2>2, <2>4 DEF QInv, HeadersTellQueued
    <3>2. \A n : ~ Linking(n)'
      BY <2>3 DEF Linking
    <3>3. \A n : Linking(n) <=> n = m
      BY <1>4 DEF Linking, LinkMsg
    <3>. QED
      BY <2>2, <2>4, <3>1, <3>2, <3>3 DEF QInv, HeadersTellQueued
  <2>. QED
    BY <2>5, <2>6 DEF QInv
<1>5. CASE SignalMsg
  <2>1. Queued' = Queued /\ sending' = NoSend
    BY <1>5 DEF SignalMsg, Queued
  <2>. QED
    BY <1>5, <2>1 DEF SignalMsg, QInv, SendOK, HeadersTellQueued, Linking
<1>6. ASSUME NEW t \in Tasks, osal_msg_receive(t) PROVE QInv'
  <2>1. CASE PlacesOf(t) = {}
    BY <1>6, <2>1
    DEF osal_msg_receive, QInv, SendOK, HeadersTellQueued, Linking, Queued
  <2>2. CASE PlacesOf(t) # {}
    <3> DEFINE k == First(PlacesOf(t))
               m == osal_qHead[k]
    <3>1. k \in DOMAIN osal_qHead
      BY <2>2, FirstPlace DEF PlacesOf
    <3>2. /\ osal_qHead' = Without(osal_qHead, k)
          /\ dest_id' = [dest_id EXCEPT ![m] = TASK_NO_TASK]
          /\ sending = NoSend /\ sending' = NoSend /\ heap' = heap
      BY <1>6, <2>2 DEF osal_msg_receive
    <3> HIDE DEF k
    <3>3. /\ \A i, j \in DOMAIN osal_qHead' :
                osal_qHead'[i] = osal_qHead'[j] => i = j
          /\ Queued' = Queued \ {m}
      BY <3>1, <3>2, Extract DEF QInv, HeadersTellQueued
    <3>4. m \in Msgs
      BY <3>1 DEF TypeOK
    <3>5. \A n \in Msgs : dest_id'[n] = IF n = m THEN TASK_NO_TASK ELSE dest_id[n]
      BY <3>2, <3>4 DEF TypeOK
    <3> HIDE DEF m
    <3>. QED
      BY <3>2, <3>3, <3>4, <3>5 DEF QInv, SendOK, HeadersTellQueued, Linking, TypeOK
  <2>. QED
    BY <2>1, <2>2
<1>7. ASSUME UNCHANGED queueVars, sending = NoSend \/ UNCHANGED pc
      PROVE  QInv'
  BY <1>7 DEF queueVars, QInv, SendOK, HeadersTellQueued, Linking, Queued
<1>8. CASE Return
  BY <1>7, <1>8 DEF Return, HandlerReturns
<1>9. CASE Loop
  <2>1. sending = NoSend
    BY <1>9 DEF Loop, PollDone, ScanNext, ScanFound, TakeEvents, GiveBack,
       PowerConserve, QInv, SendOK
  <2>. QED
    BY <1>7, <1>9, <2>1 DEF Loop, PollDone, ScanNext, ScanFound, TakeEvents,
       GiveBack, PowerConserve
<1>. QED
  BY <1>1, <1>2, <1>3, <1>4, <1>5, <1>6, <1>7, <1>8, <1>9
  DEF Next, Code, SendToInvalidTask, SendQueued, osal_set_event,
      osal_clear_event, Interrupt, vars, loopVars

-----------------------------------------------------------------------------
(* No wakeup is lost.                                                      *)

Awaits(t) == \E m \in Queued : dest_id[m] = t

LEMMA WakeupStep ==
  ASSUME TypeOK, QInv, NoLostWakeup, [Next]_vars,
         NEW t \in Tasks, Awaits(t)'
  PROVE  Told(t)'
<1>. USE TaskAssumption, FlagAssumption DEF InCode
<1> DEFINE Flag == SYS_EVENT_MSG \in tasksEvents[t]
<1>1. ASSUME Awaits(t) PROVE Told(t)
  BY <1>1, PlacesQueued DEF NoLostWakeup, Awaits
<1>2. ASSUME Awaits(t), Flag => Flag', UNCHANGED <<sending, dest_id, loopVars>>
      PROVE  Told(t)'
  BY <1>1, <1>2 DEF Told, loopVars
<1>3. ASSUME UNCHANGED <<osal_qHead, dest_id>> PROVE Awaits(t)
  BY <1>3 DEF Awaits, Queued
<1>4. ASSUME NEW m \in Msgs, osal_msg_allocate(m) PROVE Told(t)'
  <2>1. m \notin Queued /\ Queued' = Queued
    BY <1>4 DEF osal_msg_allocate, QInv, HeadersTellQueued, Queued
  <2>2. Awaits(t)
    BY <1>4, <2>1 DEF osal_msg_allocate, Awaits, QInv, HeadersTellQueued, TypeOK
  <2>3. sending = NoSend
    BY <1>4 DEF osal_msg_allocate
  <2>. QED
    BY <1>1, <1>4, <2>2, <2>3 DEF osal_msg_allocate, Told, loopVars
<1>5. ASSUME NEW m \in Msgs, osal_msg_deallocate(m) PROVE Told(t)'
  BY <1>2, <1>3, <1>5 DEF osal_msg_deallocate
<1>6. ASSUME NEW m \in Msgs, NEW u \in Tasks, NEW push \in Fronts,
             MarkMsg(m, u, push)
      PROVE  Told(t)'
  <2>1. m \notin Queued /\ Queued' = Queued
    BY <1>6 DEF MarkMsg, QInv, HeadersTellQueued, Linking, Queued
  <2>2. Awaits(t)
    BY <1>6, <2>1 DEF MarkMsg, Awaits, TypeOK, QInv, HeadersTellQueued
  <2>3. sending = NoSend
    BY <1>6 DEF MarkMsg
  <2>. QED
    BY <1>1, <1>6, <2>2, <2>3 DEF MarkMsg, Told, loopVars
<1>7. CASE LinkMsg
  <2> DEFINE m == sending[1]
  <2>1. m \in Msgs /\ m \notin Queued
    BY <1>7 DEF LinkMsg, QInv, SendOK, TypeOK
  <2>2. Queued' = Queued \cup {m}
    BY <1>7, <2>1, Link DEF LinkMsg, QInv, HeadersTellQueued
  <2>3. sending' # NoSend /\ sending'[1] = m /\ sending'[3] = "signal"
    BY <1>7 DEF LinkMsg, TypeOK, NoSend
  <2>4. UNCHANGED <<dest_id, tasksEvents, pc, idx, events, received>>
    BY <1>7 DEF LinkMsg, loopVars
  <2>5. CASE dest_id[m] = t
    BY <2>3, <2>4, <2>5 DEF Told
  <2>6. CASE dest_id[m] # t
    <3>1. Awaits(t)
      BY <2>2, <2>4, <2>6 DEF Awaits
    <3>2. sending[3] # "signal"
      BY <1>7 DEF LinkMsg
    <3>. QED
      BY <1>1, <2>4, <3>1, <3>2 DEF Told
  <2>. QED
    BY <2>5, <2>6
<1>8. CASE SignalMsg
  <2>1. Told(t)
    BY <1>1, <1>3, <1>8 DEF SignalMsg
  <2>2. dest_id[sending[1]] \in Tasks
    BY <1>8 DEF SignalMsg, QInv, SendOK
  <2>. QED
    BY <1>8, <2>1, <2>2 DEF SignalMsg, SetEvents, Told, TypeOK, loopVars
<1>9. ASSUME NEW u \in Tasks, osal_msg_receive(u) PROVE Told(t)'
  <2>1. PICK m \in Queued' : dest_id'[m] = t
    BY DEF Awaits
  <2>2. t # TASK_NO_TASK
    OBVIOUS
  <2>3. CASE PlacesOf(u) = {}
    <3>1. Awaits(t) /\ u # t
      BY <1>3, <1>9, <2>3, PlacesQueued DEF osal_msg_receive, Awaits
    <3>. QED
      BY <1>1, <1>9, <3>1 DEF osal_msg_receive, Told, ClearEvents, SetEvents, TypeOK
  <2>4. CASE PlacesOf(u) # {}
    <3> DEFINE k == First(PlacesOf(u))
    <3>1. k \in DOMAIN osal_qHead /\ dest_id[osal_qHead[k]] = u
      BY <2>4, FirstPlace DEF PlacesOf
    <3>2. /\ osal_qHead' = Without(osal_qHead, k)
          /\ dest_id' = [dest_id EXCEPT ![osal_qHead[k]] = TASK_NO_TASK]
      BY <1>9, <2>4 DEF osal_msg_receive
    <3> HIDE DEF k
    <3>3. Queued' = Queued \ {osal_qHead[k]}
      BY <3>1, <3>2, Extract DEF QInv, HeadersTellQueued
    <3>4. m \in Queued /\ m # osal_qHead[k] /\ dest_id[m] = t
      BY <2>1, <3>2, <3>3 DEF TypeOK
    <3>5. CASE u = t
      <4>1. PICK j \in DOMAIN osal_qHead : osal_qHead[j] = m
        BY <3>4 DEF Queued
      <4>2. j \in PlacesOf(u) /\ k \in PlacesOf(u) /\ j # k
        BY <3>1, <3>4, <3>5, <4>1 DEF PlacesOf
      <4>3. tasksEvents' = SetEvents(u, {SYS_EVENT_MSG})
        BY <1>9, <4>2 DEF osal_msg_receive
      <4>. QED
        BY <3>5, <4>3 DEF Told, SetEvents, TypeOK
    <3>6. CASE u # t
      <4>1. Flag
        BY <1>1, <1>9, <3>4, <3>6 DEF Awaits, osal_msg_receive, Told
      <4>. QED
        BY <1>9, <3>6, <4>1
        DEF osal_msg_receive, Told, ClearEvents, SetEvents, TypeOK
    <3>. QED
      BY <3>5, <3>6
  <2>. QED
    BY <2>3, <2>4
<1>10. ASSUME NEW u \in Tasks, NEW f \in Flags,
              osal_set_event(u, f) \/ osal_clear_event(u, f)
       PROVE  Told(t)'
  <2>1. Flag => Flag'
    BY <1>10 DEF osal_set_event, osal_clear_event, SetEvents, ClearEvents, TypeOK
  <2>. QED
    BY <1>2, <1>3, <1>10, <2>1 DEF osal_set_event, osal_clear_event, queueVars
<1>11. CASE Return
  <2>1. Told(t)
    BY <1>1, <1>3, <1>11 DEF Return, HandlerReturns, queueVars
  <2>. QED
    BY <1>11, <2>1 DEF Return, HandlerReturns, Told, queueVars
<1>12. CASE PollDone \/ ScanNext \/ ScanFound \/ PowerConserve
  <2>1. Told(t)
    BY <1>1, <1>3, <1>12
    DEF PollDone, ScanNext, ScanFound, PowerConserve, queueVars
  <2>. QED
    BY <1>12, <2>1
    DEF PollDone, ScanNext, ScanFound, PowerConserve, queueVars, Told
<1>13. CASE TakeEvents
  <2>1. Told(t)
    BY <1>1, <1>3, <1>13 DEF TakeEvents, queueVars
  <2>. QED
    BY <1>13, <2>1 DEF TakeEvents, queueVars, Told, TypeOK
<1>14. CASE GiveBack
  <2>1. Told(t)
    BY <1>1, <1>3, <1>14 DEF GiveBack, queueVars
  <2>. QED
    BY <1>14, <2>1 DEF GiveBack, SetEvents, queueVars, Told, TypeOK
<1>15. ASSUME NEW e \in IsrEvents, Interrupt(e[1], e[2]) PROVE Told(t)'
  <2>1. Flag => Flag'
    BY <1>15 DEF Interrupt, SetEvents, TypeOK
  <2>. QED
    BY <1>2, <1>3, <1>15, <2>1 DEF Interrupt, queueVars
<1>16. CASE UNCHANGED vars
  BY <1>2, <1>3, <1>16 DEF vars, queueVars
<1>. QED
  BY <1>4, <1>5, <1>6, <1>7, <1>8, <1>9, <1>10, <1>11, <1>12, <1>13, <1>14,
     <1>15, <1>16 DEF Next, Code, Loop, SendToInvalidTask, SendQueued

-----------------------------------------------------------------------------
(* The invariants of the specification.                                    *)

LEMMA Invariant == Spec => []IInv
<1>1. Init => IInv
  <2>1. SUFFICES ASSUME Init
                 PROVE  IInv
    OBVIOUS
  <2>2. TypeOK
    BY <2>1, TaskAssumption DEF Init, TypeOK, NoSend, Tasks
  <2>3. DOMAIN osal_qHead = {} /\ Queued = {} /\ \A t : PlacesOf(t) = {}
    BY <2>1 DEF Init, Queued, PlacesOf
  <2>4. SendOK /\ HeadersTellQueued /\ NoLostWakeup
    BY <2>1, <2>3 DEF Init, SendOK, HeadersTellQueued, NoLostWakeup, NoSend
  <2>. QED
    BY <2>2, <2>4 DEF IInv
<1>2. IInv /\ [Next]_vars => IInv'
  <2>1. SUFFICES ASSUME IInv, [Next]_vars
                 PROVE  IInv'
    OBVIOUS
  <2>2. TypeOK' /\ QInv'
    BY <2>1, TypeStep, QueueStep DEF IInv, QInv
  <2>3. ASSUME NEW t \in Tasks, PlacesOf(t)' # {}
        PROVE  Told(t)'
    <3>1. Awaits(t)'
      BY <2>3 DEF PlacesOf, Awaits, Queued
    <3>. QED
      BY <2>1, <3>1, WakeupStep DEF IInv, QInv
  <2>. QED
    BY <2>2, <2>3 DEF IInv, QInv, NoLostWakeup
<1>. QED
  BY <1>1, <1>2, PTL DEF Spec

\* Every state of the scheduler and of the queue has its types.
THEOREM TypeCorrect == Spec => []TypeOK
<1>1. IInv => TypeOK
  BY DEF IInv
<1>. QED
  BY Invariant, <1>1, PTL

\* The header of a buffer always tells whether the list holds it, so no queued
\* message is freed or linked twice.
THEOREM QueueSound == Spec => []HeadersTellQueued
<1>1. IInv => HeadersTellQueued
  BY DEF IInv
<1>. QED
  BY Invariant, <1>1, PTL

\* Whatever handlers and interrupts do, a task with a queued message has been
\* told of it or is about to be.
THEOREM WakeupsKept == Spec => []NoLostWakeup
<1>1. IInv => NoLostWakeup
  BY DEF IInv
<1>. QED
  BY Invariant, <1>1, PTL

\* Taking a task's events and giving back the unprocessed ones erases nothing that an
\* interrupt or another task has set meanwhile.
THEOREM EventsKept == Spec => EventsNotErased
<1> DEFINE Erases == \E t \in Tasks, f \in Flags :
                       /\ f \in tasksEvents[t] /\ f \notin tasksEvents'[t]
                       /\ ~ (pc = "take" /\ idx = t /\ f \in events')
                       /\ ~ osal_clear_event(t, f)
<1>1. IInv /\ [Next]_vars => [~ Erases]_vars
  <2> SUFFICES ASSUME IInv, Next,
                      NEW t \in Tasks, NEW f \in Flags,
                      f \in tasksEvents[t], f \notin tasksEvents'[t]
               PROVE  \/ pc = "take" /\ idx = t /\ f \in events'
                      \/ osal_clear_event(t, f)
    OBVIOUS
  <2>0. tasksEvents \in [Tasks -> SUBSET AllFlags] /\ f # SYS_EVENT_MSG
    BY FlagAssumption DEF IInv, TypeOK
  <2>1. CASE TakeEvents
    BY <2>0, <2>1 DEF TakeEvents
  <2>2. ASSUME NEW u \in Tasks, NEW g \in Flags, osal_clear_event(u, g)
        PROVE  osal_clear_event(t, f)
    <3>1. u = t /\ g = f
      BY <2>0, <2>2 DEF osal_clear_event, ClearEvents
    <3>. QED
      BY <2>2, <3>1
  <2>3. ASSUME NEW u \in Tasks, osal_msg_receive(u) PROVE FALSE
    BY <2>0, <2>3 DEF osal_msg_receive, ClearEvents, SetEvents
  <2>4. ASSUME NEW u, NEW S, tasksEvents' = SetEvents(u, S) PROVE FALSE
    BY <2>0, <2>4 DEF SetEvents
  <2>5. CASE SignalMsg \/ GiveBack
    BY <2>4, <2>5 DEF SignalMsg, GiveBack
  <2>6. ASSUME NEW u, NEW g, Interrupt(u, g) \/ osal_set_event(u, g) PROVE FALSE
    BY <2>4, <2>6 DEF Interrupt, osal_set_event
  <2>7. tasksEvents' # tasksEvents
    OBVIOUS
  <2>8. ~ (PollDone \/ ScanNext \/ ScanFound \/ PowerConserve \/ Return \/ LinkMsg)
    BY <2>7 DEF PollDone, ScanNext, ScanFound, PowerConserve, Return, HandlerReturns, LinkMsg
  <2>9. \A m \in Msgs : ~ (\/ osal_msg_allocate(m) \/ osal_msg_deallocate(m)
                          \/ SendToInvalidTask(m) \/ SendQueued(m))
    BY <2>7 DEF osal_msg_allocate, osal_msg_deallocate, SendToInvalidTask, SendQueued, vars
  <2>10. \A m \in Msgs, u \in Tasks, push \in Fronts : ~ MarkMsg(m, u, push)
    BY <2>7 DEF MarkMsg
  <2>. QED
    BY <2>1, <2>2, <2>3, <2>5, <2>6, <2>8, <2>9, <2>10 DEF Next, Code, Loop
<1>2. [~ Erases]_vars =>
        [\A t \in Tasks, f \in Flags :
           f \in tasksEvents[t] /\ f \notin tasksEvents'[t] =>
             \/ pc = "take" /\ idx = t /\ f \in events'
             \/ osal_clear_event(t, f)]_vars
  OBVIOUS
<1> HIDE DEF Erases
<1>. QED
  BY Invariant, <1>1, <1>2, PTL DEF Spec, EventsNotErased

-----------------------------------------------------------------------------
(* The members of a set in a list.                                         *)

\* f[k] has the members of S among the first k of a list, in their order.
Sifts(f, list, n, S) ==
  f = [k \in 0 .. n |->
         IF k = 0 THEN <<>>
         ELSE IF list[k] \in S THEN Append(f[k - 1], list[k]) ELSE f[k - 1]]

LEMMA SiftAt ==
  ASSUME NEW f, NEW list, NEW n, NEW S, Sifts(f, list, n, S), NEW k \in 0 .. n
  PROVE  f[k] = IF k = 0 THEN <<>>
                ELSE IF list[k] \in S THEN Append(f[k - 1], list[k]) ELSE f[k - 1]
BY Zenon DEF Sifts

LEMMA SiftExists ==
  ASSUME NEW E, NEW list \in Seq(E), NEW S
  PROVE  \E f \in [0 .. Len(list) -> Seq(E)] : Sifts(f, list, Len(list), S)
<1> DEFINE Has(m) == \E f \in [0 .. m -> Seq(E)] : Sifts(f, list, m, S)
           Bad == {m \in 0 .. Len(list) : ~ Has(m)}
<1>0. Len(list) \in Nat /\ \A k \in 1 .. Len(list) : list[k] \in E
  BY LenProperties, ElementOfSeq
<1> HIDE DEF Has
<1>1. SUFFICES ASSUME Bad # {} PROVE FALSE
  BY <1>0 DEF Has
<1>2. PICK m \in Bad : \A j \in Bad : m <= j
  <2>1. Bad \in SUBSET Nat
    BY <1>0
  <2> QED
    BY <1>1, <2>1, LeastElement
<1>3. CASE m = 0
  <2>1. <<>> \in Seq(E)
    OBVIOUS
  <2> DEFINE f == [k \in 0 .. 0 |-> <<>>]
  <2>2. f \in [0 .. m -> Seq(E)] /\ \A k \in 0 .. 0 : k = 0 /\ f[k] = <<>>
    BY <1>3, <2>1
  <2>3. Sifts(f, list, m, S)
    BY <1>3, <2>2 DEF Sifts
  <2> QED
    BY <1>2, <2>2, <2>3 DEF Has
<1>4. CASE m > 0
  <2>1. m - 1 \in 0 .. Len(list) /\ m - 1 \notin Bad /\ m \in 1 .. Len(list)
    BY <1>0, <1>2, <1>4
  <2>2. PICK f \in [0 .. m - 1 -> Seq(E)] : Sifts(f, list, m - 1, S)
    BY <2>1 DEF Has
  <2> DEFINE last == IF list[m] \in S THEN Append(f[m - 1], list[m]) ELSE f[m - 1]
             g == [k \in 0 .. m |-> IF k = m THEN last ELSE f[k]]
  <2>3. g \in [0 .. m -> Seq(E)]
    <3>1. f[m - 1] \in Seq(E) /\ list[m] \in E
      BY <1>0, <2>1
    <3>2. last \in Seq(E)
      BY <3>1, AppendProperties
    <3> HIDE DEF last
    <3> QED
      BY <1>4, <2>1, <2>2, <3>2
  <2>4. \A k \in 0 .. m - 1 :
          f[k] = IF k = 0 THEN <<>>
                 ELSE IF list[k] \in S THEN Append(f[k - 1], list[k]) ELSE f[k - 1]
    <3>1. ASSUME NEW k \in 0 .. m - 1
          PROVE  f[k] = IF k = 0 THEN <<>>
                        ELSE IF list[k] \in S THEN Append(f[k - 1], list[k]) ELSE f[k - 1]
      BY <2>2, Zenon DEF Sifts
    <3> QED
      BY <3>1
  <2>5. ASSUME NEW k \in 0 .. m
        PROVE  g[k] = IF k = 0 THEN <<>>
                      ELSE IF list[k] \in S THEN Append(g[k - 1], list[k]) ELSE g[k - 1]
    <3>1. CASE k = m
      <4>1. g[k] = last /\ g[k - 1] = f[m - 1] /\ k # 0
        BY <1>4, <2>1, <3>1
      <4> QED
        BY <3>1, <4>1
    <3>2. CASE k # m
      <4>1. k \in 0 .. m - 1 /\ g[k] = f[k] /\ (k # 0 => g[k - 1] = f[k - 1])
        BY <2>1, <3>2
      <4> HIDE DEF g
      <4> QED
        BY <2>4, <4>1
    <3> QED
      BY <3>1, <3>2
  <2>6. Sifts(g, list, m, S)
    BY <2>5, Zenon DEF Sifts
  <2> HIDE DEF g
  <2> QED
    BY <1>2, <2>3, <2>6 DEF Has
<1> QED
  BY <1>0, <1>2, <1>3, <1>4

\* Two lists agree on their first n.
Alike(x, y, S, T, n) == \A k \in 1 .. n : x[k] = y[k] /\ (x[k] \in S <=> y[k] \in T)

\* What is sifted out of the first n depends only on which of them are in the set.
LEMMA SiftSame ==
  ASSUME NEW n \in Nat, NEW x, NEW y, NEW S, NEW T, NEW f, NEW g,
         NEW m \in Nat, n <= m, NEW l \in Nat, n <= l,
         Sifts(f, x, m, S), Sifts(g, y, l, T),
         Alike(x, y, S, T, n)
  PROVE  f[n] = g[n]
<1> DEFINE Bad == {k \in 0 .. n : f[k] # g[k]}
<1>1. SUFFICES ASSUME Bad # {} PROVE FALSE
  OBVIOUS
<1>2. PICK k \in Bad : \A j \in Bad : k <= j
  <2>1. Bad \in SUBSET Nat
    OBVIOUS
  <2> QED
    BY <1>1, <2>1, LeastElement
<1>3. /\ f[k] = IF k = 0 THEN <<>>
                ELSE IF x[k] \in S THEN Append(f[k - 1], x[k]) ELSE f[k - 1]
      /\ g[k] = IF k = 0 THEN <<>>
                ELSE IF y[k] \in T THEN Append(g[k - 1], y[k]) ELSE g[k - 1]
  <2>1. k \in 0 .. m /\ k \in 0 .. l
    OBVIOUS
  <2> QED
    BY <2>1, SiftAt
<1>4. CASE k = 0
  BY <1>2, <1>3, <1>4
<1>5. CASE k > 0
  <2>1. k - 1 \in 0 .. n /\ k - 1 \notin Bad /\ k \in 1 .. n
    BY <1>2, <1>5
  <2>2. f[k - 1] = g[k - 1] /\ k # 0
    BY <2>1
  <2>3. x[k] = y[k] /\ (x[k] \in S <=> y[k] \in T)
    BY <2>1, Zenon DEF Alike
  <2> QED
    BY <1>2, <1>3, <2>2, <2>3
<1> QED
  BY <1>2, <1>4, <1>5

LEMMA ThoseAre ==
  ASSUME NEW list, Len(list) \in Nat, NEW S, NEW f, Sifts(f, list, Len(list), S)
  PROVE  Those(list, S) = f[Len(list)]
<1> DEFINE g == CHOOSE g : Sifts(g, list, Len(list), S)
<1>1. Sifts(g, list, Len(list), S)
  OBVIOUS
<1>2. Those(list, S) = g[Len(list)]
  BY DEF Those, Sifts
<1> HIDE DEF g
<1>3. g[Len(list)] = f[Len(list)]
  <2>1. Alike(list, list, S, S, Len(list)) /\ Len(list) <= Len(list)
    BY DEF Alike
  <2> QED
    BY <1>1, <2>1, SiftSame
<1> QED
  BY <1>2, <1>3

LEMMA ThoseTyped ==
  ASSUME NEW E, NEW list \in Seq(E), NEW S
  PROVE  Those(list, S) \in Seq(E)
<1>1. PICK f \in [0 .. Len(list) -> Seq(E)] : Sifts(f, list, Len(list), S)
  BY SiftExists
<1>2. Len(list) \in Nat
  BY LenProperties
<1> QED
  BY <1>1, <1>2, ThoseAre

\* What two lists agree on.
LEMMA ThoseSame ==
  ASSUME NEW E, NEW list \in Seq(E), NEW S, NEW T,
         \A k \in 1 .. Len(list) : list[k] \in S <=> list[k] \in T
  PROVE  Those(list, S) = Those(list, T)
<1>1. PICK f : Sifts(f, list, Len(list), S)
  BY SiftExists
<1>2. PICK g : Sifts(g, list, Len(list), T)
  BY SiftExists
<1>3. Len(list) \in Nat
  BY LenProperties
<1>4. f[Len(list)] = g[Len(list)]
  <2>1. Alike(list, list, S, T, Len(list)) /\ Len(list) <= Len(list)
    BY <1>3 DEF Alike
  <2> QED
    BY <1>1, <1>2, <1>3, <2>1, SiftSame
<1> QED
  BY <1>1, <1>2, <1>3, <1>4, ThoseAre

\* What is appended to the second of two lists is appended to both.
AppendsToBoth(s, t, x) == Append(s \o t, x) = s \o Append(t, x)

LEMMA AppendConcat ==
  ASSUME NEW E, NEW s \in Seq(E), NEW t \in Seq(E), NEW x \in E
  PROVE  AppendsToBoth(s, t, x)
<1>1. <<x>> \in Seq(E) /\ s \o t \in Seq(E)
  BY ConcatProperties
<1>2. Append(s \o t, x) = (s \o t) \o <<x>> /\ Append(t, x) = t \o <<x>>
  BY <1>1, AppendIsConcat
<1>3. (s \o t) \o <<x>> = s \o (t \o <<x>>)
  BY <1>1, ConcatAssociative
<1> QED
  BY <1>2, <1>3 DEF AppendsToBoth

\* A list after another one adds its members to those of the first, ...
ThoseOfBoth(a, b, S) == Those(a \o b, S) = Those(a, S) \o Those(b, S)

LEMMA ThoseConcat ==
  ASSUME NEW E, NEW a \in Seq(E), NEW b \in Seq(E), NEW S
  PROVE  ThoseOfBoth(a, b, S)
<1>1. PICK m \in Nat : m = Len(a)
  BY LenProperties
<1>2. PICK n \in Nat : n = Len(b)
  BY LenProperties
<1>3. PICK both \in Seq(E) : both = a \o b
  BY ConcatProperties
<1>4. PICK p \in Nat : p = Len(both)
  BY LenProperties
<1>5. /\ p = m + n
      /\ \A i \in 1 .. m + n : both[i] = IF i <= m THEN a[i] ELSE b[i - m]
  BY <1>1, <1>2, <1>3, <1>4, ConcatProperties
<1>6. \A i \in 1 .. n : b[i] \in E
  BY <1>2, ElementOfSeq
<1>7. PICK f \in [0 .. p -> Seq(E)] : Sifts(f, both, p, S)
  BY <1>4, SiftExists
<1>8. PICK g \in [0 .. m -> Seq(E)] : Sifts(g, a, m, S)
  BY <1>1, SiftExists
<1>9. PICK h \in [0 .. n -> Seq(E)] : Sifts(h, b, n, S)
  BY <1>2, SiftExists
<1>10. Those(both, S) = f[p]
  BY <1>4, <1>7, ThoseAre
<1>11. Those(a, S) = g[m]
  BY <1>1, <1>8, ThoseAre
<1>12. Those(b, S) = h[n]
  BY <1>2, <1>9, ThoseAre
<1>13. m <= p /\ m <= m
  BY <1>5
<1>14. f[m] = g[m]
  <2>1. \A k \in 1 .. m : both[k] = a[k]
    <3>1. ASSUME NEW k \in 1 .. m PROVE both[k] = a[k]
      <4>1. k \in 1 .. m + n /\ k <= m
        OBVIOUS
      <4> QED
        BY <1>5, <4>1
    <3> QED
      BY <3>1
  <2>2. Alike(both, a, S, S, m)
    BY <2>1, Zenon DEF Alike
  <2> QED
    BY <1>7, <1>8, <1>13, <2>2, SiftSame
<1>15. PICK v \in Seq(E) : v = g[m]
  BY <1>8
<1> DEFINE Bad == {j \in 0 .. n : f[m + j] # v \o h[j]}
<1>16. ASSUME Bad # {} PROVE FALSE
  <2>1. \A j \in Bad : j \in 0 .. n /\ f[m + j] # v \o h[j]
    BY Zenon
  <2>2. \A j \in 0 .. n : j \notin Bad => f[m + j] = v \o h[j]
    BY Zenon
  <2> HIDE DEF Bad
  <2>3. Bad \in SUBSET Nat
    BY <2>1
  <2>4. PICK j \in Bad : \A i \in Bad : j <= i
    BY ONLY <1>16, <2>3, LeastElement
  <2>5. j \in 0 .. n /\ f[m + j] # v \o h[j] /\ j \in Nat
    <3>1. j \in 0 .. n /\ f[m + j] # v \o h[j]
      BY <2>1, Zenon
    <3> QED
      BY <3>1
  <2>6. h[j] = IF j = 0 THEN <<>>
               ELSE IF b[j] \in S THEN Append(h[j - 1], b[j]) ELSE h[j - 1]
    BY ONLY <1>9, <2>5, Zenon DEF Sifts
  <2>7. CASE j = 0
    <3>1. h[j] = <<>> /\ m + j = m
      BY <1>1, <2>6, <2>7
    <3>2. v \o <<>> = v
      BY <1>15, ConcatEmptySeq
    <3> QED
      BY <1>14, <1>15, <2>5, <3>1, <3>2
  <2>8. CASE j # 0
    <3>1. PICK i \in Nat : i = j - 1
      BY <2>5, <2>8
    <3>2. i \in 0 .. n /\ j \in 1 .. n /\ ~ (j <= i)
      BY <2>5, <2>8, <3>1
    <3>3. PICK k \in Nat : k = m + j
      BY <2>5
    <3>4. k \in 0 .. p /\ k \in 1 .. m + n /\ k # 0 /\ k - 1 = m + i /\ ~ (k <= m) /\ k - m = j
      BY <1>5, <2>5, <2>8, <3>1, <3>2, <3>3
    <3>5. f[m + i] = v \o h[i]
      BY <2>2, <2>4, <3>2
    <3>6. PICK w \in Seq(E) : w = h[i]
      BY <1>9, <3>2
    <3>7. PICK x \in E : x = b[j]
      BY <1>6, <3>2
    <3>8. both[k] = x
      <4>1. both[k] = IF k <= m THEN a[k] ELSE b[k - m]
        BY <1>5, <3>4
      <4> QED
        BY <4>1, <3>4, <3>7
    <3>9. f[k] = IF k = 0 THEN <<>>
                 ELSE IF both[k] \in S THEN Append(f[k - 1], both[k]) ELSE f[k - 1]
      BY ONLY <1>7, <3>4, Zenon DEF Sifts
    <3>10. f[k] = IF x \in S THEN Append(v \o w, x) ELSE v \o w
      BY ONLY <3>4, <3>5, <3>6, <3>8, <3>9
    <3>11. h[j] = IF x \in S THEN Append(w, x) ELSE w
      BY ONLY <2>6, <2>8, <3>1, <3>6, <3>7
    <3>12. AppendsToBoth(v, w, x)
      BY AppendConcat
    <3> QED
      BY ONLY <2>5, <3>3, <3>10, <3>11, <3>12 DEF AppendsToBoth
  <2> QED
    BY <2>7, <2>8
<1>17. f[m + n] = v \o h[n]
  <2>1. n \in 0 .. n
    OBVIOUS
  <2> QED
    BY <1>16, <2>1
<1> QED
  BY <1>3, <1>5, <1>10, <1>11, <1>12, <1>15, <1>17 DEF ThoseOfBoth

\* ... which are, of a list of one, itself or none.
LEMMA ThoseOne ==
  ASSUME NEW E, NEW x \in E, NEW S
  PROVE  Those(<<x>>, S) = IF x \in S THEN <<x>> ELSE <<>>
<1>1. <<x>> \in Seq(E) /\ Len(<<x>>) = 1 /\ <<x>>[1] = x
  OBVIOUS
<1>2. PICK f \in [0 .. 1 -> Seq(E)] : Sifts(f, <<x>>, 1, S)
  BY <1>1, SiftExists
<1>3. Those(<<x>>, S) = f[1]
  BY <1>1, <1>2, ThoseAre
<1>4. f[0] = <<>> /\ f[1] = IF <<x>>[1] \in S THEN Append(f[0], <<x>>[1]) ELSE f[0]
  <2>1. 1 \in 0 .. 1 /\ 0 \in 0 .. 1 /\ 1 # 0 /\ 1 - 1 = 0
    OBVIOUS
  <2>2. /\ f[0] = IF 0 = 0 THEN <<>>
                  ELSE IF <<x>>[0] \in S THEN Append(f[0 - 1], <<x>>[0]) ELSE f[0 - 1]
        /\ f[1] = IF 1 = 0 THEN <<>>
                  ELSE IF <<x>>[1] \in S THEN Append(f[1 - 1], <<x>>[1]) ELSE f[1 - 1]
    BY ONLY <1>2, <2>1, Zenon DEF Sifts
  <2> QED
    BY <2>1, <2>2
<1>5. Append(<<>>, x) = <<x>>
  OBVIOUS
<1> QED
  BY <1>1, <1>3, <1>4, <1>5

\* Nothing of a list that has no member of the set, ...
LEMMA ThoseNone ==
  ASSUME NEW E, NEW list \in Seq(E), NEW S, \A k \in 1 .. Len(list) : list[k] \notin S
  PROVE  Those(list, S) = <<>>
<1>1. PICK f : Sifts(f, list, Len(list), S)
  BY SiftExists
<1>2. Len(list) \in Nat
  BY LenProperties
<1> DEFINE g == [k \in 0 .. Len(list) |-> <<>>]
<1>3. Sifts(g, list, Len(list), {})
  BY <1>2 DEF Sifts
<1>4. f[Len(list)] = g[Len(list)]
  <2>1. Alike(list, list, S, {}, Len(list)) /\ Len(list) <= Len(list)
    BY <1>2 DEF Alike
  <2> HIDE DEF g
  <2> QED
    BY <1>1, <1>2, <1>3, <2>1, SiftSame
<1>5. g[Len(list)] = <<>>
  BY <1>2
<1> QED
  BY <1>1, <1>2, <1>4, <1>5, ThoseAre

\* ... and nothing but members of the list.
LEMMA ThoseListed ==
  ASSUME NEW E, NEW list \in Seq(E), NEW S, NEW j \in DOMAIN Those(list, S)
  PROVE  \E k \in 1 .. Len(list) : list[k] = Those(list, S)[j]
<1> DEFINE F == {list[k] : k \in 1 .. Len(list)}
<1>1. list \in Seq(F)
  BY LenProperties
<1>2. Those(list, S) \in Seq(F)
  BY <1>1, ThoseTyped
<1>3. Those(list, S)[j] \in F
  BY <1>2
<1> QED
  BY <1>3

-----------------------------------------------------------------------------
(* The shared list implements a mailbox per task.                          *)

\* A list is what comes before a place, what is there and what comes after it.
SplitsAt(q, k, a, b) ==
  /\ q = (a \o <<q[k]>>) \o b
  /\ Without(q, k) = a \o b
  /\ Len(a) = k - 1
  /\ \A i \in 1 .. k - 1 : a[i] = q[i]

LEMMA SplitAt ==
  ASSUME NEW E, NEW q \in Seq(E), NEW k \in 1 .. Len(q)
  PROVE  \E a, b \in Seq(E) : SplitsAt(q, k, a, b)
<1>1. PICK n \in Nat : n = Len(q)
  BY LenProperties
<1>2. k \in Nat /\ k \in 1 .. n /\ q[k] \in E /\ \A i \in 1 .. n : q[i] \in E
  BY <1>1, ElementOfSeq
<1>3. PICK a \in Seq(E) : /\ a = SubSeq(q, 1, k - 1) /\ Len(a) = k - 1
                          /\ \A i \in 1 .. k - 1 : a[i] = q[i]
  <2>1. SubSeq(q, 1, k - 1) \in Seq(E) /\ Len(SubSeq(q, 1, k - 1)) = k - 1
    BY <1>1, <1>2
  <2>2. \A i \in 1 .. k - 1 : SubSeq(q, 1, k - 1)[i] = q[i]
    BY <1>1, <1>2
  <2> QED
    BY <2>1, <2>2
<1>4. PICK b \in Seq(E) : /\ b = SubSeq(q, k + 1, n) /\ Len(b) = n - k
                          /\ \A i \in 1 .. n - k : b[i] = q[k + i]
  <2>1. SubSeq(q, k + 1, n) \in Seq(E) /\ Len(SubSeq(q, k + 1, n)) = n - k
    BY <1>1, <1>2
  <2>2. \A i \in 1 .. n - k : SubSeq(q, k + 1, n)[i] = q[k + i]
    BY <1>1, <1>2
  <2> QED
    BY <2>1, <2>2
<1>5. PICK s \in Seq(E) : s = <<q[k]>> /\ Len(s) = 1 /\ s[1] = q[k]
  <2>1. <<q[k]>> \in Seq(E)
    BY <1>2
  <2>2. Len(<<q[k]>>) = 1 /\ <<q[k]>>[1] = q[k]
    OBVIOUS
  <2> QED
    BY <2>1, <2>2
<1>6. PICK c \in Seq(E) : /\ c = a \o s /\ Len(c) = k
                          /\ \A i \in 1 .. k : c[i] = q[i]
  <2>1. a \o s \in Seq(E) /\ Len(a \o s) = k
    BY <1>2, <1>3, <1>5
  <2>2. \A i \in 1 .. k : (a \o s)[i] = q[i]
    <3> SUFFICES ASSUME NEW i \in 1 .. k PROVE (a \o s)[i] = q[i]
      OBVIOUS
    <3>1. CASE i = k
      BY <1>2, <1>3, <1>5, <3>1
    <3>2. CASE i # k
      BY <1>2, <1>3, <1>5, <3>2
    <3> QED
      BY <3>1, <3>2
  <2> QED
    BY <2>1, <2>2
<1>7. c \o b = q
  <2>0. /\ c \o b \in Seq(E) /\ Len(c \o b) = Len(c) + Len(b)
        /\ \A i \in 1 .. Len(c) + Len(b) :
             (c \o b)[i] = IF i <= Len(c) THEN c[i] ELSE b[i - Len(c)]
    BY ConcatProperties
  <2>1. c \o b \in Seq(E) /\ Len(c \o b) = n
    <3>1. Len(c) + Len(b) = n
      BY <1>1, <1>2, <1>4, <1>6
    <3> QED
      BY <2>0, <3>1
  <2>2. \A i \in 1 .. n : (c \o b)[i] = q[i]
    <3> SUFFICES ASSUME NEW i \in 1 .. n PROVE (c \o b)[i] = q[i]
      OBVIOUS
    <3>1. CASE i <= k
      BY <1>2, <1>4, <1>6, <3>1
    <3>2. CASE ~ (i <= k)
      <4>1. i - k \in 1 .. n - k /\ k + (i - k) = i
        BY <1>2, <3>2
      <4>2. (c \o b)[i] = b[i - k]
        <5>1. Len(c) = k /\ i \in 1 .. Len(c) + Len(b)
          BY <1>1, <1>2, <1>4, <1>6
        <5> QED
          BY <2>0, <3>2, <5>1
      <4> QED
        BY <1>4, <4>1, <4>2
    <3> QED
      BY <3>1, <3>2
  <2> QED
    BY <1>1, <2>1, <2>2, SeqEqual
<1> QED
  BY <1>1, <1>3, <1>4, <1>5, <1>6, <1>7 DEF SplitsAt, Without

LEMMA MailboxTyped ==
  ASSUME TypeOK, NEW t
  PROVE  Mailbox(t) \in Seq(Msgs)
BY ThoseTyped DEF Mailbox, TypeOK

\* A message that waits in a mailbox is in the list.
LEMMA WaitingQueued ==
  ASSUME TypeOK
  PROVE  Boxes!Waiting \subseteq Queued
<1> SUFFICES ASSUME NEW t \in Tasks, NEW j \in DOMAIN Mailbox(t)
             PROVE  Mailbox(t)[j] \in Queued
  BY DEF Boxes!Waiting
<1>1. j \in DOMAIN Those(osal_qHead, AddressedTo(t)) /\ osal_qHead \in Seq(Msgs)
  BY DEF Mailbox, TypeOK
<1>2. PICK k \in 1 .. Len(osal_qHead) : osal_qHead[k] = Mailbox(t)[j]
  BY <1>1, ThoseListed DEF Mailbox
<1> QED
  BY <1>1, <1>2 DEF Queued

\* What is done to a buffer outside the list changes no mailbox.
LEMMA SameBoxes ==
  ASSUME TypeOK, osal_qHead' = osal_qHead,
         \A m \in Queued : dest_id'[m] = dest_id[m]
  PROVE  /\ [t \in Tasks |-> Mailbox(t)]' = [t \in Tasks |-> Mailbox(t)]
         /\ Queued' = Queued
<1>1. Queued' = Queued
  BY DEF Queued
<1>2. ASSUME NEW t \in Tasks PROVE Mailbox(t)' = Mailbox(t)
  <2>1. PICK S : S = AddressedTo(t)
    OBVIOUS
  <2>2. PICK T : T = AddressedTo(t)'
    OBVIOUS
  <2>3. osal_qHead \in Seq(Msgs) /\ \A k \in 1 .. Len(osal_qHead) : osal_qHead[k] \in S <=> osal_qHead[k] \in T
    BY <2>1, <2>2 DEF TypeOK, Queued, AddressedTo
  <2>4. Those(osal_qHead, S) = Those(osal_qHead, T)
    BY <2>3, ThoseSame
  <2> QED
    BY <2>1, <2>2, <2>4 DEF Mailbox
<1> QED
  BY <1>1, <1>2

\* osal_msg_enqueue and osal_msg_push post to one mailbox.
\* osal_msg_enqueue_push is given one of the values of its push argument.
FrontOK == sending # NoSend => sending[2] \in Fronts

LEMMA LinkPosts ==
  ASSUME IInv, FrontOK, LinkMsg
  PROVE  Boxes!Next
<1>1. PICK m \in Msgs : m = sending[1] /\ m \in heap /\ m \notin Queued /\ dest_id[m] \in Tasks
  BY DEF IInv, SendOK, LinkMsg, TypeOK
<1>2. PICK p \in Tasks : p = dest_id[m]
  BY <1>1
<1>3. PICK front \in Fronts : front = sending[2]
  BY DEF FrontOK, LinkMsg
<1>4. osal_qHead' = (IF front THEN <<m>> \o osal_qHead ELSE Append(osal_qHead, m))
      /\ heap' = heap /\ dest_id' = dest_id
  BY <1>1, <1>3 DEF LinkMsg
<1>5. Queued' = Queued \cup {m}
  <2>1. osal_qHead' = <<m>> \o osal_qHead \/ osal_qHead' = Append(osal_qHead, m)
    BY <1>4
  <2> QED
    BY <1>1, <2>1, Link DEF IInv, HeadersTellQueued
<1>6. PICK q \in Seq(Msgs) : q = osal_qHead
  BY DEF IInv, TypeOK
<1>7. <<m>> \in Seq(Msgs) /\ Append(q, m) = q \o <<m>>
  BY AppendIsConcat
<1>8. ASSUME NEW t \in Tasks
      PROVE  Mailbox(t)' = IF t # p THEN Mailbox(t)
                           ELSE IF front THEN <<m>> \o Mailbox(t) ELSE Append(Mailbox(t), m)
  <2>0. AddressedTo(t)' = AddressedTo(t) /\ (m \in AddressedTo(t) <=> t = p)
    BY <1>2, <1>4 DEF AddressedTo
  <2>1. PICK S : S = AddressedTo(t) /\ S = AddressedTo(t)' /\ (m \in S <=> t = p)
    BY <2>0
  <2>2. Mailbox(t) = Those(q, S) /\ Mailbox(t)' = Those(osal_qHead', S)
    BY <1>6, <2>1 DEF Mailbox
  <2>3. PICK box \in Seq(Msgs) : box = Those(q, S)
    BY ThoseTyped
  <2>4. Those(<<m>>, S) = IF t = p THEN <<m>> ELSE <<>>
    BY <2>1, ThoseOne
  <2>5. box \o <<>> = box /\ <<>> \o box = box /\ Append(box, m) = box \o <<m>>
    BY ConcatEmptySeq, AppendIsConcat
  <2>6. CASE front
    <3>1. Those(<<m>> \o q, S) = Those(<<m>>, S) \o Those(q, S)
      <4>1. ThoseOfBoth(<<m>>, q, S)
        BY <1>7, ThoseConcat
      <4> QED
        BY <4>1 DEF ThoseOfBoth
    <3> QED
      BY <1>4, <1>6, <2>2, <2>3, <2>4, <2>5, <2>6, <3>1
  <2>7. CASE ~ front
    <3>1. Those(q \o <<m>>, S) = Those(q, S) \o Those(<<m>>, S)
      <4>1. ThoseOfBoth(q, <<m>>, S)
        BY <1>7, ThoseConcat
      <4> QED
        BY <4>1 DEF ThoseOfBoth
    <3> QED
      BY <1>4, <1>6, <1>7, <2>2, <2>3, <2>4, <2>5, <2>7, <3>1
  <2> QED
    BY <2>6, <2>7
<1>9. PICK box : box = [t \in Tasks |-> Mailbox(t)]
  OBVIOUS
<1>10. [t \in Tasks |-> Mailbox(t)]'
         = [box EXCEPT ![p] = IF front THEN <<m>> \o @ ELSE Append(@, m)]
  BY <1>8, <1>9
<1>11. Boxes!Post(m, p, front)
  BY <1>1, <1>4, <1>5, <1>9, <1>10 DEF Boxes!Post
<1> QED
  BY <1>11 DEF Boxes!Next

\* osal_msg_receive fetches the oldest message of the task's mailbox.
LEMMA ReceiveFetches ==
  ASSUME IInv, NEW p \in Tasks, PlacesOf(p) # {}, osal_msg_receive(p)
  PROVE  Boxes!Next
<1>1. PICK q \in Seq(Msgs) : q = osal_qHead
  BY DEF IInv, TypeOK
<1>2. PICK k \in 1 .. Len(q) : k = First(PlacesOf(p))
  <2>1. First(PlacesOf(p)) \in PlacesOf(p)
    BY FirstPlace DEF IInv
  <2>2. DOMAIN q = 1 .. Len(q)
    BY LenProperties
  <2> QED
    BY <1>1, <2>1, <2>2 DEF PlacesOf
<1>3. PICK m \in Msgs : m = q[k]
  BY <1>2, ElementOfSeq
<1>4. /\ dest_id[m] = p
      /\ \A j \in 1 .. k - 1 : dest_id[q[j]] # p
  <2>1. k \in PlacesOf(p) /\ \A j \in PlacesOf(p) : k <= j
    BY <1>2, FirstPlace DEF IInv
  <2>2. ASSUME NEW j \in 1 .. k - 1 PROVE dest_id[q[j]] # p
    <3>1. j \in 1 .. Len(q) /\ ~ (k <= j)
      <4>1. Len(q) \in Nat
        BY LenProperties
      <4> QED
        BY <1>2, <4>1
    <3> QED
      BY <1>1, <2>1, <3>1 DEF PlacesOf
  <2> QED
    BY <1>1, <1>3, <2>1, <2>2 DEF PlacesOf
<1>5. osal_qHead' = Without(q, k) /\ dest_id' = [dest_id EXCEPT ![m] = TASK_NO_TASK] /\ heap' = heap
  BY <1>1, <1>2, <1>3 DEF osal_msg_receive
<1>6. Queued' = Queued \ {m} /\ m \in Queued /\ m \in heap
  <2>1. k \in DOMAIN osal_qHead /\ osal_qHead' = Without(osal_qHead, k)
    BY <1>1, <1>2, <1>5
  <2>2. Queued' = Queued \ {osal_qHead[k]}
    BY <2>1, Extract DEF IInv, HeadersTellQueued
  <2> QED
    BY <1>1, <1>3, <2>1, <2>2 DEF IInv, HeadersTellQueued, Queued
<1>7. PICK a \in Seq(Msgs), b \in Seq(Msgs) : SplitsAt(q, k, a, b)
  BY SplitAt
<1>8. q = (a \o <<m>>) \o b /\ osal_qHead' = a \o b /\ Len(a) = k - 1
      /\ \A i \in 1 .. Len(a) : dest_id[a[i]] # p
  BY <1>3, <1>4, <1>5, <1>7 DEF SplitsAt
<1>9. <<m>> \in Seq(Msgs) /\ a \o <<m>> \in Seq(Msgs) /\ a \o b \in Seq(Msgs)
  BY ConcatProperties
\* The list is as long as its parts, in any mailbox.
<1>10. ASSUME NEW S
       PROVE  /\ Those(q, S) = (Those(a, S) \o Those(<<m>>, S)) \o Those(b, S)
              /\ Those(a \o b, S) = Those(a, S) \o Those(b, S)
  <2>1. ThoseOfBoth(a \o <<m>>, b, S)
    BY <1>9, ThoseConcat
  <2>2. ThoseOfBoth(a, <<m>>, S)
    BY <1>9, ThoseConcat
  <2>3. ThoseOfBoth(a, b, S)
    BY ThoseConcat
  <2> QED
    BY <1>8, <2>1, <2>2, <2>3, Zenon DEF ThoseOfBoth
<1>11. ASSUME NEW t \in Tasks, t # p PROVE Mailbox(t)' = Mailbox(t)
  <2>0. AddressedTo(t)' = AddressedTo(t) /\ m \notin AddressedTo(t)
    BY <1>4, <1>5, <1>11, TaskAssumption DEF AddressedTo, IInv, TypeOK
  <2>1. PICK S : S = AddressedTo(t) /\ S = AddressedTo(t)' /\ m \notin S
    BY <2>0
  <2>2. PICK x \in Seq(Msgs) : x = Those(a, S)
    BY ThoseTyped
  <2>3. Those(<<m>>, S) = <<>> /\ x \o <<>> = x
    BY <2>1, ThoseOne, ConcatEmptySeq
  <2> QED
    BY <1>1, <1>8, <1>10, <2>1, <2>2, <2>3 DEF Mailbox
<1>12. Mailbox(p) = <<m>> \o Mailbox(p)' /\ Mailbox(p)' \in Seq(Msgs)
  <2>1. PICK S : S = AddressedTo(p) /\ m \in S
    BY <1>4 DEF AddressedTo
  <2>2. PICK T : T = AddressedTo(p)' /\ T = S \ {m}
    BY <1>5, <2>1, TaskAssumption DEF AddressedTo, IInv, TypeOK
  <2>3. \A i \in 1 .. Len(a \o b) : (a \o b)[i] \in T <=> (a \o b)[i] \in S
    <3>1. \A i \in 1 .. Len(a \o b) : (a \o b)[i] \in Queued'
      <4>1. DOMAIN (a \o b) = 1 .. Len(a \o b)
        BY <1>9, LenProperties
      <4> QED
        BY <1>8, <4>1 DEF Queued
    <3> QED
      BY <1>6, <2>2, <3>1
  <2>4. Those(a \o b, T) = Those(a \o b, S)
    BY <1>9, <2>3, ThoseSame
  <2>5. Those(a, S) = <<>>
    <3>1. \A i \in 1 .. Len(a) : a[i] \notin S
      BY <1>8, <2>1 DEF AddressedTo
    <3> QED
      BY <3>1, ThoseNone
  <2>6. PICK x \in Seq(Msgs) : x = Those(b, S)
    BY ThoseTyped
  <2>7. Those(<<m>>, S) = <<m>> /\ <<>> \o <<m>> = <<m>> /\ <<>> \o x = x
    BY <1>9, <2>1, ThoseOne, ConcatEmptySeq
  <2>8. Those(q, S) = <<m>> \o x /\ Those(a \o b, T) = x
    BY <1>10, <2>4, <2>5, <2>6, <2>7
  <2> QED
    BY <1>1, <1>8, <2>1, <2>2, <2>6, <2>8 DEF Mailbox
<1>13. Mailbox(p) # <<>> /\ Head(Mailbox(p)) = m /\ Tail(Mailbox(p)) = Mailbox(p)'
  <2>1. PICK y \in Seq(Msgs) : y = Mailbox(p)'
    BY <1>12
  <2>2. <<m>> \o y # <<>> /\ Head(<<m>> \o y) = m /\ Tail(<<m>> \o y) = y
    OBVIOUS
  <2> QED
    BY <1>12, <2>1, <2>2
<1>14. PICK box : box = [t \in Tasks |-> Mailbox(t)]
  OBVIOUS
<1>15. [t \in Tasks |-> Mailbox(t)]' = [box EXCEPT ![p] = Tail(@)]
  BY <1>11, <1>13, <1>14
<1>16. Boxes!Fetch(p)
  BY <1>5, <1>6, <1>13, <1>14, <1>15 DEF Boxes!Fetch
<1> QED
  BY <1>16 DEF Boxes!Next

LEMMA FrontStep ==
  ASSUME TypeOK, FrontOK, [Next]_vars
  PROVE  FrontOK'
<1> USE DEF FrontOK, InCode, queueVars, NoSend
<1>1. CASE UNCHANGED sending
  BY <1>1
<1>2. ASSUME NEW m \in Msgs, NEW t \in Tasks, NEW push \in Fronts, MarkMsg(m, t, push)
      PROVE  FrontOK'
  BY <1>2 DEF MarkMsg
<1>3. CASE LinkMsg
  BY <1>3 DEF LinkMsg, TypeOK
<1>4. CASE SignalMsg
  BY <1>4 DEF SignalMsg
<1>5. CASE Return \/ Loop \/ \E e \in IsrEvents : Interrupt(e[1], e[2])
  <2>1. UNCHANGED sending
    BY <1>5 DEF Return, Loop, Interrupt, HandlerReturns, PollDone, ScanNext, ScanFound, TakeEvents,
                GiveBack, PowerConserve
  <2> QED
    BY <1>1, <2>1
<1>6. ASSUME NEW m \in Msgs,
             osal_msg_allocate(m) \/ osal_msg_deallocate(m) \/ SendToInvalidTask(m) \/ SendQueued(m)
      PROVE  FrontOK'
  <2>1. UNCHANGED sending
    BY <1>6 DEF osal_msg_allocate, osal_msg_deallocate, SendToInvalidTask, SendQueued, vars
  <2> QED
    BY <1>1, <2>1
<1>7. ASSUME NEW t \in Tasks, osal_msg_receive(t) PROVE FrontOK'
  BY <1>1, <1>7 DEF osal_msg_receive
<1>8. ASSUME NEW t \in Tasks, NEW f \in Flags, osal_set_event(t, f) \/ osal_clear_event(t, f)
      PROVE  FrontOK'
  BY <1>1, <1>8 DEF osal_set_event, osal_clear_event
<1>9. CASE UNCHANGED vars
  BY <1>1, <1>9 DEF vars
<1> QED
  BY <1>2, <1>3, <1>4, <1>5, <1>6, <1>7, <1>8, <1>9 DEF Next, Code

\* No mailbox and no free or held buffer changes.
LEMMA Idles ==
  ASSUME TypeOK, osal_qHead' = osal_qHead, heap' = heap,
         \A m \in Queued : dest_id'[m] = dest_id[m]
  PROVE  UNCHANGED Boxes!vars
BY SameBoxes DEF Boxes!vars

\* Every step is a step of the mailboxes or leaves them alone.
LEMMA StepRefines ==
  ASSUME IInv, FrontOK, [Next]_vars
  PROVE  [Boxes!Next]_(Boxes!vars)
<1>0. TypeOK /\ HeadersTellQueued
  BY DEF IInv
<1>1. ASSUME NEW m \in Msgs, osal_msg_allocate(m) PROVE Boxes!Next
  <2>1. osal_qHead' = osal_qHead /\ heap' = heap \cup {m} /\ m \notin heap
        /\ dest_id' = [dest_id EXCEPT ![m] = TASK_NO_TASK]
    BY <1>1 DEF osal_msg_allocate
  <2>2. m \notin Queued /\ Boxes!Waiting \subseteq Queued
    BY <1>0, <2>1, WaitingQueued DEF HeadersTellQueued
  <2>3. \A x \in Queued : dest_id'[x] = dest_id[x]
    BY <1>0, <2>1, <2>2 DEF TypeOK, HeadersTellQueued
  <2>4. /\ [t \in Tasks |-> Mailbox(t)]' = [t \in Tasks |-> Mailbox(t)]
        /\ Queued' = Queued
    BY <1>0, <2>1, <2>3, SameBoxes
  <2>5. Boxes!Allocate(m)
    BY <2>1, <2>2, <2>4 DEF Boxes!Allocate
  <2> QED
    BY <2>5 DEF Boxes!Next
<1>2. ASSUME NEW m \in Msgs, osal_msg_deallocate(m) PROVE Boxes!Next
  <2>1. osal_qHead' = osal_qHead /\ heap' = heap \ {m} /\ m \in heap /\ dest_id' = dest_id
        /\ dest_id[m] = TASK_NO_TASK
    BY <1>2 DEF osal_msg_deallocate
  <2>2. m \notin Queued
    BY <1>0, <2>1 DEF HeadersTellQueued
  <2>3. /\ [t \in Tasks |-> Mailbox(t)]' = [t \in Tasks |-> Mailbox(t)]
        /\ Queued' = Queued
    BY <1>0, <2>1, SameBoxes
  <2>4. Boxes!Free(m)
    BY <2>1, <2>2, <2>3 DEF Boxes!Free
  <2> QED
    BY <2>4 DEF Boxes!Next
<1>3. ASSUME NEW m \in Msgs, SendToInvalidTask(m) PROVE Boxes!Next
  BY <1>2, <1>3 DEF SendToInvalidTask
<1>4. ASSUME NEW m \in Msgs, NEW t \in Tasks, NEW push \in Fronts, MarkMsg(m, t, push)
      PROVE  UNCHANGED Boxes!vars
  <2>1. osal_qHead' = osal_qHead /\ heap' = heap /\ m \in heap /\ dest_id[m] = TASK_NO_TASK
        /\ dest_id' = [dest_id EXCEPT ![m] = t]
    BY <1>4 DEF MarkMsg
  <2>2. m \notin Queued
    BY <1>0, <2>1 DEF HeadersTellQueued
  <2>3. \A x \in Queued : dest_id'[x] = dest_id[x]
    BY <1>0, <2>1, <2>2 DEF TypeOK, HeadersTellQueued
  <2> QED
    BY <1>0, <2>1, <2>3, Idles
<1>5. CASE LinkMsg
  BY <1>5, LinkPosts
<1>6. ASSUME NEW t \in Tasks, osal_msg_receive(t), PlacesOf(t) # {} PROVE Boxes!Next
  BY <1>6, ReceiveFetches
<1>7. CASE UNCHANGED <<osal_qHead, heap, dest_id>>
  BY <1>0, <1>7, Idles
<1>8. ASSUME NEW t \in Tasks, osal_msg_receive(t), PlacesOf(t) = {}
      PROVE  UNCHANGED <<osal_qHead, heap, dest_id>>
  BY <1>8 DEF osal_msg_receive
<1>9. CASE Return \/ Loop \/ \E e \in IsrEvents : Interrupt(e[1], e[2])
  <2>1. UNCHANGED <<osal_qHead, heap, dest_id>>
    BY <1>9 DEF Return, Loop, Interrupt, HandlerReturns, PollDone, ScanNext, ScanFound, TakeEvents,
                GiveBack, PowerConserve, queueVars
  <2> QED
    BY <1>7, <2>1
<1>10. ASSUME NEW m \in Msgs, SendQueued(m) PROVE UNCHANGED <<osal_qHead, heap, dest_id>>
  BY <1>10 DEF SendQueued, vars, queueVars
<1>11. ASSUME NEW t \in Tasks, NEW f \in Flags, osal_set_event(t, f) \/ osal_clear_event(t, f)
       PROVE  UNCHANGED <<osal_qHead, heap, dest_id>>
  BY <1>11 DEF osal_set_event, osal_clear_event, queueVars
<1>12. SignalMsg \/ UNCHANGED vars => UNCHANGED <<osal_qHead, heap, dest_id>>
  BY DEF SignalMsg, vars, queueVars
<1> QED
  BY <1>1, <1>2, <1>3, <1>4, <1>5, <1>6, <1>7, <1>8, <1>9, <1>10, <1>11, <1>12 DEF Next, Code

\* Each task has a mailbox of its own, first in first out among sends: no message is
\* lost, doubled or given to another task.
THEOREM Implements == Spec => ImplementsMailboxes
<1>1. Init => Boxes!Init /\ FrontOK
  <2> SUFFICES ASSUME Init PROVE Boxes!Init /\ FrontOK
    OBVIOUS
  <2>1. osal_qHead = <<>> /\ heap = {} /\ FrontOK
    BY DEF Init, FrontOK
  <2>2. <<>> \in Seq({}) /\ \A k \in 1 .. Len(<<>>) : FALSE
    OBVIOUS
  <2>3. ASSUME NEW t \in Tasks PROVE Mailbox(t) = <<>>
    <3>1. Those(<<>>, AddressedTo(t)) = <<>>
      BY <2>2, ThoseNone
    <3> QED
      BY <2>1, <3>1 DEF Mailbox
  <2>4. [t \in Tasks |-> Mailbox(t)] = [t \in Tasks |-> <<>>]
    BY <2>3
  <2> QED
    BY <2>1, <2>4 DEF Boxes!Init
<1>2. IInv /\ FrontOK /\ [Next]_vars => FrontOK'
  BY FrontStep DEF IInv
<1>3. IInv /\ FrontOK /\ [Next]_vars => [Boxes!Next]_(Boxes!vars)
  BY StepRefines
<1> QED
  BY <1>1, <1>2, <1>3, Invariant, PTL DEF Spec, ImplementsMailboxes, Boxes!Spec
=============================================================================
