----------------------------- MODULE OsalTasks -----------------------------
(***************************************************************************)
(* The OSAL scheduler and its message queue: osal_run_system, the event    *)
(* functions and the osal_msg_* functions of Components/osal/common/OSAL.c.*)
(*                                                                         *)
(* One cooperative loop polls the background code, looks for the first     *)
(* task with an event, takes all its events, runs its handler and gives    *)
(* back the events the handler leaves unprocessed.  Interrupt handlers set *)
(* events between any two of these steps.  One list holds the queued       *)
(* messages of all tasks; SYS_EVENT_MSG tells a task that it has one.      *)
(*                                                                         *)
(* osal_msg_send marks the buffer, links it and signals the task in three  *)
(* steps with interrupts enabled in between, so they are three actions.    *)
(***************************************************************************)
EXTENDS Integers, Sequences, FiniteSets

CONSTANTS tasksCnt,      \* number of tasks; task 0 is the most urgent
          Flags,         \* the event flags other than SYS_EVENT_MSG
          SYS_EVENT_MSG,
          Msgs,          \* message buffers the heap has room for
          TASK_NO_TASK,
          IsrEvents,     \* <<task, flag>> pairs that interrupt handlers set
          Fronts         \* values of the push argument of osal_msg_enqueue_push

Tasks == 0 .. tasksCnt - 1
AllFlags == Flags \cup {SYS_EVENT_MSG}

ASSUME TaskAssumption == tasksCnt \in Nat \ {0} /\ TASK_NO_TASK \notin Tasks
ASSUME FlagAssumption == /\ SYS_EVENT_MSG \notin Flags
                         /\ IsrEvents \subseteq Tasks \X Flags
                         /\ Fronts \subseteq BOOLEAN

VARIABLES osal_qHead,   \* the list of queued messages
          heap,         \* buffers allocated and not freed
          dest_id,      \* the header of each buffer: its task once sent
          sending,      \* the send in progress: none or <<buffer, push, step>>
          tasksEvents,  \* events set and not taken, by task
          pc, idx,      \* where osal_run_system is, and its local idx
          events,       \* its local events: what the handler was given
          received      \* whether the handler has called osal_msg_receive

queueVars == <<osal_qHead, heap, dest_id, sending>>
loopVars == <<pc, idx, events, received>>
vars == <<queueVars, tasksEvents, loopVars>>

NoSend == <<>>

\* activeTaskID is the running task, TASK_NO_TASK in the background code.
activeTaskID == IF pc = "run" THEN idx ELSE TASK_NO_TASK

Queued == {osal_qHead[k] : k \in DOMAIN osal_qHead}

Init ==
  /\ osal_qHead = <<>> /\ heap = {} /\ sending = NoSend
  /\ dest_id = [m \in Msgs |-> TASK_NO_TASK]
  /\ tasksEvents = [t \in Tasks |-> {}]
  /\ pc = "poll" /\ idx = 0 /\ events = {} /\ received = FALSE

-----------------------------------------------------------------------------
(* Calls a handler makes, or the background code of the loop: the timer    *)
(* callbacks of osalTimeUpdate, Hal_ProcessPoll and User_Process_Pool.     *)

InCode == pc \in {"poll", "run"} /\ sending = NoSend

osal_msg_allocate(m) ==
  /\ InCode
  /\ m \notin heap
  /\ heap' = heap \cup {m}
  /\ dest_id' = [dest_id EXCEPT ![m] = TASK_NO_TASK]
  /\ UNCHANGED <<osal_qHead, sending, tasksEvents, loopVars>>

\* mutant: a buffer is freed without a look at its header
DeallocateAny(m) ==
  /\ InCode
  /\ m \in heap
  /\ heap' = heap \ {m}
  /\ UNCHANGED <<osal_qHead, dest_id, sending, tasksEvents, loopVars>>

\* A buffer that is queued is not freed (MSG_BUFFER_NOT_AVAIL).
osal_msg_deallocate(m) ==
  /\ InCode
  /\ m \in heap
  /\ dest_id[m] = TASK_NO_TASK
  /\ heap' = heap \ {m}
  /\ UNCHANGED <<osal_qHead, dest_id, sending, tasksEvents, loopVars>>

\* osal_msg_send (push = FALSE) and osal_msg_push_front (push = TRUE) of a
\* buffer whose header says it is not queued.
MarkMsg(m, t, push) ==
  /\ InCode
  /\ m \in heap
  /\ dest_id[m] = TASK_NO_TASK
  /\ dest_id' = [dest_id EXCEPT ![m] = t]
  /\ sending' = <<m, push, "link">>
  /\ UNCHANGED <<osal_qHead, heap, tasksEvents, loopVars>>

\* A send to a task that does not exist frees the buffer, unless it is queued.
SendToInvalidTask(m) == osal_msg_deallocate(m)

\* A send of a buffer that is queued is refused, and the attempt to free it
\* too: the queue keeps it.
SendQueued(m) ==
  /\ InCode
  /\ m \in heap
  /\ dest_id[m] # TASK_NO_TASK
  /\ UNCHANGED vars

\* osal_msg_enqueue, osal_msg_push.
LinkMsg ==
  /\ sending # NoSend /\ sending[3] = "link"
  /\ osal_qHead' = IF sending[2] THEN <<sending[1]>> \o osal_qHead
                   ELSE Append(osal_qHead, sending[1])
  /\ sending' = [sending EXCEPT ![3] = "signal"]
  /\ UNCHANGED <<heap, dest_id, tasksEvents, loopVars>>

SetEvents(t, flags) == [tasksEvents EXCEPT ![t] = @ \cup flags]
ClearEvents(t, flags) == [tasksEvents EXCEPT ![t] = @ \ flags]

SignalMsg ==
  /\ sending # NoSend /\ sending[3] = "signal"
  /\ tasksEvents' = SetEvents(dest_id[sending[1]], {SYS_EVENT_MSG})
  /\ sending' = NoSend
  /\ UNCHANGED <<osal_qHead, heap, dest_id, loopVars>>

\* The places of a task's messages in the queue.
PlacesOf(t) == {k \in DOMAIN osal_qHead : dest_id[osal_qHead[k]] = t}
First(S) == CHOOSE i \in S : \A j \in S : i <= j
Without(q, k) == SubSeq(q, 1, k - 1) \o SubSeq(q, k + 1, Len(q))

\* mutant: SYS_EVENT_MSG is cleared though a second message waits
ReceiveAndClear(t) ==
  /\ InCode /\ pc = "run" /\ t = idx
  /\ tasksEvents' = ClearEvents(t, {SYS_EVENT_MSG})
  /\ IF PlacesOf(t) = {} THEN UNCHANGED <<osal_qHead, dest_id>>
     ELSE LET k == First(PlacesOf(t))
          IN  /\ osal_qHead' = Without(osal_qHead, k)
              /\ dest_id' = [dest_id EXCEPT ![osal_qHead[k]] = TASK_NO_TASK]
  /\ received' = TRUE
  /\ UNCHANGED <<heap, sending, pc, idx, events>>

\* mutant: the newest message is extracted
ReceiveNewest(t) ==
  /\ InCode /\ pc = "run" /\ t = idx
  /\ tasksEvents' = IF \E j, k \in PlacesOf(t) : j # k
                    THEN SetEvents(t, {SYS_EVENT_MSG})
                    ELSE ClearEvents(t, {SYS_EVENT_MSG})
  /\ \E k \in PlacesOf(t) :
       /\ \A j \in PlacesOf(t) : j <= k
       /\ osal_qHead' = Without(osal_qHead, k)
       /\ dest_id' = [dest_id EXCEPT ![osal_qHead[k]] = TASK_NO_TASK]
  /\ received' = TRUE
  /\ UNCHANGED <<heap, sending, pc, idx, events>>

\* One critical section: SYS_EVENT_MSG is set again when the task has a second
\* message and cleared otherwise; the first one is extracted.
osal_msg_receive(t) ==
  /\ InCode /\ pc = "run" /\ t = idx
  /\ tasksEvents' = IF \E j, k \in PlacesOf(t) : j # k
                    THEN SetEvents(t, {SYS_EVENT_MSG})
                    ELSE ClearEvents(t, {SYS_EVENT_MSG})
  /\ IF PlacesOf(t) = {} THEN UNCHANGED <<osal_qHead, dest_id>>
     ELSE LET k == First(PlacesOf(t))
          IN  /\ osal_qHead' = Without(osal_qHead, k)
              /\ dest_id' = [dest_id EXCEPT ![osal_qHead[k]] = TASK_NO_TASK]
  /\ received' = TRUE
  /\ UNCHANGED <<heap, sending, pc, idx, events>>

osal_set_event(t, f) ==
  /\ InCode
  /\ tasksEvents' = SetEvents(t, {f})
  /\ UNCHANGED <<queueVars, loopVars>>

osal_clear_event(t, f) ==
  /\ InCode
  /\ tasksEvents' = ClearEvents(t, {f})
  /\ UNCHANGED <<queueVars, loopVars>>

-----------------------------------------------------------------------------
(* osal_run_system.                                                        *)

PollDone ==
  /\ InCode /\ pc = "poll"
  /\ pc' = "scan"
  /\ UNCHANGED <<queueVars, tasksEvents, idx, events, received>>

\* The scan reads each task's events with interrupts enabled.
ScanNext ==
  /\ pc = "scan" /\ idx < tasksCnt
  /\ tasksEvents[idx] = {}
  /\ idx' = idx + 1
  /\ UNCHANGED <<queueVars, tasksEvents, pc, events, received>>

ScanFound ==
  /\ pc = "scan" /\ idx < tasksCnt
  /\ tasksEvents[idx] # {}
  /\ pc' = "take"
  /\ UNCHANGED <<queueVars, tasksEvents, idx, events, received>>

TakeEvents ==
  /\ pc = "take"
  /\ events' = tasksEvents[idx]
  /\ tasksEvents' = [tasksEvents EXCEPT ![idx] = {}]
  /\ received' = FALSE
  /\ pc' = "run"
  /\ UNCHANGED <<queueVars, idx>>

\* The handler processes at least one event and returns the others.  Every
\* handler in this repository that takes SYS_EVENT_MSG receives at least once.
HandlerReturns(unprocessed) ==
  /\ InCode /\ pc = "run"
  /\ unprocessed \subseteq events /\ unprocessed # events
  /\ SYS_EVENT_MSG \in events \ unprocessed => received
  /\ events' = unprocessed
  /\ pc' = "giveback"
  /\ UNCHANGED <<queueVars, tasksEvents, idx, received>>

\* mutant: the unprocessed events replace those set while the handler ran
GiveBackOverwrites ==
  /\ pc = "giveback"
  /\ tasksEvents' = [tasksEvents EXCEPT ![idx] = events]
  /\ events' = {} /\ received' = FALSE
  /\ pc' = "poll" /\ idx' = 0
  /\ UNCHANGED queueVars

GiveBack ==
  /\ pc = "giveback"
  /\ tasksEvents' = SetEvents(idx, events)
  /\ events' = {} /\ received' = FALSE
  /\ pc' = "poll" /\ idx' = 0
  /\ UNCHANGED queueVars

\* No task was ready: the loop sleeps, if the build has POWER_SAVING, and
\* starts over.
PowerConserve ==
  /\ pc = "scan" /\ idx = tasksCnt
  /\ pc' = "poll" /\ idx' = 0
  /\ UNCHANGED <<queueVars, tasksEvents, events, received>>

\* An interrupt handler sets an event, between any two steps above.
Interrupt(t, f) ==
  /\ tasksEvents' = SetEvents(t, {f})
  /\ UNCHANGED <<queueVars, loopVars>>

Loop == \/ PollDone \/ ScanNext \/ ScanFound \/ TakeEvents \/ GiveBack
        \/ PowerConserve

Return == \E unprocessed \in SUBSET events : HandlerReturns(unprocessed)

Code ==
  \/ \E m \in Msgs : \/ osal_msg_allocate(m) \/ osal_msg_deallocate(m)
                     \/ SendToInvalidTask(m) \/ SendQueued(m)
  \/ \E m \in Msgs, t \in Tasks, push \in Fronts : MarkMsg(m, t, push)
  \/ LinkMsg
  \/ SignalMsg
  \/ \E t \in Tasks : osal_msg_receive(t)
  \/ \E t \in Tasks, f \in Flags : osal_set_event(t, f) \/ osal_clear_event(t, f)

Next == Code \/ Return \/ Loop \/ \E e \in IsrEvents : Interrupt(e[1], e[2])

Spec == Init /\ [][Next]_vars

\* The loop and a send are straight-line code.  A handler may do other things
\* first, but it does receive when it was told to, and it does return.
Fairness == /\ WF_vars(Loop)
            /\ WF_vars(LinkMsg \/ SignalMsg)
            /\ SF_vars(\E t \in Tasks : osal_msg_receive(t) /\ ~ received)
            /\ SF_vars(Return)
            /\ SF_vars(PollDone)

FairSpec == Spec /\ Fairness

-----------------------------------------------------------------------------
(* Properties.                                                             *)

TypeOK ==
  /\ osal_qHead \in Seq(Msgs)
  /\ heap \subseteq Msgs
  /\ dest_id \in [Msgs -> Tasks \cup {TASK_NO_TASK}]
  /\ sending \in {NoSend} \cup (Msgs \X BOOLEAN \X {"link", "signal"})
  /\ tasksEvents \in [Tasks -> SUBSET AllFlags]
  /\ pc \in {"poll", "scan", "take", "run", "giveback"}
  /\ idx \in 0 .. tasksCnt
  /\ pc \in {"take", "run", "giveback"} => idx \in Tasks
  /\ events \subseteq AllFlags
  /\ received \in BOOLEAN

\* The header of a buffer tells whether it is queued: osal_msg_deallocate and
\* the check of osal_msg_enqueue_push rely on nothing else to keep a buffer
\* from being freed, or linked twice, while the list holds it.
Linking(m) == sending # NoSend /\ sending[1] = m /\ sending[3] = "link"

HeadersTellQueued ==
  /\ \A j, k \in DOMAIN osal_qHead : osal_qHead[j] = osal_qHead[k] => j = k
  /\ \A m \in Queued : m \in heap
  /\ \A m \in heap : (dest_id[m] # TASK_NO_TASK) <=> (m \in Queued \/ Linking(m))

\* A send works on a buffer that is allocated and marked with its task.
SendOK ==
  sending # NoSend =>
    /\ sending[1] \in heap /\ dest_id[sending[1]] \in Tasks
    /\ (sending[1] \in Queued) <=> (sending[3] = "signal")
    /\ pc \in {"poll", "run"}

\* A task that has a queued message will be told: SYS_EVENT_MSG is set, or the
\* sender is about to set it, or the task's running handler was given it and
\* has not yet looked, or is about to have it given back.
Told(t) ==
  \/ SYS_EVENT_MSG \in tasksEvents[t]
  \/ sending # NoSend /\ sending[3] = "signal" /\ dest_id[sending[1]] = t
  \/ pc = "run" /\ idx = t /\ SYS_EVENT_MSG \in events /\ ~ received
  \/ pc = "giveback" /\ idx = t /\ SYS_EVENT_MSG \in events

NoLostWakeup == \A t \in Tasks : PlacesOf(t) # {} => Told(t)

\* An event that is set stays set until its task takes it or code clears it by
\* name: giving back the unprocessed ones never erases what interrupts set
\* while the handler ran.
EventsNotErased ==
  [][\A t \in Tasks, f \in Flags :
       f \in tasksEvents[t] /\ f \notin tasksEvents'[t] =>
         \/ pc = "take" /\ idx = t /\ f \in events'
         \/ osal_clear_event(t, f)]_vars

\* The tasks that are more urgent than t have nothing to do.
Undisturbed(t) == \A u \in 0 .. t - 1 : tasksEvents[u] = {}

\* A message is being pushed to the front, before those that wait.
Overtaking == sending # NoSend /\ sending[2]

\* A queued message is received, unless more urgent tasks are given events
\* again and again (the loop restarts its scan from task 0 after every handler)
\* or messages are pushed before it again and again.
DeliveredUnlessStarved ==
  \A m \in Msgs, t \in Tasks :
    (m \in Queued /\ dest_id[m] = t) ~>
      (m \notin Queued \/ []<>(~ Undisturbed(t)) \/ []<>Overtaking)

\* The members of S in a list, in their order.
Those(list, S) ==
  LET those[k \in 0 .. Len(list)] ==
        IF k = 0 THEN <<>>
        ELSE IF list[k] \in S THEN Append(those[k - 1], list[k]) ELSE those[k - 1]
  IN  those[Len(list)]

\* Each task sees a mailbox of its own.
AddressedTo(t) == {m \in Msgs : dest_id[m] = t}
Mailbox(t) == Those(osal_qHead, AddressedTo(t))

Boxes == INSTANCE Mailboxes WITH
           Places <- Tasks,
           box <- [t \in Tasks |-> Mailbox(t)],
           hand <- heap \ Queued

\* The shared list implements one queue per task: first in first out among
\* sends, no message lost, duplicated or delivered to another task.
ImplementsMailboxes == Boxes!Spec
=============================================================================
