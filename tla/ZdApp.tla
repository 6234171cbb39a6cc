-------------------------------- MODULE ZdApp --------------------------------
(***************************************************************************)
(* ZDApp, the device object of the stack, in the build of a secured end    *)
(* device that restores its network (ztemp): it starts the device, has it  *)
(* join, rejoin, wait for its key and leave, keeps what a restart needs in *)
(* non-volatile memory and tells the application each state.               *)
(*                                                                         *)
(* One action is one message or one event that ZDApp_event_loop serves, or *)
(* a callback of the network layer.  That layer is a library without       *)
(* source: it accepts a request or refuses it, answers one that it         *)
(* accepted, and may lose the parent at any time.  The events are served   *)
(* in the order of the tests of the loop, the messages before all of them. *)
(***************************************************************************)
EXTENDS Integers, Sequences

CONSTANTS NUM_DISC_ATTEMPTS, MAX_RESUME_RETRY,
          CounterSize,       \* zdoDiscCounter counts modulo this (2^8)
          MessagesLost       \* ZDApp_SendMsg may find the heap full

ASSUME ZdAppAssumption ==
  /\ NUM_DISC_ATTEMPTS \in Nat /\ MAX_RESUME_RETRY \in Nat \ {0}
  /\ CounterSize \in Nat /\ CounterSize > NUM_DISC_ATTEMPTS + 1
  /\ MessagesLost \in BOOLEAN

VARIABLES phase,             \* of ZDOInitDevice, then "run"
          devState, devStartMode, zdoDiscCounter, retryCnt, nwkStatus,
          events,            \* of ZDAppTaskID
          timers,            \* the events that a timer will set
          queue,             \* the messages for ZDAppTaskID
          request,           \* what the network layer works on
          nv,                \* what non-volatile memory keeps
          notice,            \* the ZDO_STATE_CHANGE queued to the application
          connected,         \* what the application holds, of the last one it had
          anew               \* history: ZDO_DEVICE_RESET asked for a new start, and no
                             \* key has come since

startVars == <<devStartMode, zdoDiscCounter, retryCnt>>
appVars == <<notice, connected>>
vars == <<phase, devState, startVars, nwkStatus, events, timers, queue, request, nv,
          appVars, anew>>

Events == <<"NETWORK_INIT", "STATE_CHANGE", "NWK_UPDATE_NV", "DEVICE_RESET", "DEVICE_AUTH">>

Messages == {"DISC_CNF", "JOIN_IND", "JOIN_REQ"}

DevStates == {"INIT", "NWK_DISC", "NWK_JOINING", "NWK_ORPHAN", "NWK_REJOIN",
              "END_DEVICE_UNAUTH", "END_DEVICE"}

Joined == devState \in {"END_DEVICE_UNAUTH", "END_DEVICE"}

Running == phase = "run"

\* What the application makes of a state.
Connected(s) == IF s = "END_DEVICE" THEN "connected" ELSE "apart"

-----------------------------------------------------------------------------
(* Start and restart.                                                      *)

\* SystemResetSoft, or a loss of supply: only non-volatile memory is kept.
Restart ==
  /\ phase' = "restore"
  /\ devState' = "INIT" /\ devStartMode' = "JOIN"
  /\ zdoDiscCounter' = 1 /\ retryCnt' = 0 /\ nwkStatus' = "success"
  /\ events' = {} /\ timers' = {} /\ queue' = <<>> /\ request' = "none"
  /\ notice' = "none" /\ connected' = "apart"

PowerLoss ==
  /\ Restart
  /\ UNCHANGED <<nv, anew>>

\* mutant: the option of a new network is cleared when it is read
ForgetOnce ==
  /\ phase = "restore" /\ nv.startNew
  /\ nv' = [nv EXCEPT !.net = FALSE, !.startNew = FALSE]
  /\ phase' = "forget keys"
  /\ UNCHANGED <<devState, startVars, nwkStatus, events, timers, queue, request, appVars,
                 anew>>

\* NLME_SetDefaultNV of ZDOInitDevice, ...
ForgetNetwork ==
  /\ phase = "restore" /\ nv.startNew
  /\ nv' = [nv EXCEPT !.net = FALSE]
  /\ phase' = "forget keys"
  /\ UNCHANGED <<devState, startVars, nwkStatus, events, timers, queue, request, appVars,
                 anew>>

\* ... ZDSecMgrClearNVKeyValues, after which power may also have failed, ...
ForgetKeys ==
  /\ phase = "forget keys"
  /\ nv' = [nv EXCEPT !.key = FALSE]
  /\ phase' = "start new"
  /\ UNCHANGED <<devState, startVars, nwkStatus, events, timers, queue, request, appVars,
                 anew>>

\* ... and the start: of the network that was saved, without delay, or a join.
\* The leave control is read and reset, and has no other effect.
ZDOInitDevice ==
  /\ \/ phase = "restore" /\ ~ nv.startNew
     \/ phase = "start new"
  /\ phase' = "run"
  /\ nv' = [nv EXCEPT !.leaveCtrl = FALSE]
  /\ IF phase = "restore" /\ nv.net
     THEN devStartMode' = "RESUME" /\ events' = {"NETWORK_INIT"} /\ UNCHANGED timers
     ELSE devStartMode' = "JOIN" /\ timers' = {"NETWORK_INIT"} /\ UNCHANGED events
  /\ UNCHANGED <<devState, zdoDiscCounter, retryCnt, nwkStatus, queue, request, appVars,
                 anew>>

-----------------------------------------------------------------------------
(* The network layer calls back.                                           *)

\* ZDApp_SendMsg to the task itself.
SendMsg(msg) ==
  \/ queue' = Append(queue, msg)
  \/ MessagesLost /\ UNCHANGED queue

\* ZDO_NetworkDiscoveryConfirmCB.
DiscoveryConfirm ==
  /\ Running /\ request = "disc"
  /\ request' = "none"
  /\ SendMsg("DISC_CNF")
  /\ UNCHANGED <<phase, devState, startVars, nwkStatus, events, timers, nv, appVars, anew>>

\* ZDO_JoinConfirmCB, of a join, a rejoin or an orphan scan.
JoinConfirm(status) ==
  /\ Running /\ request = "join"
  /\ request' = "none"
  /\ nwkStatus' = status
  /\ SendMsg("JOIN_IND")
  /\ UNCHANGED <<phase, devState, startVars, events, timers, nv, appVars, anew>>

\* ZDO_SyncIndicationCB: the parent is lost, and the indication may come when the
\* device looks for a network already; one until the message is read.
SyncIndication ==
  /\ Running /\ (Joined \/ (devState = "NWK_DISC" /\ devStartMode = "REJOIN"))
  /\ \A i \in DOMAIN queue : queue[i] # "JOIN_REQ"
  /\ SendMsg("JOIN_REQ")
  /\ UNCHANGED <<phase, devState, startVars, nwkStatus, events, timers, request, nv,
                 appVars, anew>>

\* ZDSecMgrAuthNwkKey: the trust center has sent the key.
AuthNwkKey ==
  /\ Running /\ devState = "END_DEVICE_UNAUTH"
  /\ events' = events \union {"DEVICE_AUTH"}
  /\ UNCHANGED <<phase, devState, startVars, nwkStatus, timers, queue, request, nv,
                 appVars, anew>>

\* ZDApp_LeaveReset: the network has the device leave, or the user does with the
\* button, which asks what the application believes.  ZDApp_ResetTimerStart lets
\* a timer that runs go on.
LeaveReset ==
  /\ Running /\ (Joined \/ connected = "connected")
  /\ nv' = [nv EXCEPT !.leaveCtrl = TRUE]
  /\ timers' = timers \union {"DEVICE_RESET"}
  /\ UNCHANGED <<phase, devState, startVars, nwkStatus, events, queue, request, appVars,
                 anew>>

\* ZDApp_NwkStateUpdateCB; an update that would save again what is saved is left
\* out.
NwkStateUpdate ==
  /\ Running /\ Joined
  /\ ~ nv.net \/ nv.startNew
  /\ timers' = timers \union {"NWK_UPDATE_NV"}
  /\ UNCHANGED <<phase, devState, startVars, nwkStatus, events, queue, request, nv,
                 appVars, anew>>

Expire(e) ==
  /\ Running /\ e \in timers
  /\ timers' = timers \ {e}
  /\ events' = events \union {e}
  /\ UNCHANGED <<phase, devState, startVars, nwkStatus, queue, request, nv, appVars, anew>>

-----------------------------------------------------------------------------
(* ZDApp_ProcessOSALMsg.                                                   *)

Receive(msg) ==
  /\ Running /\ queue # <<>> /\ Head(queue) = msg
  /\ queue' = Tail(queue)

\* A request to the network layer, which does one at a time; if it is refused
\* the device starts again later.
Request(r) ==
  \/ request = "none" /\ request' = r /\ UNCHANGED timers
  \/ timers' = timers \union {"NETWORK_INIT"} /\ UNCHANGED request

\* mutant: no new start is asked for when the scan has found nothing
RetryDropped(found) ==
  /\ Receive("DISC_CNF") /\ devState = "NWK_DISC"
  /\ ~ (found /\ zdoDiscCounter > NUM_DISC_ATTEMPTS)
  /\ zdoDiscCounter' = (zdoDiscCounter + 1) % CounterSize
  /\ UNCHANGED <<phase, devState, devStartMode, retryCnt, nwkStatus, events, timers,
                 request, nv, appVars, anew>>

\* The first scans, or one that has found no network, are followed by another.
ScanAgain(found) ==
  /\ Receive("DISC_CNF") /\ devState = "NWK_DISC"
  /\ ~ (found /\ zdoDiscCounter > NUM_DISC_ATTEMPTS)
  /\ zdoDiscCounter' = (zdoDiscCounter + 1) % CounterSize
  /\ timers' = timers \union {"NETWORK_INIT"}
  /\ UNCHANGED <<phase, devState, devStartMode, retryCnt, nwkStatus, events, request, nv,
                 appVars, anew>>

JoinNetwork ==
  /\ Receive("DISC_CNF") /\ devState = "NWK_DISC"
  /\ zdoDiscCounter > NUM_DISC_ATTEMPTS
  /\ \/ devStartMode = "JOIN" /\ devState' = "NWK_JOINING" /\ Request("join")
     \/ devStartMode = "REJOIN" /\ devState' = "NWK_REJOIN" /\ Request("join")
     \/ devStartMode = "RESUME" /\ UNCHANGED <<devState, timers, request>>
  /\ UNCHANGED <<phase, startVars, nwkStatus, events, nv, appVars, anew>>

\* A scan that was overtaken by a new start.
Ignore ==
  /\ Receive("DISC_CNF") /\ devState # "NWK_DISC"
  /\ UNCHANGED <<phase, devState, startVars, nwkStatus, events, timers, request, nv,
                 appVars, anew>>

\* So was the request that is confirmed.  With stochastic addresses, which ZigBee PRO
\* has, it is taken for a new address, and the application is told.
ConfirmElsewhere ==
  /\ Receive("JOIN_IND")
  /\ devState \notin {"NWK_JOINING", "NWK_ORPHAN", "NWK_REJOIN"}
  /\ events' = events \union {"STATE_CHANGE"}
  /\ UNCHANGED <<phase, devState, startVars, nwkStatus, timers, request, nv, appVars, anew>>

Confirmed ==
  Receive("JOIN_IND") /\ devState \in {"NWK_JOINING", "NWK_ORPHAN", "NWK_REJOIN"}

\* mutant: a device that is back in the network is not reset any more
JoinCancelsReset ==
  /\ Confirmed /\ nwkStatus = "success"
  /\ events' = (events \ {"DEVICE_RESET"}) \union {"STATE_CHANGE"}
  /\ IF nv.key
     THEN devState' = "END_DEVICE" /\ timers' = timers \ {"DEVICE_RESET"}
     ELSE /\ devState' = "END_DEVICE_UNAUTH"
          /\ timers' = timers \union {"DEVICE_RESET"}
  /\ UNCHANGED <<phase, startVars, nwkStatus, request, nv, appVars, anew>>

\* ZDApp_ProcessNetworkJoin: with a key in non-volatile memory the device is in
\* the network, without one it has until the reset timer ends to get it.
JoinSucceeds ==
  /\ Confirmed /\ nwkStatus = "success"
  /\ events' = events \union {"STATE_CHANGE"}
  /\ IF nv.key
     THEN devState' = "END_DEVICE" /\ UNCHANGED timers
     ELSE /\ devState' = "END_DEVICE_UNAUTH"
          /\ timers' = timers \union {"DEVICE_RESET"}
  /\ UNCHANGED <<phase, startVars, nwkStatus, request, nv, appVars, anew>>

\* The network that MODE_RESUME resumes has a PAN id, so MODE_JOIN would only
\* follow when MAX_RESUME_RETRY resumptions had failed.
JoinFails ==
  /\ Confirmed /\ nwkStatus # "success"
  /\ timers' = timers \union {"NETWORK_INIT"}
  /\ IF devStartMode # "RESUME"
     THEN UNCHANGED <<devStartMode, retryCnt>>
     ELSE /\ retryCnt' = retryCnt + 1
          /\ devStartMode' = CASE devState = "NWK_JOINING" ->
                                    IF retryCnt' >= MAX_RESUME_RETRY THEN "REJOIN"
                                    ELSE "RESUME"
                               [] OTHER -> IF retryCnt' <= MAX_RESUME_RETRY THEN "REJOIN"
                                           ELSE "JOIN"
  /\ zdoDiscCounter' = IF devState = "NWK_JOINING" THEN 1 ELSE zdoDiscCounter
  /\ UNCHANGED <<phase, devState, nwkStatus, events, request, nv, appVars, anew>>

\* ZDO_NWK_JOIN_REQ: back to the network that was lost.
Rejoin ==
  /\ Receive("JOIN_REQ")
  /\ retryCnt' = 0 /\ devStartMode' = "RESUME"
  /\ events' = events \union {"NETWORK_INIT"}
  /\ UNCHANGED <<phase, devState, zdoDiscCounter, nwkStatus, timers, request, nv, appVars,
                 anew>>

-----------------------------------------------------------------------------
(* ZDApp_event_loop: the first of the events, if no message is queued.     *)

Serve(e) ==
  /\ Running /\ queue = <<>>
  /\ e \in events
  /\ \E i \in DOMAIN Events :
       Events[i] = e /\ \A j \in 1 .. i - 1 : Events[j] \notin events

\* ZDO_NETWORK_INIT and ZDO_StartDevice.
StartDevice ==
  /\ Serve("NETWORK_INIT")
  /\ events' = (events \ {"NETWORK_INIT"}) \union {"STATE_CHANGE"}
  /\ \/ devStartMode = "RESUME" /\ devState' = "NWK_ORPHAN" /\ Request("join")
     \/ devStartMode # "RESUME" /\ devState' = "NWK_DISC" /\ Request("disc")
  /\ UNCHANGED <<phase, startVars, nwkStatus, queue, nv, appVars, anew>>

\* mutant: the notice is not tried again when the heap is full
NoticeDropped ==
  /\ Serve("STATE_CHANGE")
  /\ events' = events \ {"STATE_CHANGE"}
  /\ notice' \in {Connected(devState), notice}
  /\ UNCHANGED <<phase, devState, startVars, nwkStatus, timers, queue, request, nv,
                 connected, anew>>

\* ZDO_UpdateNwkStatus: zdoSendStateChangeMsg changes the notice that is queued,
\* or queues one, or, when the heap is full, has the event served again.
UpdateNwkStatus ==
  /\ Serve("STATE_CHANGE")
  /\ \/ events' = events \ {"STATE_CHANGE"} /\ notice' = Connected(devState)
     \/ notice = "none" /\ UNCHANGED <<events, notice>>
  /\ UNCHANGED <<phase, devState, startVars, nwkStatus, timers, queue, request, nv,
                 connected, anew>>

\* ZDApp_SaveNetworkStateEvt: the network, then the start option.
SaveNetworkState ==
  /\ Serve("NWK_UPDATE_NV")
  /\ events' = events \ {"NWK_UPDATE_NV"}
  /\ nv' = [nv EXCEPT !.net = TRUE, !.startNew = FALSE]
  /\ UNCHANGED <<phase, devState, startVars, nwkStatus, timers, queue, request, appVars,
                 anew>>

\* Power fails after NLME_UpdateNV and before zgWriteStartupOptions, the second of
\* its writes; nothing else comes between them.
PowerLossInSave ==
  /\ Serve("NWK_UPDATE_NV")
  /\ nv' = [nv EXCEPT !.net = TRUE]
  /\ Restart
  /\ UNCHANGED anew

\* ZDO_DEVICE_RESET.
DeviceReset ==
  /\ Serve("DEVICE_RESET")
  /\ nv' = [nv EXCEPT !.startNew = TRUE]
  /\ anew' = TRUE
  /\ Restart

\* mutant: ZDApp_ResetTimerCancel is forgotten
AuthLeavesTimer ==
  /\ Serve("DEVICE_AUTH")
  /\ IF devState = "END_DEVICE_UNAUTH"
     THEN /\ devState' = "END_DEVICE"
          /\ events' = (events \ {"DEVICE_AUTH"}) \union {"STATE_CHANGE"}
          /\ nv' = [nv EXCEPT !.key = TRUE]
          /\ anew' = FALSE
     ELSE /\ events' = events \ {"DEVICE_AUTH"}
          /\ UNCHANGED <<devState, nv, anew>>
  /\ timers' = timers \union {"NWK_UPDATE_NV"}
  /\ UNCHANGED <<phase, startVars, nwkStatus, queue, request, appVars>>

\* ZDApp_DeviceAuthEvt: ZDApp_ResetTimerCancel, the new state, ZDApp_SaveNwkKey.
DeviceAuth ==
  /\ Serve("DEVICE_AUTH")
  /\ IF devState = "END_DEVICE_UNAUTH"
     THEN /\ devState' = "END_DEVICE"
          /\ events' = (events \ {"DEVICE_AUTH", "DEVICE_RESET"}) \union {"STATE_CHANGE"}
          /\ timers' = (timers \ {"DEVICE_RESET"}) \union {"NWK_UPDATE_NV"}
          /\ nv' = [nv EXCEPT !.key = TRUE]
          /\ anew' = FALSE
     ELSE /\ events' = events \ {"DEVICE_AUTH"}
          /\ timers' = timers \union {"NWK_UPDATE_NV"}
          /\ UNCHANGED <<devState, nv, anew>>
  /\ UNCHANGED <<phase, startVars, nwkStatus, queue, request, appVars>>

\* The application receives its notice.
StateChange ==
  /\ Running /\ notice # "none"
  /\ connected' = notice /\ notice' = "none"
  /\ UNCHANGED <<phase, devState, startVars, nwkStatus, events, timers, queue, request, nv,
                 anew>>

-----------------------------------------------------------------------------

\* A new device.
Init ==
  /\ phase = "restore"
  /\ devState = "INIT" /\ devStartMode = "JOIN"
  /\ zdoDiscCounter = 1 /\ retryCnt = 0 /\ nwkStatus = "success"
  /\ events = {} /\ timers = {} /\ queue = <<>> /\ request = "none"
  /\ nv = [startNew |-> FALSE, net |-> FALSE, key |-> FALSE, leaveCtrl |-> FALSE]
  /\ notice = "none" /\ connected = "apart" /\ anew = FALSE

ProcessOSALMsg ==
  \/ \E found \in BOOLEAN : ScanAgain(found)
  \/ JoinNetwork \/ Ignore \/ ConfirmElsewhere \/ JoinSucceeds \/ JoinFails \/ Rejoin

EventLoop ==
  \/ ProcessOSALMsg
  \/ StartDevice \/ UpdateNwkStatus \/ SaveNetworkState \/ DeviceReset \/ DeviceAuth

Starting == ForgetNetwork \/ ForgetKeys \/ ZDOInitDevice

Confirm == DiscoveryConfirm \/ \E status \in {"success", "failure"} : JoinConfirm(status)

Next ==
  \/ Starting \/ PowerLoss \/ PowerLossInSave
  \/ Confirm \/ SyncIndication \/ AuthNwkKey \/ LeaveReset \/ NwkStateUpdate
  \/ \E e \in {"NETWORK_INIT", "NWK_UPDATE_NV", "DEVICE_RESET"} : Expire(e)
  \/ EventLoop \/ StateChange

Spec == Init /\ [][Next]_vars

\* The loop runs, timers expire and a request that was accepted is answered.  The
\* heap is not full every time.  Callbacks and timers, which take 100 ms and more,
\* do not keep an event from being served every time.
Fairness ==
  /\ WF_vars(EventLoop) /\ WF_vars(Confirm)
  /\ \A e \in {"NETWORK_INIT", "DEVICE_RESET"} : WF_vars(Expire(e))
  /\ SF_vars(UpdateNwkStatus /\ notice' = Connected(devState))
  /\ SF_vars(StartDevice) /\ SF_vars(SaveNetworkState) /\ SF_vars(DeviceReset)

FairSpec == Spec /\ Fairness

-----------------------------------------------------------------------------
(* Properties.                                                             *)

\* The types; of a confirm and of a lost parent one message is queued at most.
TypeOK ==
  /\ phase \in {"restore", "forget keys", "start new", "run"}
  /\ devState \in DevStates /\ devStartMode \in {"JOIN", "REJOIN", "RESUME"}
  /\ zdoDiscCounter \in 0 .. CounterSize - 1 /\ retryCnt \in 0 .. MAX_RESUME_RETRY
  /\ nwkStatus \in {"success", "failure"}
  /\ events \subseteq {Events[i] : i \in DOMAIN Events}
  /\ timers \subseteq {"NETWORK_INIT", "NWK_UPDATE_NV", "DEVICE_RESET"}
  /\ queue \in Seq(Messages) /\ Len(queue) <= 2
  /\ request \in {"none", "disc", "join"}
  /\ nv \in [startNew : BOOLEAN, net : BOOLEAN, key : BOOLEAN, leaveCtrl : BOOLEAN]
  /\ notice \in {"connected", "apart", "none"} /\ connected \in {"connected", "apart"}
  /\ anew \in BOOLEAN

\* A device that is not in the network is never left with nothing that takes it
\* on: a start is due, the network layer or a message has an answer, or, without
\* a key, a reset is due.  (A message lost to a full heap can break this.)
AlwaysTrying ==
  Running /\ devState # "END_DEVICE" =>
    \/ "NETWORK_INIT" \in events \union timers
    \/ request # "none" \/ queue # <<>>
    \/ devState = "END_DEVICE_UNAUTH" /\ "DEVICE_RESET" \in events \union timers

\* Once its key is saved, no reset is due to a device that was not told to leave: the
\* timer that waited for the key does not outlive ZDApp_DeviceAuthEvt.  (It may win
\* over it: with both events pending the reset is served first, and a device whose
\* key has come, but is not saved yet, starts anew.)
NoStrayReset ==
  "DEVICE_RESET" \in events \union timers => ~ nv.key \/ nv.leaveCtrl

\* The application believes the device connected, or not, falsely only while a
\* notice that corrects it is on its way, the full heap notwithstanding.
NoLostNotice ==
  connected # Connected(devState) =>
    \/ {"STATE_CHANGE", "NETWORK_INIT"} \intersect events # {}
    \/ notice = Connected(devState)

\* Once ZDO_DEVICE_RESET has asked for a new start, the device is in a network again
\* only with a new key, whenever power fails while it forgets the old one, looks for
\* another or saves it.  (Before that event, in the delay that ZDApp_LeaveReset gives,
\* a power failure does bring it back with the old key.)
ForgetsNetwork == anew => devState # "END_DEVICE"

\* A device that lost its network never joins another one before it is restarted.
\* (The comment of ZDApp_ProcessNetworkJoin speaks of a normal join after certain
\* times of rejoin retries.)
OnlyRejoins ==
  [][Running /\ Running' /\ devStartMode # "JOIN" => devStartMode' # "JOIN"]_vars

\* The device is in the network again and again, or tries to be, or is restarted.
KeepsTrying == []<>(devState = "END_DEVICE") \/ []<><<StartDevice>>_vars \/ []<>(~ Running)

\* A device that has its key and was told to leave stays due for the reset until it
\* is reset, also when it loses its parent and finds it again in the meantime.
\* (Without its key it may not: ZDApp_DeviceAuthEvt stops the timer that the leave
\* found running.)
LeaveHonoured ==
  [][nv.key /\ "DEVICE_RESET" \in events \union timers /\ Running' =>
       "DEVICE_RESET" \in events' \union timers']_vars
=============================================================================
