---------------------------- MODULE ZdApp_proofs ----------------------------
(***************************************************************************)
(* The safety of the device object, for every number of discovery attempts *)
(* and of rejoin retries, whichever requests the network layer refuses and *)
(* whenever power fails.  That the device always has something to wait for *)
(* needs a heap that never refuses ZDApp's own messages.                   *)
(***************************************************************************)
EXTENDS ZdApp, SequenceTheorems, WellFoundedInduction, TLAPS

Has(q, msg) == \E i \in DOMAIN q : q[i] = msg

\* Every confirm answers a request and the next request waits for it, in the
\* network layer or in the queue.
OneConfirm(q, r) ==
  /\ \A i, j \in DOMAIN q : i # j => (q[i] = "JOIN_REQ") # (q[j] = "JOIN_REQ")
  /\ r # "none" => \A i \in DOMAIN q : q[i] = "JOIN_REQ"

LEMMA OneConfirmShort ==
  ASSUME NEW q \in Seq(Messages), NEW r, OneConfirm(q, r)
  PROVE  Len(q) <= 2
<1> SUFFICES ASSUME Len(q) > 2 PROVE FALSE
  OBVIOUS
<1>1. 1 \in DOMAIN q /\ 2 \in DOMAIN q /\ 3 \in DOMAIN q
  OBVIOUS
<1> QED
  BY <1>1 DEF OneConfirm

LEMMA QueueAppend ==
  ASSUME NEW q \in Seq(Messages), NEW msg \in Messages
  PROVE  /\ Append(q, msg) \in Seq(Messages) /\ Append(q, msg) # <<>>
         /\ \A m : Has(Append(q, msg), m) <=> Has(q, m) \/ m = msg
<1>1. /\ Append(q, msg) \in Seq(Messages) /\ Len(Append(q, msg)) = Len(q) + 1
      /\ \A i \in 1 .. Len(q) : Append(q, msg)[i] = q[i]
      /\ Append(q, msg)[Len(q) + 1] = msg
  OBVIOUS
<1>2. DOMAIN q = 1 .. Len(q) /\ DOMAIN Append(q, msg) = 1 .. Len(q) + 1
  BY <1>1
<1> QED
  BY <1>1, <1>2 DEF Has

LEMMA QueueTail ==
  ASSUME NEW q \in Seq(Messages), q # <<>>
  PROVE  /\ Tail(q) \in Seq(Messages) /\ Head(q) \in Messages
         /\ Has(q, Head(q))
         /\ \A m : Has(q, m) => m = Head(q) \/ Has(Tail(q), m)
<1>1. /\ Tail(q) \in Seq(Messages) /\ Len(Tail(q)) = Len(q) - 1
      /\ \A i \in 1 .. Len(q) - 1 : Tail(q)[i] = q[i + 1]
      /\ Head(q) = q[1] /\ Len(q) > 0 /\ Len(q) \in Nat
  OBVIOUS
<1>2. DOMAIN q = 1 .. Len(q) /\ DOMAIN Tail(q) = 1 .. Len(q) - 1
  BY <1>1
<1>3. ASSUME NEW i \in DOMAIN q, i # 1
      PROVE  i - 1 \in DOMAIN Tail(q) /\ Tail(q)[i - 1] = q[i]
  BY <1>1, <1>2, <1>3
<1>4. Head(q) \in Messages
  BY <1>1, <1>2
<1> QED
  BY <1>1, <1>2, <1>3, <1>4 DEF Has

LEMMA OneConfirmAppend ==
  ASSUME NEW q \in Seq(Messages), NEW r, OneConfirm(q, r), NEW msg \in Messages
  PROVE  /\ msg # "JOIN_REQ" /\ r # "none" => OneConfirm(Append(q, msg), "none")
         /\ msg = "JOIN_REQ" /\ ~ Has(q, "JOIN_REQ") => OneConfirm(Append(q, msg), r)
<1>1. /\ Len(Append(q, msg)) = Len(q) + 1 /\ Len(q) \in Nat
      /\ \A i \in 1 .. Len(q) : Append(q, msg)[i] = q[i]
      /\ Append(q, msg)[Len(q) + 1] = msg
      /\ DOMAIN q = 1 .. Len(q) /\ DOMAIN Append(q, msg) = 1 .. Len(q) + 1
  OBVIOUS
<1>2. ASSUME msg # "JOIN_REQ", r # "none" PROVE OneConfirm(Append(q, msg), "none")
  BY <1>1, <1>2 DEF OneConfirm
<1>3. ASSUME msg = "JOIN_REQ", ~ Has(q, "JOIN_REQ")
      PROVE  OneConfirm(Append(q, msg), r)
  <2>1. \A i, j \in DOMAIN q : i = j
    BY <1>3 DEF OneConfirm, Has
  <2>2. r # "none" => Len(q) = 0
    <3>1. r # "none" => \A i \in 1 .. Len(q) : FALSE
      BY <1>1, <1>3 DEF OneConfirm, Has
    <3> QED
      BY <3>1, <1>1
  <2> QED
    BY <1>1, <1>3, <2>1, <2>2 DEF OneConfirm, Has
<1> QED
  BY <1>2, <1>3

\* Taking the head of the queue; if it was a confirm a request can follow it.
LEMMA OneConfirmTail ==
  ASSUME NEW q \in Seq(Messages), NEW r, OneConfirm(q, r), q # <<>>
  PROVE  /\ OneConfirm(Tail(q), r)
         /\ Head(q) # "JOIN_REQ" => \A s : OneConfirm(Tail(q), s)
<1>1. /\ Len(Tail(q)) = Len(q) - 1 /\ Len(q) \in Nat /\ Len(q) > 0
      /\ \A i \in 1 .. Len(q) - 1 : Tail(q)[i] = q[i + 1]
      /\ Head(q) = q[1]
      /\ DOMAIN q = 1 .. Len(q) /\ DOMAIN Tail(q) = 1 .. Len(q) - 1
  OBVIOUS
<1>2. \A i \in DOMAIN Tail(q) : i + 1 \in DOMAIN q /\ i + 1 # 1 /\ Tail(q)[i] = q[i + 1]
  BY <1>1
<1>3. \A i, j \in DOMAIN Tail(q) : i # j => i + 1 # j + 1
  BY <1>1
<1>4. OneConfirm(Tail(q), r)
  BY <1>2, <1>3 DEF OneConfirm
<1>5. ASSUME Head(q) # "JOIN_REQ", NEW i \in DOMAIN Tail(q)
      PROVE  Tail(q)[i] = "JOIN_REQ"
  BY <1>1, <1>2, <1>5 DEF OneConfirm
<1> QED
  BY <1>4, <1>5 DEF OneConfirm

-----------------------------------------------------------------------------
(* The types and the queue.                                                *)

\* Nothing is under way before the device has started.
Quiet ==
  ~ Running => /\ devState = "INIT" /\ retryCnt = 0
               /\ events = {} /\ timers = {} /\ queue = <<>> /\ request = "none"
               /\ notice = "none" /\ connected = "apart"

\* A resumption that fails for the last time leads to a rejoin, not to a join.
Resumes == devStartMode = "RESUME" => retryCnt < MAX_RESUME_RETRY

TypeInv == TypeOK /\ OneConfirm(queue, request) /\ Quiet /\ Resumes

LEMMA TypeInvInit == Init => TypeInv
<1> SUFFICES ASSUME Init PROVE TypeInv
  OBVIOUS
<1>1. zdoDiscCounter \in 0 .. CounterSize - 1 /\ retryCnt \in 0 .. MAX_RESUME_RETRY
  BY ZdAppAssumption DEF Init
<1>2. OneConfirm(queue, request)
  BY DEF Init, OneConfirm
<1>3. nv \in [startNew : BOOLEAN, net : BOOLEAN, key : BOOLEAN, leaveCtrl : BOOLEAN]
  BY Zenon DEF Init
<1>4. anew \in BOOLEAN
  BY Zenon DEF Init
<1> QED
  BY <1>1, <1>2, <1>3, <1>4
     DEF Init, TypeInv, TypeOK, Quiet, Running, Resumes, DevStates

USE DEF startVars, appVars

LEMMA EventNames ==
  {Events[i] : i \in DOMAIN Events} =
    {"NETWORK_INIT", "STATE_CHANGE", "NWK_UPDATE_NV", "DEVICE_RESET", "DEVICE_AUTH"}
<1>1. DOMAIN Events = 1 .. 5
  BY DEF Events
<1> QED
  BY <1>1 DEF Events

LEMMA CountWraps ==
  ASSUME NEW c \in 0 .. CounterSize - 1
  PROVE  (c + 1) % CounterSize \in 0 .. CounterSize - 1
BY ZdAppAssumption

\* The counts, apart from the other types.
LEMMA Counts ==
  ASSUME TypeInv
  PROVE  /\ zdoDiscCounter \in 0 .. CounterSize - 1
         /\ retryCnt \in 0 .. MAX_RESUME_RETRY
         /\ devStartMode = "RESUME" => retryCnt < MAX_RESUME_RETRY
BY DEF TypeInv, TypeOK, Resumes

LEMMA RestartKeeps ==
  ASSUME TypeInv, Restart, anew' \in BOOLEAN,
         nv' \in [startNew : BOOLEAN, net : BOOLEAN, key : BOOLEAN, leaveCtrl : BOOLEAN]
  PROVE  TypeInv'
<1>1. zdoDiscCounter' \in 0 .. CounterSize - 1 /\ retryCnt' \in 0 .. MAX_RESUME_RETRY
  BY ZdAppAssumption DEF Restart
<1>2. OneConfirm(queue', request')
  BY DEF Restart, OneConfirm
<1>3. queue' \in Seq(Messages) /\ Len(queue') <= 2
  BY DEF Restart
<1>4. /\ phase' = "restore" /\ devState' = "INIT" /\ devStartMode' = "JOIN"
      /\ retryCnt' = 0 /\ nwkStatus' = "success"
      /\ events' = {} /\ timers' = {} /\ queue' = <<>> /\ request' = "none"
      /\ notice' = "none" /\ connected' = "apart"
  BY DEF Restart
<1> QED
  BY <1>1, <1>2, <1>3, <1>4 DEF TypeInv, TypeOK, Quiet, Running, Resumes, DevStates

LEMMA StartingKeeps ==
  ASSUME TypeInv, Starting PROVE TypeInv'
<1>1. CASE ForgetNetwork \/ ForgetKeys
  BY <1>1 DEF ForgetNetwork, ForgetKeys, TypeInv, TypeOK, Quiet, Running, Resumes
<1>2. CASE ZDOInitDevice
  <2>1. /\ devStartMode' \in {"JOIN", "RESUME"} /\ phase' = "run" /\ retryCnt' = 0
        /\ events' \subseteq {"NETWORK_INIT"} /\ timers' \subseteq {"NETWORK_INIT"}
    BY <1>2 DEF ZDOInitDevice, TypeInv, Quiet, Running
  <2>2. nv' \in [startNew : BOOLEAN, net : BOOLEAN, key : BOOLEAN, leaveCtrl : BOOLEAN]
    BY <1>2 DEF ZDOInitDevice, TypeInv, TypeOK
  <2>3. Resumes'
    BY <2>1, ZdAppAssumption DEF Resumes
  <2> QED
    BY <1>2, <2>1, <2>2, <2>3, EventNames
       DEF ZDOInitDevice, TypeInv, TypeOK, Quiet, Running
<1> QED
  BY <1>1, <1>2 DEF Starting

LEMMA SendMsgKeeps ==
  ASSUME TypeInv, NEW msg \in Messages, SendMsg(msg),
         \/ msg # "JOIN_REQ" /\ request # "none" /\ request' = "none"
         \/ msg = "JOIN_REQ" /\ ~ Has(queue, "JOIN_REQ") /\ request' = request
  PROVE  queue' \in Seq(Messages) /\ Len(queue') <= 2 /\ OneConfirm(queue', request')
<1>1. queue \in Seq(Messages) /\ OneConfirm(queue, request)
  BY DEF TypeInv, TypeOK
<1>2. queue' \in Seq(Messages) /\ OneConfirm(queue', request')
  <2>1. CASE queue' = Append(queue, msg)
    BY <1>1, <2>1, OneConfirmAppend, QueueAppend
  <2>2. CASE queue' = queue
    BY <1>1, <2>2 DEF OneConfirm
  <2> QED
    BY <2>1, <2>2 DEF SendMsg
<1> QED
  BY <1>2, OneConfirmShort

LEMMA CallbackKeeps ==
  ASSUME TypeInv, Confirm \/ SyncIndication \/ AuthNwkKey \/ LeaveReset \/ NwkStateUpdate
  PROVE  TypeInv'
<1>1. CASE DiscoveryConfirm
  <2>1. queue' \in Seq(Messages) /\ Len(queue') <= 2 /\ OneConfirm(queue', request')
    BY <1>1, SendMsgKeeps DEF DiscoveryConfirm, Messages
  <2> QED
    BY <1>1, <2>1 DEF DiscoveryConfirm, TypeInv, TypeOK, Quiet, Running, Resumes
<1>2. ASSUME NEW status \in {"success", "failure"}, JoinConfirm(status)
      PROVE  TypeInv'
  <2>1. queue' \in Seq(Messages) /\ Len(queue') <= 2 /\ OneConfirm(queue', request')
    BY <1>2, SendMsgKeeps DEF JoinConfirm, Messages
  <2> QED
    BY <1>2, <2>1 DEF JoinConfirm, TypeInv, TypeOK, Quiet, Running, Resumes
<1>3. CASE SyncIndication
  <2>1. queue' \in Seq(Messages) /\ Len(queue') <= 2 /\ OneConfirm(queue', request')
    BY <1>3, SendMsgKeeps DEF SyncIndication, Messages, Has
  <2> QED
    BY <1>3, <2>1 DEF SyncIndication, TypeInv, TypeOK, Quiet, Running, Resumes
<1>4. CASE AuthNwkKey
  BY <1>4, EventNames DEF AuthNwkKey, TypeInv, TypeOK, Quiet, Running, Resumes
<1>5. CASE LeaveReset
  BY <1>5 DEF LeaveReset, TypeInv, TypeOK, Quiet, Running, Resumes
<1>6. CASE NwkStateUpdate
  BY <1>6 DEF NwkStateUpdate, TypeInv, TypeOK, Quiet, Running, Resumes
<1> QED
  BY <1>1, <1>2, <1>3, <1>4, <1>5, <1>6 DEF Confirm

LEMMA ExpireKeeps ==
  ASSUME TypeInv, NEW e \in {"NETWORK_INIT", "NWK_UPDATE_NV", "DEVICE_RESET"}, Expire(e)
  PROVE  TypeInv'
<1>1. events' \subseteq {Events[i] : i \in DOMAIN Events}
  BY EventNames DEF Expire, TypeInv, TypeOK
<1>2. timers' \subseteq {"NETWORK_INIT", "NWK_UPDATE_NV", "DEVICE_RESET"}
  BY DEF Expire, TypeInv, TypeOK
<1> QED
  BY <1>1, <1>2 DEF Expire, TypeInv, TypeOK, Quiet, Running, Resumes

\* A message that is received leaves room for one request.
LEMMA ReceiveKeeps ==
  ASSUME TypeInv, NEW msg, Receive(msg)
  PROVE  /\ queue' \in Seq(Messages) /\ Len(queue') <= 2
         /\ OneConfirm(queue', request)
         /\ msg # "JOIN_REQ" => \A s : OneConfirm(queue', s)
<1>1. queue \in Seq(Messages) /\ OneConfirm(queue, request)
  BY DEF TypeInv, TypeOK
<1>2. queue # <<>> /\ Head(queue) = msg /\ queue' = Tail(queue)
  BY DEF Receive
<1>3. queue' \in Seq(Messages) /\ OneConfirm(queue', request)
  BY <1>1, <1>2, QueueTail, OneConfirmTail
<1> QED
  BY <1>1, <1>2, <1>3, OneConfirmTail, OneConfirmShort

LEMMA MessageKeeps ==
  ASSUME TypeInv, ProcessOSALMsg PROVE TypeInv'
<1>1. ASSUME NEW found \in BOOLEAN, ScanAgain(found) PROVE TypeInv'
  <2>1. (zdoDiscCounter + 1) % CounterSize \in 0 .. CounterSize - 1
    BY CountWraps, Counts
  <2> QED
    BY <1>1, <2>1, ReceiveKeeps
       DEF ScanAgain, Receive, TypeInv, TypeOK, Quiet, Running, Resumes
<1>2. CASE JoinNetwork
  <2>1. /\ Receive("DISC_CNF")
        /\ UNCHANGED <<phase, devStartMode, zdoDiscCounter, retryCnt, nwkStatus, events, nv,
                       notice, connected, anew>>
    BY <1>2 DEF JoinNetwork
  <2>2. /\ devState' \in DevStates /\ request' \in {"none", "disc", "join"}
        /\ timers' \subseteq {"NETWORK_INIT", "NWK_UPDATE_NV", "DEVICE_RESET"}
    BY <1>2 DEF JoinNetwork, Request, TypeInv, TypeOK, DevStates
  <2>3. /\ queue' \in Seq(Messages) /\ Len(queue') <= 2 /\ OneConfirm(queue', request')
    BY <2>1, ReceiveKeeps
  <2> QED
    BY <2>1, <2>2, <2>3 DEF Receive, TypeInv, TypeOK, Quiet, Running, Resumes
<1>3. CASE Ignore
  <2>1. /\ Running
        /\ queue' \in Seq(Messages) /\ Len(queue') <= 2 /\ OneConfirm(queue', request)
    BY <1>3, ReceiveKeeps DEF Ignore, Receive
  <2> QED
    BY <1>3, <2>1 DEF Ignore, TypeInv, TypeOK, Quiet, Running, Resumes
<1>4. CASE JoinSucceeds
  <2>1. /\ Running
        /\ queue' \in Seq(Messages) /\ Len(queue') <= 2 /\ OneConfirm(queue', request)
    BY <1>4, ReceiveKeeps DEF JoinSucceeds, Confirmed, Receive
  <2>2. /\ devState' \in DevStates
        /\ timers' \subseteq {"NETWORK_INIT", "NWK_UPDATE_NV", "DEVICE_RESET"}
    BY <1>4 DEF JoinSucceeds, TypeInv, TypeOK, DevStates
  <2>3. events' \subseteq {Events[i] : i \in DOMAIN Events}
    BY <1>4, EventNames DEF JoinSucceeds, TypeInv, TypeOK
  <2>4. TypeOK'
    BY <1>4, <2>1, <2>2, <2>3 DEF JoinSucceeds, TypeInv, TypeOK, Running
  <2> QED
    BY <1>4, <2>1, <2>4 DEF JoinSucceeds, TypeInv, Quiet, Running, Resumes
<1>5. CASE JoinFails
  <2>1. /\ Running
        /\ queue' \in Seq(Messages) /\ Len(queue') <= 2 /\ OneConfirm(queue', request)
    BY <1>5, ReceiveKeeps DEF JoinFails, Confirmed, Receive
  <2>2. /\ retryCnt' \in 0 .. MAX_RESUME_RETRY
        /\ devStartMode' \in {"JOIN", "REJOIN", "RESUME"}
        /\ Resumes'
    <3>1. CASE devStartMode # "RESUME"
      BY <1>5, <3>1 DEF JoinFails, TypeInv, TypeOK, Resumes
    <3>2. CASE devStartMode = "RESUME"
      <4>1. retryCnt' = retryCnt + 1 /\ retryCnt \in Nat /\ retryCnt < MAX_RESUME_RETRY
        BY <1>5, <3>2, Counts, ZdAppAssumption DEF JoinFails
      <4>2. \/ devStartMode' = "RESUME" /\ ~ (retryCnt' >= MAX_RESUME_RETRY)
            \/ devStartMode' \in {"REJOIN", "JOIN"}
        BY <1>5, <3>2 DEF JoinFails
      <4> QED
        BY <4>1, <4>2, ZdAppAssumption DEF Resumes
    <3> QED
      BY <3>1, <3>2
  <2>3. zdoDiscCounter' \in 0 .. CounterSize - 1
    <3>1. zdoDiscCounter' \in {1, zdoDiscCounter}
      BY <1>5 DEF JoinFails
    <3> QED
      BY <3>1, Counts, ZdAppAssumption
  <2> QED
    BY <1>5, <2>1, <2>2, <2>3 DEF JoinFails, TypeInv, TypeOK, Quiet, Running
<1>6. CASE Rejoin
  <2>1. /\ Running
        /\ queue' \in Seq(Messages) /\ Len(queue') <= 2 /\ OneConfirm(queue', request)
    BY <1>6, ReceiveKeeps DEF Rejoin, Receive
  <2>2. events' \subseteq {Events[i] : i \in DOMAIN Events}
    BY <1>6, EventNames DEF Rejoin, TypeInv, TypeOK
  <2>3. retryCnt' \in 0 .. MAX_RESUME_RETRY /\ devStartMode' \in {"JOIN", "REJOIN", "RESUME"}
    BY <1>6, ZdAppAssumption DEF Rejoin
  <2>4. TypeOK'
    BY <1>6, <2>1, <2>2, <2>3 DEF Rejoin, TypeInv, TypeOK, Running
  <2> QED
    BY <1>6, <2>1, <2>4, ZdAppAssumption DEF TypeInv, Quiet, Running, Resumes, Rejoin
<1>7. CASE ConfirmElsewhere
  <2>1. /\ Running
        /\ queue' \in Seq(Messages) /\ Len(queue') <= 2 /\ OneConfirm(queue', request)
    BY <1>7, ReceiveKeeps DEF ConfirmElsewhere, Receive
  <2>2. events' \subseteq {Events[i] : i \in DOMAIN Events}
    BY <1>7, EventNames DEF ConfirmElsewhere, TypeInv, TypeOK
  <2> QED
    BY <1>7, <2>1, <2>2 DEF ConfirmElsewhere, TypeInv, TypeOK, Quiet, Running, Resumes
<1> QED
  BY <1>1, <1>2, <1>3, <1>4, <1>5, <1>6, <1>7 DEF ProcessOSALMsg

LEMMA EventKeeps ==
  ASSUME TypeInv,
         StartDevice \/ UpdateNwkStatus \/ SaveNetworkState \/ DeviceReset \/ DeviceAuth
  PROVE  TypeInv'
<1>1. CASE StartDevice
  <2>1. queue = <<>> /\ queue' = queue
    BY <1>1 DEF StartDevice, Serve
  <2>2. OneConfirm(queue', request')
    BY <2>1 DEF OneConfirm
  <2> QED
    <3>1. /\ Running /\ devState' \in DevStates /\ request' \in {"none", "disc", "join"}
          /\ timers' \subseteq {"NETWORK_INIT", "NWK_UPDATE_NV", "DEVICE_RESET"}
      BY <1>1 DEF StartDevice, Serve, Request, TypeInv, TypeOK, DevStates
    <3>2. events' \subseteq {Events[i] : i \in DOMAIN Events}
      BY <1>1, EventNames DEF StartDevice, TypeInv, TypeOK
    <3>3. UNCHANGED <<phase, devStartMode, zdoDiscCounter, retryCnt, nwkStatus, queue, nv,
                      notice, connected, anew>>
      BY <1>1 DEF StartDevice
    <3> QED
      BY <2>2, <3>1, <3>2, <3>3 DEF TypeInv, TypeOK, Quiet, Running, Resumes
<1>2. CASE UpdateNwkStatus
  BY <1>2 DEF UpdateNwkStatus, Serve, Connected, TypeInv, TypeOK, Quiet, Running, Resumes
<1>3. CASE SaveNetworkState
  BY <1>3 DEF SaveNetworkState, Serve, TypeInv, TypeOK, Quiet, Running, Resumes
<1>4. CASE DeviceReset
  <2>1. nv \in [startNew : BOOLEAN, net : BOOLEAN, key : BOOLEAN, leaveCtrl : BOOLEAN]
    BY DEF TypeInv, TypeOK
  <2>2. nv' = [nv EXCEPT !.startNew = TRUE] /\ anew' \in BOOLEAN /\ Restart
    BY <1>4 DEF DeviceReset
  <2> QED
    BY <2>1, <2>2, RestartKeeps
<1>5. CASE DeviceAuth
  <2>1. /\ nv' \in [startNew : BOOLEAN, net : BOOLEAN, key : BOOLEAN, leaveCtrl : BOOLEAN]
        /\ anew' \in BOOLEAN
    BY <1>5 DEF DeviceAuth, TypeInv, TypeOK
  <2>2. /\ Running /\ devState' \in DevStates
        /\ events' \subseteq {Events[i] : i \in DOMAIN Events}
        /\ timers' \subseteq {"NETWORK_INIT", "NWK_UPDATE_NV", "DEVICE_RESET"}
    BY <1>5, EventNames DEF DeviceAuth, Serve, TypeInv, TypeOK, DevStates
  <2>3. UNCHANGED <<phase, devStartMode, zdoDiscCounter, retryCnt, nwkStatus, queue, request,
                    notice, connected>>
    BY <1>5 DEF DeviceAuth
  <2> QED
    BY <2>1, <2>2, <2>3 DEF TypeInv, TypeOK, Quiet, Running, Resumes
<1> QED
  BY <1>1, <1>2, <1>3, <1>4, <1>5

LEMMA TypeInvNext == TypeInv /\ [Next]_vars => TypeInv'
<1> SUFFICES ASSUME TypeInv, [Next]_vars PROVE TypeInv'
  OBVIOUS
<1>1. CASE PowerLoss \/ PowerLossInSave
  BY <1>1, RestartKeeps DEF PowerLoss, PowerLossInSave, TypeInv, TypeOK
<1>2. CASE StateChange
  BY <1>2 DEF StateChange, TypeInv, TypeOK, Quiet, Running, Resumes
<1>3. CASE UNCHANGED vars
  <2>1. UNCHANGED <<phase, devState, devStartMode, zdoDiscCounter, retryCnt, nwkStatus, events,
                    timers, queue, request, nv, notice, connected, anew>>
    BY <1>3 DEF vars
  <2>2. TypeOK' = TypeOK
    BY <2>1 DEF TypeOK
  <2>3. OneConfirm(queue', request') = OneConfirm(queue, request)
    BY <2>1
  <2>4. Quiet' = Quiet /\ Resumes' = Resumes
    BY <2>1 DEF Quiet, Running, Resumes
  <2> QED
    BY <2>2, <2>3, <2>4 DEF TypeInv
<1> QED
  BY <1>1, <1>2, <1>3, StartingKeeps, CallbackKeeps, ExpireKeeps, MessageKeeps, EventKeeps
     DEF Next, EventLoop

\* The state of the device object keeps its type: of the confirms and the requests
\* to the network layer there is never more than one.
THEOREM TypeCorrect == Spec => []TypeOK
<1>1. TypeInv => TypeOK
  BY DEF TypeInv
<1>2. QED
  BY <1>1, TypeInvInit, TypeInvNext, PTL DEF Spec

-----------------------------------------------------------------------------
(* The key and the reset.                                                  *)

\* Only a device without its key waits for one; a device that is to start anew has lost
\* its key, or is about to when it starts.
KeyInv ==
  /\ NoStrayReset
  /\ devState = "END_DEVICE_UNAUTH" => ~ nv.key
  /\ anew => ~ nv.key \/ (phase \in {"restore", "forget keys"} /\ nv.startNew)
  /\ ForgetsNetwork

LEMMA KeyInvInit == Init => KeyInv
BY DEF Init, KeyInv, NoStrayReset, ForgetsNetwork

\* Most actions do not touch what KeyInv is about.
LEMMA KeyInvKept ==
  ASSUME KeyInv, phase' = phase, nv' = nv, anew' = anew,
         "DEVICE_RESET" \in events' \union timers' =>
           "DEVICE_RESET" \in events \union timers,
         devState' \in {"END_DEVICE_UNAUTH", "END_DEVICE"} => devState' = devState
  PROVE  KeyInv'
<1>1. NoStrayReset'
  BY Zenon DEF KeyInv, NoStrayReset
<1>2. devState' = "END_DEVICE_UNAUTH" => ~ nv'.key
  BY Zenon DEF KeyInv
<1>3. anew' => ~ nv'.key \/ (phase' \in {"restore", "forget keys"} /\ nv'.startNew)
  BY Zenon DEF KeyInv
<1>4. ForgetsNetwork'
  BY Zenon DEF KeyInv, ForgetsNetwork
<1> QED
  BY <1>1, <1>2, <1>3, <1>4, Zenon DEF KeyInv

LEMMA KeyInvNext == TypeInv /\ KeyInv /\ [Next]_vars => KeyInv'
<1> SUFFICES ASSUME TypeInv, KeyInv, [Next]_vars PROVE KeyInv'
  OBVIOUS
<1>1. nv \in [startNew : BOOLEAN, net : BOOLEAN, key : BOOLEAN, leaveCtrl : BOOLEAN]
  BY DEF TypeInv, TypeOK
<1>2. ~ Running => events = {} /\ timers = {} /\ devState = "INIT"
  BY DEF TypeInv, Quiet
<1>3. CASE ForgetNetwork
  BY <1>1, <1>3 DEF ForgetNetwork, KeyInv, NoStrayReset, ForgetsNetwork, Running
<1>4. CASE ForgetKeys
  BY <1>1, <1>4 DEF ForgetKeys, KeyInv, NoStrayReset, ForgetsNetwork, Running
<1>5. CASE ZDOInitDevice
  <2>1. "DEVICE_RESET" \notin events' \union timers' /\ devState' = "INIT"
    <3>1. events = {} /\ timers = {} /\ devState = "INIT"
      BY <1>2, <1>5 DEF ZDOInitDevice, Running
    <3>2. /\ \/ events' = {"NETWORK_INIT"} /\ timers' = timers
             \/ timers' = {"NETWORK_INIT"} /\ events' = events
          /\ devState' = devState
      BY <1>5, Zenon DEF ZDOInitDevice
    <3> QED
      BY <3>1, <3>2
  <2>2. anew' = anew /\ phase' = "run" /\ nv' = [nv EXCEPT !.leaveCtrl = FALSE]
    BY <1>5 DEF ZDOInitDevice
  <2>3. nv'.key = nv.key /\ nv'.startNew = nv.startNew
    BY <1>1, <2>2
  <2>4. anew => ~ nv.key
    BY <1>1, <1>5 DEF ZDOInitDevice, KeyInv
  <2>5. NoStrayReset' /\ ForgetsNetwork'
    BY <2>1 DEF NoStrayReset, ForgetsNetwork
  <2>6. anew' => ~ nv'.key
    BY <2>2, <2>3, <2>4, Zenon
  <2> QED
    BY <2>1, <2>5, <2>6, Zenon DEF KeyInv
<1>6. CASE PowerLoss
  BY <1>1, <1>6 DEF PowerLoss, Restart, KeyInv, NoStrayReset, ForgetsNetwork
\* A device that is to start anew and runs has no key.
<1>17. CASE PowerLossInSave
  BY <1>1, <1>17 DEF PowerLossInSave, Serve, Running, Restart, KeyInv, NoStrayReset,
                     ForgetsNetwork
<1>7. CASE DeviceReset
  BY <1>1, <1>7 DEF DeviceReset, Restart, KeyInv, NoStrayReset, ForgetsNetwork
<1>8. CASE LeaveReset
  BY <1>1, <1>8 DEF LeaveReset, KeyInv, NoStrayReset, ForgetsNetwork, Running
<1>9. CASE JoinSucceeds
  BY <1>1, <1>9 DEF JoinSucceeds, Confirmed, Receive, KeyInv, NoStrayReset, ForgetsNetwork,
                    Running
<1>10. CASE DeviceAuth
  BY <1>1, <1>10 DEF DeviceAuth, Serve, KeyInv, NoStrayReset, ForgetsNetwork, Running
<1>11. CASE SaveNetworkState
  BY <1>1, <1>11 DEF SaveNetworkState, Serve, KeyInv, NoStrayReset, ForgetsNetwork, Running
<1>12. CASE Confirm \/ SyncIndication \/ AuthNwkKey \/ NwkStateUpdate
  BY <1>12, KeyInvKept DEF Confirm, DiscoveryConfirm, JoinConfirm, SyncIndication,
                           AuthNwkKey, NwkStateUpdate
<1>13. ASSUME NEW e \in {"NETWORK_INIT", "NWK_UPDATE_NV", "DEVICE_RESET"}, Expire(e)
       PROVE  KeyInv'
  BY <1>13, KeyInvKept DEF Expire
<1>14. CASE (\E found \in BOOLEAN : ScanAgain(found)) \/ JoinNetwork \/ Ignore
            \/ ConfirmElsewhere \/ JoinFails \/ Rejoin
  BY <1>14, KeyInvKept DEF ScanAgain, JoinNetwork, Request, Ignore, ConfirmElsewhere,
                           JoinFails, Rejoin
<1>15. CASE StartDevice \/ UpdateNwkStatus
  BY <1>15, KeyInvKept DEF StartDevice, Request, UpdateNwkStatus
<1>16. CASE StateChange \/ UNCHANGED vars
  BY <1>16, KeyInvKept DEF StateChange, vars
<1> QED
  BY <1>3, <1>4, <1>5, <1>6, <1>7, <1>8, <1>9, <1>10, <1>11, <1>12, <1>13, <1>14, <1>15,
     <1>16, <1>17 DEF Next, Starting, EventLoop, ProcessOSALMsg

\* Once its key is saved, a device is due for a reset only if it was told to leave: the
\* timer that waited for the key does not outlive ZDApp_DeviceAuthEvt.
THEOREM ResetsRight == Spec => []NoStrayReset
<1>1. TypeInv /\ KeyInv => NoStrayReset
  BY DEF KeyInv
<1>2. QED
  BY <1>1, TypeInvInit, TypeInvNext, KeyInvInit, KeyInvNext, PTL DEF Spec

\* A device that ZDO_DEVICE_RESET has start anew does not come back into its network with
\* the old key, at whatever step of forgetting it or of saving another the power fails.
THEOREM NetworkForgotten == Spec => []ForgetsNetwork
<1>1. TypeInv /\ KeyInv => ForgetsNetwork
  BY DEF KeyInv
<1>2. QED
  BY <1>1, TypeInvInit, TypeInvNext, KeyInvInit, KeyInvNext, PTL DEF Spec

LEMMA LeaveHonouredStep ==
  ASSUME TypeInv, KeyInv, [Next]_vars, nv.key, Running',
         "DEVICE_RESET" \in events \union timers
  PROVE  "DEVICE_RESET" \in events' \union timers'
<1>1. Running
  BY DEF TypeInv, Quiet
<1> USE <1>1 DEF Running
<1>2. CASE Starting
  BY <1>2 DEF Starting, ForgetNetwork, ForgetKeys, ZDOInitDevice
<1>3. CASE PowerLoss \/ PowerLossInSave \/ DeviceReset
  BY <1>3 DEF PowerLoss, PowerLossInSave, DeviceReset, Restart
<1>4. CASE Confirm \/ SyncIndication \/ AuthNwkKey \/ LeaveReset \/ NwkStateUpdate
  BY <1>4 DEF Confirm, DiscoveryConfirm, JoinConfirm, SyncIndication, AuthNwkKey,
              LeaveReset, NwkStateUpdate
<1>5. ASSUME NEW e \in {"NETWORK_INIT", "NWK_UPDATE_NV", "DEVICE_RESET"}, Expire(e)
      PROVE  "DEVICE_RESET" \in events' \union timers'
  BY <1>5 DEF Expire
<1>6. CASE ProcessOSALMsg
  BY <1>6 DEF ProcessOSALMsg, ScanAgain, JoinNetwork, Request, Ignore, ConfirmElsewhere,
              JoinSucceeds, JoinFails, Rejoin
<1>7. CASE StartDevice \/ UpdateNwkStatus \/ SaveNetworkState
  BY <1>7 DEF StartDevice, Request, UpdateNwkStatus, SaveNetworkState
\* The event finds the device in the network: it has its key.
<1>8. CASE DeviceAuth
  BY <1>8 DEF DeviceAuth, KeyInv
<1>9. CASE StateChange \/ UNCHANGED vars
  BY <1>9 DEF StateChange, vars
<1> QED
  BY <1>2, <1>3, <1>4, <1>5, <1>6, <1>7, <1>8, <1>9 DEF Next, EventLoop

\* A leave that a device with its key was told is not forgotten before the device is
\* reset, whatever the network does in the meantime.
THEOREM LeaveKept == Spec => LeaveHonoured
<1>1. TypeInv /\ KeyInv /\ [Next]_vars =>
        [nv.key /\ "DEVICE_RESET" \in events \union timers /\ Running' =>
           "DEVICE_RESET" \in events' \union timers']_vars
  BY LeaveHonouredStep
<1>2. QED
  BY <1>1, TypeInvInit, TypeInvNext, KeyInvInit, KeyInvNext, PTL DEF Spec, LeaveHonoured

-----------------------------------------------------------------------------
(* How the device starts.                                                  *)

LEMMA OnlyRejoinsStep ==
  ASSUME TypeInv, [Next]_vars, Running, Running', devStartMode # "JOIN"
  PROVE  devStartMode' # "JOIN"
<1> USE DEF Running
<1>1. CASE Starting
  BY <1>1 DEF Starting, ForgetNetwork, ForgetKeys, ZDOInitDevice
<1>2. CASE PowerLoss \/ PowerLossInSave \/ DeviceReset
  BY <1>2 DEF PowerLoss, PowerLossInSave, DeviceReset, Restart
<1>3. CASE JoinFails
  <2>1. CASE devStartMode # "RESUME"
    BY <1>3, <2>1 DEF JoinFails
  <2>2. CASE devStartMode = "RESUME"
    <3>1. retryCnt' <= MAX_RESUME_RETRY
      BY <1>3, <2>2, Counts, ZdAppAssumption DEF JoinFails
    <3> QED
      BY <1>3, <2>2, <3>1 DEF JoinFails
  <2> QED
    BY <2>1, <2>2
<1>4. CASE Rejoin
  BY <1>4 DEF Rejoin
<1>5. ASSUME UNCHANGED devStartMode PROVE devStartMode' # "JOIN"
  BY <1>5
<1>6. CASE Confirm \/ SyncIndication \/ AuthNwkKey \/ LeaveReset \/ NwkStateUpdate
           \/ \E e \in {"NETWORK_INIT", "NWK_UPDATE_NV", "DEVICE_RESET"} : Expire(e)
  BY <1>5, <1>6 DEF Confirm, DiscoveryConfirm, JoinConfirm, SyncIndication, AuthNwkKey,
                    LeaveReset, NwkStateUpdate, Expire
<1>7. CASE (\E found \in BOOLEAN : ScanAgain(found)) \/ JoinNetwork \/ Ignore
           \/ ConfirmElsewhere \/ JoinSucceeds
  BY <1>5, <1>7 DEF ScanAgain, JoinNetwork, Ignore, ConfirmElsewhere, JoinSucceeds
<1>8. CASE StartDevice \/ UpdateNwkStatus \/ SaveNetworkState \/ DeviceAuth
  BY <1>5, <1>8 DEF StartDevice, UpdateNwkStatus, SaveNetworkState, DeviceAuth
<1>9. CASE StateChange \/ UNCHANGED vars
  BY <1>5, <1>9 DEF StateChange, vars
<1> QED
  BY <1>1, <1>2, <1>3, <1>4, <1>6, <1>7, <1>8, <1>9 DEF Next, EventLoop, ProcessOSALMsg

\* However many rejoins fail, and in whichever order the indications of a lost parent
\* and the confirms come, the retries never end in a join of another network.
THEOREM RejoinsOnly == Spec => OnlyRejoins
<1>1. TypeInv /\ [Next]_vars =>
        [Running /\ Running' /\ devStartMode # "JOIN" => devStartMode' # "JOIN"]_vars
  BY OnlyRejoinsStep
<1>2. QED
  BY <1>1, TypeInvInit, TypeInvNext, PTL DEF Spec, OnlyRejoins

-----------------------------------------------------------------------------
(* What the application is told.                                           *)

Stale(s) == s # "none" /\ s # Connected(devState)

\* A notice that is queued may be stale as well as what the application holds.
NoticeInv ==
  /\ NoLostNotice
  /\ Stale(notice) => {"STATE_CHANGE", "NETWORK_INIT"} \intersect events # {}

\* No event is taken, and the state stays what it is for the application.
LEMMA NoticeKept ==
  ASSUME NoticeInv, events \subseteq events', Connected(devState') = Connected(devState),
         notice' = notice, connected' = connected
  PROVE  NoticeInv'
BY DEF NoticeInv, NoLostNotice, Stale

LEMMA NoticeDue ==
  ASSUME "STATE_CHANGE" \in events' PROVE NoticeInv'
BY DEF NoticeInv, NoLostNotice

LEMMA NoticeInvNext == TypeInv /\ NoticeInv /\ [Next]_vars => NoticeInv'
<1> SUFFICES ASSUME TypeInv, NoticeInv, [Next]_vars PROVE NoticeInv'
  OBVIOUS
<1>1. CASE Restart
  BY <1>1 DEF Restart, NoticeInv, NoLostNotice, Stale, Connected
<1>2. CASE ForgetNetwork \/ ForgetKeys
  BY <1>2, NoticeKept DEF ForgetNetwork, ForgetKeys
<1>3. CASE ZDOInitDevice
  <2>1. events = {}
    BY <1>3 DEF ZDOInitDevice, TypeInv, Quiet, Running
  <2>2. UNCHANGED <<devState, notice, connected>>
    BY <1>3 DEF ZDOInitDevice
  <2> QED
    BY <2>1, <2>2, NoticeKept
<1>4. CASE Confirm \/ SyncIndication \/ AuthNwkKey \/ LeaveReset \/ NwkStateUpdate
           \/ \E e \in {"NETWORK_INIT", "NWK_UPDATE_NV", "DEVICE_RESET"} : Expire(e)
  <2>1. events \subseteq events' /\ UNCHANGED <<devState, notice, connected>>
    BY <1>4 DEF Confirm, DiscoveryConfirm, JoinConfirm, SyncIndication, AuthNwkKey,
                LeaveReset, NwkStateUpdate, Expire
  <2> QED
    BY <2>1, NoticeKept
<1>5. CASE (\E found \in BOOLEAN : ScanAgain(found)) \/ Ignore \/ ConfirmElsewhere
            \/ JoinFails \/ Rejoin
  <2>1. events \subseteq events' /\ UNCHANGED <<devState, notice, connected>>
    BY <1>5 DEF ScanAgain, Ignore, ConfirmElsewhere, JoinFails, Rejoin
  <2> QED
    BY <2>1, NoticeKept
\* Looking for a network is the same to the application as joining it.
<1>6. CASE JoinNetwork
  <2>1. Connected(devState') = Connected(devState)
    BY <1>6 DEF JoinNetwork, Connected
  <2> QED
    BY <1>6, <2>1, NoticeKept DEF JoinNetwork
<1>7. CASE JoinSucceeds
  BY <1>7, NoticeDue DEF JoinSucceeds
<1>8. CASE StartDevice
  BY <1>8, NoticeDue DEF StartDevice
<1>9. CASE UpdateNwkStatus
  BY <1>9 DEF UpdateNwkStatus, NoticeInv, NoLostNotice, Stale
<1>10. CASE SaveNetworkState
  BY <1>10 DEF SaveNetworkState, NoticeInv, NoLostNotice, Stale
<1>11. CASE DeviceAuth
  <2>1. CASE devState = "END_DEVICE_UNAUTH"
    BY <1>11, <2>1, NoticeDue DEF DeviceAuth
  <2>2. CASE devState # "END_DEVICE_UNAUTH"
    BY <1>11, <2>2 DEF DeviceAuth, NoticeInv, NoLostNotice, Stale
  <2> QED
    BY <2>1, <2>2
<1>12. CASE StateChange
  BY <1>12 DEF StateChange, NoticeInv, NoLostNotice, Stale
<1>13. CASE UNCHANGED vars
  BY <1>13, NoticeKept DEF vars
<1> QED
  BY <1>1, <1>2, <1>3, <1>4, <1>5, <1>6, <1>7, <1>8, <1>9, <1>10, <1>11, <1>12, <1>13
     DEF Next, Starting, PowerLoss, PowerLossInSave, DeviceReset, EventLoop, ProcessOSALMsg

\* The application is told of every change between connected and not, however often
\* the heap has no room for the notice and in whichever order changes and notices
\* overtake each other.
THEOREM NoticesReach == Spec => []NoLostNotice
<1>1. Init => NoticeInv
  BY DEF Init, NoticeInv, NoLostNotice, Stale, Connected
<1>2. TypeInv /\ NoticeInv => NoLostNotice
  BY DEF NoticeInv
<1>3. QED
  BY <1>1, <1>2, TypeInvInit, TypeInvNext, NoticeInvNext, PTL DEF Spec

-----------------------------------------------------------------------------
(* The device always has something to wait for.                            *)

StartDue == "NETWORK_INIT" \in events \union timers

\* What takes the device on, for each of its states: the answer to the request that
\* the state stands for, the reset, or a new start.
Waiting ==
  \/ StartDue \/ Has(queue, "JOIN_REQ")
  \/ /\ devState = "NWK_DISC" /\ devStartMode # "RESUME"
     /\ request = "disc" \/ Has(queue, "DISC_CNF")
  \/ /\ devState \in {"NWK_JOINING", "NWK_ORPHAN", "NWK_REJOIN"}
     /\ request = "join" \/ Has(queue, "JOIN_IND")
  \/ devState = "END_DEVICE_UNAUTH" /\ "DEVICE_RESET" \in events \union timers

TryInv == Running /\ devState # "END_DEVICE" => Waiting

LEMMA TryDue == ASSUME StartDue' PROVE TryInv'
BY DEF TryInv, Waiting

LEMMA TryKept ==
  ASSUME TryInv, UNCHANGED <<phase, devState, devStartMode>>,
         StartDue => StartDue',
         "DEVICE_RESET" \in events \union timers => "DEVICE_RESET" \in events' \union timers',
         \A m : Has(queue, m) => Has(queue', m),
         request' = request \/ (request = "disc" /\ Has(queue', "DISC_CNF"))
                            \/ (request = "join" /\ Has(queue', "JOIN_IND"))
  PROVE  TryInv'
BY DEF TryInv, Waiting, Running

LEMMA TryInvNext ==
  ASSUME MessagesLost = FALSE PROVE TypeInv /\ TryInv /\ [Next]_vars => TryInv'
<1> SUFFICES ASSUME TypeInv, TryInv, [Next]_vars PROVE TryInv'
  OBVIOUS
<1>1. queue \in Seq(Messages)
  BY DEF TypeInv, TypeOK
<1>2. ASSUME NEW msg \in Messages, SendMsg(msg)
      PROVE  Has(queue', msg) /\ \A m : Has(queue, m) => Has(queue', m)
  <2>1. queue' = Append(queue, msg)
    BY <1>2, Zenon DEF SendMsg
  <2> QED
    BY <1>1, <2>1, QueueAppend
<1>3. ASSUME NEW msg, Receive(msg)
      PROVE  /\ msg \in Messages /\ Running
             /\ \A m : Has(queue, m) => m = msg \/ Has(queue', m)
  BY <1>1, <1>3, QueueTail DEF Receive
<1>4. CASE Restart \/ ForgetNetwork \/ ForgetKeys
  BY <1>4 DEF Restart, ForgetNetwork, ForgetKeys, TryInv, Running
<1>5. CASE ZDOInitDevice
  <2>1. StartDue'
    BY <1>5, Zenon DEF ZDOInitDevice, StartDue
  <2> QED
    BY <2>1, TryDue
<1>6. CASE DiscoveryConfirm
  BY <1>2, <1>6, TryKept DEF DiscoveryConfirm, StartDue, Messages
<1>7. ASSUME NEW status \in {"success", "failure"}, JoinConfirm(status) PROVE TryInv'
  BY <1>2, <1>7, TryKept DEF JoinConfirm, StartDue, Messages
<1>8. CASE SyncIndication
  BY <1>2, <1>8, TryKept DEF SyncIndication, StartDue, Messages
<1>9. CASE AuthNwkKey \/ LeaveReset \/ NwkStateUpdate
  BY <1>9, TryKept DEF AuthNwkKey, LeaveReset, NwkStateUpdate, StartDue
<1>10. ASSUME NEW e \in {"NETWORK_INIT", "NWK_UPDATE_NV", "DEVICE_RESET"}, Expire(e)
       PROVE  TryInv'
  BY <1>10, TryKept DEF Expire, StartDue
<1>11. CASE (\E found \in BOOLEAN : ScanAgain(found)) \/ JoinFails \/ Rejoin
  BY <1>11, TryDue DEF ScanAgain, JoinFails, Rejoin, StartDue
<1>12. CASE JoinNetwork
  <2>1. /\ Receive("DISC_CNF") /\ devState = "NWK_DISC"
        /\ UNCHANGED <<phase, devStartMode, events>>
    BY <1>12 DEF JoinNetwork
  <2>2. CASE devStartMode = "RESUME"
    \* A parent was lost since the scan began.
    <3>1. UNCHANGED <<devState, timers, request>>
      BY <1>12, <2>2 DEF JoinNetwork
    <3> QED
      BY <1>3, <2>1, <2>2, <3>1 DEF TryInv, Waiting, StartDue, Running
  <2>3. CASE devStartMode # "RESUME"
    <3>1. devState' \in {"NWK_JOINING", "NWK_REJOIN"} /\ (request' = "join" \/ StartDue')
      BY <1>12, <2>3 DEF JoinNetwork, Request, StartDue
    <3> QED
      BY <3>1 DEF TryInv, Waiting
  <2> QED
    BY <2>2, <2>3
\* What is ignored is not what the state waits for.
<1>13. CASE Ignore \/ ConfirmElsewhere
  <2>1. /\ UNCHANGED <<phase, devState, devStartMode, timers, request>>
        /\ events \subseteq events'
    BY <1>13 DEF Ignore, ConfirmElsewhere
  <2>2. CASE Receive("DISC_CNF") /\ devState # "NWK_DISC"
    BY <1>3, <2>1, <2>2 DEF TryInv, Waiting, StartDue, Running
  <2>3. CASE /\ Receive("JOIN_IND")
             /\ devState \notin {"NWK_JOINING", "NWK_ORPHAN", "NWK_REJOIN"}
    BY <1>3, <2>1, <2>3 DEF TryInv, Waiting, StartDue, Running
  <2> QED
    BY <1>13, <2>2, <2>3 DEF Ignore, ConfirmElsewhere
<1>14. CASE JoinSucceeds
  <2>1. \/ devState' = "END_DEVICE"
        \/ devState' = "END_DEVICE_UNAUTH" /\ "DEVICE_RESET" \in timers'
    BY <1>14, Zenon DEF JoinSucceeds
  <2> QED
    BY <2>1 DEF TryInv, Waiting
<1>15. CASE StartDevice
  <2>1. \/ devState' = "NWK_ORPHAN" /\ request' = "join"
        \/ devState' = "NWK_DISC" /\ request' = "disc" /\ devStartMode' # "RESUME"
        \/ StartDue'
    BY <1>15 DEF StartDevice, Request, StartDue
  <2> QED
    BY <2>1 DEF TryInv, Waiting
<1>16. CASE UpdateNwkStatus \/ SaveNetworkState
  BY <1>16, TryKept DEF UpdateNwkStatus, SaveNetworkState, StartDue
<1>17. CASE DeviceAuth
  <2>1. CASE devState = "END_DEVICE_UNAUTH"
    BY <1>17, <2>1 DEF DeviceAuth, TryInv
  <2>2. CASE devState # "END_DEVICE_UNAUTH"
    BY <1>17, <2>2, TryKept DEF DeviceAuth, StartDue
  <2> QED
    BY <2>1, <2>2
<1>18. CASE StateChange \/ UNCHANGED vars
  BY <1>18, TryKept DEF StateChange, vars, StartDue
<1> QED
  BY <1>4, <1>5, <1>6, <1>7, <1>8, <1>9, <1>10, <1>11, <1>12, <1>13, <1>14, <1>15, <1>16,
     <1>17, <1>18
     DEF Next, Starting, PowerLoss, PowerLossInSave, DeviceReset, Confirm, EventLoop,
         ProcessOSALMsg

\* If no message is lost to a full heap, a device that is not in the network is never
\* left waiting for nothing, whatever confirms, lost parents and new starts overtake
\* one another.
THEOREM NeverStuck == ASSUME MessagesLost = FALSE PROVE Spec => []AlwaysTrying
<1>1. Init => TryInv
  BY DEF Init, TryInv, Running
<1>2. TypeInv /\ TryInv => AlwaysTrying
  <2>1. \A m : Has(queue, m) => queue # <<>>
    BY DEF Has
  <2> QED
    BY <2>1 DEF TryInv, Waiting, StartDue, AlwaysTrying
<1>3. TypeInv /\ TryInv /\ [Next]_vars => TryInv'
  BY TryInvNext
<1>4. QED
  BY <1>1, <1>2, <1>3, TypeInvInit, TypeInvNext, PTL DEF Spec
=============================================================================
