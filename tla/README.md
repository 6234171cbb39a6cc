# A verification project for zbach

zbach is a family of Zigbee home-automation devices for the TI CC2530: a smart
socket with a power meter, temperature, proximity, light and distance sensors,
switches. The devices (`projets/`) share a set of Zigbee clusters written for
them (`clusters/`), drivers for the external chips (`Components/external/`) and
TI's Z-Stack, in which the author has replaced or rewritten several parts, the
timers and the sleep code among them.

This directory holds TLA+ models of the parts that decide whether such a device
keeps working, the TLC configurations that check them and TLAPS proofs about
them. Paths below are relative to `src/`.

## 1. Inventory

Everything runs on one stack. `osal_start_system` (OSAL.c) loops for ever: it
charges the software timers and runs their callbacks, polls the hardware
abstraction layer and the application (`User_Process_Pool`), runs the handler
of the most urgent task that has an event and, when no task has one, lets the
power manager stop the processor. Concurrency comes from interrupt handlers
(MAC radio and timer, DMA, I/O ports, sleep timer) and from callbacks that call
back into the module that runs them. Components interact by setting events, by
message buffers on one shared list, by timers and by direct calls.

| Component | State | Operations | What makes it correct |
|---|---|---|---|
| **OSAL timers** `osal/common/OSAL_Timers2.c` | table of `MAXELEMENTS` slots, each an event timer or a callback timer; system clock | start, start with reload, stop, the update that charges every slot and runs callbacks, next timeout | a timer holds one slot; it expires once per period, in the first update that exhausts it, whatever callbacks and interrupts do to the table meanwhile; an update ends |
| **OSAL tasks, events, messages** `osal/common/OSAL.c` | event word of each task, the message list, headers of buffers, the running task | the loop, set / clear event, allocate, send, push to the front, receive, deallocate | no event lost or invented; no message lost, duplicated, misdelivered or freed while queued; no task with a message left untold |
| **OSAL clock** `osal/common/OSAL_Clock.c` | previous tick count, remainder, seconds | `osalTimeUpdate`, calendar | milliseconds neither lost nor gained by rounding |
| **Power manager and sleep** `osal/common/OSAL_PwrMgr.c`, `hal/target/*/hal_sleep.c`, `hal/common/hal_drivers.c` | which tasks hold the power, `halSleepPconValue`, the sleep timer, the radio's power | `osal_pwrmgr_powerconserve`, `halSleep`, `halSetSleepMode`, the interrupt handlers that cancel a sleep | no sleep while there is work, none longer than the next timer, radio on when the loop runs, every sleep ends while a timer runs |
| **OSAL heap** `osal/common/OSAL_Memory.c` | block headers, the start `ff1` of the search in the bucket of small blocks, `osalMemStat` | `osal_mem_init`, `_kick`, `_alloc`, `_free` | blocks tile the heap; no two callers share a byte; free space is found; a refusal is true |
| **Non-volatile memory** `osal/mcu/cc2530/OSAL_Nv.c` | flash pages, their headers and items | init, write, read, delete, page compaction | an item reads back the last value written, or after a reset in mid-write the old or the new one |
| **ZDO device object** `stack/zdo/ZDApp.c`, `ZDObject.c`, `ZDSecMgr.c` | `devState`, the start mode, two retry counters, the events and timers of its task, its messages, and in non-volatile memory the network, the key and two startup options | start, discovery, join, orphan scan, rejoin, authentication, leave, reset, saving, notice of each state to the application | a device out of the network always has a next attempt; one that was reset to leave does not come back with the old key; the application ends up with the right state |
| **Temperature sensor application** `projets/ztemp/Source/*.c` | events of one task, network state | task handler, state changes | consistent with the network's state |
| **DS18B20 driver** `external/DS18B20.c` | the power pin, the step of a measurement (as the timer that runs), the value | a chain of three callbacks | the chain never breaks and never doubles |
| **Temperature cluster** `clusters/ClusterTemperatureMeasurement.c` | the last value, a counter | `sendReport` | what the coordinator knows lags behind what was measured only after a lost report, and not for long |
| **Identify cluster** `clusters/ClusterIdentify.c` | identify time, LED, power vote | command, write, two callbacks | the LED goes dark, and the device may sleep again |
| **Event manager, user interface** `external/EventManager.c`, `projets/zSmartSocket/Source/ui.c` | one callback per event; menu and calibration | add callback, dispatch; buttons, calibration | the callback fits what is shown; a calibration uses its own samples and ends |
| **Power meter driver** `external/bl0937.c` | pulse counters of two interrupt handlers, means, coefficients | interrupt handlers, the one-second callback, readings, calibration | no reading mixes two measurements; only a complete calibration replaces the coefficients |
| **On/off cluster** `clusters/ClusterOnOff.c` | value, relay, last report | command, write, reports | the coordinator learns what the relay was set to |
| **Other clusters and applications** `clusters/*.c`, `projets/*` | attribute tables, periodic reports | ZCL commands, reads and writes | as above |
| **LED blinking** `projets/*/Source/ledBlink.c` | a counter and a self re-arming timer | blink, end | the LED is off at the end |
| **ZCL, AF, the rest of ZDO, MAC, HAL** | vendor code resting on libraries of which only headers are in the repository | | |

How they meet. The clusters and drivers run as callbacks of the timers and as
handlers of the application's task; every message they send to another task is
a block of the heap; ZDApp and the power meter keep their state in
non-volatile memory; ZDApp tells the application each network state by a
message, and the application starts or stops its reports by it; identify and
the temperature driver vote on the sleep of the device with one task id, and
the vote is what `OsalPower` calls `holds`.

The behaviours that are hard: callbacks that start and stop timers while the
table is being walked; interrupt handlers between any two unprotected steps; a
sleep decided from data that is a few ticks old; the two `hal_sleep.c` that the
projects link, one of which runs a task inside the sleep; a full timer table,
which no caller looks at; a reset in the middle of a flash update;
a confirm of the network that arrives when the attempt it answers is over; a
power failure between two writes of what a restart depends on; two users of one
vote, one timer table or one callback entry. `PROJECT.json` lists them one by
one, each at its line, with the properties about it.

## 2. Plan

Order: what every device depends on first, then what keeps state across a
reset, then the network, then the devices themselves.

| # | Modules | Abstract specification | State |
|---|---|---|---|
| 1 | `OsalTimers` | `TimerService`: armed timers without slots or order | done; refinement checked and proved |
| 2 | `OsalTasks` | `Mailboxes`: one mailbox per task | done; refinement checked and proved |
| 3 | `OsalPower`: timers, scheduler, clock, power manager, sleep composed at the level of one turn of the loop | | done |
| 4 | `OsalNv`: pages, items, compaction, reset at every step | `NvStore`: one value per item, that survives resets | done; refinement checked and proved |
| 5 | `OsalHeap` | `HeapService`: pieces of memory that never overlap | done; refinement checked and proved |
| 6 | `ZdApp`: the device object of an end device, with power failures | | done |
| 7 | `SensorNode`: ztemp; identify, DS18B20 and report composed over the timers that `TimerService` promises and the one power vote | | done |
| 8 | `SmartSocket`: zSmartSocket; meter, menu, calibration and on/off cluster composed over the event manager | | done |

Scenes, groups and level, planned at first, were dropped: no project of the
repository compiles them. What could still be added without sources that are
missing: the routing devices' part of ZDApp, and the request and response
tables of `ZDNwkMgr.c`.

## 3. The modules

### OsalTimers and TimerService

`OsalTimers` is the slot table of OSAL_Timers2.c. A record `timerRec[i]` has the
fields of the code's struct, with the task, event and callback that identify a
timer joined into `id`; `id = NoTimer` is `eventFlag = 0 && callback = NULL`.
The start and stop functions are one critical section each and one action each.
`osalTimerUpdate` tests a slot with interrupts enabled, charges it in a critical
section and calls a callback outside it, so the walk is a program counter with
actions `BeginUpdate`, `SkipFree`/`SeeActive`, `ChargeSlot`/`ExpireEvent`/
`ExpireCallback`, `CallbackReturns`, `EndUpdate`; while `pc = "callback"` the
interface actions are the callback's own calls, and the timers of `IsrTimers`
may be started at any step.

`TimerService` is the promise: a set of armed timers, an update that takes its
time from all of them at once and must serve each timer this made due before it
ends. The refinement mapping subtracts the running update's time from the slots
it has not reached. The specification leaves open from when a timer that is
started during an update counts, because the code does: see the remarks.

### OsalTasks and Mailboxes

`OsalTasks` is the loop of `osal_run_system` (`PollDone`, `ScanNext`,
`ScanFound`, `TakeEvents`, `HandlerReturns`, `GiveBack`, `PowerConserve`) with
the calls a handler or the background code can make. `osal_msg_send` marks,
links and signals with interrupts enabled in between: `MarkMsg`, `LinkMsg`,
`SignalMsg`. `osal_msg_receive` is one critical section. A handler is any code
that processes at least one of its events and, when it takes `SYS_EVENT_MSG`,
receives at least one message, which every handler here does.

`Mailboxes` has one queue per task and the buffers in the hands of code; the
mapping cuts the shared list by the header of each buffer.

### OsalPower

One turn of the loop seen by the clock. `timeout` is what is left of each timer
as of the last `osalTimeUpdate`; `ticks` counts the 320 us ticks since then, and
the conversion to milliseconds keeps its remainder (`remUsTicks`), as in
OSAL_Clock.c. `ready` is the set of tasks with an event. `halSleep` is
`EnterSleep`, `RunMacTask`/`SkipMacTask`, `PowerOff`/`StayAwake`,
`halSetSleepMode`, `PowerOn`, with the interrupts of each stretch: MAC
interrupts while the radio is on, port and sleep timer interrupts from the
window before `PCON` is written. The variable `board`, chosen once from
`Boards`, selects the `hal_sleep.c`: `CC2530EB` is the one the author changed
to run task 0 inside `halSleep`, `CC2530PMP4712` does not.

### OsalNv and NvStore

`OsalNv` is the flash memory of OSAL_Nv.c and the code that keeps items there.
A page has its two header words (`inUse` for the word of `active` and `inUse`,
`xfer`) and a sequence of items; an offset is a position in that sequence and,
in `pgOff` and `pgLost`, a sum of lengths. The four header fields of an item
are its id (`Nothing` once zeroed), its length, `stat`, and the checksum, which
is part of `val`: `Blank` is data whose checksum does not match.

A call decides what to do from what it finds, with no reset in between that
would matter, and then does a fixed list of flash operations. So the action of
a call (`osal_nv_write`, `osal_nv_item_init`, `osal_nv_delete`) sets `todo`,
the plan, and one action for each kind of flash operation carries out its head:
`CopyItem`, `MarkPage`, `MarkItem`, `ZeroItem`, `WriteHeader`, `SealItem`,
`UsePage`, `ErasePage`, with `HeaderFails` and `SealFails` for a write that reads back
wrong, which replace the rest of the plan (`Aborted`). `CopyItem` is one round
of the loop of `compactPage`: it touches no flash and puts what the item needs,
if it goes along, before the rest of the plan. `initNV` is `ReadHeader`
for each page, `Recover`, and the walks of `initPage`, which stop at each item
they change. `findItem` recounts the pages it walks to the end, and only
those: `RecountedOff`, `RecountedLost`. A `Reset` is possible at every step, of
`initNV` too; `ResetInErase` leaves the page with any of `TornErases` erased.

`NvStore` is one value per item, changed at one moment of a call and by nothing
else; a call returns only when its item holds what it was to hold. `up` is false
from a reset until `initNV` has ended, for a call that a reset cuts off does not
return. The refinement mapping, `Recoverable`, reads the flash alone: sealed
items on pages in use, a live one before a marked one.

### OsalHeap and HeapService

The heap by its headers: `len[h]` for each address `h` that has one, `inUse`,
and `ff1`. Each function is one critical section, so one action. The loop of
`osal_mem_alloc` merges free neighbours as it walks; the model gives what it
leaves: every free run it walked over is one block, up to the first that is long
enough, which is split when the remainder is at least `OSALMEM_MIN_BLKSZ`. Each
of the ways it can go (`osalMemStat`, small or large request, found or refused)
is a guard of its own. `osal_mem_kick` may run at any time but once.

`HeapService` has no headers, only the pieces in callers' hands; a piece is any
that is long enough and free. The mapping takes each block in use without its
header.

### ZdApp

One action is one message or event that `ZDApp_event_loop` serves, in the order
in which it tests them, or a callback of the network layer, which is a library
without source: `request` is what it was asked and will answer. `phase` walks
through `ZDOInitDevice`, where the network and the keys are forgotten in two
steps that each write non-volatile memory. `PowerLoss` and a reset keep `nv`
alone; `PowerLossInSave` is a power failure between the two writes of
`SaveNetworkState`. A confirm of a join that the device no longer waits for is
`ConfirmElsewhere`: ztemp is built as ZigBee PRO, with stochastic addresses, and
takes it for a change of address. `notice` is the state change message to the application, which
`UpdateNwkStatus` changes in place while it waits; `connected` is what the
application believes. The build is that of `ztemp`: a secured end device that
restores its network.

### SensorNode

Time is the variable `charged` of an update and `left[c]` of each callback
timer, with the freedom `TimerService` leaves: due timers are served in any
order, and a timer started by a callback counts from the start or from the end
of what is being charged. Each callback of the driver and of the identify
cluster is an action with every timer it starts and the vote it casts;
`NoPresence` is the driver when no sensor answers; `sendReport` is the task's
`NEW_TEMP` event, and `Attempt` the report it sends, which may be lost without
the code knowing. `reported`, `attempt` and `quiet` are history variables: the
value of the last report that left, what became of the last one tried, and the
measurements since. `identifyClusterWriteAttribute` stores what the code stores:
the attribute id, not the data.

### SmartSocket

The callbacks of the one-second timer (`readCFs`), of the calibration
(`calibrating`: `Sample`, `Finish` and `Save`), of the two button events and of
the relay's report meet in `callbacks`, the table of the event manager. Each is
served by the loop in one piece, so each is one action, in any order, which is
more than the timers allow, but for the end of a calibration: `Finish` changes
the coefficients in RAM and `Save` is the write to non-volatile memory, which may
fail; while `saving` the loop does nothing else, but the supply may fail. `Pulse`
is the interrupt handler of either input and comes between any two steps. `elapsed`
and `samples` are history variables: what passed, and what a calibration has
read. `Reset` keeps what `nv` keeps.

## 4. The runs

| Run | Shows | Instance |
|---|---|---|
| `timers` | no timer holds two slots, the table implements `TimerService`, every update ends | 2 slots for 3 timers (1 event, 2 callbacks), so that the table can be full; timeouts 0, 1, 3 against updates of 1 and 2, so that a timer can be charged without expiring, expire exactly and expire late |
| `tasks` | headers tell what is queued, no lost wakeup, no event erased, one mailbox per task, and a queued message is received unless more urgent tasks or messages pushed to the front keep coming | 2 tasks, 3 buffers (two messages of a task with one of the other between), an interrupt that keeps the more urgent task busy |
| `heap` | blocks tile the heap, callers never share a byte, nothing free is below `ff1`, a refusal is true | 24 bytes, headers of 2, requests of 1, 2 and 4: a bucket of three small blocks, a wilderness nearly as long, remainders too short to split; 11277 states |
| `power` | both boards: stops only when idle, never sleeps past a timer, timers expire; CC2530PMP4712: radio on in the loop | 2 timers of 3 ms, the least worth a sleep: either can be the next |
| `power_radio` | finding 1 | CC2530EB, 1 timer |
| `nv` | the flash implements `NvStore` under resets and torn erases; reads, of a hot item too, return the stored value; no page is overrun | 3 pages of 3 units, items of 1 (hot) and 2: a compaction, with an item to carry along, after a few writes, and pages left with room an item cannot use; torn erases do not take `xfer` alone, see finding 3 |
| `nv_failing` | writes that read back wrong never put an item on another and leave an erased reserve page | 2 pages of 3 units, items of 1; every torn erase |
| `nv_failure` | finding 2 | 3 pages of 2, writes may fail |
| `nv_torn_loss` | finding 3 | that of `nv`, with `xfer` alone torn |
| `sensor` | one measurement at a time, a lit LED has its timer, the coordinator is behind only after a lost report and for few measurements; the LED goes dark, the vote is given back, attempts to report go on | the periods of the code in units of 200 ms, the minute cut to 1.2 s; temperature 0 (the value at reset) and another; 3 requests: one that starts, one in the middle of its flash, one after; every report may be lost |
| `socket` | sums of periods are true through every wrap, a calibration uses its own samples, the buttons fit the screen, only a complete calibration replaces the coefficients; a calibration ends, the coordinator follows the relay | one of the two equal inputs; a timer of 4 that wraps at nearly every pulse of 3; means of 2 pulses, calibrations of 2 samples |
| `zdapp` | a next attempt is always pending, no reset is due to a device whose key is saved unless it was told to leave, the application learns the last state, after a reset to leave only a new key leads back; attempts go on, a leave is carried out | the first scan may choose a network (3 in the code), 1 failed resume (3 in the code), counters modulo 2, no message lost; 289373 states |

Types. `TypeOK` of the timers and the heap, where it says more than types (no
timeout below zero, blocks that tile the heap), and of the non-volatile memory
is checked by TLC; that of the other five modules is proved for every instance,
which leaves a run nothing to add. The same holds of `OnlyRejoins` of `ZdApp`.

Bounds. `ClockSize` stands for 2^32: only wrap-around matters. `MaxBusy`, the
ticks that may pass between two updates while the loop runs, is 4, the least
for which an update charges anything; `NeverOversleeps` is stated in terms of
it. `OSAL_TIMERS_MAX_TIMEOUT` (7 ms), `maxSleepLoopTime` (12 or 15 ticks),
`MacTaskTimeout` (9 ticks; 1000 in the code) and `MacTaskTries` (1 or 2; 20 in
the code) are scaled down together, so that each limit lies between two timeouts
that occur. The constants of the conversions are those of the code.

Non-volatile memory: two values are enough to tell old from new, and they are
interchangeable (`Symmetry`). A torn erase leaves the items of a page as long as
its header is there; that is assumed, as the code assumes it, of the flash.

Heap: every combination of free and used blocks with the three sizes fits.
Sensor: `MaxRequests` bounds the identify requests, after which the LED must
stay dark; `ReportEvery` is 1 (10 in the code). Socket: more pulses to a mean
and more samples only repeat steps. ZdApp: the queue of its messages never
holds more than two, which the prover shows.

Assumptions on constants, each named in its module. `TimeAssumption`: timers of
1 ms and more, for a timer of 0 ms is "no timer" to `halSleep`, and the sleep
loop is good for 3 ticks or more. `SocketAssumption`: periods shorter than the
timer's; a slower pulse is counted modulo 2^16 by the code. `SensorAssumption`
and `HeapAssumption`: lengths are positive and ordered as in the headers.
`ZdAppAssumption`: the counter can hold the number of scans.

Fairness. Timers: the update is straight-line code, so `WF(Pass)`; a callback
returns. Tasks: the loop and a send are straight-line code (`WF`); a handler
that was told of a message does receive one, and handlers and background code
return however often an interrupt gets in first (`SF`). Power: the loop runs,
time passes, a sleep timer that is due interrupts (`WF` each). Sensor: time
passes and due timers are served (`WF`), and the task's event is served however
often timers get in first (`SF`). Socket: `calibrating` is started and returns
(`WF`), the one-second timer is served although a calibration may be ending when
it runs out (`SF`), and the relay event's report finds a buffer sooner or later (`SF`): the code does not look at
the answer of `zcl_SendReportCmd`. ZdApp: the loop runs, an accepted request is
answered, timers expire (`WF`); the heap is not full every time a notice is
sent, and starts, saves and resets that are due are served although messages go
first (`SF`). No fairness is assumed of interrupts, commands, the network or a
power failure.

Findings, where the code does other than its comments say.

1. `CC2530EB/hal_sleep.c` may have task 0 turn the radio off and then find that
   an interrupt cancelled the sleep; it returns without `MAC_PwrOnReq`, where
   its comment has the loop go on normally.
2. After a write of an item that failed, `findItem` finds the new item, whose
   checksum is bad, and not the old one, until the next reset. If a second
   write of that item fails too and had to compact the page of the old item,
   the old item is skipped as the one being written and erased with its page:
   the value is lost. The comment on `compactPage` promises that the last value
   written successfully can be read.
3. A page that was compacted and whose erase was torn is looked for by a lost
   count of the whole page, a test that "should always succeed". The count
   leaves out the unwritten end of the page; `initNV` then erases the page with
   the highest count, which may be one whose other items have no copy. For
   this the erase must have taken the `xfer` word and not the `inUse` word.

Remarks: what the models do as the code does it, and a maintainer may not
expect.

- A timer that a callback starts in a slot that the running update has still to
  reach is charged time that passed before it was started (OSAL_Timers2.c,
  line 447). `TimerService` leaves that open.
- `osal_next_timeout` of an empty table is `OSAL_TIMERS_MAX_TIMEOUT`, not the
  zero its comment announces, so a device without timers wakes up anyway.
- Rejoining is retried for ever and never becomes the normal join of which the
  comment at ZDApp.c, line 1515, speaks (`OnlyRejoins`).
- A ZDApp message that finds the heap full is dropped without a word: with
  `MessagesLost = TRUE` TLC finds `AlwaysTrying` violated, the device stuck.
- `compactPage` notes the copy of a hot item as its place at once (OSAL_Nv.c,
  line 603). When the compaction is then given up, because a later write of the
  same call reads back wrong, the reserve page is erased and `hotPg` and
  `hotOff` stay there: until the place is noted again, `osal_nv_read` of that
  item, which was not the one written, returns erased flash and `SUCCESS`,
  against the comment of finding 2. With `FlashFails = TRUE`, `HotIds = {x}`, 2
  pages of 3 and items of 1 TLC finds `HotReadsSurvive` violated in 30 states.
- A leave that finds the reset timer of the authentication running starts none
  of its own; if the key then comes, the leave is forgotten. `LeaveHonoured`
  is therefore about devices that have their key.
- In the delay between `ZDApp_LeaveReset` and the reset it starts, a power failure
  brings the device back into the network with its old key: only the leave
  control remembers the leave. `ForgetsNetwork` begins with the reset.
- When the key comes while the event of the authentication's reset is pending,
  the reset is served first (ZDApp.c, line 475 before 566) and the device starts
  anew. `NoStrayReset` is about devices whose key is saved.
- `prevTemp` is what was measured before, whether or not a report of it left
  (ClusterTemperatureMeasurement.c, line 91), so a lost report is not tried again
  before the temperature changes or ten measurements have passed; and a first
  measurement of 0, the value `prevTemp` starts with, is not reported sooner.
- The result of the write of the coefficients is ignored (bl0937.c, line 201): if
  it fails the meter works with the new ones until the next start. A sample may be
  0, when `readCFs` has just taken the mean, and is divided by all the same.
- `devState` becomes joining or rejoining without a notice to the application.
- `ZDO_INITDEV_LEAVE_NOT_STARTED` is documented and never returned: the leave
  control is read and has no effect on the start.
- The identify write takes the request record for its data: the time becomes
  the attribute id, 0, and ends the identification.
- `newPowerValue` never runs: the on/off cluster registers another callback for
  the same event after it, and the table has one per event.
- A write of the on/off attribute is answered `INVALID_DATA_TYPE` after it was
  done (ClusterOnOff.c, line 82, a `break` is missing).
- Once the network was joined the LED of `ledBlink.c` stays dark when it is lost
  again, and `blinkLedEnd` starts a timer whose callback returns at once.

## 5. The proofs

For every value of the constants that satisfies the named assumptions:

| Module | Theorem | Invariant it rests on |
|---|---|---|
| `OsalTimers_proofs` | `TypeCorrect`, `TimersUnique` | `TypeOK /\ PassOK`: where the walk is determines what it holds. Uniqueness needs it because a callback's slot must be one of the table while other slots change |
| | `Implements` | `ImplementsService`: each step of the walk is one of the service or a stutter; uniqueness makes the mapping of a slot to its timer a function, and `PassOK` says which slots have still to be charged |
| `OsalTasks_proofs` | `TypeCorrect` | `TypeOK`, with the index that is a task wherever it is used as one |
| | `QueueSound` | `HeadersTellQueued` is not inductive alone: `SendOK` says what the three steps of a send have done so far |
| | `WakeupsKept` | `NoLostWakeup` with the two above: extracting one message leaves the task told exactly if a second one is there |
| | `EventsKept` | the action property `EventsNotErased`, from the same invariant, one case per action that writes event words |
| | `Implements` | `ImplementsMailboxes`: what `Those` selects from a list is the selection of its parts, one behind the other, so linking adds to one mailbox at one end and extracting takes the head of one; that a message out of the list is in no mailbox is `QueueSound` |
| `OsalPower_proofs` | `TypeCorrect`, `StopsOnlyIdle` | `Cancelled`: from the scan on, a task with an event means that `halSleepPconValue` is off or the code has still to look at it |
| | `RadioOn` | radio and place in the loop, for the board that does not run the MAC task in `halSleep` |
| | `TimersInTime` | the sleep timer is set for no longer than the least timeout, in ticks and remainders |
| `OsalHeap_proofs` | `TypeCorrect`, `NothingFreeBelow`, `RefusalsTrue`, `Implements` | `HeapInv`: the blocks tile the heap, `ff1` is a header or the end, nothing below it is free. Tiling is what makes a split, a merge and a free keep pieces apart |
| `ZdApp_proofs` | `TypeCorrect`, `NeverStuck`, `ResetsRight`, `NoticesReach`, `NetworkForgotten`, `RejoinsOnly`, `LeaveKept` | per state, which events, timers, messages and requests may be there, and which part of the old network is still in non-volatile memory. `NeverStuck` assumes `MessagesLost = FALSE` |
| `SensorNode_proofs` | `TypeCorrect`, `MeasuresOnce`, `LedTimed`, `LossesMadeUp` | `NodeInv`: the timer that runs tells whether the sensor is powered; `prevTemp` is what was reported if the last attempt succeeded, and 0 before any, and the report counter counts the measurements since |
| `SmartSocket_proofs` | `TypeCorrect`, `TicksTrue`, `MenuMatches` | `MeterInv`: the captured value is the time modulo the timer's size; `MenuInv`, `CoefInv` |
| | `SamplesOwn` | `CalInv`: a sum over a list and one more sample is that sum and the sample |
| | `CoefficientsMeasured` | the action property `StoredIsMeasured`, from `CalInv` and `SaveInv`: until it is saved, what is in RAM is the result of samples that are still there, because the loop does nothing else |
| `OsalNv_proofs` | `NvInvariant`, `NvTyped`, `NeverOverflows`, `NeverOverlays`, `ReserveIsErased` | `NvInv`, below |
| | `Implements`, `BootLosesNothing` | `ImplementsStore` and `BootKeepsValues`, from `NvInv` and `StoreOK`, below |
| | `ReadsTrue` | `ReadsKept`, from `NvInv`, `StoreOK` and `HotOK`, below |

The non-volatile memory. Its invariants are long enough for a module of their
own, `OsalNvInv`, which has no theorems. `NeverOverflows` is about what is on the pages, but
`initItem` decides on `pgOff` and `pgLost`, which are recounted for some pages
and left alone for others, which failed writes change, and which are zero while
`initNV` has not come that far. And the decision is made once, when the call
starts, for everything its plan will write. `NvInv` therefore says, next to the
types:

- what the counts are worth (`CountsOK`): while calls are served, or the last
  step of `initNV` runs, no page holds more than `pgOff` says and none has lost
  less than `pgLost` says; during the walks this holds of the pages behind the
  walk, and `WalkOK` says what `boot.lost` has counted of the page it is on;
- that the plan fits (`RoomOK`): on each page, `pgOff` and all that the
  operations of `todo` still have to put there stay within the page. Of a
  compaction that has come to item k this is the sum over the items from the
  k-th on that go along (`CopyRoom`), and the plan of `MakeRoom` fits because
  what does not go along is at least what was counted as lost, and the old copy
  of the item itself;
- where the plan writes (`TargetsOK`, `SourcesOK`, `ZeroesOK`): on pages whose
  counts can be trusted or that it erases first, from a page other than the
  one it writes to, and on items that are there;
- what becomes of the reserve page (`ReserveOK`): it is erased and untouched by
  the plan, or the plan ends with the erase of a page and what it does after
  that does not touch it. This covers the plans of `Aborted` too, and of the
  recovery after a reset in the middle of another recovery;
- which operations a stage can have in its plan (`PhaseOK`), and how far
  `ReadHeader` has come (`HeadersOK`).

Nothing is assumed of the flash here: these five theorems hold with `FlashFails`
and for every set of torn erases, the one behind finding 3 included.

That the flash implements `NvStore` cannot hold so generally: findings 2 and 3
are counterexamples. `Implements` and `BootLosesNothing` therefore assume that no
write reads back wrong (`FlashFails = FALSE`) and that a torn erase that has
taken anything has taken the `inUse` word of the page header (`InUseGoesFirst`);
the run `nv` has such an instance, and a reset may come everywhere else, in the
recovery from another one too. `NvInv` says nothing of what the items are, so
`StoreOK` says for each stage what the flash holds:

- between calls (`Settled`) every page but the reserve page is in use, none is
  marked, and each item has at most one copy, with its data;
- in a call (`Calling`) how far the plan has come: before the new item is sealed
  the old copy is where the call found it; while a page is being compacted
  (`Looping`) the items up to the loop's place have their copies on the reserve
  page, in their order (`Carried`), and when they all have, and the new item too
  (`Filled`), the `use` of that page is the one moment at which the value
  changes; without a compaction that moment is the seal, and of a delete the
  zeroing. After it what is left of the old item is marked, or on the page that
  is to be erased (`OldOnPage`, `OldLeft`);
- in the recovery (`Recovering`) how much of the compaction it repeats is done;
- while the headers are read (`ReadUpTo`) one of the three things a reset can
  leave behind (`FlashOK`): no page marked, a page marked that still has all its
  items, or all pages in use and one of them superseded (`Superseded`);
- during the walks (`Sweeping`, `Swept`) what each pass leaves behind it: no
  items without data, then no old copy of an item that has a newer one.

`SameKeeps` and `DropKeeps` then say what may be done to copies without changing
a value, and each flash operation is one of these, or the moment of the change
(`SealCounts`, `UseCounts`, `DeletedGoes`). It follows that `initNV` never comes
to the erase of last resort that the comment of lines 331-332 of OSAL_Nv.c calls
unexpected: `pc # "last"` is a part of `StoreOK`.

Sums, counts and selections are recursive functions. The facts about them
(`SumStep`, `SumRest`, `SetOfConcat` and others) are proved by the
least length for which one of them would fail.

A read of a hot item trusts the place kept in `hot`, so `ReadsTrue` has to
follow that place through every flash operation. `HotOK` says that each place
kept is `Newest`: an item on the page, with its data, that is the live copy of
the item or, while it is being replaced or carried to another page, the only
finished one. That is what a finished copy is to `Recoverable`, so between
calls, where `StoreOK` has one copy of each item on the pages in use, the read
gives the value of the store. It is inductive because

- a seal makes a new copy the newest and `SealItem` moves the place there; if
  the id is another one, nothing is done to the old place;
- a mark is put only on the one finished copy of an item (`Harmless`): the new
  item has a header by then, but no data;
- an item that is zeroed, or on a page that is erased in a call or in the walks,
  is not the newest: its new copy, with its data, is elsewhere by then. The
  stages of `StoreOK` entail which kind of operation is next (`LoopLeads`,
  `CallLeads`, `ResumedLeads`);
- the page not in use that the recovery begins by erasing goes while no place is
  kept (`AllCold`), and only items that are not hot are deleted. No code deletes
  the three network keys that are hot but the command of the monitor and test
  interface that deletes any item, which is not modelled.

It has the hypotheses of `StoreOK`. With failing writes the third point is
what breaks: the erase of a reserve page that was given up takes the newest copy
of a hot item along, as the remark about `HotReadsSurvive` has it.

Only model-checked: what is stated under fairness (`UpdateEnds`,
`DeliveredUnlessStarved`, `TimersExpire`, `SleepsAgain`, `HeartBeat`,
`CalibrationEnds`, `CoordinatorFollows`, `KeepsTrying`), because liveness and
ENABLED are outside the prover's reach. Every other property of a passing run
is stated by a theorem, three of them (`AlwaysTrying`, `ImplementsStore`,
`ReadsKept`) under the hypotheses on constants named above. The three findings
are counterexamples and stay with TLC.

## 6. Not modelled

- Most of the repository's lines are the vendor's network layers, headers,
  register definitions and drivers for other processors. ZCL and AF parse and
  build frames over libraries of which only headers are here; so do the ZDP
  requests, binding, routers, coordinators and the trust center's key tables,
  all left out of `ZdApp`. The radio drivers, the bit protocols of sensors and
  displays and the register access of the hardware layer are timing on pins.
- `ClusterScenes.c`, `ClusterGroups.c` and `ClusterLevel.c` are compiled by no
  project, and `libSources/APS_AddDupRej.c` and `network.c` do not compile.
- The other measurement clusters and applications are attribute tables and one
  reload timer each, with the same state changes as the two modelled; LED
  blinking is decoration.
- `osal_msg_find` and `osal_msg_count` only read, `osal_msg_enqueue_max` and
  `osal_msg_dequeue` are not called. The calendar of OSAL_Clock.c, the LED and
  key polling of `Hal_ProcessPoll`, the supply voltage test, partial writes and
  checksum arithmetic of OSAL_Nv.c, the heap's profiler and metrics, and sleeps
  beyond 510 s, which `maxSleepLoopTime` excludes, are left out.

`PROJECT.json` has the state of every component.
