# AtsPLC: specifications and proofs

TLA+ models of the firmware of a small PLC (`src/PLC_esp8266/main`, C++ for the
ESP8266), the TLC configurations that check them, and proofs checked by TLAPS.
Every definition is translated from the code; `PROJECT.json` names the lines
each one stands for.

## 1. The system

| Component | State it keeps | Operations | Why it is hard |
|---|---|---|---|
| Controller (`LogicProgram/Controller.cpp`) | the program, the input and output values, `in_design`, the wakeup bit | one task waits for bits or a delay, takes work-mode commands and buttons, then repeats fetch / `DoAction` / commit until nothing changes, for at most 20 ms | bits set by interrupts, the web server, the WiFi task; the pass is cut off by time |
| Wakeup service (`LogicProgram/ProcessWakeupService.cpp`) | requests sorted by time | `Request`, `RemoveRequest`, `Get`, `RemoveExpired` | a request made while the task waits; ticks against microseconds; joined idle requests |
| Networks and elements (`Network.cpp`, `Inputs/`, `Outputs/`, `Flow/`) | the state of each element | `DoAction` along the chain | "changed" flags, timers that take a missing wakeup request for an elapsed delay, values written at the end of the pass |
| Controller variables (`ControllerVariable.cpp`, `Bindings/`) | value, pending read and write, binding | fetch, commit, bind, unbind | calls into the WiFi service in the middle of a pass; elements that share a variable |
| WiFi service (`WiFi/WiFiService*.cpp`) | the request being served, scan results, clients, signal | station, scan and access point tasks; requests and cancels from the program; driver events | four contexts share one event group that callers clear |
| WiFi request queue (`WiFi/WiFiRequests.cpp`) | at most 5 requests | add, remove, pop, has-another | full queue, duplicates |
| Redundant storage (`redundant_storage.cpp`) | two copies of a file | load, store, delete | power loss between any two steps |
| Ladder and its storage (`Ladder.cpp`, `LadderStoring.cpp`) | networks, work mode, view, selection | load, store, change of the work mode | the mode is in a file, the Debug flag in RTC memory; a program that cannot be serialized |
| Designer (`LadderDesigner.cpp`) | the network that is selected, its editing state, `in_design` | buttons: select, edit, move, copy, delete, disable | long sequences of legal presses; indexes kept in three places |
| Network editing (`Network.cpp`, `ElementsBox.cpp`) | the elements, the wire that makes space, the elements box | buttons: select an element, turn the box, complete | each offer looks at the neighbours of one element |
| HTTP controllers (`HttpServer/`) | the request that is handled | upload of a program, work mode, downloads | a check made by the server task and used later by the process task |
| Hot restart (`hotreload_service.cpp`, `restart_counter.cpp`) | RTC memory with a crc | load, store | restart at any step |
| Settings (`settings.cpp`, `DataMigrations/`) | device settings | load, store, migrate | as redundant storage |
| Date and time (`Datetime/`) | clock, SNTP state | set, get, SNTP start and stop | asks for the station from a second task |
| Buttons (`button.cpp`, `buttons.cpp`, `sys_gpio.cpp`) | pressed since, debounce request | close and open events | both edges in one wakeup |
| Service mode (`Maintenance/`) | the item chosen | backup, restore, reset, work mode, SmartConfig | ends in a restart |
| Rendering and display (`Display/`) | frame buffer | draw | pure output |

**Tasks.** The process task has priority idle+3, the HTTP server idle+1; the
WiFi, rendering and date-time tasks have the idle priority, so they run only
while the process task blocks; WiFi and IP events arrive in the event loop
task, buttons and inputs in interrupts. The program is guarded by the ladder
lock, the queue and the result tables by a mutex each, settings and RTC memory
by one each. Everything else is passed through event bits.

**What makes each component correct.** The radio serves every request in turn
and never sleeps on one; sessions do not see each other's events; tables and
queue keep their limits. The storage never loses a value and never goes back
to an older one. A request for a wakeup is honoured in time, and not before
time. An element's state follows from its inputs; a timer elapses once, after
its delay. What runs is what is shown and stored; editing and live outputs
never meet except in Debug.

## 2. Modules

| Module | Models | Extended or instanced by |
|---|---|---|
| `EventGroup` | the FreeRTOS event group (external) as `WaitEvent` uses it | `WiFiService` |
| `WiFiRequests` | the queue, one operator per operation of the class (each holds its mutex throughout) | `WiFiService` |
| `WiFiService` | the radio: `wifi_task`, callers, driver | `WiFiDemand`, `Bindings` |
| `WiFiDemand` | the radio together with what the program wants of it, with a bound on calls | `MCWiFiDemand`, `WiFiServiceProofs` |
| `Bindings` | the radio composed with the process task that calls it: variables, the elements that bind, read and write them, the designer's edits of those | `MCBindings`, `BindingsProofs` |
| `RedundantStorage` | load, store, delete of two copies, with restarts and errors | `MCRedundantStorage` |
| `DurableStorage` | abstract: one durable value | instanced by `RedundantStorage` |
| `WakeupRequests` | the vector of the wakeup service, one operator per operation of the class | `ProcessWakeupService`, `LadderElements` |
| `ProcessWakeupService` | the service alone, under any calls | `MCProcessWakeupService` |
| `AlarmClock` | abstract: a time left for each caller, in no order | instanced by `ProcessWakeupService` |
| `LadderElements` | `DoAction` of every kind of element, the ports it reads and writes | `ControllerCycle` |
| `ControllerCycle` | the process task, with its networks, ports, wakeups, time, the digital input and the commands of a work mode | `MCControllerCycle` |
| `LadderDesigner` | the buttons that select, move, copy, delete, disable and edit networks, what is shown, stored and loaded | `WorkModes` |
| `WorkModes` | the designer together with the browser's commands and uploads, restarts, power losses and the service mode | `MCWorkModes` |
| `NetworkEditing` | the editing of one network, element by element | `MCNetworkEditing` |
| `WiFiServiceProofs`, `RedundantStorageProofs`, `ProcessWakeupServiceProofs`, `ControllerCycleProofs`, `WorkModesProofs`, `NetworkEditingProofs`, `BindingsProofs` | theorems about the module of that name, and their proofs | `BindingsProofs` extends `WiFiServiceProofs`, `ControllerCycleProofs` instances `ProcessWakeupServiceProofs` |
| `SequenceLemmas` | lemmas on sequences, and induction over the numbers without an operator as a parameter | the proofs |

An `MC` module gives a model its small constants, and `MCWorkModes` a
constraint; it adds no behaviour.

### WiFiService

`pc` is the point `wifi_task` has reached; a label of `WaitLabels` is a call of
`WaitEvent`, which is two or three steps: `EnterWait` (the bits are read, or
the task blocks), a set of bits or `Timeout`, and the action that looks at
`notified`. `StationTask`, `ScannerTask` and `AccessPointTask` are the actions
`Station*`/`NoCreds*`/`MinWorktime*`/`ReconnectDelay*`, `Scan*` and `Ap*`, in
the order of the code. A call of the service by the program is one step per
access to shared state: the queue (`Request`, `Cancel`), the group read by
`ClearBreakFlags`, the tables (`Forget`), the bits (`RaiseBits`). There are two
callers: whoever holds the ladder lock, and the date-time task. Since
`wifi_task` and the date-time task have the idle priority, neither runs while a
ladder call is under way; the date-time task's own call can be preempted at
every step. `link` is the driver's station: an event of a lost connection is
queued (`dropped`) before its handler runs, and is lost when the handlers are
unregistered first.

Abstractions: a signal is 0 or not; time only makes a wait with a finite delay
able to end; an ssid is the pointer the code compares; the mac mask accepts a
client or the client does not exist; `failures` saturates at the retry count.
A client's events come during the session of the access point only: the
registration of its handlers is not state, and what the SDK does with an event
that it still has when they are unregistered is left out.

`WiFiDemand` adds histories to it and changes no step: `live` is what the
program asked for and has not cancelled since, `cutShort` what its last cancel
found `wifi_task` serving, and `eaten` says that `ClearBreakFlags` has taken an
event of the station.

### RedundantStorage

`copies` holds, for each partition, a value, no file, or a file whose length or
crc is wrong. `fopen(.., "wb")` (`OpenCopy`) leaves the copy empty until the
last `fwrite` (`WriteCopy`); a restart may come before, between and after.
`loaded` says whether the running boot has loaded the file: the program and the
settings are loaded before they are ever stored, the restore of a backup is
not. `expected` records what the tasks have a reason to find.

### ProcessWakeupService

Every operation of the class holds `lock_mutex`, so each is one step. A request
in the vector keeps the time left to it (`left`) in place of the absolute time:
what the code compares is always `next_time - now`, and the 64 bit clock does
not wrap in the life of a device. `Later` moves all of them when time passes.
`Added` is `Request`: an idle request takes the time of the next one if that is
near, and the place is the upper bound by time and, for equal times, by the
caller's address. `WaitTicks` is `Get`, with its rounding to ticks; `Unexpired`
is `RemoveExpired`, which also takes what is due within half a tick. The
abstract `AlarmClock` has neither order nor priority: a function from callers
to the time left. An expired request may be answered up to half a tick early.

### LadderElements and ControllerCycle

`Wake` is the end of `xEventGroupWaitBits` with what follows it up to the cycle
(`RemoveExpired`, the mode bits, and of the buttons the one press that enables
or disables a network, `SwitchState`). `Pass` is one turn of the inner loop: fetch,
`Ladder::DoAction`, commit, and the decision to repeat, to stop or to break off
after the cycle's 20 ms. A pass is one step because the process task holds the
ladder lock in it and reads each port once, at its start; the time it takes
(`PassTimes`) passes with it. `Elapse` is time while the task waits; a wait
given in ticks ends on a tick, so that it may be shorter than asked
(`TimeoutAfter`, `phase`).

A walk over the networks hands the record `walk` from element to element (two
recursive functions, `WalkNetwork` and `Walked`), which carries what
the code passes through arguments, statics and singletons: the state of the
element before, whether it changed, the states of the elements, the ports, the
requests and the continuation. An element is `DoAction` of its kind; contacts
and comparators are one kind that lets some values pass (`passing`), since the
code differs between them in the comparison only. An output is written when the
walk is over (`Committed`). A port is read only if a contact has asked for it
(`reading`).

Abstractions: a value is 0 to `MaxValue`; the store of a commanded mode, the
debug flag and the rest of the designer (all in `WorkModes`), bound variables (`Bindings`)
and drawing are left out, and a command of Debug is the command of Run that it
is to the networks. The interrupt sets its bit in the same step
as the level of the pin changes. A command of the mode that is already current
marks all networks as changed, as in the code: a running timer starts anew, and
a generator's pulse becomes as long as its pause, which `OnTime` allows for.

`enabled` is a history variable: a network was enabled, and no more than one
pass made since. `counted` is another one: for how long a timer or generator has had its
input, kept apart from the requests of the code, so that `OnTime` and
`NeverEarly` compare two things.

### LadderDesigner and WorkModes

A handler of the designer is one step, since the process task holds the ladder
lock in it. What it writes, to the RTC memory and to the program file, is not
part of that step: the handler leaves it in `writes`, in the order of the code,
and `TearHotreload`, `SealHotreload` and `WriteFile` do one write after the
other while the lock is still held (every handler waits for `writes = <<>>`).
So a restart may come between any two of them, and also between the fields of
the RTC record and its crc (`valid`). Indexes count from 1, and 0 is the -1 of
the code. `networks[i].edit` is the `EditableElement` state of a network;
`DesignState` and `SelectedNetwork` search for it as the code does. The content
of a network is empty, only wires, or one of `Logics`; `EditElements` lets it
become anything but empty, as the presses inside a network do
(`NetworkEditing`).

`OpenDesign` is `SetSelectedNetworkIndex` as the buttons reach it and `Start`
as a start of the process task does: there it runs whether or not a network was
edited before the restart, so that in Stop the editor is open after every warm
restart with a valid record.

The browser is `BeginSetWorkMode` and `RaiseWorkMode`, with the check and the
bits apart, and `BeginUpload` and `EndUpload`, with the first check and the one
under the lock. `HandleBits` is `Controller::ChangeWorkMode`, one bit each for
Stop and Run and both for Debug. `device` is what a start after a power loss
may become: the program, or the service mode, whose dialogue may change the
mode, restore a backup or delete the program before it restarts.

Histories: `asked` (what modes were asked for since the power came),
`overtaken` (the mode was changed under an open editor) and `unsaved` (why the
file need not be the program). They say in which cases the two halves of a
property may differ, and nothing in the model reads them.

### NetworkEditing

`items` are the types of a network's elements, the wire included. The box
(`box`) stands for the element of `items` that is edited, and carries what it
offers, which is what is left of the order of `Fill` after the four questions
the box asks the network. Whether a type has room depends on the widths of all
elements in pixels and is left open: any set of types may fit, and a wire is
inserted or not. The properties of an element are one step (`EditProperty`).
The network begins empty, as one that `HandleButtonDown` appends does; an
uploaded program may have its elements in any order, and what the properties
say of the order is what the editor itself promises.

### Bindings

`Bindings` puts the process task in the place of the arbitrary caller
`"ladder"` of `WiFiService`: `step` walks over its variables (`Fetch`), its
networks (`Walk`) and its variables again (`Commit`), one each, and waits
wherever a call of the service is under way. Bits that the service sets for
the process task (`wakeup`) end its wait. A network is its last element, fed by
a switch or by the rail; `Guarded` is `DoActionGuard`. `Bind` and
`CancelReading` are those of `ControllerVariable`, where a variable that was
not bound is not cancelled. Elements are deleted and readdressed between
passes, where the buttons are handled. `broken` is a history: the scans that a
break bit has ended.

## 3. Runs

| Run | Question | Bounds |
|---|---|---|
| `wifi_station` | no wakeup is lost, no event of an earlier session is believed; is every request served, does the web server go down? | a station binding, a scan and the date-time task as a second caller, an ssid saved and cleared, queue of 2, 2 calls |
| `wifi_ap` | does a cancelled access point stop? does an entry of a table go with the request it was made for? is a queued request served, with tables of one slot? | an access point, a beacon and a scan, 2 clients, queue of 2, 3 calls |
| `storage_restarts` | restarts at every step, loads before stores: is a value ever lost, does the pair of copies keep the promise of one durable value? | 3 values |
| `storage_errors` | one failing write | 3 values |
| `wakeup` | is every request honoured in time, and does the task not spin? does the vector implement an alarm clock? | 3 callers, 4 delays from 0 to over a tick, a tick of 4 ms, requests at most 3 units overdue (`MaxOverdue`) |
| `cycle_timers` | a delayed switch, a generator and a counter under commands and edges at any moment | 3 networks, values 0 and 1 |
| `cycle_flow` | four networks that act on each other through a continuation, an output and a variable, one of which the designer enables and disables: is anything forgotten when the task sleeps? | values 0 to 2 |
| `cycle_unsettled` | a network that never settles beside a timer: do the other tasks run? | 2 networks |
| `work_modes` | is one network edited and shown, can the file be read, is it the program, and is nothing edited or debugged that was not allowed? | 3 networks, one kind of logic, 2 commands, 1 restart or power loss |
| `bindings` | does a binding end with its element, a request with its binding, and does a scan that is read go on? | 4 networks on one variable and a second one, 2 switches, 1 edit |
| `network_editing` | does the editing leave a network that is in order, whatever is pressed? | 2 inputs, 1 output, the flow elements; room for 4 |
| `output_ends_chain` | a promise the code breaks (section 6) | the same |

**The radio.** The bounds make every table and queue of it fill up (one slot,
two entries) and let one caller be preempted by the other; nothing in the code
depends on the number of ssids beyond the limits. The number of calls is
bounded (`MaxCalls`) because a program that never stops calling may drop every
event: a behaviour ends in what the radio does when left alone. That no wakeup
is lost, and that sessions do not see each other's events, is proved (section
4) for calls without a bound; what `SlotsAreWanted` says, for every bound.

**Storage.** Two contents of a file tell an old value from a new one, and the
third is one whose store is cut short.

**Cycle.** The unit of the clock is half a tick (5 ms): the least that shows
the rounding of a wait to ticks and of an expiry to half a tick. A cycle is 4
units, and passes take from one unit to almost all of a cycle, so that a cycle
settles, is cut off after one pass or after several, and a timer's moment falls
before, in and after a pass. Delays are odd and even numbers of units around
one to five ticks, or longer than the other period of the program. The programs
are the smallest that connect elements in each way the language has: along a
chain, through a continuation, through an output read back, through a variable,
forwards and backwards in the order of the walk. Two analog values tell a
comparator's sides apart. A longer program repeats these connections.

**Work modes.** The view shows two networks (`MaxViewPortCount`), so three are
the least that scroll, and three are here also the most, so that the append,
the copy and the upload meet the limit. The constraint `FewNetworks` follows a
behaviour with a command only while there is at most one network in memory and
one in the file: what a command does to a network does not depend on the
others. Editing alone, with restarts and uploads, goes through all three. One
restart falls between any two writes; the second half of its effect is what the
next start makes of it.

**Bindings.** Two bindings of one variable, fed by different switches, a
contact that reads it at times and an output that writes it: the least in which
one binding goes passive while the other is active, a reading is cancelled
while a request is served, and a write puts a beacon on the air. A second
variable is what an element may be readdressed to.

**Network editing.** Two inputs stand for all of them: the code tells inputs
apart only by name. A room for four elements has a first, a last and one
between, beside the wire.

`CHECK_DEADLOCK FALSE` appears in the runs of `WiFiDemand`, whose calls are
bounded: the system then rests, waiting, as the real one does.

**Fairness** (`WiFiService!Fairness`). A call under way ends and `wifi_task`
runs (weak fairness: the scheduler runs the ready task of highest priority, and
the process task blocks between passes). A wait with a finite delay ends. The
scan's total time is measured against the clock, so a scan whose wait returns
again and again runs out of it (strong fairness of `ScanTimeOver`). The driver
ends every attempt to connect, and its queued events are delivered. Nothing is
assumed of the program, the clients or the network.

`ControllerCycle!FairSpec`: the process task has the highest priority of the
program's tasks, so once its wait is over it runs (`Wake`) and makes passes
until the cycle is over (`Walks`, which says so through the time left to the
cycle that each pass takes), and time goes on while it waits (`Elapse`). The
inputs and the commands have no fairness: `Yields` says that the task sleeps
again and again, unless bits keep coming.

No fairness is stated of the designer, the browser or the bindings' program:
nobody has to press, ask or switch anything, and what their properties say is
safety. `ScanGoesOn` says of every state in which the task sleeps what would
otherwise be an "eventually" that a later call may postpone.

## 4. Proofs

`WiFiServiceProofs` proves, for every set of ssids and clients, every set of
requests the program may make and every limit:

* `TypeCorrect`: `Spec => []TypeOK`. `WellFormedQueue` needs lemmas on
  `RemoveFirst` (`SequenceLemmas`): a queue thinned out keeps its order and has
  no duplicate. The tables need `FiniteSetTheorems` for the cardinality of a set
  one element larger.
* `NeverAsleep`: `Spec => []NoLostWakeup`. The invariant is not inductive: it
  needs `WaitShape` (which labels may be blocked), `CallsCarryBits` (a call
  about to raise bits has some), and `NewWorkAnnounced`, which says of every
  state, not only of a blocked one, that a request queued since the station was
  taken has a bit in the group, in the returned wait, or in a call under way.
* `SessionsSeparate`: `Spec => []NoStaleStationEvents`, from `SessionInv`: the
  driver's station is off outside a session, so that no handler can set a
  station bit, and the wait that settles takes the ones already set.
* `SlotsAreWantedTheorem`: `DemandSpec => []SlotsAreWanted`, from `DemandInv`:
  what is queued is wanted, and what is served is wanted or was cancelled
  meanwhile. It needs that the queue holds a request once: a second one would
  be served after its cancel and take a slot for nobody.
* `ServerInSession`: `Spec => []WebServerInSession`, an invariant over the
  labels of `wifi_task` between the connection and the end of its session.

`RedundantStorageProofs` proves, for every set of contents, when the constants
say that no write fails except by a restart (`WriteErrors = 0`) and that a boot
loads the file before it stores it (`~StoreBeforeLoad`):

* `NeverLostTheorem`: `Spec => []NeverLost`. One readable copy is not inductive
  by itself: the copy that an operation is about to open must not be the only
  one that is good. The invariant says at each step of a load or store which
  copies are readable, and that between the operations of a boot that has
  loaded the file both are, or none.
* `KeepsPromiseTheorem`: the steps on two copies are steps of `DurableStorage`
  or stutters.

Without these conditions, for any number of restarts and errors and whatever a
boot does first, it proves `StorageTyped` (`Spec => []TypeOK`), and, when at most one write fails
(`WriteErrors <= 1`), `StoredSomewhereTheorem`: a store that no restart cuts
short leaves its value in a copy. `WritesInv` ties the value of the first copy
to the number of writes that have failed; with two failing writes both copies
may be broken, so the bound is part of the claim.

The two conditions of `NeverLostTheorem` are needed: TLC violates `NeverLost` with `StoreBeforeLoad =
TRUE`, which is what the restore of a backup does, and a write that fails may
leave one copy broken until the next load. `DurableStorage` says what is not
promised even so: a store cut short may leave any of the older values, since
the files have no version that tells the newer one.

`ProcessWakeupServiceProofs` proves, for every set of callers and delays, every
length of a tick and every unit of the clock:

* `RequestsWellFormed`: the vector stays sorted, with at most one request of a
  caller. It is inductive; the work is in lemmas that say what an insertion,
  a removal and the expiry leave of the order, each stated of any vector.
* `NeverSpinsTheorem`, `NeverOversleepsTheorem`: from that invariant and lemmas
  on the rounding of a division, which tie the ticks of `Get` to the half tick
  of `RemoveExpired`.
* `IsAlarmClockTheorem`: each operation on the vector is the operation of
  `AlarmClock` under the mapping `TimeLeft`. The mapping chooses an index for a
  caller, which is unique since no caller has two requests; the proof goes
  through what an operation adds and keeps, and not through positions.

`WorkModesProofs` proves, for every number of networks, of commands and of
restarts, and for all programs that are uploaded or restored:

* `DebugIsAskedTheorem`, `EditingAllowedTheorem`: `Spec => []DebugIsAsked` and
  `Spec => []EditingAllowed`. Neither is inductive: the record in the RTC
  memory is torn, sealed, lost and loaded again, and a write that is still
  pending becomes the record later, perhaps after other writes. `ModesInv` says
  of the record and of every pending write what its flag may be
  (`DebugFlags`): up only if that was asked for, and up while a network is
  edited in Run. It adds that the bits which wait for the process task were
  asked for, and that the editor is closed in the service mode. The presses are
  one lemma each for the two groups (`FinishKeeps`, `ButtonsKeep`): they write
  no other flag than the one there is, and open the editor only if it allows
  them to.
* `WorkModesTyped`, `OneEditedTheorem`, `EditedIsShownTheorem`,
  `FileLoadsTheorem`, `SavedOrExplainedTheorem`: `TypeOK` and the properties of
  the same names, all from one invariant, `LadderInv`. It is the conjunction of
  `EditorInv` (`Editor`: the networks, the view and the selection fit each
  other, in the editor and outside), `MemoryInv` (the RTC record, the file and
  every pending write are ones that a start can read) and `SavedInv` (the file,
  once all that is pending is written, is the program, or `unsaved` says why
  not). The second half is what makes the first inductive: a restart makes a
  program of the file and a selection of the record. `Editor` is an operator of
  the state, so that one lemma of each press serves the press and the start
  that repeats its steps.

The assumptions on the uploads (`UploadsAssumption`) say what
`Ladder::Deserialize` accepts, and `BadModesAssumption` that the mode which an
upload with an error begins with is one of those there are.

`NetworkEditingProofs` proves, for all types of inputs and outputs, any room
and any sequence of presses:

* `EditingTyped`, `EditingEndsClean`, `EditingEndsInPlace`:
  `Spec => []TypeOK`, `[]EndsClean` and `[]EndsInPlace`. The invariant
  `EditingInv` has two cases: outside the box (`OutsideInv`) the network is in
  order but for one wire that makes space, and in the box (`InsideInv`) the order
  holds of the neighbours, and each type on offer would keep it. What a
  network without wires is, in the code a list from which elements are erased
  one by one, is described by the places where its elements come from
  (`AtPlaces`), since what `SelectSeq` computes needs induction.
* `EditingOpensAsItIs`: the action property `OpensAsItIs`, with the exception
  of section 6.

`BindingsProofs` proves, for every program (networks, variables, bindings),
every number of edits and calls and every limit of the radio's tables:

* `BindingsTyped`, `QueuedIsBoundTheorem`: without further conditions.
* `BoundByActiveTheorem`: when the edits give an element another variable in
  Stop only (`ReaddressedInStop`). In Debug the property is false: an active
  binding that is readdressed leaves its old variable bound (section 6).
* `ScanGoesOnTheorem`: the same, and the program has no more different requests
  than the queue has places (`ProgramFits`). A longer program may find the queue
  full, and `Request` then drops what it was asked for. The invariant follows a
  scan from the bind to the wakeup through the steps of two tasks (`BreakInv`,
  `AskedInv`), and says for each point of a pass what has been walked already
  (`RailInv`, `ReadInv`).

The lemmas about the radio are those of `WiFiServiceProofs`, which it extends:
a step of the composition is a step of the radio or leaves it alone.

`ControllerCycleProofs` proves, for every ladder program, every tick, period,
bound on values and length of a pass, and for any commands, edges, voltages and
presses:

* `CycleTyped`: `Spec => []TypeOK`.
* `PowerFlowsTheorem`: `Spec => []PowerFlows`, from `FlowInv`: an element whose
  input is not active, and steady, is in the state of its input.
* `StopReleasesTheorem`: `Spec => []StopReleases`, from four invariants: only
  what is on holds a value that is not 0 (`HeldInv`), the pins are what was
  written last (`PinsInv`), the networks are in the mode of the controller
  (`ModeInv`), and what has no active input has no request (`UncountedInv`).
* `NeverEarlyTheorem`: the action property `NeverEarly`, from `CountInv`: what
  a timer has counted and what is left of its request make up its delay, or it
  has no request and has counted its delay to half a tick.
* `OnTimeTheorem`: `Spec => []OnTime`, from `DueInv` (the same for a bound from
  above, and the request is there while the task waits) and `TimeoutInv` (the
  wait ends by the time of every request, to half a tick). It has two
  conditions. No indicator comes right before a timer or generator
  (`NoIndicatorBefore`): it reports a change at each refresh, and the count
  starts again (section 6). A tick is an even number of milliseconds
  (`EvenTick`), as the 10 ms of the firmware are; half an odd one is rounded
  down. The programs of the runs meet both.
* `PollsOnTheorem`: `Spec => []PollsOn`, from `PollingInv`: a contact with
  power has asked for its port (`ReadInv`), and so has, or will change, the
  first contact of a network that became active by a command (`PendingInv`); a
  network that the designer enabled is the exception.
* `SettledTheorem`: `Spec => []Settled`, from two invariants. While the task
  waits after a pass that changed nothing, an element with power is in the state
  that its port, its request or the continuation asks for, and a contact's port
  was read after its last change, or the bit of the digital input is set; the
  analog input is `PollsOn`'s (`StableInv`). The carried continuation is the
  state of the last continuation-in of the program (`ContinuationInv`). The proof follows two passes: the last one by the
  visit of each element (`Visits`), and the one that `Settled` asks about by a
  set of walks, those that have changed nothing so far, which each element keeps
  when the walk comes to it (`KeptByPass`, `Quiet`).

A walk is defined by recursion over the program, so what it computes needs
induction over data. `SequenceLemmas` has this as facts about sets
(`SetInduction`: a set that has 0 and the successor of each of its members has
all the numbers) and about one particular recursive function
(`IterationExists`: the function that iterates a step has a value at each
stage). From these come `WalkInduction`, for what every element keeps, and
`PassVisitsAll`, for what differs from place to place: each element has acted
on some walk (`Visits`) in which it had not been touched before, whose state is
that of its input after the pass, and whose "changed" says whether that input
has changed. `DoActionActed` says what any element does to a walk, by its kind
(`Acted`, `PowerActed`, `PortsActed`, `ReadsActed`, `TimedActed`), so that the
invariants are about one element and one visit. The queue of requests is used through the time
left to a caller (`Left`) only; what the operations do to it follows from the
lemmas of `ProcessWakeupServiceProofs`, which are instanced.

Assumed are the constants' assumptions in the modules and the conditions named
above, and nothing else.

Only model-checked: liveness under fairness (`QueuedIsServed`,
`WebServerGoesDown`, `CancelledAccessPointStops`, `Yields`), which is out of
the prover's reach. Every other property of the passing runs is a theorem.

## 5. Not modelled, and why

* **Buttons**: the debounce and the long press are local to one button; the
  designer's model lets any press come at any moment.
* **Date and time**: its request for the station is a caller of `WiFiService`;
  the clock, SNTP and the manual setting are left out, and so is a variable
  bound to the clock, which calls no service.
* **Settings**, **restart counter and migrations**, the **encoding** of
  elements and the properties of an element: data without control that a
  property would tell apart. The store of the settings is `RedundantStorage`.
* **SmartConfig**, **firmware update**: sequences of SDK calls while the
  program does not run. **Backups**: files of their own; what a restore does to
  the program is in `WorkModes`.
* **Display and rendering**: drawing; the lock of the display and the handshake
  of its task with the process task.
* **Web page and tools**: not part of the firmware.
* **Designer and running program at once**: a network is enabled and disabled
  while the program runs (`ControllerCycle`), and bindings are deleted and
  readdressed (`Bindings`). Other elements are not: a timer that is deleted
  leaves its wakeup request behind. `WorkModes` has no elements and
  `ControllerCycle` only one step of the designer; their composition is beyond
  what TLC goes through in minutes.

## 6. Where the code and its words disagree

`output_ends_chain` is the counterexample of a run: the editor offers an output
in the place of an element that others follow. These stay in the network behind
the output and act, and `Network::Render` no longer draws them; the
documentation says that an output ends the chain.

The others were met while modelling. The properties name most of them as the
one case that they except; each can be seen by leaving the exception out.

* A caller's `ClearBreakFlags` takes `STA_CONNECTED` or `STA_FAILED` out of the
  group; the station then never frees the radio for the requests that are
  queued (`WIFI.md:39-40`; `eaten` in `QueuedIsServed`).
* A station without a saved ssid waits with what was queued before it (`pc =
  "no_creds"` there).
* The break bit of a scan that is cancelled ends the scan of another variable,
  which is not told (`LADDER_ELEMENTS.md:51-52`; `broken` in `ScanGoesOn`). A
  scan that was cancelled when its result arrives publishes it all the same, and
  a client that joins before the cancelled access point is off the air is listed
  again: such a slot is taken for nobody (`WIFI.md:84-85`; `cutShort` in
  `SlotsAreWanted`).
* A beacon stays queued, or on the air, when its variable is unbound and in
  Stop (`QueuedIsBound` excepts beacons).
* A binding that is active keeps its old variable bound when it is readdressed
  in Debug (`WORK_MODES.md:22-23`; the run readdresses in Stop).
* A network that the designer enables reads the inputs of before it was
  disabled: DI and AI are read only if a contact asked for them in an earlier
  walk. If its first contact does not pass that value, nothing changes, the
  walk is not repeated and AI is not polled, until something else wakes the
  task (`LADDER_ELEMENTS.md:123`; `enabled` in `Settled` and `PollsOn`).
* The first walk after Stop and Run uses the input of before Stop, and a Set
  element latches it (`LADDER_ELEMENTS.md:123`).
* An indicator reports a change at each refresh, so that a timer after it
  starts anew and never ends if its delay is longer
  (`LADDER_ELEMENTS.md:24`).
* The editing may begin between the check of a commanded mode and the walk
  that obeys it: the program is then edited in Run (`WORK_MODES.md:9`;
  `overtaken` in `EditingAllowed`).
* A Stop and a Run that meet in one wait are taken for Debug (`DebugIsAsked`).
* Opening an output that comes before a ContinuationIn deletes it
  (`OpensAsItIs`).
* A program with an empty network cannot be serialized: its store, and that of
  each later mode, fails silently until it is gone. Networks that were moved
  keep their new order when that is cancelled, but it is not stored; an
  uploaded program is not stored until the next store; deleting the last
  network leaves the old file (`unsaved` in `SavedOrExplained`).
* An upload with an error leaves the program of the file, and its mode.
* With a scan period of 20 ms beside a network that never settles, a wakeup is
  due at the end of every cycle and the tasks below never run (`Yields` is
  checked with longer periods).
