--------------------------- MODULE ControllerCycle ---------------------------
(***************************************************************************)
(* The controller's process task: it waits for an event bit or the next    *)
(* wakeup, then reads the inputs, walks the networks and writes the        *)
(* outputs until nothing changes, but not for longer than two ticks.       *)
(* Around it the digital input changes and raises its bit, another task    *)
(* commands a work mode, and the designer enables and disables networks.   *)
(* A pass (read, walk, write) is one step: it holds the lock of the        *)
(* ladder, and reads each input once.                                      *)
(*                                                                         *)
(* Time is in units of the clock of WakeupRequests.  It goes on during a   *)
(* pass (PassTimes), and while the task waits; the task has the highest    *)
(* priority of the program, so once its wait is over it runs.              *)
(***************************************************************************)
EXTENDS LadderElements

CONSTANTS
  PassTimes,        \* how long a pass may take
  InitialModes,     \* the work mode of the stored program: "Run", "Stop"
  Disabled,         \* the networks that are disabled in it
  AnalogValues,     \* what the analog input may read
  Commands,         \* the work modes that are commanded
  Switchable        \* the networks that the designer enables and disables

Tick == TickMs * Millisecond

ASSUME CycleAssumption ==
  /\ PassTimes \subseteq Nat \ {0} /\ InitialModes \subseteq {"Run", "Stop"}
  /\ Disabled \subseteq DOMAIN Program /\ AnalogValues \subseteq Values
  /\ Commands \subseteq {"Run", "Stop", "Debug"}
  /\ Switchable \subseteq DOMAIN Program

VARIABLES
  task,          \* "waiting" for bits or a wakeup, or "walking"
  timeout,       \* the time left to the end of the wait, or Forever
  phase,         \* the time since the last tick
  cycleLeft,     \* the time left to the cycle
  bits,          \* the event bits that are set
  workMode,
  networks,      \* their states, and whether they changed since the last walk
  elements,      \* the states of the elements
  continuation,  \* Controller::network_continuation
  ports,
  requests,      \* of the wakeup service
  closed,        \* the digital input is closed
  analog,        \* the voltage at the analog input
  pins,          \* the output pins that are high
  cutOff,        \* history: the last cycle was cut off
  enabled,       \* history: at most one pass since a network was enabled
  counted        \* history: how long each timer and generator has had its input

taskVars == <<task, timeout, cycleLeft, cutOff, enabled>>
programVars == <<workMode, networks, elements, continuation, ports, pins>>
vars == <<taskVars, programVars, phase, bits, requests, closed, analog, counted>>

TimedElements == {id \in Elements : ElementAt(id).kind \in {"Timer", "Generator"}}

\* History: beyond this a count only shows that the time is long over.
MaxCount(id) ==
  LET element == ElementAt(id) IN
  Tick + (IF element.kind = "Timer" THEN element.delay
          ELSE Max({element.pause, element.pulse}))

InputBit == "INPUT_1"
\* The press of Select that ends the disabling.
ButtonBit == "BUTTON_SELECT"
\* WORK_MODES_0 and WORK_MODES_1 together are Debug.
CommandBits(mode) ==
  CASE mode = "Stop" -> {"WORK_MODES_0"}
    [] mode = "Run" -> {"WORK_MODES_1"}
    [] mode = "Debug" -> {"WORK_MODES_0", "WORK_MODES_1"}
Bits == {InputBit, ButtonBit, "WORK_MODES_0", "WORK_MODES_1"}

\* Convert2LogicItemState
RailState(state) ==
  CASE state = "Active" -> "Active"
    [] state = "Passive" -> "Passive"
    [] OTHER -> "Stop"

\* What an element has before it: the rail or another element.
InputOf(id, nets, states) ==
  IF id[2] = 1 THEN RailState(nets[id[1]].state) ELSE states[<<id[1], id[2] - 1>>]

\* xEventGroupWaitBits ends at a tick.
TimeoutAfter(ticks, sinceTick) ==
  IF ticks = Forever THEN Forever ELSE IF ticks = 0 THEN 0 ELSE ticks * Tick - sinceTick

\* ProcessTask up to its loop: the program is loaded, with every network marked
\* as changed, and the first wakeup is asked for at once.
Init ==
  /\ task = "waiting" /\ timeout = 0 /\ phase = 0 /\ cycleLeft = 0
  /\ cutOff = FALSE /\ enabled = FALSE
  /\ bits = {}
  /\ workMode \in InitialModes
  /\ networks = [n \in DOMAIN Program |->
       [state |-> IF workMode = "Run"
                  THEN IF n \in Disabled THEN "Passive" ELSE "Active"
                  ELSE IF n \in Disabled THEN "StopFromPassive" ELSE "StopFromActive",
        changed |-> TRUE]]
  /\ elements = [id \in Elements |-> "Passive"]
  /\ continuation = "Passive"
  /\ ports = PortsInit
  /\ requests = Added(<<>>, ProcessTask, 0, "critical")
  /\ closed \in BOOLEAN /\ analog \in AnalogValues
  /\ pins = [o \in DigitalOutputs |-> FALSE]
  /\ counted = [id \in TimedElements |-> 0]

\* The counts go on by time, but for those that start again.
CountsAfter(time, restarted) ==
  [id \in TimedElements |->
     LET count == (IF id \in restarted THEN 0 ELSE counted[id]) + time IN
     IF count > MaxCount(id) THEN MaxCount(id) ELSE count]
-----------------------------------------------------------------------------
(***************************************************************************)
(* The process task                                                        *)
(***************************************************************************)
WaitIsOver == bits # {} \/ timeout = 0

\* Ladder::ChangeWorkMode: a disabled network stays disabled.
ModeState(mode, state) ==
  IF mode = "Run"
  THEN IF state \in {"Active", "StopFromActive"} THEN "Active" ELSE "Passive"
  ELSE IF state \in {"Active", "StopFromActive"} THEN "StopFromActive" ELSE "StopFromPassive"

ChangeWorkMode(mode) ==
  [n \in DOMAIN Program |-> [state |-> ModeState(mode, networks[n].state), changed |-> TRUE]]

\* Controller::ChangeWorkMode: the two bits together are a Run with debugging.
CommandedMode ==
  IF "WORK_MODES_1" \in bits THEN "Run"
  ELSE IF "WORK_MODES_0" \in bits THEN "Stop" ELSE workMode
Commanded == IF bits \cap CommandBits("Debug") = {} THEN networks ELSE ChangeWorkMode(CommandedMode)

\* Network::SwitchState
SwitchState(network) ==
  [state |-> CASE network.state = "Active" -> "Passive"
               [] network.state = "Passive" -> "Active"
               [] network.state = "StopFromActive" -> "StopFromPassive"
               [] network.state = "StopFromPassive" -> "StopFromActive",
   changed |-> TRUE]

\* The wait ends and takes the bits; what has expired is over.  The mode comes
\* before the button.
Wake ==
  /\ task = "waiting" /\ WaitIsOver
  /\ task' = "walking" /\ cycleLeft' = 2 * Tick
  /\ bits' = {}
  /\ requests' = Unexpired(requests)
  /\ workMode' = CommandedMode
  /\ \/ ButtonBit \notin bits /\ networks' = Commanded
     \/ /\ ButtonBit \in bits
        /\ \E n \in Switchable :
             networks' = [Commanded EXCEPT ![n] = SwitchState(@)]
  /\ enabled' = \E n \in Switchable :
       Commanded[n].state = "Passive" /\ networks'[n].state = "Active"
  /\ UNCHANGED <<timeout, phase, elements, continuation, ports, closed, analog, pins,
                 cutOff, counted>>

\* FetchIOValues
Sources ==
  [port \in Ports \ Variables |->
     CASE port = "DI" -> IF closed THEN MaxValue ELSE 0
       [] port = "AI" -> analog
       [] OTHER -> IF pins[port] THEN MaxValue ELSE 0]

FetchedPorts == Fetched(ports, requests, Sources)

\* Network::DoAction: the rail tells the first element that it has changed.
Entered(walk, n) ==
  [walk EXCEPT !.state = RailState(networks[n].state), !.changed = networks[n].changed]

WalkNetwork(walk, n) ==
  LET walked[i \in 0..Len(Program[n])] ==
        IF i = 0 THEN Entered(walk, n) ELSE DoAction(walked[i - 1], <<n, i>>)
  IN  walked[Len(Program[n])]

\* Ladder::DoAction, after FetchIOValues
WalkStart ==
  [elements |-> elements, ports |-> FetchedPorts, requests |-> Scanned(ports, requests),
   continuation |-> continuation, state |-> "Passive", changed |-> FALSE, anyChanges |-> FALSE]

Walked ==
  LET walked[n \in 0..Len(Program)] ==
        IF n = 0 THEN WalkStart ELSE WalkNetwork(walked[n - 1], n)
  IN  walked[Len(Program)]

\* The counts that start again in a pass: the input is not, or was not, steady,
\* the network has changed its state, or the generator has switched.
Restarted(walk) ==
  {id \in TimedElements :
     \/ InputOf(id, networks, walk.elements) # "Active"
     \/ id[2] # 1 /\ InputOf(id, networks, elements) # "Active"
     \/ id[2] = 1 /\ networks[id[1]].changed
     \/ ElementAt(id).kind = "Generator" /\ walk.elements[id] # elements[id]}

\* Mutant: the next cycle is asked for at once.
LoopBreakNone(queue) == Added(Removed(queue, ProcessTask), ProcessTask, 0, "critical")

\* A cycle that was cut off goes on two ticks later.
LoopBreak(queue) == Added(Removed(queue, ProcessTask), ProcessTask, 2 * Tick, "critical")

Sleep(queue) ==
  /\ task' = "waiting"
  /\ requests' = queue
  /\ timeout' = TimeoutAfter(WaitTicks(queue), phase')

\* A pass of the cycle: read, walk and write; then the cycle ends, is cut off or
\* goes on.
Pass(time) ==
  LET walk == Walked
      queue == Later(walk.requests, time)
      expired == cycleLeft - time <= HalfTick
  IN
  /\ task = "walking"
  /\ elements' = walk.elements /\ continuation' = walk.continuation
  /\ networks' = [n \in DOMAIN Program |-> [networks[n] EXCEPT !.changed = FALSE]]
  /\ ports' = Committed(walk.ports)
  /\ pins' = CommittedPins(walk.ports, pins)
  /\ counted' = CountsAfter(time, Restarted(walk))
  /\ phase' = (phase + time) % Tick
  /\ \/ ~walk.anyChanges /\ cutOff' = FALSE /\ Sleep(queue) /\ cycleLeft' = 0
     \/ walk.anyChanges /\ expired /\ cutOff' = TRUE /\ Sleep(LoopBreak(queue)) /\ cycleLeft' = 0
     \/ /\ walk.anyChanges /\ ~expired
        /\ cycleLeft' = cycleLeft - time /\ requests' = queue
        /\ UNCHANGED <<task, timeout, cutOff>>
  /\ enabled' = (enabled /\ cycleLeft = 2 * Tick)
  /\ UNCHANGED <<bits, workMode, closed, analog>>
-----------------------------------------------------------------------------
(***************************************************************************)
(* What goes on around it                                                  *)
(***************************************************************************)
Elapse ==
  /\ task = "waiting" /\ ~WaitIsOver
  /\ phase' = (phase + 1) % Tick
  /\ timeout' = IF timeout = Forever THEN Forever ELSE timeout - 1
  /\ requests' = Later(requests, 1)
  /\ counted' = CountsAfter(1, {})
  /\ UNCHANGED <<task, cycleLeft, cutOff, enabled, programVars, bits, closed, analog>>

\* INPUT_1_IO_isr_handler: either edge of the input raises a bit.
SwitchInput ==
  /\ closed' = ~closed
  /\ bits' = bits \cup {InputBit}
  /\ UNCHANGED <<taskVars, programVars, phase, requests, analog, counted>>

\* Nothing tells the task that the voltage has changed.
ChangeVoltage ==
  /\ analog' \in AnalogValues \ {analog}
  /\ UNCHANGED <<taskVars, programVars, phase, bits, requests, closed, counted>>

\* The handler of POST /workmode raises the bits of a mode.
CommandMode(mode) ==
  /\ bits' = bits \cup CommandBits(mode)
  /\ UNCHANGED <<taskVars, programVars, phase, requests, closed, analog, counted>>

\* Select is pressed while the disabling of a network is chosen: in Stop, or in
\* Run with debugging.
PressSelect ==
  /\ Switchable # {}
  /\ bits' = bits \cup {ButtonBit}
  /\ UNCHANGED <<taskVars, programVars, phase, requests, closed, analog, counted>>

Next ==
  \/ Wake
  \/ \E time \in PassTimes : Pass(time)
  \/ Elapse
  \/ SwitchInput
  \/ ChangeVoltage
  \/ \E mode \in Commands : CommandMode(mode)
  \/ PressSelect

Spec == Init /\ [][Next]_vars

\* A walking task can always make a pass, and only a pass takes its time.
Walks == task = "walking" /\ cycleLeft' \in 0..(cycleLeft - 1)

\* The process task has the highest priority of the program, and time goes on.
FairSpec == Spec /\ WF_vars(Wake) /\ WF_cycleLeft(Walks) /\ WF_vars(Elapse)
-----------------------------------------------------------------------------
(***************************************************************************)
(* Properties                                                              *)
(***************************************************************************)
TypeOK ==
  /\ task \in {"waiting", "walking"}
  /\ timeout \in Nat \cup {Forever}
  /\ phase \in 0..(Tick - 1)
  /\ cycleLeft \in 0..(2 * Tick)
  /\ bits \subseteq Bits
  /\ workMode \in {"Run", "Stop"}
  /\ networks \in [DOMAIN Program ->
                    [state : {"Active", "Passive", "StopFromActive", "StopFromPassive"},
                     changed : BOOLEAN]]
  /\ elements \in [Elements -> States]
  /\ continuation \in States
  /\ ports \in [Ports -> PortRecords]
  /\ WellFormedQueue(requests)
  /\ closed \in BOOLEAN /\ analog \in AnalogValues
  /\ pins \in [DigitalOutputs -> BOOLEAN]
  /\ cutOff \in BOOLEAN /\ enabled \in BOOLEAN
  /\ counted \in [TimedElements -> Nat]
  /\ \A id \in TimedElements : counted[id] <= MaxCount(id)

\* The task has nothing to do until something happens or a wakeup comes.
Asleep == task = "waiting" /\ ~WaitIsOver

\* The task never goes to sleep on a program that would still do something:
\* with the ports as they are, another pass would change no element and write
\* nothing.  No input, no variable and no continuation is forgotten, but by a
\* network that was just enabled: its contact reads a value from before it was
\* disabled, and the pass is not repeated when that value does not pass.
Settled ==
  Asleep /\ ~cutOff /\ ~enabled =>
    LET walk == Walked IN
    ~walk.anyChanges /\ \A port \in Written : ~walk.ports[port].writing

\* Power flows from left to right: an element that has no active element before
\* it is in the state of that element, so that nothing is on behind an open
\* contact or in a disabled network.
PowerFlows ==
  Asleep =>
    \A id \in Elements :
      InputOf(id, networks, elements) # "Active" =>
        elements[id] = InputOf(id, networks, elements)

\* In Stop all outputs are released, also the latched ones, variables are 0 and
\* the timers and generators ask for no wakeup.
StopReleases ==
  Asleep /\ workMode = "Stop" =>
    /\ \A o \in DigitalOutputs : ~pins[o]
    /\ \A v \in Variables : ports[v].out = 0
    /\ \A id \in TimedElements : ~Waiting(requests, id)

\* The analog input has no interrupt: a contact that reads it has a wakeup to
\* read it again, unless its network was just enabled and is blind.
PollsOn ==
  Asleep /\ ~cutOff /\ ~enabled /\ ports["AI"].reading => Waiting(requests, AI)

\* When an element has to switch.  A generator that is told of a change while it
\* is active, as the command of a mode does, makes that pulse a pause long.
DueAfter(id) ==
  LET element == ElementAt(id) IN
  IF element.kind = "Timer" THEN element.delay
  ELSE IF elements[id] = "Active" THEN Max({element.pause, element.pulse})
  ELSE element.pause

\* No timer and no generator is overdue while the task sleeps.
OnTime ==
  Asleep =>
    \A id \in TimedElements :
      /\ InputOf(id, networks, elements) = "Active"
      /\ ~(ElementAt(id).kind = "Timer" /\ elements[id] = "Active")
      => counted[id] <= DueAfter(id) + HalfTick

\* A timer passes the signal on only once its time is over, to half a tick: any
\* change of the element before starts the count anew.
SwitchesEarly(id) ==
  /\ elements[id] # "Active" /\ elements'[id] = "Active"
  /\ counted[id] < ElementAt(id).delay - HalfTick
NeverEarly ==
  [][\A id \in TimedElements : ElementAt(id).kind = "Timer" => ~SwitchesEarly(id)]_vars

\* A program that never settles leaves the processor to the other tasks again
\* and again, unless inputs and commands come without end.
Yields == []<>(Asleep \/ bits # {})
=============================================================================
