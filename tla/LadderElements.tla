--------------------------- MODULE LadderElements ---------------------------
(***************************************************************************)
(* What the elements of a ladder program do when the controller walks it,  *)
(* and what the inputs and outputs do before and after the walk.  A walk   *)
(* is a fold over the program: the record it carries, a "walk", holds the  *)
(* states of the elements, the ports, the wakeup requests and the          *)
(* continuation, and what the element before passes to the next one: its   *)
(* state (prev_elem_state) and whether that changed (prev_elem_changed).   *)
(*                                                                         *)
(* An element is a record with its kind; a contact has the values it lets  *)
(* pass, so that InputNO, InputNC and the comparators are one kind.        *)
(* Variables have no binding here: WiFiService has what one would do.      *)
(***************************************************************************)
EXTENDS WakeupRequests

CONSTANTS
  MaxValue,         \* LogicElement::MaxValue
  Program,          \* the networks, sequences of elements
  DigitalOutputs,
  Variables,
  UpdatePeriod,     \* of an indicator
  ScanPeriod        \* of the analog input

Values == 0..MaxValue
Ports == {"DI", "AI"} \cup DigitalOutputs \cup Variables
Written == DigitalOutputs \cup Variables
States == {"Passive", "Active", "Stop"}

\* Who asks for wakeups: an element by its network and its place in it.
ProcessTask == <<0, 1>>
AI == <<0, 2>>
Elements == UNION {{<<n, i>> : i \in DOMAIN Program[n]} : n \in DOMAIN Program}
ElementAt(id) == Program[id[1]][id[2]]

OutputKinds == {"Direct", "Set", "Reset", "Inc", "Dec"}
IsElement(element) ==
  \/ element.kind \in {"Contact", "Indicator"} /\ element.port \in Ports
  \/ element.kind = "Timer" /\ element.delay \in Nat
  \/ element.kind = "Generator" /\ element.pause \in Nat /\ element.pulse \in Nat
  \/ element.kind \in {"ContinuationIn", "ContinuationOut"}
  \/ element.kind \in OutputKinds /\ element.port \in Written

ASSUME ProgramAssumption ==
  /\ MaxValue \in Nat \ {0} /\ UpdatePeriod \in Nat /\ ScanPeriod \in Nat
  /\ {"DI", "AI"} \cap Written = {} /\ DigitalOutputs \cap Variables = {}
  /\ Program \in Seq(ToSet(Program))
  /\ \A n \in DOMAIN Program : Program[n] \in Seq(ToSet(Program[n]))
  /\ \A id \in Elements : IsElement(ElementAt(id))
  /\ Elements \cup {ProcessTask, AI} \subseteq Ids

\* The contacts, by the values that they let pass.
InputNO(port) == [kind |-> "Contact", port |-> port, passing |-> 1..MaxValue]
InputNC(port) == [kind |-> "Contact", port |-> port, passing |-> {0}]
ComparatorGE(port, reference) ==
  [kind |-> "Contact", port |-> port, passing |-> reference..MaxValue]
ComparatorLs(port, reference) ==
  [kind |-> "Contact", port |-> port, passing |-> 0..(reference - 1)]
-----------------------------------------------------------------------------
\* Mutant: only power makes an element act.
GuardPowered(walk) == walk.state \in {"Active", "Stop"}

\* LogicElement::DoActionGuard
Guard(walk) == walk.changed \/ walk.state \in {"Active", "Stop"}

\* An element is left in a state, and the next one learns of it.
Leave(walk, id, state, changed) ==
  [walk EXCEPT !.elements[id] = state, !.state = state, !.changed = changed,
               !.anyChanges = @ \/ changed]

LeaveAlone(walk, id) == Leave(walk, id, walk.elements[id], FALSE)

\* Mutant: a contact that changes does not say so.
ContactSilent(walk, id, element) ==
  LET reads == walk.state = "Active"
      passes == walk.ports[element.port].value \in element.passing
      state == IF ~reads THEN walk.state ELSE IF passes THEN "Active" ELSE "Passive"
  IN  Leave([walk EXCEPT !.ports[element.port].reading = @ \/ reads], id, state, FALSE)

\* InputNO, InputNC, Comparator*: the value was read before the walk; reading
\* it asks for another one before the next walk.
Contact(walk, id, element) ==
  LET reads == walk.state = "Active"
      passes == walk.ports[element.port].value \in element.passing
      state == IF ~reads THEN walk.state ELSE IF passes THEN "Active" ELSE "Passive"
  IN  Leave([walk EXCEPT !.ports[element.port].reading = @ \/ reads],
            id, state, state # walk.elements[id])

\* Mutant: the count goes on when the element before changes.
UncountedKept(walk, id) ==
  IF Guard(walk) THEN walk.requests ELSE Removed(walk.requests, id)

\* Without power, and when the element before changes, the count is over.
Uncounted(walk, id) ==
  IF Guard(walk) /\ ~walk.changed THEN walk.requests ELSE Removed(walk.requests, id)

\* Mutant: timers may be put off.
CountedLate(requests, id, delay) == Added(requests, id, delay, "idle")

Counted(requests, id, delay) == Added(requests, id, delay, "critical")

\* CommonTimer: time is over when a request is granted that was asked before.
Timer(walk, id, element) ==
  LET state == walk.elements[id]
      requests == Uncounted(walk, id)
      counts == walk.state = "Active" /\ (walk.changed \/ state # "Active")
      completed == counts /\ ~walk.changed /\ ~Waiting(requests, id)
      next == IF completed THEN "Active"
              ELSE IF walk.state = "Active" \/ ~Guard(walk) THEN state ELSE walk.state
  IN  Leave([walk EXCEPT !.requests =
               IF counts THEN Counted(requests, id, element.delay) ELSE requests],
            id, next, next # state)

\* SquareWaveGenerator: pause is period0, pulse is period1.
Generator(walk, id, element) ==
  LET state == walk.elements[id]
      requests == Uncounted(walk, id)
      delay == IF walk.changed \/ state = "Active" THEN element.pause ELSE element.pulse
      completed == ~walk.changed /\ ~Waiting(requests, id)
      next == IF walk.state = "Active"
              THEN IF ~completed THEN state
                   ELSE IF state = "Active" THEN "Passive" ELSE "Active"
              ELSE IF Guard(walk) THEN walk.state ELSE state
  IN  Leave([walk EXCEPT !.requests =
               IF walk.state = "Active" THEN Counted(requests, id, delay) ELSE requests],
            id, next, next # state)

\* Indicator: a refresh of what it shows counts as a change.
Indicator(walk, id, element) ==
  LET powered == walk.state = "Active"
      refreshed == powered /\ (walk.changed \/ ~Waiting(walk.requests, id))
      requests == IF powered THEN Added(walk.requests, id, UpdatePeriod, "idle")
                  ELSE walk.requests
  IN  IF Guard(walk)
      THEN Leave([walk EXCEPT !.requests = requests,
                              !.ports[element.port].reading = @ \/ refreshed],
                 id, walk.state, refreshed \/ walk.elements[id] # walk.state)
      ELSE LeaveAlone(walk, id)

\* What an output writes on entering a state, at most one value.
DirectWrites(state) == IF state = "Active" THEN {MaxValue} ELSE {0}

SetWrites(state) ==
  CASE state = "Active" -> {MaxValue}
    [] state = "Passive" -> {}
    [] state = "Stop" -> {0}

ResetWrites(state) == IF state = "Active" THEN {0} ELSE {}

\* Mutant: there is no upper bound.
IncWritesUnbounded(state, value) == IF state = "Active" THEN {value + 1} ELSE {}

IncWrites(state, value) ==
  CASE state = "Active" -> {IF value < MaxValue THEN value + 1 ELSE value}
    [] state = "Passive" -> {}
    [] state = "Stop" -> {0}

DecWrites(state, value) ==
  CASE state = "Active" -> {IF value > 0 THEN value - 1 ELSE value}
    [] state = "Passive" -> {}
    [] state = "Stop" -> {0}

Writes(kind, state, value) ==
  CASE kind = "Direct" -> DirectWrites(state)
    [] kind = "Set" -> SetWrites(state)
    [] kind = "Reset" -> ResetWrites(state)
    [] kind = "Inc" -> IncWrites(state, value)
    [] kind = "Dec" -> DecWrites(state, value)

Output(walk, id, element) ==
  LET port == walk.ports[element.port]
      writes == Writes(element.kind, walk.state, port.value)
      after == IF writes = {} THEN port
               ELSE [port EXCEPT !.writing = TRUE, !.out = CHOOSE v \in writes : TRUE]
  IN  IF Guard(walk) /\ walk.state # walk.elements[id]
      THEN Leave([walk EXCEPT !.ports[element.port] = after], id, walk.state, TRUE)
      ELSE LeaveAlone(walk, id)

\* ContinuationIn passes the state on even when nothing has changed.
ContinuationIn(walk, id) ==
  LET passed == [walk EXCEPT !.continuation = walk.state] IN
  IF Guard(walk)
  THEN Leave(passed, id, walk.state, walk.state # walk.elements[id])
  ELSE LeaveAlone(passed, id)

ContinuationOut(walk, id) ==
  LET state == IF walk.state = "Active" THEN walk.continuation ELSE walk.state IN
  IF Guard(walk) THEN Leave(walk, id, state, state # walk.elements[id])
  ELSE LeaveAlone(walk, id)

DoAction(walk, id) ==
  LET element == ElementAt(id) IN
  CASE element.kind = "Contact" ->
         IF Guard(walk) THEN Contact(walk, id, element) ELSE LeaveAlone(walk, id)
    [] element.kind = "Timer" -> Timer(walk, id, element)
    [] element.kind = "Generator" -> Generator(walk, id, element)
    [] element.kind = "Indicator" -> Indicator(walk, id, element)
    [] element.kind = "ContinuationIn" -> ContinuationIn(walk, id)
    [] element.kind = "ContinuationOut" -> ContinuationOut(walk, id)
    [] OTHER -> Output(walk, id, element)
-----------------------------------------------------------------------------
(***************************************************************************)
(* The ports: value is what was read, out is what is to be written.        *)
(***************************************************************************)
PortRecords == [value : Values, out : Values, reading : BOOLEAN, writing : BOOLEAN]

\* ControllerBaseInput::Init, ControllerBaseInputOutput::Init
PortsInit == [port \in Ports |-> [value |-> 0, out |-> 0, reading |-> TRUE, writing |-> FALSE]]

\* FetchIOValues reads the ports that were asked for, each from its source;
\* the analog input only when it may ask for a wakeup, so once a period.
Fetches(ports, requests, port) ==
  ports[port].reading /\ (port = "AI" => ~Waiting(requests, AI))

Fetched(ports, requests, sources) ==
  [port \in Ports |->
     IF Fetches(ports, requests, port)
     THEN [ports[port] EXCEPT !.reading = FALSE,
             !.value = IF port \in Variables THEN ports[port].out ELSE sources[port]]
     ELSE ports[port]]

Scanned(ports, requests) ==
  IF Fetches(ports, requests, "AI") THEN Added(requests, AI, ScanPeriod, "idle") ELSE requests

\* CommitChanges
Committed(ports) ==
  [port \in Ports |->
     IF ports[port].writing
     THEN [ports[port] EXCEPT !.writing = FALSE, !.value = ports[port].out]
     ELSE ports[port]]

CommittedPins(ports, pins) ==
  [o \in DigitalOutputs |-> IF ports[o].writing THEN ports[o].out # 0 ELSE pins[o]]
=============================================================================
