------------------------------ MODULE Bindings -------------------------------
(***************************************************************************)
(* The process task as the WiFi service sees it: variables that the        *)
(* program binds to a network, an access point or the station, reads and   *)
(* writes (LogicProgram/ControllerVariable.cpp, Bindings/), composed with  *)
(* the service itself.                                                     *)
(*                                                                         *)
(* Each pass of the task fetches the variables, walks the networks and     *)
(* commits what was written, and is repeated while something changes.  It  *)
(* may call the service at any of these steps.  A network is here its last *)
(* element, which a switch or the rail itself feeds:                       *)
(*   "binding"  binds the variable while it is active;                     *)
(*   "contact"  reads the variable while it is fed, and cancels the        *)
(*              reading when it no longer is;                              *)
(*   "output"   writes whether it is fed.                                  *)
(* The variable of an element may be changed, and its network deleted, by  *)
(* the designer; Debug is here Run.                                        *)
(***************************************************************************)
EXTENDS WiFiService

CONSTANTS
  Variables,     \* in the order in which they are fetched and committed
  Program,       \* the networks
  Switches,      \* the inputs that feed them
  Edits,         \* what the designer does and in which mode, as pairs
  MaxEdits,      \* how often
  Modes          \* the work modes that are commanded

Networks == DOMAIN Program
Vars == ToSet(Variables)
Rail == "rail"
Unbound == [type |-> "none"]

ASSUME ProgramAssumption ==
  /\ Variables \in Seq(Vars) /\ Variables # <<>>
  /\ Program \in Seq(ToSet(Program))
  /\ Rail \notin Switches
  /\ \A n \in Networks :
       /\ Program[n].kind \in {"binding", "contact", "output"}
       /\ Program[n].input \in Switches \cup {Rail}
       /\ Program[n].variable \in Vars
       /\ Program[n].kind = "binding" => Program[n].item \in ProgramRequests
ASSUME EditsAssumption ==
  /\ MaxEdits \in Nat /\ Edits \subseteq {"readdress", "delete"} \X {"Run", "Stop"}
  /\ Modes \subseteq {"Run", "Stop"}

VARIABLES
  step,       \* where the process task is in its pass
  changed,    \* any_changes of the walk
  mode,       \* the work mode
  switches,   \* the inputs that are on
  touched,    \* the networks that the work mode has changed
  fed,        \* the state of the element before
  states,     \* the state of the element
  adr,        \* its variable: io_adr
  alive,      \* the networks that are not deleted
  bound,      \* what a variable is bound to
  reading,    \* required_reading
  writing,    \* required_writing
  value,      \* value: 0, or 1 for any other
  out,        \* out_value
  edits,      \* edits so far
  broken      \* history: scans that a break ended, and not asked for since

elementVars == <<mode, switches, touched, fed, states, adr, alive, edits>>
variableVars == <<bound, reading, writing, value, out>>
programVars == <<step, changed, elementVars, variableVars>>
allVars == <<vars, programVars, broken>>

Beacon(item) == AccessPointRequest(item.ssid, FALSE)

BindingsInit ==
  /\ Init
  /\ step = [at |-> "fetch", index |-> 1] /\ changed = FALSE
  /\ mode = "Run" /\ switches = {} /\ touched = {}
  /\ fed = [n \in Networks |-> "Passive"] /\ states = [n \in Networks |-> "Passive"]
  /\ adr = [n \in Networks |-> Program[n].variable] /\ alive = Networks
  /\ bound = [v \in Vars |-> Unbound]
  /\ reading = [v \in Vars |-> TRUE] /\ writing = [v \in Vars |-> FALSE]
  /\ value = [v \in Vars |-> 0] /\ out = [v \in Vars |-> 0]
  /\ edits = 0 /\ broken = {}
-----------------------------------------------------------------------------
(***************************************************************************)
(* A variable and the service.                                             *)
(***************************************************************************)
\* What the service returns: the signal of the station or of a network, or
\* the number of clients.
Result(item) ==
  CASE item.type = "Station" -> stationRssi
    [] item.type = "Scanner" -> IF item.ssid \in scanned THEN 1 ELSE 0
    [] item.type = "AccessPoint" -> IF apClients[item.ssid] = {} THEN 0 ELSE 1

\* A request that is queued already, or that finds the queue full, is refused.
Ask(item) == IF CanAdd(requests, item) THEN Request("ladder", item) ELSE UNCHANGED vars

\* CancelReadingProcess cancels the request and forgets the value, but only of
\* a bound variable.
CancelReading(v) ==
  IF bound[v] = Unbound THEN UNCHANGED <<vars, value, out>>
  ELSE /\ Cancel(bound[v])
       /\ value' = [value EXCEPT ![v] = 0]
       /\ out' = [out EXCEPT ![v] = 0]

\* Mutant: the variable is bound anew, and what it had asked for goes on.
RebindOnly(v, item) ==
  /\ bound' = [bound EXCEPT ![v] = item]
  /\ UNCHANGED <<vars, value, out>>

\* Bind... and Unbind.
Bind(v, item) ==
  /\ bound' = [bound EXCEPT ![v] = item]
  /\ CancelReading(v)

\* FetchValue
FetchValue(v) ==
  /\ reading' = [reading EXCEPT ![v] = FALSE]
  /\ IF ~reading[v] THEN UNCHANGED <<vars, value>>
     ELSE /\ value' = [value EXCEPT ![v] =
                         IF bound[v] = Unbound THEN out[v] ELSE Result(bound[v])]
          /\ IF bound[v] = Unbound THEN UNCHANGED vars ELSE Ask(bound[v])

\* CommitChanges: a variable bound to a network puts a beacon of that name on
\* the air while it is written another value than 0.
CommitChanges(v) ==
  /\ writing' = [writing EXCEPT ![v] = FALSE]
  /\ IF ~writing[v] THEN UNCHANGED <<vars, value>>
     ELSE /\ value' = [value EXCEPT ![v] = out[v]]
          /\ IF bound[v].type # "Scanner" THEN UNCHANGED vars
             ELSE IF out[v] # 0 THEN Ask(Beacon(bound[v])) ELSE Cancel(Beacon(bound[v]))
-----------------------------------------------------------------------------
(***************************************************************************)
(* The walk.                                                               *)
(***************************************************************************)
Fed(n) ==
  IF mode = "Stop" THEN "Stop"
  ELSE IF Program[n].input \in switches \cup {Rail} THEN "Active" ELSE "Passive"
FedChanged(n) == IF Program[n].input = Rail THEN n \in touched ELSE Fed(n) # fed[n]
Guarded(n) == FedChanged(n) \/ Fed(n) # "Passive"

Left(n, state) ==
  /\ states' = [states EXCEPT ![n] = state]
  /\ fed' = [fed EXCEPT ![n] = Fed(n)]
  /\ touched' = touched \ {n}
  /\ changed' = (\/ changed \/ state # states[n]
                 \/ (Program[n].input # Rail /\ Fed(n) # fed[n]))

\* WiFiBinding, WiFiStaBinding, WiFiApBinding
DoBinding(n) ==
  IF ~Guarded(n) \/ Fed(n) = states[n]
  THEN Left(n, states[n]) /\ UNCHANGED <<vars, variableVars>>
  ELSE /\ Left(n, Fed(n))
       /\ Bind(adr[n], IF Fed(n) = "Active" THEN Program[n].item ELSE Unbound)
       /\ UNCHANGED <<reading, writing>>

\* InputNO
DoContact(n) ==
  LET v == adr[n] IN
  /\ Left(n, IF ~Guarded(n) THEN states[n]
             ELSE IF Fed(n) # "Active" THEN Fed(n)
             ELSE IF value[v] # 0 THEN "Active" ELSE "Passive")
  /\ reading' = [reading EXCEPT ![v] = @ \/ Fed(n) = "Active"]
  /\ IF FedChanged(n) /\ Fed(n) = "Passive" THEN CancelReading(v)
     ELSE UNCHANGED <<vars, value, out>>
  /\ UNCHANGED <<bound, writing>>

\* DirectOutput
DoOutput(n) ==
  LET turns == Guarded(n) /\ Fed(n) # states[n] IN
  /\ Left(n, IF turns THEN Fed(n) ELSE states[n])
  /\ writing' = [writing EXCEPT ![adr[n]] = @ \/ turns]
  /\ out' = IF turns THEN [out EXCEPT ![adr[n]] = IF Fed(n) = "Active" THEN 1 ELSE 0] ELSE out
  /\ UNCHANGED <<vars, bound, reading, value>>
-----------------------------------------------------------------------------
(***************************************************************************)
(* The process task.                                                       *)
(***************************************************************************)
Ready(at) == step.at = at /\ call["ladder"] = Idle
AtRest == Ready("asleep")

\* The task goes on to the next variable or network, or to what comes then.
Advance(count, next) ==
  step' = IF step.index < count THEN [step EXCEPT !.index = @ + 1] ELSE [at |-> next, index |-> 1]

\* A wait takes every bit.  A pass that ran out of time is continued.
Wake ==
  /\ Ready("asleep") \/ Ready("paused")
  /\ step' = [at |-> "fetch", index |-> 1]
  /\ wakeup' = FALSE
  /\ \/ (wakeup \/ step.at = "paused") /\ UNCHANGED <<mode, switches, touched>>
     \/ /\ \E s \in Switches : switches' = (switches \cup {s}) \ (switches \cap {s})
        /\ UNCHANGED <<mode, touched>>
     \/ /\ mode' \in Modes
        /\ touched' = alive
        /\ UNCHANGED switches
  /\ UNCHANGED <<groupVars, requests, pc, request, backlog, stationVars, link, scanVars,
                 apClients, callVars, changed, fed, states, adr, alive, edits, variableVars>>

Fetch ==
  /\ Ready("fetch")
  /\ FetchValue(Variables[step.index])
  /\ Advance(Len(Variables), "walk")
  /\ UNCHANGED <<changed, elementVars, bound, writing, out>>

Walk ==
  /\ Ready("walk")
  /\ LET n == step.index IN
       \/ n \notin alive /\ UNCHANGED <<vars, variableVars, states, fed, touched, changed>>
       \/ n \in alive /\ Program[n].kind = "binding" /\ DoBinding(n)
       \/ n \in alive /\ Program[n].kind = "contact" /\ DoContact(n)
       \/ n \in alive /\ Program[n].kind = "output" /\ DoOutput(n)
  /\ Advance(Len(Program), "commit")
  /\ UNCHANGED <<mode, switches, adr, alive, edits>>

Commit ==
  /\ Ready("commit")
  /\ CommitChanges(Variables[step.index])
  /\ Advance(Len(Variables), "end")
  /\ UNCHANGED <<changed, elementVars, bound, reading, out>>

EndPass ==
  /\ Ready("end")
  /\ changed' = FALSE
  /\ \/ changed /\ step' = [at |-> "fetch", index |-> 1]
     \/ changed /\ step' = [at |-> "paused", index |-> 1]
     \/ ~changed /\ step' = [at |-> "asleep", index |-> 1]
  /\ UNCHANGED <<vars, elementVars, variableVars>>

MayEdit(edit) == AtRest /\ <<edit, mode>> \in Edits /\ edits < MaxEdits /\ edits' = edits + 1

\* SetIoAdr, from the properties of the element.  A pass follows.
Readdress ==
  /\ MayEdit("readdress")
  /\ \E n \in alive, v \in Vars : adr' = [adr EXCEPT ![n] = v]
  /\ step' = [at |-> "fetch", index |-> 1]
  /\ UNCHANGED <<vars, changed, mode, switches, touched, fed, states, alive, variableVars>>

\* Mutant: the destructor leaves the variable bound.
DeleteKeeps ==
  /\ MayEdit("delete")
  /\ \E n \in alive : alive' = alive \ {n}
  /\ step' = [at |-> "fetch", index |-> 1]
  /\ UNCHANGED <<vars, changed, mode, switches, touched, fed, states, adr, variableVars>>

\* Ladder::Delete, with the destructor of an active binding.
Delete ==
  /\ MayEdit("delete")
  /\ \E n \in alive :
       /\ alive' = alive \ {n}
       /\ IF Program[n].kind = "binding" /\ states[n] = "Active" THEN Bind(adr[n], Unbound)
          ELSE UNCHANGED <<vars, bound, value, out>>
  /\ step' = [at |-> "fetch", index |-> 1]
  /\ UNCHANGED <<changed, mode, switches, touched, fed, states, adr, reading, writing>>

\* What is queued anew was not broken.
ProcessTask ==
  /\ Fetch \/ Walk \/ Commit \/ EndPass
  /\ broken' = broken \ ToSet(requests')

\* The WiFi task has the idle priority: it runs while the process task waits.
Radio ==
  /\ \/ FinishCall("ladder")
     \/ step.at \in {"asleep", "paused"} /\ WiFiTask
     \/ Timeout \/ DriverEvent
  /\ broken' = IF canceled' THEN broken \cup {request} ELSE broken
  /\ UNCHANGED programVars

BindingsNext ==
  \/ Wake /\ UNCHANGED broken
  \/ Readdress /\ UNCHANGED broken
  \/ Delete /\ UNCHANGED broken
  \/ ProcessTask \/ Radio

BindingsSpec == BindingsInit /\ [][BindingsNext]_allVars
-----------------------------------------------------------------------------
(***************************************************************************)
(* Properties                                                              *)
(***************************************************************************)
States == {"Active", "Passive", "Stop"}

\* Every variable has its type, the service's own too: whatever order the
\* process task, the WiFi task and the designer run in, a request is queued
\* once and the tables of results are within their limits.
BindingsTypeOK ==
  /\ TypeOK
  /\ step.at \in {"fetch", "walk", "commit", "end", "paused", "asleep"}
  /\ changed \in BOOLEAN /\ switches \subseteq Switches /\ touched \subseteq Networks
  /\ fed \in [Networks -> States] /\ states \in [Networks -> States]
  /\ adr \in [Networks -> Vars] /\ alive \subseteq Networks
  /\ bound \in [Vars -> ProgramRequests \cup {Unbound}]
  /\ reading \in [Vars -> BOOLEAN] /\ writing \in [Vars -> BOOLEAN]
  /\ value \in [Vars -> {0, 1}] /\ out \in [Vars -> {0, 1}]
  /\ edits \in 0..MaxEdits /\ broken \subseteq RequestItems

BindingOf(v, item) ==
  {n \in alive : /\ Program[n].kind = "binding" /\ Program[n].item = item
                 /\ adr[n] = v /\ states[n] = "Active"}

\* A variable that is bound when the task sleeps has an active binding that
\* says so, whatever bindings share it and whichever was deleted.
BoundByActive ==
  AtRest => \A v \in Vars : bound[v] # Unbound => BindingOf(v, bound[v]) # {}

\* When the task sleeps, what is queued is what some variable is bound to, or
\* a beacon: no request outlives its binding, in Stop as little as in Run.
QueuedIsBound ==
  AtRest =>
    \A item \in ToSet(requests) :
      (item.type = "AccessPoint" => item.secure) => \E v \in Vars : bound[v] = item

\* The scan is queued, under way, or the task is about to wake up.
ScanAsked(item) ==
  item \in ToSet(requests) \/ (request = item /\ pc \in ScanSession) \/ wakeup

Scanned(v) == AtRest /\ reading[v] /\ bound[v].type = "Scanner"

\* The scan of a variable that is bound and read goes on: when the task sleeps
\* its request is queued or served, or its result is about to wake the task,
\* unless the break bit of another scan has ended it.
ScanGoesOn == \A v \in Vars : Scanned(v) => ScanAsked(bound[v]) \/ bound[v] \in broken
=============================================================================
