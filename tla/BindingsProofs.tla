--------------------------- MODULE BindingsProofs ----------------------------
(***************************************************************************)
(* Proofs about Bindings: the types, that a binding ends with its element  *)
(* and a request with its binding, and that a scan which is read goes on,  *)
(* for every program, every number of edits and every size of the tables.  *)
(*                                                                         *)
(* Whatever the process task does to the service is a step of the service, *)
(* so what WiFiServiceProofs proves of a step holds here too.              *)
(***************************************************************************)
EXTENDS Bindings, WiFiServiceProofs
-----------------------------------------------------------------------------
(* The constants *)

LEMMA Constants ==
  /\ Len(Variables) \in Nat /\ Len(Variables) >= 1
  /\ \A i \in 1..Len(Variables) : Variables[i] \in Vars
  /\ Len(Program) \in Nat /\ Networks = 1..Len(Program)
  /\ \A n \in Networks :
       /\ Program[n].variable \in Vars
       /\ Program[n].kind = "binding" => Program[n].item \in ProgramRequests
BY ProgramAssumption DEF Vars, ToSet, Networks

LEMMA RequestShape ==
  ASSUME NEW item \in RequestItems
  PROVE  /\ item.type \in {"Station", "Scanner", "AccessPoint"}
         /\ item # Unbound
         /\ Beacon(item).type = "AccessPoint" /\ ~Beacon(item).secure
         /\ Beacon(item) # item \/ item.type # "Scanner"
BY DEF RequestItems, StationRequest, ScanRequest, AccessPointRequest, Beacon, Unbound

LEMMA UnboundShape == Unbound.type = "none"
BY DEF Unbound
-----------------------------------------------------------------------------
(* The steps of the service *)

LEMMA AskIsRequest ==
  ASSUME NEW item, Ask(item)
  PROVE  [Next]_vars
<1>1. CASE CanAdd(requests, item)
  <2>1. Request("ladder", item) /\ "ladder" \in Callers /\ item \in RequestItems
    BY <1>1, RequestsAssumption DEF Ask, Request, MayRequest, Callers
  <2> QED
    BY <2>1 DEF Next, StartCall
<1>2. CASE ~CanAdd(requests, item)
  BY <1>2 DEF Ask
<1> QED
  BY <1>1, <1>2

LEMMA CancelIsCancel ==
  ASSUME NEW item, Cancel(item)
  PROVE  Next
BY DEF Cancel, Next, StartCall

LEMMA CancelReadingSteps ==
  ASSUME NEW v, CancelReading(v)
  PROVE  [Next]_vars
BY CancelIsCancel DEF CancelReading

LEMMA WalkSteps ==
  ASSUME Walk
  PROVE  [Next]_vars
<1> DEFINE n == step.index
<1>1. CASE n \notin alive
  BY <1>1 DEF Walk
<1>2. CASE DoBinding(n)
  BY <1>2, CancelReadingSteps DEF DoBinding, Bind
<1>3. CASE DoContact(n)
  BY <1>3, CancelReadingSteps DEF DoContact
<1>4. CASE DoOutput(n)
  BY <1>4 DEF DoOutput
<1> QED
  BY <1>1, <1>2, <1>3, <1>4 DEF Walk

\* Every step of the composition is one of the service, or leaves it alone.
LEMMA ServiceStep ==
  ASSUME wakeup \in BOOLEAN, [BindingsNext]_allVars
  PROVE  [Next]_vars
<1>1. CASE Wake
  BY <1>1 DEF Wake, ProcessTaskWakes, Next, Progress, vars
<1>2. CASE Fetch
  BY <1>2, AskIsRequest DEF Fetch, FetchValue
<1>3. CASE Commit
  BY <1>3, AskIsRequest, CancelIsCancel DEF Commit, CommitChanges
<1>4. CASE Delete
  BY <1>4, CancelReadingSteps DEF Delete, Bind, vars
<1>5. CASE Radio
  BY <1>5 DEF Radio, Next, Progress, Callers
<1>6. CASE Readdress \/ EndPass \/ UNCHANGED allVars
  BY <1>6 DEF Readdress, EndPass, allVars
<1> QED
  BY <1>1, <1>2, <1>3, <1>4, <1>5, <1>6, WalkSteps DEF BindingsNext, ProcessTask
-----------------------------------------------------------------------------
(* Types *)

Places == {"fetch", "walk", "commit", "end", "paused", "asleep"}

\* The index of a variable that is fetched or committed is one of them, and
\* changes are forgotten where the task waits.
StepInv ==
  /\ step \in [at : Places, index : Nat \ {0}]
  /\ step.at \in {"fetch", "commit"} => step.index <= Len(Variables)
  /\ step.at \in {"paused", "asleep"} => ~changed

\* The program of the service's caller, without the task's step.
Elements ==
  /\ changed \in BOOLEAN /\ switches \subseteq Switches /\ touched \subseteq Networks
  /\ fed \in [Networks -> States] /\ states \in [Networks -> States]
  /\ adr \in [Networks -> Vars] /\ alive \subseteq Networks
BoundTyped == bound \in [Vars -> ProgramRequests \cup {Unbound}]
Values ==
  /\ reading \in [Vars -> BOOLEAN] /\ writing \in [Vars -> BOOLEAN]
  /\ value \in [Vars -> {0, 1}] /\ out \in [Vars -> {0, 1}]
History == edits \in 0..MaxEdits /\ broken \subseteq RequestItems

BindingsTypeInv ==
  /\ TypeOK /\ ScanHasSsid /\ StepInv /\ Elements /\ BoundTyped /\ Values /\ History

\* Advance counts the variables, or the networks, up to the last.
LEMMA AdvanceSteps ==
  ASSUME NEW count \in Nat, NEW next \in Places,
         step \in [at : Places, index : Nat \ {0}], Advance(count, next)
  PROVE  /\ step' \in [at : Places, index : Nat \ {0}]
         /\ \/ /\ step'.at = step.at /\ step'.index = step.index + 1
               /\ step.index < count
            \/ step'.at = next /\ step'.index = 1 /\ count <= step.index
BY DEF Advance

LEMMA StepStep ==
  ASSUME StepInv, [BindingsNext]_allVars
  PROVE  StepInv'
<1> USE DEF StepInv, Ready
<1>0. /\ Len(Variables) \in Nat /\ Len(Variables) >= 1
      /\ Len(Program) \in Nat
  BY Constants
<1>1. CASE Wake \/ Readdress \/ Delete
  BY <1>0, <1>1 DEF Wake, Readdress, Delete, Places
<1>2. CASE Fetch
  BY <1>0, <1>2, AdvanceSteps DEF Fetch, Places
<1>3. CASE Walk
  BY <1>0, <1>3, AdvanceSteps DEF Walk, Places
<1>4. CASE Commit
  BY <1>0, <1>4, AdvanceSteps DEF Commit, Places
<1>5. CASE EndPass
  BY <1>0, <1>5 DEF EndPass, Places
<1>6. CASE Radio \/ UNCHANGED allVars
  BY <1>6 DEF Radio, programVars, allVars
<1> QED
  BY <1>1, <1>2, <1>3, <1>4, <1>5, <1>6 DEF BindingsNext, ProcessTask

LEMMA FedTyped ==
  ASSUME NEW n \in Networks
  PROVE  Fed(n) \in States /\ (Fed(n) = "Active" => mode # "Stop")
BY DEF Fed, States

LEMMA LeftTyped ==
  ASSUME Elements, NEW n \in Networks, NEW state \in States, Left(n, state)
  PROVE  /\ states' \in [Networks -> States] /\ fed' \in [Networks -> States]
         /\ touched' \subseteq Networks /\ changed' \in BOOLEAN
BY FedTyped DEF Elements, Left

\* What an element leaves.
LEMMA WalkedTyped ==
  ASSUME Elements, Walk
  PROVE  Elements'
<1> DEFINE n == step.index
<1>1. UNCHANGED <<switches, adr, alive>>
  BY DEF Walk
<1>2. CASE n \notin alive
  BY <1>1, <1>2 DEF Walk, Elements
<1>3. ASSUME n \in alive, NEW state \in States, Left(n, state)
      PROVE  Elements'
  BY <1>1, <1>3, LeftTyped DEF Elements
<1>4. CASE n \in alive /\ (DoBinding(n) \/ DoOutput(n) \/ DoContact(n))
  <2>1. n \in Networks /\ states[n] \in States /\ Fed(n) \in States
    BY <1>4, FedTyped DEF Elements
  <2>2. CASE DoBinding(n)
    BY <1>3, <1>4, <2>1, <2>2 DEF DoBinding
  <2>3. CASE DoOutput(n)
    BY <1>3, <1>4, <2>1, <2>3 DEF DoOutput
  <2>4. CASE DoContact(n)
    BY <1>3, <1>4, <2>1, <2>4 DEF DoContact, States
  <2> QED
    BY <1>4, <2>2, <2>3, <2>4
<1> QED
  BY <1>2, <1>4 DEF Walk

LEMMA ElementsStep ==
  ASSUME Elements, [BindingsNext]_allVars
  PROVE  Elements'
<1>1. CASE Wake
  BY <1>1 DEF Wake, Elements
<1>2. CASE Readdress
  BY <1>2 DEF Readdress, Elements
<1>3. CASE Delete
  BY <1>3 DEF Delete, Elements
<1>4. CASE EndPass
  BY <1>4 DEF EndPass, Elements, elementVars
<1>5. CASE Fetch \/ Commit \/ Radio \/ UNCHANGED allVars
  BY <1>5 DEF Fetch, Commit, Radio, Elements, elementVars, programVars, allVars
<1> QED
  BY <1>1, <1>2, <1>3, <1>4, <1>5, WalkedTyped DEF BindingsNext, ProcessTask

\* Where bindings change.
LEMMA BoundChanges ==
  ASSUME Elements, [BindingsNext]_allVars
  PROVE  \/ UNCHANGED bound
         \/ \E n \in alive, item \in ProgramRequests \cup {Unbound} :
              /\ n \in Networks
              /\ Bind(adr[n], item)
              /\ DoBinding(n) \/ Delete
<1>1. CASE Walk
  <2>1. CASE step.index \in alive /\ DoBinding(step.index)
    <3>1. step.index \in Networks
      BY <2>1 DEF Elements
    <3>2. Program[step.index].item \in ProgramRequests \/ Program[step.index].kind # "binding"
      BY <3>1, Constants
    <3> QED
      BY <1>1, <2>1, <3>1, <3>2 DEF Walk, DoBinding, DoContact, DoOutput, variableVars
  <2>2. CASE ~(step.index \in alive /\ DoBinding(step.index))
    BY <1>1, <2>2 DEF Walk, DoContact, DoOutput, variableVars
  <2> QED
    BY <2>1, <2>2
<1>2. CASE Delete
  BY <1>2 DEF Delete, Elements
<1>3. CASE Wake \/ Readdress \/ EndPass
  BY <1>3 DEF Wake, Readdress, EndPass, variableVars
<1>4. CASE Fetch \/ Commit \/ Radio \/ UNCHANGED allVars
  BY <1>4 DEF Fetch, Commit, Radio, programVars, allVars, variableVars
<1> QED
  BY <1>1, <1>2, <1>3, <1>4 DEF BindingsNext, ProcessTask

LEMMA BoundTypedStep ==
  ASSUME Elements, BoundTyped, [BindingsNext]_allVars
  PROVE  BoundTyped'
BY BoundChanges DEF BoundTyped, Bind

LEMMA CancelReadingValues ==
  ASSUME Values, NEW v \in Vars, CancelReading(v)
  PROVE  value' \in [Vars -> {0, 1}] /\ out' \in [Vars -> {0, 1}]
BY DEF Values, CancelReading

LEMMA ResultTyped ==
  ASSUME stationRssi \in {0, 1}, NEW item \in RequestItems
  PROVE  Result(item) \in {0, 1}
BY RequestShape DEF Result

LEMMA WalkedValues ==
  ASSUME Elements, Values, Walk
  PROVE  Values'
<1> DEFINE n == step.index
<1>1. CASE n \notin alive
  BY <1>1 DEF Walk, Values, variableVars
<1>2. CASE n \in alive
  <2>1. n \in Networks /\ adr[n] \in Vars
    BY <1>2 DEF Elements
  <2>2. CASE DoBinding(n)
    BY <2>1, <2>2, CancelReadingValues DEF DoBinding, Bind, Values, variableVars
  <2>3. CASE DoContact(n)
    BY <2>1, <2>3, CancelReadingValues DEF DoContact, Values
  <2>4. CASE DoOutput(n)
    BY <2>1, <2>4 DEF DoOutput, Values
  <2> QED
    BY <1>2, <2>2, <2>3, <2>4 DEF Walk
<1> QED
  BY <1>1, <1>2

LEMMA ValuesStep ==
  ASSUME StepInv, Elements, BoundTyped, Values, stationRssi \in {0, 1},
         [BindingsNext]_allVars
  PROVE  Values'
<1>1. CASE Fetch
  <2> DEFINE v == Variables[step.index]
  <2>1. v \in Vars
    BY <1>1, Constants DEF Fetch, Ready, StepInv
  <2>2. bound[v] # Unbound => Result(bound[v]) \in {0, 1}
    BY <2>1, ResultTyped, RequestsAssumption DEF BoundTyped
  <2>3. out[v] \in {0, 1}
    BY <2>1 DEF Values
  <2>4. value' \in [Vars -> {0, 1}]
    BY <1>1, <2>2, <2>3 DEF Fetch, FetchValue, Values
  <2> QED
    BY <1>1, <2>4 DEF Fetch, FetchValue, Values
<1>2. CASE Commit
  <2> DEFINE v == Variables[step.index]
  <2>1. v \in Vars
    BY <1>2, Constants DEF Commit, Ready, StepInv
  <2> QED
    BY <1>2, <2>1 DEF Commit, CommitChanges, Values
<1>3. CASE Delete
  BY <1>3, CancelReadingValues DEF Delete, Bind, Elements, Values
<1>4. CASE Wake \/ Readdress \/ EndPass \/ Radio \/ UNCHANGED allVars
  BY <1>4 DEF Wake, Readdress, EndPass, Radio, programVars, allVars, variableVars, Values
<1> QED
  BY <1>1, <1>2, <1>3, <1>4, WalkedValues DEF BindingsNext, ProcessTask

LEMMA HistoryStep ==
  ASSUME History, request \in RequestItems, [BindingsNext]_allVars
  PROVE  History'
<1>1. CASE Radio
  BY <1>1 DEF Radio, programVars, elementVars, History
<1>2. CASE ProcessTask
  BY <1>2 DEF ProcessTask, Fetch, Walk, Commit, EndPass, elementVars, History
<1>3. CASE Wake /\ UNCHANGED broken
  BY <1>3 DEF Wake, History
<1>4. CASE (Readdress \/ Delete) /\ UNCHANGED broken
  BY <1>4, EditsAssumption DEF Readdress, Delete, MayEdit, History
<1>5. CASE UNCHANGED allVars
  BY <1>5 DEF allVars, programVars, elementVars, History
<1> QED
  BY <1>1, <1>2, <1>3, <1>4, <1>5 DEF BindingsNext

LEMMA BindingsTypeInit ==
  ASSUME BindingsInit
  PROVE  BindingsTypeInv
<1>1. TypeOK /\ ScanHasSsid
  BY InitTyped DEF BindingsInit
<1>2. StepInv
  BY Constants DEF BindingsInit, StepInv, Places
<1>3. Elements
  BY Constants DEF BindingsInit, Elements, States
<1>4. BoundTyped /\ Values
  BY DEF BindingsInit, BoundTyped, Values
<1>5. History
  BY EditsAssumption DEF BindingsInit, History
<1> QED
  BY <1>1, <1>2, <1>3, <1>4, <1>5 DEF BindingsTypeInv

LEMMA BindingsTypeStep ==
  ASSUME BindingsTypeInv, [BindingsNext]_allVars
  PROVE  BindingsTypeInv'
<1>1. stationRssi \in {0, 1} /\ wakeup \in BOOLEAN /\ request \in RequestItems
  BY DEF BindingsTypeInv, TypeOK, Typed
<1>2. TypeOK' /\ ScanHasSsid'
  BY <1>1, ServiceStep, TypeStep DEF BindingsTypeInv
<1> QED
  BY <1>1, <1>2, StepStep, ElementsStep, BoundTypedStep, ValuesStep, HistoryStep
  DEF BindingsTypeInv

\* Whatever order the process task, the radio and the designer run in, every
\* variable has its type, the queue holds each request once, and the tables of
\* results stay within their limits.
THEOREM BindingsTyped == BindingsSpec => []BindingsTypeOK
<1>1. BindingsTypeInv => BindingsTypeOK
  BY DEF BindingsTypeInv, BindingsTypeOK, StepInv, Places, Elements, BoundTyped, Values,
         History
<1> QED
  BY <1>1, BindingsTypeInit, BindingsTypeStep, PTL DEF BindingsSpec
-----------------------------------------------------------------------------
(* Requests *)

\* What the steps do to the set of queued requests.
LEMMA AskQueues ==
  ASSUME Typed, NEW item, Ask(item)
  PROVE  \/ UNCHANGED requests
         \/ item \in ProgramRequests /\ ToSet(requests') = ToSet(requests) \cup {item}
<1>1. CASE CanAdd(requests, item)
  <2>1. item \in ProgramRequests /\ item \in RequestItems /\ requests' = Append(requests, item)
    BY <1>1, RequestsAssumption DEF Ask, Request, MayRequest
  <2> QED
    BY <2>1, AppendExact DEF Typed
<1>2. CASE ~CanAdd(requests, item)
  BY <1>2 DEF Ask, vars
<1> QED
  BY <1>1, <1>2

LEMMA CancelUnqueues ==
  ASSUME TypeOK, NEW item, Cancel(item)
  PROVE  ToSet(requests') = ToSet(requests) \ {item}
BY RemoveRequestExact DEF Cancel, TypeOK, Typed

LEMMA CancelReadingUnqueues ==
  ASSUME TypeOK, BoundTyped, NEW v \in Vars, CancelReading(v)
  PROVE  ToSet(requests') = ToSet(requests) \ {bound[v]}
<1>1. CASE bound[v] = Unbound
  <2>1. Unbound \notin ToSet(requests)
    BY RequestShape DEF TypeOK, Typed, ToSet
  <2>2. requests' = requests
    BY <1>1 DEF CancelReading, vars
  <2> QED
    BY <1>1, <2>1, <2>2
<1>2. CASE bound[v] # Unbound
  BY <1>2, CancelUnqueues DEF CancelReading
<1> QED
  BY <1>1, <1>2

LEMMA RadioQueue ==
  ASSUME Typed, Radio
  PROVE  /\ ToSet(requests') \subseteq ToSet(requests)
         /\ (PopRequest /\ requests # <<>>) \/ UNCHANGED requests
<1>1. CASE PopRequest /\ requests # <<>>
  <2>1. requests' = Tail(requests)
    BY <1>1 DEF PopRequest
  <2> QED
    BY <1>1, <2>1, TailExact DEF Typed
<1>2. CASE PopRequest /\ requests = <<>>
  BY <1>2 DEF PopRequest
<1>3. CASE ~PopRequest
  BY <1>3
  DEF Radio, FinishCall, WiFiTask, StationStep, ScannerStep, AccessPointStep, DriverEvent,
      ClearBreakFlags, RaiseBits, Forget, EnterWait, Timeout, StationStart, NoCredsWoken,
      StationCancel, StationFail, StationServe, MinWorktimeOver, MinWorktimeEvent,
      StationStop, StationUnregister, StationSettled, ReconnectDelayOver, GotIp, LinkDrops,
      StationDisconnected, ScanStart, ScanPoll, ScanTimeOver, ScanWoken, ScanPublish,
      ApStart, ApWoken, ApStop, ApClientJoins, ApClientLeaves, stationFrame, driverFrame,
      scanFrame, apFrame
<1> QED
  BY <1>1, <1>2, <1>3

Rebinds(v, item) ==
  /\ bound' = [bound EXCEPT ![v] = item]
  /\ ToSet(requests') = ToSet(requests) \ {bound[v]}

LEMMA QueueCases ==
  ASSUME BindingsTypeInv, [BindingsNext]_allVars
  PROVE  \/ ToSet(requests') \subseteq ToSet(requests) /\ UNCHANGED bound
         \/ /\ \E v \in Vars :
                 \E item \in {bound[v], Beacon(bound[v])} :
                   /\ item \in ProgramRequests /\ bound[v] \in ProgramRequests
                   /\ ToSet(requests') = ToSet(requests) \cup {item}
            /\ UNCHANGED bound
         \/ \E v \in Vars, item \in ProgramRequests \cup {Unbound} : Rebinds(v, item)
<1> USE DEF BindingsTypeInv
<1>0. Typed /\ TypeOK
  BY DEF TypeOK
<1>1. CASE Fetch
  <2> DEFINE v == Variables[step.index]
  <2>1. v \in Vars /\ UNCHANGED bound
    BY <1>1, Constants DEF Fetch, Ready, StepInv
  <2>2. CASE reading[v] /\ bound[v] # Unbound
    <3>1. Ask(bound[v])
      BY <1>1, <2>2 DEF Fetch, FetchValue
    <3> QED
      BY <1>0, <2>1, <3>1, AskQueues
  <2>3. CASE ~(reading[v] /\ bound[v] # Unbound)
    BY <1>1, <2>1, <2>3 DEF Fetch, FetchValue, vars
  <2> QED
    BY <2>2, <2>3
<1>2. CASE Commit
  <2> DEFINE v == Variables[step.index]
  <2>1. v \in Vars /\ UNCHANGED bound
    BY <1>2, Constants DEF Commit, Ready, StepInv
  <2>2. CASE writing[v] /\ bound[v].type = "Scanner"
    <3>1. bound[v] \in ProgramRequests
      BY <2>1, <2>2, UnboundShape DEF BoundTyped
    <3>2. CASE Ask(Beacon(bound[v]))
      BY <1>0, <2>1, <3>1, <3>2, AskQueues
    <3>3. CASE Cancel(Beacon(bound[v]))
      BY <1>0, <2>1, <3>3, CancelUnqueues
    <3> QED
      BY <1>2, <2>2, <3>2, <3>3 DEF Commit, CommitChanges
  <2>3. CASE ~(writing[v] /\ bound[v].type = "Scanner")
    BY <1>2, <2>1, <2>3 DEF Commit, CommitChanges, vars
  <2> QED
    BY <2>2, <2>3
<1>3. ASSUME NEW v \in Vars, NEW item \in ProgramRequests \cup {Unbound}, Bind(v, item)
      PROVE  Rebinds(v, item)
  BY <1>0, <1>3, CancelReadingUnqueues DEF Bind, Rebinds
<1>4. CASE ~UNCHANGED bound
  BY <1>3, <1>4, BoundChanges DEF Elements
<1>5. CASE Walk /\ UNCHANGED bound
  <2> DEFINE n == step.index
  <2>1. CASE n \notin alive
    BY <1>5, <2>1 DEF Walk, vars
  <2>2. CASE n \in alive /\ DoContact(n)
    <3>1. adr[n] \in Vars
      BY <2>2 DEF Elements
    <3> QED
      BY <1>0, <1>5, <2>2, <3>1, CancelReadingUnqueues DEF DoContact, vars
  <2>3. CASE n \in alive /\ DoBinding(n)
    <3>1. adr[n] \in Vars
      BY <2>3 DEF Elements
    <3> QED
      BY <1>0, <1>5, <2>3, <3>1, CancelReadingUnqueues DEF DoBinding, Bind, vars
  <2>4. CASE n \in alive /\ DoOutput(n)
    BY <1>5, <2>4 DEF DoOutput, vars
  <2> QED
    BY <1>5, <2>1, <2>2, <2>3, <2>4 DEF Walk
<1>6. CASE Delete /\ UNCHANGED bound
  <2>1. CASE \E n \in alive, item \in {Unbound} : Bind(adr[n], item)
    BY <1>3, <1>6, <2>1 DEF Elements, Rebinds
  <2>2. CASE UNCHANGED vars
    BY <1>6, <2>2 DEF vars
  <2> QED
    BY <1>6, <2>1, <2>2 DEF Delete, vars
<1>7. CASE Radio
  BY <1>0, <1>7, RadioQueue DEF Radio, programVars, variableVars
<1>8. CASE Wake \/ Readdress \/ EndPass \/ UNCHANGED allVars
  BY <1>8 DEF Wake, Readdress, EndPass, vars, variableVars, allVars, programVars
<1> QED
  BY <1>1, <1>2, <1>4, <1>5, <1>6, <1>7, <1>8 DEF BindingsNext, ProcessTask

\* What is queued is what some variable is bound to, or a beacon, at every step.
QueuedInv ==
  \A item \in ToSet(requests) :
    (item.type = "AccessPoint" => item.secure) => \E v \in Vars : bound[v] = item

\* Only the program's requests are queued.
QueueInv == ToSet(requests) \subseteq ProgramRequests

LEMMA QueuedStep ==
  ASSUME BindingsTypeInv, QueuedInv, QueueInv, [BindingsNext]_allVars
  PROVE  QueuedInv' /\ QueueInv'
<1>1. CASE ToSet(requests') \subseteq ToSet(requests) /\ UNCHANGED bound
  BY <1>1 DEF QueuedInv, QueueInv
<1>2. ASSUME NEW v \in Vars, NEW item \in {bound[v], Beacon(bound[v])},
             item \in ProgramRequests, bound[v] \in ProgramRequests,
             ToSet(requests') = ToSet(requests) \cup {item},
             UNCHANGED bound
      PROVE  QueuedInv' /\ QueueInv'
  <2>1. item # bound[v] => item.type = "AccessPoint" /\ ~item.secure
    BY <1>2, RequestShape, RequestsAssumption
  <2> QED
    BY <1>2, <2>1 DEF QueuedInv, QueueInv
<1>3. ASSUME NEW v \in Vars, NEW item, Rebinds(v, item)
      PROVE  QueuedInv' /\ QueueInv'
  <2>1. \A w \in Vars : w # v => bound'[w] = bound[w]
    BY <1>3 DEF Rebinds, BindingsTypeInv, BoundTyped
  <2>2. ToSet(requests') = ToSet(requests) \ {bound[v]}
    BY <1>3 DEF Rebinds
  <2> QED
    BY <2>1, <2>2 DEF QueuedInv, QueueInv
<1> QED
  BY <1>1, <1>2, <1>3, QueueCases

\* When the task sleeps, what is queued is what some variable is bound to, or
\* a beacon: ControllerVariable cancels the request of a binding before it
\* forgets the binding, and only a variable's binding is ever asked for.
THEOREM QueuedIsBoundTheorem == BindingsSpec => []QueuedIsBound
<1> DEFINE Inv == BindingsTypeInv /\ QueuedInv /\ QueueInv
<1>1. BindingsInit => Inv
  <2>1. ASSUME BindingsInit PROVE ToSet(requests) = {}
    BY <2>1 DEF BindingsInit, Init, ToSet
  <2> QED
    BY <2>1, BindingsTypeInit DEF QueuedInv, QueueInv
<1>2. Inv /\ [BindingsNext]_allVars => Inv'
  BY BindingsTypeStep, QueuedStep
<1>3. Inv => QueuedIsBound
  BY DEF QueuedInv, QueuedIsBound
<1> QED
  BY <1>1, <1>2, <1>3, PTL DEF BindingsSpec
-----------------------------------------------------------------------------
(* Bindings *)

\* Bindings are given another variable in Stop only: one that is active would
\* keep the variable it had (LogicProgram/Bindings, SetIoAdr).
ReaddressedInStop == <<"readdress", "Run">> \notin Edits

\* The networks that the walk of this pass has done, or that no walk is due to
\* do before the task waits.
Walked(n) ==
  \/ step.at \in {"commit", "end", "paused", "asleep"}
  \/ step.at = "walk" /\ n < step.index

\* In Stop every element is left in Stop.
StopInv ==
  mode = "Stop" => \A n \in alive : Walked(n) => fed[n] = "Stop" /\ states[n] = "Stop"

BoundInv == \A v \in Vars : bound[v] # Unbound => BindingOf(v, bound[v]) # {}

\* The network that a walk does is the only one that becomes walked.
LEMMA WalkGoesOn ==
  ASSUME StepInv, Walk, NEW m \in Networks, Walked(m)'
  PROVE  Walked(m) \/ m = step.index
<1>1. /\ Len(Program) \in Nat /\ m \in 1..Len(Program)
      /\ Advance(Len(Program), "commit") /\ step.at = "walk" /\ step.index \in Nat
  BY Constants DEF Walk, Ready, StepInv
<1>2. \/ /\ step'.at = "walk" /\ step'.index = step.index + 1
      \/ Len(Program) <= step.index
  BY <1>1, AdvanceSteps DEF StepInv, Places
<1> QED
  BY <1>1, <1>2 DEF Walked

\* What a walk leaves of the element it does.
LEMMA WalkedElement ==
  ASSUME Elements, StepInv, Walk
  PROVE  /\ \A m \in alive :
              m # step.index => states'[m] = states[m] /\ fed'[m] = fed[m]
         /\ step.index \in alive =>
              /\ fed'[step.index] = Fed(step.index)
              /\ mode = "Stop" => states'[step.index] = "Stop"
<1> DEFINE n == step.index
<1>1. CASE n \notin alive
  BY <1>1 DEF Walk
<1>2. CASE n \in alive
  <2>0. n \in Networks /\ alive \subseteq Networks
    BY <1>2 DEF Elements
  <2>1. ASSUME NEW state, Left(n, state)
        PROVE  /\ \A m \in alive : m # n => states'[m] = states[m] /\ fed'[m] = fed[m]
               /\ fed'[n] = Fed(n) /\ states'[n] = state
    BY <2>0, <2>1 DEF Left, Elements
  <2>2. mode = "Stop" => Fed(n) = "Stop" /\ Guarded(n)
    BY DEF Fed, Guarded
  <2>3. CASE DoBinding(n)
    <3>1. CASE ~Guarded(n) \/ Fed(n) = states[n]
      BY <1>2, <2>1, <2>2, <2>3, <3>1 DEF DoBinding
    <3>2. CASE ~(~Guarded(n) \/ Fed(n) = states[n])
      BY <1>2, <2>1, <2>2, <2>3, <3>2 DEF DoBinding
    <3> QED
      BY <3>1, <3>2
  <2>4. CASE DoContact(n)
    BY <1>2, <2>1, <2>2, <2>4 DEF DoContact
  <2>5. CASE DoOutput(n)
    BY <1>2, <2>1, <2>2, <2>5 DEF DoOutput
  <2> QED
    BY <1>2, <2>3, <2>4, <2>5 DEF Walk
<1> QED
  BY <1>1, <1>2

LEMMA StopStep ==
  ASSUME Elements, StepInv, StopInv, [BindingsNext]_allVars
  PROVE  StopInv'
<1>1. CASE Wake \/ Readdress
  BY <1>1 DEF Wake, Readdress, StopInv, Walked
<1>2. CASE Delete
  BY <1>2 DEF Delete, StopInv, Walked
<1>3. CASE Fetch
  <2>1. \A n \in alive : ~Walked(n) \/ step'.at # "fetch"
    BY <1>3 DEF Fetch, Ready, Walked
  <2>2. \A n \in Networks : ~Walked(n)'
    BY <1>3, Constants, AdvanceSteps DEF Fetch, Ready, Walked, StepInv, Places
  <2> QED
    BY <1>3, <2>2 DEF Fetch, elementVars, StopInv, Elements
<1>4. CASE Walk
  <2>1. UNCHANGED <<mode, alive>>
    BY <1>4 DEF Walk
  <2>2. ASSUME mode = "Stop", NEW n \in alive, Walked(n)'
        PROVE  fed'[n] = "Stop" /\ states'[n] = "Stop"
    <3>1. Walked(n) \/ n = step.index
      BY <1>4, <2>2, WalkGoesOn DEF Elements
    <3>2. Fed(n) = "Stop"
      BY <2>2 DEF Fed
    <3> QED
      BY <1>4, <2>2, <3>1, <3>2, WalkedElement DEF StopInv
  <2> QED
    BY <2>1, <2>2 DEF StopInv
<1>5. CASE Commit
  BY <1>5 DEF Commit, Ready, elementVars, StopInv, Walked
<1>6. CASE EndPass
  BY <1>6 DEF EndPass, Ready, elementVars, StopInv, Walked
<1>7. CASE Radio \/ UNCHANGED allVars
  BY <1>7 DEF Radio, programVars, elementVars, allVars, StopInv, Walked
<1> QED
  BY <1>1, <1>2, <1>3, <1>4, <1>5, <1>6, <1>7 DEF BindingsNext, ProcessTask

\* At rest in Stop nothing is fed.
LEMMA ReaddressedElements ==
  ASSUME ReaddressedInStop, Elements, StopInv, Readdress
  PROVE  /\ \A n \in alive : fed[n] = "Stop" /\ states[n] = "Stop"
<1>1. mode = "Stop"
  BY EditsAssumption DEF Readdress, MayEdit, ReaddressedInStop
<1> QED
  BY <1>1 DEF Readdress, MayEdit, AtRest, Ready, StopInv, Walked

\* Nothing that a variable is bound by changes.
LEMMA BoundKept ==
  ASSUME BoundInv, UNCHANGED <<bound, adr, alive>>,
         \A n \in alive : Program[n].kind = "binding" => states'[n] = states[n]
  PROVE  BoundInv'
BY DEF BoundInv, BindingOf

LEMMA BoundStep ==
  ASSUME ReaddressedInStop, BindingsTypeInv, StopInv, BoundInv, [BindingsNext]_allVars
  PROVE  BoundInv'
<1> USE DEF BindingsTypeInv
<1>1. CASE Readdress
  <2>1. \A v \in Vars : BindingOf(v, bound[v]) = {}
    BY <1>1, ReaddressedElements DEF BindingOf
  <2> QED
    BY <1>1, <2>1 DEF Readdress, variableVars, BoundInv
<1>2. CASE Delete
  <2>1. PICK n \in alive :
          /\ alive' = alive \ {n}
          /\ IF Program[n].kind = "binding" /\ states[n] = "Active"
             THEN Bind(adr[n], Unbound) ELSE UNCHANGED <<vars, bound, value, out>>
    BY <1>2 DEF Delete
  <2>2. n \in Networks /\ adr[n] \in Vars /\ UNCHANGED <<adr, states>>
    BY <1>2, <2>1 DEF Delete, Elements
  <2>3. ASSUME NEW v \in Vars, bound'[v] # Unbound
        PROVE  BindingOf(v, bound[v])' # {}
    <3>1. bound'[v] = bound[v] /\ (v = adr[n] => n \notin BindingOf(v, bound[v]))
      BY <2>1, <2>2, <2>3 DEF Bind, BoundTyped, BindingOf
    <3>2. n \notin BindingOf(v, bound[v])
      BY <3>1 DEF BindingOf
    <3>3. PICK m : m \in BindingOf(v, bound[v])
      BY <2>3, <3>1 DEF BoundInv
    <3> QED
      BY <2>1, <2>2, <3>1, <3>2, <3>3 DEF BindingOf
  <2> QED
    BY <2>3 DEF BoundInv
<1>3. CASE Walk
  <2> DEFINE n == step.index
  <2>1. UNCHANGED <<adr, alive>>
    BY <1>3 DEF Walk
  <2>2. \A m \in alive : m # n => states'[m] = states[m]
    BY <1>3, WalkedElement
  <2>3. CASE n \notin alive
    <3>1. UNCHANGED bound
      BY <1>3, <2>3 DEF Walk, variableVars
    <3> QED
      BY <2>1, <2>2, <2>3, <3>1, BoundKept
  <2>4. CASE n \in alive /\ Program[n].kind # "binding"
    <3>1. UNCHANGED bound
      BY <1>3, <2>4 DEF Walk, DoContact, DoOutput
    <3> QED
      BY <2>1, <2>2, <2>4, <3>1, BoundKept
  <2>5. CASE n \in alive /\ Program[n].kind = "binding"
    <3>1. DoBinding(n) /\ n \in Networks /\ adr[n] \in Vars /\ Fed(n) \in States
      BY <1>3, <2>5, FedTyped DEF Walk, Elements
    <3>2. CASE ~Guarded(n) \/ Fed(n) = states[n]
      <4>1. states'[n] = states[n] /\ UNCHANGED bound
        BY <3>1, <3>2 DEF DoBinding, Left, variableVars, Elements
      <4> QED
        BY <2>1, <2>2, <2>5, <4>1, BoundKept
    <3>3. CASE ~(~Guarded(n) \/ Fed(n) = states[n])
      <4> DEFINE item == IF Fed(n) = "Active" THEN Program[n].item ELSE Unbound
      <4>1. states'[n] = Fed(n) /\ Fed(n) # states[n]
        BY <3>1, <3>3 DEF DoBinding, Left, Elements
      <4>2. bound' = [bound EXCEPT ![adr[n]] = item]
        BY <3>1, <3>3 DEF DoBinding, Bind
      <4>3. bound'[adr[n]] = item /\ \A v \in Vars : v # adr[n] => bound'[v] = bound[v]
        BY <3>1, <4>2 DEF BoundTyped
      <4>4. ASSUME NEW v \in Vars, v = adr[n], bound'[v] # Unbound
            PROVE  BindingOf(v, bound[v])' # {}
        <5>1. Fed(n) = "Active" /\ item = Program[n].item
          BY <4>3, <4>4
        <5>2. PICK k : k = n
          OBVIOUS
        <5>3. /\ k \in alive' /\ Program[k].kind = "binding" /\ adr'[k] = v
              /\ states'[k] = "Active" /\ Program[k].item = bound'[v]
          BY <2>1, <2>5, <4>1, <4>3, <4>4, <5>1, <5>2
        <5>4. k \in BindingOf(v, bound[v])'
          BY <5>3 DEF BindingOf
        <5> QED
          BY <5>4
      <4> HIDE DEF item
      <4>5. ASSUME NEW v \in Vars, v # adr[n], bound'[v] # Unbound
            PROVE  BindingOf(v, bound[v])' # {}
        <5>1. PICK m : m \in BindingOf(v, bound[v])
          BY <4>3, <4>5 DEF BoundInv
        <5>2. m \in alive /\ m # n
          BY <4>5, <5>1 DEF BindingOf
        <5> QED
          BY <2>1, <2>2, <4>3, <4>5, <5>1, <5>2 DEF BindingOf
      <4> QED
        BY <4>4, <4>5 DEF BoundInv
    <3> QED
      BY <3>2, <3>3
  <2> QED
    BY <2>3, <2>4, <2>5
<1>4. CASE Fetch \/ Commit \/ EndPass \/ Radio \/ UNCHANGED allVars
  <2>1. UNCHANGED <<bound, adr, alive, states>>
    BY <1>4
    DEF Fetch, Commit, EndPass, Radio, elementVars, variableVars, programVars, allVars
  <2> QED
    BY <2>1, BoundKept
<1>5. CASE Wake
  BY <1>5, BoundKept DEF Wake, variableVars
<1> QED
  BY <1>1, <1>2, <1>3, <1>4, <1>5 DEF BindingsNext, ProcessTask

\* A variable that is bound when the task sleeps has an active binding that says
\* so: the last binding that leaves Active, and the one that is deleted, unbind
\* it, whatever bindings share it.
THEOREM BoundByActiveTheorem ==
  ASSUME ReaddressedInStop
  PROVE  BindingsSpec => []BoundByActive
<1> DEFINE Inv == BindingsTypeInv /\ StopInv /\ BoundInv
<1>1. BindingsInit => Inv
  BY BindingsTypeInit DEF BindingsInit, StopInv, BoundInv, BoundTyped
<1>2. Inv /\ [BindingsNext]_allVars => Inv'
  BY BindingsTypeStep, StopStep, BoundStep DEF BindingsTypeInv
<1>3. Inv => BoundByActive
  BY DEF BoundInv, BoundByActive
<1> QED
  BY <1>1, <1>2, <1>3, PTL DEF BindingsSpec
-----------------------------------------------------------------------------
(* The queue has room *)

\* The array of requests is as long as the program has different requests; a
\* longer program may find it full, and what it asks for then is dropped.
ProgramFits ==
  /\ IsFiniteSet(ProgramRequests)
  /\ Cardinality(ProgramRequests) <= RequestsLimit

\* A queue that holds each request once is no longer than its requests.
LEMMA LengthOfQueue ==
  ASSUME NEW S, IsFiniteSet(S), NEW s \in Seq(S), WellFormedQueue(s)
  PROVE  Len(s) <= Cardinality(S)
<1>1. Len(s) \in Nat /\ s \in [1..Len(s) -> S]
  OBVIOUS
<1>2. s \in Injection(1..Len(s), S)
  BY <1>1 DEF WellFormedQueue, Injection, IsInjective
<1>3. Cardinality(1..Len(s)) <= Cardinality(S)
  BY <1>2, FS_Injection
<1>4. Cardinality(1..Len(s)) = Len(s)
  BY <1>1, FS_Interval
<1> QED
  BY <1>3, <1>4

LEMMA QueueHasRoom ==
  ASSUME ProgramFits, TypeOK, QueueInv, NEW item \in ProgramRequests,
         item \notin ToSet(requests)
  PROVE  CanAdd(requests, item)
<1> DEFINE S == ProgramRequests \ {item}
<1>1. IsFiniteSet(S) /\ Cardinality(S) = Cardinality(ProgramRequests) - 1
      /\ Cardinality(ProgramRequests) \in Nat
  BY FS_RemoveElement, FS_CardinalityType DEF ProgramFits
<1>2. requests \in Seq(S)
  <2>1. \A i \in 1..Len(requests) : requests[i] \in S
    BY DEF QueueInv, ToSet
  <2>2. requests \in Seq(RequestItems)
    BY DEF TypeOK, Typed
  <2> QED
    BY <2>1, <2>2
<1>3. Len(requests) <= Cardinality(S) /\ Len(requests) \in Nat
  BY <1>1, <1>2, LengthOfQueue DEF TypeOK
<1> QED
  BY <1>1, <1>3, RequestsLimitAssumption DEF CanAdd, ProgramFits
-----------------------------------------------------------------------------
(* A scan goes on *)

GoesOn(item) == ScanAsked(item) \/ item \in broken

\* Only a scan that is about to publish its result has been cancelled ...
CanceledInv == canceled => pc = "scan_publish"

\* ... and it is broken, unless it was asked for anew, or is being called for.
BreakInv ==
  canceled => \/ request \in broken \/ request \in ToSet(requests)
              \/ call["ladder"] # Idle

LEMMA CanceledStep ==
  ASSUME CanceledInv, [Next]_vars
  PROVE  CanceledInv'
BY Steps
DEF Request, Cancel, ClearBreakFlags, RaiseBits, Forget, ChangeSettings,
      ProcessTaskWakes, PopRequest, EnterWait, Timeout, StationStart, NoCredsWoken,
      StationCancel, StationFail, StationServe, MinWorktimeOver, MinWorktimeEvent,
      StationStop, StationUnregister, StationSettled, ReconnectDelayOver, GotIp,
      LinkDrops, StationDisconnected, ScanStart, ScanPoll, ScanTimeOver, ScanWoken,
      ScanPublish, ApStart, ApWoken, ApStop, ApClientJoins, ApClientLeaves,
      stationFrame, driverFrame, scanFrame, apFrame, callerFrame, scanVars, vars,
      Goto, CanceledInv

\* A step of the radio that neither takes a request nor ends a scan.
LEMMA RadioRest ==
  ASSUME wakeup \in BOOLEAN, Radio, ~PopRequest, ~ScanPublish
  PROVE  /\ UNCHANGED <<request, requests>>
         /\ pc \in ScanSession => pc' \in ScanSession
         /\ wakeup => wakeup'
BY DEF Radio, FinishCall, WiFiTask, StationStep, ScannerStep, AccessPointStep, DriverEvent,
      ClearBreakFlags, RaiseBits, Forget, EnterWait, Timeout, StationStart, NoCredsWoken,
      StationCancel, StationFail, StationServe, MinWorktimeOver, MinWorktimeEvent,
      StationStop, StationUnregister, StationSettled, ReconnectDelayOver, GotIp, LinkDrops,
      StationDisconnected, ScanStart, ScanPoll, ScanTimeOver, ScanWoken,
      ApStart, ApWoken, ApStop, ApClientJoins, ApClientLeaves, stationFrame, driverFrame,
      scanFrame, apFrame, callerFrame, stationVars, scanVars, Goto, ScanSession

\* The process task and the designer change the service by the first step of
\* a call only.
LEMMA CallStarts ==
  ASSUME TypeOK, Fetch \/ Walk \/ Commit \/ EndPass \/ Delete \/ Readdress
  PROVE  /\ UNCHANGED <<request, pc, canceled, wakeup>>
         /\ UNCHANGED vars \/ call'["ladder"] # Idle
<1> DEFINE Started == /\ UNCHANGED <<request, pc, canceled, wakeup>>
                      /\ UNCHANGED vars \/ call'["ladder"] # Idle
<1>1. ASSUME NEW item, Cancel(item)
      PROVE  Started
  BY <1>1 DEF Cancel, callerFrame, Idle, TypeOK, Typed, Callers
<1>2. ASSUME NEW item, Ask(item)
      PROVE  Started
  BY <1>2 DEF Ask, Request, callerFrame, Idle, TypeOK, Typed, Callers, vars, scanVars
<1>3. UNCHANGED vars => Started
  BY DEF vars, scanVars
<1>4. ASSUME NEW v, CancelReading(v)
      PROVE  Started
  BY <1>1, <1>3, <1>4 DEF CancelReading
<1>5. CASE Fetch
  BY <1>2, <1>3, <1>5 DEF Fetch, FetchValue
<1>6. CASE Walk
  BY <1>3, <1>4, <1>6 DEF Walk, DoBinding, DoContact, DoOutput, Bind
<1>7. CASE Commit
  BY <1>1, <1>2, <1>3, <1>7 DEF Commit, CommitChanges
<1>8. CASE Delete
  <2>1. PICK n \in alive :
          IF Program[n].kind = "binding" /\ states[n] = "Active"
          THEN Bind(adr[n], Unbound) ELSE UNCHANGED <<vars, bound, value, out>>
    BY <1>8 DEF Delete
  <2> QED
    BY <1>3, <1>4, <2>1 DEF Bind
<1>9. CASE EndPass \/ Readdress
  BY <1>3, <1>9 DEF EndPass, Readdress
<1> QED
  BY <1>5, <1>6, <1>7, <1>8, <1>9 DEF Started

LEMMA BreakStep ==
  ASSUME BindingsTypeInv, CanceledInv, BreakInv, [BindingsNext]_allVars
  PROVE  BreakInv'
<1>0. TypeOK /\ wakeup \in BOOLEAN
  BY DEF BindingsTypeInv, TypeOK, Typed
<1>1. CASE Radio
  <2>1. CASE PopRequest
    BY <2>1 DEF PopRequest, scanVars, CanceledInv, BreakInv
  <2>2. CASE ScanPublish
    BY <2>2 DEF ScanPublish, BreakInv
  <2>3. CASE ~PopRequest /\ ~ScanPublish
    <3>1. request' = request
      BY <1>0, <1>1, <2>3, RadioRest
    <3> QED
      BY <1>1, <3>1 DEF Radio, BreakInv
  <2> QED
    BY <2>1, <2>2, <2>3
<1>2. CASE ProcessTask
  <2>1. /\ UNCHANGED <<request, canceled>>
        /\ UNCHANGED vars \/ call'["ladder"] # Idle
    BY <1>0, <1>2, CallStarts DEF ProcessTask
  <2> QED
    BY <1>2, <2>1 DEF ProcessTask, BreakInv, vars, callVars
<1>3. CASE (Delete \/ Readdress) /\ UNCHANGED broken
  <2>1. /\ UNCHANGED <<request, canceled>>
        /\ UNCHANGED vars \/ call'["ladder"] # Idle
    BY <1>0, <1>3, CallStarts
  <2> QED
    BY <1>3, <2>1 DEF BreakInv, vars, callVars
<1>4. CASE Wake /\ UNCHANGED broken
  BY <1>4 DEF Wake, BreakInv, callVars, scanVars
<1>5. CASE UNCHANGED allVars
  BY <1>5 DEF allVars, vars, BreakInv, callVars, scanVars
<1> QED
  BY <1>1, <1>2, <1>3, <1>4, <1>5 DEF BindingsNext

\* What goes on stays so while the radio works: a queued scan is served, one
\* that is served ends by waking the task or was broken.
LEMMA RadioGoesOn ==
  ASSUME BindingsTypeInv, CanceledInv, BreakInv, Radio, NEW item \in RequestItems,
         item.type = "Scanner", GoesOn(item)
  PROVE  GoesOn(item)'
<1>0. Typed /\ wakeup \in BOOLEAN
  BY DEF BindingsTypeInv, TypeOK, Typed
<1>1. item \in broken => item \in broken'
  BY DEF Radio
<1>2. CASE PopRequest
  <2>1. wakeup' = wakeup /\ pc = "pop" /\ request'.type = "Scanner" => pc' = "scan_start"
    BY <1>2 DEF PopRequest, Goto
  <2>2. CASE requests = <<>>
    BY <1>1, <1>2, <2>2 DEF GoesOn, ScanAsked, PopRequest, ScanSession, ToSet
  <2>3. CASE requests # <<>>
    <3>1. request' = Head(requests) /\ requests' = Tail(requests) /\ wakeup' = wakeup
          /\ pc = "pop"
      BY <1>2, <2>3 DEF PopRequest
    <3>2. item \in ToSet(requests) => item \in ToSet(requests') \/ item = request'
      BY <1>0, <2>3, <3>1, TailExact DEF Typed
    <3>3. item = request' => pc' = "scan_start"
      BY <1>2 DEF PopRequest, Goto
    <3> QED
      BY <1>1, <3>1, <3>2, <3>3 DEF GoesOn, ScanAsked, ScanSession
  <2> QED
    BY <2>2, <2>3
<1>3. CASE ScanPublish /\ ~PopRequest
  <2>1. /\ UNCHANGED <<request, requests>>
        /\ wakeup => wakeup'
        /\ ~canceled => wakeup'
    BY <1>0, <1>3 DEF ScanPublish, scanFrame
  <2>2. call' = call /\ canceled' = FALSE
    BY <1>3 DEF ScanPublish, scanFrame, callVars
  <2>3. pc = "scan_publish" /\ pc' = "pop"
    BY <1>3 DEF ScanPublish, Goto
  <2>4. call["ladder"] = Idle
    BY <1>3, <2>2, <2>3
    DEF Radio, WiFiTask, IdlePriorityRuns, FinishCall, ClearBreakFlags, RaiseBits, Forget,
        callerFrame, Timeout, DriverEvent, GotIp, LinkDrops, StationDisconnected,
        ApClientJoins, ApClientLeaves, driverFrame
  <2>5. canceled => request \in broken \/ request \in ToSet(requests)
    BY <2>4 DEF BreakInv
  <2> QED
    BY <1>1, <2>1, <2>5 DEF GoesOn, ScanAsked
<1>4. CASE ~PopRequest /\ ~ScanPublish
  BY <1>0, <1>1, <1>4, RadioRest DEF GoesOn, ScanAsked
<1> QED
  BY <1>2, <1>3, <1>4

\* It stays so when the process task asks for more, or for less of another kind.
LEMMA TaskGoesOn ==
  ASSUME TypeOK, ProcessTask, NEW item, GoesOn(item),
         item \in ToSet(requests) => item \in ToSet(requests')
  PROVE  GoesOn(item)'
<1>1. UNCHANGED <<request, pc, wakeup>>
  BY CallStarts DEF ProcessTask
<1> QED
  BY <1>1 DEF GoesOn, ScanAsked, ProcessTask

\* The variables that this pass has fetched, up to the next one.
Fetched(v) ==
  \/ step.at \in {"walk", "commit", "end", "asleep"}
  \/ step.at = "fetch" /\ \E i \in 1..(step.index - 1) : Variables[i] = v

Reads(n, v) == Program[n].kind = "contact" /\ adr[n] = v /\ fed[n] = "Active"

\* What the rail feeds has always been walked, or nothing is bound yet that
\* the pass does not come back to.
RailInv ==
  \A n \in alive : Program[n].input = Rail =>
    /\ fed[n] = "Stop" => states[n] = "Stop"
    /\ fed[n] = "Passive" =>
         /\ ~Walked(n)
         /\ changed \/ \A v \in Vars : bound[v] = Unbound

\* A contact that is fed has left its variable to be read since the variable
\* was fetched.
ReadInv ==
  \A n \in alive, v \in Vars :
    Reads(n, v) /\ (Walked(n) \/ ~Fetched(v)) => reading[v]

\* In a pass that has changed nothing so far, the scan of a variable that is
\* read, or about to be, goes on.
Wanted(v) == reading[v] \/ \E n \in alive : Reads(n, v)
AskedInv ==
  ~changed =>
    \A v \in Vars :
      Fetched(v) /\ bound[v].type = "Scanner" /\ Wanted(v) => GoesOn(bound[v])

\* The fetch of one variable.
LEMMA FetchGoesOn ==
  ASSUME StepInv, Fetch, NEW v \in Vars
  PROVE  /\ v = Variables[step.index] => Fetched(v)'
         /\ v # Variables[step.index] => (Fetched(v)' <=> Fetched(v))
         /\ \A n \in Networks : ~Walked(n) /\ ~Walked(n)'
<1>1. /\ step.at = "fetch" /\ step.index \in Nat \ {0} /\ step.index <= Len(Variables)
      /\ Len(Variables) \in Nat
      /\ Advance(Len(Variables), "walk")
  BY Constants DEF Fetch, Ready, StepInv
<1>2. \/ step'.at = "fetch" /\ step'.index = step.index + 1
      \/ step'.at = "walk" /\ step'.index = 1 /\ step.index = Len(Variables)
  BY <1>1, AdvanceSteps DEF StepInv, Places
<1>3. \A n \in Networks : ~Walked(n) /\ ~Walked(n)'
  BY <1>1, <1>2, Constants DEF Walked
<1>4. CASE step'.at = "fetch" /\ step'.index = step.index + 1
  <2>1. step'.index - 1 = step.index
    BY <1>1, <1>4
  <2>2. Fetched(v)' <=> \E i \in 1..step.index : Variables[i] = v
    BY <1>4, <2>1 DEF Fetched
  <2>3. Fetched(v) <=> \E i \in 1..(step.index - 1) : Variables[i] = v
    BY <1>1 DEF Fetched
  <2>4. \A i \in 1..step.index : i \in 1..(step.index - 1) \/ i = step.index
    BY <1>1
  <2>5. step.index \in 1..step.index /\ 1..(step.index - 1) \subseteq 1..step.index
    BY <1>1
  <2> QED
    BY <1>3, <2>2, <2>3, <2>4, <2>5
<1>5. CASE step'.at = "walk" /\ step.index = Len(Variables)
  <2>1. PICK i \in 1..Len(Variables) : Variables[i] = v
    BY Constants, ProgramAssumption DEF Vars, ToSet
  <2>2. Fetched(v)'
    BY <1>5 DEF Fetched
  <2>3. v # Variables[step.index] => i \in 1..(step.index - 1)
    BY <1>1, <1>5, <2>1
  <2>4. v # Variables[step.index] => Fetched(v)
    BY <1>1, <2>1, <2>3 DEF Fetched
  <2> QED
    BY <1>3, <2>2, <2>4
<1> QED
  BY <1>2, <1>4, <1>5

\* The walk of one network.
LEMMA LeftQuiet ==
  ASSUME Elements, NEW n \in Networks, NEW state, Left(n, state)
  PROVE  /\ changed => changed'
         /\ ~changed' => /\ ~changed /\ state = states[n]
                         /\ Program[n].input # Rail => Fed(n) = fed[n]
BY DEF Left, Elements

\* What the rail feeds is never Passive.
LEMMA RailFeeds ==
  ASSUME NEW n, Program[n].input = Rail
  PROVE  Fed(n) = IF mode = "Stop" THEN "Stop" ELSE "Active"
BY DEF Fed

\* A walk that changes nothing leaves the service alone, and lets no variable
\* be read that was not.
LEMMA QuietWalk ==
  ASSUME BindingsTypeInv, RailInv, Walk, ~changed'
  PROVE  /\ ~changed /\ UNCHANGED <<vars, bound>>
         /\ \A v \in Vars : Wanted(v)' => Wanted(v) \/ bound[v] = Unbound
<1> DEFINE n == step.index
<1> USE DEF BindingsTypeInv
<1>0. UNCHANGED <<adr, alive>> /\ alive \subseteq Networks /\ changed \in BOOLEAN
  BY DEF Walk, Elements
<1>1. CASE n \notin alive
  <2>1. UNCHANGED <<changed, vars, bound, reading, fed>>
    BY <1>1 DEF Walk, variableVars
  <2> QED
    BY <1>0, <2>1 DEF Wanted, Reads
<1>2. CASE n \in alive
  <2>0. n \in Networks /\ adr[n] \in Vars /\ fed[n] \in States /\ states[n] \in States
    BY <1>2 DEF Elements
  <2>1. /\ \A m \in alive : m # n => fed'[m] = fed[m]
        /\ fed'[n] = Fed(n)
    BY <1>2, WalkedElement
  <2>2. CASE DoBinding(n) /\ Program[n].kind = "binding"
    <3>1. ~Guarded(n) \/ Fed(n) = states[n]
      BY <2>0, <2>2, LeftQuiet DEF DoBinding
    <3>2. ~changed /\ UNCHANGED <<vars, bound, reading>>
      BY <2>0, <2>2, <3>1, LeftQuiet DEF DoBinding, variableVars
    <3>3. \A m \in alive, v \in Vars : Reads(m, v)' => Reads(m, v)
      BY <1>0, <2>1, <2>2 DEF Reads
    <3> QED
      BY <1>0, <3>2, <3>3 DEF Wanted
  <2>3. CASE DoOutput(n) /\ Program[n].kind = "output"
    <3>1. ~changed /\ UNCHANGED <<vars, bound, reading>>
      BY <2>0, <2>3, LeftQuiet DEF DoOutput
    <3>2. \A m \in alive, v \in Vars : Reads(m, v)' => Reads(m, v)
      BY <1>0, <2>1, <2>3 DEF Reads
    <3> QED
      BY <1>0, <3>1, <3>2 DEF Wanted
  <2>4. CASE DoContact(n) /\ Program[n].kind = "contact"
    <3> DEFINE state == IF ~Guarded(n) THEN states[n]
                        ELSE IF Fed(n) # "Active" THEN Fed(n)
                        ELSE IF value[adr[n]] # 0 THEN "Active" ELSE "Passive"
    <3>0. PICK t : t = state
      OBVIOUS
    <3>1. Left(n, t)
      BY <2>4, <3>0 DEF DoContact
    <3>2. ~changed /\ t = states[n] /\ (Program[n].input # Rail => Fed(n) = fed[n])
      BY <2>0, <3>1, LeftQuiet
    <3>3. ~(FedChanged(n) /\ Fed(n) = "Passive")
      BY <3>2, RailFeeds DEF FedChanged
    <3>4. UNCHANGED <<vars, bound>>
      BY <2>4, <3>3 DEF DoContact
    <3>5. reading' = [reading EXCEPT ![adr[n]] = @ \/ Fed(n) = "Active"]
      BY <2>4 DEF DoContact
    <3>6. ASSUME Fed(n) = "Active"
          PROVE  fed[n] = "Active" \/ \A v \in Vars : bound[v] = Unbound
      <4>1. CASE Program[n].input # Rail
        BY <3>2, <3>6, <4>1
      <4>2. CASE Program[n].input = Rail /\ fed[n] = "Stop"
        <5>1. states[n] = "Stop"
          BY <1>2, <4>2 DEF RailInv
        <5>2. t # "Stop"
          BY <3>0, <3>6, <5>1 DEF Guarded
        <5> QED
          BY <3>2, <5>1, <5>2
      <4>3. CASE Program[n].input = Rail /\ fed[n] = "Passive"
        BY <1>2, <3>2, <4>3 DEF RailInv
      <4> QED
        BY <2>0, <4>1, <4>2, <4>3 DEF States
    <3>7. ASSUME NEW v \in Vars, Wanted(v)'
          PROVE  Wanted(v) \/ bound[v] = Unbound
      <4>1. CASE v = adr[n] /\ Fed(n) = "Active"
        <5>1. fed[n] = "Active" => Reads(n, v)
          BY <2>4, <4>1 DEF Reads
        <5> QED
          BY <1>2, <3>6, <4>1, <5>1 DEF Wanted
      <4>2. CASE ~(v = adr[n] /\ Fed(n) = "Active")
        <5>1. reading'[v] => reading[v]
          BY <2>0, <3>5, <4>2 DEF Values
        <5>2. \A m \in alive : Reads(m, v)' => Reads(m, v)
          BY <1>0, <2>1, <4>2 DEF Reads
        <5> QED
          BY <1>0, <3>7, <5>1, <5>2 DEF Wanted
      <4> QED
        BY <4>1, <4>2
    <3> QED
      BY <3>2, <3>4, <3>7
  <2> QED
    BY <1>2, <2>2, <2>3, <2>4 DEF Walk
<1> QED
  BY <1>1, <1>2

\* Changes are only forgotten at the end of a pass.
LEMMA WalkChanged ==
  ASSUME Elements, Walk
  PROVE  changed => changed'
<1>1. CASE step.index \notin alive
  BY <1>1 DEF Walk
<1>2. CASE step.index \in alive
  BY <1>2, LeftQuiet DEF Walk, Elements, DoBinding, DoContact, DoOutput
<1> QED
  BY <1>1, <1>2

LEMMA RailStep ==
  ASSUME BindingsTypeInv, RailInv, [BindingsNext]_allVars
  PROVE  RailInv'
<1> USE DEF BindingsTypeInv
<1>1. CASE Wake \/ Readdress \/ Delete
  BY <1>1 DEF Wake, Readdress, Delete, MayEdit, AtRest, Ready, Walked, RailInv
<1>2. CASE Fetch
  BY <1>2, FetchGoesOn DEF Fetch, elementVars, RailInv, Elements, Walked
<1>3. CASE Walk
  <2>1. UNCHANGED alive /\ alive \subseteq Networks /\ changed \in BOOLEAN
    BY <1>3 DEF Walk, Elements
  <2>2. changed' \/ UNCHANGED bound
    BY <1>3, QuietWalk
  <2>3. changed => changed'
    BY <1>3, WalkChanged
  <2>4. ASSUME NEW m \in alive, Program[m].input = Rail
        PROVE  /\ fed'[m] = "Stop" => states'[m] = "Stop"
               /\ fed'[m] = "Passive" =>
                    /\ ~Walked(m)'
                    /\ changed' \/ \A v \in Vars : bound'[v] = Unbound
    <3>1. CASE m = step.index
      BY <1>3, <2>4, <3>1, WalkedElement, RailFeeds
    <3>2. CASE m # step.index
      <4>1. fed'[m] = fed[m] /\ states'[m] = states[m]
        BY <1>3, <3>2, WalkedElement
      <4>2. Walked(m)' => Walked(m)
        BY <1>3, <2>1, <3>2, WalkGoesOn
      <4> QED
        BY <2>2, <2>3, <2>4, <4>1, <4>2 DEF RailInv
    <3> QED
      BY <3>1, <3>2
  <2> QED
    BY <2>1, <2>4 DEF RailInv
<1>4. CASE Commit
  BY <1>4 DEF Commit, Ready, elementVars, Walked, RailInv
<1>5. CASE EndPass
  BY <1>5 DEF EndPass, Ready, elementVars, Walked, RailInv
<1>6. CASE Radio \/ UNCHANGED allVars
  BY <1>6 DEF Radio, programVars, elementVars, variableVars, allVars, Walked, RailInv
<1> QED
  BY <1>1, <1>2, <1>3, <1>4, <1>5, <1>6 DEF BindingsNext, ProcessTask

LEMMA ReadStep ==
  ASSUME ReaddressedInStop, BindingsTypeInv, StopInv, ReadInv, [BindingsNext]_allVars
  PROVE  ReadInv'
<1> USE DEF BindingsTypeInv
<1>1. CASE Wake
  BY <1>1 DEF Wake, Ready, variableVars, Walked, Reads, ReadInv
<1>2. CASE Readdress
  <2>1. \A n \in alive, v \in Vars : ~Reads(n, v)'
    BY <1>2, ReaddressedElements DEF Readdress, Reads
  <2> QED
    BY <1>2, <2>1 DEF Readdress, ReadInv
<1>3. CASE Delete
  <2>1. \A n \in alive : Walked(n)
    BY <1>3 DEF Delete, MayEdit, AtRest, Ready, Walked
  <2>2. /\ alive' \subseteq alive
        /\ \A n \in alive, v \in Vars : Reads(n, v)' => Reads(n, v)
        /\ UNCHANGED reading
    BY <1>3 DEF Delete, Reads
  <2> QED
    BY <2>1, <2>2 DEF ReadInv
<1>4. CASE Fetch
  <2>1. UNCHANGED <<alive, adr, fed>> /\ alive \subseteq Networks
    BY <1>4 DEF Fetch, elementVars, Elements
  <2>2. ASSUME NEW n \in alive, NEW v \in Vars, Reads(n, v)', Walked(n)' \/ ~Fetched(v)'
        PROVE  reading'[v]
    <3>1. ~Walked(n)'
      BY <1>4, <2>1, FetchGoesOn
    <3>2. ~Fetched(v) /\ v # Variables[step.index]
      BY <1>4, <2>2, <3>1, FetchGoesOn
    <3>3. Reads(n, v)
      BY <2>1, <2>2 DEF Reads
    <3>4. reading[v]
      BY <3>2, <3>3 DEF ReadInv
    <3> QED
      BY <1>4, <3>2, <3>4 DEF Fetch, FetchValue, Values
  <2> QED
    BY <2>1, <2>2 DEF ReadInv
<1>5. CASE Walk
  <2>1. UNCHANGED <<alive, adr>> /\ alive \subseteq Networks
    BY <1>5 DEF Walk, Elements
  <2>2. \A v \in Vars : reading[v] => reading'[v]
    BY <1>5 DEF Walk, DoBinding, DoContact, DoOutput, variableVars, Values
  <2>3. \A v \in Vars : Fetched(v) /\ Fetched(v)'
    <3>1. step.at = "walk" /\ step'.at \in {"walk", "commit"}
      BY <1>5 DEF Walk, Ready, Advance, StepInv
    <3> QED
      BY <3>1 DEF Fetched
  <2>4. ASSUME NEW n \in alive, NEW v \in Vars, Reads(n, v)', Walked(n)'
        PROVE  reading'[v]
    <3>1. CASE n = step.index
      <4>1. Program[n].kind = "contact" /\ adr[n] = v /\ fed'[n] = Fed(n) /\ Fed(n) = "Active"
        BY <1>5, <2>1, <2>4, <3>1, WalkedElement DEF Reads
      <4>2. DoContact(n)
        BY <1>5, <3>1, <4>1 DEF Walk
      <4> QED
        BY <4>1, <4>2 DEF DoContact, Values
    <3>2. CASE n # step.index
      <4>1. Walked(n)
        BY <1>5, <2>1, <2>4, <3>2, WalkGoesOn
      <4>2. Reads(n, v)
        BY <1>5, <2>1, <2>4, <3>2, WalkedElement DEF Reads
      <4> QED
        BY <2>2, <4>1, <4>2 DEF ReadInv
    <3> QED
      BY <3>1, <3>2
  <2> QED
    BY <2>1, <2>3, <2>4 DEF ReadInv
<1>6. CASE Commit \/ EndPass
  <2>1. \A n \in alive : Walked(n)
    BY <1>6 DEF Commit, EndPass, Ready, Walked
  <2>2. UNCHANGED <<alive, adr, fed, reading>>
    BY <1>6 DEF Commit, EndPass, elementVars, variableVars
  <2> QED
    BY <2>1, <2>2 DEF ReadInv, Reads
<1>7. CASE Radio \/ UNCHANGED allVars
  BY <1>7
  DEF Radio, programVars, elementVars, variableVars, allVars, Walked, Fetched, Reads, ReadInv
<1> QED
  BY <1>1, <1>2, <1>3, <1>4, <1>5, <1>6, <1>7 DEF BindingsNext, ProcessTask

LEMMA AskedStep ==
  ASSUME ProgramFits, BindingsTypeInv, QueueInv, CanceledInv, BreakInv, RailInv, ReadInv,
         AskedInv, [BindingsNext]_allVars
  PROVE  AskedInv'
<1> USE DEF BindingsTypeInv
<1>0. TypeOK
  OBVIOUS
<1>1. CASE Wake \/ Readdress \/ Delete
  <2>1. step' = [at |-> "fetch", index |-> 1]
    BY <1>1 DEF Wake, Readdress, Delete
  <2> QED
    BY <2>1 DEF AskedInv, Fetched
<1>2. CASE Fetch /\ ProcessTask
  <2>1. UNCHANGED <<changed, alive, adr, fed, bound>> /\ alive \subseteq Networks
    BY <1>2 DEF Fetch, elementVars, Elements
  <2>2. ASSUME ~changed, NEW v \in Vars, Fetched(v)', bound[v].type = "Scanner", Wanted(v)'
        PROVE  GoesOn(bound[v])'
    <3> DEFINE w == Variables[step.index]
    <3>1. bound[v] \in ProgramRequests /\ bound[v] # Unbound
      BY <2>2, UnboundShape DEF BoundTyped
    <3>2. w \in Vars
      BY <1>2, Constants DEF Fetch, Ready, StepInv
    <3>3. bound[w] \in ProgramRequests \cup {Unbound}
      BY <3>2 DEF BoundTyped
    <3>4. ToSet(requests) \subseteq ToSet(requests')
      <4>1. CASE Ask(bound[w])
        BY <4>1, AskQueues DEF TypeOK
      <4>2. CASE UNCHANGED vars
        BY <4>2 DEF vars
      <4> QED
        BY <1>2, <4>1, <4>2 DEF Fetch, FetchValue
    <3>5. Wanted(v)
      BY <1>2, <2>1, <2>2, <3>2 DEF Fetch, FetchValue, Values, Wanted, Reads
    <3>6. CASE Fetched(v)
      <4>1. GoesOn(bound[v])
        BY <2>2, <3>5, <3>6 DEF AskedInv
      <4>2. PICK item : item = bound[v]
        OBVIOUS
      <4>3. GoesOn(item)'
        BY <1>2, <3>4, <4>1, <4>2, TaskGoesOn
      <4> QED
        BY <2>1, <4>2, <4>3 DEF GoesOn, ScanAsked
    <3>7. CASE ~Fetched(v)
      <4>1. v = w
        BY <1>2, <2>2, <3>7, FetchGoesOn
      <4>2. reading[v]
        BY <3>5, <3>7 DEF Wanted, ReadInv
      <4>3. Ask(bound[v])
        BY <1>2, <3>1, <4>1, <4>2 DEF Fetch, FetchValue
      <4>4. bound[v] \in ToSet(requests')
        <5>1. CASE bound[v] \in ToSet(requests)
          BY <3>4, <5>1
        <5>2. CASE bound[v] \notin ToSet(requests)
          <6>1. CanAdd(requests, bound[v])
            BY <3>1, <5>2, QueueHasRoom
          <6>2. requests' = Append(requests, bound[v])
            BY <4>3, <6>1 DEF Ask, Request
          <6>3. bound[v] \in RequestItems
            BY <3>1, RequestsAssumption
          <6> QED
            BY <6>2, <6>3, AppendExact DEF TypeOK, Typed
        <5> QED
          BY <5>1, <5>2
      <4> QED
        BY <2>1, <4>4 DEF GoesOn, ScanAsked
    <3> QED
      BY <3>6, <3>7
  <2> QED
    BY <2>1, <2>2 DEF AskedInv
<1>3. CASE Walk /\ ProcessTask
  <2>1. CASE changed'
    BY <2>1 DEF AskedInv
  <2>2. CASE ~changed'
    <3>1. /\ ~changed /\ UNCHANGED <<vars, bound>>
          /\ \A v \in Vars : Wanted(v)' => Wanted(v) \/ bound[v] = Unbound
      BY <1>3, <2>2, QuietWalk
    <3>2. \A v \in Vars : Fetched(v)
      BY <1>3 DEF Walk, Ready, Fetched
    <3>3. requests' = requests
      BY <3>1 DEF vars
    <3>4. ASSUME NEW v \in Vars, bound'[v].type = "Scanner", Wanted(v)'
          PROVE  GoesOn(bound[v])'
      <4>1. PICK item : item = bound[v] /\ item = bound'[v]
        BY <3>1
      <4>2. GoesOn(item)
        BY <3>1, <3>2, <3>4, <4>1, UnboundShape DEF AskedInv
      <4>3. GoesOn(item)'
        BY <1>3, <3>3, <4>2, TaskGoesOn
      <4> QED
        BY <4>1, <4>3 DEF GoesOn, ScanAsked
    <3> QED
      BY <3>4 DEF AskedInv
  <2> QED
    BY <2>1, <2>2
<1>4. CASE Commit /\ ProcessTask
  <2>1. UNCHANGED <<changed, alive, adr, fed, bound, reading>>
    BY <1>4 DEF Commit, elementVars
  <2>2. \A v \in Vars : Fetched(v) /\ (Wanted(v)' => Wanted(v))
    BY <1>4, <2>1 DEF Commit, Ready, Fetched, Wanted, Reads
  <2>3. ASSUME ~changed, NEW v \in Vars, bound[v].type = "Scanner", Wanted(v)'
        PROVE  GoesOn(bound[v])'
    <3> DEFINE w == Variables[step.index]
    <3>1. PICK item : item = bound[v] /\ item = bound'[v] /\ item.type = "Scanner"
      BY <2>1, <2>3
    <3>2. GoesOn(item)
      BY <2>2, <2>3, <3>1 DEF AskedInv
    <3>3. w \in Vars
      BY <1>4, Constants DEF Commit, Ready, StepInv
    <3>4. Beacon(bound[w]) # item
      BY <3>1 DEF Beacon, AccessPointRequest
    <3>5. item \in ToSet(requests) => item \in ToSet(requests')
      <4>1. CASE Ask(Beacon(bound[w]))
        BY <4>1, AskQueues DEF TypeOK
      <4>2. CASE Cancel(Beacon(bound[w]))
        BY <3>4, <4>2, CancelUnqueues
      <4>3. CASE UNCHANGED vars
        BY <4>3 DEF vars
      <4> QED
        BY <1>4, <4>1, <4>2, <4>3 DEF Commit, CommitChanges
    <3>6. GoesOn(item)'
      BY <1>4, <3>2, <3>5, TaskGoesOn
    <3> QED
      BY <3>1, <3>6 DEF GoesOn, ScanAsked
  <2> QED
    BY <2>1, <2>3 DEF AskedInv
<1>5. CASE EndPass /\ ProcessTask
  <2>1. UNCHANGED <<vars, alive, adr, fed, bound, reading>>
    BY <1>5 DEF EndPass, elementVars, variableVars
  <2>2. CASE step'.at \in {"fetch", "paused"}
    <3>1. step'.index = 1
      BY <1>5, <2>2 DEF EndPass
    <3> QED
      BY <2>2, <3>1 DEF AskedInv, Fetched
  <2>3. CASE step'.at = "asleep"
    <3>1. ~changed /\ \A v \in Vars : Fetched(v)
      BY <1>5, <2>3 DEF EndPass, Ready, Fetched
    <3>2. requests' = requests
      BY <2>1 DEF vars
    <3>3. ASSUME NEW v \in Vars, bound[v].type = "Scanner", Wanted(v)'
          PROVE  GoesOn(bound[v])'
      <4>1. PICK item : item = bound[v] /\ item = bound'[v]
        BY <2>1
      <4>2. Wanted(v)
        BY <2>1, <3>3 DEF Wanted, Reads
      <4>3. GoesOn(item)
        BY <3>1, <3>3, <4>1, <4>2 DEF AskedInv
      <4>4. GoesOn(item)'
        BY <1>5, <3>2, <4>3, TaskGoesOn
      <4> QED
        BY <4>1, <4>4 DEF GoesOn, ScanAsked
    <3> QED
      BY <2>1, <3>3 DEF AskedInv
  <2> QED
    BY <1>5, <2>2, <2>3 DEF EndPass
<1>6. CASE Radio
  <2>1. UNCHANGED <<step, changed, alive, adr, fed, bound, reading>>
    BY <1>6 DEF Radio, programVars, elementVars, variableVars
  <2>2. ASSUME ~changed, NEW v \in Vars, Fetched(v)', bound[v].type = "Scanner", Wanted(v)'
        PROVE  GoesOn(bound[v])'
    <3>1. PICK item : item = bound[v] /\ item = bound'[v]
      BY <2>1
    <3>2. Fetched(v) /\ Wanted(v)
      BY <2>1, <2>2 DEF Fetched, Wanted, Reads
    <3>3. GoesOn(item)
      BY <2>2, <3>1, <3>2 DEF AskedInv
    <3>4. item \in RequestItems
      BY <2>2, <3>1, UnboundShape, RequestsAssumption DEF BoundTyped
    <3>5. GoesOn(item)'
      BY <1>6, <2>2, <3>1, <3>3, <3>4, RadioGoesOn
    <3> QED
      BY <3>1, <3>5 DEF GoesOn, ScanAsked
  <2> QED
    BY <2>1, <2>2 DEF AskedInv
<1>7. CASE UNCHANGED allVars
  BY <1>7 DEF allVars, vars, programVars, elementVars, variableVars, AskedInv, Fetched,
              Wanted, Reads, GoesOn, ScanAsked
<1> QED
  BY <1>1, <1>2, <1>3, <1>4, <1>5, <1>6, <1>7 DEF BindingsNext, ProcessTask

\* A variable that is bound to a network and read while the task sleeps has its
\* scan queued or served, or its result is about to wake the task, unless the
\* break bit of another scan has ended it: between the radio that takes and
\* finishes requests and the passes that ask for them, none gets lost.
THEOREM ScanGoesOnTheorem ==
  ASSUME ReaddressedInStop, ProgramFits
  PROVE  BindingsSpec => []ScanGoesOn
<1> DEFINE Inv == /\ BindingsTypeInv /\ QueuedInv /\ QueueInv /\ StopInv
                  /\ CanceledInv /\ BreakInv /\ RailInv /\ ReadInv /\ AskedInv
<1>1. BindingsInit => Inv
  <2> SUFFICES ASSUME BindingsInit PROVE Inv
    OBVIOUS
  <2>1. BindingsTypeInv
    BY BindingsTypeInit
  <2>2. QueuedInv /\ QueueInv
    <3>1. ToSet(requests) = {}
      BY DEF BindingsInit, Init, ToSet
    <3> QED
      BY <3>1 DEF QueuedInv, QueueInv
  <2>3. CanceledInv /\ BreakInv /\ StopInv
    BY DEF BindingsInit, Init, CanceledInv, BreakInv, StopInv
  <2>4. RailInv /\ ReadInv
    BY DEF BindingsInit, RailInv, ReadInv, Walked, Reads
  <2>5. \A v \in Vars : ~Fetched(v)
    BY DEF BindingsInit, Fetched
  <2> QED
    BY <2>1, <2>2, <2>3, <2>4, <2>5 DEF AskedInv
<1>2. Inv /\ [BindingsNext]_allVars => Inv'
  <2> SUFFICES ASSUME Inv, [BindingsNext]_allVars PROVE Inv'
    OBVIOUS
  <2>1. [Next]_vars /\ Elements /\ StepInv
    <3>1. wakeup \in BOOLEAN
      BY DEF BindingsTypeInv, TypeOK, Typed
    <3> QED
      BY <3>1, ServiceStep DEF BindingsTypeInv
  <2> QED
    BY <2>1, BindingsTypeStep, QueuedStep, StopStep, CanceledStep, BreakStep, RailStep,
       ReadStep, AskedStep
<1>3. Inv => ScanGoesOn
  <2>1. Inv /\ AtRest => ~changed /\ \A v \in Vars : Fetched(v)
    BY DEF AtRest, Ready, BindingsTypeInv, StepInv, Fetched
  <2>2. Inv => \A v \in Vars : Scanned(v) => GoesOn(bound[v])
    BY <2>1 DEF Scanned, AskedInv, Wanted
  <2> QED
    BY <2>2 DEF GoesOn, ScanGoesOn
<1> QED
  BY <1>1, <1>2, <1>3, PTL DEF BindingsSpec
=============================================================================
