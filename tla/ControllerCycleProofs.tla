----------------------- MODULE ControllerCycleProofs -----------------------
(***************************************************************************)
(* Theorems about the controller's cycle, for every ladder program, every  *)
(* length of a pass, the tick, the periods and the addresses of the        *)
(* elements.  The facts about the queue of requests are those of the       *)
(* wakeup service; they are taken from its proofs.                         *)
(***************************************************************************)
EXTENDS ControllerCycle, SequenceLemmas

Service == INSTANCE ProcessWakeupServiceProofs
             WITH Delays <- Nat, MaxOverdue <- 0, last <- <<>>
-----------------------------------------------------------------------------
(* The queue of requests, as the times that are left to its callers *)

\* The caller id has a request with this time left to it.
Left(q, id, time) == \E i \in DOMAIN q : q[i].id = id /\ q[i].left = time

LEMMA SameQueues ==
  ASSUME NEW q
  PROVE  /\ Service!WellFormedQueue(q) <=> WellFormedQueue(q)
         /\ Service!Requests = Requests
         /\ \A id : Service!Waiting(q, id) <=> Waiting(q, id)
         /\ Service!HalfTick = HalfTick
BY DEF Service!WellFormedQueue, WellFormedQueue, Service!Ordered, Ordered,
       Service!OnePerId, OnePerId, Service!Requests, Requests, Service!Priorities,
       Priorities, Service!Before, Before, Service!Waiting, Waiting,
       Service!HalfTick, HalfTick

LEMMA SameOperations ==
  ASSUME NEW q
  PROVE  /\ \A id : Service!Removed(q, id) = Removed(q, id)
         /\ Service!Unexpired(q) = Unexpired(q)
         /\ \A time : Service!Later(q, time) = Later(q, time)
         /\ Service!WaitTicks(q) = WaitTicks(q)
BY DEF Service!Removed, Removed, Service!Waiting, Waiting, Service!RemoveAt, RemoveAt,
       Service!Unexpired, Unexpired, Service!HalfTick, HalfTick, Service!Later, Later,
       Service!WaitTicks, WaitTicks, Service!Forever, Forever, Service!Min, Min

LEMMA SameAdded ==
  ASSUME NEW q, NEW id, NEW delay, NEW priority
  PROVE  Service!Added(q, id, delay, priority) = Added(q, id, delay, priority)
<1>1. \A r : Service!UpperBound(q, r) = UpperBound(q, r)
  BY DEF Service!UpperBound, UpperBound, Service!Before, Before, Service!Min, Min
<1>2. \A r : Service!Joined(q, r) = Joined(q, r)
  BY <1>1 DEF Service!Joined, Joined
<1>3. \A k, r : Service!InsertAt(q, k, r) = InsertAt(q, k, r)
  BY DEF Service!InsertAt, InsertAt
<1>4. Service!Waiting(q, id) <=> Waiting(q, id)
  BY SameQueues
<1> QED
  BY <1>1, <1>2, <1>3, <1>4 DEF Service!Added, Added

LEMMA WaitingHasTime ==
  ASSUME NEW q, WellFormedQueue(q), NEW id
  PROVE  /\ Waiting(q, id) <=> \E time \in Int : Left(q, id, time)
         /\ \A time, other : Left(q, id, time) /\ Left(q, id, other) => time = other
         /\ \A time : Left(q, id, time) => time \in Int
<1>1. \A i \in DOMAIN q : q[i] \in Requests
  BY DEF WellFormedQueue
<1> QED
  BY <1>1 DEF WellFormedQueue, OnePerId, Waiting, Left, Requests

\* A request is added for a caller that has none; its own time, if critical.
LEMMA AddedLeft ==
  ASSUME NEW q, WellFormedQueue(q), NEW id \in Ids, NEW delay \in Int,
         NEW priority \in Priorities
  PROVE  /\ WellFormedQueue(Added(q, id, delay, priority))
         /\ Waiting(Added(q, id, delay, priority), id)
         /\ Waiting(q, id) => Added(q, id, delay, priority) = q
         /\ \A other, time : other # id =>
              (Left(Added(q, id, delay, priority), other, time) <=> Left(q, other, time))
         /\ ~Waiting(q, id) /\ priority = "critical" =>
              Left(Added(q, id, delay, priority), id, delay)
<1> DEFINE added == Added(q, id, delay, priority)
<1>1. CASE Waiting(q, id)
  <2>1. added = q
    BY <1>1 DEF Added
  <2> QED
    BY <1>1, <2>1
<1>2. CASE ~Waiting(q, id)
  <2> DEFINE asked == [id |-> id, left |-> delay, priority |-> priority]
  <2>1. Service!WellFormedQueue(q) /\ ~Service!Waiting(q, id) /\ priority \in Service!Priorities
    BY <1>2, SameQueues DEF Service!Priorities, Priorities
  <2>2. asked \in Service!Requests /\ asked.id = id /\ asked.left = delay
    BY <2>1 DEF Service!Requests
  <2>3. PICK r : r = Service!Joined(q, asked)
    OBVIOUS
  <2>4. r \in Service!Requests /\ r.id = id /\ (priority = "critical" => r.left = delay)
    <3>1. ~Service!Waiting(q, asked.id)
      BY <2>1, <2>2
    <3>2. /\ r \in Service!Requests
          /\ r.id = asked.id
          /\ \/ r.left = asked.left
             \/ asked.priority = "idle"
      <4> HIDE DEF asked
      <4> QED
        BY <2>1, <2>2, <2>3, <3>1, Service!JoinedRequest, AddressAssumption, ClockAssumption
    <3> QED
      BY <3>2
  <2>5. /\ Service!WellFormedQueue(added)
        /\ \E k \in 1..(Len(q) + 1) : added = Service!InsertAt(q, k, r)
    BY <2>1, <2>3, SameAdded, Service!AddedQueue, AddressAssumption, ClockAssumption
  <2>6. PICK k \in 1..(Len(q) + 1) : added = Service!InsertAt(q, k, r)
    BY <2>5
  <2> HIDE DEF added
  <2>7. Service!Adds(q, added, r)
    BY <2>1, <2>4, <2>5, <2>6, Service!InsertAtAdds, AddressAssumption, ClockAssumption
  <2>8. /\ \A i \in DOMAIN q : \E j \in DOMAIN added : added[j] = q[i]
        /\ \A j \in DOMAIN added : added[j] = r \/ \E i \in DOMAIN q : added[j] = q[i]
        /\ \E j \in DOMAIN added : added[j] = r
    BY <2>7 DEF Service!Adds
  <2>9. WellFormedQueue(added)
    BY <2>5, SameQueues
  <2>10. \A other, time : other # id => (Left(added, other, time) <=> Left(q, other, time))
    BY <2>4, <2>8 DEF Left
  <2>11. Waiting(added, id) /\ (priority = "critical" => Left(added, id, delay))
    BY <2>4, <2>8 DEF Waiting, Left
  <2> QED
    BY <1>2, <2>9, <2>10, <2>11 DEF added
<1> QED
  BY <1>1, <1>2

LEMMA RemovedLeft ==
  ASSUME NEW q, WellFormedQueue(q), NEW id \in Ids
  PROVE  /\ WellFormedQueue(Removed(q, id))
         /\ ~Waiting(Removed(q, id), id)
         /\ \A other, time : other # id =>
              (Left(Removed(q, id), other, time) <=> Left(q, other, time))
<1> DEFINE left == Removed(q, id)
<1>1. CASE ~Waiting(q, id)
  <2>1. left = q
    BY <1>1 DEF Removed
  <2> QED
    BY <1>1, <2>1
<1>2. CASE Waiting(q, id)
  <2>1. Service!WellFormedQueue(q) /\ Service!Waiting(q, id)
    BY <1>2, SameQueues
  <2>2. /\ Service!WellFormedQueue(left)
        /\ \E k \in DOMAIN q : q[k].id = id /\ left = Service!RemoveAt(q, k)
    <3>1. /\ Service!WellFormedQueue(Service!Removed(q, id))
          /\ \E k \in DOMAIN q : q[k].id = id /\ Service!Removed(q, id) = Service!RemoveAt(q, k)
      BY <2>1, Service!RemovedQueue, AddressAssumption, ClockAssumption
    <3>2. Service!Removed(q, id) = left
      BY SameOperations
    <3> QED
      BY <3>1, <3>2
  <2>3. PICK k \in DOMAIN q : q[k].id = id /\ left = RemoveAt(q, k)
    BY <2>2 DEF Service!RemoveAt, RemoveAt
  <2>4. q \in Seq(Requests) /\ DOMAIN q = 1..Len(q) /\ Len(q) \in Nat
    BY DEF WellFormedQueue
  <2> HIDE DEF left
  <2>5. /\ left \in Seq(Requests)
        /\ Len(left) = Len(q) - 1
        /\ \A i \in 1..(Len(q) - 1) : left[i] = q[IF i < k THEN i ELSE i + 1]
    BY <2>3, <2>4, RemoveAtElements
  <2>6. \A i \in DOMAIN left : \E j \in DOMAIN q \ {k} : left[i] = q[j]
    <3> TAKE i \in DOMAIN left
    <3>1. /\ IF i < k THEN i \in DOMAIN q \ {k} ELSE i + 1 \in DOMAIN q \ {k}
          /\ left[i] = IF i < k THEN q[i] ELSE q[i + 1]
      BY <2>3, <2>4, <2>5
    <3> QED
      BY <3>1
  <2>7. \A j \in DOMAIN q \ {k} : \E i \in DOMAIN left : left[i] = q[j]
    <3> TAKE j \in DOMAIN q \ {k}
    <3>1. CASE j < k
      <4>1. j \in 1..(Len(q) - 1) /\ j \in DOMAIN left
        BY <2>3, <2>4, <2>5, <3>1
      <4> QED
        BY <2>5, <3>1, <4>1
    <3>2. CASE j > k
      <4>1. j - 1 \in 1..(Len(q) - 1) /\ j - 1 \in DOMAIN left /\ ~(j - 1 < k) /\ (j - 1) + 1 = j
        BY <2>3, <2>4, <2>5, <3>2
      <4> QED
        BY <2>5, <4>1
    <3> QED
      BY <2>3, <2>4, <3>1, <3>2
  <2>8. \A j \in DOMAIN q : q[j].id = id => j = k
    BY <2>3 DEF WellFormedQueue, OnePerId
  <2>9. ~Waiting(left, id)
    BY <2>6, <2>8 DEF Waiting
  <2>10. \A other, time : other # id => (Left(left, other, time) <=> Left(q, other, time))
    BY <2>3, <2>6, <2>7 DEF Left
  <2>11. WellFormedQueue(left)
    BY <2>2, SameQueues
  <2> QED
    BY <2>9, <2>10, <2>11 DEF left
<1> QED
  BY <1>1, <1>2

LEMMA UnexpiredLeft ==
  ASSUME NEW q, WellFormedQueue(q)
  PROVE  /\ WellFormedQueue(Unexpired(q))
         /\ \A id, time : Left(Unexpired(q), id, time) <=> Left(q, id, time) /\ time > HalfTick
<1> DEFINE rest == Unexpired(q)
<1>1. Service!WellFormedQueue(q)
  BY SameQueues
<1>2. /\ Service!WellFormedQueue(rest)
      /\ \E n \in 1..(Len(q) + 1) :
           /\ rest = SubSeq(q, n, Len(q))
           /\ \A i \in DOMAIN q : q[i].left > HalfTick <=> i >= n
  <2>1. /\ Service!WellFormedQueue(Service!Unexpired(q))
        /\ \E n \in 1..(Len(q) + 1) :
             /\ Service!Unexpired(q) = SubSeq(q, n, Len(q))
             /\ \A i \in DOMAIN q : q[i].left > Service!HalfTick <=> i >= n
    BY <1>1, Service!UnexpiredQueue, AddressAssumption, ClockAssumption
  <2>2. Service!Unexpired(q) = rest
    BY SameOperations
  <2>3. Service!HalfTick = HalfTick
    BY SameQueues
  <2> QED
    BY <2>1, <2>2, <2>3
<1>3. PICK n \in 1..(Len(q) + 1) :
        /\ rest = SubSeq(q, n, Len(q))
        /\ \A i \in DOMAIN q : q[i].left > HalfTick <=> i >= n
  BY <1>2
<1>4. q \in Seq(Requests) /\ DOMAIN q = 1..Len(q) /\ Len(q) \in Nat
  BY DEF WellFormedQueue
<1> HIDE DEF rest
<1>5. /\ rest \in Seq(Requests)
      /\ Len(rest) = Len(q) - n + 1
      /\ \A i \in 1..(Len(q) - n + 1) : rest[i] = q[n + i - 1]
  BY <1>3, <1>4, SubSeqProperties
<1>6. ASSUME NEW i \in DOMAIN rest
      PROVE  n + i - 1 \in DOMAIN q /\ n + i - 1 >= n /\ rest[i] = q[n + i - 1]
  BY <1>3, <1>4, <1>5
<1>7. ASSUME NEW j \in DOMAIN q, j >= n
      PROVE  j - n + 1 \in DOMAIN rest /\ rest[j - n + 1] = q[j]
  <2>1. PICK i \in 1..(Len(q) - n + 1) : i = j - n + 1 /\ n + i - 1 = j
    BY <1>3, <1>4, <1>7
  <2>2. DOMAIN rest = 1..(Len(q) - n + 1)
    BY <1>5
  <2>3. rest[i] = q[n + i - 1]
    BY <1>5, <2>1
  <2> QED
    BY <2>1, <2>2, <2>3
<1>8. ASSUME NEW id, NEW time
      PROVE  Left(rest, id, time) <=> Left(q, id, time) /\ time > HalfTick
  BY <1>3, <1>6, <1>7 DEF Left
<1>9. WellFormedQueue(rest)
  BY <1>2, SameQueues
<1> QED
  BY <1>8, <1>9 DEF rest

LEMMA LaterLeft ==
  ASSUME NEW q, WellFormedQueue(q), NEW time \in Int
  PROVE  /\ WellFormedQueue(Later(q, time))
         /\ \A id, left : left \in Int => (Left(Later(q, time), id, left) <=> Left(q, id, left + time))
<1> DEFINE later == Later(q, time)
<1>1. Service!WellFormedQueue(q)
  BY SameQueues
<1>2. /\ Service!WellFormedQueue(later)
      /\ DOMAIN later = DOMAIN q
      /\ \A i \in DOMAIN q : later[i].id = q[i].id /\ later[i].left = q[i].left - time
  <2>1. /\ Service!WellFormedQueue(Service!Later(q, time))
        /\ DOMAIN Service!Later(q, time) = DOMAIN q
        /\ \A i \in DOMAIN q : /\ Service!Later(q, time)[i].id = q[i].id
                               /\ Service!Later(q, time)[i].left = q[i].left - time
    BY <1>1, Service!LaterQueue, AddressAssumption, ClockAssumption
  <2>2. Service!Later(q, time) = later
    BY SameOperations
  <2> QED
    BY <2>1, <2>2
<1>3. WellFormedQueue(later)
  BY <1>2, SameQueues
<1>4. \A i \in DOMAIN q : q[i].left \in Int
  <2>1. \A i \in DOMAIN q : q[i] \in Requests
    BY DEF WellFormedQueue
  <2> QED
    BY <2>1 DEF Requests
<1> HIDE DEF later
<1>5. ASSUME NEW id, NEW left \in Int
      PROVE  Left(later, id, left) <=> Left(q, id, left + time)
  BY <1>2, <1>4 DEF Left
<1> QED
  BY <1>3, <1>5 DEF later
-----------------------------------------------------------------------------
(* What an element does to a walk *)

Queues == {q \in Seq(Requests) : Ordered(q) /\ OnePerId(q)}

WalkRecords == [elements : [Elements -> States], ports : [Ports -> PortRecords],
          requests : Queues, continuation : States, state : States,
          changed : BOOLEAN, anyChanges : BOOLEAN]

LEMMA QueuesWellFormed ==
  ASSUME NEW q
  PROVE  q \in Queues <=> WellFormedQueue(q)
BY DEF Queues, WellFormedQueue

LEMMA WalkParts ==
  ASSUME NEW w \in WalkRecords
  PROVE  /\ w.elements \in [Elements -> States] /\ w.ports \in [Ports -> PortRecords]
         /\ w.requests \in Queues /\ WellFormedQueue(w.requests)
         /\ w.continuation \in States /\ w.state \in States
         /\ w.changed \in BOOLEAN /\ w.anyChanges \in BOOLEAN
BY QueuesWellFormed DEF WalkRecords

\* Two walks that differ in their ports, requests or continuation only.
SameElements(w, b) ==
  /\ b.elements = w.elements /\ b.state = w.state
  /\ b.changed = w.changed /\ b.anyChanges = w.anyChanges

LEMMA LeaveFields ==
  ASSUME NEW w \in WalkRecords, NEW id \in Elements, NEW state \in States, NEW changed \in BOOLEAN
  PROVE  LET a == Leave(w, id, state, changed) IN
         /\ a \in WalkRecords
         /\ a.elements = [w.elements EXCEPT ![id] = state]
         /\ a.state = state /\ a.changed = changed
         /\ a.anyChanges = (w.anyChanges \/ changed)
         /\ a.ports = w.ports /\ a.requests = w.requests /\ a.continuation = w.continuation
<1>1. [w.elements EXCEPT ![id] = state] \in [Elements -> States]
  BY WalkParts
<1>2. (w.anyChanges \/ changed) \in BOOLEAN
  OBVIOUS
<1> DEFINE a == Leave(w, id, state, changed)
<1>3. a = [w EXCEPT !.elements = [w.elements EXCEPT ![id] = state], !.state = state,
                    !.changed = changed, !.anyChanges = (w.anyChanges \/ changed)]
  BY DEF Leave, WalkRecords
<1> QED
  BY <1>1, <1>2, <1>3 DEF WalkRecords

\* A walk in which a port may be asked for.
Asking(w, port, reads) == [w EXCEPT !.ports[port].reading = @ \/ reads]

LEMMA AskingWalk ==
  ASSUME NEW w \in WalkRecords, NEW port \in Ports, NEW reads \in BOOLEAN
  PROVE  LET b == Asking(w, port, reads) IN
         /\ b \in WalkRecords /\ SameElements(w, b)
         /\ b.requests = w.requests /\ b.continuation = w.continuation
         /\ \A p \in Ports : b.ports[p].out = w.ports[p].out /\ b.ports[p].value = w.ports[p].value
                             /\ b.ports[p].writing = w.ports[p].writing
         /\ \A p \in Ports : b.ports[p].reading <=> (w.ports[p].reading \/ (p = port /\ reads))
<1> DEFINE b == Asking(w, port, reads)
           record == [w.ports[port] EXCEPT !.reading = @ \/ reads]
           after == [w.ports EXCEPT ![port] = record]
<1>1. w.ports[port] \in PortRecords /\ w.ports \in [Ports -> PortRecords]
  BY WalkParts
<1>2. /\ record \in PortRecords
      /\ record.out = w.ports[port].out /\ record.value = w.ports[port].value
      /\ record.writing = w.ports[port].writing
      /\ record.reading = (w.ports[port].reading \/ reads)
  BY <1>1 DEF PortRecords
<1>3. b = [w EXCEPT !.ports = after]
  BY DEF WalkRecords, Asking
<1> HIDE DEF record
<1>4. after \in [Ports -> PortRecords] /\ \A p \in Ports : after[p] = IF p = port THEN record ELSE w.ports[p]
  BY <1>1, <1>2
<1> HIDE DEF after
<1>5. /\ b \in WalkRecords /\ SameElements(w, b)
      /\ b.requests = w.requests /\ b.continuation = w.continuation /\ b.ports = after
  BY <1>3, <1>4 DEF WalkRecords, SameElements
<1> HIDE DEF b
<1>6. ASSUME NEW p \in Ports
      PROVE  /\ b.ports[p].out = w.ports[p].out /\ b.ports[p].value = w.ports[p].value
             /\ b.ports[p].writing = w.ports[p].writing
             /\ b.ports[p].reading <=> (w.ports[p].reading \/ (p = port /\ reads))
  <2>1. CASE p = port
    <3>1. b.ports[p] = record
      BY <1>4, <1>5, <2>1
    <3> QED
      BY <1>2, <2>1, <3>1
  <2>2. CASE p # port
    <3>1. b.ports[p] = w.ports[p] /\ w.ports[p] \in PortRecords
      BY <1>1, <1>4, <1>5, <2>2
    <3> QED
      BY <2>2, <3>1 DEF PortRecords
  <2> QED
    BY <2>1, <2>2
<1> QED
  BY <1>5, <1>6 DEF b

LEMMA WithRequests ==
  ASSUME NEW w \in WalkRecords, NEW queue, WellFormedQueue(queue)
  PROVE  LET b == [w EXCEPT !.requests = queue] IN
         /\ b \in WalkRecords /\ SameElements(w, b)
         /\ b.requests = queue /\ b.ports = w.ports /\ b.continuation = w.continuation
BY QueuesWellFormed DEF WalkRecords, SameElements

LEMMA WithContinuation ==
  ASSUME NEW w \in WalkRecords, NEW state \in States
  PROVE  LET b == [w EXCEPT !.continuation = state] IN
         /\ b \in WalkRecords /\ SameElements(w, b)
         /\ b.requests = w.requests /\ b.ports = w.ports /\ b.continuation = state
BY DEF WalkRecords, SameElements

\* What an element of the program is, by its kind.
LEMMA ElementKinds ==
  ASSUME NEW id \in Elements
  PROVE  /\ ElementAt(id).kind \in {"Contact", "Indicator"} => ElementAt(id).port \in Ports
         /\ ElementAt(id).kind = "Timer" => ElementAt(id).delay \in Nat
         /\ ElementAt(id).kind = "Generator" => ElementAt(id).pause \in Nat /\ ElementAt(id).pulse \in Nat
         /\ ElementAt(id).kind \in OutputKinds => ElementAt(id).port \in Written
         /\ ElementAt(id).kind \in {"Contact", "Indicator", "Timer", "Generator",
                                    "ContinuationIn", "ContinuationOut"} \cup OutputKinds
         /\ id \in Ids /\ id # ProcessTask /\ id # AI
<1>1. IsElement(ElementAt(id)) /\ id \in Ids
  BY ProgramAssumption
<1>2. id # ProcessTask /\ id # AI
  <2>1. PICK n \in DOMAIN Program : \E i \in DOMAIN Program[n] : id = <<n, i>>
    BY DEF Elements
  <2>2. n # 0
    BY ProgramAssumption
  <2> QED
    BY <2>1, <2>2 DEF ProcessTask, AI
<1> QED
  BY <1>1, <1>2 DEF IsElement, OutputKinds

LEMMA DoActionKinds ==
  ASSUME NEW w, NEW id \in Elements
  PROVE  LET element == ElementAt(id) IN
         /\ element.kind = "Contact" /\ Guard(w) => DoAction(w, id) = Contact(w, id, element)
         /\ element.kind = "Contact" /\ ~Guard(w) => DoAction(w, id) = LeaveAlone(w, id)
         /\ element.kind = "Timer" => DoAction(w, id) = Timer(w, id, element)
         /\ element.kind = "Generator" => DoAction(w, id) = Generator(w, id, element)
         /\ element.kind = "Indicator" => DoAction(w, id) = Indicator(w, id, element)
         /\ element.kind = "ContinuationIn" => DoAction(w, id) = ContinuationIn(w, id)
         /\ element.kind = "ContinuationOut" => DoAction(w, id) = ContinuationOut(w, id)
         /\ element.kind \in OutputKinds => DoAction(w, id) = Output(w, id, element)
BY DEF DoAction, OutputKinds
-----------------------------------------------------------------------------
(* What every element does to a walk *)

\* An element changes its own state only, says when it does (an indicator also
\* when it has refreshed what it shows), and without power
\* takes the state of its input or, untold of a change, keeps its own.
Acted(w, id, a) ==
  /\ a \in WalkRecords
  /\ a.elements = [w.elements EXCEPT ![id] = a.state]
  /\ a.anyChanges = (w.anyChanges \/ a.changed)
  /\ ~a.changed => a.state = w.elements[id]
  /\ a.changed /\ ElementAt(id).kind # "Indicator" => a.state # w.elements[id]
  /\ w.state # "Active" => a.state = w.state \/ (~Guard(w) /\ a.state = w.elements[id])
  /\ \A other, time : other # id => (Left(a.requests, other, time) <=> Left(w.requests, other, time))

\* What is written is marked; all but a reset write 0 on entering Stop, and a
\* reset never writes anything else.
PortsActed(w, id, a) ==
  LET element == ElementAt(id) IN
  /\ \A p \in Ports :
       /\ a.ports[p].value = w.ports[p].value
       /\ ~a.ports[p].writing => ~w.ports[p].writing /\ a.ports[p].out = w.ports[p].out
       /\ a.ports[p].out # 0 /\ a.ports[p].out # w.ports[p].out =>
            element.kind \in OutputKinds \ {"Reset"} /\ element.port = p /\ a.state # "Stop"
       /\ ~a.changed => a.ports[p].writing = w.ports[p].writing
  /\ element.kind \in OutputKinds \ {"Reset"} /\ a.state = "Stop" /\ w.elements[id] # "Stop" =>
       a.ports[element.port].out = 0

\* A contact with power asks for its port to be read; nobody takes that back.
ReadsActed(w, id, a) ==
  LET element == ElementAt(id) IN
  /\ \A p \in Ports :
       /\ w.ports[p].reading => a.ports[p].reading
       /\ a.ports[p].reading /\ ~w.ports[p].reading =>
            /\ element.kind \in {"Contact", "Indicator"} /\ element.port = p
            /\ w.state = "Active" /\ (element.kind = "Indicator" => a.changed)
  /\ element.kind = "Contact" /\ w.state = "Active" => a.ports[element.port].reading

\* The same of the walk that an element leaves in a state.
Acts(w, id, b, state, changed) ==
  /\ b \in WalkRecords /\ SameElements(w, b) /\ state \in States /\ changed \in BOOLEAN
  /\ ~changed => state = w.elements[id]
  /\ changed /\ ElementAt(id).kind # "Indicator" => state # w.elements[id]
  /\ w.state # "Active" => state = w.state \/ (~Guard(w) /\ state = w.elements[id])
  /\ \A other, time : other # id => (Left(b.requests, other, time) <=> Left(w.requests, other, time))

LEMMA ActsActed ==
  ASSUME NEW w \in WalkRecords, NEW id \in Elements, NEW b, NEW state, NEW changed,
         Acts(w, id, b, state, changed)
  PROVE  LET a == Leave(b, id, state, changed) IN
         /\ Acted(w, id, a)
         /\ a.state = state /\ a.changed = changed /\ a.ports = b.ports /\ a.requests = b.requests
         /\ a.continuation = b.continuation
<1> DEFINE a == Leave(b, id, state, changed)
<1>1. b \in WalkRecords /\ state \in States /\ changed \in BOOLEAN
  BY DEF Acts
<1>2. /\ a \in WalkRecords
      /\ a.elements = [b.elements EXCEPT ![id] = state]
      /\ a.state = state /\ a.changed = changed
      /\ a.anyChanges = (b.anyChanges \/ changed)
      /\ a.ports = b.ports /\ a.requests = b.requests /\ a.continuation = b.continuation
  BY <1>1, LeaveFields
<1> HIDE DEF a
<1>3. Acted(w, id, a)
  BY <1>2 DEF Acted, Acts, SameElements
<1> QED
  BY <1>2, <1>3 DEF a

\* An element that leaves the ports alone.
LEMMA PortsAlone ==
  ASSUME NEW w \in WalkRecords, NEW id \in Elements, NEW a, a.ports = w.ports,
         /\ ElementAt(id).kind \in OutputKinds => a.state = w.elements[id]
         /\ ~(ElementAt(id).kind = "Contact" /\ w.state = "Active")
  PROVE  PortsActed(w, id, a) /\ ReadsActed(w, id, a)
BY DEF PortsActed, ReadsActed

\* An element that asks for its port to be read at most.
LEMMA PortsRead ==
  ASSUME NEW w \in WalkRecords, NEW id \in Elements, NEW a, NEW reads \in BOOLEAN,
         /\ ElementAt(id).kind \in {"Contact", "Indicator"}
         /\ \A p \in Ports :
              /\ a.ports[p].out = w.ports[p].out /\ a.ports[p].value = w.ports[p].value
              /\ a.ports[p].writing = w.ports[p].writing
              /\ a.ports[p].reading <=> (w.ports[p].reading \/ (p = ElementAt(id).port /\ reads))
         /\ reads => w.state = "Active" /\ (ElementAt(id).kind = "Indicator" => a.changed)
         /\ ElementAt(id).kind = "Contact" /\ w.state = "Active" => reads
  PROVE  PortsActed(w, id, a) /\ ReadsActed(w, id, a)
<1>1. ElementAt(id).port \in Ports /\ ElementAt(id).kind \notin OutputKinds
  BY ElementKinds DEF OutputKinds
<1>2. w.ports \in [Ports -> PortRecords] /\ \A p \in Ports : w.ports[p].reading \in BOOLEAN
  BY WalkParts DEF PortRecords
<1>3. PortsActed(w, id, a)
  BY <1>1 DEF PortsActed
<1>4. ReadsActed(w, id, a)
  BY <1>1, <1>2 DEF ReadsActed
<1> QED
  BY <1>3, <1>4

LEMMA LeaveAloneActed ==
  ASSUME NEW w \in WalkRecords, NEW id \in Elements,
         ~Guard(w) \/ w.state = w.elements[id],
         Guard(w) => ElementAt(id).kind # "Contact"
  PROVE  LET a == LeaveAlone(w, id) IN Acted(w, id, a) /\ PortsActed(w, id, a) /\ ReadsActed(w, id, a)
<1> DEFINE state == w.elements[id]
           changed == FALSE
           a == LeaveAlone(w, id)
<1>1. state \in States /\ w.state \in States
  BY WalkParts
<1>2. Acts(w, id, w, state, changed)
  BY <1>1 DEF Acts, SameElements
<1>3. a = Leave(w, id, state, changed)
  BY DEF LeaveAlone
<1> HIDE DEF a, changed
<1>4. Acted(w, id, a) /\ a.ports = w.ports /\ a.state = state
  BY <1>2, <1>3, ActsActed
<1>5. ~(ElementAt(id).kind = "Contact" /\ w.state = "Active")
  BY DEF Guard
<1> QED
  BY <1>4, <1>5, PortsAlone DEF a

LEMMA ContactActed ==
  ASSUME NEW w \in WalkRecords, NEW id \in Elements, ElementAt(id).kind = "Contact", Guard(w)
  PROVE  LET a == Contact(w, id, ElementAt(id)) IN
         Acted(w, id, a) /\ PortsActed(w, id, a) /\ ReadsActed(w, id, a)
<1> DEFINE element == ElementAt(id)
           reads == w.state = "Active"
           passes == w.ports[element.port].value \in element.passing
           state == IF ~reads THEN w.state ELSE IF passes THEN "Active" ELSE "Passive"
           b == Asking(w, element.port, reads)
           a == Contact(w, id, element)
           changed == state # w.elements[id]
<1>1. element.port \in Ports /\ w.state \in States /\ w.elements[id] \in States
  BY ElementKinds, WalkParts
<1>2. state \in States /\ reads \in BOOLEAN /\ changed \in BOOLEAN
  BY <1>1 DEF States
<1>3. a = Leave(b, id, state, changed)
  BY DEF Contact, Asking
<1>4. /\ ~changed => state = w.elements[id]
      /\ changed => state # w.elements[id]
      /\ w.state # "Active" => state = w.state
  OBVIOUS
<1>5. (reads => w.state = "Active") /\ (w.state = "Active" => reads)
  OBVIOUS
<1> HIDE DEF reads, state, changed
<1>6. b \in WalkRecords /\ SameElements(w, b) /\ b.requests = w.requests
  BY <1>1, <1>2, AskingWalk
<1>7. \A p \in Ports : /\ b.ports[p].out = w.ports[p].out /\ b.ports[p].value = w.ports[p].value
                       /\ b.ports[p].writing = w.ports[p].writing
                       /\ b.ports[p].reading <=> (w.ports[p].reading \/ (p = element.port /\ reads))
  BY <1>1, <1>2, AskingWalk
<1> HIDE DEF a, b
<1>8. Acts(w, id, b, state, changed)
  BY <1>2, <1>4, <1>6 DEF Acts
<1>9. Acted(w, id, a) /\ a.ports = b.ports
  BY <1>3, <1>8, ActsActed
<1>10. PortsActed(w, id, a) /\ ReadsActed(w, id, a)
  BY <1>2, <1>5, <1>7, <1>9, PortsRead
<1> QED
  BY <1>9, <1>10 DEF a

LEMMA IndicatorActed ==
  ASSUME NEW w \in WalkRecords, NEW id \in Elements, ElementAt(id).kind = "Indicator"
  PROVE  LET a == Indicator(w, id, ElementAt(id)) IN
         Acted(w, id, a) /\ PortsActed(w, id, a) /\ ReadsActed(w, id, a)
<1> DEFINE element == ElementAt(id)
           powered == w.state = "Active"
           refreshed == powered /\ (w.changed \/ ~Waiting(w.requests, id))
           requested == IF powered THEN Added(w.requests, id, UpdatePeriod, "idle") ELSE w.requests
           asked == [w EXCEPT !.requests = requested]
           b == Asking(asked, element.port, refreshed)
           a == Indicator(w, id, element)
           changed == refreshed \/ w.elements[id] # w.state
<1>1. CASE ~Guard(w)
  <2>1. a = LeaveAlone(w, id)
    BY <1>1 DEF Indicator
  <2> QED
    BY <1>1, <2>1, LeaveAloneActed
<1>2. CASE Guard(w)
  <2>1. element.port \in Ports /\ w.state \in States /\ refreshed \in BOOLEAN /\ changed \in BOOLEAN
    BY ElementKinds, WalkParts
  <2>2. a = Leave(b, id, w.state, changed)
    BY <1>2 DEF Indicator, WalkRecords, Asking
  <2>3. /\ WellFormedQueue(requested)
        /\ \A other, time : other # id =>
             (Left(requested, other, time) <=> Left(w.requests, other, time))
    <3>1. UpdatePeriod \in Int /\ "idle" \in Priorities /\ id \in Ids /\ WellFormedQueue(w.requests)
      BY ProgramAssumption, ElementKinds, WalkParts DEF Priorities
    <3> QED
      BY <3>1, AddedLeft
  <2>4. (refreshed => w.state = "Active" /\ changed) /\ (~changed => w.state = w.elements[id])
    OBVIOUS
  <2> HIDE DEF requested, refreshed, changed
  <2>5. asked \in WalkRecords /\ SameElements(w, asked) /\ asked.requests = requested /\ asked.ports = w.ports
    BY <2>3, WithRequests
  <2> HIDE DEF asked
  <2>6. b \in WalkRecords /\ SameElements(asked, b) /\ b.requests = asked.requests
    BY <2>1, <2>5, AskingWalk
  <2>7. \A p \in Ports : /\ b.ports[p].out = asked.ports[p].out /\ b.ports[p].value = asked.ports[p].value
                         /\ b.ports[p].writing = asked.ports[p].writing
                         /\ b.ports[p].reading <=> (asked.ports[p].reading \/ (p = element.port /\ refreshed))
    <3>1. asked \in WalkRecords /\ element.port \in Ports /\ refreshed \in BOOLEAN
      BY <2>1, <2>5
    <3> HIDE DEF element
    <3> QED
      BY <3>1, AskingWalk
  <2> HIDE DEF a, b
  <2>8. Acts(w, id, b, w.state, changed)
    BY <2>1, <2>3, <2>4, <2>5, <2>6 DEF Acts, SameElements
  <2>9. Acted(w, id, a) /\ a.ports = b.ports /\ a.changed = changed
    BY <2>2, <2>8, ActsActed
  <2>10. PortsActed(w, id, a) /\ ReadsActed(w, id, a)
    <3>1. \A p \in Ports : /\ a.ports[p].out = w.ports[p].out /\ a.ports[p].value = w.ports[p].value
                           /\ a.ports[p].writing = w.ports[p].writing
                           /\ a.ports[p].reading <=> (w.ports[p].reading \/ (p = element.port /\ refreshed))
      BY <2>5, <2>7, <2>9
    <3> QED
      BY <2>1, <2>4, <2>9, <3>1, PortsRead
  <2> QED
    BY <2>9, <2>10 DEF a
<1> QED
  BY <1>1, <1>2

LEMMA ContinuationInActed ==
  ASSUME NEW w \in WalkRecords, NEW id \in Elements, ElementAt(id).kind = "ContinuationIn"
  PROVE  LET a == ContinuationIn(w, id) IN
         Acted(w, id, a) /\ PortsActed(w, id, a) /\ ReadsActed(w, id, a)
<1> DEFINE b == [w EXCEPT !.continuation = w.state]
           changed == Guard(w) /\ w.state # w.elements[id]
           state == IF Guard(w) THEN w.state ELSE w.elements[id]
           a == ContinuationIn(w, id)
<1>1. w.state \in States /\ w.elements[id] \in States /\ changed \in BOOLEAN /\ state \in States
  BY WalkParts
<1>2. b \in WalkRecords /\ SameElements(w, b) /\ b.requests = w.requests /\ b.ports = w.ports
  BY <1>1, WithContinuation
<1>3. a = Leave(b, id, state, changed)
  <2>1. CASE Guard(w)
    <3>1. changed = (w.state # w.elements[id]) /\ state = w.state
      BY <2>1
    <3> QED
      BY <2>1, <3>1 DEF ContinuationIn
  <2>2. CASE ~Guard(w)
    <3>1. changed = FALSE /\ state = b.elements[id]
      BY <1>2, <2>2 DEF SameElements
    <3> QED
      BY <2>2, <3>1 DEF ContinuationIn, LeaveAlone
  <2> QED
    BY <2>1, <2>2
<1>4. /\ ~changed => state = w.elements[id]
      /\ changed => state # w.elements[id]
      /\ w.state # "Active" => state = w.state \/ (~Guard(w) /\ state = w.elements[id])
      /\ ElementAt(id).kind \notin OutputKinds
  BY DEF OutputKinds
<1> HIDE DEF a, b, changed, state
<1>5. Acts(w, id, b, state, changed)
  BY <1>1, <1>2, <1>4 DEF Acts
<1>6. Acted(w, id, a) /\ a.ports = b.ports
  BY <1>3, <1>5, ActsActed
<1>7. PortsActed(w, id, a) /\ ReadsActed(w, id, a)
  BY <1>2, <1>4, <1>6, PortsAlone
<1> QED
  BY <1>6, <1>7 DEF a

LEMMA ContinuationOutActed ==
  ASSUME NEW w \in WalkRecords, NEW id \in Elements, ElementAt(id).kind = "ContinuationOut"
  PROVE  LET a == ContinuationOut(w, id) IN
         Acted(w, id, a) /\ PortsActed(w, id, a) /\ ReadsActed(w, id, a)
<1> DEFINE state == IF w.state = "Active" THEN w.continuation ELSE w.state
           changed == state # w.elements[id]
           a == ContinuationOut(w, id)
<1>1. CASE ~Guard(w)
  <2>1. a = LeaveAlone(w, id)
    BY <1>1 DEF ContinuationOut
  <2> QED
    BY <1>1, <2>1, LeaveAloneActed
<1>2. CASE Guard(w)
  <2>1. state \in States /\ changed \in BOOLEAN
    BY WalkParts
  <2>2. a = Leave(w, id, state, changed)
    BY <1>2 DEF ContinuationOut
  <2>3. /\ ~changed => state = w.elements[id]
        /\ changed => state # w.elements[id]
        /\ w.state # "Active" => state = w.state
        /\ ElementAt(id).kind \notin OutputKinds
    BY DEF OutputKinds
  <2> HIDE DEF a, changed, state
  <2>4. Acts(w, id, w, state, changed)
    BY <2>1, <2>3 DEF Acts, SameElements
  <2>5. Acted(w, id, a) /\ a.ports = w.ports
    BY <2>2, <2>4, ActsActed
  <2>6. PortsActed(w, id, a) /\ ReadsActed(w, id, a)
    BY <2>3, <2>5, PortsAlone
  <2> QED
    BY <2>5, <2>6 DEF a
<1> QED
  BY <1>1, <1>2

LEMMA WritesOf ==
  ASSUME NEW kind \in OutputKinds, NEW state \in States, NEW value \in Values
  PROVE  /\ Writes(kind, state, value) \subseteq Values
         /\ kind # "Reset" /\ state = "Stop" => Writes(kind, state, value) = {0}
         /\ kind = "Reset" => Writes(kind, state, value) \subseteq {0}
<1>1. 0 \in Values /\ MaxValue \in Values /\ MaxValue \in Nat
  BY ProgramAssumption DEF Values
<1>2. value \in Nat /\ value <= MaxValue
  BY <1>1 DEF Values
<1>3. DirectWrites(state) \subseteq Values /\ (state = "Stop" => DirectWrites(state) = {0})
  BY <1>1 DEF DirectWrites
<1>4. SetWrites(state) \subseteq Values /\ (state = "Stop" => SetWrites(state) = {0})
  BY <1>1 DEF SetWrites, States
<1>5. ResetWrites(state) \subseteq {0}
  BY DEF ResetWrites
<1>6. IncWrites(state, value) \subseteq Values /\ (state = "Stop" => IncWrites(state, value) = {0})
  <2>1. (IF value < MaxValue THEN value + 1 ELSE value) \in Values
    BY <1>1, <1>2 DEF Values
  <2> QED
    BY <1>1, <2>1 DEF IncWrites, States
<1>7. DecWrites(state, value) \subseteq Values /\ (state = "Stop" => DecWrites(state, value) = {0})
  <2>1. (IF value > 0 THEN value - 1 ELSE value) \in Values
    BY <1>1, <1>2 DEF Values
  <2> QED
    BY <1>1, <2>1 DEF DecWrites, States
<1> QED
  BY <1>1, <1>3, <1>4, <1>5, <1>6, <1>7 DEF Writes, OutputKinds

\* A walk in which a port is to be written.
Writing(w, port, after) == [w EXCEPT !.ports[port] = after]

LEMMA WritingWalk ==
  ASSUME NEW w \in WalkRecords, NEW port \in Ports, NEW after \in PortRecords
  PROVE  LET b == Writing(w, port, after) IN
         /\ b \in WalkRecords /\ SameElements(w, b) /\ b.requests = w.requests
         /\ b.continuation = w.continuation
         /\ b.ports = [w.ports EXCEPT ![port] = after]
<1> DEFINE written == [w.ports EXCEPT ![port] = after]
<1>1. written \in [Ports -> PortRecords]
  BY WalkParts
<1>2. Writing(w, port, after) = [w EXCEPT !.ports = written]
  BY DEF Writing, WalkRecords
<1> HIDE DEF written
<1>3. LET b == Writing(w, port, after) IN
      /\ b \in WalkRecords /\ SameElements(w, b) /\ b.requests = w.requests
      /\ b.continuation = w.continuation /\ b.ports = written
  BY <1>1, <1>2 DEF WalkRecords, SameElements
<1> QED
  BY <1>3 DEF written

LEMMA OutputActed ==
  ASSUME NEW w \in WalkRecords, NEW id \in Elements, ElementAt(id).kind \in OutputKinds
  PROVE  LET a == Output(w, id, ElementAt(id)) IN
         Acted(w, id, a) /\ PortsActed(w, id, a) /\ ReadsActed(w, id, a)
<1> DEFINE element == ElementAt(id)
           port == w.ports[element.port]
           writes == Writes(element.kind, w.state, port.value)
           value == CHOOSE v \in writes : TRUE
           after == IF writes = {} THEN port
                    ELSE [port EXCEPT !.writing = TRUE, !.out = value]
           a == Output(w, id, element)
<1>1. CASE ~(Guard(w) /\ w.state # w.elements[id])
  <2>1. a = LeaveAlone(w, id)
    BY <1>1 DEF Output
  <2>2. element.kind # "Contact"
    BY DEF OutputKinds
  <2> QED
    BY <1>1, <2>1, <2>2, LeaveAloneActed
<1>2. CASE Guard(w) /\ w.state # w.elements[id]
  <2> DEFINE b == Writing(w, element.port, after)
             changed == TRUE
  <2>1. element.port \in Ports /\ w.state \in States /\ changed \in BOOLEAN
    BY ElementKinds, WalkParts DEF Ports, Written
  <2>2. port \in PortRecords
    BY <2>1, WalkParts
  <2>3. a = Leave(b, id, w.state, changed)
    BY <1>2 DEF Output, Writing
  <2>4. /\ writes \subseteq Values
        /\ element.kind # "Reset" /\ w.state = "Stop" => writes = {0}
        /\ element.kind = "Reset" => writes \subseteq {0}
    <3>1. port.value \in Values
      BY <2>2 DEF PortRecords
    <3> HIDE DEF port
    <3> QED
      BY <2>1, <3>1, WritesOf
  <2>5. writes # {} => value \in writes
    OBVIOUS
  <2> HIDE DEF writes, value
  <2>6. /\ after \in PortRecords /\ after.value = port.value /\ after.reading = port.reading
        /\ ~after.writing => ~port.writing /\ after.out = port.out
        /\ after.out # 0 /\ after.out # port.out => element.kind # "Reset" /\ w.state # "Stop"
        /\ element.kind # "Reset" /\ w.state = "Stop" => after.out = 0
    <3>1. CASE writes = {}
      <4>1. after = port
        BY <3>1
      <4> QED
        BY <2>2, <2>4, <3>1, <4>1
    <3>2. CASE writes # {}
      <4>1. after = [port EXCEPT !.writing = TRUE, !.out = value] /\ value \in Values
        BY <2>4, <2>5, <3>2
      <4>2. after \in PortRecords /\ after.value = port.value /\ after.reading = port.reading
            /\ after.writing = TRUE /\ after.out = value
        <5> HIDE DEF after, port
        <5> QED
          BY <2>2, <4>1 DEF PortRecords
      <4> HIDE DEF after, port
      <4> QED
        BY <2>4, <2>5, <3>2, <4>2
    <3> QED
      BY <3>1, <3>2
  <2> HIDE DEF after
  <2>7. /\ b \in WalkRecords /\ SameElements(w, b) /\ b.requests = w.requests
        /\ b.ports = [w.ports EXCEPT ![element.port] = after]
    <3> HIDE DEF element
    <3> QED
      BY <2>1, <2>6, WritingWalk
  <2>8. \A p \in Ports : b.ports[p] = IF p = element.port THEN after ELSE w.ports[p]
    BY <2>7, WalkParts
  <2> HIDE DEF b, a, changed
  <2>9. Acts(w, id, b, w.state, changed)
    BY <1>2, <2>1, <2>7 DEF Acts, changed
  <2>10. Acted(w, id, a) /\ a.ports = b.ports /\ a.changed = changed /\ a.state = w.state
    BY <2>3, <2>9, ActsActed
  <2>11. PortsActed(w, id, a)
    <3> DEFINE Of(p) ==
          /\ a.ports[p].value = w.ports[p].value
          /\ ~a.ports[p].writing => ~w.ports[p].writing /\ a.ports[p].out = w.ports[p].out
          /\ a.ports[p].out # 0 /\ a.ports[p].out # w.ports[p].out =>
               element.kind \in OutputKinds \ {"Reset"} /\ element.port = p /\ a.state # "Stop"
    <3>1. ASSUME NEW p \in Ports
          PROVE  Of(p)
      <4>1. CASE p = element.port
        <5>1. a.ports[p] = after /\ w.ports[p] = port
          BY <2>8, <2>10, <4>1
        <5> QED
          BY <2>6, <2>10, <4>1, <5>1
      <4>2. CASE p # element.port
        <5>1. a.ports[p] = w.ports[p]
          BY <2>8, <2>10, <4>2
        <5>2. w.ports[p].writing \in BOOLEAN
          BY WalkParts DEF PortRecords
        <5> QED
          BY <5>1, <5>2
      <4> QED
        BY <4>1, <4>2
    <3>2. a.changed /\ a.ports[element.port] = after
      BY <2>1, <2>8, <2>10 DEF changed
    <3>3. element.kind \in OutputKinds \ {"Reset"} /\ a.state = "Stop" => a.ports[element.port].out = 0
      BY <2>6, <2>10, <3>2
    <3> QED
      BY <3>1, <3>2, <3>3 DEF PortsActed
  <2>12. ReadsActed(w, id, a)
    <3>1. ASSUME NEW p \in Ports
          PROVE  a.ports[p].reading = w.ports[p].reading
      BY <2>6, <2>8, <2>10
    <3>2. element.kind # "Contact"
      BY DEF OutputKinds
    <3> QED
      BY <3>1, <3>2 DEF ReadsActed
  <2> QED
    BY <2>10, <2>11, <2>12 DEF a
<1> QED
  BY <1>1, <1>2

\* The count of a timer or generator starts at a change of the element before,
\* goes on while there is power, and is over when its request is.
TimedActed(w, id, a) ==
  LET element == ElementAt(id)
      state == w.elements[id]
      first == IF element.kind = "Timer" THEN element.delay ELSE element.pause
  IN
  /\ w.state # "Active" =>
       IF Guard(w) /\ ~w.changed THEN a.requests = w.requests ELSE ~Waiting(a.requests, id)
  /\ w.state = "Active" /\ w.changed => Left(a.requests, id, first) /\ a.state = state
  /\ w.state = "Active" /\ ~w.changed /\ Waiting(w.requests, id) =>
       a.requests = w.requests /\ a.state = state
  /\ w.state = "Active" /\ ~w.changed /\ ~Waiting(w.requests, id) =>
       IF element.kind = "Timer"
       THEN a.state = "Active"
            /\ IF state = "Active" THEN a.requests = w.requests
               ELSE Left(a.requests, id, element.delay)
       ELSE IF state = "Active"
            THEN a.state = "Passive" /\ Left(a.requests, id, element.pause)
            ELSE a.state = "Active" /\ Left(a.requests, id, element.pulse)

LEMMA UncountedLeft ==
  ASSUME NEW w \in WalkRecords, NEW id \in Elements
  PROVE  /\ WellFormedQueue(Uncounted(w, id))
         /\ \A other, time : other # id =>
              (Left(Uncounted(w, id), other, time) <=> Left(w.requests, other, time))
         /\ IF Guard(w) /\ ~w.changed THEN Uncounted(w, id) = w.requests
            ELSE ~Waiting(Uncounted(w, id), id)
<1>1. WellFormedQueue(w.requests) /\ id \in Ids
  BY WalkParts, ElementKinds
<1> QED
  BY <1>1, RemovedLeft DEF Uncounted

LEMMA CountedLeft ==
  ASSUME NEW q, WellFormedQueue(q), NEW id \in Elements, NEW delay \in Nat
  PROVE  /\ WellFormedQueue(Counted(q, id, delay))
         /\ \A other, time : other # id =>
              (Left(Counted(q, id, delay), other, time) <=> Left(q, other, time))
         /\ IF Waiting(q, id) THEN Counted(q, id, delay) = q
            ELSE Left(Counted(q, id, delay), id, delay)
<1>1. id \in Ids /\ delay \in Int /\ "critical" \in Priorities
  BY ElementKinds DEF Priorities
<1>2. /\ WellFormedQueue(Added(q, id, delay, "critical"))
      /\ Waiting(q, id) => Added(q, id, delay, "critical") = q
      /\ \A other, time : other # id =>
           (Left(Added(q, id, delay, "critical"), other, time) <=> Left(q, other, time))
      /\ ~Waiting(q, id) => Left(Added(q, id, delay, "critical"), id, delay)
  BY <1>1, AddedLeft
<1> QED
  BY <1>2 DEF Counted

LEMMA TimerActed ==
  ASSUME NEW w \in WalkRecords, NEW id \in Elements, ElementAt(id).kind = "Timer"
  PROVE  LET a == Timer(w, id, ElementAt(id)) IN
         Acted(w, id, a) /\ PortsActed(w, id, a) /\ ReadsActed(w, id, a) /\ TimedActed(w, id, a)
<1> DEFINE element == ElementAt(id)
           state == w.elements[id]
           uncounted == Uncounted(w, id)
           counts == w.state = "Active" /\ (w.changed \/ state # "Active")
           completed == counts /\ ~w.changed /\ ~Waiting(uncounted, id)
           next == IF completed THEN "Active"
                   ELSE IF w.state = "Active" \/ ~Guard(w) THEN state ELSE w.state
           queue == IF counts THEN Counted(uncounted, id, element.delay) ELSE uncounted
           b == [w EXCEPT !.requests = queue]
           changed == next # state
           a == Timer(w, id, element)
<1>1. /\ element.delay \in Nat /\ element.kind \notin OutputKinds
      /\ w.state \in States /\ state \in States /\ next \in States
      /\ changed \in BOOLEAN /\ w.changed \in BOOLEAN
  BY ElementKinds, WalkParts DEF OutputKinds, States
<1>2. a = Leave(b, id, next, changed)
  BY DEF Timer
<1>3. /\ WellFormedQueue(uncounted)
      /\ \A other, time : other # id => (Left(uncounted, other, time) <=> Left(w.requests, other, time))
      /\ IF Guard(w) /\ ~w.changed THEN uncounted = w.requests ELSE ~Waiting(uncounted, id)
  BY UncountedLeft
<1>4. /\ WellFormedQueue(queue)
      /\ \A other, time : other # id => (Left(queue, other, time) <=> Left(w.requests, other, time))
      /\ ~counts => queue = uncounted
      /\ counts => IF Waiting(uncounted, id) THEN queue = uncounted ELSE Left(queue, id, element.delay)
  <2> HIDE DEF uncounted, element, counts
  <2> QED
    BY <1>1, <1>3, CountedLeft
<1>5. /\ ~changed => next = state
      /\ changed => next # state
      /\ w.state # "Active" => next = w.state \/ (~Guard(w) /\ next = state)
  OBVIOUS
<1>6. /\ w.state # "Active" => ~counts
      /\ w.state = "Active" /\ w.changed => counts /\ ~completed /\ next = state
      /\ w.state = "Active" /\ ~w.changed /\ state = "Active" => ~counts /\ next = state
      /\ w.state = "Active" /\ ~w.changed /\ state # "Active" =>
           /\ counts
           /\ next = IF Waiting(uncounted, id) THEN state ELSE "Active"
      /\ w.state = "Active" => Guard(w)
  BY DEF Guard
<1> HIDE DEF queue, counts, completed, next, changed, uncounted
<1>7. b \in WalkRecords /\ SameElements(w, b) /\ b.requests = queue /\ b.ports = w.ports
  BY <1>4, WithRequests
<1> HIDE DEF b, a
<1>8. Acts(w, id, b, next, changed)
  BY <1>1, <1>4, <1>5, <1>7 DEF Acts
<1>9. Acted(w, id, a) /\ a.ports = b.ports /\ a.requests = b.requests /\ a.state = next
  BY <1>2, <1>8, ActsActed
<1>10. PortsActed(w, id, a) /\ ReadsActed(w, id, a)
  BY <1>1, <1>7, <1>9, PortsAlone
<1>11. TimedActed(w, id, a)
  <2>1. w.state # "Active" =>
          IF Guard(w) /\ ~w.changed THEN a.requests = w.requests ELSE ~Waiting(a.requests, id)
    BY <1>3, <1>4, <1>6, <1>7, <1>9
  <2>2. w.state = "Active" /\ w.changed => Left(a.requests, id, element.delay) /\ a.state = state
    BY <1>3, <1>4, <1>6, <1>7, <1>9
  <2>3. w.state = "Active" /\ ~w.changed /\ Waiting(w.requests, id) =>
          a.requests = w.requests /\ a.state = state
    BY <1>3, <1>4, <1>6, <1>7, <1>9
  <2>4. w.state = "Active" /\ ~w.changed /\ ~Waiting(w.requests, id) =>
          /\ a.state = "Active"
          /\ IF state = "Active" THEN a.requests = w.requests ELSE Left(a.requests, id, element.delay)
    BY <1>3, <1>4, <1>6, <1>7, <1>9
  <2> QED
    BY <2>1, <2>2, <2>3, <2>4 DEF TimedActed
<1> QED
  BY <1>9, <1>10, <1>11 DEF a

LEMMA GeneratorActed ==
  ASSUME NEW w \in WalkRecords, NEW id \in Elements, ElementAt(id).kind = "Generator"
  PROVE  LET a == Generator(w, id, ElementAt(id)) IN
         Acted(w, id, a) /\ PortsActed(w, id, a) /\ ReadsActed(w, id, a) /\ TimedActed(w, id, a)
<1> DEFINE element == ElementAt(id)
           state == w.elements[id]
           uncounted == Uncounted(w, id)
           delay == IF w.changed \/ state = "Active" THEN element.pause ELSE element.pulse
           completed == ~w.changed /\ ~Waiting(uncounted, id)
           next == IF w.state = "Active"
                   THEN IF ~completed THEN state
                        ELSE IF state = "Active" THEN "Passive" ELSE "Active"
                   ELSE IF Guard(w) THEN w.state ELSE state
           queue == IF w.state = "Active" THEN Counted(uncounted, id, delay) ELSE uncounted
           b == [w EXCEPT !.requests = queue]
           changed == next # state
           a == Generator(w, id, element)
<1>1. /\ element.pause \in Nat /\ element.pulse \in Nat /\ delay \in Nat
      /\ element.kind \notin OutputKinds /\ element.kind # "Timer"
      /\ w.state \in States /\ state \in States /\ next \in States
      /\ changed \in BOOLEAN /\ w.changed \in BOOLEAN
  BY ElementKinds, WalkParts DEF OutputKinds, States
<1>2. a = Leave(b, id, next, changed)
  BY DEF Generator
<1>3. /\ WellFormedQueue(uncounted)
      /\ \A other, time : other # id => (Left(uncounted, other, time) <=> Left(w.requests, other, time))
      /\ IF Guard(w) /\ ~w.changed THEN uncounted = w.requests ELSE ~Waiting(uncounted, id)
  BY UncountedLeft
<1>4. /\ WellFormedQueue(queue)
      /\ \A other, time : other # id => (Left(queue, other, time) <=> Left(w.requests, other, time))
      /\ w.state # "Active" => queue = uncounted
      /\ w.state = "Active" =>
           IF Waiting(uncounted, id) THEN queue = uncounted ELSE Left(queue, id, delay)
  <2> HIDE DEF uncounted, element, delay
  <2> QED
    BY <1>1, <1>3, CountedLeft
<1>5. /\ ~changed => next = state
      /\ changed => next # state
      /\ w.state # "Active" => next = w.state \/ (~Guard(w) /\ next = state)
  OBVIOUS
<1>6. /\ w.state = "Active" /\ w.changed => delay = element.pause /\ next = state
      /\ w.state = "Active" /\ ~w.changed =>
           /\ delay = IF state = "Active" THEN element.pause ELSE element.pulse
           /\ next = IF Waiting(uncounted, id) THEN state
                     ELSE IF state = "Active" THEN "Passive" ELSE "Active"
      /\ w.state = "Active" => Guard(w)
  BY DEF Guard
<1> HIDE DEF queue, completed, next, changed, uncounted, delay
<1>7. b \in WalkRecords /\ SameElements(w, b) /\ b.requests = queue /\ b.ports = w.ports
  BY <1>4, WithRequests
<1> HIDE DEF b, a
<1>8. Acts(w, id, b, next, changed)
  BY <1>1, <1>4, <1>5, <1>7 DEF Acts
<1>9. Acted(w, id, a) /\ a.ports = b.ports /\ a.requests = b.requests /\ a.state = next
  BY <1>2, <1>8, ActsActed
<1>10. PortsActed(w, id, a) /\ ReadsActed(w, id, a)
  BY <1>1, <1>7, <1>9, PortsAlone
<1>11. TimedActed(w, id, a)
  <2>1. w.state # "Active" =>
          IF Guard(w) /\ ~w.changed THEN a.requests = w.requests ELSE ~Waiting(a.requests, id)
    BY <1>3, <1>4, <1>6, <1>7, <1>9
  <2>2. w.state = "Active" /\ w.changed => Left(a.requests, id, element.pause) /\ a.state = state
    BY <1>3, <1>4, <1>6, <1>7, <1>9
  <2>3. w.state = "Active" /\ ~w.changed /\ Waiting(w.requests, id) =>
          a.requests = w.requests /\ a.state = state
    BY <1>3, <1>4, <1>6, <1>7, <1>9
  <2>4. w.state = "Active" /\ ~w.changed /\ ~Waiting(w.requests, id) =>
          IF state = "Active" THEN a.state = "Passive" /\ Left(a.requests, id, element.pause)
          ELSE a.state = "Active" /\ Left(a.requests, id, element.pulse)
    BY <1>3, <1>4, <1>6, <1>7, <1>9
  <2> QED
    BY <1>1, <2>1, <2>2, <2>3, <2>4 DEF TimedActed
<1> QED
  BY <1>9, <1>10, <1>11 DEF a

\* Whatever the element is.
LEMMA DoActionActed ==
  ASSUME NEW w \in WalkRecords, NEW id \in Elements
  PROVE  LET a == DoAction(w, id) IN
         /\ Acted(w, id, a) /\ PortsActed(w, id, a) /\ ReadsActed(w, id, a)
         /\ id \in TimedElements => TimedActed(w, id, a)
<1> DEFINE kind == ElementAt(id).kind
<1>1. kind \in {"Contact", "Indicator", "Timer", "Generator", "ContinuationIn",
                "ContinuationOut"} \cup OutputKinds
  BY ElementKinds
<1>2. id \in TimedElements => kind \in {"Timer", "Generator"}
  BY DEF TimedElements
<1>3. CASE kind = "Contact"
  BY <1>2, <1>3, DoActionKinds, ContactActed, LeaveAloneActed
<1>4. CASE kind = "Indicator"
  BY <1>2, <1>4, DoActionKinds, IndicatorActed
<1>5. CASE kind = "Timer"
  BY <1>5, DoActionKinds, TimerActed
<1>6. CASE kind = "Generator"
  BY <1>6, DoActionKinds, GeneratorActed
<1>7. CASE kind = "ContinuationIn"
  BY <1>2, <1>7, DoActionKinds, ContinuationInActed
<1>8. CASE kind = "ContinuationOut"
  BY <1>2, <1>8, DoActionKinds, ContinuationOutActed
<1>9. CASE kind \in OutputKinds
  <2>1. kind \notin {"Timer", "Generator"}
    BY <1>9 DEF OutputKinds
  <2> QED
    BY <1>2, <1>9, <2>1, DoActionKinds, OutputActed
<1> QED
  BY <1>1, <1>3, <1>4, <1>5, <1>6, <1>7, <1>8, <1>9

\* What power makes of an element, by its kind, and what it makes of the
\* continuation; an indicator changes only to refresh, or to another state.
PowerActed(w, id, a) ==
  LET element == ElementAt(id)
      powered == w.state = "Active"
  IN
  /\ a.continuation = IF element.kind = "ContinuationIn" THEN w.state ELSE w.continuation
  /\ powered /\ element.kind = "Contact" =>
       a.state = IF w.ports[element.port].value \in element.passing THEN "Active" ELSE "Passive"
  /\ powered /\ element.kind \in {"Indicator", "ContinuationIn"} \cup OutputKinds => a.state = "Active"
  /\ powered /\ element.kind = "ContinuationOut" => a.state = w.continuation
  /\ powered /\ element.kind \in {"Generator", "Indicator"} => Waiting(a.requests, id)
  /\ element.kind = "Indicator" /\ a.changed =>
       a.state # w.elements[id] \/ (powered /\ (w.changed \/ ~Waiting(w.requests, id)))

LEMMA LeaveAlonePower ==
  ASSUME NEW w \in WalkRecords, NEW id \in Elements, w.state # "Active",
         ElementAt(id).kind # "ContinuationIn"
  PROVE  PowerActed(w, id, LeaveAlone(w, id))
<1>1. LeaveAlone(w, id).continuation = w.continuation /\ LeaveAlone(w, id).changed = FALSE
  BY DEF LeaveAlone, Leave, WalkRecords
<1>2. ElementAt(id).kind = "Indicator" => ~LeaveAlone(w, id).changed
  BY <1>1
<1> QED
  BY <1>1, <1>2 DEF PowerActed

LEMMA ContactPower ==
  ASSUME NEW w \in WalkRecords, NEW id \in Elements, ElementAt(id).kind = "Contact", Guard(w)
  PROVE  PowerActed(w, id, Contact(w, id, ElementAt(id)))
<1> DEFINE element == ElementAt(id)
           reads == w.state = "Active"
           passes == w.ports[element.port].value \in element.passing
           state == IF ~reads THEN w.state ELSE IF passes THEN "Active" ELSE "Passive"
           b == Asking(w, element.port, reads)
           a == Contact(w, id, element)
           changed == state # w.elements[id]
<1>1. element.port \in Ports /\ w.state \in States /\ element.kind \notin OutputKinds
  BY ElementKinds, WalkParts DEF OutputKinds
<1>2. state \in States /\ reads \in BOOLEAN /\ changed \in BOOLEAN
  BY <1>1 DEF States
<1>3. a = Leave(b, id, state, changed)
  BY DEF Contact, Asking
<1>4. reads <=> w.state = "Active"
  OBVIOUS
<1>5. reads => state = IF passes THEN "Active" ELSE "Passive"
  OBVIOUS
<1> HIDE DEF reads, state, changed
<1>6. b \in WalkRecords /\ b.continuation = w.continuation
  BY <1>1, <1>2, AskingWalk
<1> HIDE DEF a, b
<1>7. a.state = state /\ a.continuation = b.continuation
  BY <1>2, <1>3, <1>6 DEF Leave, WalkRecords
<1> QED
  BY <1>1, <1>4, <1>5, <1>6, <1>7 DEF PowerActed, a

LEMMA IndicatorPower ==
  ASSUME NEW w \in WalkRecords, NEW id \in Elements, ElementAt(id).kind = "Indicator"
  PROVE  PowerActed(w, id, Indicator(w, id, ElementAt(id)))
<1> DEFINE element == ElementAt(id)
           powered == w.state = "Active"
           refreshed == powered /\ (w.changed \/ ~Waiting(w.requests, id))
           requested == IF powered THEN Added(w.requests, id, UpdatePeriod, "idle") ELSE w.requests
           asked == [w EXCEPT !.requests = requested]
           b == Asking(asked, element.port, refreshed)
           a == Indicator(w, id, element)
           changed == refreshed \/ w.elements[id] # w.state
<1>1. element.port \in Ports /\ w.state \in States /\ refreshed \in BOOLEAN /\ changed \in BOOLEAN
      /\ element.kind \notin OutputKinds
  BY ElementKinds, WalkParts DEF OutputKinds
<1>2. CASE ~Guard(w)
  <2>1. a = LeaveAlone(w, id) /\ w.state # "Active"
    BY <1>2 DEF Indicator, Guard
  <2> QED
    BY <2>1, LeaveAlonePower
<1>3. CASE Guard(w)
  <2>1. a = Leave(b, id, w.state, changed)
    BY <1>3 DEF Indicator, WalkRecords, Asking
  <2>2. WellFormedQueue(requested) /\ (powered => Waiting(requested, id))
    <3>1. UpdatePeriod \in Int /\ "idle" \in Priorities /\ id \in Ids /\ WellFormedQueue(w.requests)
      BY ProgramAssumption, ElementKinds, WalkParts DEF Priorities
    <3> QED
      BY <3>1, AddedLeft
  <2>3. changed => w.elements[id] # w.state \/ (powered /\ (w.changed \/ ~Waiting(w.requests, id)))
    OBVIOUS
  <2> HIDE DEF requested, refreshed, changed
  <2>4. asked \in WalkRecords /\ asked.requests = requested /\ asked.continuation = w.continuation
    BY <2>2, WithRequests
  <2> HIDE DEF asked
  <2>5. b \in WalkRecords /\ b.requests = requested /\ b.continuation = w.continuation
    BY <1>1, <2>4, AskingWalk
  <2> HIDE DEF a, b
  <2>6. /\ a.state = w.state /\ a.changed = changed
        /\ a.requests = requested /\ a.continuation = w.continuation
    BY <1>1, <2>1, <2>5 DEF Leave, WalkRecords
  <2> QED
    BY <1>1, <2>2, <2>3, <2>6 DEF PowerActed, a
<1> QED
  BY <1>2, <1>3

LEMMA TimedPower ==
  ASSUME NEW w \in WalkRecords, NEW id \in Elements, ElementAt(id).kind \in {"Timer", "Generator"}
  PROVE  PowerActed(w, id, DoAction(w, id))
<1> DEFINE a == DoAction(w, id)
<1>1. ElementAt(id).kind \notin OutputKinds
  BY DEF OutputKinds
<1>2. TimedActed(w, id, a) /\ a \in WalkRecords
  BY DoActionActed DEF TimedElements, Acted
<1>3. a.continuation = w.continuation
  <2>1. Timer(w, id, ElementAt(id)).continuation = w.continuation
    BY DEF Timer, Leave, WalkRecords
  <2>2. Generator(w, id, ElementAt(id)).continuation = w.continuation
    BY DEF Generator, Leave, WalkRecords
  <2> QED
    BY <2>1, <2>2, DoActionKinds
<1>4. w.state = "Active" /\ ElementAt(id).kind = "Generator" => Waiting(a.requests, id)
  BY <1>2 DEF TimedActed, Left, Waiting
<1> QED
  BY <1>1, <1>3, <1>4 DEF PowerActed

LEMMA OutputPower ==
  ASSUME NEW w \in WalkRecords, NEW id \in Elements, ElementAt(id).kind \in OutputKinds
  PROVE  PowerActed(w, id, Output(w, id, ElementAt(id)))
<1> DEFINE a == Output(w, id, ElementAt(id))
<1>1. ElementAt(id).kind \notin {"Contact", "Indicator", "Generator", "ContinuationIn", "ContinuationOut"}
  BY DEF OutputKinds
<1>2. a.continuation = w.continuation
  BY DEF Output, LeaveAlone, Leave, WalkRecords
<1>3. w.state = "Active" => a.state = "Active"
  BY DEF Output, LeaveAlone, Leave, WalkRecords, Guard
<1> QED
  BY <1>1, <1>2, <1>3 DEF PowerActed

LEMMA ContinuationPower ==
  ASSUME NEW w \in WalkRecords, NEW id \in Elements,
         ElementAt(id).kind \in {"ContinuationIn", "ContinuationOut"}
  PROVE  PowerActed(w, id, DoAction(w, id))
<1> DEFINE a == DoAction(w, id)
<1>1. ElementAt(id).kind \notin OutputKinds
  BY DEF OutputKinds
<1>2. CASE ElementAt(id).kind = "ContinuationIn"
  <2>1. a = ContinuationIn(w, id)
    BY <1>2, DoActionKinds
  <2>2. a.continuation = w.state /\ (w.state = "Active" => a.state = "Active")
    BY <2>1 DEF ContinuationIn, LeaveAlone, Leave, WalkRecords, Guard
  <2> QED
    BY <1>2, <2>2 DEF PowerActed
<1>3. CASE ElementAt(id).kind = "ContinuationOut"
  <2>1. a = ContinuationOut(w, id)
    BY <1>3, DoActionKinds
  <2>2. a.continuation = w.continuation /\ (w.state = "Active" => a.state = w.continuation)
    BY <2>1 DEF ContinuationOut, LeaveAlone, Leave, WalkRecords, Guard
  <2> QED
    BY <1>1, <1>3, <2>2 DEF PowerActed
<1> QED
  BY <1>2, <1>3

LEMMA DoActionPower ==
  ASSUME NEW w \in WalkRecords, NEW id \in Elements
  PROVE  PowerActed(w, id, DoAction(w, id))
<1> DEFINE kind == ElementAt(id).kind
<1>1. kind \in {"Contact", "Indicator", "Timer", "Generator", "ContinuationIn",
                "ContinuationOut"} \cup OutputKinds
  BY ElementKinds
<1>2. CASE kind = "Contact"
  <2>1. ~Guard(w) => w.state # "Active"
    BY DEF Guard
  <2> QED
    BY <1>2, <2>1, DoActionKinds, ContactPower, LeaveAlonePower
<1>3. CASE kind = "Indicator"
  BY <1>3, DoActionKinds, IndicatorPower
<1>4. CASE kind \in {"Timer", "Generator"}
  BY <1>4, TimedPower
<1>5. CASE kind \in {"ContinuationIn", "ContinuationOut"}
  BY <1>5, ContinuationPower
<1>6. CASE kind \in OutputKinds
  BY <1>6, DoActionKinds, OutputPower
<1> QED
  BY <1>1, <1>2, <1>3, <1>4, <1>5, <1>6
-----------------------------------------------------------------------------
(* The walk over the program, element by element *)

NetworkStates == [state : {"Active", "Passive", "StopFromActive", "StopFromPassive"},
                  changed : BOOLEAN]
NetworksTyped == networks \in [DOMAIN Program -> NetworkStates]

LEMMA EnteredFields ==
  ASSUME NetworksTyped, NEW w \in WalkRecords, NEW n \in DOMAIN Program
  PROVE  /\ Entered(w, n) \in WalkRecords
         /\ Entered(w, n).state = RailState(networks[n].state)
         /\ Entered(w, n).changed = networks[n].changed
         /\ Entered(w, n).elements = w.elements /\ Entered(w, n).ports = w.ports
         /\ Entered(w, n).requests = w.requests /\ Entered(w, n).anyChanges = w.anyChanges
         /\ Entered(w, n).continuation = w.continuation
<1>1. networks[n].changed \in BOOLEAN /\ RailState(networks[n].state) \in States
  BY DEF NetworksTyped, NetworkStates, RailState, States
<1> QED
  BY <1>1 DEF Entered, WalkRecords

LEMMA ProgramIsSequence ==
  /\ Len(Program) \in Nat /\ DOMAIN Program = 1..Len(Program)
  /\ \A n \in DOMAIN Program : Len(Program[n]) \in Nat /\ DOMAIN Program[n] = 1..Len(Program[n])
  /\ \A id : id \in Elements <=>
       \E n \in 1..Len(Program) : \E i \in 1..Len(Program[n]) : id = <<n, i>>
<1>1. Len(Program) \in Nat /\ DOMAIN Program = 1..Len(Program)
  BY ProgramAssumption
<1>2. \A n \in DOMAIN Program : Len(Program[n]) \in Nat /\ DOMAIN Program[n] = 1..Len(Program[n])
  BY ProgramAssumption
<1>3. \A id : id \in Elements <=> \E n \in DOMAIN Program : \E i \in DOMAIN Program[n] : id = <<n, i>>
  BY DEF Elements
<1>4. ASSUME NEW id
      PROVE  id \in Elements <=> \E n \in 1..Len(Program) : \E i \in 1..Len(Program[n]) : id = <<n, i>>
  BY <1>1, <1>2, <1>3
<1> QED
  BY <1>1, <1>2, <1>4

\* If every element leads from one set of walks to the next one, a network
\* leads from the first to the last.
LEMMA NetworkStages ==
  ASSUME NetworksTyped, NEW w \in WalkRecords, NEW n \in DOMAIN Program,
         NEW stages \in [0..Len(Program[n]) -> SUBSET WalkRecords],
         Entered(w, n) \in stages[0],
         \A i \in 1..Len(Program[n]) : \A v \in stages[i - 1] : DoAction(v, <<n, i>>) \in stages[i]
  PROVE  WalkNetwork(w, n) \in stages[Len(Program[n])]
<1> DEFINE length == Len(Program[n])
           walked[i \in 0..length] ==
             IF i = 0 THEN Entered(w, n) ELSE DoAction(walked[i - 1], <<n, i>>)
           Step == [p \in WalkRecords \X (1..length) |-> DoAction(p[1], <<n, p[2]>>)]
<1>1. length \in Nat /\ \A i \in 1..length : <<n, i>> \in Elements
  BY ProgramIsSequence
<1>2. \A v \in WalkRecords : \A i \in 1..length : DoAction(v, <<n, i>>) \in WalkRecords
  BY <1>1, DoActionActed DEF Acted
<1>3. Step \in [WalkRecords \X (1..length) -> WalkRecords]
  BY <1>2
<1>4. \A v \in WalkRecords : \A i \in 1..length : Step[<<v, i>>] = DoAction(v, <<n, i>>)
  OBVIOUS
<1>5. WalkNetwork(w, n) = walked[length]
  BY DEF WalkNetwork
<1> HIDE DEF Step
<1>6. PICK f \in [0..length -> WalkRecords] :
        Iterates(f, Entered(w, n), Step, length)
  <2>1. Entered(w, n) \in WalkRecords
    BY EnteredFields
  <2>2. length \in Nat
    BY <1>1
  <2> HIDE DEF length, walked
  <2> QED
    BY <1>3, <2>1, <2>2, IterationExists
<1>7. \A i \in 1..length : f[i] = DoAction(f[i - 1], <<n, i>>)
  <2> TAKE i \in 1..length
  <2>1. f[i] = Step[<<f[i - 1], i>>]
    BY <1>6 DEF Iterates
  <2>2. i - 1 \in 0..length
    BY <1>1
  <2>3. f[i - 1] \in WalkRecords
    BY <1>6, <2>2
  <2> QED
    BY <1>4, <2>1, <2>3
<1>8. f = [i \in 0..length |-> IF i = 0 THEN Entered(w, n) ELSE DoAction(f[i - 1], <<n, i>>)]
  <2>1. \A i \in 0..length : f[i] = IF i = 0 THEN Entered(w, n) ELSE DoAction(f[i - 1], <<n, i>>)
    BY <1>1, <1>6, <1>7 DEF Iterates
  <2> QED
    BY <1>6, <2>1
<1>9. walked = [i \in 0..length |->
                  IF i = 0 THEN Entered(w, n) ELSE DoAction(walked[i - 1], <<n, i>>)]
  BY <1>8
<1> HIDE DEF walked
<1> DEFINE G == {i \in Nat : i <= length => walked[i] \in stages[i]}
<1>10. 0 \in G
  <2>1. walked[0] = Entered(w, n)
    BY <1>1, <1>9
  <2> QED
    BY <2>1
<1>11. ASSUME NEW i \in Nat, i \in G
       PROVE  i + 1 \in G
  <2> SUFFICES ASSUME i + 1 <= length
               PROVE  walked[i + 1] \in stages[i + 1]
    OBVIOUS
  <2>1. i + 1 \in 0..length /\ i + 1 \in 1..length /\ i + 1 # 0 /\ (i + 1) - 1 = i
    BY <1>1
  <2>2. walked[i + 1] = DoAction(walked[i], <<n, i + 1>>)
    BY <1>9, <2>1
  <2>3. walked[i] \in stages[i]
    BY <1>1, <1>11
  <2> QED
    BY <2>1, <2>2, <2>3
<1>12. Nat \subseteq G
  <2> HIDE DEF G
  <2> QED
    BY <1>10, <1>11, SetInduction
<1> QED
  BY <1>1, <1>5, <1>12

LEMMA WalkNetworkWalk ==
  ASSUME NetworksTyped, NEW w \in WalkRecords, NEW n \in DOMAIN Program
  PROVE  WalkNetwork(w, n) \in WalkRecords
<1> DEFINE stages == [i \in 0..Len(Program[n]) |-> WalkRecords]
<1>1. Len(Program[n]) \in Nat /\ \A i \in 1..Len(Program[n]) : <<n, i>> \in Elements
  BY ProgramIsSequence
<1>2. \A v \in WalkRecords : \A i \in 1..Len(Program[n]) : DoAction(v, <<n, i>>) \in WalkRecords
  BY <1>1, DoActionActed DEF Acted
<1>3. stages \in [0..Len(Program[n]) -> SUBSET WalkRecords] /\ \A i \in 0..Len(Program[n]) : stages[i] = WalkRecords
  OBVIOUS
<1> HIDE DEF stages
<1>4. Entered(w, n) \in stages[0]
  BY <1>1, <1>3, EnteredFields
<1>5. \A i \in 1..Len(Program[n]) : \A v \in stages[i - 1] : DoAction(v, <<n, i>>) \in stages[i]
  BY <1>1, <1>2, <1>3
<1>6. WalkNetwork(w, n) \in stages[Len(Program[n])]
  BY <1>3, <1>4, <1>5, NetworkStages
<1> QED
  BY <1>1, <1>3, <1>6

\* The same for the networks of the program.
LEMMA ProgramStages ==
  ASSUME NetworksTyped, NEW stages \in [0..Len(Program) -> SUBSET WalkRecords],
         WalkStart \in stages[0],
         \A n \in 1..Len(Program) : \A v \in stages[n - 1] : WalkNetwork(v, n) \in stages[n]
  PROVE  Walked \in stages[Len(Program)]
<1> DEFINE length == Len(Program)
           walked[n \in 0..length] ==
             IF n = 0 THEN WalkStart ELSE WalkNetwork(walked[n - 1], n)
           Step == [p \in WalkRecords \X (1..length) |-> WalkNetwork(p[1], p[2])]
<1>1. length \in Nat /\ DOMAIN Program = 1..length
  BY ProgramIsSequence
<1>2. \A v \in WalkRecords : \A n \in 1..length : WalkNetwork(v, n) \in WalkRecords
  BY <1>1, WalkNetworkWalk
<1>3. Step \in [WalkRecords \X (1..length) -> WalkRecords]
  BY <1>2
<1>4. \A v \in WalkRecords : \A n \in 1..length : Step[<<v, n>>] = WalkNetwork(v, n)
  OBVIOUS
<1>5. Walked = walked[length]
  BY DEF Walked
<1> HIDE DEF Step
<1>6. WalkStart \in WalkRecords
  BY <1>1
<1>7. PICK f \in [0..length -> WalkRecords] :
        Iterates(f, WalkStart, Step, length)
  <2>1. length \in Nat
    BY <1>1
  <2> HIDE DEF length, walked
  <2> QED
    BY <1>3, <1>6, <2>1, IterationExists
<1>8. \A n \in 1..length : f[n] = WalkNetwork(f[n - 1], n)
  <2> TAKE n \in 1..length
  <2>1. f[n - 1] \in WalkRecords /\ f[n] = Step[<<f[n - 1], n>>]
    BY <1>1, <1>7 DEF Iterates
  <2> QED
    BY <1>4, <2>1
<1>9. f = [n \in 0..length |-> IF n = 0 THEN WalkStart ELSE WalkNetwork(f[n - 1], n)]
  <2>1. \A n \in 0..length : f[n] = IF n = 0 THEN WalkStart ELSE WalkNetwork(f[n - 1], n)
    BY <1>1, <1>7, <1>8 DEF Iterates
  <2> QED
    BY <1>7, <2>1
<1>10. walked = [n \in 0..length |->
                   IF n = 0 THEN WalkStart ELSE WalkNetwork(walked[n - 1], n)]
  BY <1>9
<1> HIDE DEF walked
<1> DEFINE G == {n \in Nat : n <= length => walked[n] \in stages[n]}
<1>11. 0 \in G
  <2>1. walked[0] = WalkStart
    BY <1>1, <1>10
  <2> QED
    BY <2>1
<1>12. ASSUME NEW n \in Nat, n \in G
       PROVE  n + 1 \in G
  <2> SUFFICES ASSUME n + 1 <= length
               PROVE  walked[n + 1] \in stages[n + 1]
    OBVIOUS
  <2>1. n + 1 \in 0..length /\ n + 1 \in 1..length /\ n + 1 # 0 /\ (n + 1) - 1 = n
    BY <1>1
  <2>2. walked[n + 1] = WalkNetwork(walked[n], n + 1)
    BY <1>10, <2>1
  <2>3. walked[n] \in stages[n]
    BY <1>1, <1>12
  <2> QED
    BY <2>1, <2>2, <2>3
<1>13. Nat \subseteq G
  <2> HIDE DEF G
  <2> QED
    BY <1>11, <1>12, SetInduction
<1> QED
  BY <1>1, <1>5, <1>13

\* A set of walks that every network and every element keep holds the last one.
LEMMA WalkInduction ==
  ASSUME NetworksTyped, NEW Good \in SUBSET WalkRecords, WalkStart \in Good,
         \A v \in Good : \A n \in DOMAIN Program : Entered(v, n) \in Good,
         \A v \in Good : \A id \in Elements : DoAction(v, id) \in Good
  PROVE  Walked \in Good
<1>1. ASSUME NEW n \in DOMAIN Program, NEW v \in Good
      PROVE  WalkNetwork(v, n) \in Good
  <2> DEFINE stages == [i \in 0..Len(Program[n]) |-> Good]
  <2>1. Len(Program[n]) \in Nat /\ \A i \in 1..Len(Program[n]) : <<n, i>> \in Elements
    BY ProgramIsSequence
  <2>2. stages \in [0..Len(Program[n]) -> SUBSET WalkRecords] /\ \A i \in 0..Len(Program[n]) : stages[i] = Good
    OBVIOUS
  <2> HIDE DEF stages
  <2>3. Entered(v, n) \in stages[0]
    BY <2>1, <2>2
  <2>4. \A i \in 1..Len(Program[n]) : \A u \in stages[i - 1] : DoAction(u, <<n, i>>) \in stages[i]
    BY <2>1, <2>2
  <2>5. WalkNetwork(v, n) \in stages[Len(Program[n])]
    BY <2>2, <2>3, <2>4, NetworkStages
  <2> QED
    BY <2>1, <2>2, <2>5
<1> DEFINE stages == [n \in 0..Len(Program) |-> Good]
<1>2. Len(Program) \in Nat /\ DOMAIN Program = 1..Len(Program)
  BY ProgramIsSequence
<1>3. stages \in [0..Len(Program) -> SUBSET WalkRecords] /\ \A n \in 0..Len(Program) : stages[n] = Good
  OBVIOUS
<1> HIDE DEF stages
<1>4. WalkStart \in stages[0]
  BY <1>2, <1>3
<1>5. \A n \in 1..Len(Program) : \A v \in stages[n - 1] : WalkNetwork(v, n) \in stages[n]
  BY <1>1, <1>2, <1>3
<1>6. Walked \in stages[Len(Program)]
  BY <1>3, <1>4, <1>5, ProgramStages
<1> QED
  BY <1>2, <1>3, <1>6
-----------------------------------------------------------------------------
(* A pass, as what each element acts on and what it leaves *)

ProgramTyped ==
  /\ NetworksTyped
  /\ elements \in [Elements -> States]
  /\ continuation \in States
  /\ ports \in [Ports -> PortRecords]
  /\ WellFormedQueue(requests)
  /\ analog \in AnalogValues
  /\ pins \in [DigitalOutputs -> BOOLEAN]

LEMMA ElementPlace ==
  ASSUME NEW id \in Elements
  PROVE  /\ id = <<id[1], id[2]>>
         /\ id[1] \in DOMAIN Program /\ id[1] \in Nat
         /\ id[2] \in Nat \ {0} /\ id[2] <= Len(Program[id[1]])
         /\ id[2] # 1 => <<id[1], id[2] - 1>> \in Elements
<1>1. PICK n \in 1..Len(Program) : \E i \in 1..Len(Program[n]) : id = <<n, i>>
  BY ProgramIsSequence
<1>2. PICK i \in 1..Len(Program[n]) : id = <<n, i>>
  BY <1>1
<1>3. Len(Program[n]) \in Nat /\ Len(Program) \in Nat /\ n \in DOMAIN Program
  BY ProgramIsSequence
<1>4. i # 1 => <<n, i - 1>> \in Elements
  <2> SUFFICES ASSUME i # 1
               PROVE  <<n, i - 1>> \in Elements
    OBVIOUS
  <2>1. i - 1 \in 1..Len(Program[n])
    BY <1>3
  <2> QED
    BY <2>1, ProgramIsSequence
<1> QED
  BY <1>2, <1>3, <1>4

LEMMA FetchedPort ==
  ASSUME ProgramTyped
  PROVE  /\ FetchedPorts \in [Ports -> PortRecords]
         /\ \A p \in Ports :
              /\ FetchedPorts[p].out = ports[p].out
              /\ FetchedPorts[p].writing = ports[p].writing
              /\ FetchedPorts[p].reading <=> (ports[p].reading /\ ~Fetches(ports, requests, p))
<1>1. \A p \in Ports : ports[p] \in PortRecords
  BY DEF ProgramTyped
<1>2. \A p \in Ports \ Variables : Sources[p] \in Values
  <2>1. MaxValue \in Values /\ 0 \in Values
    BY ProgramAssumption DEF Values
  <2>2. analog \in Values
    BY CycleAssumption DEF ProgramTyped
  <2>3. ASSUME NEW p \in Ports \ Variables
        PROVE  Sources[p] = CASE p = "DI" -> IF closed THEN MaxValue ELSE 0
                              [] p = "AI" -> analog
                              [] OTHER -> IF pins[p] THEN MaxValue ELSE 0
    BY DEF Sources
  <2> QED
    BY <2>1, <2>2, <2>3
<1>3. ASSUME NEW p \in Ports
      PROVE  /\ FetchedPorts[p] \in PortRecords
             /\ FetchedPorts[p].out = ports[p].out
             /\ FetchedPorts[p].writing = ports[p].writing
             /\ FetchedPorts[p].reading <=> (ports[p].reading /\ ~Fetches(ports, requests, p))
  <2> DEFINE value == IF p \in Variables THEN ports[p].out ELSE Sources[p]
  <2>1. value \in Values
    BY <1>1, <1>2 DEF PortRecords
  <2>2. FetchedPorts[p] = IF Fetches(ports, requests, p)
                          THEN [ports[p] EXCEPT !.reading = FALSE, !.value = value] ELSE ports[p]
    BY DEF FetchedPorts, Fetched
  <2> HIDE DEF value
  <2>3. CASE Fetches(ports, requests, p)
    <3>1. FetchedPorts[p] = [ports[p] EXCEPT !.reading = FALSE, !.value = value]
      BY <2>2, <2>3
    <3> QED
      BY <1>1, <2>1, <2>3, <3>1 DEF PortRecords
  <2>4. CASE ~Fetches(ports, requests, p)
    <3>1. FetchedPorts[p] = ports[p]
      BY <2>2, <2>4
    <3> QED
      BY <1>1, <2>4, <3>1 DEF PortRecords
  <2> QED
    BY <2>3, <2>4
<1>4. FetchedPorts = [p \in Ports |-> FetchedPorts[p]]
  BY DEF FetchedPorts, Fetched
<1> QED
  BY <1>3, <1>4

LEMMA ScannedLeft ==
  ASSUME ProgramTyped
  PROVE  /\ WellFormedQueue(Scanned(ports, requests))
         /\ \A id, time : id # AI => (Left(Scanned(ports, requests), id, time) <=> Left(requests, id, time))
         /\ Waiting(requests, AI) => Waiting(Scanned(ports, requests), AI)
         /\ Fetches(ports, requests, "AI") => Waiting(Scanned(ports, requests), AI)
<1>1. AI \in Ids /\ ScanPeriod \in Int /\ "idle" \in Priorities
  BY ProgramAssumption DEF Priorities
<1> QED
  BY <1>1, AddedLeft DEF Scanned, ProgramTyped

LEMMA WalkStartWalk ==
  ASSUME ProgramTyped
  PROVE  /\ WalkStart \in WalkRecords
         /\ WalkStart.elements = elements /\ WalkStart.ports = FetchedPorts
         /\ WalkStart.requests = Scanned(ports, requests)
         /\ WalkStart.continuation = continuation /\ ~WalkStart.anyChanges
BY FetchedPort, ScannedLeft, QueuesWellFormed DEF WalkStart, WalkRecords, ProgramTyped, States

\* The walk has not come to an element.
Untouched(w, id) ==
  /\ w.elements[id] = elements[id]
  /\ \A time : Left(w.requests, id, time) <=> Left(requests, id, time)

\* The elements in the order of the walk.
Precedes(id, other) == id[1] < other[1] \/ (id[1] = other[1] /\ id[2] < other[2])
Earlier(id) == {other \in Elements : Precedes(other, id)}

LEMMA PrecedesOrders ==
  ASSUME NEW id \in Elements, NEW other \in Elements, NEW another \in Elements
  PROVE  /\ ~Precedes(id, id)
         /\ ~(Precedes(id, other) /\ Precedes(other, id))
         /\ Precedes(id, other) /\ Precedes(other, another) => Precedes(id, another)
<1>1. /\ id[1] \in Nat /\ id[2] \in Nat
      /\ other[1] \in Nat /\ other[2] \in Nat
      /\ another[1] \in Nat /\ another[2] \in Nat
  BY ElementPlace
<1> QED
  BY <1>1 DEF Precedes

\* The continuation that a walk has where it has visited some elements: what the
\* last ContinuationIn among them has before it.
IsContinuationIn(id) == ElementAt(id).kind = "ContinuationIn"

LastIn(last, visited) ==
  /\ last \in visited /\ IsContinuationIn(last)
  /\ \A id \in visited : IsContinuationIn(id) => id = last \/ Precedes(id, last)

Continued(state, visited, states) ==
  \/ (\A id \in visited : ~IsContinuationIn(id)) /\ state = continuation
  \/ \E last \in visited : LastIn(last, visited) /\ state = InputOf(last, networks, states)

LEMMA OneLastIn ==
  ASSUME NEW visited, visited \subseteq Elements, NEW last, LastIn(last, visited),
         NEW other, LastIn(other, visited)
  PROVE  last = other
<1>1. last \in Elements /\ other \in Elements
  BY DEF LastIn
<1>2. last = other \/ (Precedes(last, other) /\ Precedes(other, last))
  BY DEF LastIn
<1> QED
  BY <1>1, <1>2, PrecedesOrders

LEMMA OneContinuation ==
  ASSUME NEW visited, visited \subseteq Elements, NEW states,
         NEW state, Continued(state, visited, states),
         NEW other, Continued(other, visited, states)
  PROVE  state = other
<1>1. CASE \A id \in visited : ~IsContinuationIn(id)
  BY <1>1 DEF Continued, LastIn
<1>2. CASE ~(\A id \in visited : ~IsContinuationIn(id))
  <2>1. PICK last \in visited : LastIn(last, visited) /\ state = InputOf(last, networks, states)
    BY <1>2 DEF Continued
  <2>2. PICK last2 \in visited : LastIn(last2, visited) /\ other = InputOf(last2, networks, states)
    BY <1>2 DEF Continued
  <2>3. last = last2
    BY <2>1, <2>2, OneLastIn
  <2> QED
    BY <2>1, <2>2, <2>3
<1> QED
  BY <1>1, <1>2

\* In a walk that has got to w, the element id has acted on u.
Visits(u, w, id) ==
  LET a == DoAction(u, id)
      input == InputOf(id, networks, w.elements)
  IN
  /\ Untouched(u, id)
  /\ u.state = input
  /\ IF id[2] = 1 THEN u.changed = networks[id[1]].changed
     ELSE /\ ~u.changed => input = elements[<<id[1], id[2] - 1>>]
          /\ u.changed /\ ElementAt(<<id[1], id[2] - 1>>).kind # "Indicator" =>
               input # elements[<<id[1], id[2] - 1>>]
          /\ u.changed => w.anyChanges
  /\ a.state = w.elements[id]
  /\ \A time : Left(a.requests, id, time) <=> Left(w.requests, id, time)
  /\ a.changed => w.anyChanges
  /\ \A p \in Ports : a.ports[p].reading => w.ports[p].reading
  /\ \A p \in Ports : u.ports[p].value = FetchedPorts[p].value
  /\ Continued(u.continuation, Earlier(id), w.elements)

\* A port is asked for by whom the walk has visited, or changes something.
ReadFor(w, p, visited) ==
  \/ FetchedPorts[p].reading
  \/ w.anyChanges
  \/ \E id \in visited : /\ ElementAt(id).kind = "Contact" /\ ElementAt(id).port = p
                         /\ InputOf(id, networks, w.elements) = "Active"

\* The walks that have visited some elements and not the others.
Visited(visited) ==
  {w \in WalkRecords :
     /\ \A id \in visited : \E u \in WalkRecords : Visits(u, w, id)
     /\ \A id \in Elements \ visited : Untouched(w, id)
     /\ \A p \in Ports : w.ports[p].reading => ReadFor(w, p, visited)
     /\ \A p \in Ports : w.ports[p].value = FetchedPorts[p].value
     /\ Continued(w.continuation, visited, w.elements)}

\* Those that come to the element id next.
ComingTo(w, id) ==
  IF id[2] = 1
  THEN w.state = RailState(networks[id[1]].state) /\ w.changed = networks[id[1]].changed
  ELSE LET before == <<id[1], id[2] - 1>> IN
       /\ w.state = w.elements[before]
       /\ ~w.changed => w.elements[before] = elements[before]
       /\ w.changed => w.anyChanges
       /\ w.changed /\ ElementAt(before).kind # "Indicator" => w.elements[before] # elements[before]

\* What comes before the element id is visited, and id is not.
ComesNext(visited, id) ==
  /\ visited = Earlier(id) /\ visited \subseteq Elements /\ id \notin visited
  /\ id[2] # 1 => <<id[1], id[2] - 1>> \in visited
  /\ \A other \in visited : other[2] # 1 => <<other[1], other[2] - 1>> \in visited

LEMMA KeptInput ==
  ASSUME NEW states, NEW others, NEW id \in Elements,
         id[2] # 1 => others[<<id[1], id[2] - 1>>] = states[<<id[1], id[2] - 1>>]
  PROVE  InputOf(id, networks, others) = InputOf(id, networks, states)
BY DEF InputOf

\* What has been visited keeps its input, and the walk its continuation.
LEMMA InputKept ==
  ASSUME NEW id \in Elements, NEW visited, ComesNext(visited, id), NEW w \in WalkRecords,
         NEW other \in visited
  PROVE  InputOf(other, networks, DoAction(w, id).elements) = InputOf(other, networks, w.elements)
<1> DEFINE a == DoAction(w, id)
           before == <<other[1], other[2] - 1>>
<1>1. a.elements = [w.elements EXCEPT ![id] = a.state] /\ w.elements \in [Elements -> States]
  BY DoActionActed, WalkParts DEF Acted
<1> HIDE DEF a
<1>2. other \in Elements /\ (other[2] # 1 => before \in Elements /\ before # id)
  BY ElementPlace DEF ComesNext
<1>3. other[2] # 1 => a.elements[before] = w.elements[before]
  BY <1>1, <1>2
<1> QED
  BY <1>2, <1>3, KeptInput DEF a

LEMMA ContinuedKept ==
  ASSUME NEW id \in Elements, NEW visited, ComesNext(visited, id), NEW w \in WalkRecords,
         NEW some, some \subseteq visited, NEW state, Continued(state, some, w.elements)
  PROVE  Continued(state, some, DoAction(w, id).elements)
BY InputKept DEF Continued

\* What has been visited is not touched again.
LEMMA VisitKept ==
  ASSUME NEW id \in Elements, NEW visited, ComesNext(visited, id), NEW w \in WalkRecords,
         NEW other \in visited, NEW u \in WalkRecords, Visits(u, w, other)
  PROVE  /\ Visits(u, DoAction(w, id), other)
         /\ InputOf(other, networks, DoAction(w, id).elements) = InputOf(other, networks, w.elements)
<1> DEFINE a == DoAction(w, id)
           before == <<other[1], other[2] - 1>>
<1>1. Acted(w, id, a) /\ ReadsActed(w, id, a)
  BY DoActionActed
<1> HIDE DEF a
<1>2. other \in Elements /\ other # id /\ (other[2] # 1 => before \in visited /\ before # id)
  BY DEF ComesNext
<1>3. other[2] # 1 => before \in Elements
  BY <1>2, ElementPlace
<1>4. a.elements = [w.elements EXCEPT ![id] = a.state] /\ w.elements \in [Elements -> States]
  BY <1>1, WalkParts DEF Acted
<1>5. a.elements[other] = w.elements[other] /\ (other[2] # 1 => a.elements[before] = w.elements[before])
  BY <1>2, <1>3, <1>4
<1>6. InputOf(other, networks, a.elements) = InputOf(other, networks, w.elements)
  BY <1>2, <1>5, KeptInput
<1>7. \A time : Left(a.requests, other, time) <=> Left(w.requests, other, time)
  BY <1>1, <1>2 DEF Acted
<1>8. (w.anyChanges => a.anyChanges) /\ \A p \in Ports : w.ports[p].reading => a.ports[p].reading
  BY <1>1 DEF Acted, ReadsActed
<1>9. Continued(u.continuation, Earlier(other), a.elements)
  <2>1. Earlier(other) \subseteq visited
    <3>1. other \in Elements /\ Precedes(other, id) /\ visited = Earlier(id)
      BY DEF ComesNext, Earlier
    <3> QED
      BY <3>1, PrecedesOrders DEF Earlier
  <2>2. Continued(u.continuation, Earlier(other), w.elements)
    BY DEF Visits
  <2> QED
    BY <2>1, <2>2, ContinuedKept DEF a
<1>10. Visits(u, a, other)
  BY <1>5, <1>6, <1>7, <1>8, <1>9 DEF Visits
<1> QED
  BY <1>6, <1>10 DEF a

\* The element that comes next is visited.
LEMMA VisitMade ==
  ASSUME NEW id \in Elements, NEW visited, ComesNext(visited, id),
         NEW w \in Visited(visited), ComingTo(w, id)
  PROVE  /\ Visits(w, DoAction(w, id), id)
         /\ InputOf(id, networks, DoAction(w, id).elements) = w.state
<1> DEFINE a == DoAction(w, id)
           before == <<id[1], id[2] - 1>>
<1>1. w \in WalkRecords /\ Untouched(w, id)
  BY DEF Visited, ComesNext
<1>2. Acted(w, id, a)
  BY <1>1, DoActionActed
<1>3. id[2] # 1 => before \in Elements /\ before # id
  BY ElementPlace DEF ComesNext
<1> DEFINE b == a
<1> HIDE DEF b
<1>4. b = a
  BY DEF b
<1>5. /\ b.elements = [w.elements EXCEPT ![id] = b.state] /\ w.elements \in [Elements -> States]
      /\ b.anyChanges = (w.anyChanges \/ b.changed)
  BY <1>1, <1>2, <1>4, WalkParts DEF Acted
<1>6. b.elements[id] = b.state /\ (id[2] # 1 => b.elements[before] = w.elements[before])
  BY <1>3, <1>5
<1>7. InputOf(id, networks, b.elements) = w.state
  BY <1>6 DEF InputOf, ComingTo
<1>8. IF id[2] = 1 THEN w.changed = networks[id[1]].changed
      ELSE /\ ~w.changed => w.state = elements[before]
           /\ w.changed /\ ElementAt(before).kind # "Indicator" => w.state # elements[before]
           /\ w.changed => b.anyChanges
  BY <1>5 DEF ComingTo
<1> HIDE DEF a
<1>9. /\ b.changed => b.anyChanges
      /\ \A time : Left(b.requests, id, time) <=> Left(b.requests, id, time)
      /\ \A p \in Ports : b.ports[p].reading => b.ports[p].reading
  BY <1>5
<1>10. \A p \in Ports : w.ports[p].value = FetchedPorts[p].value
  BY DEF Visited
<1>11. Continued(w.continuation, Earlier(id), b.elements)
  <2>1. visited = Earlier(id) /\ Continued(w.continuation, visited, w.elements)
    BY DEF Visited, ComesNext
  <2> QED
    BY <1>1, <1>4, <2>1, ContinuedKept DEF a
<1>12. Visits(w, b, id)
  BY <1>1, <1>4, <1>6, <1>7, <1>8, <1>9, <1>10, <1>11 DEF Visits, a
<1> QED
  BY <1>4, <1>7, <1>12 DEF a

LEMMA VisitStep ==
  ASSUME ProgramTyped, NEW id \in Elements, NEW visited, ComesNext(visited, id),
         NEW w \in Visited(visited), ComingTo(w, id)
  PROVE  /\ DoAction(w, id) \in Visited(visited \cup {id})
         /\ ComingTo(DoAction(w, id), <<id[1], id[2] + 1>>)
<1> DEFINE a == DoAction(w, id)
           next == <<id[1], id[2] + 1>>
<1>1. w \in WalkRecords /\ Untouched(w, id)
  BY DEF Visited, ComesNext
<1>2. Acted(w, id, a) /\ ReadsActed(w, id, a)
  BY <1>1, DoActionActed
<1>3. Visits(w, a, id) /\ InputOf(id, networks, a.elements) = w.state
  BY VisitMade
<1>4. ASSUME NEW other \in visited
      PROVE  \E u \in WalkRecords : Visits(u, a, other)
  <2>1. PICK u \in WalkRecords : Visits(u, w, other)
    BY DEF Visited
  <2>2. Visits(u, a, other)
    BY <1>1, <2>1, VisitKept
  <2> QED
    BY <2>2
<1>5. ASSUME NEW other \in visited
      PROVE  InputOf(other, networks, a.elements) = InputOf(other, networks, w.elements)
  <2>1. PICK u \in WalkRecords : Visits(u, w, other)
    BY DEF Visited
  <2> QED
    BY <1>1, <2>1, VisitKept
<1> HIDE DEF a
<1>6. /\ a \in WalkRecords
      /\ a.elements = [w.elements EXCEPT ![id] = a.state] /\ w.elements \in [Elements -> States]
      /\ a.anyChanges = (w.anyChanges \/ a.changed)
      /\ ~a.changed => a.state = w.elements[id]
      /\ a.changed /\ ElementAt(id).kind # "Indicator" => a.state # w.elements[id]
      /\ \A other, time : other # id => (Left(a.requests, other, time) <=> Left(w.requests, other, time))
  BY <1>1, <1>2, WalkParts DEF Acted
<1>7. ASSUME NEW other \in Elements \ (visited \cup {id})
      PROVE  Untouched(a, other)
  <2>1. Untouched(w, other) /\ other # id /\ a.elements[other] = w.elements[other]
    BY <1>6 DEF Visited
  <2> QED
    BY <1>6, <2>1 DEF Untouched
<1>8. ASSUME NEW p \in Ports, a.ports[p].reading
      PROVE  ReadFor(a, p, visited \cup {id})
  <2>1. CASE w.ports[p].reading
    <3>1. ReadFor(w, p, visited)
      BY <2>1 DEF Visited
    <3>2. w.anyChanges => a.anyChanges
      BY <1>6
    <3> QED
      BY <1>5, <3>1, <3>2 DEF ReadFor
  <2>2. CASE ~w.ports[p].reading
    <3>1. /\ ElementAt(id).kind \in {"Contact", "Indicator"} /\ ElementAt(id).port = p
          /\ w.state = "Active" /\ (ElementAt(id).kind = "Indicator" => a.changed)
      BY <1>2, <1>8, <2>2 DEF ReadsActed
    <3>2. a.changed => a.anyChanges
      BY <1>6
    <3> QED
      BY <1>3, <3>1, <3>2 DEF ReadFor
  <2> QED
    BY <2>1, <2>2
<1>9. \A p \in Ports : a.ports[p].value = FetchedPorts[p].value
  <2>1. PortsActed(w, id, a)
    BY <1>1, DoActionActed DEF a
  <2> QED
    BY <2>1 DEF PortsActed, Visited
<1>10. Continued(a.continuation, visited \cup {id}, a.elements)
  <2>1. a.continuation = IF IsContinuationIn(id) THEN w.state ELSE w.continuation
    BY <1>1, DoActionPower DEF PowerActed, IsContinuationIn, a
  <2>2. Continued(w.continuation, visited, a.elements)
    BY <1>1, ContinuedKept DEF Visited, a
  <2>3. CASE IsContinuationIn(id)
    <3>1. LastIn(id, visited \cup {id})
      BY <2>3 DEF LastIn, ComesNext, Earlier
    <3> QED
      BY <1>3, <2>1, <2>3, <3>1 DEF Continued
  <2>4. CASE ~IsContinuationIn(id)
    BY <2>1, <2>2, <2>4 DEF Continued, LastIn
  <2> QED
    BY <2>3, <2>4
<1>11. a \in Visited(visited \cup {id})
  <2>1. \A other \in visited \cup {id} : \E u \in WalkRecords : Visits(u, a, other)
    BY <1>1, <1>3, <1>4
  <2> QED
    BY <1>6, <1>7, <1>8, <1>9, <1>10, <2>1 DEF Visited
<1>12. ComingTo(a, next)
  <2>1. next[1] = id[1] /\ next[2] # 1 /\ <<next[1], next[2] - 1>> = id
    <3>1. id[2] \in Nat \ {0} /\ id = <<id[1], id[2]>>
      BY ElementPlace
    <3>2. next[1] = id[1] /\ next[2] = id[2] + 1
      OBVIOUS
    <3>3. next[2] # 1 /\ next[2] - 1 = id[2]
      BY <3>1, <3>2
    <3> QED
      BY <3>1, <3>2, <3>3
  <2>2. a.elements[id] = a.state /\ w.elements[id] = elements[id]
    BY <1>1, <1>6 DEF Untouched
  <2>3. a.changed => a.anyChanges
    BY <1>6
  <2> HIDE DEF next
  <2> QED
    BY <1>6, <2>1, <2>2, <2>3 DEF ComingTo
<1> QED
  BY <1>11, <1>12 DEF a

LEMMA EnteredVisited ==
  ASSUME NetworksTyped, NEW n \in DOMAIN Program, NEW visited, visited \subseteq Elements,
         NEW w \in Visited(visited)
  PROVE  Entered(w, n) \in Visited(visited) /\ ComingTo(Entered(w, n), <<n, 1>>)
<1> DEFINE v == Entered(w, n)
<1>1. w \in WalkRecords
  BY DEF Visited
<1>2. /\ v \in WalkRecords /\ v.elements = w.elements /\ v.ports = w.ports
      /\ v.requests = w.requests /\ v.anyChanges = w.anyChanges
      /\ v.state = RailState(networks[n].state) /\ v.changed = networks[n].changed
      /\ v.continuation = w.continuation
  BY <1>1, EnteredFields
<1> HIDE DEF v
<1>3. ASSUME NEW id \in visited
      PROVE  \E u \in WalkRecords : Visits(u, v, id)
  <2>1. PICK u \in WalkRecords : Visits(u, w, id)
    BY DEF Visited
  <2>2. Visits(u, v, id)
    BY <1>2, <2>1 DEF Visits
  <2> QED
    BY <2>2
<1>4. \A id \in Elements \ visited : Untouched(v, id)
  BY <1>2 DEF Visited, Untouched
<1>5. ASSUME NEW p \in Ports, v.ports[p].reading
      PROVE  ReadFor(v, p, visited)
  <2>1. ReadFor(w, p, visited)
    BY <1>2, <1>5 DEF Visited
  <2> QED
    BY <1>2, <2>1 DEF ReadFor
<1>6. v \in Visited(visited)
  BY <1>2, <1>3, <1>4, <1>5 DEF Visited
<1>7. ComingTo(v, <<n, 1>>)
  BY <1>2 DEF ComingTo
<1> QED
  BY <1>6, <1>7 DEF v

\* The elements up to the ith of the nth network.
UpTo(n, i) == {id \in Elements : id[1] < n \/ (id[1] = n /\ id[2] <= i)}

LEMMA UpToNext ==
  ASSUME NEW n \in DOMAIN Program, NEW i \in 1..Len(Program[n])
  PROVE  /\ <<n, i>> \in Elements
         /\ ComesNext(UpTo(n, i - 1), <<n, i>>)
         /\ UpTo(n, i - 1) \cup {<<n, i>>} = UpTo(n, i)
<1> DEFINE visited == UpTo(n, i - 1)
<1>1. n \in Nat /\ Len(Program[n]) \in Nat /\ i \in Nat \ {0} /\ <<n, i>> \in Elements
  BY ProgramIsSequence
<1>2. \A id \in Elements : /\ id = <<id[1], id[2]>> /\ id[1] \in Nat /\ id[2] \in Nat \ {0}
                           /\ id[2] # 1 => <<id[1], id[2] - 1>> \in Elements
  BY ElementPlace
<1>3. visited \subseteq Elements /\ <<n, i>> \notin visited
  BY <1>1 DEF UpTo
<1>4. i # 1 => <<n, i - 1>> \in visited
  BY <1>1, <1>2 DEF UpTo
<1>5. ASSUME NEW id \in visited, id[2] # 1
      PROVE  <<id[1], id[2] - 1>> \in visited
  <2>1. id \in Elements /\ (id[1] < n \/ (id[1] = n /\ id[2] <= i - 1))
    BY DEF UpTo
  <2>2. <<id[1], id[2] - 1>> \in Elements /\ id[1] \in Nat /\ id[2] \in Nat
    BY <1>2, <1>5, <2>1
  <2>3. id[1] < n \/ (id[1] = n /\ id[2] - 1 <= i - 1)
    BY <1>1, <2>1, <2>2
  <2> QED
    BY <2>2, <2>3 DEF UpTo
<1>6. ASSUME NEW id \in Elements
      PROVE  id \in UpTo(n, i) <=> id \in visited \cup {<<n, i>>}
  <2>1. PICK m, j : m = id[1] /\ j = id[2]
    OBVIOUS
  <2>2. id = <<m, j>> /\ m \in Nat /\ j \in Nat
    BY <2>1, ElementPlace
  <2>3. id = <<n, i>> <=> m = n /\ j = i
    BY <2>2
  <2>4. j <= i <=> j <= i - 1 \/ j = i
    BY <1>1, <2>2
  <2>5. id \in UpTo(n, i) <=> m < n \/ (m = n /\ j <= i)
    BY <2>1 DEF UpTo
  <2>6. id \in visited <=> m < n \/ (m = n /\ j <= i - 1)
    BY <2>1 DEF UpTo
  <2> QED
    BY <1>1, <2>2, <2>3, <2>4, <2>5, <2>6
<1>7. UpTo(n, i) = visited \cup {<<n, i>>}
  BY <1>1, <1>3, <1>6 DEF UpTo
<1>8. visited = Earlier(<<n, i>>)
  <2>1. ASSUME NEW id \in Elements
        PROVE  id[2] <= i - 1 <=> id[2] < i
    <3>1. id[2] \in Nat
      BY <1>2
    <3> QED
      BY <1>1, <3>1
  <2> QED
    BY <2>1 DEF UpTo, Earlier, Precedes
<1>9. ComesNext(visited, <<n, i>>)
  BY <1>3, <1>4, <1>5, <1>8 DEF ComesNext
<1> QED
  BY <1>1, <1>7, <1>9

\* Those of the first n networks.
Through(n) == {id \in Elements : id[1] <= n}

LEMMA ThroughNetworks ==
  /\ \A n \in DOMAIN Program : UpTo(n, 0) = Through(n - 1) /\ UpTo(n, Len(Program[n])) = Through(n)
  /\ Through(0) = {} /\ Through(Len(Program)) = Elements
<1>1. Len(Program) \in Nat /\ DOMAIN Program = 1..Len(Program)
  BY ProgramIsSequence
<1>2. ASSUME NEW id \in Elements
      PROVE  /\ id[1] \in 1..Len(Program) /\ id[2] \in Nat \ {0}
             /\ id[2] <= Len(Program[id[1]])
  BY <1>1, ElementPlace
<1>3. ASSUME NEW n \in DOMAIN Program
      PROVE  UpTo(n, 0) = Through(n - 1) /\ UpTo(n, Len(Program[n])) = Through(n)
  <2>1. ASSUME NEW id \in Elements
        PROVE  /\ id \in UpTo(n, 0) <=> id \in Through(n - 1)
               /\ id \in UpTo(n, Len(Program[n])) <=> id \in Through(n)
    <3>1. n \in Nat /\ id[1] \in Nat /\ id[2] \in Nat \ {0} /\ (id[1] = n => id[2] <= Len(Program[n]))
      BY <1>1, <1>2
    <3>2. ~(id[2] <= 0) /\ (id[1] < n <=> id[1] <= n - 1)
      BY <3>1
    <3>3. id[1] < n \/ id[1] = n <=> id[1] <= n
      BY <3>1
    <3> QED
      BY <3>1, <3>2, <3>3 DEF UpTo, Through
  <2> QED
    BY <2>1 DEF UpTo, Through
<1>4. Through(0) = {} /\ Through(Len(Program)) = Elements
  BY <1>1, <1>2 DEF Through
<1> QED
  BY <1>3, <1>4

\* A set of walks that a pass does not leave: every element keeps it in a walk
\* that comes to the element next.
KeptByPass(Good) ==
  /\ Good \subseteq WalkRecords /\ WalkStart \in Good
  /\ \A v \in Good : \A n \in DOMAIN Program : Entered(v, n) \in Good
  /\ \A id \in Elements : \A v \in Visited(Earlier(id)) \cap Good :
       ComingTo(v, id) => DoAction(v, id) \in Good

LEMMA WalkNetworkVisits ==
  ASSUME ProgramTyped, NEW Good, KeptByPass(Good), NEW n \in DOMAIN Program,
         NEW w \in Visited(Through(n - 1)) \cap Good
  PROVE  WalkNetwork(w, n) \in Visited(Through(n)) \cap Good
<1> DEFINE length == Len(Program[n])
           Stage(i) == {v \in Visited(UpTo(n, i)) \cap Good : i < length => ComingTo(v, <<n, i + 1>>)}
           stages == [i \in 0..length |-> Stage(i)]
<1>1. length \in Nat /\ n \in Nat /\ NetworksTyped
  BY ProgramIsSequence DEF ProgramTyped
<1>2. \A visited : Visited(visited) \subseteq WalkRecords
  BY DEF Visited
<1>3. stages \in [0..length -> SUBSET WalkRecords] /\ \A i \in 0..length : stages[i] = Stage(i)
  BY <1>2
<1>4. w \in WalkRecords
  BY <1>2
<1> HIDE DEF stages
<1>5. Entered(w, n) \in stages[0]
  <2>1. w \in Visited(UpTo(n, 0)) /\ UpTo(n, 0) \subseteq Elements
    BY ThroughNetworks DEF UpTo
  <2>2. Entered(w, n) \in Visited(UpTo(n, 0)) /\ ComingTo(Entered(w, n), <<n, 1>>)
    BY <1>1, <2>1, EnteredVisited
  <2>3. 0 \in 0..length /\ 0 + 1 = 1
    BY <1>1
  <2>4. Entered(w, n) \in Good
    BY DEF KeptByPass
  <2> QED
    BY <1>3, <2>2, <2>3, <2>4
<1>6. ASSUME NEW i \in 1..length, NEW v \in stages[i - 1]
      PROVE  DoAction(v, <<n, i>>) \in stages[i]
  <2>1. i - 1 \in 0..length /\ i \in 0..length /\ i - 1 < length /\ (i - 1) + 1 = i
    BY <1>1
  <2>2. v \in Stage(i - 1)
    BY <1>3, <2>1
  <2>3. v \in Visited(UpTo(n, i - 1)) /\ v \in Good /\ ComingTo(v, <<n, i>>)
    BY <2>1, <2>2
  <2>4. /\ <<n, i>> \in Elements /\ ComesNext(UpTo(n, i - 1), <<n, i>>)
        /\ UpTo(n, i - 1) \cup {<<n, i>>} = UpTo(n, i)
    BY UpToNext
  <2>5. PICK id \in Elements : id = <<n, i>>
    BY <2>4
  <2>6. DoAction(v, id) \in Visited(UpTo(n, i - 1) \cup {id})
        /\ ComingTo(DoAction(v, id), <<id[1], id[2] + 1>>)
    BY <2>3, <2>4, <2>5, VisitStep
  <2>7. <<id[1], id[2] + 1>> = <<n, i + 1>>
    BY <2>5
  <2>8. DoAction(v, id) \in Good
    <3>1. v \in Visited(Earlier(id))
      BY <2>3, <2>4, <2>5 DEF ComesNext
    <3> QED
      BY <2>3, <2>5, <3>1 DEF KeptByPass
  <2>9. DoAction(v, <<n, i>>) \in Stage(i)
    BY <2>4, <2>5, <2>6, <2>7, <2>8
  <2> QED
    BY <1>3, <2>1, <2>9
<1>7. WalkNetwork(w, n) \in stages[length]
  BY <1>1, <1>3, <1>4, <1>5, <1>6, NetworkStages
<1>8. WalkNetwork(w, n) \in Visited(UpTo(n, length)) \cap Good
  <2>1. length \in 0..length
    BY <1>1
  <2>2. WalkNetwork(w, n) \in Stage(length)
    BY <1>3, <1>7, <2>1
  <2> QED
    BY <2>2
<1> QED
  BY <1>8, ThroughNetworks

\* A pass visits every element, once.
LEMMA PassVisits ==
  ASSUME ProgramTyped, NEW Good, KeptByPass(Good)
  PROVE  Walked \in Visited(Elements) \cap Good
<1> DEFINE Stage(n) == Visited(Through(n)) \cap Good
           stages == [n \in 0..Len(Program) |-> Stage(n)]
<1>1. Len(Program) \in Nat /\ DOMAIN Program = 1..Len(Program) /\ NetworksTyped
  BY ProgramIsSequence DEF ProgramTyped
<1>2. \A visited : Visited(visited) \subseteq WalkRecords
  BY DEF Visited
<1>3. stages \in [0..Len(Program) -> SUBSET WalkRecords] /\ \A n \in 0..Len(Program) : stages[n] = Stage(n)
  BY <1>2
<1> HIDE DEF stages
<1>4. WalkStart \in stages[0]
  <2>1. ASSUME NEW id \in Elements
        PROVE  Untouched(WalkStart, id)
    <3>1. id # AI
      BY ElementKinds
    <3> QED
      BY <3>1, WalkStartWalk, ScannedLeft DEF Untouched
  <2>2. \A p \in Ports : WalkStart.ports[p].reading => ReadFor(WalkStart, p, {})
    BY WalkStartWalk DEF ReadFor
  <2>3. WalkStart \in Visited({}) /\ WalkStart \in Good
    BY <2>1, <2>2, WalkStartWalk DEF Visited, Continued, KeptByPass
  <2>4. 0 \in 0..Len(Program) /\ Through(0) = {}
    BY <1>1, ThroughNetworks
  <2> QED
    BY <1>3, <2>3, <2>4
<1>5. ASSUME NEW n \in 1..Len(Program), NEW v \in stages[n - 1]
      PROVE  WalkNetwork(v, n) \in stages[n]
  <2>1. n - 1 \in 0..Len(Program) /\ n \in 0..Len(Program)
    BY <1>1
  <2>2. v \in Stage(n - 1)
    BY <1>3, <2>1
  <2>3. WalkNetwork(v, n) \in Stage(n)
    BY <1>1, <2>2, WalkNetworkVisits
  <2> QED
    BY <1>3, <2>1, <2>3
<1>6. Walked \in stages[Len(Program)]
  BY <1>1, <1>3, <1>4, <1>5, ProgramStages
<1>7. Len(Program) \in 0..Len(Program) /\ Through(Len(Program)) = Elements
  BY <1>1, ThroughNetworks
<1> QED
  BY <1>3, <1>6, <1>7

LEMMA PassVisitsAll ==
  ASSUME ProgramTyped
  PROVE  /\ Walked \in WalkRecords
         /\ \A id \in Elements : \E u \in WalkRecords : Visits(u, Walked, id)
         /\ \A p \in Ports : Walked.ports[p].reading => ReadFor(Walked, p, Elements)
         /\ \A p \in Ports : Walked.ports[p].value = FetchedPorts[p].value
         /\ Continued(Walked.continuation, Elements, Walked.elements)
<1> DEFINE Good == WalkRecords
<1>1. NetworksTyped
  BY DEF ProgramTyped
<1>2. KeptByPass(Good)
  BY <1>1, WalkStartWalk, EnteredFields, DoActionActed DEF KeptByPass, Acted
<1>3. Walked \in Visited(Elements)
  BY <1>2, PassVisits
<1> QED
  BY <1>3 DEF Visited
-----------------------------------------------------------------------------
(* Types *)

LEMMA TickFacts ==
  /\ Tick \in Nat \ {0} /\ HalfTick \in Nat
  /\ HalfTick <= Tick
<1> DEFINE half == TickMs \div 2
<1>1. TickMs \in Nat \ {0} /\ Millisecond \in Nat \ {0}
  BY ClockAssumption
<1>2. half \in Nat /\ half <= TickMs
  BY <1>1
<1> HIDE DEF half
<1>3. \A a, b, c \in Nat : a <= b => a * c <= b * c
  OBVIOUS
<1>4. half * Millisecond \in Nat /\ half * Millisecond <= TickMs * Millisecond
  BY <1>1, <1>2, <1>3
<1>5. \A a, b \in Nat \ {0} : a * b \in Nat \ {0}
  OBVIOUS
<1> QED
  BY <1>1, <1>4, <1>5 DEF Tick, HalfTick, half

LEMMA MaxOfTwo ==
  ASSUME NEW a \in Nat, NEW b \in Nat
  PROVE  Max({a, b}) \in Nat /\ a <= Max({a, b}) /\ b <= Max({a, b})
<1> DEFINE m == IF a >= b THEN a ELSE b
<1>1. m \in {a, b} /\ \A y \in {a, b} : m >= y
  OBVIOUS
<1>2. \E x \in {a, b} : \A y \in {a, b} : x >= y
  BY <1>1
<1>3. Max({a, b}) \in {a, b} /\ \A y \in {a, b} : Max({a, b}) >= y
  BY <1>2 DEF Max
<1> QED
  BY <1>3

LEMMA MaxCountNat ==
  ASSUME NEW id \in TimedElements
  PROVE  /\ MaxCount(id) \in Nat
         /\ ElementAt(id).kind = "Timer" => MaxCount(id) = Tick + ElementAt(id).delay
<1>1. id \in Elements /\ ElementAt(id).kind \in {"Timer", "Generator"}
  BY DEF TimedElements
<1>2. CASE ElementAt(id).kind = "Timer"
  BY <1>1, <1>2, ElementKinds, TickFacts DEF MaxCount
<1>3. CASE ElementAt(id).kind = "Generator"
  <2>1. ElementAt(id).pause \in Nat /\ ElementAt(id).pulse \in Nat
    BY <1>1, <1>3, ElementKinds
  <2>2. Max({ElementAt(id).pause, ElementAt(id).pulse}) \in Nat
    BY <2>1, MaxOfTwo
  <2> QED
    BY <1>3, <2>2, TickFacts DEF MaxCount
<1> QED
  BY <1>1, <1>2, <1>3

CountsTyped ==
  counted \in [TimedElements -> Nat] /\ \A id \in TimedElements : counted[id] <= MaxCount(id)

\* The counts go on, up to their bound.
LEMMA CountsGoOn ==
  ASSUME CountsTyped, NEW time \in Nat, NEW restarted
  PROVE  /\ CountsAfter(time, restarted) \in [TimedElements -> Nat]
         /\ \A id \in TimedElements :
              LET count == IF id \in restarted THEN 0 ELSE counted[id]
                  after == CountsAfter(time, restarted)[id]
              IN  /\ after <= MaxCount(id) /\ after <= count + time
                  /\ after = count + time \/ after = MaxCount(id)
<1> DEFINE Count(id) == IF id \in restarted THEN 0 ELSE counted[id]
           After(id) == IF Count(id) + time > MaxCount(id) THEN MaxCount(id) ELSE Count(id) + time
<1>1. ASSUME NEW id \in TimedElements
      PROVE  /\ After(id) \in Nat /\ After(id) <= MaxCount(id) /\ After(id) <= Count(id) + time
             /\ After(id) = Count(id) + time \/ After(id) = MaxCount(id)
  <2>1. Count(id) \in Nat /\ MaxCount(id) \in Nat
    BY MaxCountNat DEF CountsTyped
  <2> HIDE DEF Count
  <2> QED
    BY <2>1
<1>2. CountsAfter(time, restarted) = [id \in TimedElements |-> After(id)]
  BY DEF CountsAfter
<1> HIDE DEF After
<1>3. \A id \in TimedElements : CountsAfter(time, restarted)[id] = After(id)
  BY <1>2
<1>4. CountsAfter(time, restarted) \in [TimedElements -> Nat]
  BY <1>1, <1>2
<1> QED
  BY <1>1, <1>3, <1>4

\* How long the task waits for the first request of a queue, to half a tick.
LEMMA WaitTicksOf ==
  ASSUME NEW q, WellFormedQueue(q)
  PROVE  /\ WaitTicks(q) \in Nat \cup {Forever}
         /\ \A id, left : Left(q, id, left) =>
              /\ WaitTicks(q) \in Nat
              /\ WaitTicks(q) * Tick <= left + (TickMs - TickMs \div 2) * Millisecond
                 \/ WaitTicks(q) = 0
<1>1. q \in Seq(Requests) /\ DOMAIN q = 1..Len(q) /\ Len(q) \in Nat
  BY DEF WellFormedQueue
<1>2. CASE q = <<>>
  BY <1>2 DEF WaitTicks, Left
<1>3. CASE q # <<>> /\ q[1].left < 0
  BY <1>3 DEF WaitTicks, Forever
<1>4. CASE q # <<>> /\ ~(q[1].left < 0)
  <2> DEFINE ms == q[1].left \div Millisecond
             upper == TickMs - TickMs \div 2
             sum == ms + upper
             ticks == sum \div TickMs
  <2>1. 1 \in DOMAIN q /\ q[1] \in Requests
    BY <1>1, <1>4
  <2>2. q[1].left \in Nat
    BY <1>4, <2>1 DEF Requests
  <2>3. TickMs \in Nat \ {0} /\ Millisecond \in Nat \ {0} /\ upper \in Nat
    BY ClockAssumption
  <2>4. ms \in Nat /\ ms * Millisecond <= q[1].left
    BY <2>2, <2>3
  <2>5. sum \in Nat
    BY <2>3, <2>4
  <2> HIDE DEF ms, upper
  <2>6. ticks \in Nat /\ ticks * TickMs <= sum
    <3> HIDE DEF sum
    <3> QED
      BY <2>3, <2>5
  <2>7. WaitTicks(q) = ticks
    BY <1>4 DEF WaitTicks, ms, upper
  <2> HIDE DEF sum, ticks
  <2>8. ticks * TickMs * Millisecond <= ms * Millisecond + upper * Millisecond
    <3>1. \A a, b, c, d \in Nat : a <= b + c => a * d <= b * d + c * d
      OBVIOUS
    <3>2. ticks * TickMs \in Nat
      BY <2>3, <2>6
    <3>3. ticks * TickMs <= ms + upper
      BY <2>6 DEF sum
    <3> QED
      BY <2>3, <2>4, <3>1, <3>2, <3>3
  <2>9. ticks * TickMs * Millisecond = ticks * Tick
    <3>1. \A a, b, c \in Nat : a * b * c = a * (b * c)
      OBVIOUS
    <3> QED
      BY <2>3, <2>6, <3>1 DEF Tick
  <2>10. ASSUME NEW id, NEW left, Left(q, id, left)
         PROVE  ticks * Tick <= left + upper * Millisecond
    <3>1. PICK i \in DOMAIN q : q[i].left = left
      BY <2>10 DEF Left
    <3>2. q[i] \in Requests /\ (i = 1 \/ Before(q[1], q[i]))
      BY <1>1, <2>1, <3>1 DEF WellFormedQueue, Ordered
    <3>3. q[1].left <= left /\ left \in Int
      BY <2>1, <3>1, <3>2 DEF Before, Requests
    <3>4. ticks * Tick \in Int /\ upper * Millisecond \in Int /\ ms * Millisecond \in Int
      BY <2>3, <2>4, <2>6, TickFacts
    <3> QED
      BY <2>2, <2>4, <2>8, <2>9, <3>3, <3>4
  <2> QED
    BY <2>6, <2>7, <2>10 DEF upper
<1> QED
  BY <1>2, <1>3, <1>4

LEMMA TypesOfProgram ==
  ASSUME TypeOK
  PROVE  ProgramTyped /\ NetworksTyped /\ CountsTyped
BY DEF TypeOK, ProgramTyped, NetworksTyped, NetworkStates, CountsTyped

LEMMA CommandedTyped ==
  ASSUME TypeOK
  PROVE  /\ CommandedMode \in {"Run", "Stop"}
         /\ Commanded \in [DOMAIN Program -> NetworkStates]
<1>1. NetworksTyped /\ workMode \in {"Run", "Stop"}
  BY DEF TypeOK, NetworksTyped, NetworkStates
<1>2. \A mode : ChangeWorkMode(mode) \in [DOMAIN Program -> NetworkStates]
  BY DEF ChangeWorkMode, ModeState, NetworkStates
<1> QED
  BY <1>1, <1>2 DEF CommandedMode, Commanded, NetworksTyped

LEMMA SwitchedTyped ==
  ASSUME NEW network \in NetworkStates
  PROVE  /\ SwitchState(network) \in NetworkStates /\ SwitchState(network).changed
         /\ SwitchState(network).state =
              CASE network.state = "Active" -> "Passive"
                [] network.state = "Passive" -> "Active"
                [] network.state = "StopFromActive" -> "StopFromPassive"
                [] network.state = "StopFromPassive" -> "StopFromActive"
BY DEF SwitchState, NetworkStates

\* What Wake makes of each network.
LEMMA WakeNetworks ==
  ASSUME TypeOK, Wake
  PROVE  /\ networks' \in [DOMAIN Program -> NetworkStates]
         /\ \A n \in DOMAIN Program :
              \/ networks'[n] = Commanded[n]
              \/ /\ n \in Switchable /\ networks'[n] = SwitchState(Commanded[n])
                 /\ networks'[n].changed
<1>1. Commanded \in [DOMAIN Program -> NetworkStates]
  BY CommandedTyped
<1>2. CASE networks' = Commanded
  BY <1>1, <1>2
<1>3. ASSUME NEW n \in Switchable, networks' = [Commanded EXCEPT ![n] = SwitchState(@)]
      PROVE  /\ networks' \in [DOMAIN Program -> NetworkStates]
             /\ \A m \in DOMAIN Program :
                  \/ networks'[m] = Commanded[m]
                  \/ /\ m \in Switchable /\ networks'[m] = SwitchState(Commanded[m])
                     /\ networks'[m].changed
  <2>1. n \in DOMAIN Program
    BY CycleAssumption
  <2>2. SwitchState(Commanded[n]) \in NetworkStates /\ SwitchState(Commanded[n]).changed
    BY <1>1, <2>1, SwitchedTyped
  <2> QED
    BY <1>1, <1>3, <2>1, <2>2
<1> QED
  BY <1>2, <1>3 DEF Wake

LEMMA WaitTyped ==
  ASSUME NEW q, WellFormedQueue(q), NEW sinceTick \in 0..(Tick - 1)
  PROVE  TimeoutAfter(WaitTicks(q), sinceTick) \in Nat \cup {Forever}
<1>1. WaitTicks(q) \in Nat \cup {Forever}
  BY WaitTicksOf
<1>2. ASSUME NEW ticks \in Nat \ {0}
      PROVE  ticks * Tick - sinceTick \in Nat
  <2>1. \A a, b \in Nat \ {0} : b <= a * b
    OBVIOUS
  <2>2. Tick <= ticks * Tick /\ ticks * Tick \in Nat
    BY <2>1, TickFacts
  <2> QED
    BY <2>2, TickFacts
<1> QED
  BY <1>1, <1>2 DEF TimeoutAfter

LEMMA QueueAfterPass ==
  ASSUME TypeOK, NEW time \in Nat
  PROVE  /\ WellFormedQueue(Later(Walked.requests, time))
         /\ WellFormedQueue(LoopBreak(Later(Walked.requests, time)))
         /\ \A id, left : id # ProcessTask /\ left \in Int =>
              /\ Left(Later(Walked.requests, time), id, left) <=> Left(Walked.requests, id, left + time)
              /\ Left(LoopBreak(Later(Walked.requests, time)), id, left) <=>
                   Left(Walked.requests, id, left + time)
<1> DEFINE queue == Later(Walked.requests, time)
           removed == Removed(queue, ProcessTask)
<1>1. WellFormedQueue(Walked.requests)
  BY TypesOfProgram, PassVisitsAll, WalkParts
<1>2. /\ WellFormedQueue(queue)
      /\ \A id, left : left \in Int =>
           (Left(queue, id, left) <=> Left(Walked.requests, id, left + time))
  BY <1>1, LaterLeft
<1>3. ProcessTask \in Ids /\ 2 * Tick \in Int /\ "critical" \in Priorities
  BY ProgramAssumption, TickFacts DEF Priorities
<1> HIDE DEF queue
<1>4. /\ WellFormedQueue(removed)
      /\ \A id, left : id # ProcessTask => (Left(removed, id, left) <=> Left(queue, id, left))
  BY <1>2, <1>3, RemovedLeft
<1> HIDE DEF removed
<1>5. /\ WellFormedQueue(Added(removed, ProcessTask, 2 * Tick, "critical"))
      /\ \A id, left : id # ProcessTask =>
           (Left(Added(removed, ProcessTask, 2 * Tick, "critical"), id, left) <=> Left(removed, id, left))
  BY <1>3, <1>4, AddedLeft
<1>6. LoopBreak(queue) = Added(removed, ProcessTask, 2 * Tick, "critical")
  BY DEF LoopBreak, removed
<1> QED
  BY <1>2, <1>4, <1>5, <1>6 DEF queue

LEMMA TypeOKInit == Init => TypeOK
<1> SUFFICES ASSUME Init
             PROVE  TypeOK
  OBVIOUS
<1>1. task \in {"waiting", "walking"} /\ timeout \in Nat /\ phase \in 0..(Tick - 1)
      /\ cycleLeft \in 0..(2 * Tick) /\ bits \subseteq Bits
  BY TickFacts DEF Init
<1>2. workMode \in {"Run", "Stop"}
  BY CycleAssumption DEF Init
<1>3. networks \in [DOMAIN Program ->
                    [state : {"Active", "Passive", "StopFromActive", "StopFromPassive"},
                     changed : BOOLEAN]]
  BY DEF Init
<1>4. elements \in [Elements -> States] /\ continuation \in States
  BY DEF Init, States
<1>5. ports \in [Ports -> PortRecords]
  <2>1. 0 \in Values
    BY ProgramAssumption DEF Values
  <2> QED
    BY <2>1 DEF Init, PortsInit, PortRecords
<1>6. WellFormedQueue(requests)
  <2>1. WellFormedQueue(<<>>)
    BY DEF WellFormedQueue, Ordered, OnePerId
  <2>2. ProcessTask \in Ids /\ "critical" \in Priorities
    BY ProgramAssumption DEF Priorities
  <2> QED
    BY <2>1, <2>2, AddedLeft DEF Init
<1>7. closed \in BOOLEAN /\ analog \in AnalogValues /\ pins \in [DigitalOutputs -> BOOLEAN]
      /\ cutOff \in BOOLEAN /\ enabled \in BOOLEAN
  BY DEF Init
<1>8. counted \in [TimedElements -> Nat] /\ \A id \in TimedElements : counted[id] <= MaxCount(id)
  BY MaxCountNat DEF Init
<1> QED
  BY <1>1, <1>2, <1>3, <1>4, <1>5, <1>6, <1>7, <1>8 DEF TypeOK

LEMMA TypeOKWake ==
  ASSUME TypeOK, Wake
  PROVE  TypeOK'
<1>1. /\ task' \in {"waiting", "walking"} /\ cycleLeft' \in 0..(2 * Tick) /\ bits' \subseteq Bits
      /\ enabled' \in BOOLEAN
  BY TickFacts DEF Wake
<1>2. workMode' \in {"Run", "Stop"}
  BY CommandedTyped DEF Wake
<1>3. networks' \in [DOMAIN Program -> NetworkStates]
  BY WakeNetworks
<1>4. WellFormedQueue(requests')
  <2>1. requests' = Unexpired(requests) /\ WellFormedQueue(requests)
    BY DEF Wake, TypeOK
  <2>2. WellFormedQueue(Unexpired(requests))
    BY <2>1, UnexpiredLeft
  <2> QED
    BY <2>1, <2>2
<1>5. UNCHANGED <<timeout, phase, elements, continuation, ports, closed, analog, pins,
                  cutOff, counted>>
  BY DEF Wake
<1> QED
  BY <1>1, <1>2, <1>3, <1>4, <1>5 DEF TypeOK, NetworkStates, WellFormedQueue, Ordered, OnePerId

LEMMA TypeOKPass ==
  ASSUME TypeOK, NEW time \in PassTimes, Pass(time)
  PROVE  TypeOK'
<1> DEFINE queue == Later(Walked.requests, time)
<1>1. time \in Nat \ {0}
  BY CycleAssumption
<1>2. Walked \in WalkRecords /\ CountsTyped
  BY TypesOfProgram, PassVisitsAll
<1>3. /\ Walked.elements \in [Elements -> States] /\ Walked.continuation \in States
      /\ Walked.ports \in [Ports -> PortRecords]
  BY <1>2, WalkParts
<1>4. elements' \in [Elements -> States] /\ continuation' \in States
  BY <1>3 DEF Pass
<1>5. networks' \in [DOMAIN Program -> NetworkStates]
  BY DEF Pass, TypeOK, NetworkStates
<1>6. ports' \in [Ports -> PortRecords]
  <2>1. \A p \in Ports : Walked.ports[p] \in PortRecords
    BY <1>3
  <2>2. \A p \in Ports : Committed(Walked.ports)[p] \in PortRecords
    BY <2>1 DEF Committed, PortRecords
  <2> QED
    BY <2>2 DEF Pass, Committed
<1>7. pins' \in [DigitalOutputs -> BOOLEAN]
  <2>1. pins' = CommittedPins(Walked.ports, pins)
    BY DEF Pass
  <2> QED
    BY <2>1 DEF CommittedPins, TypeOK
<1>8. phase' \in 0..(Tick - 1)
  <2>1. \A a \in Nat, b \in Nat \ {0} : a % b \in 0..(b - 1)
    OBVIOUS
  <2>2. phase + time \in Nat
    BY <1>1, TickFacts DEF TypeOK
  <2>3. phase' = (phase + time) % Tick
    BY DEF Pass
  <2> QED
    BY <2>1, <2>2, <2>3, TickFacts
<1>9. WellFormedQueue(queue) /\ WellFormedQueue(LoopBreak(queue))
  BY <1>1, QueueAfterPass
<1>10. /\ counted' \in [TimedElements -> Nat]
       /\ \A id \in TimedElements : counted'[id] <= MaxCount(id)
  <2>1. counted' = CountsAfter(time, Restarted(Walked))
    BY DEF Pass
  <2> QED
    BY <1>1, <1>2, <2>1, CountsGoOn
<1>11. \A q : WellFormedQueue(q) => TimeoutAfter(WaitTicks(q), phase') \in Nat \cup {Forever}
  <2>1. PICK sinceTick \in 0..(Tick - 1) : sinceTick = phase'
    BY <1>8
  <2> QED
    BY <2>1, WaitTyped
<1>12. /\ WellFormedQueue(requests') /\ timeout' \in Nat \cup {Forever}
       /\ task' \in {"waiting", "walking"} /\ cycleLeft' \in 0..(2 * Tick)
       /\ cutOff' \in BOOLEAN
  <2>1. /\ requests' \in {queue, LoopBreak(queue)}
        /\ \/ timeout' = timeout
           \/ \E q \in {queue, LoopBreak(queue)} : timeout' = TimeoutAfter(WaitTicks(q), phase')
        /\ task' \in {"waiting", task}
        /\ cycleLeft' = 0 \/ (cycleLeft' = cycleLeft - time /\ ~(cycleLeft - time <= HalfTick))
        /\ cutOff' \in {TRUE, FALSE, cutOff}
    BY DEF Pass, Sleep
  <2>2. WellFormedQueue(requests')
    BY <1>9, <2>1
  <2>3. timeout' \in Nat \cup {Forever}
    BY <1>9, <1>11, <2>1 DEF TypeOK
  <2>4. cycleLeft' \in 0..(2 * Tick)
    BY <1>1, <2>1, TickFacts DEF TypeOK
  <2> QED
    BY <2>1, <2>2, <2>3, <2>4 DEF TypeOK
<1>13. enabled' \in BOOLEAN /\ UNCHANGED <<bits, workMode, closed, analog>>
  BY DEF Pass
<1> QED
  BY <1>4, <1>5, <1>6, <1>7, <1>8, <1>10, <1>12, <1>13
     DEF TypeOK, NetworkStates, WellFormedQueue, Ordered, OnePerId

LEMMA TypeOKElapse ==
  ASSUME TypeOK, Elapse
  PROVE  TypeOK'
<1>1. phase' \in 0..(Tick - 1)
  <2>1. \A a \in Nat, b \in Nat \ {0} : a % b \in 0..(b - 1)
    OBVIOUS
  <2> QED
    BY <2>1, TickFacts DEF Elapse, TypeOK
<1>2. timeout' \in Nat \cup {Forever}
  BY DEF Elapse, WaitIsOver, TypeOK
<1>3. WellFormedQueue(requests')
  <2>1. requests' = Later(requests, 1) /\ WellFormedQueue(requests)
    BY DEF Elapse, TypeOK
  <2>2. WellFormedQueue(Later(requests, 1))
    BY <2>1, LaterLeft
  <2> QED
    BY <2>1, <2>2
<1>4. /\ counted' \in [TimedElements -> Nat]
      /\ \A id \in TimedElements : counted'[id] <= MaxCount(id)
  <2>1. counted' = CountsAfter(1, {}) /\ CountsTyped
    BY TypesOfProgram DEF Elapse
  <2> QED
    BY <2>1, CountsGoOn
<1>5. UNCHANGED <<task, cycleLeft, cutOff, enabled, programVars, bits, closed, analog>>
  BY DEF Elapse
<1> QED
  BY <1>1, <1>2, <1>3, <1>4, <1>5
     DEF TypeOK, programVars, WellFormedQueue, Ordered, OnePerId

\* What goes on around the task leaves the program and the queue alone.
Around ==
  /\ UNCHANGED <<taskVars, programVars, phase, requests, counted>>
  /\ bits \subseteq bits'

LEMMA StepCases ==
  ASSUME [Next]_vars
  PROVE  \/ Wake
         \/ \E time \in PassTimes : Pass(time)
         \/ Elapse
         \/ Around
BY DEF Next, vars, Around, SwitchInput, ChangeVoltage, CommandMode, PressSelect

LEMMA TypeOKAround ==
  ASSUME TypeOK, [Next]_vars, Around
  PROVE  TypeOK'
<1>1. bits' \subseteq Bits /\ closed' \in BOOLEAN /\ analog' \in AnalogValues
  <2>1. CASE SwitchInput
    BY <2>1 DEF SwitchInput, TypeOK, Bits
  <2>2. CASE ChangeVoltage
    BY <2>2 DEF ChangeVoltage, TypeOK
  <2>3. ASSUME NEW mode \in Commands, CommandMode(mode)
        PROVE  bits' \subseteq Bits /\ closed' \in BOOLEAN /\ analog' \in AnalogValues
    <3>1. CommandBits(mode) \subseteq Bits
      BY CycleAssumption DEF CommandBits, Bits
    <3> QED
      BY <2>3, <3>1 DEF CommandMode, TypeOK
  <2>4. CASE PressSelect
    BY <2>4 DEF PressSelect, TypeOK, Bits
  <2>5. CASE UNCHANGED vars
    BY <2>5 DEF vars, TypeOK
  <2>6. CASE Wake
    BY <2>6 DEF Wake, TypeOK
  <2>7. ASSUME NEW time \in PassTimes, Pass(time)
        PROVE  bits' \subseteq Bits /\ closed' \in BOOLEAN /\ analog' \in AnalogValues
    BY <2>7 DEF Pass, TypeOK
  <2>8. CASE Elapse
    BY <2>8 DEF Elapse, TypeOK
  <2> QED
    BY <2>1, <2>2, <2>3, <2>4, <2>5, <2>6, <2>7, <2>8 DEF Next
<1>2. UNCHANGED <<taskVars, programVars, phase, requests, counted>>
  BY DEF Around
<1> QED
  BY <1>1, <1>2
     DEF TypeOK, taskVars, programVars, WellFormedQueue, Ordered, OnePerId

LEMMA TypeOKStep ==
  ASSUME TypeOK, [Next]_vars
  PROVE  TypeOK'
BY StepCases, TypeOKWake, TypeOKPass, TypeOKElapse, TypeOKAround

\* The types of the cycle's state: the states of the networks and elements, the
\* ports' values, a queue that is in order, and counts within their bounds.
THEOREM CycleTyped == Spec => []TypeOK
<1>1. Init => TypeOK
  BY TypeOKInit
<1>2. TypeOK /\ [Next]_vars => TypeOK'
  BY TypeOKStep
<1> QED
  BY <1>1, <1>2, PTL DEF Spec
-----------------------------------------------------------------------------
(* Power flows *)

\* Nothing is pending for an element: its network has not changed its state
\* since the last walk, if it is the rail that the element has before it.
Steady(id) == id[2] = 1 => ~networks[id[1]].changed

FlowInv ==
  \A id \in Elements : Steady(id) /\ InputOf(id, networks, elements) # "Active" =>
    elements[id] = InputOf(id, networks, elements)

\* While the task waits, but for a wait that is over from the start, no network
\* has changed since the last walk.
WaitingSettled == task = "waiting" => timeout = 0 \/ \A n \in DOMAIN Program : ~networks[n].changed

\* A pass leaves the networks in their states, and every element on its own.
LEMMA PassNetworks ==
  ASSUME TypeOK, NEW time \in PassTimes, Pass(time)
  PROVE  /\ \A n \in DOMAIN Program : networks'[n].state = networks[n].state /\ ~networks'[n].changed
         /\ elements' = Walked.elements
         /\ \A id \in Elements :
              InputOf(id, networks', elements') = InputOf(id, networks, Walked.elements)
<1>1. networks \in [DOMAIN Program -> NetworkStates]
  BY DEF TypeOK, NetworkStates
<1>2. networks' = [n \in DOMAIN Program |-> [networks[n] EXCEPT !.changed = FALSE]]
  BY DEF Pass
<1>3. \A n \in DOMAIN Program : networks'[n].state = networks[n].state /\ ~networks'[n].changed
  BY <1>1, <1>2 DEF NetworkStates
<1>4. elements' = Walked.elements
  BY DEF Pass
<1>5. ASSUME NEW id \in Elements
      PROVE  InputOf(id, networks', elements') = InputOf(id, networks, Walked.elements)
  BY <1>3, <1>4, ElementPlace DEF InputOf
<1> QED
  BY <1>3, <1>4, <1>5

\* What the pass did to an element.
LEMMA PassVisit ==
  ASSUME TypeOK, NEW time \in PassTimes, Pass(time), NEW id \in Elements
  PROVE  \E u \in WalkRecords :
           /\ Visits(u, Walked, id)
           /\ Acted(u, id, DoAction(u, id)) /\ ReadsActed(u, id, DoAction(u, id))
           /\ id \in TimedElements => TimedActed(u, id, DoAction(u, id))
           /\ u.state = InputOf(id, networks', elements')
           /\ u.elements[id] = elements[id]
           /\ DoAction(u, id).state = elements'[id]
<1>1. PICK u \in WalkRecords : Visits(u, Walked, id)
  BY TypesOfProgram, PassVisitsAll
<1>2. Acted(u, id, DoAction(u, id)) /\ ReadsActed(u, id, DoAction(u, id))
      /\ (id \in TimedElements => TimedActed(u, id, DoAction(u, id)))
  BY DoActionActed
<1>3. u.state = InputOf(id, networks, Walked.elements) /\ u.elements[id] = elements[id]
      /\ DoAction(u, id).state = Walked.elements[id]
  BY <1>1 DEF Visits, Untouched
<1> QED
  BY <1>1, <1>2, <1>3, PassNetworks

\* An element that was told of no change had the same input before the pass.
LEMMA UntoldInput ==
  ASSUME TypeOK, NEW time \in PassTimes, Pass(time), NEW id \in Elements,
         NEW u \in WalkRecords, Visits(u, Walked, id), ~u.changed
  PROVE  Steady(id) /\ InputOf(id, networks, elements) = u.state
<1>1. /\ u.state = InputOf(id, networks, Walked.elements)
      /\ id[2] = 1 => ~networks[id[1]].changed
      /\ id[2] # 1 => InputOf(id, networks, Walked.elements) = elements[<<id[1], id[2] - 1>>]
  BY DEF Visits
<1> QED
  BY <1>1 DEF Steady, InputOf

LEMMA FlowPass ==
  ASSUME TypeOK, FlowInv, NEW time \in PassTimes, Pass(time)
  PROVE  \A id \in Elements : InputOf(id, networks', elements') # "Active" =>
           elements'[id] = InputOf(id, networks', elements')
<1> SUFFICES ASSUME NEW id \in Elements, InputOf(id, networks', elements') # "Active"
             PROVE  elements'[id] = InputOf(id, networks', elements')
  OBVIOUS
<1>1. PICK u \in WalkRecords :
        /\ Visits(u, Walked, id) /\ Acted(u, id, DoAction(u, id))
        /\ u.state = InputOf(id, networks', elements') /\ u.elements[id] = elements[id]
        /\ DoAction(u, id).state = elements'[id]
  BY PassVisit
<1>2. elements'[id] = u.state \/ (~Guard(u) /\ elements'[id] = elements[id])
  BY <1>1 DEF Acted
<1>3. CASE ~Guard(u) /\ elements'[id] = elements[id]
  <2>1. ~u.changed
    BY <1>3 DEF Guard
  <2>2. Steady(id) /\ InputOf(id, networks, elements) = u.state
    BY <1>1, <2>1, UntoldInput
  <2> QED
    BY <1>1, <1>3, <2>2 DEF FlowInv
<1> QED
  BY <1>1, <1>2, <1>3

\* A wake leaves the elements alone, and what is steady after it had the same
\* input before.
LEMMA WakeSteady ==
  ASSUME TypeOK, Wake, NEW id \in Elements, Steady(id)'
  PROVE  Steady(id) /\ InputOf(id, networks', elements') = InputOf(id, networks, elements)
<1>1. elements' = elements
  BY DEF Wake
<1>2. CASE id[2] # 1
  BY <1>1, <1>2 DEF Steady, InputOf
<1>3. CASE id[2] = 1
  <2>1. PICK n \in DOMAIN Program : n = id[1]
    BY ElementPlace
  <2>2. ~networks'[n].changed
    BY <1>3, <2>1 DEF Steady
  <2>3. networks'[n] = Commanded[n]
    BY <2>2, WakeNetworks
  <2>4. networks'[n] = networks[n]
    BY <2>2, <2>3 DEF Commanded, ChangeWorkMode
  <2> QED
    BY <1>3, <2>1, <2>2, <2>4 DEF Steady, InputOf
<1> QED
  BY <1>2, <1>3

LEMMA FlowStep ==
  ASSUME TypeOK, FlowInv, [Next]_vars
  PROVE  FlowInv'
<1>1. CASE Wake
  <2>1. elements' = elements
    BY <1>1 DEF Wake
  <2> QED
    BY <1>1, <2>1, WakeSteady DEF FlowInv
<1>2. ASSUME NEW time \in PassTimes, Pass(time)
      PROVE  FlowInv'
  BY <1>2, FlowPass DEF FlowInv
<1>3. CASE Elapse
  BY <1>3 DEF Elapse, programVars, FlowInv, Steady
<1>4. CASE Around
  BY <1>4 DEF Around, programVars, FlowInv, Steady
<1> QED
  BY <1>1, <1>2, <1>3, <1>4, StepCases

LEMMA WaitingSettledStep ==
  ASSUME TypeOK, WaitingSettled, [Next]_vars
  PROVE  WaitingSettled'
<1>1. CASE Wake
  BY <1>1 DEF Wake, WaitingSettled
<1>2. ASSUME NEW time \in PassTimes, Pass(time)
      PROVE  WaitingSettled'
  BY <1>2, PassNetworks DEF WaitingSettled
<1>3. CASE Elapse
  BY <1>3 DEF Elapse, WaitIsOver, programVars, WaitingSettled
<1>4. CASE Around
  BY <1>4 DEF Around, programVars, taskVars, WaitingSettled
<1> QED
  BY <1>1, <1>2, <1>3, <1>4, StepCases

LEMMA FlowInitially == Init => FlowInv /\ WaitingSettled
<1> SUFFICES ASSUME Init
             PROVE  FlowInv /\ WaitingSettled
  OBVIOUS
<1>1. WaitingSettled
  BY DEF Init, WaitingSettled
<1>2. ASSUME NEW id \in Elements, Steady(id)
      PROVE  elements[id] = InputOf(id, networks, elements)
  <2>1. id[1] \in DOMAIN Program /\ (id[2] # 1 => <<id[1], id[2] - 1>> \in Elements)
    BY ElementPlace
  <2>2. id[2] # 1
    <3>1. \A n \in DOMAIN Program : networks[n].changed
      BY DEF Init
    <3> QED
      BY <1>2, <2>1, <3>1 DEF Steady
  <2> QED
    BY <2>1, <2>2 DEF Init, InputOf
<1> QED
  BY <1>1, <1>2 DEF FlowInv

LEMMA FlowAlways == Spec => [](TypeOK /\ FlowInv /\ WaitingSettled)
<1>1. Init => TypeOK /\ FlowInv /\ WaitingSettled
  BY TypeOKInit, FlowInitially
<1>2. TypeOK /\ FlowInv /\ WaitingSettled /\ [Next]_vars => (TypeOK /\ FlowInv /\ WaitingSettled)'
  BY TypeOKStep, FlowStep, WaitingSettledStep
<1> QED
  BY <1>1, <1>2, PTL DEF Spec

\* While the task sleeps, an element without an active element before it is in
\* the state of that element (Network::DoAction, DoActionGuard and the elements).
THEOREM PowerFlowsTheorem == Spec => []PowerFlows
<1>1. TypeOK /\ FlowInv /\ WaitingSettled => PowerFlows
  <2> SUFFICES ASSUME FlowInv, WaitingSettled, Asleep, NEW id \in Elements
               PROVE  InputOf(id, networks, elements) # "Active" =>
                        elements[id] = InputOf(id, networks, elements)
    BY DEF PowerFlows
  <2>1. \A n \in DOMAIN Program : ~networks[n].changed
    BY DEF Asleep, WaitIsOver, WaitingSettled
  <2>2. Steady(id)
    BY <2>1, ElementPlace DEF Steady
  <2> QED
    BY <2>2 DEF FlowInv
<1> QED
  BY <1>1, FlowAlways, PTL
-----------------------------------------------------------------------------
(* Stop releases what the program holds *)

\* A port is held by an output that is not stopped.
OutsHeld(states, records) ==
  \A p \in Written : records[p].out # 0 =>
    \E id \in Elements : /\ ElementAt(id).kind \in OutputKinds \ {"Reset"}
                         /\ ElementAt(id).port = p /\ states[id] # "Stop"

HeldInv == OutsHeld(elements, ports)

\* Between passes nothing is left to write, and the pins show what was.
PinsInv ==
  /\ \A p \in Ports : ~ports[p].writing
  /\ \A o \in DigitalOutputs : pins[o] = (ports[o].out # 0)

ModeInv ==
  \A n \in DOMAIN Program :
    workMode = "Stop" <=> networks[n].state \in {"StopFromActive", "StopFromPassive"}

\* An element that counts without an active element before it counts no more.
UncountedInv ==
  \A id \in TimedElements : Steady(id) /\ InputOf(id, networks, elements) # "Active" =>
    ~Waiting(requests, id)

LEMMA HeldAction ==
  ASSUME NEW w \in WalkRecords, OutsHeld(w.elements, w.ports), NEW id \in Elements
  PROVE  OutsHeld(DoAction(w, id).elements, DoAction(w, id).ports)
<1> DEFINE a == DoAction(w, id)
<1>1. Acted(w, id, a) /\ PortsActed(w, id, a)
  BY DoActionActed
<1> HIDE DEF a
<1>2. a.elements = [w.elements EXCEPT ![id] = a.state] /\ w.elements \in [Elements -> States]
  BY <1>1, WalkParts DEF Acted
<1>3. ASSUME NEW p \in Written, a.ports[p].out # 0
      PROVE  \E other \in Elements :
               /\ ElementAt(other).kind \in OutputKinds \ {"Reset"}
               /\ ElementAt(other).port = p /\ a.elements[other] # "Stop"
  <2>1. p \in Ports
    BY DEF Written, Ports
  <2>2. CASE a.ports[p].out # w.ports[p].out
    <3>1. ElementAt(id).kind \in OutputKinds \ {"Reset"} /\ ElementAt(id).port = p /\ a.state # "Stop"
      BY <1>1, <1>3, <2>1, <2>2 DEF PortsActed
    <3> QED
      BY <1>2, <3>1
  <2>3. CASE a.ports[p].out = w.ports[p].out
    <3>1. PICK other \in Elements :
            /\ ElementAt(other).kind \in OutputKinds \ {"Reset"}
            /\ ElementAt(other).port = p /\ w.elements[other] # "Stop"
      BY <1>3, <2>3 DEF OutsHeld
    <3>2. other = id => a.state # "Stop"
      BY <1>1, <1>3, <3>1 DEF PortsActed
    <3>3. a.elements[other] # "Stop"
      BY <1>2, <3>1, <3>2
    <3> QED
      BY <3>1, <3>3
  <2> QED
    BY <2>2, <2>3
<1> QED
  BY <1>3 DEF OutsHeld, a

LEMMA HeldWalk ==
  ASSUME ProgramTyped, HeldInv
  PROVE  OutsHeld(Walked.elements, Walked.ports)
<1> DEFINE Good == {w \in WalkRecords : OutsHeld(w.elements, w.ports)}
<1>1. WalkStart \in Good
  <2>1. \A p \in Written : FetchedPorts[p].out = ports[p].out
    BY FetchedPort DEF Written, Ports
  <2>2. OutsHeld(elements, FetchedPorts)
    BY <2>1 DEF HeldInv, OutsHeld
  <2> QED
    BY <2>2, WalkStartWalk
<1>2. NetworksTyped
  BY DEF ProgramTyped
<1>3. \A v \in Good : \A n \in DOMAIN Program : Entered(v, n) \in Good
  BY <1>2, EnteredFields
<1>4. \A v \in Good : \A id \in Elements : DoAction(v, id) \in Good
  BY HeldAction, DoActionActed DEF Acted
<1>5. Good \in SUBSET WalkRecords
  OBVIOUS
<1> HIDE DEF Good
<1>6. Walked \in Good
  BY <1>1, <1>2, <1>3, <1>4, <1>5, WalkInduction
<1> QED
  BY <1>6 DEF Good

\* What a walk does not mark to be written it leaves as it was.
LEMMA UnwrittenWalk ==
  ASSUME ProgramTyped
  PROVE  \A p \in Ports : ~Walked.ports[p].writing => ~ports[p].writing /\ Walked.ports[p].out = ports[p].out
<1> DEFINE Unwritten(w) ==
             \A p \in Ports : ~w.ports[p].writing => ~ports[p].writing /\ w.ports[p].out = ports[p].out
           Good == {w \in WalkRecords : Unwritten(w)}
<1>1. WalkStart \in Good
  BY FetchedPort, WalkStartWalk
<1>2. NetworksTyped
  BY DEF ProgramTyped
<1>3. \A v \in Good : \A n \in DOMAIN Program : Entered(v, n) \in Good
  <2> TAKE v \in Good
  <2> TAKE n \in DOMAIN Program
  <2>1. Entered(v, n) \in WalkRecords /\ Entered(v, n).ports = v.ports
    BY <1>2, EnteredFields
  <2> QED
    BY <2>1
<1>4. \A v \in Good : \A id \in Elements : DoAction(v, id) \in Good
  <2> TAKE v \in Good
  <2> TAKE id \in Elements
  <2>1. Acted(v, id, DoAction(v, id)) /\ PortsActed(v, id, DoAction(v, id))
    BY DoActionActed
  <2>2. DoAction(v, id) \in WalkRecords
    BY <2>1 DEF Acted
  <2>3. \A p \in Ports : ~DoAction(v, id).ports[p].writing =>
          ~v.ports[p].writing /\ DoAction(v, id).ports[p].out = v.ports[p].out
    BY <2>1 DEF PortsActed
  <2> QED
    BY <2>2, <2>3
<1>5. Good \in SUBSET WalkRecords
  OBVIOUS
<1> HIDE DEF Good
<1>6. Walked \in Good
  BY <1>1, <1>2, <1>3, <1>4, <1>5, WalkInduction
<1> QED
  BY <1>6 DEF Good

LEMMA HeldStep ==
  ASSUME TypeOK, HeldInv, PinsInv, [Next]_vars
  PROVE  HeldInv' /\ PinsInv'
<1>1. CASE Wake
  BY <1>1 DEF Wake, HeldInv, OutsHeld, PinsInv
<1>2. ASSUME NEW time \in PassTimes, Pass(time)
      PROVE  HeldInv' /\ PinsInv'
  <2>1. ProgramTyped
    BY TypesOfProgram
  <2>2. OutsHeld(Walked.elements, Walked.ports)
    BY <2>1, HeldWalk
  <2>3. Walked.ports \in [Ports -> PortRecords]
    BY <2>1, PassVisitsAll, WalkParts
  <2>4. ASSUME NEW p \in Ports
        PROVE  ports'[p].out = Walked.ports[p].out /\ ~ports'[p].writing
    <3>1. ports'[p] = Committed(Walked.ports)[p]
      BY <1>2 DEF Pass
    <3>2. Walked.ports[p] \in PortRecords
      BY <2>3
    <3> QED
      BY <3>1, <3>2 DEF Committed, PortRecords
  <2>5. elements' = Walked.elements
    BY <1>2 DEF Pass
  <2>6. HeldInv'
    <3>1. \A p \in Written : ports'[p].out = Walked.ports[p].out
      BY <2>4 DEF Written, Ports
    <3> QED
      BY <2>2, <2>5, <3>1 DEF HeldInv, OutsHeld
  <2>7. ASSUME NEW o \in DigitalOutputs
        PROVE  pins'[o] = (ports'[o].out # 0)
    <3>1. o \in Ports
      BY DEF Ports
    <3>2. pins'[o] = IF Walked.ports[o].writing THEN Walked.ports[o].out # 0 ELSE pins[o]
      BY <1>2 DEF Pass, CommittedPins
    <3>3. ~Walked.ports[o].writing => Walked.ports[o].out = ports[o].out
      BY <2>1, <3>1, UnwrittenWalk
    <3>4. pins[o] = (ports[o].out # 0)
      BY DEF PinsInv
    <3> QED
      BY <2>4, <3>1, <3>2, <3>3, <3>4
  <2> QED
    BY <2>4, <2>6, <2>7 DEF PinsInv
<1>3. CASE Elapse
  BY <1>3 DEF Elapse, programVars, HeldInv, OutsHeld, PinsInv
<1>4. CASE Around
  BY <1>4 DEF Around, programVars, HeldInv, OutsHeld, PinsInv
<1> QED
  BY <1>1, <1>2, <1>3, <1>4, StepCases

LEMMA ModeStep ==
  ASSUME TypeOK, ModeInv, [Next]_vars
  PROVE  ModeInv'
<1>1. CASE Wake
  <2> SUFFICES ASSUME NEW n \in DOMAIN Program
               PROVE  workMode' = "Stop" <=> networks'[n].state \in {"StopFromActive", "StopFromPassive"}
    BY DEF ModeInv
  <2>1. Commanded[n] \in NetworkStates /\ CommandedMode \in {"Run", "Stop"}
    BY CommandedTyped
  <2>2. CommandedMode = "Stop" <=> Commanded[n].state \in {"StopFromActive", "StopFromPassive"}
    <3>1. CASE bits \cap CommandBits("Debug") = {}
      BY <3>1 DEF Commanded, CommandedMode, CommandBits, ModeInv
    <3>2. CASE bits \cap CommandBits("Debug") # {}
      <4>1. Commanded[n].state = ModeState(CommandedMode, networks[n].state)
        BY <3>2 DEF Commanded, ChangeWorkMode
      <4> QED
        BY <2>1, <4>1 DEF ModeState
    <3> QED
      BY <3>1, <3>2
  <2>3. networks'[n] = Commanded[n] \/ networks'[n] = SwitchState(Commanded[n])
    BY <1>1, WakeNetworks
  <2>4. networks'[n].state \in {"StopFromActive", "StopFromPassive"} <=>
          Commanded[n].state \in {"StopFromActive", "StopFromPassive"}
    BY <2>1, <2>3, SwitchedTyped DEF NetworkStates
  <2>5. workMode' = CommandedMode
    BY <1>1 DEF Wake
  <2> QED
    BY <2>2, <2>4, <2>5
<1>2. ASSUME NEW time \in PassTimes, Pass(time)
      PROVE  ModeInv'
  <2>1. workMode' = workMode
    BY <1>2 DEF Pass
  <2> QED
    BY <1>2, <2>1, PassNetworks DEF ModeInv
<1>3. CASE Elapse
  BY <1>3 DEF Elapse, programVars, ModeInv
<1>4. CASE Around
  BY <1>4 DEF Around, programVars, ModeInv
<1> QED
  BY <1>1, <1>2, <1>3, <1>4, StepCases

\* The time left to an element after a pass is what it left, less the pass.
LEMMA PassLeft ==
  ASSUME TypeOK, NEW time \in PassTimes, Pass(time), NEW id \in Elements,
         NEW u \in WalkRecords, Visits(u, Walked, id)
  PROVE  /\ \A left \in Int : Left(requests', id, left) <=> Left(DoAction(u, id).requests, id, left + time)
         /\ Waiting(requests', id) <=> Waiting(DoAction(u, id).requests, id)
         /\ \A left \in Int : Left(u.requests, id, left) <=> Left(requests, id, left)
         /\ Waiting(u.requests, id) <=> Waiting(requests, id)
<1> DEFINE queue == Later(Walked.requests, time)
           acted == DoAction(u, id).requests
<1>1. time \in Nat /\ id # ProcessTask
  BY CycleAssumption, ElementKinds
<1>2. requests' \in {queue, LoopBreak(queue)}
  BY DEF Pass, Sleep
<1>3. /\ WellFormedQueue(requests')
      /\ \A left \in Int : Left(requests', id, left) <=> Left(Walked.requests, id, left + time)
  BY <1>1, <1>2, QueueAfterPass
<1>4. DoAction(u, id) \in WalkRecords
  BY DoActionActed DEF Acted
<1>5. WellFormedQueue(acted) /\ WellFormedQueue(u.requests) /\ WellFormedQueue(requests)
  BY <1>4, WalkParts DEF TypeOK
<1> HIDE DEF acted
<1>6. /\ \A left : Left(acted, id, left) <=> Left(Walked.requests, id, left)
      /\ \A left : Left(u.requests, id, left) <=> Left(requests, id, left)
  BY DEF Visits, Untouched, acted
<1>7. \A left \in Int : Left(requests', id, left) <=> Left(acted, id, left + time)
  BY <1>3, <1>6
<1>8. Waiting(requests', id) <=> Waiting(acted, id)
  <2>1. ASSUME NEW left \in Int, Left(requests', id, left)
        PROVE  \E other \in Int : Left(acted, id, other)
    BY <1>1, <1>7, <2>1
  <2>2. ASSUME NEW left \in Int, Left(acted, id, left)
        PROVE  \E other \in Int : Left(requests', id, other)
    <3>1. left - time \in Int /\ (left - time) + time = left
      BY <1>1
    <3> QED
      BY <1>7, <2>2, <3>1
  <2>3. Waiting(requests', id) <=> \E left \in Int : Left(requests', id, left)
    BY <1>3, WaitingHasTime
  <2>4. Waiting(acted, id) <=> \E left \in Int : Left(acted, id, left)
    BY <1>5, WaitingHasTime
  <2> QED
    BY <2>1, <2>2, <2>3, <2>4
<1>9. Waiting(u.requests, id) <=> Waiting(requests, id)
  BY <1>5, <1>6, WaitingHasTime
<1> QED
  BY <1>6, <1>7, <1>8, <1>9 DEF acted

\* What a wake and the time leave to a caller.
LEMMA WakeLeft ==
  ASSUME TypeOK, Wake
  PROVE  \A id : /\ \A left : Left(requests', id, left) <=> Left(requests, id, left) /\ left > HalfTick
                 /\ Waiting(requests', id) => Waiting(requests, id)
<1>1. requests' = Unexpired(requests) /\ WellFormedQueue(requests)
  BY DEF Wake, TypeOK
<1>2. /\ WellFormedQueue(requests')
      /\ \A id, left : Left(requests', id, left) <=> Left(requests, id, left) /\ left > HalfTick
  BY <1>1, UnexpiredLeft
<1> QED
  BY <1>1, <1>2, WaitingHasTime

LEMMA ElapseLeft ==
  ASSUME TypeOK, Elapse
  PROVE  \A id : /\ \A left \in Int : Left(requests', id, left) <=> Left(requests, id, left + 1)
                 /\ Waiting(requests', id) <=> Waiting(requests, id)
<1>1. requests' = Later(requests, 1) /\ WellFormedQueue(requests)
  BY DEF Elapse, TypeOK
<1>2. /\ WellFormedQueue(requests')
      /\ \A id : \A left \in Int : Left(requests', id, left) <=> Left(requests, id, left + 1)
  BY <1>1, LaterLeft
<1>3. ASSUME NEW id
      PROVE  Waiting(requests', id) <=> Waiting(requests, id)
  <2>1. ASSUME NEW left \in Int, Left(requests, id, left)
        PROVE  \E other \in Int : Left(requests', id, other)
    <3>1. left - 1 \in Int /\ (left - 1) + 1 = left
      OBVIOUS
    <3> QED
      BY <1>2, <2>1, <3>1
  <2>2. ASSUME NEW left \in Int, Left(requests', id, left)
        PROVE  \E other \in Int : Left(requests, id, other)
    BY <1>2, <2>2
  <2>3. Waiting(requests', id) <=> \E left \in Int : Left(requests', id, left)
    BY <1>2, WaitingHasTime
  <2>4. Waiting(requests, id) <=> \E left \in Int : Left(requests, id, left)
    BY <1>1, WaitingHasTime
  <2> QED
    BY <2>1, <2>2, <2>3, <2>4
<1> QED
  BY <1>2, <1>3

LEMMA UncountedPass ==
  ASSUME TypeOK, UncountedInv, NEW time \in PassTimes, Pass(time)
  PROVE  UncountedInv'
<1> SUFFICES ASSUME NEW id \in TimedElements, InputOf(id, networks', elements') # "Active"
             PROVE  ~Waiting(requests', id)
  BY DEF UncountedInv
<1>1. id \in Elements
  BY DEF TimedElements
<1>2. PICK u \in WalkRecords :
        /\ Visits(u, Walked, id) /\ TimedActed(u, id, DoAction(u, id))
        /\ u.state = InputOf(id, networks', elements')
  BY <1>1, PassVisit
<1>3. /\ Waiting(requests', id) <=> Waiting(DoAction(u, id).requests, id)
      /\ Waiting(u.requests, id) <=> Waiting(requests, id)
  BY <1>1, <1>2, PassLeft
<1>4. CASE Guard(u) /\ ~u.changed
  <2>1. Steady(id) /\ InputOf(id, networks, elements) = u.state
    BY <1>1, <1>2, <1>4, UntoldInput
  <2>2. ~Waiting(requests, id)
    BY <1>2, <2>1 DEF UncountedInv
  <2>3. DoAction(u, id).requests = u.requests
    BY <1>2, <1>4 DEF TimedActed
  <2> QED
    BY <1>3, <2>2, <2>3
<1>5. CASE ~(Guard(u) /\ ~u.changed)
  BY <1>2, <1>3, <1>5 DEF TimedActed
<1> QED
  BY <1>4, <1>5

LEMMA UncountedStep ==
  ASSUME TypeOK, UncountedInv, [Next]_vars
  PROVE  UncountedInv'
<1>1. CASE Wake
  <2> SUFFICES ASSUME NEW id \in TimedElements, Steady(id)', InputOf(id, networks', elements') # "Active"
               PROVE  ~Waiting(requests', id)
    BY DEF UncountedInv
  <2>1. id \in Elements
    BY DEF TimedElements
  <2>2. Steady(id) /\ InputOf(id, networks', elements') = InputOf(id, networks, elements)
    BY <1>1, <2>1, WakeSteady
  <2> QED
    BY <1>1, <2>2, WakeLeft DEF UncountedInv
<1>2. ASSUME NEW time \in PassTimes, Pass(time)
      PROVE  UncountedInv'
  BY <1>2, UncountedPass
<1>3. CASE Elapse
  <2>1. UNCHANGED <<networks, elements>>
    BY <1>3 DEF Elapse, programVars
  <2>2. \A id : Waiting(requests', id) <=> Waiting(requests, id)
    BY <1>3, ElapseLeft
  <2> QED
    BY <2>1, <2>2 DEF UncountedInv, Steady
<1>4. CASE Around
  BY <1>4 DEF Around, programVars, UncountedInv, Steady
<1> QED
  BY <1>1, <1>2, <1>3, <1>4, StepCases

ReleaseInv == HeldInv /\ PinsInv /\ ModeInv /\ UncountedInv

LEMMA ReleaseInitially == Init => ReleaseInv
<1> SUFFICES ASSUME Init
             PROVE  ReleaseInv
  OBVIOUS
<1>1. \A p \in Ports : ports[p].out = 0 /\ ~ports[p].writing
  BY DEF Init, PortsInit
<1>2. HeldInv
  BY <1>1 DEF HeldInv, OutsHeld, Written, Ports
<1>3. PinsInv
  BY <1>1 DEF PinsInv, Init, Ports
<1>4. ModeInv
  BY CycleAssumption DEF ModeInv, Init
<1>5. UncountedInv
  <2> SUFFICES ASSUME NEW id \in TimedElements
               PROVE  ~Waiting(requests, id)
    BY DEF UncountedInv
  <2>1. id # ProcessTask
    BY ElementKinds DEF TimedElements
  <2>2. WellFormedQueue(<<>>) /\ ProcessTask \in Ids /\ "critical" \in Priorities
    BY ProgramAssumption DEF WellFormedQueue, Ordered, OnePerId, Priorities
  <2>3. WellFormedQueue(requests) /\ \A left : Left(requests, id, left) <=> Left(<<>>, id, left)
    BY <2>1, <2>2, AddedLeft DEF Init
  <2> QED
    BY <2>3, WaitingHasTime DEF Left
<1> QED
  BY <1>2, <1>3, <1>4, <1>5 DEF ReleaseInv

\* In Stop, once the walk has seen it, every element of a network is stopped.
LEMMA AllStopped ==
  ASSUME TypeOK, FlowInv, ModeInv, workMode = "Stop",
         \A n \in DOMAIN Program : ~networks[n].changed
  PROVE  \A id \in Elements : elements[id] = "Stop" /\ InputOf(id, networks, elements) = "Stop"
<1> SUFFICES ASSUME NEW n \in DOMAIN Program
             PROVE  \A i \in 1..Len(Program[n]) :
                      elements[<<n, i>>] = "Stop" /\ InputOf(<<n, i>>, networks, elements) = "Stop"
  BY ProgramIsSequence
<1> DEFINE length == Len(Program[n])
           Stopped(i) == elements[<<n, i>>] = "Stop" /\ InputOf(<<n, i>>, networks, elements) = "Stop"
           G == {i \in Nat : i \in 1..length => Stopped(i)}
<1>1. length \in Nat /\ \A i \in 1..length : <<n, i>> \in Elements
  BY ProgramIsSequence
<1>2. RailState(networks[n].state) = "Stop"
  BY DEF ModeInv, RailState
<1>3. \A i \in 1..length : Steady(<<n, i>>)
  BY DEF Steady
<1>4. \A i \in 1..length : InputOf(<<n, i>>, networks, elements) = "Stop" => Stopped(i)
  BY <1>1, <1>3 DEF FlowInv
<1>5. 0 \in G
  OBVIOUS
<1>6. ASSUME NEW i \in Nat, i \in G
      PROVE  i + 1 \in G
  <2> SUFFICES ASSUME i + 1 \in 1..length
               PROVE  InputOf(<<n, i + 1>>, networks, elements) = "Stop"
    BY <1>4
  <2>1. CASE i = 0
    BY <1>2, <2>1 DEF InputOf
  <2>2. CASE i # 0
    <3>1. i \in 1..length /\ i + 1 # 1 /\ (i + 1) - 1 = i
      BY <1>1, <2>2
    <3>2. elements[<<n, i>>] = "Stop"
      BY <1>6, <3>1
    <3> QED
      BY <3>1, <3>2 DEF InputOf
  <2> QED
    BY <2>1, <2>2
<1>7. Nat \subseteq G
  <2> HIDE DEF G
  <2> QED
    BY <1>5, <1>6, SetInduction
<1> QED
  BY <1>7

LEMMA ReleaseAlways ==
  Spec => [](TypeOK /\ FlowInv /\ WaitingSettled /\ HeldInv /\ PinsInv /\ ModeInv /\ UncountedInv)
<1>1. Init => HeldInv /\ PinsInv /\ ModeInv /\ UncountedInv
  BY ReleaseInitially DEF ReleaseInv
<1>2. TypeOK /\ HeldInv /\ PinsInv /\ ModeInv /\ UncountedInv /\ [Next]_vars =>
        (HeldInv /\ PinsInv /\ ModeInv /\ UncountedInv)'
  BY HeldStep, ModeStep, UncountedStep
<1> QED
  BY <1>1, <1>2, FlowAlways, PTL DEF Spec

\* While the task sleeps in Stop, every output pin is low, latched ones too,
\* every variable is 0 and no timer or generator waits (the outputs' DoAction,
\* CommitChanges, CommonTimer).
THEOREM StopReleasesTheorem == Spec => []StopReleases
<1>1. TypeOK /\ FlowInv /\ WaitingSettled /\ HeldInv /\ PinsInv /\ ModeInv /\ UncountedInv =>
        StopReleases
  <2> SUFFICES ASSUME TypeOK, FlowInv, WaitingSettled, HeldInv, PinsInv, ModeInv, UncountedInv,
                      Asleep, workMode = "Stop"
               PROVE  /\ \A o \in DigitalOutputs : ~pins[o]
                      /\ \A v \in Variables : ports[v].out = 0
                      /\ \A id \in TimedElements : ~Waiting(requests, id)
    BY DEF StopReleases
  <2>1. \A n \in DOMAIN Program : ~networks[n].changed
    BY DEF Asleep, WaitIsOver, WaitingSettled
  <2>2. \A id \in Elements : elements[id] = "Stop" /\ InputOf(id, networks, elements) = "Stop"
    BY <2>1, AllStopped
  <2>3. \A p \in Written : ports[p].out = 0
    BY <2>2 DEF HeldInv, OutsHeld
  <2>4. \A o \in DigitalOutputs : ~pins[o]
    BY <2>3 DEF PinsInv, Written
  <2>5. \A id \in TimedElements : ~Waiting(requests, id)
    BY <2>1, <2>2, ElementPlace DEF UncountedInv, Steady, TimedElements
  <2> QED
    BY <2>3, <2>4, <2>5 DEF Written
<1> QED
  BY <1>1, ReleaseAlways, PTL
-----------------------------------------------------------------------------
(* Timers end on time *)

\* The time that a timer has counted and the time that is left to its request
\* make up its delay; without a request it has counted all but half a tick.
Elapsed(q, id, count) ==
  LET delay == ElementAt(id).delay IN
  \/ count >= delay
  \/ \E left \in Int : Left(q, id, left) /\ count + left >= delay
  \/ ~Waiting(q, id) /\ count >= delay - HalfTick

Counting(id) ==
  /\ ElementAt(id).kind = "Timer" /\ Steady(id)
  /\ InputOf(id, networks, elements) = "Active" /\ elements[id] # "Active"

CountInv == \A id \in TimedElements : Counting(id) => Elapsed(requests, id, counted[id])

\* Time goes on for the count and for the request alike.
LEMMA ElapsedLater ==
  ASSUME CountsTyped, NEW id \in TimedElements, ElementAt(id).kind = "Timer",
         NEW p, NEW q, NEW time \in Nat, NEW restarted,
         Waiting(q, id) => Waiting(p, id),
         \A left \in Int : Left(q, id, left) <=> Left(p, id, left + time),
         Elapsed(p, id, IF id \in restarted THEN 0 ELSE counted[id])
  PROVE  Elapsed(q, id, CountsAfter(time, restarted)[id])
<1> DEFINE count == IF id \in restarted THEN 0 ELSE counted[id]
           after == CountsAfter(time, restarted)[id]
           delay == ElementAt(id).delay
<1>1. count \in Nat /\ after \in Nat /\ (after = count + time \/ after = MaxCount(id))
  BY CountsGoOn DEF CountsTyped
<1>2. delay \in Nat /\ MaxCount(id) >= delay /\ HalfTick \in Nat
  BY ElementKinds, MaxCountNat, TickFacts DEF TimedElements
<1> HIDE DEF count, after, delay
<1>3. CASE after = MaxCount(id)
  BY <1>2, <1>3 DEF Elapsed, delay, after
<1>4. CASE after = count + time
  <2>1. CASE count >= delay
    BY <1>1, <1>2, <1>4, <2>1 DEF Elapsed, delay, after
  <2>2. ASSUME NEW left \in Int, Left(p, id, left), count + left >= delay
        PROVE  Elapsed(q, id, after)
    <3>1. left - time \in Int /\ (left - time) + time = left
      OBVIOUS
    <3>2. Left(q, id, left - time)
      BY <2>2, <3>1
    <3>3. after + (left - time) >= delay
      BY <1>1, <1>2, <1>4, <2>2
    <3> QED
      BY <3>1, <3>2, <3>3 DEF Elapsed, delay
  <2>3. CASE ~Waiting(p, id) /\ count >= delay - HalfTick
    BY <1>1, <1>2, <1>4, <2>3 DEF Elapsed, delay, after
  <2>4. Elapsed(p, id, count)
    BY DEF count
  <2> QED
    BY <2>1, <2>2, <2>3, <2>4 DEF Elapsed, delay, after
<1> QED
  BY <1>1, <1>3, <1>4 DEF after

\* A timer that a pass tells of no change goes on counting.
LEMMA TimerUntold ==
  ASSUME TypeOK, CountInv, NEW time \in PassTimes, Pass(time), NEW id \in TimedElements,
         ElementAt(id).kind = "Timer", NEW u \in WalkRecords, Visits(u, Walked, id),
         u.state = InputOf(id, networks', elements'),
         u.state = "Active", ~u.changed, elements[id] # "Active"
  PROVE  id \notin Restarted(Walked) /\ Elapsed(requests, id, counted[id])
<1>1. id \in Elements
  BY DEF TimedElements
<1>2. Steady(id) /\ InputOf(id, networks, elements) = "Active"
  BY <1>1, UntoldInput
<1>3. InputOf(id, networks, Walked.elements) = "Active"
  BY <1>1, PassNetworks
<1>4. id \notin Restarted(Walked)
  BY <1>2, <1>3 DEF Restarted, Steady
<1> QED
  BY <1>2, <1>4 DEF CountInv, Counting

\* Another element or the rail, active before a timer, lets it start its count
\* or go on with it.
LEMMA CountPass ==
  ASSUME TypeOK, CountInv, NEW time \in PassTimes, Pass(time)
  PROVE  CountInv'
<1> SUFFICES ASSUME NEW id \in TimedElements, ElementAt(id).kind = "Timer",
                    InputOf(id, networks', elements') = "Active", elements'[id] # "Active"
             PROVE  Elapsed(requests', id, counted'[id])
  BY DEF CountInv, Counting, Elapsed
<1>1. id \in Elements /\ time \in Nat /\ CountsTyped
  BY CycleAssumption, TypesOfProgram DEF TimedElements
<1>2. PICK u \in WalkRecords :
        /\ Visits(u, Walked, id) /\ TimedActed(u, id, DoAction(u, id))
        /\ u.state = InputOf(id, networks', elements') /\ u.elements[id] = elements[id]
        /\ DoAction(u, id).state = elements'[id]
  BY <1>1, PassVisit
<1> DEFINE acted == DoAction(u, id).requests
           count == IF id \in Restarted(Walked) THEN 0 ELSE counted[id]
<1>3. /\ \A left \in Int : Left(requests', id, left) <=> Left(acted, id, left + time)
      /\ Waiting(requests', id) <=> Waiting(acted, id)
      /\ Waiting(u.requests, id) <=> Waiting(requests, id)
      /\ \A left \in Int : Left(u.requests, id, left) <=> Left(requests, id, left)
  BY <1>1, <1>2, PassLeft
<1>4. counted' = CountsAfter(time, Restarted(Walked))
  BY DEF Pass
<1>5. ElementAt(id).delay \in Nat /\ count \in Nat /\ HalfTick \in Nat
  BY <1>1, ElementKinds, TickFacts DEF CountsTyped
<1>6. Elapsed(acted, id, count)
  <2>1. CASE u.changed
    <3>1. Left(acted, id, ElementAt(id).delay)
      BY <1>2, <2>1 DEF TimedActed
    <3>2. ElementAt(id).delay \in Int /\ count + ElementAt(id).delay >= ElementAt(id).delay
      BY <1>5
    <3> QED
      BY <3>1, <3>2 DEF Elapsed
  <2>2. CASE ~u.changed
    <3>1. Waiting(u.requests, id)
      BY <1>2, <2>2 DEF TimedActed
    <3>2. elements[id] # "Active" /\ acted = u.requests
      BY <1>2, <2>2, <3>1 DEF TimedActed
    <3>3. id \notin Restarted(Walked) /\ Elapsed(requests, id, counted[id])
      BY <1>2, <2>2, <3>2, TimerUntold
    <3>4. count = counted[id]
      BY <3>3
    <3> QED
      BY <1>3, <3>2, <3>3, <3>4 DEF Elapsed
  <2> QED
    BY <2>1, <2>2
<1> HIDE DEF acted
<1> QED
  BY <1>1, <1>3, <1>4, <1>6, ElapsedLater

LEMMA CountStep ==
  ASSUME TypeOK, CountInv, [Next]_vars
  PROVE  CountInv'
<1>1. CASE Wake
  <2> SUFFICES ASSUME NEW id \in TimedElements, Counting(id)'
               PROVE  Elapsed(requests', id, counted'[id])
    BY DEF CountInv, Elapsed
  <2>1. id \in Elements /\ elements' = elements /\ counted' = counted
    BY <1>1 DEF TimedElements, Wake
  <2>2. Steady(id) /\ InputOf(id, networks', elements') = InputOf(id, networks, elements)
    BY <1>1, <2>1, WakeSteady DEF Counting
  <2>3. Elapsed(requests, id, counted[id])
    BY <2>1, <2>2 DEF CountInv, Counting
  <2>4. ElementAt(id).delay \in Nat /\ counted[id] \in Nat /\ HalfTick \in Nat
    BY <2>1, ElementKinds, TickFacts DEF TypeOK, Counting
  <2>5. /\ \A left : Left(requests', id, left) <=> Left(requests, id, left) /\ left > HalfTick
        /\ Waiting(requests', id) => Waiting(requests, id)
    BY <1>1, WakeLeft
  <2>6. ASSUME NEW left \in Int, Left(requests, id, left), counted[id] + left >= ElementAt(id).delay
        PROVE  Elapsed(requests', id, counted[id])
    <3>1. CASE left > HalfTick
      BY <2>5, <2>6, <3>1 DEF Elapsed
    <3>2. CASE ~(left > HalfTick)
      <4>1. ~Left(requests', id, left) /\ counted[id] >= ElementAt(id).delay - HalfTick
        BY <2>4, <2>5, <2>6, <3>2
      <4>2. WellFormedQueue(requests) /\ WellFormedQueue(requests')
        BY <1>1, UnexpiredLeft DEF TypeOK, Wake
      <4>3. \A other : Left(requests, id, other) => other = left
        BY <2>6, <4>2, WaitingHasTime
      <4>4. ~Waiting(requests', id)
        BY <2>5, <4>1, <4>2, <4>3, WaitingHasTime
      <4> QED
        BY <4>1, <4>4 DEF Elapsed
    <3> QED
      BY <3>1, <3>2
  <2> QED
    BY <2>1, <2>3, <2>5, <2>6 DEF Elapsed
<1>2. ASSUME NEW time \in PassTimes, Pass(time)
      PROVE  CountInv'
  BY <1>2, CountPass
<1>3. CASE Elapse
  <2> SUFFICES ASSUME NEW id \in TimedElements, Counting(id)'
               PROVE  Elapsed(requests', id, counted'[id])
    BY DEF CountInv, Elapsed
  <2>1. Elapsed(requests, id, counted[id]) /\ ElementAt(id).kind = "Timer"
    BY <1>3 DEF Elapse, programVars, CountInv, Counting, Steady
  <2>2. /\ \A left \in Int : Left(requests', id, left) <=> Left(requests, id, left + 1)
        /\ Waiting(requests', id) => Waiting(requests, id)
    BY <1>3, ElapseLeft
  <2>3. counted' = CountsAfter(1, {}) /\ CountsTyped
    BY <1>3, TypesOfProgram DEF Elapse
  <2>4. Elapsed(requests, id, IF id \in {} THEN 0 ELSE counted[id])
    BY <2>1
  <2> QED
    BY <2>1, <2>2, <2>3, <2>4, ElapsedLater
<1>4. CASE Around
  BY <1>4 DEF Around, programVars, CountInv, Counting, Steady, Elapsed
<1> QED
  BY <1>1, <1>2, <1>3, <1>4, StepCases

LEMMA CountInitially == Init => CountInv
<1> SUFFICES ASSUME Init, NEW id \in TimedElements
             PROVE  ~Counting(id)
  BY DEF CountInv
<1>1. id[1] \in DOMAIN Program /\ (id[2] # 1 => <<id[1], id[2] - 1>> \in Elements)
  BY ElementPlace DEF TimedElements
<1>2. \A n \in DOMAIN Program : networks[n].changed
  BY DEF Init
<1> QED
  BY <1>1, <1>2 DEF Init, Counting, Steady, InputOf

\* A timer only passes the signal on when its input has been active and steady
\* for its delay, to half a tick (CommonTimer::DoAction, RemoveExpired): its
\* request is neither taken for granted early nor left over from another count.
THEOREM NeverEarlyTheorem == Spec => NeverEarly
<1>1. ASSUME TypeOK, CountInv, [Next]_vars, NEW id \in TimedElements,
             ElementAt(id).kind = "Timer"
      PROVE  ~SwitchesEarly(id)
  <2> SUFFICES ASSUME elements[id] # "Active", elements'[id] = "Active"
               PROVE  ~(counted[id] < ElementAt(id).delay - HalfTick)
    BY DEF SwitchesEarly
  <2>1. id \in Elements
    BY DEF TimedElements
  <2>2. PICK time \in PassTimes : Pass(time)
    BY <1>1, StepCases DEF Wake, Elapse, Around, programVars
  <2>3. PICK u \in WalkRecords :
          /\ Visits(u, Walked, id) /\ TimedActed(u, id, DoAction(u, id))
          /\ Acted(u, id, DoAction(u, id))
          /\ u.state = InputOf(id, networks', elements') /\ u.elements[id] = elements[id]
          /\ DoAction(u, id).state = elements'[id]
    BY <1>1, <2>1, <2>2, PassVisit
  <2>4. u.state = "Active" /\ ~u.changed /\ ~Waiting(u.requests, id)
    BY <2>3 DEF TimedActed, Acted, Guard
  <2>5. Elapsed(requests, id, counted[id])
    BY <1>1, <2>2, <2>3, <2>4, TimerUntold
  <2>6. ~Waiting(requests, id) /\ \A left \in Int : ~Left(requests, id, left)
    <3>1. ~Waiting(requests, id) /\ WellFormedQueue(requests)
      BY <1>1, <2>1, <2>2, <2>3, <2>4, PassLeft DEF TypeOK
    <3> QED
      BY <3>1, WaitingHasTime
  <2>7. ElementAt(id).delay \in Nat /\ counted[id] \in Nat /\ HalfTick \in Nat
    BY <1>1, <2>1, ElementKinds, TickFacts DEF TypeOK
  <2> QED
    BY <2>5, <2>6, <2>7 DEF Elapsed
<1>2. TypeOK /\ CountInv /\ [Next]_vars =>
        [\A id \in TimedElements : ElementAt(id).kind = "Timer" => ~SwitchesEarly(id)]_vars
  BY <1>1
<1>3. TypeOK /\ CountInv /\ [Next]_vars => CountInv'
  BY CountStep
<1> QED
  BY <1>2, <1>3, CountInitially, CycleTyped, PTL DEF Spec, NeverEarly
-----------------------------------------------------------------------------
(* No timer and no generator is late *)

\* The element before a timer or generator reports a change only when its state
\* changes; an indicator does so at each refresh.
NoIndicatorBefore ==
  \A id \in TimedElements : id[2] # 1 => ElementAt(<<id[1], id[2] - 1>>).kind # "Indicator"

\* Half a tick is half of it: 5 ms of the 10 ms of the firmware.
EvenTick == TickMs % 2 = 0

Due(id) ==
  /\ Steady(id) /\ InputOf(id, networks, elements) = "Active"
  /\ ~(ElementAt(id).kind = "Timer" /\ elements[id] = "Active")

\* The request of a caller comes before its count is over.
InTime(q, id, count, due) == \A left \in Int : Left(q, id, left) => count + left <= due

DueInv ==
  \A id \in TimedElements : Due(id) =>
    /\ task = "waiting" => Waiting(requests, id)
    /\ InTime(requests, id, counted[id], DueAfter(id))

\* The wait ends, to half a tick, by the time of every request.
Covers(q, id, wait) ==
  \A left \in Int : Left(q, id, left) => wait # Forever /\ wait <= left + HalfTick

TimeoutInv == task = "waiting" => timeout = 0 \/ \A id \in Ids : Covers(requests, id, timeout)

LEMMA DueAfterNat ==
  ASSUME NEW id \in TimedElements
  PROVE  LET element == ElementAt(id) IN
         /\ DueAfter(id) \in Nat
         /\ element.kind = "Timer" => DueAfter(id) = element.delay /\ element.delay \in Nat
         /\ element.kind = "Generator" => /\ element.pause \in Nat /\ element.pulse \in Nat
                                          /\ element.pause <= DueAfter(id)
                                          /\ elements[id] = "Active" => element.pulse <= DueAfter(id)
<1>1. id \in Elements /\ ElementAt(id).kind \in {"Timer", "Generator"}
  BY DEF TimedElements
<1>2. CASE ElementAt(id).kind = "Timer"
  BY <1>1, <1>2, ElementKinds DEF DueAfter
<1>3. CASE ElementAt(id).kind = "Generator"
  <2> DEFINE pause == ElementAt(id).pause
             pulse == ElementAt(id).pulse
  <2>1. pause \in Nat /\ pulse \in Nat
    BY <1>1, <1>3, ElementKinds
  <2>2. Max({pause, pulse}) \in Nat /\ pause <= Max({pause, pulse}) /\ pulse <= Max({pause, pulse})
    BY <2>1, MaxOfTwo
  <2>3. DueAfter(id) = IF elements[id] = "Active" THEN Max({pause, pulse}) ELSE pause
    BY <1>3 DEF DueAfter
  <2> QED
    BY <1>3, <2>1, <2>2, <2>3
<1> QED
  BY <1>1, <1>2, <1>3

LEMMA InTimeLater ==
  ASSUME CountsTyped, NEW id \in TimedElements, NEW p, NEW q, NEW time \in Nat, NEW restarted,
         NEW due \in Nat, \A left \in Int : Left(q, id, left) <=> Left(p, id, left + time),
         InTime(p, id, IF id \in restarted THEN 0 ELSE counted[id], due)
  PROVE  InTime(q, id, CountsAfter(time, restarted)[id], due)
<1> DEFINE count == IF id \in restarted THEN 0 ELSE counted[id]
           after == CountsAfter(time, restarted)[id]
<1>1. count \in Nat /\ after \in Nat /\ after <= count + time
  BY CountsGoOn DEF CountsTyped
<1>2. InTime(p, id, count, due)
  BY DEF count
<1> HIDE DEF count, after
<1>3. ASSUME NEW left \in Int, Left(q, id, left)
      PROVE  after + left <= due
  <2>1. Left(p, id, left + time) /\ left + time \in Int
    BY <1>3
  <2>2. count + (left + time) <= due
    BY <1>2, <2>1 DEF InTime
  <2> QED
    BY <1>1, <2>2
<1> QED
  BY <1>3 DEF InTime, after

\* In a pass the count and the request of an element start again together.
LEMMA DuePass ==
  ASSUME TypeOK, DueInv, NoIndicatorBefore, NEW time \in PassTimes, Pass(time)
  PROVE  DueInv'
<1> SUFFICES ASSUME NEW id \in TimedElements, Due(id)'
             PROVE  Waiting(requests', id) /\ InTime(requests', id, counted'[id], DueAfter(id)')
  BY DEF DueInv, InTime
<1>1. id \in Elements /\ time \in Nat /\ CountsTyped
  BY CycleAssumption, TypesOfProgram DEF TimedElements
<1>2. PICK u \in WalkRecords :
        /\ Visits(u, Walked, id) /\ TimedActed(u, id, DoAction(u, id))
        /\ u.state = InputOf(id, networks', elements') /\ u.elements[id] = elements[id]
        /\ DoAction(u, id).state = elements'[id]
  BY <1>1, PassVisit
<1> DEFINE acted == DoAction(u, id).requests
           count == IF id \in Restarted(Walked) THEN 0 ELSE counted[id]
           element == ElementAt(id)
           due == DueAfter(id)'
<1>3. /\ \A left \in Int : Left(requests', id, left) <=> Left(acted, id, left + time)
      /\ Waiting(requests', id) <=> Waiting(acted, id)
      /\ Waiting(u.requests, id) <=> Waiting(requests, id)
      /\ \A left \in Int : Left(u.requests, id, left) <=> Left(requests, id, left)
  BY <1>1, <1>2, PassLeft
<1>4. counted' = CountsAfter(time, Restarted(Walked)) /\ elements' = Walked.elements
  BY DEF Pass
<1>5. /\ due \in Nat
      /\ element.kind = "Timer" => due = element.delay /\ element.delay \in Nat
      /\ element.kind = "Generator" => /\ element.pause \in Nat /\ element.pulse \in Nat
                                       /\ element.pause <= due
                                       /\ elements'[id] = "Active" => element.pulse <= due
  <2>1. DueAfter(id)' = IF element.kind = "Timer" THEN element.delay
                        ELSE IF elements'[id] = "Active" THEN Max({element.pause, element.pulse})
                        ELSE element.pause
    BY DEF DueAfter
  <2>2. element.kind \in {"Timer", "Generator"}
    BY DEF TimedElements
  <2>3. element.kind = "Timer" => element.delay \in Nat
    BY <1>1, ElementKinds
  <2>4. element.kind = "Generator" => element.pause \in Nat /\ element.pulse \in Nat
    BY <1>1, ElementKinds
  <2>5. element.kind = "Generator" =>
          /\ Max({element.pause, element.pulse}) \in Nat
          /\ element.pause <= Max({element.pause, element.pulse})
          /\ element.pulse <= Max({element.pause, element.pulse})
    BY <2>4, MaxOfTwo
  <2> HIDE DEF element
  <2> QED
    BY <2>1, <2>2, <2>3, <2>4, <2>5
<1>6. WellFormedQueue(acted) /\ element.kind \in {"Timer", "Generator"}
      /\ u.state = "Active" /\ ~(element.kind = "Timer" /\ elements'[id] = "Active")
  <2>1. DoAction(u, id) \in WalkRecords
    BY <1>1, DoActionActed DEF Acted
  <2> QED
    BY <1>2, <2>1, WalkParts DEF Due, TimedElements
<1> HIDE DEF acted, element, due
<1>7. Waiting(acted, id) /\ InTime(acted, id, count, due)
  <2>1. ASSUME NEW delay \in Nat, Left(acted, id, delay), delay <= due, count = 0
        PROVE  Waiting(acted, id) /\ InTime(acted, id, count, due)
    <3>1. \A left \in Int : Left(acted, id, left) => left = delay
      BY <1>6, <2>1, WaitingHasTime
    <3>2. Waiting(acted, id)
      BY <1>6, <2>1, WaitingHasTime
    <3> HIDE DEF count
    <3> QED
      BY <1>5, <2>1, <3>1, <3>2 DEF InTime
  <2>2. CASE u.changed
    <3>1. id \in Restarted(Walked)
      <4>1. CASE id[2] = 1
        BY <1>2, <2>2, <4>1 DEF Visits, Restarted
      <4>2. CASE id[2] # 1
        <5>1. ElementAt(<<id[1], id[2] - 1>>).kind # "Indicator"
          BY <4>2 DEF NoIndicatorBefore
        <5>2. InputOf(id, networks, Walked.elements) # elements[<<id[1], id[2] - 1>>]
          BY <1>2, <2>2, <4>2, <5>1 DEF Visits
        <5>3. InputOf(id, networks, Walked.elements) = "Active"
          BY <1>2, <1>6 DEF Visits
        <5>4. InputOf(id, networks, elements) # "Active"
          BY <4>2, <5>2, <5>3 DEF InputOf
        <5> QED
          BY <4>2, <5>4 DEF Restarted
      <4> QED
        BY <4>1, <4>2
    <3>2. Left(acted, id, IF element.kind = "Timer" THEN element.delay ELSE element.pause)
      BY <1>2, <1>6, <2>2 DEF TimedActed, acted, element
    <3> HIDE DEF count
    <3>3. count = 0
      BY <3>1 DEF count
    <3>4. CASE element.kind = "Timer"
      BY <1>5, <2>1, <3>2, <3>3, <3>4
    <3>5. CASE element.kind = "Generator"
      BY <1>5, <2>1, <3>2, <3>3, <3>5
    <3> QED
      BY <1>6, <3>4, <3>5
  <2>3. CASE ~u.changed /\ Waiting(u.requests, id)
    <3>1. acted = u.requests /\ elements'[id] = elements[id]
      BY <1>2, <1>6, <2>3 DEF TimedActed, acted
    <3>2. Steady(id) /\ InputOf(id, networks, elements) = "Active"
      BY <1>1, <1>2, <1>6, <2>3, UntoldInput
    <3>3. Due(id) /\ due = DueAfter(id)
      BY <1>6, <3>1, <3>2 DEF Due, DueAfter, due, element
    <3>4. InTime(requests, id, counted[id], due)
      BY <3>3 DEF DueInv
    <3>5. id \notin Restarted(Walked)
      <4>1. InputOf(id, networks, Walked.elements) = "Active" /\ Walked.elements[id] = elements[id]
        BY <1>2, <1>4, <1>6, <3>1 DEF Visits
      <4> QED
        BY <3>2, <4>1 DEF Restarted, Steady
    <3>6. count = counted[id]
      BY <3>5
    <3> QED
      BY <1>3, <2>3, <3>1, <3>4, <3>6 DEF InTime
  <2>4. CASE ~u.changed /\ ~Waiting(u.requests, id)
    <3>1. element.kind = "Generator"
      BY <1>2, <1>6, <2>4 DEF TimedActed, element
    <3>2. IF elements[id] = "Active"
          THEN elements'[id] = "Passive" /\ Left(acted, id, element.pause)
          ELSE elements'[id] = "Active" /\ Left(acted, id, element.pulse)
      BY <1>2, <1>6, <2>4, <3>1 DEF TimedActed, element, acted
    <3>3. id \in Restarted(Walked)
      BY <1>4, <3>1, <3>2 DEF Restarted, element
    <3> HIDE DEF count
    <3>4. count = 0
      BY <3>3 DEF count
    <3> QED
      BY <1>5, <2>1, <3>1, <3>2, <3>4
  <2> QED
    BY <2>2, <2>3, <2>4
<1>8. InTime(requests', id, counted'[id], due)
  BY <1>1, <1>3, <1>4, <1>5, <1>7, InTimeLater
<1> QED
  BY <1>3, <1>7, <1>8 DEF due

LEMMA DueStep ==
  ASSUME TypeOK, DueInv, NoIndicatorBefore, [Next]_vars
  PROVE  DueInv'
<1>1. CASE Wake
  <2> SUFFICES ASSUME NEW id \in TimedElements, Due(id)'
               PROVE  InTime(requests', id, counted'[id], DueAfter(id)')
    BY <1>1 DEF DueInv, InTime, Wake
  <2>1. id \in Elements /\ elements' = elements /\ counted' = counted
    BY <1>1 DEF TimedElements, Wake
  <2>2. Steady(id) /\ InputOf(id, networks', elements') = InputOf(id, networks, elements)
    BY <1>1, <2>1, WakeSteady DEF Due
  <2>3. Due(id) /\ DueAfter(id)' = DueAfter(id)
    BY <2>1, <2>2 DEF Due, DueAfter
  <2>4. \A left : Left(requests', id, left) => Left(requests, id, left)
    BY <1>1, WakeLeft
  <2> QED
    BY <2>1, <2>3, <2>4 DEF DueInv, InTime
<1>2. ASSUME NEW time \in PassTimes, Pass(time)
      PROVE  DueInv'
  BY <1>2, DuePass
<1>3. CASE Elapse
  <2> SUFFICES ASSUME NEW id \in TimedElements, Due(id)'
               PROVE  Waiting(requests', id) /\ InTime(requests', id, counted'[id], DueAfter(id)')
    BY DEF DueInv, InTime
  <2>1. UNCHANGED <<networks, elements>> /\ task = "waiting"
    BY <1>3 DEF Elapse, programVars
  <2>2. Due(id) /\ DueAfter(id)' = DueAfter(id)
    BY <2>1 DEF Due, DueAfter, Steady
  <2>3. Waiting(requests, id) /\ InTime(requests, id, counted[id], DueAfter(id)')
    BY <2>1, <2>2 DEF DueInv
  <2>4. /\ \A left \in Int : Left(requests', id, left) <=> Left(requests, id, left + 1)
        /\ Waiting(requests', id) <=> Waiting(requests, id)
    BY <1>3, ElapseLeft
  <2>5. counted' = CountsAfter(1, {}) /\ CountsTyped /\ DueAfter(id)' \in Nat
    BY <1>3, <2>2, TypesOfProgram, DueAfterNat DEF Elapse
  <2>6. InTime(requests, id, IF id \in {} THEN 0 ELSE counted[id], DueAfter(id)')
    BY <2>3
  <2> QED
    BY <2>3, <2>4, <2>5, <2>6, InTimeLater
<1>4. CASE Around
  BY <1>4 DEF Around, taskVars, programVars, DueInv, Due, DueAfter, Steady, InTime
<1> QED
  BY <1>1, <1>2, <1>3, <1>4, StepCases

\* The wait is for the first request, so no request comes long before its end.
LEMMA WaitCovers ==
  ASSUME EvenTick, NEW q, WellFormedQueue(q), NEW sinceTick \in 0..(Tick - 1),
         NEW wait, wait = TimeoutAfter(WaitTicks(q), sinceTick)
  PROVE  wait = 0 \/ \A id \in Ids : Covers(q, id, wait)
<1>1. (TickMs - TickMs \div 2) * Millisecond = HalfTick
  <2>1. TickMs - TickMs \div 2 = TickMs \div 2
    <3>1. TickMs \in Nat
      BY ClockAssumption
    <3> QED
      BY <3>1 DEF EvenTick
  <2> QED
    BY <2>1 DEF HalfTick
<1>2. ASSUME NEW id \in Ids, NEW left \in Int, Left(q, id, left), wait # 0
      PROVE  wait # Forever /\ wait <= left + HalfTick
  <2> DEFINE ticks == WaitTicks(q)
  <2>1. ticks \in Nat /\ (ticks * Tick <= left + HalfTick \/ ticks = 0)
    BY <1>1, <1>2, WaitTicksOf
  <2> HIDE DEF ticks
  <2>2. ticks # Forever
    BY <2>1 DEF Forever
  <2>3. wait = IF ticks = 0 THEN 0 ELSE ticks * Tick - sinceTick
    BY <2>2 DEF TimeoutAfter, ticks
  <2>4. ticks # 0 /\ wait = ticks * Tick - sinceTick
    BY <1>2, <2>3
  <2>5. ticks * Tick \in Nat /\ sinceTick \in Nat /\ HalfTick \in Nat
    BY <2>1, TickFacts
  <2>6. wait <= left + HalfTick
    BY <2>1, <2>4, <2>5
  <2>7. wait # Forever
    <3>1. TimeoutAfter(WaitTicks(q), sinceTick) \in Nat \cup {Forever}
      BY WaitTyped
    <3>2. \A a, b \in Nat \ {0} : b <= a * b
      OBVIOUS
    <3>3. ticks * Tick >= Tick
      BY <2>1, <2>4, <3>2, TickFacts
    <3>4. wait >= 0
      BY <2>4, <2>5, <3>3, TickFacts
    <3> QED
      BY <3>4 DEF Forever
  <2> QED
    BY <2>6, <2>7
<1> QED
  BY <1>2 DEF Covers

LEMMA TimeoutStep ==
  ASSUME TypeOK, TimeoutInv, EvenTick, [Next]_vars
  PROVE  TimeoutInv'
<1>1. CASE Wake
  BY <1>1 DEF Wake, TimeoutInv
<1>2. ASSUME NEW time \in PassTimes, Pass(time)
      PROVE  TimeoutInv'
  <2> SUFFICES ASSUME task' = "waiting"
               PROVE  timeout' = 0 \/ \A id \in Ids : Covers(requests', id, timeout')
    BY DEF TimeoutInv, Covers
  <2>1. timeout' = TimeoutAfter(WaitTicks(requests'), phase')
    BY <1>2 DEF Pass, Sleep
  <2>2. WellFormedQueue(requests') /\ phase' \in 0..(Tick - 1)
    BY TypeOKStep DEF TypeOK, WellFormedQueue, Ordered, OnePerId
  <2> QED
    BY <2>1, <2>2, WaitCovers
<1>3. CASE Elapse
  <2>1. task = "waiting" /\ timeout # 0
    BY <1>3 DEF Elapse, WaitIsOver
  <2>2. ASSUME NEW id \in Ids
        PROVE  Covers(requests', id, timeout')
    <3> SUFFICES ASSUME NEW left \in Int, Left(requests', id, left)
                 PROVE  timeout' # Forever /\ timeout' <= left + HalfTick
      BY DEF Covers
    <3>1. Left(requests, id, left + 1) /\ left + 1 \in Int
      BY <1>3, ElapseLeft
    <3>2. timeout # Forever /\ timeout <= (left + 1) + HalfTick
      BY <2>1, <3>1 DEF TimeoutInv, Covers
    <3>3. timeout' = timeout - 1 /\ timeout \in Nat /\ HalfTick \in Nat
      BY <1>3, <3>2, TickFacts DEF Elapse, TypeOK
    <3> QED
      BY <2>1, <3>2, <3>3 DEF Forever
  <2> QED
    BY <2>2 DEF TimeoutInv, Covers
<1>4. CASE Around
  BY <1>4 DEF Around, taskVars, TimeoutInv, Covers
<1> QED
  BY <1>1, <1>2, <1>3, <1>4, StepCases

LEMMA DueInitially == Init => DueInv /\ TimeoutInv
<1> SUFFICES ASSUME Init
             PROVE  DueInv /\ TimeoutInv
  OBVIOUS
<1>1. ASSUME NEW id \in TimedElements
      PROVE  ~Due(id)
  <2>1. id[1] \in DOMAIN Program /\ (id[2] # 1 => <<id[1], id[2] - 1>> \in Elements)
    BY ElementPlace DEF TimedElements
  <2>2. \A n \in DOMAIN Program : networks[n].changed
    BY DEF Init
  <2> QED
    BY <2>1, <2>2 DEF Init, Due, Steady, InputOf
<1> QED
  BY <1>1 DEF DueInv, TimeoutInv, Init

\* While the task sleeps, no timer or generator with a steady input is past its
\* time by more than half a tick (CommonTimer, SquareWaveGenerator, Get), in
\* every program that has no indicator right before one: that its request is
\* never lost, and that the task never waits past it.
THEOREM OnTimeTheorem ==
  ASSUME NoIndicatorBefore, EvenTick
  PROVE  Spec => []OnTime
<1>1. TypeOK /\ WaitingSettled /\ DueInv /\ TimeoutInv => OnTime
  <2> SUFFICES ASSUME TypeOK, WaitingSettled, DueInv, TimeoutInv, Asleep,
                      NEW id \in TimedElements,
                      InputOf(id, networks, elements) = "Active",
                      ~(ElementAt(id).kind = "Timer" /\ elements[id] = "Active")
               PROVE  counted[id] <= DueAfter(id) + HalfTick
    BY DEF OnTime
  <2>1. task = "waiting" /\ timeout # 0
    BY DEF Asleep, WaitIsOver
  <2>2. id \in Elements /\ Steady(id)
    BY <2>1, ElementPlace DEF WaitingSettled, Steady, TimedElements
  <2>3. Waiting(requests, id) /\ InTime(requests, id, counted[id], DueAfter(id))
    BY <2>1, <2>2 DEF Due, DueInv
  <2>4. PICK left \in Int : Left(requests, id, left)
    BY <2>3, WaitingHasTime DEF TypeOK
  <2>5. counted[id] + left <= DueAfter(id)
    BY <2>3, <2>4 DEF InTime
  <2>6. timeout # Forever /\ timeout <= left + HalfTick
    BY <2>1, <2>2, <2>4, ElementKinds DEF TimeoutInv, Covers
  <2>7. timeout \in Nat /\ counted[id] \in Nat /\ HalfTick \in Nat /\ DueAfter(id) \in Nat
    BY <2>6, TickFacts, DueAfterNat DEF TypeOK
  <2> QED
    BY <2>5, <2>6, <2>7
<1>2. TypeOK /\ DueInv /\ TimeoutInv /\ [Next]_vars => (DueInv /\ TimeoutInv)'
  BY DueStep, TimeoutStep
<1> QED
  BY <1>1, <1>2, DueInitially, FlowAlways, PTL DEF Spec
-----------------------------------------------------------------------------
(* The analog input is polled *)

IsContact(id) == ElementAt(id).kind = "Contact"

\* A contact with power has asked for its port to be read again.
ReadInv ==
  \A id \in Elements : IsContact(id) /\ Steady(id) /\ InputOf(id, networks, elements) = "Active" =>
    ports[ElementAt(id).port].reading

\* A wait with a network that has changed is the first: every port is to be read.
FirstInv ==
  task = "waiting" /\ (\E n \in DOMAIN Program : networks[n].changed) =>
    \A p \in Ports : ports[p].reading

\* The first contact of a network that has become active without the designer's
\* doing has asked for its port, or will change.
Pending(id) ==
  /\ IsContact(id) /\ id[2] = 1
  /\ networks[id[1]].changed /\ networks[id[1]].state = "Active"

PendingInv ==
  \A id \in Elements : Pending(id) =>
    /\ task = "walking" => cycleLeft = 2 * Tick
    /\ ~enabled => ports[ElementAt(id).port].reading \/ elements[id] = "Stop"

PollInv ==
  task = "waiting" /\ timeout # 0 /\ ~cutOff /\ ~enabled /\ ports["AI"].reading =>
    Waiting(requests, AI)

LEMMA ContactPort ==
  ASSUME NEW id \in Elements, IsContact(id)
  PROVE  ElementAt(id).port \in Ports
BY ElementKinds DEF IsContact

\* A contact with power is not stopped.
LEMMA ContactAwake ==
  ASSUME NEW w \in WalkRecords, NEW id \in Elements, IsContact(id), w.state = "Active"
  PROVE  DoAction(w, id).state # "Stop"
BY DoActionPower DEF PowerActed, IsContact

\* A walk leaves the request of the analog input as the fetch has made it.
LEMMA ScanKept ==
  ASSUME ProgramTyped
  PROVE  Waiting(Walked.requests, AI) <=> Waiting(Scanned(ports, requests), AI)
<1> DEFINE Good == {w \in WalkRecords :
                      \A time : Left(w.requests, AI, time) <=> Left(Scanned(ports, requests), AI, time)}
<1>1. WalkStart \in Good
  BY WalkStartWalk
<1>2. NetworksTyped
  BY DEF ProgramTyped
<1>3. \A v \in Good : \A n \in DOMAIN Program : Entered(v, n) \in Good
  <2> TAKE v \in Good
  <2> TAKE n \in DOMAIN Program
  <2>1. Entered(v, n) \in WalkRecords /\ Entered(v, n).requests = v.requests
    BY <1>2, EnteredFields
  <2> QED
    BY <2>1
<1>4. \A v \in Good : \A id \in Elements : DoAction(v, id) \in Good
  <2> TAKE v \in Good
  <2> TAKE id \in Elements
  <2>1. AI # id
    BY ElementKinds
  <2>2. Acted(v, id, DoAction(v, id))
    BY DoActionActed
  <2>3. DoAction(v, id) \in WalkRecords
    BY <2>2 DEF Acted
  <2>4. \A time : Left(DoAction(v, id).requests, AI, time) <=> Left(v.requests, AI, time)
    BY <2>1, <2>2 DEF Acted
  <2> QED
    BY <2>3, <2>4
<1>5. Good \in SUBSET WalkRecords
  OBVIOUS
<1> HIDE DEF Good
<1>6. Walked \in Good
  BY <1>1, <1>2, <1>3, <1>4, <1>5, WalkInduction
<1>7. \A time : Left(Walked.requests, AI, time) <=> Left(Scanned(ports, requests), AI, time)
  BY <1>6 DEF Good
<1>8. WellFormedQueue(Walked.requests) /\ WellFormedQueue(Scanned(ports, requests))
  BY PassVisitsAll, WalkParts, ScannedLeft
<1> QED
  BY <1>7, <1>8, WaitingHasTime

LEMMA CommittedReading ==
  ASSUME TypeOK, NEW time \in PassTimes, Pass(time), NEW p \in Ports
  PROVE  ports'[p].reading <=> Walked.ports[p].reading
<1>1. Walked.ports[p] \in PortRecords
  BY TypesOfProgram, PassVisitsAll, WalkParts
<1>2. ports'[p] = Committed(Walked.ports)[p]
  BY DEF Pass
<1> QED
  BY <1>1, <1>2 DEF Committed, PortRecords

\* A contact that nothing changes had asked for its port before the pass.
LEMMA AskedBefore ==
  ASSUME TypeOK, ReadInv, PendingInv, NEW time \in PassTimes, Pass(time), ~enabled',
         ~Walked.anyChanges, NEW id \in Elements, IsContact(id),
         InputOf(id, networks, Walked.elements) = "Active"
  PROVE  ports[ElementAt(id).port].reading
<1>1. PICK u \in WalkRecords :
        /\ Visits(u, Walked, id) /\ Acted(u, id, DoAction(u, id)) /\ u.elements[id] = elements[id]
  BY PassVisit
<1>2. u.state = "Active"
  BY <1>1 DEF Visits
<1>3. CASE ~u.changed
  <2>1. Steady(id) /\ InputOf(id, networks, elements) = "Active"
    BY <1>1, <1>2, <1>3, UntoldInput
  <2> QED
    BY <2>1 DEF ReadInv
<1>4. CASE u.changed
  <2>1. id[2] = 1 /\ networks[id[1]].changed
    BY <1>1, <1>4 DEF Visits
  <2>2. networks[id[1]].state = "Active"
    BY <1>1, <1>2, <2>1 DEF Visits, InputOf, RailState
  <2>3. Pending(id)
    BY <2>1, <2>2 DEF Pending
  <2>4. ~enabled
    BY <2>3 DEF PendingInv, Pass
  <2>5. elements[id] # "Stop"
    <3>1. ~DoAction(u, id).changed
      BY <1>1 DEF Visits
    <3>2. DoAction(u, id).state = elements[id]
      BY <1>1, <3>1 DEF Acted
    <3> QED
      BY <1>2, <3>2, ContactAwake
  <2> QED
    BY <2>3, <2>4, <2>5 DEF PendingInv
<1>5. u.changed \in BOOLEAN
  BY WalkParts
<1> QED
  BY <1>3, <1>4, <1>5

LEMMA PollPass ==
  ASSUME TypeOK, ReadInv, PendingInv, NEW time \in PassTimes, Pass(time)
  PROVE  PollInv'
<1> SUFFICES ASSUME task' = "waiting", ~cutOff', ~enabled', ports'["AI"].reading
             PROVE  Waiting(requests', AI)
  BY DEF PollInv
<1>1. ~Walked.anyChanges /\ requests' = Later(Walked.requests, time)
  BY DEF Pass, Sleep
<1>2. ProgramTyped /\ "AI" \in Ports /\ time \in Nat
  BY TypesOfProgram, CycleAssumption DEF Ports
<1>3. ReadFor(Walked, "AI", Elements)
  BY <1>2, CommittedReading, PassVisitsAll
<1>4. Waiting(Scanned(ports, requests), AI)
  <2>1. ASSUME ports["AI"].reading
        PROVE  Waiting(Scanned(ports, requests), AI)
    BY <1>2, <2>1, ScannedLeft DEF Fetches
  <2>2. CASE FetchedPorts["AI"].reading
    BY <1>2, <2>1, <2>2, FetchedPort
  <2>3. ASSUME NEW id \in Elements, IsContact(id), ElementAt(id).port = "AI",
               InputOf(id, networks, Walked.elements) = "Active"
        PROVE  ports["AI"].reading
    BY <1>1, <2>3, AskedBefore
  <2> QED
    BY <1>1, <1>3, <2>1, <2>2, <2>3 DEF ReadFor, IsContact
<1>5. Waiting(Walked.requests, AI) /\ WellFormedQueue(Walked.requests)
  BY <1>2, <1>4, ScanKept, PassVisitsAll, WalkParts
<1>6. PICK left \in Int : Left(Walked.requests, AI, left)
  BY <1>5, WaitingHasTime
<1>7. left - time \in Int /\ (left - time) + time = left
  BY <1>2
<1>8. Left(requests', AI, left - time) /\ WellFormedQueue(requests')
  BY <1>1, <1>2, <1>5, <1>6, <1>7, LaterLeft
<1> QED
  BY <1>7, <1>8, WaitingHasTime

PollingInv == ReadInv /\ FirstInv /\ PendingInv /\ PollInv

LEMMA PollingPass ==
  ASSUME TypeOK, PollingInv, NEW time \in PassTimes, Pass(time)
  PROVE  PollingInv'
<1>1. ReadInv'
  <2> SUFFICES ASSUME NEW id \in Elements, IsContact(id), InputOf(id, networks', elements') = "Active"
               PROVE  ports'[ElementAt(id).port].reading
    BY DEF ReadInv, IsContact
  <2>1. PICK u \in WalkRecords :
          /\ Visits(u, Walked, id) /\ ReadsActed(u, id, DoAction(u, id))
          /\ u.state = InputOf(id, networks', elements')
    BY PassVisit
  <2>2. Walked.ports[ElementAt(id).port].reading
    BY <2>1, ContactPort DEF ReadsActed, Visits, IsContact
  <2> QED
    BY <2>2, ContactPort, CommittedReading
<1>2. \A n \in DOMAIN Program : ~networks'[n].changed
  BY PassNetworks
<1>3. FirstInv' /\ PendingInv'
  BY <1>2, ElementPlace DEF FirstInv, PendingInv, Pending
<1>4. PollInv'
  BY PollPass DEF PollingInv
<1> QED
  BY <1>1, <1>3, <1>4 DEF PollingInv

\* What a command or the designer makes active is pending as it should be.
LEMMA PendingWake ==
  ASSUME TypeOK, FlowInv, PollingInv, Wake
  PROVE  PendingInv'
<1> SUFFICES ASSUME NEW id \in Elements, Pending(id)', ~enabled'
             PROVE  ports[ElementAt(id).port].reading \/ elements[id] = "Stop"
  BY DEF PendingInv, Pending, Wake, IsContact
<1>1. /\ task = "waiting" /\ ports' = ports /\ elements' = elements
      /\ enabled' = \E n \in Switchable : Commanded[n].state = "Passive" /\ networks'[n].state = "Active"
  BY DEF Wake
<1>2. PICK n \in DOMAIN Program : n = id[1]
  BY ElementPlace
<1>3. id[2] = 1 /\ IsContact(id) /\ networks'[n].state = "Active"
  BY <1>2 DEF Pending, IsContact
<1>4. networks[n] \in NetworkStates /\ Commanded[n] \in NetworkStates
  BY CommandedTyped DEF TypeOK, NetworkStates
<1>5. networks'[n] = Commanded[n]
  <2>1. CASE n \in Switchable /\ networks'[n] = SwitchState(Commanded[n])
    <3>1. Commanded[n].state = "Passive"
      BY <1>3, <1>4, <2>1, SwitchedTyped DEF NetworkStates
    <3> QED
      BY <1>1, <1>3, <2>1, <3>1
  <2> QED
    BY <2>1, WakeNetworks
<1>6. CASE networks[n].changed
  BY <1>1, <1>3, <1>6, ContactPort DEF PollingInv, FirstInv
<1>7. CASE ~networks[n].changed
  <2>1. Steady(id) /\ InputOf(id, networks, elements) = RailState(networks[n].state)
    BY <1>2, <1>3, <1>7 DEF Steady, InputOf
  <2>2. networks[n].state \in {"Active", "StopFromActive"}
    BY <1>3, <1>4, <1>5 DEF Commanded, ChangeWorkMode, ModeState
  <2>3. CASE networks[n].state = "Active"
    BY <1>3, <2>1, <2>3 DEF PollingInv, ReadInv, RailState
  <2>4. CASE networks[n].state = "StopFromActive"
    BY <2>1, <2>4 DEF FlowInv, RailState
  <2> QED
    BY <2>2, <2>3, <2>4
<1> QED
  BY <1>6, <1>7

LEMMA PollingStep ==
  ASSUME TypeOK, FlowInv, PollingInv, [Next]_vars
  PROVE  PollingInv'
<1>1. CASE Wake
  <2>1. ReadInv'
    <3> SUFFICES ASSUME NEW id \in Elements, IsContact(id), Steady(id)',
                        InputOf(id, networks', elements') = "Active"
                 PROVE  ports'[ElementAt(id).port].reading
      BY DEF ReadInv, IsContact
    <3>1. Steady(id) /\ InputOf(id, networks, elements) = "Active"
      BY <1>1, WakeSteady
    <3> QED
      BY <1>1, <3>1 DEF Wake, PollingInv, ReadInv
  <2>2. FirstInv' /\ PollInv'
    BY <1>1 DEF Wake, FirstInv, PollInv
  <2> QED
    BY <1>1, <2>1, <2>2, PendingWake DEF PollingInv
<1>2. ASSUME NEW time \in PassTimes, Pass(time)
      PROVE  PollingInv'
  BY <1>2, PollingPass
<1>3. CASE Elapse
  <2>1. /\ UNCHANGED <<task, cycleLeft, cutOff, enabled, networks, elements, ports>>
        /\ task = "waiting" /\ timeout # 0
    BY <1>3 DEF Elapse, WaitIsOver, programVars
  <2>2. Waiting(requests', AI) <=> Waiting(requests, AI)
    BY <1>3, ElapseLeft
  <2>3. PollInv'
    BY <2>1, <2>2 DEF PollingInv, PollInv
  <2> QED
    BY <2>1, <2>3
       DEF PollingInv, ReadInv, FirstInv, PendingInv, Pending, IsContact, Steady
<1>4. CASE Around
  BY <1>4 DEF Around, taskVars, programVars, PollingInv, ReadInv, FirstInv, PendingInv, PollInv,
              Pending, IsContact, Steady
<1> QED
  BY <1>1, <1>2, <1>3, <1>4, StepCases

LEMMA PollingInitially == Init => PollingInv
<1> SUFFICES ASSUME Init
             PROVE  PollingInv
  OBVIOUS
<1>1. \A p \in Ports : ports[p].reading
  BY DEF Init, PortsInit
<1>2. ASSUME NEW id \in Elements, IsContact(id)
      PROVE  ports[ElementAt(id).port].reading
  BY <1>1, <1>2, ContactPort
<1> QED
  BY <1>1, <1>2 DEF Init, PollingInv, ReadInv, FirstInv, PendingInv, Pending, PollInv

\* While the task sleeps, a contact that waits for the analog input has a wakeup
\* to read it again (ControllerAI::FetchValue), unless the cycle was cut off or
\* the network was just enabled.
THEOREM PollsOnTheorem == Spec => []PollsOn
<1>1. PollingInv => PollsOn
  BY DEF PollingInv, PollInv, PollsOn, Asleep, WaitIsOver
<1>2. TypeOK /\ FlowInv /\ PollingInv /\ [Next]_vars => PollingInv'
  BY PollingStep
<1> QED
  BY <1>1, <1>2, PollingInitially, FlowAlways, PTL DEF Spec
-----------------------------------------------------------------------------
(* The program settles *)

\* Between passes the continuation is what the last ContinuationIn passed on.
ContinuationInv == \A last \in Elements : LastIn(last, Elements) => continuation = elements[last]

\* What a port has to read, and whether that is what it has read last; the
\* analog input apart, which is read by the clock.
Source(port) == IF port \in Variables THEN ports[port].out ELSE Sources[port]
UpToDate(port) ==
  \/ port = "AI"
  \/ port = "DI" /\ InputBit \in bits
  \/ ports[port].value = Source(port)

\* An element with power that would do nothing if it were walked again.
StableAt(id) ==
  LET element == ElementAt(id) IN
  /\ element.kind = "Contact" =>
       /\ elements[id] = IF ports[element.port].value \in element.passing THEN "Active" ELSE "Passive"
       /\ UpToDate(element.port)
  /\ element.kind = "Timer" => elements[id] = "Active" \/ Waiting(requests, id)
  /\ element.kind \in {"Generator", "Indicator"} => Waiting(requests, id)
  /\ element.kind \in {"Indicator", "ContinuationIn"} \cup OutputKinds => elements[id] = "Active"
  /\ element.kind = "ContinuationOut" => Continued(elements[id], Earlier(id), elements)

StableInv ==
  task = "waiting" /\ timeout # 0 /\ ~cutOff /\ ~enabled =>
    \A id \in Elements : InputOf(id, networks, elements) = "Active" => StableAt(id)

LEMMA EarlierElements ==
  ASSUME NEW id \in Elements
  PROVE  Earlier(id) \subseteq Elements /\ id \notin Earlier(id)
BY PrecedesOrders DEF Earlier

\* What a fetch makes of the values.
LEMMA FetchedValue ==
  ASSUME ProgramTyped, NEW p \in Ports
  PROVE  FetchedPorts[p].value = IF Fetches(ports, requests, p) THEN Source(p) ELSE ports[p].value
<1>1. ports[p] \in PortRecords
  BY DEF ProgramTyped
<1>2. FetchedPorts[p] = IF Fetches(ports, requests, p)
                        THEN [ports[p] EXCEPT !.reading = FALSE, !.value = Source(p)] ELSE ports[p]
  BY DEF FetchedPorts, Fetched, Source
<1> QED
  BY <1>1, <1>2 DEF PortRecords

\* A pass without changes leaves the elements, the ports but for their values
\* and the continuation as they were.
LEMMA UnchangedWalk ==
  ASSUME ProgramTyped, ~Walked.anyChanges
  PROVE  /\ Walked.elements = elements
         /\ \A p \in Ports : Walked.ports[p].writing = ports[p].writing
<1> DEFINE Same(w) == /\ w.elements = elements
                      /\ \A p \in Ports : w.ports[p].writing = ports[p].writing
           Good == {w \in WalkRecords : ~w.anyChanges => Same(w)}
<1>1. WalkStart \in Good
  BY FetchedPort, WalkStartWalk
<1>2. NetworksTyped
  BY DEF ProgramTyped
<1>3. \A v \in Good : \A n \in DOMAIN Program : Entered(v, n) \in Good
  <2> TAKE v \in Good
  <2> TAKE n \in DOMAIN Program
  <2>1. /\ Entered(v, n) \in WalkRecords /\ Entered(v, n).ports = v.ports
        /\ Entered(v, n).elements = v.elements /\ Entered(v, n).anyChanges = v.anyChanges
    BY <1>2, EnteredFields
  <2> QED
    BY <2>1
<1>4. \A v \in Good : \A id \in Elements : DoAction(v, id) \in Good
  <2> TAKE v \in Good
  <2> TAKE id \in Elements
  <2> DEFINE a == DoAction(v, id)
  <2>1. Acted(v, id, a) /\ PortsActed(v, id, a)
    BY DoActionActed
  <2> HIDE DEF a
  <2>2. /\ a \in WalkRecords /\ a.elements = [v.elements EXCEPT ![id] = a.state]
        /\ a.anyChanges = (v.anyChanges \/ a.changed) /\ (~a.changed => a.state = v.elements[id])
    BY <2>1 DEF Acted
  <2>3. ~a.anyChanges => a.elements = v.elements
    BY <2>2, WalkParts
  <2>4. ~a.anyChanges => \A p \in Ports : a.ports[p].writing = v.ports[p].writing
    BY <2>1, <2>2 DEF PortsActed
  <2>5. a \in Good
    BY <2>2, <2>3, <2>4
  <2> QED
    BY <2>5 DEF a
<1>5. Good \in SUBSET WalkRecords
  OBVIOUS
<1> HIDE DEF Good
<1>6. Walked \in Good
  BY <1>1, <1>2, <1>3, <1>4, <1>5, WalkInduction
<1> QED
  BY <1>6 DEF Good

\* A ContinuationIn is in the state of what it has before it, and passes it on.
LEMMA ContinuationPass ==
  ASSUME TypeOK, FlowInv, NEW time \in PassTimes, Pass(time), NEW last, LastIn(last, Elements)
  PROVE  continuation' = elements'[last]
<1>1. last \in Elements /\ IsContinuationIn(last)
  BY DEF LastIn
<1>2. ProgramTyped
  BY TypesOfProgram
<1>3. Continued(Walked.continuation, Elements, Walked.elements) /\ continuation' = Walked.continuation
  BY <1>2, PassVisitsAll DEF Pass
<1>4. continuation' = InputOf(last, networks, Walked.elements)
  BY <1>1, <1>3, OneLastIn DEF Continued
<1>5. continuation' = InputOf(last, networks', elements')
  BY <1>1, <1>4, PassNetworks
<1>6. CASE InputOf(last, networks', elements') # "Active"
  BY <1>1, <1>5, <1>6, FlowPass
<1>7. CASE InputOf(last, networks', elements') = "Active"
  <2>1. PICK u \in WalkRecords : /\ u.state = InputOf(last, networks', elements')
                                 /\ DoAction(u, last).state = elements'[last]
    BY <1>1, PassVisit
  <2> QED
    BY <1>1, <1>5, <1>7, <2>1, DoActionPower DEF PowerActed, IsContinuationIn
<1> QED
  BY <1>6, <1>7

LEMMA SettledPass ==
  ASSUME TypeOK, FlowInv, PinsInv, ContinuationInv, NEW time \in PassTimes, Pass(time),
         ~Walked.anyChanges
  PROVE  /\ elements' = elements /\ continuation' = continuation /\ pins' = pins
         /\ \A p \in Ports : /\ ports'[p].value = FetchedPorts[p].value
                             /\ ports'[p].out = ports[p].out
<1>1. ProgramTyped
  BY TypesOfProgram
<1>2. /\ Walked.elements = elements
      /\ \A p \in Ports : Walked.ports[p].writing = ports[p].writing
  BY <1>1, UnchangedWalk
<1>3. \A p \in Ports : ~Walked.ports[p].writing
  BY <1>2 DEF PinsInv
<1>4. elements' = elements
  BY <1>2 DEF Pass
<1>5. continuation' = continuation
  <2>1. Continued(Walked.continuation, Elements, Walked.elements) /\ continuation' = Walked.continuation
    BY <1>1, PassVisitsAll DEF Pass
  <2>2. CASE \E last \in Elements : LastIn(last, Elements)
    BY <1>4, <2>2, ContinuationPass DEF ContinuationInv
  <2>3. CASE ~(\E last \in Elements : LastIn(last, Elements))
    BY <2>1, <2>3 DEF Continued
  <2> QED
    BY <2>2, <2>3
<1>6. pins' = pins
  <2>1. pins' = [o \in DigitalOutputs |-> pins[o]]
    BY <1>3 DEF Pass, CommittedPins, Ports
  <2> QED
    BY <2>1 DEF TypeOK
<1>7. ASSUME NEW p \in Ports
      PROVE  ports'[p].value = FetchedPorts[p].value /\ ports'[p].out = ports[p].out
  <2>1. ports'[p] = Walked.ports[p]
    BY <1>3 DEF Pass, Committed
  <2>2. Walked.ports[p].value = FetchedPorts[p].value
    BY <1>1, PassVisitsAll
  <2>3. Walked.ports[p].out = ports[p].out
    BY <1>1, <1>3, UnwrittenWalk
  <2> QED
    BY <2>1, <2>2, <2>3
<1> QED
  BY <1>4, <1>5, <1>6, <1>7

\* A contact that a pass without changes has found with power has read its port.
LEMMA ReadInPass ==
  ASSUME TypeOK, FlowInv, PinsInv, ContinuationInv, ReadInv, PendingInv,
         NEW time \in PassTimes, Pass(time), ~enabled', ~Walked.anyChanges,
         NEW id \in Elements, IsContact(id), InputOf(id, networks', elements') = "Active"
  PROVE  UpToDate(ElementAt(id).port)'
<1> DEFINE p == ElementAt(id).port
<1>1. p \in Ports /\ ProgramTyped
  BY ContactPort, TypesOfProgram
<1>2. ports[p].reading
  BY PassNetworks, AskedBefore
<1> SUFFICES ASSUME p # "AI"
             PROVE  ports'[p].value = Source(p)'
  BY <1>1 DEF UpToDate
<1>3. Fetches(ports, requests, p)
  BY <1>2 DEF Fetches
<1>4. ports'[p].value = Source(p) /\ ports'[p].out = ports[p].out /\ pins' = pins
  BY <1>1, <1>3, FetchedValue, SettledPass
<1>5. Sources' = Sources
  <2>1. closed' = closed /\ analog' = analog
    BY DEF Pass
  <2> QED
    BY <1>4, <2>1 DEF Sources
<1> QED
  BY <1>4, <1>5 DEF Source

LEMMA StablePass ==
  ASSUME TypeOK, FlowInv, PinsInv, ContinuationInv, ReadInv, PendingInv,
         NEW time \in PassTimes, Pass(time)
  PROVE  StableInv'
<1> SUFFICES ASSUME task' = "waiting", ~cutOff', ~enabled', NEW id \in Elements,
                    InputOf(id, networks', elements') = "Active"
             PROVE  StableAt(id)'
  BY DEF StableInv
<1> DEFINE element == ElementAt(id)
<1>1. ~Walked.anyChanges /\ ProgramTyped
  BY TypesOfProgram DEF Pass
<1>2. PICK u \in WalkRecords :
        /\ Visits(u, Walked, id) /\ (id \in TimedElements => TimedActed(u, id, DoAction(u, id)))
        /\ u.state = "Active" /\ u.elements[id] = elements[id]
        /\ DoAction(u, id).state = elements'[id]
  BY PassVisit
<1>3. PowerActed(u, id, DoAction(u, id))
  BY DoActionPower
<1>4. /\ elements' = elements /\ continuation' = continuation
      /\ \A p \in Ports : ports'[p].value = FetchedPorts[p].value
  BY <1>1, SettledPass
<1>5. Waiting(requests', id) <=> Waiting(DoAction(u, id).requests, id)
  BY <1>2, PassLeft
<1>6. ASSUME element.kind = "Contact"
      PROVE  /\ elements'[id] = IF ports'[element.port].value \in element.passing THEN "Active" ELSE "Passive"
             /\ UpToDate(element.port)'
  <2>1. IsContact(id) /\ element.port \in Ports
    BY <1>6, ElementKinds DEF IsContact
  <2>2. u.ports[element.port].value = ports'[element.port].value
    BY <1>2, <1>4, <2>1 DEF Visits
  <2>3. UpToDate(element.port)'
    BY <1>1, <2>1, ReadInPass
  <2> QED
    BY <1>2, <1>3, <1>6, <2>2, <2>3 DEF PowerActed
<1>7. element.kind = "Timer" => elements'[id] = "Active" \/ Waiting(requests', id)
  <2> SUFFICES ASSUME element.kind = "Timer", elements'[id] # "Active"
               PROVE  Waiting(DoAction(u, id).requests, id)
    BY <1>5
  <2>1. TimedActed(u, id, DoAction(u, id)) /\ u.changed \in BOOLEAN
    BY <1>2, WalkParts DEF TimedElements
  <2>2. CASE u.changed
    BY <1>2, <2>1, <2>2 DEF TimedActed, Left, Waiting
  <2>3. CASE ~u.changed /\ Waiting(u.requests, id)
    BY <1>2, <2>1, <2>3 DEF TimedActed
  <2>4. CASE ~u.changed /\ ~Waiting(u.requests, id)
    BY <1>2, <2>1, <2>4 DEF TimedActed
  <2> QED
    BY <2>1, <2>2, <2>3, <2>4
<1>8. element.kind \in {"Generator", "Indicator"} => Waiting(requests', id)
  BY <1>2, <1>3, <1>5 DEF PowerActed
<1>9. element.kind \in {"Indicator", "ContinuationIn"} \cup OutputKinds => elements'[id] = "Active"
  BY <1>2, <1>3 DEF PowerActed
<1>10. element.kind = "ContinuationOut" => Continued(elements[id], Earlier(id), elements)'
  <2> SUFFICES ASSUME element.kind = "ContinuationOut"
               PROVE  Continued(elements[id], Earlier(id), elements)'
    OBVIOUS
  <2>1. Continued(elements'[id], Earlier(id), Walked.elements)
    BY <1>2, <1>3 DEF Visits, PowerActed
  <2>2. CASE (\A other \in Earlier(id) : ~IsContinuationIn(other)) /\ elements'[id] = continuation
    BY <1>4, <2>2 DEF Continued, Earlier, IsContinuationIn
  <2>3. CASE \E last \in Earlier(id) :
               LastIn(last, Earlier(id)) /\ elements'[id] = InputOf(last, networks, Walked.elements)
    <3>1. PICK last \in Earlier(id) :
            LastIn(last, Earlier(id)) /\ elements'[id] = InputOf(last, networks, Walked.elements)
      BY <2>3
    <3>2. elements'[id] = InputOf(last, networks', elements')
      BY <3>1, EarlierElements, PassNetworks
    <3> QED
      BY <3>1, <3>2 DEF Continued, Earlier, LastIn, IsContinuationIn
  <2> QED
    BY <2>1, <2>2, <2>3 DEF Continued
<1> QED
  BY <1>6, <1>7, <1>8, <1>9, <1>10 DEF StableAt

\* The input that opens or closes raises its bit.
LEMMA InputBitRaised ==
  ASSUME [Next]_vars, Around
  PROVE  closed' = closed \/ InputBit \in bits'
<1>1. CASE Wake
  BY <1>1 DEF Wake
<1>2. ASSUME NEW time \in PassTimes, Pass(time)
      PROVE  closed' = closed
  BY <1>2 DEF Pass
<1> QED
  BY <1>1, <1>2
     DEF Next, vars, Elapse, SwitchInput, ChangeVoltage, CommandMode, PressSelect

LEMMA UpToDateKept ==
  ASSUME [Next]_vars, Around, NEW port \in Ports, UpToDate(port)
  PROVE  UpToDate(port)'
<1>1. ports' = ports /\ pins' = pins /\ bits \subseteq bits' /\ (closed' = closed \/ InputBit \in bits')
  BY InputBitRaised DEF Around, programVars
<1>2. CASE port = "AI"
  BY <1>2 DEF UpToDate
<1>3. CASE port = "DI"
  <2>1. "DI" \notin Variables
    BY ProgramAssumption DEF Written
  <2>2. Source(port) = (IF closed THEN MaxValue ELSE 0) /\ Source(port)' = (IF closed' THEN MaxValue ELSE 0)
    BY <1>3, <2>1 DEF Source, Sources, Ports
  <2> QED
    BY <1>1, <1>3, <2>2 DEF UpToDate
<1>4. CASE port \notin {"AI", "DI"}
  <2>1. Source(port)' = Source(port)
    BY <1>1, <1>4 DEF Source, Sources
  <2> QED
    BY <1>1, <1>4, <2>1 DEF UpToDate
<1> QED
  BY <1>2, <1>3, <1>4

LEMMA StableStep ==
  ASSUME TypeOK, FlowInv, PinsInv, ContinuationInv, ReadInv, PendingInv, StableInv, [Next]_vars
  PROVE  ContinuationInv' /\ StableInv'
<1>1. CASE Wake
  BY <1>1 DEF Wake, StableInv, ContinuationInv
<1>2. ASSUME NEW time \in PassTimes, Pass(time)
      PROVE  ContinuationInv' /\ StableInv'
  <2>1. ContinuationInv'
    BY <1>2, ContinuationPass DEF ContinuationInv, LastIn, IsContinuationIn
  <2> QED
    BY <1>2, <2>1, StablePass
<1>3. CASE Elapse
  <2>1. /\ UNCHANGED <<task, cutOff, enabled, networks, elements, continuation, ports, pins,
                       bits, closed, analog>>
        /\ timeout # 0
    BY <1>3 DEF Elapse, WaitIsOver, programVars
  <2>2. \A id : Waiting(requests', id) <=> Waiting(requests, id)
    BY <1>3, ElapseLeft
  <2>3. \A port : UpToDate(port)' <=> UpToDate(port)
    BY <2>1 DEF UpToDate, Source, Sources
  <2>4. \A id, state : Continued(state, Earlier(id), elements)' <=> Continued(state, Earlier(id), elements)
    BY <2>1 DEF Continued, Earlier, LastIn, IsContinuationIn
  <2>5. \A id \in Elements : StableAt(id) => StableAt(id)'
    BY <2>1, <2>2, <2>3, <2>4 DEF StableAt
  <2>6. StableInv'
    BY <2>1, <2>5 DEF StableInv
  <2> QED
    BY <2>1, <2>6 DEF ContinuationInv, LastIn, IsContinuationIn
<1>4. CASE Around
  <2>1. UNCHANGED <<task, timeout, cutOff, enabled, networks, elements, continuation, ports, requests>>
    BY <1>4 DEF Around, taskVars, programVars
  <2>2. \A port \in Ports : UpToDate(port) => UpToDate(port)'
    BY <1>4, UpToDateKept
  <2>3. \A id, state : Continued(state, Earlier(id), elements)' <=> Continued(state, Earlier(id), elements)
    BY <2>1 DEF Continued, Earlier, LastIn, IsContinuationIn
  <2>4. \A id \in Elements : StableAt(id) => StableAt(id)'
    BY <2>1, <2>2, <2>3, ElementKinds DEF StableAt
  <2>5. StableInv'
    BY <2>1, <2>4 DEF StableInv
  <2> QED
    BY <2>1, <2>5 DEF ContinuationInv, LastIn, IsContinuationIn
<1> QED
  BY <1>1, <1>2, <1>3, <1>4, StepCases

LEMMA StableInitially == Init => ContinuationInv /\ StableInv
BY DEF Init, ContinuationInv, StableInv, LastIn

\* A port that is up to date is fetched as it is; the analog input is not
\* fetched while its wakeup is to come.
LEMMA FetchedAsItIs ==
  ASSUME TypeOK, PollInv, Asleep, ~cutOff, ~enabled, NEW port \in Ports, UpToDate(port)
  PROVE  FetchedPorts[port].value = ports[port].value
<1>1. ProgramTyped /\ bits = {} /\ task = "waiting" /\ timeout # 0
  BY TypesOfProgram DEF Asleep, WaitIsOver
<1>2. CASE port = "AI"
  <2>1. ~Fetches(ports, requests, port)
    BY <1>1, <1>2 DEF Fetches, PollInv
  <2> QED
    BY <1>1, <2>1, FetchedValue
<1>3. CASE port # "AI"
  BY <1>1, <1>3, FetchedValue DEF UpToDate
<1> QED
  BY <1>2, <1>3

\* The walks of a pass in which nothing happens.
Quiet == {w \in WalkRecords : /\ w.elements = elements /\ ~w.anyChanges
                              /\ \A p \in Ports : ~w.ports[p].writing}

\* An element that is stable, or has no power and flows, does nothing in them.
LEMMA QuietAction ==
  ASSUME TypeOK, FlowInv, WaitingSettled, PollInv, StableInv, Asleep, ~cutOff, ~enabled,
         NEW id \in Elements, NEW w \in Visited(Earlier(id)) \cap Quiet, ComingTo(w, id)
  PROVE  DoAction(w, id) \in Quiet
<1> DEFINE a == DoAction(w, id)
           kind == ElementAt(id).kind
<1>1. \A n \in DOMAIN Program : ~networks[n].changed
  BY DEF Asleep, WaitIsOver, WaitingSettled
<1>2. /\ w \in WalkRecords /\ w.elements = elements /\ ~w.anyChanges
      /\ \A p \in Ports : ~w.ports[p].writing
  BY DEF Quiet
<1>3. ~w.changed /\ w.state = InputOf(id, networks, elements)
  BY <1>1, <1>2, ElementPlace DEF ComingTo, InputOf
<1>4. Acted(w, id, a) /\ PortsActed(w, id, a) /\ (id \in TimedElements => TimedActed(w, id, a))
      /\ PowerActed(w, id, a)
  BY <1>2, DoActionActed, DoActionPower
<1>5. Waiting(w.requests, id) <=> Waiting(requests, id)
  <2>1. Untouched(w, id)
    BY EarlierElements DEF Visited
  <2> QED
    BY <1>2, <2>1, WalkParts, WaitingHasTime DEF Untouched, TypeOK
<1>6. a.state = elements[id] /\ (kind = "Indicator" /\ w.state = "Active" => Waiting(w.requests, id))
  <2>1. CASE w.state # "Active"
    <3>1. Steady(id) /\ elements[id] = w.state
      BY <1>1, <1>3, <2>1, ElementPlace DEF FlowInv, Steady
    <3> QED
      BY <1>2, <1>4, <2>1, <3>1 DEF Acted
  <2>2. CASE w.state = "Active"
    <3>1. StableAt(id)
      BY <1>3, <2>2 DEF StableInv, Asleep, WaitIsOver
    <3>2. CASE kind = "Contact"
      <4>1. UpToDate(ElementAt(id).port) /\ ElementAt(id).port \in Ports
        BY <3>1, <3>2, ElementKinds DEF StableAt
      <4>2. w.ports[ElementAt(id).port].value = ports[ElementAt(id).port].value
        BY <4>1, FetchedAsItIs DEF Visited
      <4> QED
        BY <1>4, <2>2, <3>1, <3>2, <4>2 DEF PowerActed, StableAt
    <3>3. CASE kind \in {"Timer", "Generator"}
      <4>1. TimedActed(w, id, a)
        BY <1>4, <3>3 DEF TimedElements
      <4>2. Waiting(w.requests, id) \/ (kind = "Timer" /\ elements[id] = "Active")
        BY <1>5, <3>1, <3>3 DEF StableAt
      <4> QED
        BY <1>2, <1>3, <2>2, <3>3, <4>1, <4>2 DEF TimedActed
    <3>4. CASE kind \in {"Indicator", "ContinuationIn"} \cup OutputKinds
      BY <1>4, <1>5, <2>2, <3>1, <3>4 DEF PowerActed, StableAt
    <3>5. CASE kind = "ContinuationOut"
      <4>1. Continued(w.continuation, Earlier(id), elements)
        BY <1>2 DEF Visited
      <4>2. Continued(elements[id], Earlier(id), elements)
        BY <3>1, <3>5 DEF StableAt
      <4>3. w.continuation = elements[id]
        BY <4>1, <4>2, EarlierElements, OneContinuation
      <4> QED
        BY <1>4, <2>2, <3>5, <4>3 DEF PowerActed
    <3> QED
      BY <3>2, <3>3, <3>4, <3>5, ElementKinds
  <2> QED
    BY <2>1, <2>2
<1> HIDE DEF a
<1>7. a \in WalkRecords /\ ~a.changed
  BY <1>2, <1>3, <1>4, <1>6, WalkParts DEF Acted, PowerActed
<1>8. a.elements = elements /\ ~a.anyChanges
  BY <1>2, <1>4, <1>6, <1>7 DEF Acted, TypeOK
<1>9. \A p \in Ports : ~a.ports[p].writing
  BY <1>2, <1>4, <1>7 DEF PortsActed
<1> QED
  BY <1>7, <1>8, <1>9 DEF Quiet, a

LEMMA QuietPass ==
  ASSUME TypeOK, FlowInv, WaitingSettled, PinsInv, PollInv, StableInv, Asleep, ~cutOff, ~enabled
  PROVE  Walked \in Quiet
<1>1. ProgramTyped /\ NetworksTyped
  BY TypesOfProgram
<1>2. WalkStart \in Quiet
  BY <1>1, WalkStartWalk, FetchedPort DEF Quiet, PinsInv
<1>3. \A v \in Quiet : \A n \in DOMAIN Program : Entered(v, n) \in Quiet
  BY <1>1, EnteredFields DEF Quiet
<1>4. KeptByPass(Quiet)
  BY <1>2, <1>3, QuietAction DEF KeptByPass, Quiet
<1> QED
  BY <1>1, <1>4, PassVisits

\* The task goes to sleep on a program that has nothing left to do: another pass
\* would change no element and write nothing (ProcessTask's loop, the ports'
\* FetchValue and CommitChanges, Controller::network_continuation), unless the
\* cycle was cut off or a network was just enabled.
THEOREM SettledTheorem == Spec => []Settled
<1>1. TypeOK /\ FlowInv /\ WaitingSettled /\ PinsInv /\ PollingInv /\ StableInv => Settled
  <2> SUFFICES ASSUME TypeOK, FlowInv, WaitingSettled, PinsInv, PollingInv, StableInv,
                      Asleep, ~cutOff, ~enabled
               PROVE  ~Walked.anyChanges /\ \A port \in Written : ~Walked.ports[port].writing
    BY DEF Settled
  <2>1. Walked \in Quiet
    BY QuietPass DEF PollingInv
  <2> QED
    BY <2>1 DEF Quiet, Written, Ports
<1>2. TypeOK /\ FlowInv /\ PollingInv /\ [Next]_vars => PollingInv'
  BY PollingStep
<1>3. /\ TypeOK /\ FlowInv /\ PinsInv /\ PollingInv /\ ContinuationInv /\ StableInv
      /\ [Next]_vars
      => ContinuationInv' /\ StableInv'
  BY StableStep DEF PollingInv
<1>4. Init => PollingInv /\ ContinuationInv /\ StableInv
  BY PollingInitially, StableInitially
<1> QED
  BY <1>1, <1>2, <1>3, <1>4, ReleaseAlways, PTL DEF Spec
=============================================================================
