--------------------------- MODULE WakeupRequests ---------------------------
(***************************************************************************)
(* The operations of ProcessWakeupService on its vector of requests, which *)
(* is sorted by the time of the wakeup.  A request holds the time left to  *)
(* its wakeup: next_time less the time of the clock.  The comparator takes *)
(* the difference of two times as a signed number, so that only time left  *)
(* tells two requests apart.                                               *)
(***************************************************************************)
EXTENDS Integers, Sequences, SequencesExt

CONSTANTS
  Ids,          \* the elements, inputs and functions that ask for a wakeup
  AddressOf,    \* their addresses, which order requests of the same time
  Millisecond,  \* a millisecond, in the units of the clock
  TickMs,       \* portTICK_PERIOD_MS
  DeadBand      \* idle_dead_band_us

ASSUME AddressAssumption ==
  /\ AddressOf \in [Ids -> Nat]
  /\ \A a, b \in Ids : AddressOf[a] = AddressOf[b] => a = b
ASSUME ClockAssumption ==
  Millisecond \in Nat \ {0} /\ TickMs \in Nat \ {0} /\ DeadBand \in Nat

Priorities == {"idle", "critical"}
Requests == [id : Ids, left : Int, priority : Priorities]

\* Half a tick, which is as near to its time as a wakeup may be.
HalfTick == (TickMs \div 2) * Millisecond

\* The wait of a task that nothing wakes up: default_delay.
Forever == -1

\* ProcessWakeupRequestDataCmp
Before(a, b) ==
  \/ a.left < b.left
  \/ a.left = b.left /\ AddressOf[a.id] < AddressOf[b.id]

\* The order that the vector keeps, and that no caller has two requests in it.
Ordered(q) == \A i, j \in DOMAIN q : i < j => Before(q[i], q[j])
OnePerId(q) == \A i, j \in DOMAIN q : q[i].id = q[j].id => i = j
WellFormedQueue(q) == q \in Seq(Requests) /\ Ordered(q) /\ OnePerId(q)

Waiting(q, id) == \E i \in DOMAIN q : q[i].id = id

\* Mutant: a request is put at the end.
PastLast(q, request) == Len(q) + 1

UpperBound(q, request) ==
  Min({i \in DOMAIN q : Before(request, q[i])} \cup {Len(q) + 1})

\* Mutant: every request joins the next one.
JoinedAny(q, request) ==
  LET upper == UpperBound(q, request) IN
  IF upper \in DOMAIN q /\ q[upper].left - request.left < DeadBand
  THEN [request EXCEPT !.left = q[upper].left]
  ELSE request

\* An idle request takes the time of the next one, if that is near.
Joined(q, request) ==
  LET upper == UpperBound(q, request) IN
  IF /\ upper \in DOMAIN q
     /\ request.priority = "idle"
     /\ q[upper].left - request.left < DeadBand
  THEN [request EXCEPT !.left = q[upper].left]
  ELSE request

\* Request adds a request unless id has one, and answers whether it did.
Added(q, id, delay, priority) ==
  LET request == Joined(q, [id |-> id, left |-> delay, priority |-> priority]) IN
  IF Waiting(q, id) THEN q ELSE InsertAt(q, UpperBound(q, request), request)

Removed(q, id) ==
  IF Waiting(q, id) THEN RemoveAt(q, CHOOSE i \in DOMAIN q : q[i].id = id) ELSE q

\* Mutant: the ticks are rounded up.
WaitTicksUp(q) ==
  IF q = <<>> THEN Forever
  ELSE IF q[1].left < 0 THEN 0
  ELSE ((q[1].left \div Millisecond) + (TickMs - 1)) \div TickMs

\* Get: the ticks to the first wakeup, to the nearest tick.
WaitTicks(q) ==
  IF q = <<>> THEN Forever
  ELSE IF q[1].left < 0 THEN 0
  ELSE ((q[1].left \div Millisecond) + (TickMs - (TickMs \div 2))) \div TickMs

\* Mutant: a request expires only once its time is over.
UnexpiredLate(q) ==
  SubSeq(q, Min({i \in DOMAIN q : q[i].left > 0} \cup {Len(q) + 1}), Len(q))

\* RemoveExpired drops the requests from the first on, up to one to wait for.
Unexpired(q) ==
  SubSeq(q, Min({i \in DOMAIN q : q[i].left > HalfTick} \cup {Len(q) + 1}), Len(q))

\* The clock goes on.
Later(q, time) == [i \in DOMAIN q |-> [q[i] EXCEPT !.left = @ - time]]
=============================================================================
