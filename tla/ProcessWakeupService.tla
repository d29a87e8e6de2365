------------------------ MODULE ProcessWakeupService ------------------------
(***************************************************************************)
(* The wakeup service by itself (ProcessWakeupService.cpp): any caller may *)
(* call any operation at any time.  Every operation holds lock_mutex, so   *)
(* each is one step.  ControllerCycle has the callers of the program.      *)
(***************************************************************************)
EXTENDS WakeupRequests

CONSTANTS
  Delays,      \* the delays asked for, in units of the clock
  MaxOverdue   \* bound: the time a request is left to lie past its time

ASSUME DelaysAssumption == Delays \subseteq Nat /\ MaxOverdue \in Nat

VARIABLES
  requests,
  last       \* history: the last call and its arguments

vars == <<requests, last>>

Init == requests = <<>> /\ last = <<>>

Request(id, delay, priority) ==
  /\ ~Waiting(requests, id)
  /\ requests' = Added(requests, id, delay, priority)
  /\ last' = <<id, delay, priority>>

RemoveRequest(id) ==
  /\ requests' = Removed(requests, id)
  /\ last' = <<id>>

RemoveExpired ==
  /\ requests' = Unexpired(requests)
  /\ last' = <<>>

\* The process task wakes up no later than MaxOverdue after a request.
Elapse ==
  /\ \A i \in DOMAIN requests : requests[i].left > -MaxOverdue
  /\ requests' = Later(requests, 1)
  /\ last' = <<>>

Next ==
  \/ \E id \in Ids, delay \in Delays, priority \in Priorities :
       Request(id, delay, priority)
  \/ \E id \in Ids : RemoveRequest(id)
  \/ RemoveExpired
  \/ Elapse

Spec == Init /\ [][Next]_vars
-----------------------------------------------------------------------------
(***************************************************************************)
(* Properties                                                              *)
(***************************************************************************)
\* The type of the vector, and: it is sorted, so that the front is the nearest
\* wakeup and the expired requests are in front; no caller has two requests.
WellFormed == WellFormedQueue(requests)

\* A wait that ends on time is no more than half a tick late for any request,
\* not only for the first.
NeverOversleeps ==
  \A i \in DOMAIN requests :
    requests[i].left >= 0 =>
      WaitTicks(requests) * TickMs * Millisecond
        <= requests[i].left + (TickMs - (TickMs \div 2)) * Millisecond

\* The process task does not spin: when Get answers 0 there is a request that
\* RemoveExpired takes out, so the next Get is about another one.
NeverSpins ==
  WaitTicks(requests) = 0 => Len(Unexpired(requests)) < Len(requests)

\* The service is an alarm clock.
TimeLeft(q) ==
  [id \in {q[i].id : i \in DOMAIN q} |->
     q[CHOOSE i \in DOMAIN q : q[i].id = id].left]
Clock == INSTANCE AlarmClock WITH due <- TimeLeft(requests), Early <- HalfTick
IsAlarmClock == Clock!Spec
=============================================================================
