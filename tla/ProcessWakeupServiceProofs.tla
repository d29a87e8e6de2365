--------------------- MODULE ProcessWakeupServiceProofs ---------------------
(***************************************************************************)
(* Theorems about the wakeup service, for every set of callers, their      *)
(* addresses, the delays they ask for, the tick and the dead band.         *)
(***************************************************************************)
EXTENDS ProcessWakeupService, SequenceLemmas

-----------------------------------------------------------------------------
(* The order of the requests *)

\* Any two requests of different callers are ordered, one way.
LEMMA BeforeOrder ==
  ASSUME NEW a \in Requests, NEW b \in Requests
  PROVE  /\ a.id # b.id => Before(a, b) \/ Before(b, a)
         /\ ~ (Before(a, b) /\ Before(b, a))
         /\ Before(a, b) => a.left <= b.left
BY AddressAssumption DEF Before, Requests

LEMMA BeforeTransitive ==
  ASSUME NEW a \in Requests, NEW b \in Requests, NEW c \in Requests,
         Before(a, b), Before(b, c)
  PROVE  Before(a, c)
BY AddressAssumption DEF Before, Requests

\* The index a request is inserted at parts the requests before it from those
\* after it.
LEMMA UpperBoundParts ==
  ASSUME NEW q, WellFormedQueue(q), NEW r \in Requests, ~Waiting(q, r.id)
  PROVE  /\ UpperBound(q, r) \in 1..(Len(q) + 1)
         /\ \A j \in DOMAIN q :
              /\ j < UpperBound(q, r) => Before(q[j], r)
              /\ j >= UpperBound(q, r) => Before(r, q[j])
<1> DEFINE after == {i \in DOMAIN q : Before(r, q[i])}
           u == UpperBound(q, r)
<1>1. q \in Seq(Requests) /\ Len(q) \in Nat /\ DOMAIN q = 1..Len(q)
  BY DEF WellFormedQueue
<1>2. u \in after \cup {Len(q) + 1} /\ \A i \in after : u <= i
  <2>1. after \cup {Len(q) + 1} \subseteq Nat /\ after \cup {Len(q) + 1} # {}
    BY <1>1
  <2>2. u = Min(after \cup {Len(q) + 1})
    BY DEF UpperBound
  <2> QED
    BY <2>1, <2>2, MinOfIndices
<1>3. u \in 1..(Len(q) + 1)
  BY <1>1, <1>2
<1> HIDE DEF u
<1>4. ASSUME NEW j \in DOMAIN q, j < u
      PROVE  Before(q[j], r)
  <2>1. j \notin after
    BY <1>1, <1>2, <1>3, <1>4
  <2>2. q[j] \in Requests /\ q[j].id # r.id
    BY <1>1 DEF Waiting
  <2> QED
    BY <2>1, <2>2, BeforeOrder
<1>5. ASSUME NEW j \in DOMAIN q, j >= u
      PROVE  Before(r, q[j])
  <2>1. u \in DOMAIN q /\ Before(r, q[u])
    BY <1>1, <1>2, <1>3, <1>5
  <2>2. j = u \/ Before(q[u], q[j])
    BY <1>1, <1>3, <1>5, <2>1 DEF WellFormedQueue, Ordered
  <2> QED
    BY <1>1, <2>1, <2>2, BeforeTransitive
<1> QED
  BY <1>3, <1>4, <1>5 DEF u

-----------------------------------------------------------------------------
(* The operations keep the order *)

\* A request joins the next one only if it is idle and the next one is near.
LEMMA JoinedRequest ==
  ASSUME NEW q, WellFormedQueue(q), NEW r \in Requests, ~Waiting(q, r.id)
  PROVE  /\ Joined(q, r) \in Requests
         /\ Joined(q, r).id = r.id
         /\ \/ Joined(q, r).left = r.left
            \/ /\ r.priority = "idle"
               /\ r.left <= Joined(q, r).left /\ Joined(q, r).left < r.left + DeadBand
               /\ \E i \in DOMAIN q : Joined(q, r).left = q[i].left
<1> DEFINE u == UpperBound(q, r)
<1>1. q \in Seq(Requests) /\ DOMAIN q = 1..Len(q)
  BY DEF WellFormedQueue
<1>2. CASE u \in DOMAIN q /\ r.priority = "idle" /\ q[u].left - r.left < DeadBand
  <2>1. q[u] \in Requests /\ Before(r, q[u])
    BY <1>1, <1>2, UpperBoundParts
  <2>2. r.left <= q[u].left
    BY <2>1, BeforeOrder
  <2>3. Joined(q, r) = [r EXCEPT !.left = q[u].left]
    BY <1>2 DEF Joined
  <2> QED
    BY <1>2, <2>1, <2>2, <2>3, ClockAssumption DEF Requests
<1>3. CASE ~(u \in DOMAIN q /\ r.priority = "idle" /\ q[u].left - r.left < DeadBand)
  BY <1>3 DEF Joined
<1> QED
  BY <1>2, <1>3

LEMMA InsertedQueue ==
  ASSUME NEW q, WellFormedQueue(q), NEW r \in Requests, ~Waiting(q, r.id),
         NEW k \in 1..(Len(q) + 1),
         \A j \in DOMAIN q : /\ j < k => Before(q[j], r)
                             /\ j >= k => Before(r, q[j])
  PROVE  WellFormedQueue(InsertAt(q, k, r))
<1> DEFINE added == InsertAt(q, k, r)
<1>1. q \in Seq(Requests) /\ DOMAIN q = 1..Len(q) /\ Len(q) \in Nat
  BY DEF WellFormedQueue
<1>2. /\ added \in Seq(Requests)
      /\ Len(added) = Len(q) + 1
      /\ \A i \in 1..(Len(q) + 1) :
           added[i] = IF i < k THEN q[i] ELSE IF i = k THEN r ELSE q[i - 1]
  BY <1>1, InsertAtElements
<1> HIDE DEF added
<1>3. DOMAIN added = 1..(Len(q) + 1)
  BY <1>2
<1>4. Ordered(added)
  <2> SUFFICES ASSUME NEW i \in DOMAIN added, NEW j \in DOMAIN added, i < j
               PROVE  Before(added[i], added[j])
    BY DEF Ordered
  <2>1. CASE j < k
    BY <1>1, <1>2, <1>3, <2>1 DEF WellFormedQueue, Ordered
  <2>2. CASE j = k
    BY <1>1, <1>2, <1>3, <2>2
  <2>3. CASE j > k /\ i = k
    <3>1. added[i] = r /\ added[j] = q[j - 1] /\ j - 1 \in DOMAIN q /\ j - 1 >= k
      BY <1>1, <1>2, <1>3, <2>3
    <3> QED
      BY <3>1
  <2>4. CASE j > k /\ i < k
    <3>1. /\ added[i] = q[i] /\ added[j] = q[j - 1]
          /\ i \in DOMAIN q /\ j - 1 \in DOMAIN q
      BY <1>1, <1>2, <1>3, <2>4
    <3>2. j - 1 >= k
      BY <1>1, <1>3, <2>4
    <3>3. Before(q[i], r) /\ Before(r, q[j - 1])
      BY <2>4, <3>1, <3>2
    <3>4. q[i] \in Requests /\ q[j - 1] \in Requests
      BY <1>1, <3>1
    <3> QED
      BY <3>1, <3>3, <3>4, BeforeTransitive
  <2>5. CASE j > k /\ i > k
    <3>1. /\ added[i] = q[i - 1] /\ added[j] = q[j - 1]
          /\ i - 1 \in DOMAIN q /\ j - 1 \in DOMAIN q /\ i - 1 < j - 1
      BY <1>1, <1>2, <1>3, <2>5
    <3> QED
      BY <3>1 DEF WellFormedQueue, Ordered
  <2> QED
    BY <1>3, <2>1, <2>2, <2>3, <2>4, <2>5
<1>5. OnePerId(added)
  <2>1. \A i \in DOMAIN q : q[i].id # r.id
    BY DEF Waiting
  <2> SUFFICES ASSUME NEW i \in DOMAIN added, NEW j \in DOMAIN added,
                      i < j, added[i].id = added[j].id
               PROVE  FALSE
    BY <1>3 DEF OnePerId
  <2>2. CASE i = k
    <3>1. added[i] = r /\ added[j] = q[j - 1] /\ j - 1 \in DOMAIN q
      BY <1>1, <1>2, <1>3, <2>2
    <3> QED
      BY <2>1, <3>1
  <2>3. CASE j = k
    <3>1. added[j] = r /\ added[i] = q[i] /\ i \in DOMAIN q
      BY <1>1, <1>2, <1>3, <2>3
    <3> QED
      BY <2>1, <3>1
  <2>4. CASE i # k /\ j # k
    <3> DEFINE m == IF i < k THEN i ELSE i - 1
               n == IF j < k THEN j ELSE j - 1
    <3>1. /\ m \in DOMAIN q /\ n \in DOMAIN q /\ m # n
      BY <1>1, <1>3, <2>4
    <3>2. added[i] = q[m] /\ added[j] = q[n]
      BY <1>1, <1>2, <1>3, <2>4
    <3> QED
      BY <3>1, <3>2 DEF WellFormedQueue, OnePerId
  <2> QED
    BY <2>2, <2>3, <2>4
<1> QED
  BY <1>2, <1>4, <1>5 DEF WellFormedQueue, added

LEMMA AddedQueue ==
  ASSUME NEW q, WellFormedQueue(q), NEW id \in Ids, ~Waiting(q, id),
         NEW delay \in Int, NEW priority \in Priorities
  PROVE  LET r == Joined(q, [id |-> id, left |-> delay, priority |-> priority]) IN
         /\ WellFormedQueue(Added(q, id, delay, priority))
         /\ \E k \in 1..(Len(q) + 1) : Added(q, id, delay, priority) = InsertAt(q, k, r)
<1> DEFINE asked == [id |-> id, left |-> delay, priority |-> priority]
           r == Joined(q, asked)
           k == UpperBound(q, r)
<1>1. asked \in Requests /\ asked.id = id
  BY DEF Requests
<1>2. r \in Requests /\ r.id = id
  BY <1>1, JoinedRequest
<1>3. Added(q, id, delay, priority) = InsertAt(q, k, r)
  BY DEF Added
<1> HIDE DEF r
<1>4. /\ k \in 1..(Len(q) + 1)
      /\ \A j \in DOMAIN q :
           /\ j < k => Before(q[j], r)
           /\ j >= k => Before(r, q[j])
  BY <1>2, UpperBoundParts
<1> HIDE DEF k
<1>5. WellFormedQueue(InsertAt(q, k, r))
  BY <1>2, <1>4, InsertedQueue
<1> QED
  BY <1>3, <1>4, <1>5 DEF r
\* A request is removed from its place.
LEMMA RemovedQueue ==
  ASSUME NEW q, WellFormedQueue(q), NEW id \in Ids, Waiting(q, id)
  PROVE  /\ WellFormedQueue(Removed(q, id))
         /\ \E k \in DOMAIN q : q[k].id = id /\ Removed(q, id) = RemoveAt(q, k)
<1> DEFINE k == CHOOSE i \in DOMAIN q : q[i].id = id
           left == RemoveAt(q, k)
<1>1. q \in Seq(Requests) /\ DOMAIN q = 1..Len(q) /\ Len(q) \in Nat
  BY DEF WellFormedQueue
<1>2. k \in DOMAIN q /\ q[k].id = id
  BY DEF Waiting
<1>3. Removed(q, id) = left
  BY DEF Removed
<1> HIDE DEF k
<1>4. /\ left \in Seq(Requests)
      /\ Len(left) = Len(q) - 1
      /\ \A i \in 1..(Len(q) - 1) : left[i] = q[IF i < k THEN i ELSE i + 1]
  BY <1>1, <1>2, RemoveAtElements
<1> HIDE DEF left
<1>5. ASSUME NEW i \in DOMAIN left, NEW j \in DOMAIN left, i < j
      PROVE  Before(left[i], left[j]) /\ left[i].id # left[j].id
  <2> DEFINE m == IF i < k THEN i ELSE i + 1
             n == IF j < k THEN j ELSE j + 1
  <2>1. m \in DOMAIN q /\ n \in DOMAIN q /\ m < n
    BY <1>1, <1>2, <1>4, <1>5
  <2>2. left[i] = q[m] /\ left[j] = q[n]
    BY <1>4
  <2> QED
    BY <1>1, <2>1, <2>2 DEF WellFormedQueue, Ordered, OnePerId
<1>6. Ordered(left)
  BY <1>5 DEF Ordered
<1>7. OnePerId(left)
  BY <1>4, <1>5 DEF OnePerId
<1> QED
  BY <1>2, <1>3, <1>4, <1>6, <1>7 DEF WellFormedQueue, left

\* RemoveExpired drops exactly the requests that have expired, as they are
\* the first.
LEMMA UnexpiredQueue ==
  ASSUME NEW q, WellFormedQueue(q)
  PROVE  /\ WellFormedQueue(Unexpired(q))
         /\ \E n \in 1..(Len(q) + 1) :
              /\ Unexpired(q) = SubSeq(q, n, Len(q))
              /\ \A i \in DOMAIN q : q[i].left > HalfTick <=> i >= n
<1> DEFINE later == {i \in DOMAIN q : q[i].left > HalfTick}
           n == Min(later \cup {Len(q) + 1})
           rest == SubSeq(q, n, Len(q))
<1>1. q \in Seq(Requests) /\ DOMAIN q = 1..Len(q) /\ Len(q) \in Nat
  BY DEF WellFormedQueue
<1>2. later \cup {Len(q) + 1} \subseteq Nat /\ later \cup {Len(q) + 1} # {}
  BY <1>1
<1>3. n \in later \cup {Len(q) + 1} /\ \A i \in later : n <= i
  BY <1>2, MinOfIndices
<1>4. n \in 1..(Len(q) + 1)
  BY <1>1, <1>3
<1>5. Unexpired(q) = rest
  BY DEF Unexpired
<1> HIDE DEF n
<1>6. HalfTick \in Int
  BY ClockAssumption DEF HalfTick
<1>7. ASSUME NEW i \in DOMAIN q
      PROVE  q[i].left > HalfTick <=> i >= n
  <2>1. CASE i < n
    BY <1>1, <1>3, <1>4, <2>1
  <2>2. CASE i >= n
    <3>1. n \in DOMAIN q /\ q[n].left > HalfTick
      BY <1>1, <1>3, <1>4, <2>2
    <3>2. i = n \/ Before(q[n], q[i])
      BY <1>1, <1>4, <2>2, <3>1 DEF WellFormedQueue, Ordered
    <3>3. q[n] \in Requests /\ q[i] \in Requests
      BY <1>1, <3>1
    <3>4. q[n].left <= q[i].left
      BY <3>2, <3>3, BeforeOrder DEF Requests
    <3> QED
      BY <1>6, <2>2, <3>1, <3>3, <3>4 DEF Requests
  <2> QED
    BY <1>1, <1>4, <2>1, <2>2
<1>8. /\ rest \in Seq(Requests)
      /\ Len(rest) = Len(q) - n + 1
      /\ \A i \in 1..(Len(q) - n + 1) : rest[i] = q[n + i - 1]
  BY <1>1, <1>4, SubSeqProperties
<1> HIDE DEF rest
<1>9. ASSUME NEW i \in DOMAIN rest, NEW j \in DOMAIN rest, i < j
      PROVE  Before(rest[i], rest[j]) /\ rest[i].id # rest[j].id
  <2>1. /\ rest[i] = q[n + i - 1] /\ rest[j] = q[n + j - 1]
        /\ n + i - 1 \in DOMAIN q /\ n + j - 1 \in DOMAIN q /\ n + i - 1 < n + j - 1
    BY <1>1, <1>4, <1>8, <1>9
  <2> QED
    BY <1>1, <2>1 DEF WellFormedQueue, Ordered, OnePerId
<1>10. Ordered(rest)
  BY <1>9 DEF Ordered
<1>11. OnePerId(rest)
  BY <1>8, <1>9 DEF OnePerId
<1> QED
  BY <1>4, <1>5, <1>7, <1>8, <1>10, <1>11 DEF WellFormedQueue, rest

LEMMA LaterQueue ==
  ASSUME NEW q, WellFormedQueue(q), NEW time \in Int
  PROVE  /\ WellFormedQueue(Later(q, time))
         /\ DOMAIN Later(q, time) = DOMAIN q
         /\ \A i \in DOMAIN q : /\ Later(q, time)[i].id = q[i].id
                                /\ Later(q, time)[i].left = q[i].left - time
<1> DEFINE later == Later(q, time)
<1>1. q \in Seq(Requests) /\ DOMAIN q = 1..Len(q) /\ Len(q) \in Nat
  BY DEF WellFormedQueue
<1>2. DOMAIN later = 1..Len(q)
  BY <1>1 DEF Later
<1>3. ASSUME NEW i \in DOMAIN q
      PROVE  /\ later[i] \in Requests
             /\ later[i].id = q[i].id
             /\ later[i].left = q[i].left - time
  <2>1. later[i] = [q[i] EXCEPT !.left = q[i].left - time] /\ q[i] \in Requests
    BY <1>1 DEF Later
  <2> HIDE DEF later
  <2> QED
    BY <2>1 DEF Requests
<1>4. later \in Seq(Requests)
  <2>1. later = [i \in 1..Len(q) |-> later[i]]
    BY <1>1 DEF Later
  <2> HIDE DEF later
  <2> QED
    BY <1>1, <1>3, <2>1
<1> HIDE DEF later
<1>5. Ordered(later)
  <2> SUFFICES ASSUME NEW i \in DOMAIN later, NEW j \in DOMAIN later, i < j
               PROVE  Before(later[i], later[j])
    BY DEF Ordered
  <2>1. Before(q[i], q[j]) /\ q[i] \in Requests /\ q[j] \in Requests
    BY <1>1, <1>2 DEF WellFormedQueue, Ordered
  <2> QED
    BY <1>1, <1>2, <1>3, <2>1 DEF Before, Requests
<1>6. OnePerId(later)
  BY <1>1, <1>2, <1>3 DEF WellFormedQueue, OnePerId
<1> QED
  BY <1>1, <1>2, <1>3, <1>4, <1>5, <1>6 DEF WellFormedQueue, later
-----------------------------------------------------------------------------
(* The theorems *)

LEMMA WellFormedStep ==
  ASSUME WellFormed, [Next]_vars
  PROVE  WellFormed'
<1> USE DEF WellFormed
<1>1. ASSUME NEW id \in Ids, NEW delay \in Delays, NEW priority \in Priorities,
             Request(id, delay, priority)
      PROVE  WellFormed'
  <2>1. delay \in Int /\ ~Waiting(requests, id)
    BY <1>1, DelaysAssumption DEF Request
  <2>2. WellFormedQueue(Added(requests, id, delay, priority))
    BY <2>1, AddedQueue
  <2> QED
    BY <1>1, <2>2 DEF Request
<1>2. ASSUME NEW id \in Ids, RemoveRequest(id)
      PROVE  WellFormed'
  <2>1. CASE Waiting(requests, id)
    BY <1>2, <2>1, RemovedQueue DEF RemoveRequest
  <2>2. CASE ~Waiting(requests, id)
    BY <1>2, <2>2 DEF RemoveRequest, Removed
  <2> QED
    BY <2>1, <2>2
<1>3. CASE RemoveExpired
  BY <1>3, UnexpiredQueue DEF RemoveExpired
<1>4. CASE Elapse
  BY <1>4, LaterQueue DEF Elapse
<1>5. CASE UNCHANGED vars
  BY <1>5 DEF vars
<1> QED
  BY <1>1, <1>2, <1>3, <1>4, <1>5 DEF Next

\* The vector of requests stays sorted, and no caller gets two requests.
THEOREM RequestsWellFormed == Spec => []WellFormed
<1>1. Init => WellFormed
  BY DEF Init, WellFormed, WellFormedQueue, Ordered, OnePerId
<1>2. WellFormed /\ [Next]_vars => WellFormed'
  BY WellFormedStep
<1> QED
  BY <1>1, <1>2, PTL DEF Spec

\* The quotient of a rounding to the nearest.
LEMMA Division ==
  ASSUME NEW a \in Nat, NEW b \in Nat \ {0}
  PROVE  /\ a \div b \in Nat
         /\ (a \div b) * b <= a
         /\ a < (a \div b) * b + b
OBVIOUS

\* When Get answers 0, the first request has expired.
LEMMA ZeroTicksExpired ==
  ASSUME NEW q \in Seq(Requests), WaitTicks(q) = 0
  PROVE  Len(q) \in Nat \ {0} /\ q[1].left <= HalfTick
<1> DEFINE ms == q[1].left \div Millisecond
           half == TickMs \div 2
<1>1. Len(q) \in Nat \ {0} /\ q[1] \in Requests
  BY DEF WaitTicks, Forever
<1>2. q[1].left \in Int
  BY <1>1 DEF Requests
<1>3. TickMs \in Nat \ {0} /\ Millisecond \in Nat \ {0} /\ half \in Nat /\ half * 2 <= TickMs
  BY ClockAssumption
<1>4. CASE q[1].left < 0
  <2>1. HalfTick \in Nat
    BY <1>3 DEF HalfTick
  <2> QED
    BY <1>1, <1>2, <1>4, <2>1
<1>5. CASE q[1].left >= 0
  <2>1. (ms + (TickMs - half)) \div TickMs = 0
    BY <1>1, <1>2, <1>5 DEF WaitTicks
  <2>2. ms \in Nat /\ q[1].left < ms * Millisecond + Millisecond
    <3>1. q[1].left \in Nat
      BY <1>2, <1>5
    <3> QED
      BY <1>3, <3>1, Division
  <2> HIDE DEF ms, half
  <2>3. ms + (TickMs - half) < TickMs
    BY <1>3, <2>1, <2>2, Division
  <2>4. ms + 1 <= half
    BY <1>3, <2>2, <2>3
  <2>5. ms * Millisecond + Millisecond <= half * Millisecond
    BY <1>3, <2>2, <2>4
  <2>6. HalfTick = half * Millisecond
    BY DEF HalfTick, half
  <2> QED
    BY <1>1, <1>2, <1>3, <2>2, <2>5, <2>6
<1> QED
  BY <1>2, <1>4, <1>5

\* The process task never spins on a request that it does not take out.
THEOREM NeverSpinsTheorem == Spec => []NeverSpins
<1>1. WellFormed => NeverSpins
  <2> SUFFICES ASSUME WellFormed, WaitTicks(requests) = 0
               PROVE  Len(Unexpired(requests)) < Len(requests)
    BY DEF NeverSpins
  <2>1. requests \in Seq(Requests) /\ DOMAIN requests = 1..Len(requests)
    BY DEF WellFormed, WellFormedQueue
  <2>2. Len(requests) \in Nat \ {0} /\ requests[1].left <= HalfTick
    BY <2>1, ZeroTicksExpired
  <2>3. PICK n \in 1..(Len(requests) + 1) :
          /\ Unexpired(requests) = SubSeq(requests, n, Len(requests))
          /\ \A i \in DOMAIN requests : requests[i].left > HalfTick <=> i >= n
    BY UnexpiredQueue DEF WellFormed
  <2>4. n > 1
    <3>1. requests[1] \in Requests /\ 1 \in DOMAIN requests
      BY <2>1, <2>2
    <3>2. requests[1].left \in Int /\ HalfTick \in Int
      BY <3>1, ClockAssumption DEF Requests, HalfTick
    <3> QED
      BY <2>2, <2>3, <3>1, <3>2
  <2>5. Len(SubSeq(requests, n, Len(requests))) = Len(requests) - n + 1
    BY <2>1, <2>2, SubSeqProperties
  <2> QED
    BY <2>2, <2>3, <2>4, <2>5
<1> QED
  BY <1>1, RequestsWellFormed, PTL
\* A wait that ends on time is at most half a tick late, for any request.
THEOREM NeverOversleepsTheorem == Spec => []NeverOversleeps
<1>1. WellFormed => NeverOversleeps
  <2> SUFFICES ASSUME WellFormed, NEW i \in DOMAIN requests, requests[i].left >= 0
               PROVE  WaitTicks(requests) * TickMs * Millisecond
                        <= requests[i].left + (TickMs - (TickMs \div 2)) * Millisecond
    BY DEF NeverOversleeps
  <2> DEFINE first == requests[1].left
             ms == first \div Millisecond
             half == TickMs \div 2
             ticks == (ms + (TickMs - half)) \div TickMs
  <2>1. /\ requests \in Seq(Requests) /\ DOMAIN requests = 1..Len(requests)
        /\ Len(requests) \in Nat \ {0} /\ requests[1] \in Requests
        /\ requests[i] \in Requests
    BY DEF WellFormed, WellFormedQueue
  <2>2. first \in Int /\ requests[i].left \in Int
    BY <2>1 DEF Requests
  <2>3. first <= requests[i].left
    <3>1. i = 1 \/ Before(requests[1], requests[i])
      BY <2>1 DEF WellFormed, WellFormedQueue, Ordered
    <3> QED
      BY <2>1, <2>2, <3>1, BeforeOrder
  <2>4. TickMs \in Nat \ {0} /\ Millisecond \in Nat \ {0} /\ half \in Nat /\ half * 2 <= TickMs
    BY ClockAssumption
  <2>5. CASE first < 0
    <3>1. WaitTicks(requests) = 0
      BY <2>1, <2>5 DEF WaitTicks
    <3>2. (TickMs - half) * Millisecond \in Nat
      BY <2>4
    <3> QED
      BY <2>2, <2>4, <3>1, <3>2
  <2>6. CASE first >= 0
    <3>1. WaitTicks(requests) = ticks
      BY <2>1, <2>2, <2>6 DEF WaitTicks
    <3>2. first \in Nat
      BY <2>2, <2>6
    <3> HIDE DEF first, half
    <3>3. ms \in Nat /\ ms * Millisecond <= first
      BY <2>4, <3>2, Division
    <3> HIDE DEF ms
    <3>4. ticks \in Nat /\ ticks * TickMs <= ms + (TickMs - half)
      <4>1. ms + (TickMs - half) \in Nat
        BY <2>4, <3>3
      <4> QED
        BY <2>4, <4>1, Division
    <3> HIDE DEF ticks
    <3>5. ticks * TickMs * Millisecond <= (ms + (TickMs - half)) * Millisecond
      BY <2>4, <3>3, <3>4
    <3>6. (ms + (TickMs - half)) * Millisecond
            = ms * Millisecond + (TickMs - half) * Millisecond
      BY <2>4, <3>3
    <3>7. /\ ticks * TickMs * Millisecond \in Int
          /\ (TickMs - half) * Millisecond \in Int
          /\ ms * Millisecond \in Int
      BY <2>4, <3>3, <3>4
    <3>8. ticks * TickMs * Millisecond
            <= requests[i].left + (TickMs - half) * Millisecond
      BY <2>2, <2>3, <3>2, <3>3, <3>5, <3>6, <3>7 DEF first
    <3> QED
      BY <3>1, <3>8 DEF half
  <2> QED
    BY <2>2, <2>5, <2>6
<1> QED
  BY <1>1, RequestsWellFormed, PTL
-----------------------------------------------------------------------------
(* The refinement *)

\* The alarms are the requests.
LEMMA TimeLeftOfRequest ==
  ASSUME NEW q, WellFormedQueue(q)
  PROVE  /\ TimeLeft(q) = [id \in DOMAIN TimeLeft(q) |-> TimeLeft(q)[id]]
         /\ \A id : id \in DOMAIN TimeLeft(q) <=> \E i \in DOMAIN q : q[i].id = id
         /\ \A i \in DOMAIN q : TimeLeft(q)[q[i].id] = q[i].left
<1>1. ASSUME NEW i \in DOMAIN q
      PROVE  (CHOOSE j \in DOMAIN q : q[j].id = q[i].id) = i
  BY DEF WellFormedQueue, OnePerId
<1>2. TimeLeft(q) = [id \in DOMAIN TimeLeft(q) |-> TimeLeft(q)[id]]
  BY DEF TimeLeft
<1>3. \A id : id \in DOMAIN TimeLeft(q) <=> \E i \in DOMAIN q : q[i].id = id
  BY DEF TimeLeft
<1>4. ASSUME NEW i \in DOMAIN q
      PROVE  TimeLeft(q)[q[i].id] = q[i].left
  <2>1. q[i].id \in {q[j].id : j \in DOMAIN q}
    OBVIOUS
  <2>2. TimeLeft(q)[q[i].id] = q[CHOOSE j \in DOMAIN q : q[j].id = q[i].id].left
    BY <2>1, Zenon DEF TimeLeft
  <2> QED
    BY <1>1, <2>2
<1> QED
  BY <1>2, <1>3, <1>4

\* The queue added holds the requests of q and the request r.
Adds(q, added, r) ==
  /\ WellFormedQueue(q) /\ WellFormedQueue(added) /\ ~Waiting(q, r.id)
  /\ \A i \in DOMAIN q : \E j \in DOMAIN added : added[j] = q[i]
  /\ \A j \in DOMAIN added : added[j] = r \/ \E i \in DOMAIN q : added[j] = q[i]
  /\ \E k \in DOMAIN added : added[k] = r

LEMMA InsertAtAdds ==
  ASSUME NEW q, WellFormedQueue(q), NEW r \in Requests, ~Waiting(q, r.id),
         NEW k \in 1..(Len(q) + 1), WellFormedQueue(InsertAt(q, k, r))
  PROVE  Adds(q, InsertAt(q, k, r), r)
<1> DEFINE added == InsertAt(q, k, r)
<1>1. q \in Seq(Requests) /\ DOMAIN q = 1..Len(q) /\ Len(q) \in Nat
  BY DEF WellFormedQueue
<1>2. /\ InsertAt(q, k, r) \in Seq(Requests)
      /\ Len(InsertAt(q, k, r)) = Len(q) + 1
  BY <1>1, InsertAtElements
<1>3. ASSUME NEW i \in 1..(Len(q) + 1)
      PROVE  added[i] = IF i < k THEN q[i] ELSE IF i = k THEN r ELSE q[i - 1]
  BY <1>1, InsertAtElements
<1>4. DOMAIN added = 1..(Len(q) + 1)
  BY <1>2
<1> HIDE DEF added
<1>5. ASSUME NEW i \in DOMAIN q
      PROVE  \E j \in DOMAIN added : added[j] = q[i]
  <2>1. CASE i < k
    BY <1>1, <1>3, <1>4, <2>1
  <2>2. CASE i >= k
    <3>1. i + 1 \in DOMAIN added /\ ~(i + 1 < k) /\ i + 1 # k /\ (i + 1) - 1 = i
      BY <1>1, <1>4, <2>2
    <3> QED
      BY <1>3, <1>4, <3>1
  <2> QED
    BY <1>1, <2>1, <2>2
<1>6. ASSUME NEW j \in DOMAIN added
      PROVE  added[j] = r \/ \E i \in DOMAIN q : added[j] = q[i]
  <2>1. CASE j < k
    BY <1>1, <1>3, <1>4, <2>1
  <2>2. CASE j > k
    <3>1. j - 1 \in DOMAIN q /\ ~(j < k) /\ j # k
      BY <1>1, <1>4, <2>2
    <3> QED
      BY <1>3, <1>4, <3>1
  <2>3. CASE j = k
    BY <1>1, <1>3, <1>4, <2>3
  <2> QED
    BY <1>1, <1>4, <2>1, <2>2, <2>3
<1>7. k \in DOMAIN added /\ added[k] = r
  BY <1>1, <1>3, <1>4
<1>8. WellFormedQueue(added)
  BY DEF added
<1> QED
  BY <1>5, <1>6, <1>7, <1>8 DEF Adds, added

\* A request that is inserted sets its own alarm ...
LEMMA RequestAlarm ==
  ASSUME NEW q, NEW added, NEW r, Adds(q, added, r)
  PROVE  TimeLeft(added)[r.id] = r.left
BY TimeLeftOfRequest DEF Adds

\* ... and adds one ...
LEMMA AddedTimeLeft ==
  ASSUME NEW q, NEW added, NEW r, Adds(q, added, r)
  PROVE  DOMAIN TimeLeft(added) = DOMAIN TimeLeft(q) \cup {r.id}
<1> USE DEF Adds
<1>1. ASSUME NEW id \in DOMAIN TimeLeft(added)
      PROVE  id = r.id \/ id \in DOMAIN TimeLeft(q)
  <2>1. PICK j \in DOMAIN added : added[j].id = id
    BY TimeLeftOfRequest
  <2> QED
    BY <2>1, TimeLeftOfRequest
<1>2. r.id \in DOMAIN TimeLeft(added)
  BY TimeLeftOfRequest
<1>3. ASSUME NEW id \in DOMAIN TimeLeft(q)
      PROVE  id \in DOMAIN TimeLeft(added)
  <2>1. PICK i \in DOMAIN q : q[i].id = id
    BY TimeLeftOfRequest
  <2>2. PICK j \in DOMAIN added : added[j] = q[i]
    OBVIOUS
  <2> QED
    BY <2>1, <2>2, TimeLeftOfRequest
<1> QED
  BY <1>1, <1>2, <1>3

\* ... and changes no other.
LEMMA OtherAlarms ==
  ASSUME NEW q, NEW added, NEW r, Adds(q, added, r), NEW id \in DOMAIN TimeLeft(q)
  PROVE  TimeLeft(added)[id] = TimeLeft(q)[id]
<1> USE DEF Adds
<1>1. PICK i \in DOMAIN q : q[i].id = id
  BY TimeLeftOfRequest
<1>2. PICK j \in DOMAIN added : added[j] = q[i]
  OBVIOUS
<1> QED
  BY <1>1, <1>2, TimeLeftOfRequest

\* The queue kept holds the requests of q whose callers are in Ks.
Keeps(q, kept, Ks) ==
  /\ WellFormedQueue(q) /\ WellFormedQueue(kept)
  /\ \A j \in DOMAIN kept : \E i \in DOMAIN q : kept[j] = q[i] /\ q[i].id \in Ks
  /\ \A i \in DOMAIN q : q[i].id \in Ks => \E j \in DOMAIN kept : kept[j] = q[i]
  /\ Ks \subseteq DOMAIN TimeLeft(q)

\* A queue that keeps some of the requests keeps their alarms.
LEMMA KeptTimeLeft ==
  ASSUME NEW q, NEW kept, NEW Ks, Keeps(q, kept, Ks)
  PROVE  /\ DOMAIN TimeLeft(kept) = Ks
         /\ \A id \in Ks : TimeLeft(kept)[id] = TimeLeft(q)[id]
<1>1. DOMAIN TimeLeft(kept) = Ks
  <2>1. ASSUME NEW id \in DOMAIN TimeLeft(kept)
        PROVE  id \in Ks
    BY TimeLeftOfRequest DEF Keeps
  <2>2. ASSUME NEW id \in Ks
        PROVE  id \in DOMAIN TimeLeft(kept)
    <3>1. PICK i \in DOMAIN q : q[i].id = id
      BY TimeLeftOfRequest DEF Keeps
    <3>2. PICK j \in DOMAIN kept : kept[j] = q[i]
      BY <3>1 DEF Keeps
    <3> QED
      BY <3>1, <3>2, TimeLeftOfRequest DEF Keeps
  <2> QED
    BY <2>1, <2>2
<1>2. ASSUME NEW id \in Ks
      PROVE  TimeLeft(kept)[id] = TimeLeft(q)[id]
  <2>1. PICK i \in DOMAIN q : q[i].id = id
    BY TimeLeftOfRequest DEF Keeps
  <2>2. PICK j \in DOMAIN kept : kept[j] = q[i]
    BY <2>1 DEF Keeps
  <2> QED
    BY <2>1, <2>2, TimeLeftOfRequest DEF Keeps
<1> QED
  BY <1>1, <1>2

\* Request sets the alarm of its caller.
LEMMA RequestSetsAlarm ==
  ASSUME WellFormed, NEW id \in Ids, NEW delay \in Delays, NEW priority \in Priorities,
         Request(id, delay, priority)
  PROVE  Clock!Set(id, delay, priority)
<1> DEFINE q == requests
           asked == [id |-> id, left |-> delay, priority |-> priority]
<1>1. /\ WellFormedQueue(q) /\ WellFormedQueue(requests')
      /\ ~Waiting(q, id) /\ delay \in Int
      /\ requests' = Added(q, id, delay, priority)
      /\ last' = <<id, delay, priority>>
  BY WellFormedStep, DelaysAssumption DEF WellFormed, Next, Request
<1>2. asked \in Requests /\ asked.id = id /\ asked.left = delay /\ asked.priority = priority
  BY <1>1 DEF Requests
<1>3. PICK r \in Requests :
      /\ r = Joined(q, asked) /\ r.id = id
      /\ \/ r.left = delay
         \/ /\ priority = "idle"
            /\ delay <= r.left /\ r.left < delay + DeadBand
            /\ \E i \in DOMAIN q : r.left = q[i].left
  <2> HIDE DEF asked
  <2> QED
    BY <1>1, <1>2, JoinedRequest
<1>4. PICK k \in 1..(Len(q) + 1) : requests' = InsertAt(q, k, r)
  BY <1>1, <1>3, AddedQueue
<1>5. TimeLeft(requests') =
        [i \in DOMAIN TimeLeft(q) \cup {id} |-> IF i = id THEN r.left ELSE TimeLeft(q)[i]]
  <2> HIDE DEF asked
  <2>1. ~Waiting(q, r.id) /\ r.id = id /\ r \in Requests
    BY <1>1, <1>3
  <2>2. Adds(q, requests', r)
    <3>1. WellFormedQueue(InsertAt(q, k, r))
      BY <1>1, <1>4
    <3>2. Adds(q, InsertAt(q, k, r), r)
      BY <1>1, <2>1, <3>1, InsertAtAdds
    <3> QED
      BY <1>4, <3>2
  <2>3. DOMAIN TimeLeft(requests') = DOMAIN TimeLeft(q) \cup {id}
    BY <2>1, <2>2, AddedTimeLeft
  <2>4. ASSUME NEW i \in DOMAIN TimeLeft(q) \cup {id}
        PROVE  TimeLeft(requests')[i] = IF i = id THEN r.left ELSE TimeLeft(q)[i]
    <3>1. TimeLeft(requests')[id] = r.left
      BY <2>1, <2>2, RequestAlarm
    <3>2. CASE i # id
      <4>1. i \in DOMAIN TimeLeft(q)
        BY <2>4, <3>2
      <4>2. TimeLeft(requests')[i] = TimeLeft(q)[i]
        BY <2>2, <4>1, OtherAlarms
      <4> QED
        BY <3>2, <4>2
    <3> QED
      BY <3>1, <3>2
  <2> QED
    BY <1>1, <2>3, <2>4, TimeLeftOfRequest
<1>6. id \notin DOMAIN TimeLeft(q)
  BY <1>1, TimeLeftOfRequest DEF Waiting
<1>7. r.left \in {delay} \cup {t \in Clock!Range(TimeLeft(q)) :
                     priority = "idle" /\ delay <= t /\ t < delay + DeadBand}
  <2>1. CASE r.left = delay
    BY <2>1
  <2>2. CASE r.left # delay
    <3>1. PICK i \in DOMAIN q : r.left = q[i].left
      BY <1>3, <2>2
    <3>2. r.left = TimeLeft(q)[q[i].id] /\ q[i].id \in DOMAIN TimeLeft(q)
      BY <1>1, <3>1, TimeLeftOfRequest
    <3>3. r.left \in Clock!Range(TimeLeft(q))
      BY <3>2 DEF Clock!Range
    <3> QED
      BY <1>3, <2>2, <3>3
  <2> QED
    BY <2>1, <2>2
<1> QED
  BY <1>1, <1>5, <1>6, <1>7 DEF Clock!Set

\* RemoveRequest cancels the alarm of its caller.
LEMMA RemoveRequestCancelsAlarm ==
  ASSUME WellFormed, NEW id \in Ids, RemoveRequest(id)
  PROVE  Clock!Cancel(id)
<1> DEFINE q == requests
           Ks == DOMAIN TimeLeft(q) \ {id}
<1>1. /\ WellFormedQueue(q) /\ WellFormedQueue(requests')
      /\ requests' = Removed(q, id) /\ last' = <<id>>
  BY WellFormedStep DEF WellFormed, Next, RemoveRequest
<1>2. CASE ~Waiting(q, id)
  <2>1. requests' = q
    BY <1>1, <1>2 DEF Removed
  <2>2. id \notin DOMAIN TimeLeft(q)
    BY <1>1, <1>2, TimeLeftOfRequest DEF Waiting
  <2>3. Ks = DOMAIN TimeLeft(q)
    BY <2>2
  <2>4. TimeLeft(requests') = [i \in Ks |-> TimeLeft(q)[i]]
    BY <1>1, <2>1, <2>3, TimeLeftOfRequest
  <2> QED
    BY <1>1, <2>4 DEF Clock!Cancel, Clock!Restrict
<1>3. CASE Waiting(q, id)
  <2>1. PICK k \in DOMAIN q : q[k].id = id /\ requests' = RemoveAt(q, k)
    BY <1>1, <1>3, RemovedQueue
  <2>2. q \in Seq(Requests) /\ DOMAIN q = 1..Len(q) /\ Len(q) \in Nat
    BY <1>1 DEF WellFormedQueue
  <2>3. /\ requests' \in Seq(Requests)
        /\ Len(requests') = Len(q) - 1
        /\ \A i \in 1..(Len(q) - 1) : requests'[i] = q[IF i < k THEN i ELSE i + 1]
    BY <2>1, <2>2, RemoveAtElements
  <2>4. DOMAIN requests' = 1..(Len(q) - 1)
    BY <2>3
  <2>5. ASSUME NEW j \in DOMAIN requests'
        PROVE  \E i \in DOMAIN q : requests'[j] = q[i] /\ q[i].id \in Ks
    <3> DEFINE i == IF j < k THEN j ELSE j + 1
    <3>1. i \in DOMAIN q /\ i # k /\ requests'[j] = q[i]
      BY <2>1, <2>2, <2>3, <2>4
    <3>2. q[i].id # id
      BY <1>1, <2>1, <3>1 DEF WellFormedQueue, OnePerId
    <3> QED
      BY <1>1, <3>1, <3>2, TimeLeftOfRequest
  <2>6. ASSUME NEW i \in DOMAIN q, q[i].id \in Ks
        PROVE  \E j \in DOMAIN requests' : requests'[j] = q[i]
    <3> DEFINE j == IF i < k THEN i ELSE i - 1
    <3>1. i # k
      BY <2>1, <2>6
    <3>2. j \in DOMAIN requests' /\ i = IF j < k THEN j ELSE j + 1
      BY <2>1, <2>2, <2>4, <3>1
    <3>3. requests'[j] = q[i]
      BY <2>3, <2>4, <3>2
    <3> QED
      BY <3>2, <3>3
  <2>7. TimeLeft(requests') = [i \in Ks |-> TimeLeft(q)[i]]
    <3> HIDE DEF Ks
    <3>1. Ks \subseteq DOMAIN TimeLeft(q)
      BY DEF Ks
    <3>2. /\ \A j \in DOMAIN requests' :
               \E i \in DOMAIN q : requests'[j] = q[i] /\ q[i].id \in Ks
          /\ \A i \in DOMAIN q :
               q[i].id \in Ks => \E j \in DOMAIN requests' : requests'[j] = q[i]
      BY <2>5, <2>6
    <3> QED
      <4>1. /\ DOMAIN TimeLeft(requests') = Ks
            /\ \A i \in Ks : TimeLeft(requests')[i] = TimeLeft(q)[i]
        <5>1. Keeps(q, requests', Ks)
          BY <1>1, <3>1, <3>2 DEF Keeps
        <5> QED
          BY <5>1, KeptTimeLeft
      <4> QED
        BY <1>1, <4>1, TimeLeftOfRequest
  <2> QED
    BY <1>1, <2>7 DEF Clock!Cancel, Clock!Restrict
<1> QED
  BY <1>2, <1>3

\* RemoveExpired rings the alarms whose time has come.
LEMMA RemoveExpiredRings ==
  ASSUME WellFormed, RemoveExpired
  PROVE  Clock!Ring
<1> DEFINE q == requests
           Ks == {id \in DOMAIN TimeLeft(q) : TimeLeft(q)[id] > HalfTick}
<1>1. /\ WellFormedQueue(q) /\ WellFormedQueue(requests')
      /\ requests' = Unexpired(q) /\ last' = <<>>
  BY WellFormedStep DEF WellFormed, Next, RemoveExpired
<1>2. q \in Seq(Requests) /\ DOMAIN q = 1..Len(q) /\ Len(q) \in Nat
  BY <1>1 DEF WellFormedQueue
<1>3. PICK n \in 1..(Len(q) + 1) :
        /\ requests' = SubSeq(q, n, Len(q))
        /\ \A i \in DOMAIN q : q[i].left > HalfTick <=> i >= n
  BY <1>1, UnexpiredQueue
<1>4. /\ DOMAIN requests' = 1..(Len(q) - n + 1)
      /\ \A j \in 1..(Len(q) - n + 1) : requests'[j] = q[n + j - 1]
  BY <1>2, <1>3, SubSeqProperties
<1>5. ASSUME NEW i \in DOMAIN q
      PROVE  q[i].id \in Ks <=> i >= n
  BY <1>1, <1>3, TimeLeftOfRequest
<1>6. ASSUME NEW j \in DOMAIN requests'
      PROVE  \E i \in DOMAIN q : requests'[j] = q[i] /\ q[i].id \in Ks
  <2>1. n + j - 1 \in DOMAIN q /\ n + j - 1 >= n
    BY <1>2, <1>4
  <2> QED
    BY <1>4, <1>5, <2>1
<1>7. ASSUME NEW i \in DOMAIN q, q[i].id \in Ks
      PROVE  \E j \in DOMAIN requests' : requests'[j] = q[i]
  <2>1. i >= n
    BY <1>5, <1>7
  <2>2. i - n + 1 \in DOMAIN requests' /\ n + (i - n + 1) - 1 = i
    BY <1>2, <1>4, <2>1
  <2> QED
    BY <1>4, <2>2
<1>8. Ks \subseteq DOMAIN TimeLeft(q)
  OBVIOUS
<1>9. TimeLeft(requests') = [i \in Ks |-> TimeLeft(q)[i]]
  <2> HIDE DEF Ks
  <2>1. Keeps(q, requests', Ks)
    BY <1>1, <1>6, <1>7, <1>8 DEF Keeps
  <2>2. /\ DOMAIN TimeLeft(requests') = Ks
        /\ \A i \in Ks : TimeLeft(requests')[i] = TimeLeft(q)[i]
    BY <2>1, KeptTimeLeft
  <2> QED
    BY <1>1, <2>2, TimeLeftOfRequest
<1> QED
  BY <1>1, <1>9 DEF Clock!Ring, Clock!Restrict

\* Time passes for the alarms as it does for the requests.
LEMMA ElapsePasses ==
  ASSUME WellFormed, Elapse
  PROVE  Clock!Pass(1)
<1> DEFINE q == requests
<1>1. /\ WellFormedQueue(q) /\ WellFormedQueue(requests')
      /\ requests' = Later(q, 1) /\ last' = <<>>
  BY WellFormedStep DEF WellFormed, Next, Elapse
<1>2. /\ DOMAIN requests' = DOMAIN q
      /\ \A i \in DOMAIN q : /\ requests'[i].id = q[i].id
                             /\ requests'[i].left = q[i].left - 1
  BY <1>1, LaterQueue
<1>3. DOMAIN TimeLeft(requests') = DOMAIN TimeLeft(q)
  BY <1>1, <1>2, TimeLeftOfRequest
<1>4. ASSUME NEW id \in DOMAIN TimeLeft(q)
      PROVE  TimeLeft(requests')[id] = TimeLeft(q)[id] - 1
  <2>1. PICK i \in DOMAIN q : q[i].id = id
    BY <1>1, TimeLeftOfRequest
  <2> QED
    BY <1>1, <1>2, <2>1, TimeLeftOfRequest
<1>5. TimeLeft(requests') = [id \in DOMAIN TimeLeft(q) |-> TimeLeft(q)[id] - 1]
  BY <1>1, <1>3, <1>4, TimeLeftOfRequest
<1> QED
  BY <1>1, <1>5 DEF Clock!Pass

\* The service implements the alarm clock: every step of it sets, cancels or
\* rings alarms or lets time pass, as AlarmClock allows.
THEOREM IsAlarmClockTheorem == Spec => IsAlarmClock
<1>1. Init => Clock!Init
  BY DEF Init, Clock!Init, TimeLeft
<1>2. ASSUME WellFormed, [Next]_vars
      PROVE  [Clock!Next]_(Clock!vars)
  <2>1. CASE \E id \in Ids, delay \in Delays, priority \in Priorities :
               Request(id, delay, priority)
    BY <1>2, <2>1, RequestSetsAlarm DEF Clock!Next, Priorities
  <2>2. CASE \E id \in Ids : RemoveRequest(id)
    BY <1>2, <2>2, RemoveRequestCancelsAlarm DEF Clock!Next
  <2>3. CASE RemoveExpired
    BY <1>2, <2>3, RemoveExpiredRings DEF Clock!Next
  <2>4. CASE Elapse
    BY <1>2, <2>4, ElapsePasses DEF Clock!Next
  <2>5. CASE UNCHANGED vars
    BY <2>5 DEF vars, Clock!vars, TimeLeft
  <2> QED
    BY <1>2, <2>1, <2>2, <2>3, <2>4, <2>5 DEF Next
<1> QED
  BY <1>1, <1>2, RequestsWellFormed, PTL DEF Spec, IsAlarmClock, Clock!Spec
=============================================================================
