-------------------------- MODULE WiFiServiceProofs --------------------------
(***************************************************************************)
(* Theorems about the radio (WiFiService) and what the program asks of it  *)
(* (WiFiDemand), for every set of ssids, clients and program requests and  *)
(* for every limit.                                                        *)
(***************************************************************************)
EXTENDS WiFiDemand, SequenceLemmas, FiniteSetTheorems

-----------------------------------------------------------------------------
(* The queue of requests *)

\* RemoveRequest leaves the queue alone or removes one place of it.
LEMMA RemoveRequestCases ==
  ASSUME NEW S, NEW s \in Seq(S), NEW e
  PROVE  \/ e \notin ToSet(s) /\ RemoveRequest(s, e) = s
         \/ \E k \in 1..Len(s) : s[k] = e /\ RemoveRequest(s, e) = RemoveAt(s, k)
<1> DEFINE I == {i \in 1..Len(s) : s[i] = e}
<1>1. CASE I = {}
  <2>1. RemoveRequest(s, e) = s
    BY <1>1 DEF RemoveRequest, RemoveFirst
  <2>2. e \notin ToSet(s)
    BY <1>1 DEF ToSet
  <2> QED
    BY <2>1, <2>2
<1>2. CASE I # {}
  <2>1. SelectInSeq(s, LAMBDA v : v = e) = Min(I)
    BY <1>2 DEF SelectInSeq
  <2>2. RemoveRequest(s, e) = RemoveAt(s, Min(I))
    BY <1>2, <2>1 DEF RemoveRequest, RemoveFirst
  <2>3. I \subseteq Nat
    OBVIOUS
  <2>4. Min(I) \in I
    <3> HIDE DEF I
    <3> QED
      BY <1>2, <2>3, MinOfIndices
  <2> QED
    BY <2>2, <2>4
<1> QED
  BY <1>1, <1>2

\* A queue whose entries are entries of another one, taken from different
\* places of it, is well formed when that one is.
LEMMA ThinnedQueue ==
  ASSUME NEW S, NEW s \in Seq(S), NEW r \in Seq(S), NEW old,
         Len(r) <= Len(s),
         \A i \in 1..Len(r) : old[i] \in 1..Len(s) /\ r[i] = s[old[i]],
         \A i, j \in 1..Len(r) : i # j => old[i] # old[j],
         WellFormedQueue(s)
  PROVE  /\ WellFormedQueue(r)
         /\ ToSet(r) \subseteq ToSet(s)
<1>1. Len(r) <= RequestsLimit
  BY RequestsLimitAssumption DEF WellFormedQueue
<1>2. ASSUME NEW i \in 1..Len(r), NEW j \in 1..Len(r), i # j
      PROVE  r[i] # r[j]
  BY <1>2 DEF WellFormedQueue
<1>3. ToSet(r) \subseteq ToSet(s)
  BY DEF ToSet
<1> QED
  BY <1>1, <1>2, <1>3 DEF WellFormedQueue

\* So a request may be removed.
LEMMA RemoveRequestWellFormed ==
  ASSUME NEW S, NEW s \in Seq(S), NEW e, WellFormedQueue(s)
  PROVE  /\ RemoveRequest(s, e) \in Seq(S)
         /\ WellFormedQueue(RemoveRequest(s, e))
         /\ ToSet(RemoveRequest(s, e)) \subseteq ToSet(s)
<1>1. CASE RemoveRequest(s, e) = s
  BY <1>1
<1>2. CASE \E k \in 1..Len(s) : RemoveRequest(s, e) = RemoveAt(s, k)
  <2>1. PICK k \in 1..Len(s) : RemoveRequest(s, e) = RemoveAt(s, k)
    BY <1>2
  <2>2. PICK r \in Seq(S) :
          /\ r = RemoveRequest(s, e)
          /\ Len(r) = Len(s) - 1
          /\ \A i \in 1..(Len(s) - 1) : r[i] = s[IF i < k THEN i ELSE i + 1]
    BY <2>1, RemoveAtElements
  <2>3. PICK old : old = [i \in 1..Len(r) |-> IF i < k THEN i ELSE i + 1]
    OBVIOUS
  <2>4. \A i \in 1..Len(r) : old[i] \in 1..Len(s) /\ r[i] = s[old[i]]
    <3>1. ASSUME NEW i \in 1..Len(r)
          PROVE  old[i] \in 1..Len(s) /\ r[i] = s[old[i]]
      <4>1. i \in 1..(Len(s) - 1) /\ Len(s) \in Nat
        BY <2>2
      <4>2. old[i] = IF i < k THEN i ELSE i + 1
        BY <2>3
      <4>3. r[i] = s[IF i < k THEN i ELSE i + 1]
        BY <2>2, <4>1
      <4> QED
        BY <4>1, <4>2, <4>3
    <3> QED
      BY <3>1
  <2>5. \A i, j \in 1..Len(r) : i # j => old[i] # old[j]
    BY <2>2, <2>3
  <2>6. Len(r) <= Len(s)
    BY <2>2
  <2>7. WellFormedQueue(r) /\ ToSet(r) \subseteq ToSet(s)
    BY <2>4, <2>5, <2>6, ThinnedQueue
  <2> QED
    BY <2>2, <2>7
<1> QED
  BY <1>1, <1>2, RemoveRequestCases

\* The same when a request that CanAdd accepts is appended.
LEMMA AppendWellFormed ==
  ASSUME NEW S, NEW s \in Seq(S), NEW e \in S, WellFormedQueue(s), CanAdd(s, e)
  PROVE  /\ Append(s, e) \in Seq(S)
         /\ WellFormedQueue(Append(s, e))
BY RequestsLimitAssumption DEF WellFormedQueue, CanAdd, ToSet

\* And when the first request is taken.
LEMMA TailWellFormed ==
  ASSUME NEW S, NEW s \in Seq(S), s # <<>>, WellFormedQueue(s)
  PROVE  /\ Head(s) \in S
         /\ Tail(s) \in Seq(S)
         /\ WellFormedQueue(Tail(s))
<1>1. /\ Head(s) \in S
      /\ Tail(s) \in Seq(S)
      /\ Len(Tail(s)) = Len(s) - 1
      /\ \A i \in 1..Len(Tail(s)) : Tail(s)[i] = s[i + 1]
  BY HeadTailProperties
<1>2. WellFormedQueue(Tail(s))
  BY <1>1, RequestsLimitAssumption DEF WellFormedQueue
<1> QED
  BY <1>1, <1>2

\* RemoveRequest takes the request out of the queue, and no other.
LEMMA RemoveRequestExact ==
  ASSUME NEW S, NEW s \in Seq(S), NEW e, WellFormedQueue(s)
  PROVE  ToSet(RemoveRequest(s, e)) = ToSet(s) \ {e}
<1>1. CASE e \notin ToSet(s) /\ RemoveRequest(s, e) = s
  BY <1>1
<1>2. CASE \E k \in 1..Len(s) : s[k] = e /\ RemoveRequest(s, e) = RemoveAt(s, k)
  <2>1. PICK k \in 1..Len(s) : s[k] = e /\ RemoveRequest(s, e) = RemoveAt(s, k)
    BY <1>2
  <2>2. PICK r \in Seq(S) :
          /\ r = RemoveRequest(s, e)
          /\ Len(r) = Len(s) - 1
          /\ \A i \in 1..(Len(s) - 1) : r[i] = s[IF i < k THEN i ELSE i + 1]
    BY <2>1, RemoveAtElements
  <2>3. \A i \in 1..Len(s) : i # k => s[i] # e
    BY <2>1 DEF WellFormedQueue
  <2>4. ASSUME NEW i \in 1..Len(r)
        PROVE  r[i] \in ToSet(s) \ {e}
    <3>1. CASE i < k
      BY <2>2, <2>3, <3>1 DEF ToSet
    <3>2. CASE ~(i < k)
      <4>1. r[i] = s[i + 1] /\ i + 1 \in 1..Len(s) /\ i + 1 # k
        BY <2>2, <3>2
      <4> QED
        BY <2>3, <4>1 DEF ToSet
    <3> QED
      BY <3>1, <3>2
  <2>5. ASSUME NEW i \in 1..Len(s), i # k
        PROVE  s[i] \in ToSet(r)
    <3>1. CASE i < k
      BY <2>2, <3>1 DEF ToSet
    <3>2. CASE ~(i < k)
      <4>1. i - 1 \in 1..Len(r) /\ r[i - 1] = s[i]
        BY <2>2, <2>5, <3>2
      <4> QED
        BY <4>1 DEF ToSet
    <3> QED
      BY <3>1, <3>2
  <2>6. ToSet(r) \subseteq ToSet(s) \ {e}
    BY <2>4 DEF ToSet
  <2>7. ToSet(s) \ {e} \subseteq ToSet(r)
    BY <2>1, <2>5 DEF ToSet
  <2> QED
    BY <2>2, <2>6, <2>7
<1> QED
  BY <1>1, <1>2, RemoveRequestCases

\* Append puts one in, and Head and Tail are what it holds.
LEMMA AppendExact ==
  ASSUME NEW S, NEW s \in Seq(S), NEW e \in S
  PROVE  ToSet(Append(s, e)) = ToSet(s) \cup {e}
<1> DEFINE r == Append(s, e)
<1>1. r \in Seq(S) /\ Len(r) = Len(s) + 1 /\ Len(s) \in Nat
      /\ (\A i \in 1..Len(s) : r[i] = s[i]) /\ r[Len(s) + 1] = e
  OBVIOUS
<1> HIDE DEF r
<1>2. ASSUME NEW i \in 1..Len(r)
      PROVE  r[i] \in ToSet(s) \cup {e}
  BY <1>1 DEF ToSet
<1>3. \A i \in 1..Len(s) : s[i] \in ToSet(r)
  BY <1>1 DEF ToSet
<1>4. e \in ToSet(r)
  BY <1>1 DEF ToSet
<1>5. ToSet(r) = ToSet(s) \cup {e}
  BY <1>2, <1>3, <1>4 DEF ToSet
<1> QED
  BY <1>5 DEF r

LEMMA TailExact ==
  ASSUME NEW S, NEW s \in Seq(S), s # <<>>
  PROVE  ToSet(s) = ToSet(Tail(s)) \cup {Head(s)}
<1>1. /\ Tail(s) \in Seq(S)
      /\ Len(Tail(s)) = Len(s) - 1 /\ Len(s) \in Nat /\ Len(s) >= 1
      /\ \A i \in 1..Len(Tail(s)) : Tail(s)[i] = s[i + 1]
      /\ Head(s) = s[1]
  BY HeadTailProperties
<1>2. PICK r : r = Tail(s)
  OBVIOUS
<1>3. ASSUME NEW i \in 1..Len(s)
      PROVE  s[i] \in ToSet(r) \cup {Head(s)}
  <2>1. CASE i # 1
    <3>1. i - 1 \in 1..Len(r) /\ r[i - 1] = s[i]
      BY <1>1, <1>2, <2>1
    <3> QED
      BY <3>1 DEF ToSet
  <2> QED
    BY <1>1, <2>1
<1>4. ASSUME NEW i \in 1..Len(r)
      PROVE  r[i] \in ToSet(s)
  BY <1>1, <1>2 DEF ToSet
<1>5. Head(s) \in ToSet(s)
  BY <1>1 DEF ToSet
<1>6. ToSet(s) = ToSet(r) \cup {Head(s)}
  BY <1>3, <1>4, <1>5 DEF ToSet
<1> QED
  BY <1>2, <1>6
-----------------------------------------------------------------------------
(* The type invariant *)

\* The one-step proofs below share this list of actions.
LEMMA Steps ==
  ASSUME [Next]_vars
  PROVE  \/ \E c \in Callers, item \in RequestItems : Request(c, item)
         \/ \E c \in Callers : ClearBreakFlags(c) \/ RaiseBits(c)
         \/ \E item \in ProgramRequests : Cancel(item)
         \/ Forget \/ ChangeSettings \/ ProcessTaskWakes
         \/ PopRequest \/ EnterWait \/ Timeout
         \/ StationStart \/ NoCredsWoken \/ StationCancel \/ StationFail \/ StationServe
         \/ MinWorktimeOver \/ MinWorktimeEvent \/ StationStop \/ StationUnregister
         \/ StationSettled \/ ReconnectDelayOver
         \/ GotIp \/ LinkDrops \/ StationDisconnected
         \/ ScanStart \/ ScanPoll \/ ScanTimeOver \/ ScanWoken \/ ScanPublish
         \/ ApStart \/ ApWoken \/ ApStop
         \/ \E mac \in Macs : ApClientJoins(mac) \/ ApClientLeaves(mac)
         \/ UNCHANGED vars
BY DEF Next, StartCall, Progress, FinishCall, WiFiTask, DriverEvent,
       StationStep, ScannerStep, AccessPointStep

\* Callers change the queue, the tables and the bits.
LEMMA TypedCallerStep ==
  ASSUME Typed, WellFormedQueue(requests)
  PROVE  /\ \A c \in Callers, item \in RequestItems : Request(c, item) => Typed'
         /\ \A c \in Callers : ClearBreakFlags(c) \/ RaiseBits(c) => Typed'
         /\ \A item \in ProgramRequests : Cancel(item) => Typed'
         /\ Forget \/ ChangeSettings \/ ProcessTaskWakes => Typed'
<1> USE DEF Typed, groupVars, callerFrame, stationVars, scanVars, callVars
<1>1. ASSUME NEW c \in Callers, NEW item \in RequestItems, Request(c, item)
      PROVE  Typed'
  <2>1. requests' \in Seq(RequestItems)
    BY <1>1, AppendWellFormed DEF Request
  <2>2. call' \in [Callers -> CallStates]
    BY <1>1 DEF Request, CallStates
  <2> QED
    BY <1>1, <2>1, <2>2 DEF Request
<1>2. ASSUME NEW c \in Callers, ClearBreakFlags(c)
      PROVE  Typed'
  <2>1. PICK b : /\ b \subseteq Bits
                 /\ call' = [call EXCEPT ![c].step = "raise", ![c].bits = b]
    BY <1>2 DEF ClearBreakFlags, BitsToRaise, Bits, BreakBits
  <2>2. call' \in [Callers -> CallStates]
    BY <2>1 DEF CallStates
  <2> QED
    BY <1>2, <2>2 DEF ClearBreakFlags, TakeBits
<1>3. ASSUME NEW c \in Callers, RaiseBits(c)
      PROVE  Typed'
  <2>1. call' \in [Callers -> CallStates] /\ call[c].bits \subseteq Bits
    BY <1>3 DEF RaiseBits, CallStates, Idle, RequestItems
  <2> QED
    BY <1>3, <2>1 DEF RaiseBits, SetBits, WaitStates
<1>4. ASSUME NEW item \in ProgramRequests, Cancel(item)
      PROVE  Typed'
  <2>1. requests' \in Seq(RequestItems)
    BY <1>4, RemoveRequestWellFormed DEF Cancel
  <2>2. BreakBit(item) \in Bits
    BY RequestsAssumption DEF BreakBit, Bits, BreakBits, RequestItems,
       StationRequest, ScanRequest, AccessPointRequest
  <2>3. call' \in [Callers -> CallStates]
    BY <1>4, <2>2, RequestsAssumption DEF Cancel, CallStates
  <2> QED
    BY <1>4, <2>1, <2>3 DEF Cancel
<1>5. CASE Forget
  <2>1. call' \in [Callers -> CallStates]
    BY <1>5 DEF Forget, CallStates
  <2>2. scanned' \subseteq Ssids /\ apClients' \in [Ssids -> SUBSET Macs]
    BY <1>5 DEF Forget
  <2> QED
    BY <1>5, <2>1, <2>2 DEF Forget
<1>6. CASE ChangeSettings
  <2>1. StationRequest \in RequestItems /\ "SETTINGS_CHANGED" \in Bits
    BY DEF Bits, RequestItems
  <2>2. call' \in [Callers -> CallStates]
    BY <1>6, <2>1 DEF ChangeSettings, CallStates
  <2>3. ssidSaved' \in BOOLEAN
    BY <1>6, RequestsAssumption DEF ChangeSettings
  <2>4. UNCHANGED <<events, wait, notified, requests, pc, request, backlog, hasConnect, failed,
                    httpServer, failures, stationRssi, link, scanned, canceled, found,
                    apClients, wakeup>>
    BY <1>6 DEF ChangeSettings
  <2> QED
    BY <2>2, <2>3, <2>4
<1>7. CASE ProcessTaskWakes
  <2>1. UNCHANGED <<events, wait, notified, requests, pc, request, backlog, hasConnect, failed,
                    httpServer, failures, stationRssi, link, scanned, canceled, found,
                    apClients, ssidSaved, call>>
    BY <1>7 DEF ProcessTaskWakes
  <2>2. wakeup' \in BOOLEAN
    BY <1>7 DEF ProcessTaskWakes
  <2> QED
    BY <2>1, <2>2
<1> QED
  BY <1>1, <1>2, <1>3, <1>4, <1>5, <1>6, <1>7

\* A scanner's request names an ssid, so that what the task publishes is one.
ScanHasSsid == pc \in ScanSession => request.ssid \in Ssids

\* PopRequest takes a request of one of the three types, the station's when
\* the queue is empty.
LEMMA PoppedRequest ==
  ASSUME Typed, WellFormedQueue(requests), PopRequest
  PROVE  /\ request' \in RequestItems /\ requests' \in Seq(RequestItems)
         /\ request'.type \in {"Station", "Scanner", "AccessPoint"}
         /\ request'.type = "Scanner" => request'.ssid \in Ssids
<1>1. request' \in RequestItems /\ requests' \in Seq(RequestItems)
  <2>1. CASE requests = <<>>
    BY <2>1 DEF PopRequest, RequestItems, Typed
  <2>2. CASE requests # <<>>
    BY <2>2, TailWellFormed DEF PopRequest, Typed
  <2> QED
    BY <2>1, <2>2
<1> QED
  BY <1>1 DEF RequestItems, StationRequest, ScanRequest, AccessPointRequest

\* wifi_task, its waits and the driver change the rest.
LEMMA TypedTaskStep ==
  ASSUME Typed, WellFormedQueue(requests), ScanHasSsid
  PROVE  /\ PopRequest \/ EnterWait \/ Timeout => Typed'
         /\ StationStart \/ NoCredsWoken \/ StationCancel \/ StationFail
              \/ StationServe \/ MinWorktimeOver \/ MinWorktimeEvent \/ StationStop
              \/ StationUnregister \/ StationSettled \/ ReconnectDelayOver => Typed'
         /\ GotIp \/ LinkDrops \/ StationDisconnected => Typed'
         /\ ScanStart \/ ScanPoll \/ ScanTimeOver \/ ScanWoken \/ ScanPublish => Typed'
         /\ ApStart \/ ApWoken \/ ApStop => Typed'
         /\ \A mac \in Macs : ApClientJoins(mac) \/ ApClientLeaves(mac) => Typed'
<1> USE DEF Typed, groupVars, stationVars, scanVars, callVars
<1>1. CASE PopRequest
  <2>1. /\ request' \in RequestItems /\ requests' \in Seq(RequestItems)
        /\ request'.type \in {"Station", "Scanner", "AccessPoint"}
    BY <1>1, PoppedRequest
  <2>2. backlog' \subseteq RequestItems
    BY <1>1, <2>1 DEF PopRequest, ToSet
  <2>3. pc' \in Labels
    BY <1>1, <2>1 DEF PopRequest, Goto, Labels
  <2> QED
    BY <1>1, <2>1, <2>2, <2>3 DEF PopRequest
<1>2. CASE EnterWait
  BY <1>2 DEF EnterWait, BeginWait, WaitStates
<1>3. CASE Timeout
  BY <1>3 DEF Timeout, WaitTimeout, WaitStates
<1>4. CASE StationStart
  BY <1>4 DEF StationStart, stationFrame, Goto, Labels, WaitLabels, TimedWaits
<1>5. CASE NoCredsWoken
  BY <1>5 DEF NoCredsWoken, stationFrame, EndWait, WaitStates, Goto, Labels
<1>6. CASE StationCancel
  BY <1>6 DEF StationCancel, stationFrame, EndWait, WaitStates, Goto, Labels
<1>7. CASE StationFail
  <2>1. failures' \in 0..MaxFailures
    BY <1>7, LimitsAssumption DEF StationFail
  <2>2. stationRssi' \in {0, 1} /\ wakeup' \in BOOLEAN
    BY <1>7 DEF StationFail
  <2>3. pc' \in Labels
    BY <1>7 DEF StationFail, Goto, Labels
  <2> QED
    BY <1>7, <2>1, <2>2, <2>3 DEF StationFail, stationFrame, EndWait, WaitStates
<1>8. CASE StationServe
  BY <1>8, LimitsAssumption DEF StationServe, stationFrame, EndWait, WaitStates, Goto, Labels, WaitLabels, TimedWaits
<1>9. CASE MinWorktimeOver
  BY <1>9 DEF MinWorktimeOver, stationFrame, EndWait, WaitStates, Goto, Labels
<1>10. CASE MinWorktimeEvent
  BY <1>10 DEF MinWorktimeEvent, stationFrame, EndWait, WaitStates
<1>11. CASE StationStop
  BY <1>11 DEF StationStop, stationFrame, Goto, Labels
<1>12. CASE StationUnregister
  BY <1>12 DEF StationUnregister, stationFrame, Goto, Labels, WaitLabels, TimedWaits
<1>13. CASE StationSettled
  <2>1. pc' \in Labels
    BY <1>13 DEF StationSettled, Goto, Labels, WaitLabels, TimedWaits
  <2> QED
    BY <1>13, <2>1 DEF StationSettled, stationFrame, EndWait, WaitStates
<1>14. CASE ReconnectDelayOver
  BY <1>14 DEF ReconnectDelayOver, stationFrame, EndWait, WaitStates, Goto, Labels
<1>15. CASE GotIp
  <2>1. events' \subseteq Bits /\ notified' \subseteq Bits /\ wait' \in WaitStates
    BY <1>15 DEF GotIp, SetBits, WaitStates, Bits, StationEvents
  <2> QED
    BY <1>15, <2>1 DEF GotIp, driverFrame
<1>16. CASE LinkDrops
  BY <1>16 DEF LinkDrops, driverFrame
<1>17. CASE StationDisconnected
  <2>1. events' \subseteq Bits /\ notified' \subseteq Bits /\ wait' \in WaitStates
    BY <1>17 DEF StationDisconnected, SetBits, WaitStates, Bits, StationEvents
  <2> QED
    BY <1>17, <2>1 DEF StationDisconnected, driverFrame
<1>18. CASE ScanStart
  BY <1>18 DEF ScanStart, scanFrame, Goto, Labels
<1>19. CASE ScanPoll
  <2>1. pc' \in Labels
    BY <1>19 DEF ScanPoll, Goto, Labels, WaitLabels, TimedWaits
  <2>2. found' \in BOOLEAN
    BY <1>19 DEF ScanPoll
  <2> QED
    BY <1>19, <2>1, <2>2 DEF ScanPoll, scanFrame
<1>20. CASE ScanTimeOver
  BY <1>20 DEF ScanTimeOver, scanFrame, EndWait, WaitStates, Goto, Labels
<1>21. CASE ScanWoken
  BY <1>21 DEF ScanWoken, scanFrame, EndWait, WaitStates, Goto, Labels
<1>22. CASE ScanPublish
  <2>1. request.ssid \in Ssids
    BY <1>22 DEF ScanPublish, ScanHasSsid, ScanSession
  <2>2. scanned' \subseteq Ssids
    BY <1>22, <2>1 DEF ScanPublish
  <2>3. pc' \in Labels
    BY <1>22 DEF ScanPublish, Goto, Labels
  <2> QED
    BY <1>22, <2>2, <2>3 DEF ScanPublish, scanFrame
<1>23. CASE ApStart
  BY <1>23 DEF ApStart, apFrame, Goto, Labels, WaitLabels, TimedWaits
<1>24. CASE ApWoken
  BY <1>24 DEF ApWoken, apFrame, EndWait, WaitStates, Goto, Labels, WaitLabels, TimedWaits
<1>25. CASE ApStop
  BY <1>25 DEF ApStop, apFrame, Goto, Labels
<1>26. ASSUME NEW mac \in Macs, ApClientJoins(mac)
       PROVE  Typed'
  BY <1>26 DEF ApClientJoins, apFrame
<1>27. ASSUME NEW mac \in Macs, ApClientLeaves(mac)
       PROVE  Typed'
  BY <1>27 DEF ApClientLeaves, apFrame
<1> QED
  BY <1>1, <1>2, <1>3, <1>4, <1>5, <1>6, <1>7, <1>8, <1>9, <1>10, <1>11,
     <1>12, <1>13, <1>14, <1>15, <1>16, <1>17, <1>18, <1>19, <1>20, <1>21,
     <1>22, <1>23, <1>24, <1>25, <1>26, <1>27

\* The queue is changed by three actions, the tables by four.
LEMMA QueueChanges ==
  ASSUME [Next]_vars
  PROVE  \/ \E c \in Callers, item \in RequestItems : Request(c, item)
         \/ \E item \in ProgramRequests : Cancel(item)
         \/ PopRequest
         \/ UNCHANGED requests
BY Steps
   DEF ClearBreakFlags, RaiseBits, Forget, ChangeSettings, ProcessTaskWakes, EnterWait,
       Timeout, StationStart, NoCredsWoken, StationCancel, StationFail, StationServe,
       MinWorktimeOver, MinWorktimeEvent, StationStop, StationUnregister, StationSettled,
       ReconnectDelayOver, GotIp, LinkDrops, StationDisconnected, ScanStart, ScanPoll,
       ScanTimeOver, ScanWoken, ScanPublish, ApStart, ApWoken, ApStop, ApClientJoins,
       ApClientLeaves, stationFrame, driverFrame, scanFrame, apFrame, vars

LEMMA TableChanges ==
  ASSUME [Next]_vars
  PROVE  \/ Forget \/ ScanPublish
         \/ \E mac \in Macs : ApClientJoins(mac) \/ ApClientLeaves(mac)
         \/ UNCHANGED <<scanned, apClients>>
BY Steps
   DEF Request, Cancel, PopRequest, ClearBreakFlags, RaiseBits, ChangeSettings,
       ProcessTaskWakes, EnterWait, Timeout, StationStart, NoCredsWoken, StationCancel,
       StationFail, StationServe, MinWorktimeOver, MinWorktimeEvent, StationStop,
       StationUnregister, StationSettled, ReconnectDelayOver, GotIp, LinkDrops,
       StationDisconnected, ScanStart, ScanPoll, ScanTimeOver, ScanWoken, ApStart, ApWoken,
       ApStop, stationFrame, driverFrame, scanFrame, apFrame, scanVars, vars

LEMMA QueueStep ==
  ASSUME Typed, WellFormedQueue(requests), [Next]_vars
  PROVE  WellFormedQueue(requests)'
<1>1. ASSUME NEW c \in Callers, NEW item \in RequestItems, Request(c, item)
      PROVE  WellFormedQueue(requests')
  BY <1>1, AppendWellFormed DEF Request, Typed
<1>2. ASSUME NEW item \in ProgramRequests, Cancel(item)
      PROVE  WellFormedQueue(requests')
  BY <1>2, RemoveRequestWellFormed DEF Cancel, Typed
<1>3. CASE PopRequest
  BY <1>3, TailWellFormed DEF PopRequest, Typed
<1>4. CASE UNCHANGED requests
  BY <1>4
<1> QED
  BY <1>1, <1>2, <1>3, <1>4, QueueChanges

\* The tables hold finite sets of names.
LEMMA TablesFinite ==
  ASSUME Typed
  PROVE  /\ IsFiniteSet(scanned) /\ Cardinality(scanned) \in Nat
         /\ IsFiniteSet(Listed) /\ Cardinality(Listed) \in Nat
         /\ \A s \in Ssids : IsFiniteSet(apClients[s]) /\ Cardinality(apClients[s]) \in Nat
<1>1. IsFiniteSet(scanned)
  BY FiniteNamesAssumption, FS_Subset DEF Typed
<1>2. IsFiniteSet(Listed)
  <2>1. Listed \subseteq Ssids
    BY DEF Listed
  <2> QED
    BY <2>1, FiniteNamesAssumption, FS_Subset
<1>3. ASSUME NEW s \in Ssids
      PROVE  IsFiniteSet(apClients[s])
  <2>1. apClients[s] \subseteq Macs
    BY DEF Typed
  <2> QED
    BY <2>1, FiniteNamesAssumption, FS_Subset
<1> QED
  BY <1>1, <1>2, <1>3, FS_CardinalityType

\* A list that only loses clients stays within the limits.
LEMMA FewerClients ==
  ASSUME Typed, TablesWithinLimits,
         \A s \in Ssids : apClients'[s] \subseteq apClients[s]
  PROVE  /\ Cardinality(Listed') <= SsidLimit
         /\ \A s \in Ssids : Cardinality(apClients'[s]) <= MaxClients
<1>1. Listed' \subseteq Listed
  BY DEF Listed
<1>2. /\ Cardinality(Listed') <= Cardinality(Listed)
      /\ IsFiniteSet(Listed')
  BY <1>1, TablesFinite, FS_Subset
<1>3. ASSUME NEW s \in Ssids
      PROVE  Cardinality(apClients'[s]) <= MaxClients
  <2>1. /\ Cardinality(apClients'[s]) <= Cardinality(apClients[s])
        /\ IsFiniteSet(apClients'[s])
    BY TablesFinite, FS_Subset
  <2>2. Cardinality(apClients[s]) <= MaxClients
    BY DEF TablesWithinLimits
  <2> QED
    BY <2>1, <2>2, TablesFinite, FS_CardinalityType, LimitsAssumption
<1> QED
  BY <1>2, <1>3, TablesFinite, FS_CardinalityType, LimitsAssumption DEF TablesWithinLimits

\* A new client is admitted only into a free place of a list that has a slot.
LEMMA MoreClients ==
  ASSUME Typed, TablesWithinLimits, NEW x \in Ssids, NEW mac \in Macs, HasClientSlot(x),
         apClients' = [apClients EXCEPT ![x] = @ \cup {mac}]
  PROVE  /\ Cardinality(Listed') <= SsidLimit
         /\ \A s \in Ssids : Cardinality(apClients'[s]) <= MaxClients
<1>1. Listed' = Listed \cup {x}
  BY DEF Listed, Typed
<1>2. Cardinality(Listed \cup {x})
        = IF x \in Listed THEN Cardinality(Listed) ELSE Cardinality(Listed) + 1
  BY TablesFinite, FS_AddElement
<1>3. Cardinality(Listed') <= SsidLimit
  BY <1>1, <1>2, TablesFinite, LimitsAssumption DEF HasClientSlot, TablesWithinLimits
<1>4. ASSUME NEW s \in Ssids
      PROVE  Cardinality(apClients'[s]) <= MaxClients
  <2>1. CASE s = x
    <3>1. apClients'[s] = apClients[s] \cup {mac}
      BY <2>1 DEF Typed
    <3>2. IsFiniteSet(apClients[s]) /\ Cardinality(apClients[s]) \in Nat
      BY TablesFinite
    <3>3. Cardinality(apClients[s] \cup {mac})
            = IF mac \in apClients[s] THEN Cardinality(apClients[s])
                                      ELSE Cardinality(apClients[s]) + 1
      BY <3>2, FS_AddElement
    <3>4. Cardinality(apClients[s]) < MaxClients
      BY <2>1 DEF HasClientSlot
    <3> QED
      BY <3>1, <3>2, <3>3, <3>4, LimitsAssumption
  <2>2. CASE s # x
    BY <2>2 DEF Typed, TablesWithinLimits
  <2> QED
    BY <2>1, <2>2
<1> QED
  BY <1>3, <1>4

LEMMA TablesStep ==
  ASSUME Typed, TablesWithinLimits, [Next]_vars
  PROVE  TablesWithinLimits'
<1>1. CASE Forget
  <2>1. Cardinality(scanned') <= SsidLimit
    <3>1. scanned' \subseteq scanned
      BY <1>1 DEF Forget
    <3>2. IsFiniteSet(scanned') /\ Cardinality(scanned') <= Cardinality(scanned)
      BY <3>1, TablesFinite, FS_Subset
    <3> QED
      BY <3>2, TablesFinite, FS_CardinalityType, LimitsAssumption DEF TablesWithinLimits
  <2>2. \A s \in Ssids : apClients'[s] \subseteq apClients[s]
    BY <1>1 DEF Forget, Typed
  <2> QED
    BY <2>1, <2>2, FewerClients DEF TablesWithinLimits, Listed
<1>2. CASE ScanPublish
  <2>1. Cardinality(scanned') <= SsidLimit
    <3>1. \/ scanned' \subseteq scanned
          \/ /\ scanned' = scanned \cup {request.ssid}
             /\ Cardinality(scanned) < SsidLimit
      BY <1>2 DEF ScanPublish
    <3>2. CASE scanned' \subseteq scanned
      <4>1. IsFiniteSet(scanned') /\ Cardinality(scanned') <= Cardinality(scanned)
        BY <3>2, TablesFinite, FS_Subset
      <4> QED
        BY <4>1, TablesFinite, FS_CardinalityType, LimitsAssumption DEF TablesWithinLimits
    <3>3. CASE /\ scanned' = scanned \cup {request.ssid}
               /\ Cardinality(scanned) < SsidLimit
      <4>1. Cardinality(scanned \cup {request.ssid})
              \in {Cardinality(scanned), Cardinality(scanned) + 1}
        BY TablesFinite, FS_AddElement
      <4> QED
        BY <3>3, <4>1, TablesFinite, LimitsAssumption
    <3> QED
      BY <3>1, <3>2, <3>3
  <2>2. UNCHANGED apClients
    BY <1>2 DEF ScanPublish, scanFrame
  <2> QED
    BY <2>1, <2>2 DEF TablesWithinLimits, Listed
<1>3. ASSUME NEW mac \in Macs, ApClientJoins(mac)
      PROVE  TablesWithinLimits'
  <2>1. UNCHANGED scanned
    BY <1>3 DEF ApClientJoins, apFrame, scanVars
  <2>2. CASE request.ssid \in Ssids /\ HasClientSlot(request.ssid)
    BY <1>3, <2>1, <2>2, MoreClients DEF ApClientJoins, TablesWithinLimits, Listed
  <2>3. CASE ~(request.ssid \in Ssids /\ HasClientSlot(request.ssid))
    <3>1. UNCHANGED apClients
      <4>1. CASE request.ssid \in Ssids
        BY <1>3, <2>3, <4>1 DEF ApClientJoins
      <4>2. CASE request.ssid \notin Ssids
        BY <1>3, <4>2 DEF ApClientJoins, Typed
      <4> QED
        BY <4>1, <4>2
    <3> QED
      BY <2>1, <3>1 DEF TablesWithinLimits, Listed
  <2> QED
    BY <2>2, <2>3
<1>4. ASSUME NEW mac \in Macs, ApClientLeaves(mac)
      PROVE  TablesWithinLimits'
  <2>1. UNCHANGED scanned
    BY <1>4 DEF ApClientLeaves, apFrame, scanVars
  <2>2. \A s \in Ssids : apClients'[s] \subseteq apClients[s]
    BY <1>4 DEF ApClientLeaves, Typed
  <2> QED
    BY <2>1, <2>2, FewerClients DEF TablesWithinLimits, Listed
<1>5. CASE UNCHANGED <<scanned, apClients>>
  BY <1>5 DEF TablesWithinLimits, Listed
<1> QED
  BY <1>1, <1>2, <1>3, <1>4, <1>5, TableChanges

\* Only PopRequest takes another request, and it starts the task of its type.
LEMMA ScanHasSsidStep ==
  ASSUME Typed, WellFormedQueue(requests), ScanHasSsid, [Next]_vars
  PROVE  ScanHasSsid'
<1>1. CASE PopRequest
  BY <1>1, PoppedRequest DEF PopRequest, Goto, ScanSession, ScanHasSsid
<1>2. CASE /\ UNCHANGED request
           /\ pc' \in ScanSession => pc \in ScanSession
  BY <1>2 DEF ScanHasSsid
<1> QED
  BY <1>1, <1>2, Steps
  DEF Request, Cancel, ClearBreakFlags, RaiseBits, Forget, ChangeSettings,
      ProcessTaskWakes, EnterWait, Timeout, StationStart, NoCredsWoken, StationCancel,
      StationFail, StationServe, MinWorktimeOver, MinWorktimeEvent, StationStop,
      StationUnregister, StationSettled, ReconnectDelayOver, GotIp, LinkDrops,
      StationDisconnected, ScanStart, ScanPoll, ScanTimeOver, ScanWoken, ScanPublish,
      ApStart, ApWoken, ApStop, ApClientJoins, ApClientLeaves, stationFrame, driverFrame,
      scanFrame, apFrame, callerFrame, vars, Goto, ScanSession

LEMMA TypeStep ==
  ASSUME TypeOK, ScanHasSsid, [Next]_vars
  PROVE  TypeOK' /\ ScanHasSsid'
<1> USE DEF TypeOK
<1>1. Typed'
  BY TypedCallerStep, TypedTaskStep, Steps
  DEF Typed, vars, groupVars, stationVars, scanVars, callVars
<1> QED
  BY <1>1, QueueStep, TablesStep, ScanHasSsidStep

LEMMA InitTyped ==
  ASSUME Init
  PROVE  TypeOK /\ ScanHasSsid
<1>1. Typed
  <2>1. StationRequest \in RequestItems
    BY DEF RequestItems
  <2>2. call \in [Callers -> CallStates]
    BY <2>1 DEF Init, CallStates, Idle
  <2>3. failures \in 0..MaxFailures /\ ssidSaved \in BOOLEAN
    BY LimitsAssumption, RequestsAssumption DEF Init
  <2>4. apClients \in [Ssids -> SUBSET Macs] /\ requests \in Seq(RequestItems)
    BY DEF Init
  <2>5. pc \in Labels /\ wait \in WaitStates /\ events = {} /\ notified = {}
    BY DEF Init, GroupInit, Labels, WaitStates
  <2> QED
    BY <2>1, <2>2, <2>3, <2>4, <2>5 DEF Init, Typed
<1>2. WellFormedQueue(requests)
  BY RequestsLimitAssumption DEF Init, WellFormedQueue
<1>3. Listed = {}
  BY DEF Init, Listed
<1>4. TablesWithinLimits
  BY <1>3, FS_EmptySet, LimitsAssumption DEF Init, TablesWithinLimits
<1> QED
  BY <1>1, <1>2, <1>4 DEF TypeOK, ScanHasSsid, ScanSession, Init

\* No table is overrun and the queue holds no duplicate, for any program.
THEOREM TypeCorrect == Spec => []TypeOK
<1>1. Init => TypeOK /\ ScanHasSsid
  BY InitTyped
<1>2. TypeOK /\ ScanHasSsid /\ [Next]_vars => TypeOK' /\ ScanHasSsid'
  BY TypeStep
<1> QED
  BY <1>1, <1>2, PTL DEF Spec
-----------------------------------------------------------------------------
(* Wakeups and station events *)

\* Outside its waits wifi_task is running, and a bit that is set while it is
\* blocked goes to it.
WaitShape ==
  /\ wait # "running" => pc \in WaitLabels
  /\ wait = "blocked" => events = {}

\* A call that is about to set bits has some, and none of them is an event of
\* the station.
CallsCarryBits ==
  \A c \in Callers :
    /\ call[c].step \in {"forget", "raise"} => call[c].bits # {}
    /\ call[c].bits \cap StationEvents = {}

\* What StationTask finds queued when it starts is what it left queued, or a
\* bit tells it of the rest.
NewWorkAnnounced ==
  pc = "station_start" => ToSet(requests) \subseteq backlog \/ BitPending

WaitInv == WaitShape /\ CallsCarryBits

LEMMA WaitShapeStep ==
  ASSUME Typed, WaitShape, [Next]_vars
  PROVE  WaitShape'
BY Steps
DEF Request, Cancel, ClearBreakFlags, RaiseBits, Forget, ChangeSettings,
      ProcessTaskWakes, PopRequest, EnterWait, Timeout, StationStart, NoCredsWoken,
      StationCancel, StationFail, StationServe, MinWorktimeOver, MinWorktimeEvent,
      StationStop, StationUnregister, StationSettled, ReconnectDelayOver, GotIp,
      LinkDrops, StationDisconnected, ScanStart, ScanPoll, ScanTimeOver, ScanWoken,
      ScanPublish, ApStart, ApWoken, ApStop, ApClientJoins, ApClientLeaves,
      stationFrame, driverFrame, scanFrame, apFrame, callerFrame, vars,
      groupVars, SetBits, BeginWait, WaitTimeout, TakeBits, EndWait, Goto, WaitShape,
      WaitLabels, TimedWaits, WaitStates, Typed

\* Only callers change what they carry.
LEMMA CallChanges ==
  ASSUME [Next]_vars
  PROVE  \/ \E c \in Callers, item \in RequestItems : Request(c, item)
         \/ \E c \in Callers : ClearBreakFlags(c) \/ RaiseBits(c)
         \/ \E item \in ProgramRequests : Cancel(item)
         \/ Forget \/ ChangeSettings
         \/ UNCHANGED call
BY Steps
DEF ProcessTaskWakes, PopRequest, EnterWait, Timeout, StationStart, NoCredsWoken,
    StationCancel, StationFail, StationServe, MinWorktimeOver, MinWorktimeEvent,
    StationStop, StationUnregister, StationSettled, ReconnectDelayOver, GotIp,
    LinkDrops, StationDisconnected, ScanStart, ScanPoll, ScanTimeOver, ScanWoken,
    ScanPublish, ApStart, ApWoken, ApStop, ApClientJoins, ApClientLeaves, stationFrame,
    driverFrame, scanFrame, apFrame, callVars, vars

LEMMA CallsCarryBitsStep ==
  ASSUME Typed, CallsCarryBits, [Next]_vars
  PROVE  CallsCarryBits'
<1> USE DEF CallsCarryBits, Typed, CallStates
<1>1. ASSUME NEW c \in Callers, NEW item \in RequestItems, Request(c, item)
      PROVE  CallsCarryBits'
  BY <1>1 DEF Request
<1>2. ASSUME NEW c \in Callers, ClearBreakFlags(c)
      PROVE  CallsCarryBits'
  <2> DEFINE breaks == events \cap (BreakBits \ {BreakBit(call[c].item)})
             b == BitsToRaise(breaks)
  <2>1. call' = [call EXCEPT ![c].step = "raise", ![c].bits = b]
    BY <1>2 DEF ClearBreakFlags
  <2>2. b # {}
    BY DEF BitsToRaise
  <2>3. b \cap StationEvents = {}
    BY DEF BitsToRaise, BreakBits, StationEvents
  <2> HIDE DEF b
  <2> QED
    BY <2>1, <2>2, <2>3
<1>3. ASSUME NEW c \in Callers, RaiseBits(c)
      PROVE  CallsCarryBits'
  BY <1>3 DEF RaiseBits, Idle
<1>4. ASSUME NEW item \in ProgramRequests, Cancel(item)
      PROVE  CallsCarryBits'
  <2>1. BreakBit(item) \notin StationEvents
    BY RequestsAssumption DEF BreakBit, StationEvents, RequestItems, StationRequest,
       ScanRequest, AccessPointRequest
  <2> QED
    BY <1>4, <2>1 DEF Cancel
<1>5. CASE Forget
  BY <1>5 DEF Forget
<1>6. CASE ChangeSettings
  BY <1>6 DEF ChangeSettings, StationEvents
<1> QED
  BY <1>1, <1>2, <1>3, <1>4, <1>5, <1>6, CallChanges

\* A step of a caller leaves a bit under way or leaves what there was.
LEMMA CallerKeepsAnnounced ==
  ASSUME Typed, WellFormedQueue(requests), WaitInv, NewWorkAnnounced, NoLostWakeup,
         \/ \E c \in Callers, item \in RequestItems : Request(c, item)
         \/ \E c \in Callers : ClearBreakFlags(c) \/ RaiseBits(c)
         \/ \E item \in ProgramRequests : Cancel(item)
         \/ Forget \/ ChangeSettings
  PROVE  NewWorkAnnounced' /\ NoLostWakeup'
<1> USE DEF NewWorkAnnounced, NoLostWakeup, Typed, CallStates
<1>1. ASSUME NEW c \in Callers, NEW item \in RequestItems, Request(c, item)
      PROVE  BitPending'
  BY <1>1 DEF Request, BitPending
<1>2. ASSUME NEW c \in Callers, ClearBreakFlags(c)
      PROVE  BitPending'
  <2>1. call'[c].step = "raise"
    BY <1>2 DEF ClearBreakFlags
  <2> QED
    BY <2>1 DEF BitPending
<1>3. ASSUME NEW c \in Callers, RaiseBits(c)
      PROVE  NewWorkAnnounced' /\ NoLostWakeup'
  <2>1. UNCHANGED <<pc, requests, backlog, ssidSaved>> /\ call[c].bits # {}
    BY <1>3 DEF RaiseBits, callerFrame, WaitInv, CallsCarryBits
  <2>2. CASE wait = "blocked"
    BY <1>3, <2>1, <2>2 DEF RaiseBits, SetBits, WaitInv, WaitShape, WaitLabels, TimedWaits
  <2>3. CASE wait # "blocked"
    BY <1>3, <2>1, <2>3 DEF RaiseBits, SetBits, BitPending
  <2> QED
    BY <2>2, <2>3
<1>4. ASSUME NEW item \in ProgramRequests, Cancel(item)
      PROVE  NewWorkAnnounced' /\ NoLostWakeup'
  <2>1. ToSet(requests') \subseteq ToSet(requests)
    BY <1>4, RemoveRequestWellFormed DEF Cancel
  <2>2. UNCHANGED <<events, wait, pc, backlog, ssidSaved>>
    BY <1>4 DEF Cancel, groupVars, callerFrame
  <2>3. BitPending => BitPending'
    BY <1>4, <2>2 DEF Cancel, BitPending, Idle, Callers
  <2> QED
    BY <2>1, <2>2, <2>3
<1>5. CASE Forget
  BY <1>5 DEF Forget, BitPending, Callers
<1>6. CASE ChangeSettings
  BY <1>6 DEF ChangeSettings, BitPending, Callers
<1> QED
  BY <1>1, <1>2, <1>3, <1>4, <1>5, <1>6

\* wifi_task comes to a wait without a timeout through station_start, and
\* takes the bits of the group when it enters that wait.
LEMMA AnnouncedStep ==
  ASSUME Typed, WellFormedQueue(requests), WaitInv, NewWorkAnnounced, NoLostWakeup,
         [Next]_vars
  PROVE  NewWorkAnnounced' /\ NoLostWakeup'
<1>1. CASE PopRequest
  <2>1. pc' # "no_creds" /\ (pc' = "station_start" => request'.type = "Station")
    BY <1>1, PoppedRequest DEF PopRequest, Goto
  <2> QED
    BY <1>1, <2>1 DEF PopRequest, NewWorkAnnounced, NoLostWakeup
<1>2. CASE EnterWait
  BY <1>2 DEF EnterWait, BeginWait, callVars, NewWorkAnnounced, NoLostWakeup, BitPending,
     WaitLabels, TimedWaits
<1>3. CASE StationStart
  BY <1>3 DEF StationStart, Goto, stationFrame, callVars, groupVars, NewWorkAnnounced,
     NoLostWakeup, BitPending
<1>4. CASE GotIp \/ StationDisconnected
  <2>1. UNCHANGED <<pc, requests, backlog, ssidSaved, call>>
    BY <1>4 DEF GotIp, StationDisconnected, driverFrame, callVars
  <2>2. wait' = "returned" \/ BitPending'
    BY <1>4 DEF GotIp, StationDisconnected, SetBits, BitPending
  <2> QED
    BY <1>4, <2>1, <2>2 DEF GotIp, StationDisconnected, SetBits, NewWorkAnnounced,
       NoLostWakeup, WaitInv, WaitShape, WaitLabels, TimedWaits
<1>5. CASE pc' \notin {"station_start", "no_creds"}
  BY <1>5 DEF NewWorkAnnounced, NoLostWakeup
<1>6. CASE UNCHANGED <<pc, events, wait, requests, backlog, call, ssidSaved>>
  BY <1>6 DEF NewWorkAnnounced, NoLostWakeup, BitPending
<1>7. \/ \E c \in Callers, item \in RequestItems : Request(c, item)
      \/ \E c \in Callers : ClearBreakFlags(c) \/ RaiseBits(c)
      \/ \E item \in ProgramRequests : Cancel(item)
      \/ Forget \/ ChangeSettings
      \/ PopRequest \/ EnterWait \/ StationStart \/ GotIp \/ StationDisconnected
      \/ pc' \notin {"station_start", "no_creds"}
      \/ UNCHANGED <<pc, events, wait, requests, backlog, call, ssidSaved>>
  BY Steps
  DEF ProcessTaskWakes, Timeout, NoCredsWoken, StationCancel, StationFail, StationServe,
      MinWorktimeOver, MinWorktimeEvent, StationStop, StationUnregister, StationSettled,
      ReconnectDelayOver, LinkDrops, ScanStart, ScanPoll, ScanTimeOver, ScanWoken,
      ScanPublish, ApStart, ApWoken, ApStop, ApClientJoins, ApClientLeaves, vars,
      groupVars, stationFrame, driverFrame, scanFrame, apFrame, callVars, Goto, TimedWaits,
      ApSession
<1> QED
  BY <1>1, <1>2, <1>3, <1>4, <1>5, <1>6, <1>7, CallerKeepsAnnounced

\* A wait without a timeout is never left with work it does not know of.
THEOREM NeverAsleep == Spec => []NoLostWakeup
<1> DEFINE Inv == TypeOK /\ ScanHasSsid /\ WaitInv /\ NewWorkAnnounced /\ NoLostWakeup
<1>1. Init => Inv
  <2> SUFFICES ASSUME Init PROVE Inv
    OBVIOUS
  <2>1. TypeOK /\ ScanHasSsid
    BY InitTyped
  <2>2. WaitInv
    BY DEF Init, GroupInit, WaitInv, WaitShape, CallsCarryBits, Idle
  <2> QED
    BY <2>1, <2>2 DEF Init, NewWorkAnnounced, NoLostWakeup
<1>2. Inv /\ [Next]_vars => Inv'
  BY TypeStep, WaitShapeStep, CallsCarryBitsStep, AnnouncedStep DEF TypeOK, WaitInv
<1>3. Inv => NoLostWakeup
  OBVIOUS
<1> QED
  BY <1>1, <1>2, <1>3, PTL DEF Spec

\* The driver's station is off outside a session, and the wait that settles
\* the session has taken its events.
SessionInv ==
  /\ NoStaleStationEvents
  /\ link # "off" => pc \in StationSession
  /\ pc = "settle" /\ wait # "running" => events \cap StationEvents = {}

\* What the group holds for wifi_task comes from what callers and the driver set.
LEMMA SessionCallerStep ==
  ASSUME Typed, WaitInv, SessionInv,
         NEW c \in Callers, ClearBreakFlags(c) \/ RaiseBits(c)
  PROVE  SessionInv'
<1> USE DEF SessionInv, NoStaleStationEvents, VisibleBits
<1>1. CASE ClearBreakFlags(c)
  BY <1>1 DEF ClearBreakFlags, TakeBits, callerFrame
<1>2. CASE RaiseBits(c)
  <2>1. call[c].bits \cap StationEvents = {}
    BY DEF WaitInv, CallsCarryBits
  <2>2. UNCHANGED <<pc, link>>
    BY <1>2 DEF RaiseBits, callerFrame
  <2> QED
    BY <1>2, <2>1, <2>2 DEF RaiseBits, SetBits, WaitInv, WaitShape
<1> QED
  BY <1>1, <1>2

LEMMA SessionStep ==
  ASSUME Typed, WellFormedQueue(requests), WaitInv, SessionInv, [Next]_vars
  PROVE  SessionInv'
<1> USE DEF SessionInv, NoStaleStationEvents, VisibleBits
<1>1. CASE EnterWait
  BY <1>1 DEF EnterWait, BeginWait
<1>2. CASE Timeout
  BY <1>2 DEF Timeout, WaitTimeout
<1>3. CASE GotIp \/ StationDisconnected
  <2>1. pc \in StationSession /\ UNCHANGED pc
    BY <1>3 DEF GotIp, StationDisconnected, driverFrame
  <2> QED
    BY <2>1 DEF StationSession
<1>4. CASE LinkDrops
  BY <1>4 DEF LinkDrops, driverFrame, groupVars
<1>5. CASE StationSettled
  BY <1>5 DEF StationSettled, EndWait, Goto, StationSession
<1>6. CASE StationUnregister
  BY <1>6 DEF StationUnregister, groupVars, Goto, WaitInv, WaitShape, WaitLabels, TimedWaits
<1>7. CASE /\ pc \in StationSession /\ pc' \in StationSession
  BY <1>7 DEF StationSession
<1>8. CASE /\ pc \notin StationSession \cup {"settle"} /\ link' = link
           /\ \/ UNCHANGED <<events, wait, notified>>
              \/ EndWait
           /\ pc' # "settle"
  BY <1>8 DEF EndWait
<1>9. CASE UNCHANGED <<pc, link, events, wait, notified>>
  BY <1>9
<1>10. CASE StationStart
  BY <1>10 DEF StationStart, groupVars, Goto, StationSession
<1>11. CASE PopRequest
  <2>1. pc' \in {"station_start", "scan_start", "ap_start"}
    BY <1>11, PoppedRequest DEF PopRequest, Goto
  <2> QED
    BY <1>11, <2>1 DEF PopRequest, groupVars, StationSession
<1>12. \/ \E c \in Callers : ClearBreakFlags(c) \/ RaiseBits(c)
       \/ PopRequest \/ EnterWait \/ Timeout \/ GotIp \/ StationDisconnected \/ LinkDrops
       \/ StationSettled \/ StationUnregister \/ StationStart
       \/ /\ pc \in StationSession /\ pc' \in StationSession
       \/ /\ pc \notin StationSession \cup {"settle"} /\ link' = link
          /\ \/ UNCHANGED <<events, wait, notified>>
             \/ EndWait
          /\ pc' # "settle"
       \/ UNCHANGED <<pc, link, events, wait, notified>>
  BY Steps
  DEF Request, Cancel, Forget, ChangeSettings, ProcessTaskWakes, NoCredsWoken, StationCancel, StationFail, StationServe, MinWorktimeOver,
      MinWorktimeEvent, StationStop, ReconnectDelayOver, ScanStart, ScanPoll,
      ScanTimeOver, ScanWoken, ScanPublish, ApStart, ApWoken, ApStop, ApClientJoins,
      ApClientLeaves, vars, groupVars, stationFrame, driverFrame, scanFrame, apFrame,
      callerFrame, Goto, StationSession
<1> QED
  BY <1>1, <1>2, <1>3, <1>4, <1>5, <1>6, <1>7, <1>8, <1>9, <1>10, <1>11, <1>12,
     SessionCallerStep

\* A station session never acts on the events of an earlier one.
THEOREM SessionsSeparate == Spec => []NoStaleStationEvents
<1> DEFINE Inv == TypeOK /\ ScanHasSsid /\ WaitInv /\ SessionInv
<1>1. Init => Inv
  <2> SUFFICES ASSUME Init PROVE Inv
    OBVIOUS
  <2>1. TypeOK /\ ScanHasSsid
    BY InitTyped
  <2>2. WaitInv
    BY DEF Init, GroupInit, WaitInv, WaitShape, CallsCarryBits, Idle
  <2> QED
    BY <2>1, <2>2 DEF Init, GroupInit, SessionInv, NoStaleStationEvents, VisibleBits
<1>2. Inv /\ [Next]_vars => Inv'
  BY TypeStep, WaitShapeStep, CallsCarryBitsStep, SessionStep DEF TypeOK, WaitInv
<1>3. Inv => NoStaleStationEvents
  BY DEF SessionInv
<1> QED
  BY <1>1, <1>2, <1>3, PTL DEF Spec

\* The web server and has_connect are changed by three actions; all others
\* leave them alone and come to a wait of the session only from one.
LEMMA ServerStep ==
  ASSUME Typed, WellFormedQueue(requests), WebServerInSession, [Next]_vars
  PROVE  WebServerInSession'
<1> USE DEF WebServerInSession
<1>1. CASE StationServe
  BY <1>1 DEF StationServe, Goto, Typed
<1>2. CASE StationFail
  BY <1>2 DEF StationFail, Goto
<1>3. CASE StationStop
  BY <1>3 DEF StationStop
<1>4. CASE StationCancel \/ MinWorktimeOver
  BY <1>4 DEF StationCancel, MinWorktimeOver, Goto, stationVars
<1>5. CASE UNCHANGED <<pc, httpServer, hasConnect>>
  BY <1>5
<1>6. CASE /\ pc \notin {"station_wait", "min_worktime", "station_stop"}
           /\ UNCHANGED httpServer
  BY <1>6
<1>7. \/ StationServe \/ StationFail \/ StationStop \/ StationCancel \/ MinWorktimeOver
      \/ UNCHANGED <<pc, httpServer, hasConnect>>
      \/ /\ pc \notin {"station_wait", "min_worktime", "station_stop"}
         /\ UNCHANGED httpServer
  BY Steps
  DEF Request, ClearBreakFlags, RaiseBits, Cancel, Forget, ChangeSettings,
      ProcessTaskWakes, PopRequest, EnterWait, Timeout, StationStart, NoCredsWoken,
      MinWorktimeEvent, StationUnregister, StationSettled, ReconnectDelayOver,
      GotIp, LinkDrops, StationDisconnected, ScanStart, ScanPoll, ScanTimeOver,
      ScanWoken, ScanPublish, ApStart, ApWoken, ApStop, ApClientJoins, ApClientLeaves,
      callerFrame, stationFrame, driverFrame, scanFrame, apFrame, stationVars, vars
<1> QED
  BY <1>1, <1>2, <1>3, <1>4, <1>5, <1>6, <1>7

\* The web server runs only between a connection and the end of the session,
\* by whichever event, break or timeout that session ends.
THEOREM ServerInSession == Spec => []WebServerInSession
<1> DEFINE Inv == TypeOK /\ ScanHasSsid /\ WebServerInSession
<1>1. Init => Inv
  BY InitTyped DEF Init, WebServerInSession
<1>2. Inv /\ [Next]_vars => Inv'
  BY TypeStep, ServerStep DEF TypeOK
<1>3. Inv => WebServerInSession
  OBVIOUS
<1> QED
  BY <1>1, <1>2, <1>3, PTL DEF Spec
-----------------------------------------------------------------------------
(* What the program asked for *)

\* A step of the radio, its driver or a call under way that changes no queue, no
\* table and no request does not start a session, and a call that is about to
\* forget stays so.
Unmoved ==
  /\ UNCHANGED <<requests, request, scanned, apClients>>
  /\ pc' # "pop" => pc # "pop"
  /\ pc' \in ScanSession => pc \in ScanSession
  /\ call["ladder"].step = "forget" => UNCHANGED call["ladder"]

LEMMA CallsUnmoved ==
  ASSUME Typed, NEW c \in Callers, ClearBreakFlags(c) \/ RaiseBits(c)
  PROVE  Unmoved
<1>1. call[c].step # "forget" /\ \A d \in Callers : d # c => call'[d] = call[d]
  BY DEF ClearBreakFlags, RaiseBits, Typed
<1>2. UNCHANGED <<requests, request, scanned, apClients, pc>>
  BY DEF ClearBreakFlags, RaiseBits, callerFrame
<1>3. "ladder" \in Callers
  BY DEF Callers
<1> QED
  BY <1>1, <1>2, <1>3 DEF Unmoved

LEMMA ProgressChanges ==
  ASSUME Typed, Progress
  PROVE  \/ Forget \/ PopRequest \/ ScanPublish
         \/ \E mac \in Macs : ApClientJoins(mac) \/ ApClientLeaves(mac)
         \/ Unmoved
<1>1. \/ \E c \in Callers : ClearBreakFlags(c) \/ RaiseBits(c)
      \/ Forget \/ PopRequest \/ ScanPublish
      \/ \E mac \in Macs : ApClientJoins(mac) \/ ApClientLeaves(mac)
      \/ ProcessTaskWakes \/ EnterWait \/ Timeout
      \/ StationStart \/ NoCredsWoken \/ StationCancel \/ StationFail \/ StationServe
      \/ MinWorktimeOver \/ MinWorktimeEvent \/ StationStop \/ StationUnregister
      \/ StationSettled \/ ReconnectDelayOver
      \/ GotIp \/ LinkDrops \/ StationDisconnected
      \/ ScanStart \/ ScanPoll \/ ScanTimeOver \/ ScanWoken
      \/ ApStart \/ ApWoken \/ ApStop
  BY DEF Progress, FinishCall, WiFiTask, DriverEvent, StationStep, ScannerStep,
         AccessPointStep
<1>2. CASE \/ ProcessTaskWakes \/ EnterWait \/ Timeout
           \/ StationStart \/ NoCredsWoken \/ StationCancel \/ StationFail \/ StationServe
           \/ MinWorktimeOver \/ MinWorktimeEvent \/ StationStop \/ StationUnregister
           \/ StationSettled \/ ReconnectDelayOver
           \/ GotIp \/ LinkDrops \/ StationDisconnected
           \/ ScanStart \/ ScanPoll \/ ScanTimeOver \/ ScanWoken
           \/ ApStart \/ ApWoken \/ ApStop
  BY <1>2
  DEF ProcessTaskWakes, EnterWait, Timeout, StationStart, NoCredsWoken, StationCancel,
      StationFail, StationServe, MinWorktimeOver, MinWorktimeEvent, StationStop,
      StationUnregister, StationSettled, ReconnectDelayOver, GotIp, LinkDrops,
      StationDisconnected, ScanStart, ScanPoll, ScanTimeOver, ScanWoken, ApStart, ApWoken,
      ApStop, stationFrame, driverFrame, scanFrame, apFrame, scanVars, callVars, Goto,
      ScanSession, Unmoved
<1> QED
  BY <1>1, <1>2, CallsUnmoved

\* What is queued is wanted; what is served is wanted or was cancelled meanwhile,
\* the station that nobody asked for apart; only a scan publishes.
QueueIsWanted == ToSet(requests) \subseteq live
ServedIsWanted ==
  pc # "pop" /\ request.type # "Station" => request \in live \cup cutShort
ScanIsServed == pc \in ScanSession => request.type = "Scanner"

DemandInv == QueueIsWanted /\ ServedIsWanted /\ ScanIsServed /\ SlotsAreWanted

\* A request of the program.
LEMMA RequestKeepsDemand ==
  ASSUME Typed, DemandInv, NEW c \in Callers, NEW item \in RequestItems,
         Request(c, item) \/ Refused(c, item),
         live' = live \cup {item}, UNCHANGED cutShort
  PROVE  DemandInv'
<1>1. CASE Request(c, item)
  <2>1. ToSet(requests') = ToSet(requests) \cup {item}
    BY <1>1, AppendExact DEF Request, Typed
  <2>2. UNCHANGED <<pc, request, scanned, apClients>>
    BY <1>1 DEF Request, callerFrame
  <2>3. call["ladder"].step = "forget" => UNCHANGED call["ladder"]
    BY <1>1 DEF Request, Idle, Typed, Callers
  <2> QED
    BY <2>1, <2>2, <2>3 DEF DemandInv, QueueIsWanted, ServedIsWanted, ScanIsServed,
       SlotsAreWanted, Accounted, Listed
<1>2. CASE Refused(c, item)
  BY <1>2 DEF Refused, vars, callVars, scanVars, DemandInv, QueueIsWanted, ServedIsWanted,
     ScanIsServed, SlotsAreWanted, Accounted, Listed
<1> QED
  BY <1>1, <1>2

\* A cancel: the request leaves the queue, and its entry is about to be given
\* back, or wifi_task is serving it.
LEMMA CancelKeepsDemand ==
  ASSUME TypeOK, DemandInv, NEW item \in ProgramRequests, Cancel(item),
         live' = live \ {item},
         cutShort' = IF Serves(item) THEN cutShort \cup {item} ELSE cutShort \ {item}
  PROVE  DemandInv'
<1>1. ToSet(requests') = ToSet(requests) \ {item}
  BY RemoveRequestExact DEF Cancel, TypeOK, Typed
<1>2. UNCHANGED <<pc, request, scanned, apClients>> /\ call["ladder"].step # "forget"
  BY DEF Cancel, callerFrame, Idle
<1>3. item.type # "Station" =>
        call'["ladder"].step = "forget" /\ call'["ladder"].item = item
  BY DEF Cancel, TypeOK, Typed, Callers
<1>4. ASSUME NEW other, other.type # "Station", Accounted(other)
      PROVE  Accounted(other)'
  BY <1>2, <1>3, <1>4 DEF Accounted
<1>5. \A s \in Ssids : ScanRequest(s).type # "Station" /\ AccessPointRequest(s, TRUE).type # "Station"
  BY DEF ScanRequest, AccessPointRequest
<1>6. scanned \subseteq Ssids /\ Listed \subseteq Ssids /\ Listed' = Listed
  BY <1>2 DEF TypeOK, Typed, Listed
<1>7. SlotsAreWanted'
  BY <1>2, <1>4, <1>5, <1>6 DEF DemandInv, SlotsAreWanted
<1>8. QueueIsWanted' /\ ScanIsServed'
  BY <1>1, <1>2 DEF DemandInv, QueueIsWanted, ScanIsServed
<1>9. ServedIsWanted'
  BY <1>2 DEF DemandInv, ServedIsWanted, Serves
<1> QED
  BY <1>7, <1>8, <1>9 DEF DemandInv

\* A step of everything else.
LEMMA ProgressKeepsDemand ==
  ASSUME TypeOK, ScanHasSsid, DemandInv, Progress, UNCHANGED <<live, cutShort>>
  PROVE  DemandInv'
<1> USE DEF DemandInv, QueueIsWanted, ServedIsWanted, ScanIsServed
<1>1. CASE Forget
  <2> DEFINE item == call["ladder"].item
  <2>1. UNCHANGED <<requests, pc, request>> /\ call["ladder"].step = "forget"
    BY <1>1 DEF Forget, callerFrame
  <2>2. ASSUME NEW s \in scanned' PROVE Accounted(ScanRequest(s))'
    <3>1. s \in scanned /\ ~(item.type = "Scanner" /\ item.ssid = s)
      BY <1>1, <2>2 DEF Forget
    <3>2. item # ScanRequest(s)
      BY <3>1 DEF ScanRequest
    <3> QED
      BY <3>1, <3>2 DEF SlotsAreWanted, Accounted
  <2>3. ASSUME NEW s \in Listed' PROVE Accounted(AccessPointRequest(s, TRUE))'
    <3>1. s \in Listed /\ ~(item.type = "AccessPoint" /\ item.ssid = s)
      BY <1>1, <2>3 DEF Forget, Listed, TypeOK, Typed
    <3>2. item # AccessPointRequest(s, TRUE)
      BY <3>1 DEF AccessPointRequest
    <3> QED
      BY <3>1, <3>2 DEF SlotsAreWanted, Accounted
  <2> QED
    BY <2>1, <2>2, <2>3 DEF SlotsAreWanted
<1>2. CASE PopRequest
  <2>1. UNCHANGED <<scanned, apClients, call>>
    BY <1>2 DEF PopRequest, scanVars, callVars
  <2>2. pc' \in ScanSession => request'.type = "Scanner"
    BY <1>2, PoppedRequest DEF PopRequest, Goto, ScanSession, TypeOK
  <2>3. ToSet(requests') \subseteq live /\ (request'.type # "Station" => request' \in live)
    <3>1. CASE requests = <<>>
      BY <1>2, <3>1 DEF PopRequest, StationRequest
    <3>2. CASE requests # <<>>
      BY <1>2, <3>2, TailExact DEF PopRequest, TypeOK, Typed
    <3> QED
      BY <3>1, <3>2
  <2> QED
    BY <2>1, <2>2, <2>3 DEF SlotsAreWanted, Accounted, Listed
<1>3. CASE ScanPublish
  <2>1. UNCHANGED <<requests, request, apClients, call>> /\ pc = "scan_publish" /\ pc' = "pop"
    BY <1>3 DEF ScanPublish, scanFrame, callVars, Goto
  <2>2. request = ScanRequest(request.ssid) /\ request \in live \cup cutShort
    <3>1. request.type = "Scanner" /\ request \in RequestItems
      BY <2>1 DEF ScanSession, TypeOK, Typed
    <3> QED
      BY <2>1, <3>1 DEF RequestItems, StationRequest, ScanRequest, AccessPointRequest
  <2>3. scanned' \subseteq scanned \cup {request.ssid}
    BY <1>3 DEF ScanPublish
  <2> QED
    BY <2>1, <2>2, <2>3 DEF SlotsAreWanted, Accounted, Listed, ScanSession
<1>4. ASSUME NEW mac \in Macs, ApClientJoins(mac)
      PROVE  DemandInv'
  <2>1. UNCHANGED <<requests, request, pc, scanned, call>> /\ pc # "pop" /\ request.secure
    BY <1>4 DEF ApClientJoins, apFrame, callVars, scanVars, ApSession
  <2>2. request = AccessPointRequest(request.ssid, TRUE) /\ request \in live \cup cutShort
    <3>1. request \in RequestItems
      BY DEF TypeOK, Typed
    <3> QED
      BY <2>1, <3>1 DEF RequestItems, StationRequest, ScanRequest, AccessPointRequest
  <2>3. Listed' \subseteq Listed \cup {request.ssid}
    BY <1>4 DEF ApClientJoins, Listed, TypeOK, Typed
  <2> QED
    BY <2>1, <2>2, <2>3 DEF SlotsAreWanted, Accounted
<1>5. ASSUME NEW mac \in Macs, ApClientLeaves(mac)
      PROVE  DemandInv'
  <2>1. UNCHANGED <<requests, request, pc, scanned, call>>
    BY <1>5 DEF ApClientLeaves, apFrame, callVars, scanVars
  <2>2. Listed' \subseteq Listed
    BY <1>5 DEF ApClientLeaves, Listed, TypeOK, Typed
  <2> QED
    BY <2>1, <2>2 DEF SlotsAreWanted, Accounted
<1>6. CASE Unmoved
  BY <1>6 DEF Unmoved, SlotsAreWanted, Accounted, Listed
<1> QED
  BY <1>1, <1>2, <1>3, <1>4, <1>5, <1>6, ProgressChanges DEF TypeOK

\* No entry of the two tables outlives the variable it was made for, but for one
\* whose request was cancelled while wifi_task served it.
THEOREM SlotsAreWantedTheorem == DemandSpec => []SlotsAreWanted
<1> DEFINE Inv == TypeOK /\ ScanHasSsid /\ DemandInv
<1>1. DemandInit => Inv
  <2> SUFFICES ASSUME DemandInit PROVE Inv
    OBVIOUS
  <2>1. TypeOK /\ ScanHasSsid
    BY InitTyped DEF DemandInit
  <2>2. ToSet(requests) = {} /\ pc = "pop" /\ scanned = {} /\ Listed = {}
    BY DEF DemandInit, Init, Listed, ToSet
  <2> QED
    BY <2>1, <2>2 DEF DemandInv, QueueIsWanted, ServedIsWanted, ScanIsServed, ScanSession,
       SlotsAreWanted
<1>2. Inv /\ [DemandNext]_demandVars => Inv'
  <2> SUFFICES ASSUME Inv, [DemandNext]_demandVars PROVE Inv'
    OBVIOUS
  <2>1. [Next]_vars
    BY DEF DemandNext, ProgramCalls, Refused, Next, StartCall, demandVars
  <2>2. TypeOK' /\ ScanHasSsid'
    BY <2>1, TypeStep
  <2>3. CASE UNCHANGED demandVars
    BY <2>2, <2>3 DEF demandVars, vars, callVars, scanVars, DemandInv, QueueIsWanted,
       ServedIsWanted, ScanIsServed, SlotsAreWanted, Accounted, Listed
  <2>4. ASSUME NEW c \in Callers, NEW item \in RequestItems,
               Request(c, item) \/ Refused(c, item),
               live' = live \cup {item}, UNCHANGED cutShort
        PROVE  Inv'
    BY <2>2, <2>4, RequestKeepsDemand DEF TypeOK
  <2>5. ASSUME NEW item \in ProgramRequests, Cancel(item),
               live' = live \ {item},
               cutShort' = IF Serves(item) THEN cutShort \cup {item} ELSE cutShort \ {item}
        PROVE  Inv'
    BY <2>2, <2>5, CancelKeepsDemand
  <2>6. CASE ChangeSettings /\ UNCHANGED <<live, cutShort>>
    <3>1. UNCHANGED <<requests, request, pc, scanned, apClients>>
          /\ call["ladder"].step # "forget"
      BY <2>6 DEF ChangeSettings, callerFrame, Idle
    <3> QED
      BY <2>2, <2>6, <3>1 DEF DemandInv, QueueIsWanted, ServedIsWanted, ScanIsServed,
         SlotsAreWanted, Accounted, Listed
  <2>7. CASE Progress /\ UNCHANGED <<live, cutShort>>
    BY <2>2, <2>7, ProgressKeepsDemand
  <2> QED
    BY <2>3, <2>4, <2>5, <2>6, <2>7 DEF DemandNext, ProgramCalls
<1>3. Inv => SlotsAreWanted
  BY DEF DemandInv
<1> QED
  BY <1>1, <1>2, <1>3, PTL DEF DemandSpec
=============================================================================
