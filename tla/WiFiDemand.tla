----------------------------- MODULE WiFiDemand -----------------------------
(***************************************************************************)
(* WiFiService together with what the program wants of it: which requests  *)
(* it has made and not cancelled since.  A variable asks again and again   *)
(* (ControllerVariable.cpp, FetchValue), and most of these calls find the  *)
(* request queued already.                                                 *)
(*                                                                         *)
(* The program makes at most MaxCalls calls that may change the queue, so  *)
(* that a behaviour ends in what the WiFi task does when it is left alone. *)
(***************************************************************************)
EXTENDS WiFiService

CONSTANT MaxCalls

VARIABLES
  live,      \* requests asked for and not cancelled since
  cutShort,  \* requests whose last cancel found wifi_task serving them
  eaten,     \* ClearBreakFlags has taken a station event out of the group
  calls      \* calls made so far

demandVars == <<vars, live, cutShort, eaten, calls>>

Serves(item) == pc # "pop" /\ request = item

\* A call whose request is queued already, or dropped for want of room.
Refused(c, item) ==
  /\ MayRequest(c, item)
  /\ call[c] = Idle
  /\ ~CanAdd(requests, item)
  /\ UNCHANGED vars

ProgramCalls ==
  /\ calls < MaxCalls
  /\ calls' = calls + 1
  /\ \/ \E c \in Callers, item \in RequestItems :
          /\ Request(c, item) \/ Refused(c, item)
          /\ live' = live \cup {item}
          /\ UNCHANGED cutShort
     \/ \E item \in ProgramRequests :
          /\ Cancel(item)
          /\ live' = live \ {item}
          /\ cutShort' = IF Serves(item) THEN cutShort \cup {item} ELSE cutShort \ {item}
     \/ ChangeSettings /\ UNCHANGED <<live, cutShort>>
  /\ UNCHANGED eaten

StationEventTaken ==
  /\ events \cap StationEvents # {}
  /\ \E c \in Callers : call[c].step = "clear" /\ call'[c].step = "raise"

DemandInit == Init /\ live = {} /\ cutShort = {} /\ eaten = FALSE /\ calls = 0

DemandNext ==
  \/ ProgramCalls
  \/ /\ Progress
     /\ eaten' = (eaten \/ StationEventTaken)
     /\ UNCHANGED <<live, cutShort, calls>>

DemandSpec == DemandInit /\ [][DemandNext]_demandVars /\ Fairness
-----------------------------------------------------------------------------
\* A table has an entry for a request: somebody wants it, or is about to give
\* the entry back, or has cancelled it while wifi_task served it.
Accounted(item) ==
  \/ item \in live \cup cutShort
  \/ call["ladder"].step = "forget" /\ call["ladder"].item = item

\* The tables of scanned ssids and of clients have room for one entry per
\* variable, so a request that was cancelled leaves none behind: its entry goes
\* with it, and wifi_task never serves it later, as the queue holds it once.
\* The one case excepted is a request that is cancelled while it is served: a
\* scan publishes, and clients join, before wifi_task sees the break bit.  That
\* entry stays until the next cancel.
SlotsAreWanted ==
  /\ \A ssid \in scanned : Accounted(ScanRequest(ssid))
  /\ \A ssid \in Listed : Accounted(AccessPointRequest(ssid, TRUE))

\* The radio serves the request, or the queue no longer holds it.
ServedOrGone(item) == request = item \/ item \notin ToSet(requests)

\* A queued request is served by the WiFi task, or cancelled: the station and
\* the access point free the radio once another request is queued.  Two cases
\* are excepted: the ClearBreakFlags of a caller took a station event out of the
\* group, which makes StationTask miss it; and a station without a saved ssid,
\* which waits for new bits with what was queued before it was popped.
QueuedIsServed ==
  \A item \in RequestItems :
    item \in ToSet(requests)
      ~> \/ ServedOrGone(item)
         \/ eaten
         \/ pc = "no_creds" /\ item \in backlog

\* The web server goes down when the connection is lost, even if the event
\* that says so was taken out of the group: the poll of the signal sees it.
WebServerGoesDown == (httpServer /\ link # "connected") ~> ~httpServer

\* An access point that was cancelled and not asked for again goes off the
\* air, though a request for another one drops its pending break bit.
CancelledAccessPointStops ==
  \A item \in ProgramRequests :
    (pc \in ApSession /\ request = item /\ item \notin live)
      ~> (pc \notin ApSession \/ request # item \/ item \in live)
=============================================================================
