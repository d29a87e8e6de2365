---------------------------- MODULE WiFiService -----------------------------
(***************************************************************************)
(* The radio of the PLC: wifi_task, which serves one request at a time as  *)
(* a station, a scanner or an access point (WiFi/WiFiService*.cpp), the    *)
(* tasks that ask for it and cancel it, and the event handlers of the WiFi *)
(* driver.                                                                 *)
(*                                                                         *)
(* wifi_task is `pc' and runs its waits through EventGroup.  Its callers   *)
(* hold no common lock, so a call of the service is as many steps as it    *)
(* has accesses to shared state: the queue, a table of results, the bits.  *)
(***************************************************************************)
EXTENDS WiFiRequests, EventGroup, FiniteSets

CONSTANTS
  Macs,              \* clients that may join an access point
  SsidLimit,         \* WiFi_SsidLimit
  MaxClients,        \* WiFi_Hotspot_Max_Clients
  MaxFailures,       \* retries_num_before_no_station
  ProgramRequests,   \* the requests the program's elements may make
  SntpEnabled,       \* whether the datetime task asks for the station
  SavedSsid          \* the values "a station ssid is saved" may take

ASSUME LimitsAssumption ==
  SsidLimit \in Nat /\ MaxClients \in Nat /\ MaxFailures \in Nat
ASSUME FiniteNamesAssumption == IsFiniteSet(Ssids) /\ IsFiniteSet(Macs)
ASSUME RequestsAssumption ==
  /\ ProgramRequests \subseteq RequestItems
  /\ SntpEnabled \in BOOLEAN
  /\ SavedSsid \subseteq BOOLEAN /\ SavedSsid # {}

VARIABLES
  requests,      \* WiFiRequests: the queue
  pc,            \* where wifi_task is
  request,       \* the request it serves
  backlog,       \* history: what wifi_task left queued when it took a station request
  hasConnect,    \* StationTask's has_connect, a local: FALSE outside its loop
  failed,        \* StationTask's failed, a local: FALSE outside the task
  failures,      \* station_connect_failures
  stationRssi,   \* station_rssi: 0, or 1 for any signal
  httpServer,    \* the web server runs
  link,          \* the driver's station: off, connecting, connected, dropped
  scanned,       \* the ssids in scanned_ssids
  canceled,      \* ScannerTask's canceled, a local
  found,         \* ScannerTask's rssi, a local: the scan saw its ssid
  apClients,     \* ap_clients: the clients listed for each ssid
  ssidSaved,     \* settings.wifi_station.ssid is not empty
  call,          \* the call of the service each caller is in
  wakeup         \* WAKEUP_PROCESS_TASK, the wakeup bit of the process task

stationVars == <<hasConnect, failed, failures, stationRssi, httpServer>>
scanVars == <<scanned, canceled, found>>
callVars == <<call, ssidSaved>>
vars == <<groupVars, requests, pc, request, backlog, stationVars, link, scanVars,
          apClients, callVars, wakeup>>

\* The process task runs the program under the ladder lock, and whoever edits
\* or uploads the program holds that lock too: they are one caller.  The other
\* one is the datetime task.
Callers == {"ladder", "datetime"}

StationEvents == {"STA_FAILED", "STA_CONNECTED"}
BreakBits == {"STA_BREAK", "SCAN_BREAK", "AP_BREAK"}
Bits == StationEvents \cup BreakBits \cup {"SETTINGS_CHANGED", "WAKEUP"}

BreakBit(item) ==
  CASE item.type = "Station" -> "STA_BREAK"
    [] item.type = "Scanner" -> "SCAN_BREAK"
    [] item.type = "AccessPoint" -> "AP_BREAK"

\* Labels at which wifi_task is in WaitEvent, and those with a finite delay.
TimedWaits == {"station_wait", "min_worktime", "settle", "reconnect_delay",
               "scan_wait", "ap_wait"}
WaitLabels == TimedWaits \cup {"no_creds"}
Labels == WaitLabels \cup {"pop", "station_start", "station_stop", "unregister",
                           "scan_start", "scan_poll", "scan_publish",
                           "ap_start", "ap_stop"}
ApSession == {"ap_wait", "ap_stop"}
ScanSession == {"scan_start", "scan_poll", "scan_wait", "scan_publish"}
StationSession == {"station_wait", "min_worktime", "station_stop", "unregister"}

Idle == [step |-> "idle", item |-> StationRequest, bits |-> {}]

\* wifi_task and the datetime task have the idle priority, the process task and
\* the web server more: the first two run only when no ladder call is under way.
IdlePriorityRuns == call["ladder"] = Idle

Init ==
  /\ GroupInit
  /\ requests = <<>>
  /\ pc = "pop"
  /\ request = StationRequest
  /\ backlog = {}
  /\ hasConnect = FALSE
  /\ failed = FALSE
  /\ failures = 0
  /\ stationRssi = 0
  /\ httpServer = FALSE
  /\ link = "off"
  /\ scanned = {}
  /\ canceled = FALSE
  /\ found = FALSE
  /\ apClients = [s \in Ssids |-> {}]
  /\ ssidSaved \in SavedSsid
  /\ call = [c \in Callers |-> Idle]
  /\ wakeup = FALSE
-----------------------------------------------------------------------------
(***************************************************************************)
(* Callers                                                                 *)
(***************************************************************************)
callerFrame == <<pc, request, backlog, stationVars, link, canceled, found, wakeup>>

MayRequest(c, item) ==
  IF c = "ladder" THEN item \in ProgramRequests
                  ELSE SntpEnabled /\ item = StationRequest /\ IdlePriorityRuns

\* ConnectToStation, Scan, AccessPoint: the first step queues the request.  A
\* call whose request is refused changes nothing.
Request(c, item) ==
  /\ MayRequest(c, item)
  /\ call[c] = Idle
  /\ CanAdd(requests, item)
  /\ requests' = Append(requests, item)
  /\ call' = [call EXCEPT ![c] = [step |-> "clear", item |-> item, bits |-> {}]]
  /\ UNCHANGED <<groupVars, callerFrame, scanned, apClients, ssidSaved>>

\* What a call raises after it has taken the pending bits: the break bits of
\* the other types, or WAKEUP when there is none.  Mutant: only the breaks.
BreaksOnly(breaks) == breaks
BitsToRaise(breaks) == IF breaks = {} THEN {"WAKEUP"} ELSE breaks

\* ClearBreakFlags takes every pending bit, of whatever kind.
ClearBreakFlags(c) ==
  /\ call[c].step = "clear"
  /\ LET breaks == events \cap (BreakBits \ {BreakBit(call[c].item)})
     IN  call' = [call EXCEPT ![c].step = "raise", ![c].bits = BitsToRaise(breaks)]
  /\ TakeBits
  /\ UNCHANGED <<callerFrame, requests, scanned, apClients, ssidSaved>>

\* The last step of every call: the bits are set.
RaiseBits(c) ==
  /\ call[c].step = "raise"
  /\ SetBits(call[c].bits)
  /\ call' = [call EXCEPT ![c] = Idle]
  /\ UNCHANGED <<callerFrame, requests, scanned, apClients, ssidSaved>>

\* DisconnectFromStation, CancelScan, CancelAccessPoint: the queued request
\* goes first.
Cancel(item) ==
  /\ item \in ProgramRequests
  /\ call["ladder"] = Idle
  /\ requests' = RemoveRequest(requests, item)
  /\ call' = [call EXCEPT !["ladder"] =
                [step |-> IF item.type = "Station" THEN "raise" ELSE "forget",
                 item |-> item, bits |-> {BreakBit(item)}]]
  /\ UNCHANGED <<groupVars, callerFrame, scanned, apClients, ssidSaved>>

\* ... then the result kept for it: RemoveScannedSsid, RemoveApClients.
Forget ==
  /\ call["ladder"].step = "forget"
  /\ LET item == call["ladder"].item
     IN  /\ scanned' = IF item.type = "Scanner" THEN scanned \ {item.ssid} ELSE scanned
         /\ apClients' = IF item.type = "AccessPoint"
                           THEN [apClients EXCEPT ![item.ssid] = {}] ELSE apClients
  /\ call' = [call EXCEPT !["ladder"].step = "raise"]
  /\ UNCHANGED <<groupVars, callerFrame, requests, ssidSaved>>

\* The settings element saves new station settings, then RaiseSettingsChanged.
ChangeSettings ==
  /\ call["ladder"] = Idle
  /\ ssidSaved' \in SavedSsid
  /\ call' = [call EXCEPT !["ladder"] =
                [step |-> "raise", item |-> StationRequest, bits |-> {"SETTINGS_CHANGED"}]]
  /\ UNCHANGED <<groupVars, callerFrame, requests, scanned, apClients>>

\* The process task leaves its wait and takes the wakeup bit.
ProcessTaskWakes ==
  /\ wakeup
  /\ wakeup' = FALSE
  /\ UNCHANGED <<groupVars, requests, pc, request, backlog, stationVars, link,
                 scanVars, apClients, callVars>>
-----------------------------------------------------------------------------
(***************************************************************************)
(* wifi_task: the loop and its waits                                       *)
(***************************************************************************)
Goto(label) == pc' = label

PopRequest ==
  /\ pc = "pop"
  /\ IF requests = <<>>
       THEN request' = StationRequest /\ UNCHANGED requests
       ELSE request' = Head(requests) /\ requests' = Tail(requests)
  /\ backlog' = IF request'.type = "Station" THEN ToSet(requests') ELSE {}
  /\ Goto(CASE request'.type = "Station" -> "station_start"
            [] request'.type = "Scanner" -> "scan_start"
            [] request'.type = "AccessPoint" -> "ap_start")
  /\ UNCHANGED <<groupVars, stationVars, link, scanVars, apClients, callVars, wakeup>>

EnterWait ==
  /\ pc \in WaitLabels
  /\ BeginWait
  /\ UNCHANGED <<requests, pc, request, backlog, stationVars, link, scanVars,
                 apClients, callVars, wakeup>>

Timeout ==
  /\ pc \in TimedWaits
  /\ WaitTimeout
  /\ UNCHANGED <<requests, pc, request, backlog, stationVars, link, scanVars,
                 apClients, callVars, wakeup>>
-----------------------------------------------------------------------------
(***************************************************************************)
(* StationTask                                                             *)
(***************************************************************************)
stationFrame == <<requests, request, backlog, scanVars, apClients, callVars>>

StationStart ==
  /\ pc = "station_start"
  /\ IF ssidSaved
       THEN /\ link' = "connecting"
            /\ Goto("station_wait")
            /\ UNCHANGED stationRssi
       ELSE /\ stationRssi' = 0
            /\ Goto("no_creds")
            /\ UNCHANGED link
  /\ UNCHANGED <<stationFrame, groupVars, hasConnect, failed, failures, httpServer, wakeup>>

NoCredsWoken ==
  /\ pc = "no_creds"
  /\ EndWait
  /\ Goto("pop")
  /\ UNCHANGED <<stationFrame, stationVars, link, wakeup>>

\* STA_BREAK is looked at first.
StationCancel ==
  /\ pc = "station_wait"
  /\ "STA_BREAK" \in notified
  /\ EndWait
  /\ Goto("station_stop")
  /\ UNCHANGED <<stationFrame, stationVars, link, wakeup>>

\* A failure is an event, or a poll of the signal that finds no connection.
\* Mutant: the poll is not looked at.
FailureEvent == "STA_FAILED" \in notified
ConnectionFailed ==
  \/ "STA_FAILED" \in notified
  \/ (notified = {} /\ hasConnect /\ link # "connected")

\* The signal drops to 0, and the program is woken, when the retries are spent.
StationFail ==
  /\ pc = "station_wait"
  /\ "STA_BREAK" \notin notified
  /\ ConnectionFailed
  /\ EndWait
  /\ hasConnect' = FALSE
  /\ failed' = TRUE
  /\ IF failures < MaxFailures
       THEN failures' = failures + 1 /\ UNCHANGED <<stationRssi, wakeup>>
       ELSE /\ stationRssi' = 0
            /\ wakeup' = (wakeup \/ stationRssi # 0)
            /\ UNCHANGED failures
  /\ Goto("station_stop")
  /\ UNCHANGED <<stationFrame, httpServer, link>>

\* Any other return of the wait: a new connection, a poll of the signal, or a
\* bit that only makes the task look at the queue.
StationServe ==
  /\ pc = "station_wait"
  /\ "STA_BREAK" \notin notified
  /\ ~ConnectionFailed
  /\ EndWait
  /\ LET connected == "STA_CONNECTED" \in notified
         obtained == link = "connected" /\ (connected \/ (notified = {} /\ hasConnect))
     IN  /\ hasConnect' = (hasConnect \/ connected)
         /\ httpServer' = (httpServer \/ connected)
         /\ failures' = IF connected THEN 0 ELSE failures
         /\ IF obtained THEN stationRssi' \in {0, 1} ELSE UNCHANGED stationRssi
         /\ wakeup' = (wakeup \/ (connected /\ obtained))
  /\ Goto(IF hasConnect' /\ HasAnother(requests, request)
            THEN "min_worktime" ELSE "station_wait")
  /\ UNCHANGED <<stationFrame, failed, link>>

\* The minimum uptime is over, or a wait for the rest of it timed out.
MinWorktimeOver ==
  /\ pc = "min_worktime"
  /\ \/ (wait = "running" /\ UNCHANGED groupVars)
     \/ (notified = {} /\ EndWait)
  /\ Goto("station_stop")
  /\ UNCHANGED <<stationFrame, stationVars, link, wakeup>>

\* A bit that arrives meanwhile is read and not looked at.
MinWorktimeEvent ==
  /\ pc = "min_worktime"
  /\ notified # {}
  /\ EndWait
  /\ UNCHANGED <<stationFrame, pc, stationVars, link, wakeup>>

\* Mutant: the web server is left running.
StationStopKeepsServer ==
  /\ pc = "station_stop"
  /\ hasConnect' = FALSE
  /\ link' = IF link \in {"connecting", "connected"} THEN "dropped" ELSE link
  /\ Goto("unregister")
  /\ UNCHANGED <<stationFrame, groupVars, failed, failures, stationRssi, httpServer, wakeup>>

\* stop_http_server, StopSntp, Disconnect.
StationStop ==
  /\ pc = "station_stop"
  /\ httpServer' = FALSE
  /\ hasConnect' = FALSE
  /\ link' = IF link \in {"connecting", "connected"} THEN "dropped" ELSE link
  /\ Goto("unregister")
  /\ UNCHANGED <<stationFrame, groupVars, failed, failures, stationRssi, wakeup>>

\* Mutant: the next request is taken without the wait that follows.
UnregisterUnsettled ==
  /\ pc = "unregister"
  /\ link' = "off"
  /\ Goto("pop")
  /\ UNCHANGED <<stationFrame, groupVars, stationVars, wakeup>>

\* Without its handlers an event of this session is lost.
StationUnregister ==
  /\ pc = "unregister"
  /\ link' = "off"
  /\ Goto("settle")
  /\ UNCHANGED <<stationFrame, groupVars, stationVars, wakeup>>

\* After a failure, and with nothing else to do, the task holds the next
\* attempt back, unless the settling took that long already.
StationSettled ==
  /\ pc = "settle"
  /\ EndWait
  /\ \/ Goto("pop")
     \/ /\ failed /\ ~HasAnother(requests, request)
        /\ Goto("reconnect_delay")
  /\ failed' = FALSE
  /\ UNCHANGED <<stationFrame, hasConnect, failures, stationRssi, httpServer, link, wakeup>>

ReconnectDelayOver ==
  /\ pc = "reconnect_delay"
  /\ EndWait
  /\ Goto("pop")
  /\ UNCHANGED <<stationFrame, stationVars, link, wakeup>>
-----------------------------------------------------------------------------
(***************************************************************************)
(* The driver's station and its event handlers, registered for the session *)
(***************************************************************************)
driverFrame == <<requests, pc, request, backlog, stationVars, scanVars, apClients,
                 callVars, wakeup>>

\* ip_event_handler
GotIp ==
  /\ link = "connecting"
  /\ link' = "connected"
  /\ SetBits({"STA_CONNECTED"})
  /\ UNCHANGED driverFrame

\* The driver loses the network or gives the attempt up: the event is queued.
LinkDrops ==
  /\ link \in {"connecting", "connected"}
  /\ link' = "dropped"
  /\ UNCHANGED <<driverFrame, groupVars>>

\* wifi_event_handler, WIFI_EVENT_STA_DISCONNECTED
StationDisconnected ==
  /\ link = "dropped"
  /\ link' = "off"
  /\ SetBits({"STA_FAILED"})
  /\ UNCHANGED driverFrame
-----------------------------------------------------------------------------
(***************************************************************************)
(* ScannerTask                                                             *)
(***************************************************************************)
scanFrame == <<requests, request, backlog, stationVars, link, apClients, callVars>>

\* StartScan, which the driver may refuse.
ScanStart ==
  /\ pc = "scan_start"
  /\ \E label \in {"scan_poll", "scan_publish"} : Goto(label)
  /\ UNCHANGED <<scanFrame, groupVars, scanVars, wakeup>>

\* The records of the driver: the ssid, nothing of interest, or an error.
ScanPoll ==
  /\ pc = "scan_poll"
  /\ \/ /\ found' = TRUE
        /\ Goto("scan_publish")
     \/ /\ UNCHANGED found
        /\ \E label \in {"scan_wait", "scan_publish"} : Goto(label)
  /\ UNCHANGED <<scanFrame, groupVars, scanned, canceled, wakeup>>

\* The total time is looked at before the break bit.
ScanTimeOver ==
  /\ pc = "scan_wait"
  /\ EndWait
  /\ Goto("scan_publish")
  /\ UNCHANGED <<scanFrame, scanVars, wakeup>>

ScanWoken ==
  /\ pc = "scan_wait"
  /\ EndWait
  /\ canceled' = ("SCAN_BREAK" \in notified)
  /\ Goto(IF canceled' THEN "scan_publish" ELSE "scan_poll")
  /\ UNCHANGED <<scanFrame, scanned, found, wakeup>>

\* Mutant: nobody hears of the result.
ScanPublishSilently ==
  /\ pc = "scan_publish"
  /\ scanned' = IF found THEN scanned \cup {request.ssid} ELSE scanned
  /\ canceled' = FALSE
  /\ found' = FALSE
  /\ Goto("pop")
  /\ UNCHANGED <<scanFrame, groupVars, wakeup>>

\* AddScannedSsid, dropped without a free slot, or RemoveScannedSsid.
ScanPublish ==
  /\ pc = "scan_publish"
  /\ scanned' = IF ~found THEN scanned \ {request.ssid}
                ELSE IF Cardinality(scanned) < SsidLimit
                       THEN scanned \cup {request.ssid} ELSE scanned
  /\ wakeup' = (wakeup \/ ~canceled)
  /\ canceled' = FALSE
  /\ found' = FALSE
  /\ Goto("pop")
  /\ UNCHANGED <<scanFrame, groupVars>>
-----------------------------------------------------------------------------
(***************************************************************************)
(* AccessPointTask and its event handlers                                  *)
(***************************************************************************)
apFrame == <<requests, request, backlog, stationVars, link, scanVars, callVars>>

\* The driver may refuse the mode or the configuration.
ApStart ==
  /\ pc = "ap_start"
  /\ \E label \in {"ap_wait", "pop"} : Goto(label)
  /\ UNCHANGED <<apFrame, groupVars, apClients, wakeup>>

\* Mutant: a cancelled access point only listens to its break bit.
ApBroken == "AP_BREAK" \in notified

ApMustStop ==
  \/ "AP_BREAK" \in notified
  \/ (notified = {} /\ HasAnother(requests, request))

ApWoken ==
  /\ pc = "ap_wait"
  /\ EndWait
  /\ Goto(IF ApMustStop THEN "ap_stop" ELSE "ap_wait")
  /\ UNCHANGED <<apFrame, apClients, wakeup>>

ApStop ==
  /\ pc = "ap_stop"
  /\ Goto("pop")
  /\ UNCHANGED <<apFrame, groupVars, apClients, wakeup>>

Listed == {s \in Ssids : apClients[s] # {}}

\* Mutant: one client too many.
HasClientSlotLoose(ssid) ==
  /\ ssid \in Listed \/ Cardinality(Listed) < SsidLimit
  /\ Cardinality(apClients[ssid]) <= MaxClients

HasClientSlot(ssid) ==
  /\ ssid \in Listed \/ Cardinality(Listed) < SsidLimit
  /\ Cardinality(apClients[ssid]) < MaxClients

\* ap_connect_wifi_event_handler for a client the mask accepts.  A beacon
\* lets nobody in (max_connection is 0).
ApClientJoins(mac) ==
  /\ pc \in ApSession
  /\ request.secure
  /\ apClients' = IF HasClientSlot(request.ssid)
                    THEN [apClients EXCEPT ![request.ssid] = @ \cup {mac}] ELSE apClients
  /\ wakeup' = TRUE
  /\ UNCHANGED <<apFrame, groupVars, pc>>

\* ap_disconnect_wifi_event_handler
ApClientLeaves(mac) ==
  /\ pc \in ApSession
  /\ request.secure
  /\ apClients' = [apClients EXCEPT ![request.ssid] = @ \ {mac}]
  /\ wakeup' = TRUE
  /\ UNCHANGED <<apFrame, groupVars, pc>>
-----------------------------------------------------------------------------
StartCall ==
  \/ \E c \in Callers, item \in RequestItems : Request(c, item)
  \/ \E item \in ProgramRequests : Cancel(item)
  \/ ChangeSettings

FinishCall(c) ==
  /\ c = "ladder" \/ IdlePriorityRuns
  /\ \/ ClearBreakFlags(c)
     \/ RaiseBits(c)
     \/ (c = "ladder" /\ Forget)

StationStep ==
  \/ StationStart \/ NoCredsWoken \/ StationCancel \/ StationFail \/ StationServe
  \/ MinWorktimeOver \/ MinWorktimeEvent \/ StationStop \/ StationUnregister
  \/ StationSettled \/ ReconnectDelayOver

ScannerStep == ScanStart \/ ScanPoll \/ ScanTimeOver \/ ScanWoken \/ ScanPublish

AccessPointStep == ApStart \/ ApWoken \/ ApStop

WiFiTask ==
  /\ IdlePriorityRuns
  /\ PopRequest \/ EnterWait \/ StationStep \/ ScannerStep \/ AccessPointStep

DriverEvent ==
  \/ GotIp \/ LinkDrops \/ StationDisconnected
  \/ \E mac \in Macs : ApClientJoins(mac) \/ ApClientLeaves(mac)

Progress ==
  \/ \E c \in Callers : FinishCall(c)
  \/ ProcessTaskWakes
  \/ WiFiTask
  \/ Timeout
  \/ DriverEvent

Next == StartCall \/ Progress

Spec == Init /\ [][Next]_vars

\* A call that is under way ends, wifi_task runs, its waits time out, a scan
\* runs out of time, and the driver ends every attempt to connect.
Fairness ==
  /\ \A c \in Callers : WF_vars(FinishCall(c))
  /\ WF_vars(WiFiTask)
  /\ WF_vars(Timeout)
  /\ SF_vars(WiFiTask /\ ScanTimeOver)
  /\ WF_vars(link = "connecting" /\ (GotIp \/ LinkDrops))
  /\ WF_vars(StationDisconnected)
-----------------------------------------------------------------------------
(***************************************************************************)
(* Properties                                                              *)
(***************************************************************************)
CallStates ==
  [step : {"idle", "clear", "forget", "raise"}, item : RequestItems, bits : SUBSET Bits]

Typed ==
  /\ events \subseteq Bits /\ notified \subseteq Bits /\ wait \in WaitStates
  /\ requests \in Seq(RequestItems)
  /\ pc \in Labels
  /\ request \in RequestItems /\ backlog \subseteq RequestItems
  /\ hasConnect \in BOOLEAN /\ failed \in BOOLEAN /\ httpServer \in BOOLEAN
  /\ failures \in 0..MaxFailures /\ stationRssi \in {0, 1}
  /\ link \in {"off", "connecting", "connected", "dropped"}
  /\ scanned \subseteq Ssids /\ canceled \in BOOLEAN /\ found \in BOOLEAN
  /\ apClients \in [Ssids -> SUBSET Macs]
  /\ ssidSaved \in BOOLEAN /\ wakeup \in BOOLEAN
  /\ call \in [Callers -> CallStates]

TablesWithinLimits ==
  /\ Cardinality(scanned) <= SsidLimit
  /\ Cardinality(Listed) <= SsidLimit
  /\ \A s \in Ssids : Cardinality(apClients[s]) <= MaxClients

\* Every variable has its type; the scan table and the list of access point
\* clients never overrun their arrays, and the queue holds no duplicate.
TypeOK ==
  /\ Typed
  /\ WellFormedQueue(requests)
  /\ TablesWithinLimits

\* Some bit is in the group, or a caller has yet to set one.
BitPending ==
  \/ events # {}
  \/ \E c \in Callers : call[c].step \in {"clear", "raise"}

\* A wait without a timeout, which StationTask does when no ssid is saved, is
\* never left with work it does not know of: a request queued after the task
\* took its last one, or new station settings, always have a bit under way,
\* though ClearBreakFlags of one caller takes the bits another one has set.
NoLostWakeup ==
  (/\ pc = "no_creds" /\ wait # "returned"
   /\ ssidSaved \/ \E item \in ToSet(requests) : item \notin backlog)
    => BitPending

\* The bits wifi_task has, in the group or from its last wait.
VisibleBits == events \cup (IF wait = "returned" THEN notified ELSE {})

\* A station session never acts on the events of an earlier one: once the
\* wait that follows the unregistering of the handlers is over, no STA_FAILED
\* and no STA_CONNECTED is left, whatever the callers do to the group.
NoStaleStationEvents ==
  pc \notin StationSession \cup {"settle"} => VisibleBits \cap StationEvents = {}

\* The web server runs only between a connection and the end of the session.
WebServerInSession ==
  httpServer => /\ pc \in {"station_wait", "min_worktime", "station_stop"}
                /\ pc = "station_wait" => hasConnect
=============================================================================
