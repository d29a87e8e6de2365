\* A station binding, a scan and the clock of the datetime task while the
\* station of a saved ssid, which comes and goes, connects, serves and fails.
SPECIFICATION DemandSpec
CONSTANTS
  s1 = s1
  s2 = s2
  Ssids = {s1}
  NoSsid = NoSsid
  RequestsLimit = 2
  Macs = {}
  SsidLimit = 1
  MaxClients = 1
  MaxFailures = 1
  ProgramRequests <- StationAndScan
  SntpEnabled = TRUE
  SavedSsid = {TRUE, FALSE}
  MaxCalls = 2
INVARIANTS NoLostWakeup NoStaleStationEvents WebServerInSession
PROPERTIES QueuedIsServed WebServerGoesDown
CHECK_DEADLOCK FALSE
