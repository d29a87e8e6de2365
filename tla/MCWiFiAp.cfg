\* An access point, a beacon, a scan and the clock of the datetime task share the
\* radio, and no station is saved.
SPECIFICATION DemandSpec
CONSTANTS
  s1 = s1
  s2 = s2
  Ssids = {s1, s2}
  NoSsid = NoSsid
  RequestsLimit = 2
  Macs = {m1, m2}
  SsidLimit = 1
  MaxClients = 1
  MaxFailures = 1
  ProgramRequests <- ApBeaconAndScan
  SntpEnabled = TRUE
  SavedSsid = {FALSE}
  MaxCalls = 3
INVARIANTS TypeOK SlotsAreWanted
PROPERTIES CancelledAccessPointStops QueuedIsServed
CHECK_DEADLOCK FALSE
