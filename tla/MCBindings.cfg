SPECIFICATION BindingsSpec
CONSTANTS
  s1 = s1
  s2 = s2
  Ssids = {s1, s2}
  NoSsid = NoSsid
  RequestsLimit = 5
  Macs = {}
  SsidLimit = 2
  MaxClients = 1
  MaxFailures = 1
  ProgramRequests <- SharedVariableRequests
  SntpEnabled = FALSE
  SavedSsid = {FALSE}
  Variables <- MCVariables
  Program <- SharedVariable
  Switches = {"I1", "I2"}
  Edits <- MCEdits
  MaxEdits = 1
  Modes = {"Run", "Stop"}
INVARIANTS BindingsTypeOK BoundByActive QueuedIsBound ScanGoesOn
