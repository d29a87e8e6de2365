CONSTANTS
  Program <- TimersProgram
  InitialModes = {"Run"}
  Disabled = {}
  AnalogValues = {0}
  Commands = {"Run", "Stop"}
  Switchable = {}
  Ids <- MCIds
  AddressOf <- MCAddressOf
  Millisecond = 1
  TickMs = 2
  DeadBand = 3
  MaxValue = 1
  DigitalOutputs = {"O1"}
  Variables = {"V1"}
  UpdatePeriod = 6
  ScanPeriod = 2
  PassTimes = {1, 3}
SPECIFICATION Spec
INVARIANTS TypeOK OnTime StopReleases
PROPERTY NeverEarly
