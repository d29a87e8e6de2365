CONSTANTS
  Program <- UnsettledProgram
  InitialModes = {"Run"}
  Disabled = {}
  AnalogValues = {0}
  Commands = {}
  Switchable = {}
  Ids <- MCIds
  AddressOf <- MCAddressOf
  Millisecond = 1
  TickMs = 2
  DeadBand = 3
  MaxValue = 2
  DigitalOutputs = {"O1"}
  Variables = {"V1"}
  UpdatePeriod = 12
  ScanPeriod = 12
  PassTimes = {1, 3}
SPECIFICATION FairSpec
PROPERTY Yields
