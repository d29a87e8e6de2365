CONSTANTS
  Program <- FlowProgram
  InitialModes = {"Run"}
  Disabled = {4}
  AnalogValues = {0, 2}
  Commands = {"Stop", "Debug"}
  Switchable = {4}
  Ids <- MCIds
  AddressOf <- MCAddressOf
  Millisecond = 1
  TickMs = 2
  DeadBand = 3
  MaxValue = 2
  DigitalOutputs = {"O1"}
  Variables = {"V1"}
  UpdatePeriod = 6
  ScanPeriod = 3
  PassTimes = {2}
SPECIFICATION Spec
INVARIANTS Settled PowerFlows PollsOn
