CONSTANTS
  Ids = {1, 2, 3}
  AddressOf <- MCAddressOf
  Millisecond = 2
  TickMs = 4
  DeadBand = 4
  Delays = {0, 5, 9, 14}
  MaxOverdue = 3
SPECIFICATION Spec
INVARIANTS WellFormed NeverOversleeps NeverSpins
PROPERTY IsAlarmClock
