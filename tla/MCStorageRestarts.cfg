\* Restarts at every step; every boot loads first.
SPECIFICATION Spec
CONSTANTS
  v1 = v1
  v2 = v2
  v3 = v3
  Values <- Contents
  Nothing = Nothing
  NoFile = NoFile
  Broken = Broken
  StoreBeforeLoad = FALSE
  Restarts = TRUE
  WriteErrors = 0
INVARIANTS TypeOK NeverLost
PROPERTY KeepsPromise
