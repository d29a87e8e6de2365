\* One write of an operation may fail; no restarts.
SPECIFICATION Spec
CONSTANTS
  v1 = v1
  v2 = v2
  v3 = v3
  Values <- Contents
  Nothing = Nothing
  NoFile = NoFile
  Broken = Broken
  StoreBeforeLoad = TRUE
  Restarts = FALSE
  WriteErrors = 1
PROPERTY StoredSomewhere
