SPECIFICATION Spec
CONSTANTS
  a = a
  Logics <- MCLogics
  Uploads <- MCUploads
  MaxNetworksCount = 3
  BadModes = {"Run"}
  Commands = {"Stop", "Run", "Debug"}
  MaxCommands = 2
  MaxRestarts = 1
CONSTRAINT FewNetworks
INVARIANTS TypeOK OneEdited EditedIsShown FileLoads SavedOrExplained DebugIsAsked EditingAllowed
