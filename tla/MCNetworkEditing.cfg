SPECIFICATION Spec
CONSTANTS
  Inputs <- MCInputs
  Outputs <- MCOutputs
  Room = 4
INVARIANTS TypeOK EndsClean EndsInPlace
PROPERTY OpensAsItIs
