SPECIFICATION Spec
CONSTANTS
  Inputs <- MCInputs
  Outputs <- MCOutputs
  Room = 4
INVARIANT OutputEndsChain
