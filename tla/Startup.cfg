\* The usual input and the families around it; int32 is 18 bits wide, so
\* that numbers outside it are still numbers for TLC.
SPECIFICATION Spec
CONSTANTS
  HalfInt32 = 131072
  Inputs <- MCInputs
  EphemeralPorts = {32768, 60999}
INVARIANTS
  StartupTypeOK StartsIffValid NodeAsAsked PortsAgree OneAPIServer
PROPERTIES StartsLife
CHECK_DEADLOCK FALSE
