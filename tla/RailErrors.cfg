\* What docs/gate-authority-transport.md says of the errors of a dispatch.
SPECIFICATION Spec
CHECK_DEADLOCK FALSE
CONSTANTS
  None = None
  Gate = "gate"
  Node = "worker"
  Actions = {"act"}
  AnyAction = "*"
  Admission = "gate.admission"
  Setups <- MCSetups
  Elsewhere <- MCElsewhere
  Results <- MCResults
  Size <- MCSize
  Skew = 1
  MaxBytes = 3
  MaxHops = 1
  MaxLinks = 1
  Attachable = {}
  MaxTime = 0
  LastArrival = 9
  MaxFaults = 1
INVARIANT DispatchErrorsTyped
