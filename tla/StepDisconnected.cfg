\* A connection that breaks.
SPECIFICATION Spec
CHECK_DEADLOCK FALSE
CONSTANTS
  None = None
  Gate = "gate"
  Node = "orch"
  Steps = 2
  Setups <- OneSetup
  Size <- MCSize
  Skew = 1
  MaxBytes = 1
  MaxHops = 1
  MaxLinks = 1
  Attachable = {}
  Admission = "gate.admission"
  MaxTime = 1
INVARIANTS DisconnectedMeansNotRun
