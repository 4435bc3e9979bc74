\* Two steps of two attempts, under every setup.  A workflow ends.
SPECIFICATION FairSpec
CHECK_DEADLOCK FALSE
CONSTANTS
  None = None
  Gate = "gate"
  Node = "orch"
  Steps = 2
  Setups <- AllSetups
  Size <- MCSize
  Skew = 1
  MaxBytes = 1
  MaxHops = 1
  MaxLinks = 1
  Attachable = {}
  Admission = "gate.admission"
  MaxTime = 1
INVARIANTS TypeOK ResultsAreRuns NothingRunsTwice UnsentOnlyForCause
PROPERTIES RepeatedForCause KeepsContract WorkflowEnds
