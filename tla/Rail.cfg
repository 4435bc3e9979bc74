\* One call from end to end, under every setup.  A call ends.
SPECIFICATION FairSpec
CHECK_DEADLOCK FALSE
CONSTANTS
  None = None
  Gate = "gate"
  Node = "worker"
  Actions = {"act"}
  AnyAction = "*"
  Admission = "gate.admission"
  Setups <- MCSetups
  Elsewhere <- MCElsewhere
  Results <- MCResults
  Size <- MCSize
  Skew = 1
  MaxBytes = 3
  MaxHops = 1
  MaxLinks = 1
  Attachable = {}
  MaxTime = 0
  LastArrival = 9
  MaxFaults = 1
INVARIANTS TypeOK ResultIsTheWorkers ExecutesTheCall AgreedDispatchRuns FailsForCause WorkEndsWithTheCall ReceiptIsGates
PROPERTIES KeepsContract WaitsEnd
