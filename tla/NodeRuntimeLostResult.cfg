\* A packet expires while its handler runs: no answer can be derived.
SPECIFICATION Spec
CONSTANTS
  None = None
  Gate = "gate"
  Size <- MCSize
  Skew = 1
  MaxBytes = 2
  MaxHops = 1
  MaxLinks = 1
  Attachable = {}
  Node = "worker"
  Requests = {r1}
  Actions = {"act"}
  AnyAction = "*"
  HandlerKinds = {"async"}
  Configs <- OneConfig
  Inbound <- ExpiringInbound
  Elsewhere = {}
  Results <- MCResults
  Raised = {}
  MaxTime = 3
  LastArrival = 2
INVARIANTS ExecutedIsAnswered
