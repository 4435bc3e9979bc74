\* Authentication: one request at a time against every signature profile.
SPECIFICATION Spec
CONSTANTS
  None = None
  Gate = "gate"
  Size <- MCSize
  Skew = 1
  MaxBytes = 2
  MaxHops = 1
  MaxLinks = 1
  Attachable = {}
  Node = "worker"
  Requests = {r1}
  Actions = {"act"}
  AnyAction = "*"
  HandlerKinds = {"async"}
  Configs <- AuthConfigs
  Inbound <- AuthInbound
  Elsewhere = {}
  Results <- OneResult
  Raised = {}
  MaxTime = 1
  LastArrival = 0
INVARIANTS AuthenticatedExecution
