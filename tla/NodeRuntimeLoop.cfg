\* The event loop: two concurrent requests, handlers that suspend and handlers that do not.
SPECIFICATION FairSpec
CONSTANTS
  None = None
  Gate = "gate"
  Size <- MCSize
  Skew = 1
  MaxBytes = 2
  MaxHops = 1
  MaxLinks = 1
  Attachable = {}
  Node = "worker"
  Requests = {r1, r2}
  Actions = {"act"}
  AnyAction = "*"
  HandlerKinds = {"async", "cleanup", "sync"}
  Configs <- PlainConfig
  Inbound <- SignedOnly
  Elsewhere = {}
  Results = {}
  Raised = {}
  MaxTime = 2
  LastArrival = 1
INVARIANTS LateOnlyBehindSync
PROPERTIES EveryRequestAnswered
