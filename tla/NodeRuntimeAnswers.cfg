\* Answers: every date, rule and outcome of a handler, under five profiles.
SPECIFICATION Spec
CONSTANTS
  None = None
  Gate = "gate"
  Size <- MCSize
  Skew = 1
  MaxBytes = 2
  MaxHops = 1
  MaxLinks = 1
  Attachable = {}
  Node = "worker"
  Requests = {r1}
  Actions = {"act", "keyed", "unknown"}
  AnyAction = "*"
  HandlerKinds = {"async"}
  Configs <- AnswerConfigs
  Inbound <- AnswerInbound
  Elsewhere <- MCElsewhere
  Results <- MCResults
  Raised = {"TimeoutError", "ValueError", "RuntimeError"}
  MaxTime = 3
  LastArrival = 2
INVARIANTS TypeOK ProcessingTraceValid AnswersAccepted HttpOnlyWhenNoPacketCanBe
