\* A list older than the time to live is answered.
SPECIFICATION Spec
CHECK_DEADLOCK FALSE
SYMMETRY Interchangeable
CONSTRAINT OneKey
CONSTANTS
  None = None
  List = "list"
  Actions = {"act"}
  Lookups = {l1, l2, l3}
  TTL = 1
  MaxTime = 1
  MaxVersion = 2
INVARIANTS NoAnswerIsOld
