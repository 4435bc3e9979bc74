\* Three lookups of the list and of an action, two versions.  The clock ends.
SPECIFICATION Spec
CHECK_DEADLOCK FALSE
SYMMETRY Interchangeable
CONSTRAINT OneKey
CONSTANTS
  None = None
  List = "list"
  Actions = {"act"}
  Lookups = {l1, l2, l3}
  TTL = 1
  MaxTime = 1
  MaxVersion = 2
INVARIANTS TypeOK EntriesAreBounded AnswersAreBounded ForcedIsFresh InvalidationHolds
