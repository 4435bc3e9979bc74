\* Every setting, with three faults of Gate, the network or the process.
SPECIFICATION FairSpec
CONSTANTS
  Options <- AllOptions
  Retries = 2
  CounterCap = 3
  MaxFaults = 3
INVARIANTS TypeOK ReadyCoherent ReadyMeansAccepted
PROPERTIES LeavesActiveForCause DecisionsAreFinal KeepsContract Recovers
