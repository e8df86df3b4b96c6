\* With two batch keys in a round, a caller of the later group leaves meanwhile.
SPECIFICATION Spec
CONSTANTS
  Callers = {1, 2, 3, 4}
  SessionOf <- OneAndThree
  High = {4}
  Quantum = 1
  AgingBoost = 2
  KeyOf <- TwoKeys
  MaxBatch = 2
  Coalesce = TRUE
  GlobalLimit = 3
  SessionLimit = 2
  LastAge = 1
  Brisk = FALSE
  MayDisconnect = {1, 2, 3}
  MayFail = TRUE
  MayClose = FALSE
INVARIANTS DispatcherSurvives
\* Nobody has to submit anything.
CHECK_DEADLOCK FALSE
