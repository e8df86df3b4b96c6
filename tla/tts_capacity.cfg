\* A session with three requests, one of which needs a batch of its own, next to
\* another session: capacity and order, whatever callers leave, requests expire and
\* batches fail.
SPECIFICATION Spec
CONSTANTS
  Callers = {1, 2, 3, 4}
  SessionOf <- OneAndThree
  High = {}
  Quantum = 2
  AgingBoost = 4
  KeyOf <- TwoKeys
  MaxBatch = 2
  Coalesce = TRUE
  GlobalLimit = 3
  SessionLimit = 2
  LastAge = 3
  Brisk = FALSE
  MayDisconnect = {1, 2, 3}
  MayFail = TRUE
  MayClose = FALSE
INVARIANTS TypeOK CapacityIsExact
PROPERTIES FifoPerSession
\* Nobody has to submit anything.
CHECK_DEADLOCK FALSE
