\* Two slots for three HIGH requests that never pause, one of which needs a batch of its
\* own, and a NORMAL one, all with deadlines; its caller may leave, the provider fails and
\* the service may close.
SPECIFICATION FairSpec
CONSTANTS
  Callers = {1, 2, 3, 4}
  SessionOf <- OneEach
  High = {1, 2, 3}
  Quantum = 1
  AgingBoost = 2
  KeyOf <- TwoKeys
  MaxBatch = 2
  Coalesce = TRUE
  GlobalLimit = 4
  SessionLimit = 2
  LastAge = 3
  Brisk = TRUE
  MayDisconnect = {4}
  MayFail = TRUE
  MayClose = TRUE
INVARIANTS NormalMeetsDeadline
PROPERTIES EveryCallerIsAnswered
\* Nobody has to submit anything.
CHECK_DEADLOCK FALSE
