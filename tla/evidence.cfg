\* A handler that may commit two facts at once, a sweeper and Stop, with one fault; a
\* blocked fact may be given up.
SPECIFICATION FairSpec
CONSTANTS
  r1 = r1
  s1 = s1
  s2 = s2
  Facts = {1, 2, 3}
  Requesters = {r1}
  Sweepers = {s1}
  Stoppers = {s2}
  Requests <- MixedRequests
  Nobody = Nobody
  Dead = Dead
  NoMeta = NoMeta
  MayGiveUp = TRUE
  MaxPending = 3
  MaxAttempts = 4
  MaxFaults = 1
INVARIANTS TypeOK ReportedWasCommitted NothingLost CommittedNotDiscarded
PROPERTIES ImplementsLedger EveryFactIsReported KeptRecordIsReleased
\* The system may rest: every fact is reported, or the staging calls are used up.
CHECK_DEADLOCK FALSE
