\* A failure and one lost lock among the tasks; a fact refused twice is left to an operator.
CONSTANTS
  Watcher = watcher
  Monitor = monitor
  Api = api
  Free = free
  NoSession = nosession
  NoRecord = norecord
  MaxCleanups = 2
  UnstageableAfter = 2
  MaxFaults = 1
  MaxLosses = 1
SPECIFICATION Spec
INVARIANTS TypeOK RecordBeforeDelete FactIsNotLost CleanupIsTrue
PROPERTIES OnlySpentLeasesEnd RecordIsCurrent ControlLostSettles MediaIsReleased
\* The session goes in the end.
CHECK_DEADLOCK FALSE
