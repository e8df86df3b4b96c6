\* An interrupt comes while the loop waits for the decision lock.
CONSTANTS
  Units = 2
  Depth = 2
  MaxTurns = 3
  MaxInterrupts = 1
  MaxHolds = 0
  MaxFailures = 0
  MaxSays = 0
  MaxQuestions = 0
SPECIFICATION Spec
INVARIANT PlaybackSurvives
\* The script comes to its end.
CHECK_DEADLOCK FALSE
