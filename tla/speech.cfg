\* Two parts of the script, and one of everything that can come in between.
CONSTANTS
  Units = 2
  Depth = 2
  MaxTurns = 3
  MaxInterrupts = 1
  MaxHolds = 1
  MaxFailures = 1
  MaxSays = 1
  MaxQuestions = 1
SPECIFICATION Spec
INVARIANTS TypeOK InterruptSilences CursorIsTrue
PROPERTIES TurnsSettle
\* The script comes to its end.
CHECK_DEADLOCK FALSE
