\* The default depth, and nothing that disturbs the turns.
CONSTANTS
  Units = 3
  Depth = 3
  MaxTurns = 5
  MaxInterrupts = 0
  MaxHolds = 0
  MaxFailures = 0
  MaxSays = 0
  MaxQuestions = 0
SPECIFICATION Spec
PROPERTY UnitsInOrder
\* The script comes to its end.
CHECK_DEADLOCK FALSE
