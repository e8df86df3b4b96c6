SPECIFICATION Spec
CONSTANTS
  e1 = e1
  e2 = e2
  h1 = h1
  s1 = s1
  Events = {e1, e2}
  Poison = {e2}
  Handlers = {h1}
  Stops = {s1}
  Free = free
  NoEntry = noentry
  Size = 2
  MaxCopies = 3
  MaxAttaches = 2
  MaxMishaps = 1
INVARIANTS TypeOK FedOnce RoutedIsRecorded
PROPERTIES RoutedSettles HealthyGetThrough
\* A session may be stopped for good.
CHECK_DEADLOCK FALSE
