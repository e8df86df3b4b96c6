\* A write or its reply is lost, or the process restarts, and a lease runs out under a task.
CONSTANTS
  start = start
  hold = hold
  resume = resume
  cut = cut
  end = end
  stop = stop
  r1 = r1
  Commands = {start, hold, resume, end}
  CommandOf <- LifeCommands
  Requests = {r1}
  Closer = closer
  Recorder = recorder
  Free = free
  ClosingAttempts = 2
  Reports <- SickLife
  MaxFaults = 1
  MaxLosses = 1
SPECIFICATION Spec
INVARIANTS TypeOK OneEffectPerCommand EndIsSilent
PROPERTIES FaultIsKept ClosingEnds ImplementsLifecycle
CHECK_DEADLOCK FALSE
