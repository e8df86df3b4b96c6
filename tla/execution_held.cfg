\* A hold whose reply is lost after its write landed.
CONSTANTS
  start = start
  hold = hold
  resume = resume
  cut = cut
  end = end
  stop = stop
  r1 = r1
  Commands = {start, hold, cut}
  CommandOf <- HeldCommands
  Requests = {r1}
  Closer = closer
  Recorder = recorder
  Free = free
  ClosingAttempts = 1
  Reports <- SickLife
  MaxFaults = 1
  MaxLosses = 0
SPECIFICATION Spec
PROPERTIES HeldIsSilent
CHECK_DEADLOCK FALSE
