\* Two senders and three rows of one identity, one of which is refused; a sender
\* may stop or lose a lease, and leave a late copy on the way.
SPECIFICATION FairSpec
CONSTANTS
  a1 = a1
  a2 = a2
  Facts = {1, 2, 3}
  Lifecycle = {1, 2, 3}
  Verdict <- ThreeVerdicts
  Senders = {a1, a2}
  NoSender = NoSender
  NoFact = NoFact
  Batch = 2
  MaxFaults = 1
INVARIANTS TypeOK AcceptedInOrder DeliveredWasAccepted
PROPERTIES OutcomeIsFinal EveryRowSettles
\* Every row may be purged in the end.
CHECK_DEADLOCK FALSE
