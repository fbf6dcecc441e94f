SPECIFICATION FairSpec
CONSTANTS
  m1 = m1 m2 = m2 e1 = e1
  Consumers = {c1, c2}
  Messages = {m1, m2}
  Events = {e1}
  Event <- Sent
  MaxBatch = 2
  MaxAttempts = 2
  MaxFaults = 2
INVARIANTS OneWorker AppliedOnce AckedIsKnown
PROPERTIES SucceededFinal EveryMessageLeaves
