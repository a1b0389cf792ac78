CONSTANTS
  m1 = m1
  m2 = m2
  r1 = r1
  r2 = r2
  Message = {m1, m2}
  Recipient = {r1, r2}
  MaxAttempts = 2
  BatchSize = 2
  MaxOverdue = 1
  MaxFaults = 2
SPECIFICATION MCSpec
INVARIANTS
  TransportCurrent
  DuplicatesAccounted
  AttemptsAccounted
PROPERTIES
  PromiseKept
  EverySettles
