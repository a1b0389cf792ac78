CONSTANTS
  Message = {m1}
  Recipient = {r1}
  MaxAttempts = 2
  BatchSize = 1
  MaxOverdue = 1
  MaxFaults = 1
SPECIFICATION Spec
INVARIANT
  AttemptsBounded
