CONSTANTS
  Message = {m1}
  Recipient = {r1}
  MaxAttempts = 12
  BatchSize = 1
  MaxOverdue = 0
  MaxFaults = 0
  Horizon = 337
SPECIFICATION RetrySpec
INVARIANT
  SevenDays
