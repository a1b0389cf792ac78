CONSTANTS
  Message = {m1}
  Recipient = {r1}
  MaxAttempts = 12
  BatchSize = 1
  MaxOverdue = 0
  MaxFaults = 1
  Horizon = 241
  IP = {i1, i2}
  Account = {a1, a2}
  MaxFailures = 3
  Window = 2
  Block = 2
  MaxEntries = 3
  SweepEvery = 2
  MaxIPAttempts = 2
  IPWindow = 2
  IPBlock = 2
  MaxVerifying = 2
  Client = {i1, i2}
  WebAccount = {w1, w2}
  WebRequest = {q1, q2}
  SetupLimit = 1
  SetupWindow = 4
  ClientLimit = 2
  AccountLimit = 2
  LoginWindow = 3
  MaxKeys = 2
SPECIFICATION MCSpec
SYMMETRY MCSymmetry
INVARIANTS
  GiveUpWindow
  GuessingBounded
  WebGuessesBounded
PROPERTIES
  AttemptsSpaced
  StaleSwept
