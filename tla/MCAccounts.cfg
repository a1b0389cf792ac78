CONSTANTS
  User = {u1, u2}
  Token = {t1, t2, t3}
  AppPassword = {a1}
  Request = {r1, r2}
  Connection = {c1}
  None = None
  MaxSessions = 2
  MaxVersion = 3
SPECIFICATION MCSpec
SYMMETRY Symmetry
INVARIANTS
  AdministratorRemains
  SessionsCurrent
  SessionsBounded
  CredentialsCurrent
PROPERTIES
  SessionsStay
  CommandsAuthorised
