CONSTANTS
  c1 = c1
  c2 = c2
  c3 = c3
  a1 = a1
  a2 = a2
  k1 = k1
  k2 = k2
  Conn = {c1, c2, c3}
  Address = {a1, a2}
  AddressOf <- MCAddressOf
  Key = {k1, k2}
  KeyOf <- MCKeyOf
  Closer = {g1, g2}
  GlobalMax = 2
  PerIPMax = 1
  GuardGlobalMax = 1
  GuardPerIPMax = 1
  MaxLine = 3
  MaxPreAuthLiteral = 4
  MaxPreAuthCommand = 12
  MaxAuthenticatedLit = 6
  LiteralSizes = {0, 1, 4, 5, 6, 7}
SPECIFICATION MCSpec
CHECK_DEADLOCK FALSE
INVARIANTS
  LiftedByLogin
  CommandBounded
PROPERTIES
  LimitKept
  GuardLimitKept
  PlacesComeBack
