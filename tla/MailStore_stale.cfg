CONSTANTS
  User = {u1}
  Session = {s1, s2}
  Name <- MCName
  SystemMailboxes <- MCSystemMailboxes
  Sizes = {1}
  Quotas = {0}
  ArchiveLimit = 0
  MaxMailboxes = 4
  MaxMessages = 1
  MaxEntries = 2
  MaxUid = 3
  MaxMade = 3
SPECIFICATION Spec
SYMMETRY Symmetry
CHECK_DEADLOCK FALSE
INVARIANT
  UidsDistinct
PROPERTIES
  UidsAscend
  MoveConserves
  ExpungedStay
