CONSTANTS
  User = {u1}
  Session = {s1}
  Name <- MCName
  SystemMailboxes <- MCSystemMailboxes
  Sizes = {1}
  Quotas = {0}
  ArchiveLimit = 0
  MaxMailboxes = 5
  MaxMessages = 1
  MaxEntries = 2
  MaxUid = 2
  MaxMade = 5
SPECIFICATION Spec
SYMMETRY Symmetry
CHECK_DEADLOCK FALSE
INVARIANTS
  TypeOK
  Referential
  SystemMailboxesStay
  ValiditiesDistinct
PROPERTIES
  RetainedStay
