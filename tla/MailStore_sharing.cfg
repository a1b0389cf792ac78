CONSTANTS
  User = {u1, u2}
  Session = {s1}
  Name <- MCName
  SystemMailboxes <- MCSystemMailboxes
  Sizes = {1}
  Quotas = {1, 2}
  ArchiveLimit = 1
  MaxMailboxes = 4
  MaxMessages = 2
  MaxEntries = 3
  MaxUid = 2
  MaxMade = 3
SPECIFICATION Spec
SYMMETRY Symmetry
CHECK_DEADLOCK FALSE
INVARIANTS
  DraftsArePrivate
  
PROPERTIES
  OwnEntriesOnly
  QuotaBoundsGrowth
