CONSTANTS
  User = {u1}
  Session = {}
  Name <- MCName
  SystemMailboxes <- MCSystemMailboxes
  Sizes = {1}
  Quotas = {0}
  ArchiveLimit = 0
  MaxMailboxes = 5
  MaxMessages = 3
  MaxEntries = 2
  MaxUid = 3
  MaxMade = 3
SPECIFICATION CacheSpec
CHECK_DEADLOCK FALSE
INVARIANT
  SystemCacheSound
