CONSTANTS
  Domain = {"home", "second"}
  MailAddress = {"postmaster", "owner", "other"}
  DomainOf <- MCDomainOf
  RoleAddress = {"postmaster"}
  Process = {"p1", "p2"}
  NoAddress = "nobody"
  MaxRcpts = 2
  Configured = {"web", "redirect", "smtp", "submission", "imap", "imaps"}
  Backups = {b1, b2}
  Destination = {d1, d2}
  MaxVersion = 2
SPECIFICATION MCSpec
CHECK_DEADLOCK FALSE
INVARIANTS
  OneSetup
  RolesReached
  Provenance
PROPERTIES
  FailureStops
  PublishedOnce
