CONSTANTS
  d1 = d1
  Devices = {d1}
  Requests = {1, 2}
  Author <- AuthorOf
  Name <- NameOf
  QueueLimit = 1
  MaxFaults = 1
SPECIFICATION FairSpec
CHECK_DEADLOCK FALSE
INVARIANT ImportsWhole
PROPERTY RevokedNotImported
PROPERTY ProposalsKept
PROPERTY InboxDrains
