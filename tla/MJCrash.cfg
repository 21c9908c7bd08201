CONSTANTS
  Ids = {e1, e2}
  SecretIds = {e1}
  MaxTag = 2
  Procs = {p1}
  Editors = FALSE
  Schema = 2
  Stamps = {1, 2}
  MaxFaults = 2
  MaxReceipts = 2
  NoProc = NoProc
SPECIFICATION FairSpec
INVARIANT WriteAhead
INVARIANT OpenRecordsDecidable
PROPERTY RecoveryCompletes
