CONSTANTS
  Ids = {e1}
  SecretIds = {e1}
  MaxTag = 3
  Procs = {p1, p2}
  Editors = TRUE
  Schema = 3
  Stamps = {1}
  MaxFaults = 1
  MaxReceipts = 2
  NoProc = NoProc
SPECIFICATION Spec
SYMMETRY ProcSymmetry
INVARIANT ProjectedVaultWhole
INVARIANT FinishedRemembered
INVARIANT ProjectedSecretsComplete
PROPERTY ImplementsAtomicVault
