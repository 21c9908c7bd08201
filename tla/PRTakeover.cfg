CONSTANTS
  s1 = s1
  s2 = s2
  c1 = c1
  c2 = c2
  r1 = r1
  r2 = r2
  MasterScopes = {s1}
  Contents = {c1, c2}
  Runs = {r1, r2}
  MaxBundles = 2
  Bundles = {1, 2}
  Scopes = {s1, s2}
  MaxPlans = 2
  MaxFaults = 4
SYMMETRY MasterSymmetry
SPECIFICATION SystemSpec
CHECK_DEADLOCK FALSE
INVARIANT InvitedRecoverable
INVARIANT MigratedFromBackup
INVARIANT RecoveryRootWhole
INVARIANT OneAuthority
PROPERTY TakeoverCompletes
