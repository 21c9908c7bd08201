CONSTANTS
  m0 = m0
  m1 = m1
  m2 = m2
  Root = m0
  Devices = {m0, m1, m2}
  Members = {m1, m2}
  Commands <- MembersWrite
  MaxCommits = 2
  MaxIds = 2
  MaxUpdates = 2
  PageSize = 2
  MaxRetries = 2
  MaxRestores = 0
  MaxFaults = 0
SYMMETRY MemberSymmetry
SPECIFICATION RevokeSpec
INVARIANT NoLostUpdate
INVARIANT RevocationCutsOff
INVARIANT FalseAlarmsExplained
