CONSTANTS
  m0 = m0
  m1 = m1
  m2 = m2
  Root = m0
  Devices = {m0, m1}
  Members = {}
  Commands <- BothRead
  MaxCommits = 3
  MaxIds = 2
  MaxUpdates = 1
  PageSize = 1
  MaxRetries = 2
  MaxRestores = 1
  MaxFaults = 1
SPECIFICATION Spec
INVARIANT StateSound
PROPERTY TrustOnlyGrows
