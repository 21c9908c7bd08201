CONSTANTS
  m0 = m0
  m1 = m1
  m2 = m2
  Root = m0
  Devices = {m0, m1}
  Members = {m1}
  Commands <- BothWrite
  MaxCommits = 1
  MaxIds = 1
  MaxUpdates = 1
  PageSize = 1
  MaxRetries = 2
  MaxRestores = 0
  MaxFaults = 0
SPECIFICATION FairSpec
PROPERTY RevocationFinishes
