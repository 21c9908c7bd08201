CONSTANTS
  d1 = d1
  Devices = {d1}
  Entries = {1}
  EpochLimit = 2
  MaxOps = 3
  MaxEdits = 1
  MaxFaults = 2
SPECIFICATION FairSpec
INVARIANT PublicationAccounted
INVARIANT WithdrawnInTime
PROPERTY RevocationRotates
PROPERTY ChangesDelivered
PROPERTY ReplicaCatchesUp
