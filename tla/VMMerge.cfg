CONSTANTS
  Devices = {a, b}
  Writers = {a, b}
  Ids = {1, 2, 3}
  UserNames <- ClashingNames
  MaxTime = 2
  RefNames <- PlainName
  Shared <- TwoShared
  MaxEdits = 3
SPECIFICATION FairSpec
CHECK_DEADLOCK FALSE
INVARIANT MergeSound
PROPERTY NoResurrection
PROPERTY ReferencesKeepTarget
PROPERTY Converges
