SPECIFICATION FairSpec
CONSTANTS
  MaxCodes = 2
  Computers = {m1}
  MaxRoots = 2
  PairLimit = 1
  MaxMints = 2
  MaxVersion = 4
  MaxFaults = 1
CHECK_DEADLOCK FALSE
INVARIANT PairingSound
INVARIANT ReceivedIsKept
PROPERTY RevokedStaysOut
PROPERTY ApprovedConnects
