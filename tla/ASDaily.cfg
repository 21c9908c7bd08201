SPECIFICATION FairSpec
CONSTANTS
  Loops = {w1}
  Launchers = {w2}
  Interval = 3
  Timeout = 1
  MinSleep = 2
  JobObject = FALSE
  MaxTime = 7
  MaxFaults = 2
CHECK_DEADLOCK FALSE
INVARIANT AttemptsDaily
INVARIANT WorkersContained
PROPERTY WorkersEnd
