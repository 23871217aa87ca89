SPECIFICATION FairSpec
CONSTANTS
  Last = 3
  From = 3
  Back = 2
  MaxCycles = 1
  PageSize = 2
  Fetch = {f1, f2}
  Checker = {c1}
  MaxFaults = 1
INVARIANTS OneMoment NoFalseAlarm NoneIsEarned
PROPERTIES Settles
