SPECIFICATION FairSpec
CONSTANTS
  Poller = {loop, req}
  Loop = loop
  Comm = {}
  Feedback = {}
  Supplier = {s1}
  Price = {}
  NoBid = NoBid
  Unpriced = Unpriced
  Award = {a1}
  RealOrder = {r1}
  SynOrder = {x1}
  NoOrder = NoOrder
  Status = {Open, Approved}
  Open = Open
  Absent = Absent
  Approved = Approved
  Quadrant = {}
  Bypass = TRUE
  MaxMoves = 1
  MaxFaults = 0
  PutMayFail = FALSE
  MaxRestarts = 0
  AllowReset = FALSE
  Moves <- MCMovesIn
PROPERTIES Converges SyntheticGivesWay ApprovedGetsOrder
