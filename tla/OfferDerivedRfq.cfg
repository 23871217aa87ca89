SPECIFICATION Spec
CONSTANTS
  Poller = {loop, req}
  Loop = loop
  Comm = {}
  Feedback = {}
  Supplier = {s1}
  Price = {p1}
  NoBid = NoBid
  Unpriced = Unpriced
  Award = {}
  RealOrder = {}
  SynOrder = {}
  NoOrder = NoOrder
  Status = {Open, Approved}
  Open = Open
  Absent = Absent
  Approved = Approved
  Quadrant = {}
  Bypass = TRUE
  MaxMoves = 1
  MaxFaults = 1
  PutMayFail = FALSE
  MaxRestarts = 0
  AllowReset = FALSE
  Moves <- MCMovesIn
INVARIANT DerivedRfqOnce
