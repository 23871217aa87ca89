SPECIFICATION Spec
CONSTANTS
  Poller = {loop, req}
  Loop = loop
  Comm = {}
  Feedback = {}
  Supplier = {s1}
  Price = {}
  NoBid = NoBid
  Unpriced = Unpriced
  Award = {a1}
  RealOrder = {r1}
  SynOrder = {x1, x2}
  NoOrder = NoOrder
  Status = {Open, Approved}
  Open = Open
  Absent = Absent
  Approved = Approved
  Quadrant = {}
  Bypass = TRUE
  MaxMoves = 1
  MaxFaults = 1
  PutMayFail = TRUE
  MaxRestarts = 1
  AllowReset = FALSE
  Moves <- MCMovesIn
PROPERTY KeepsToOneOrder
INVARIANT SyntheticKnown
SYMMETRY Uuids
