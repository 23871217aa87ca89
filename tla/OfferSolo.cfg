SPECIFICATION Spec
CONSTANTS
  Poller = {loop}
  Loop = loop
  Comm = {}
  Feedback = {}
  Supplier = {s1}
  Price = {p1}
  NoBid = NoBid
  Unpriced = Unpriced
  Award = {a1}
  RealOrder = {r1}
  SynOrder = {x1, x2}
  NoOrder = NoOrder
  Status = {Open, Approved}
  Open = Open
  Absent = Absent
  Approved = Approved
  Quadrant = {}
  Bypass = TRUE
  MaxMoves = 3
  MaxFaults = 1
  PutMayFail = TRUE
  MaxRestarts = 1
  AllowReset = TRUE
  Moves <- MCMovesBack
INVARIANT DerivedRfqOnce
INVARIANT StatusOnce
INVARIANT CanonicalOrder
SYMMETRY Uuids
