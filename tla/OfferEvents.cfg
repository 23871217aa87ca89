SPECIFICATION Spec
CONSTANTS
  Poller = {loop, req}
  Loop = loop
  Comm = {c1}
  Feedback = {f1}
  Supplier = {s1}
  Price = {p1}
  NoBid = NoBid
  Unpriced = Unpriced
  Award = {}
  RealOrder = {}
  SynOrder = {}
  NoOrder = NoOrder
  Status = {Open, Approved}
  Open = Open
  Absent = Absent
  Approved = Approved
  Quadrant = {q1}
  Bypass = FALSE
  MaxMoves = 1
  MaxFaults = 0
  PutMayFail = FALSE
  MaxRestarts = 0
  AllowReset = FALSE
  Moves <- MCMovesIn
INVARIANT AnnouncedOnce
INVARIANT SnapshotAnnounced
INVARIANT InvitationsNotGuessed
