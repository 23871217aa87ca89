SPECIFICATION FairSpec
CONSTANTS
  Row = row
  award = award
  Status <- MCFirst
  First <- MCFirst
  Late <- MCLate
  Loop = loop
  Stream = stream
  Fetch = {f1, f2}
  None = None
  NotFound = NotFound
  MaxFaults = 1
INVARIANTS StreamCovers
PROPERTIES InSync
