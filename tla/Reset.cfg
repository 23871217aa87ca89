SPECIFICATION Spec
CONSTANTS
  n1 = n1  n2 = n2  nx = nx
  c1 = c1  c2 = c2  cx = cx  ct = ct
  kx = kx  NoNeg = NoNeg
  Row = {n1, n2, nx, c1, c2, cx, ct, kx}
  TableOf <- MCTableOf
  Mine <- MCMine
  NegOf <- MCNegOf
  Chunk = 2
  MaxCrashes = 1
  MaxUnprocessed = 1
INVARIANTS OthersKept LeavesOnlyOrphans SafeToRerun CountTrue
