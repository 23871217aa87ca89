SPECIFICATION Spec
CONSTANTS
  Request = {r1, r2}
  Kinds = {"panel", "tenant", "cancel", "confirm"}
  MaxLost = 2
  MaxErrors = 1
SYMMETRY Symmetry
INVARIANTS SuccessTaken CompletedOrdered CancelReleases
