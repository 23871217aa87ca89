SPECIFICATION Spec
CONSTANTS
  Worker = {w1, w2}
INVARIANTS CompletedHasOrder RerunsBounded
PROPERTIES DecisionsSettle
