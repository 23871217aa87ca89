\* one request at a time
SPECIFICATION FairSpec
CONSTANTS
  Worker = {w1}
INVARIANTS PausedExplained InboxExact
PROPERTIES Implements ReachesApprover
