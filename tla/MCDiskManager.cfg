CONSTANTS
  MaxPages = 4
  Words = {2}
  Faults = {"io", "close", "crash", "open"}
SPECIFICATION DiskSpec
INVARIANTS DiskTypeOK FreeListComplete HeaderInSync OwnedContentKept OwnedSurvives
           NeverHandedOutTwice
CHECK_DEADLOCK FALSE
