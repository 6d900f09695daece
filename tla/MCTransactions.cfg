CONSTANTS
  Txns = {1, 2, 3}
  Resources = {"table", "row", "row2"}
  Modes <- MCModes
SPECIFICATION TransSpec
INVARIANTS OnlyActiveInQueues NoPhantomDeadlock RecordedDeadlocksBroken
CHECK_DEADLOCK FALSE
