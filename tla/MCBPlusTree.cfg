CONSTANTS
  Keys = {1, 2, 3, 4, 5}
  RidsOf <- MCRidsOf
  Ranges <- MCRanges
  MaxPages = 7
  MaxLevels = 3
  PoolSizes = {2, 5}
  leaf_max_keys = 2
  internal_max_keys = 2
SPECIFICATION TreeSpec
CONSTRAINT UntilStarved
INVARIANTS TreeSound
PROPERTIES IteratorMissesNothing ImplementsMap
CHECK_DEADLOCK FALSE
