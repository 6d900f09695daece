CONSTANTS
  Frames = {f1, f2}
  Pages = {p1, p2, p3}
  Handles = {h1, h2, h3}
  MaxPins = 2
  Words = {0, 1}
  Blank = 0
  NoFrame = NoFrame
  NoPage = NoPage
SPECIFICATION PoolSpec
SYMMETRY Symmetry
CONSTRAINT SpoiledOnlyBlank
INVARIANTS PoolTypeOK PageTableExact ReplacerExact PinnedPagesStay NoLostWrite NoFrameLost
CHECK_DEADLOCK FALSE
