CONSTANTS
  Frames = {f1, f2}
  Pages = {p1, p2, p3}
  Handles = {h1, h2}
  MaxPins = 2
  Words = {0, 1}
  Blank = 0
  NoFrame = NoFrame
  NoPage = NoPage
SPECIFICATION PoolSpec
INVARIANT FetchedIsLatest
