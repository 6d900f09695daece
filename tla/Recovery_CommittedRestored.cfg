SPECIFICATION RecoverySpec
CONSTANTS
  t1 = t1
  t2 = t2
  p1 = p1
  p2 = p2
  word = word
  Pages = {p1, p2}
  Records <- MCRecords
  NoImage = NoImage
  Blank = Blank
  MaxLog = 3
  MaxRestarts = 1
INVARIANTS
  CommittedRestored
