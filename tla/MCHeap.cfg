CONSTANTS
  PageIds = {p1, p2}
  PAGE_SIZE = 5
  PAGE_HEADER_SIZE = 1
  SLOT_SIZE = 1
  Rows = {"a", "ab", "long"}
  tuple_size <- MCTupleSize
SPECIFICATION HeapSpec
SYMMETRY Symmetry
INVARIANTS PagesSound ChainWhole
PROPERTIES ScanExact ImplementsTable
