SPECIFICATION EngineSpec
CONSTANTS
  IntBits = 6
  Mantissa = 3
  BitsAs <- MCBitsAs
  Evaluate <- expr_evaluate
  Plan <- MCPlan
  Names = {"t", "u", "none", "__tables", "__columns", "__indexes"}
  IndexNames = {"i"}
  ColumnNames = {"a", "b", "s", "none"}
  Schemas <- MCSchemas
  PageIds = {1, 2}
  MaxTableId = 4
  MaxIndexId = 1
  Statements <- MCStatements
  RowRoom = 17
  MaxSlots = 2
INVARIANTS
  CatalogConsistent
  InsertExact
  ChangeExact
PROPERTIES
  ImplementsTables
  UsesCatalog
CHECK_DEADLOCK FALSE
