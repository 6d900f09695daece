SPECIFICATION MCSpec
CONSTANTS
  IntBits = 6
  Mantissa = 3
  Databases <- MCDatabases
  Questions <- MCQuestions
  Samples <- MCSamples
INVARIANTS
  ComparesInOrder
  ValuesExact
  EvaluatesAsSql
  SelectExact
  AnswersLast
  
CHECK_DEADLOCK FALSE
