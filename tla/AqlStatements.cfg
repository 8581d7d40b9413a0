\* Every kind of statement, predicates of up to three comparisons, one mistake.
CONSTANTS
  Statements <- MCStatements
  Typeable <- MCTypeable
  MaxEdits = 1
  RelationLimit = 3
  AttributeLimit = 4
  CharBytes = 64
  LongMax = 3
  OperandBytes = 12
  CodeBytes = 128
  VariableLimit = 3
SPECIFICATION Spec
INVARIANTS
  TypeOK
  AcceptedAsWritten
  NothingSkipped
  MeansWhatItSays
  RangesAreSound
CHECK_DEADLOCK FALSE
