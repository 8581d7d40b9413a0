\* A predicate with two operators on a side.
CONSTANTS
  Statements <- MCStatements
  Typeable <- MCTypeable
  MaxEdits = 0
  RelationLimit = 3
  AttributeLimit = 4
  CharBytes = 64
  LongMax = 3
  OperandBytes = 12
  CodeBytes = 128
  VariableLimit = 3
SPECIFICATION Spec
INVARIANT ChainsMeanWhatTheySay
CHECK_DEADLOCK FALSE
