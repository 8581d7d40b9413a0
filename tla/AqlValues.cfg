\* Lists of values with one mistake in them, among every kind of statement.
CONSTANTS
  Statements <- MCStatements
  Typeable <- MCTypeable
  MaxEdits = 1
  RelationLimit = 3
  AttributeLimit = 4
  CharBytes = 64
  LongMax = 3
  OperandBytes = 12
  CodeBytes = 128
  VariableLimit = 3
SPECIFICATION Spec
INVARIANT ValuesNotSkipped
CHECK_DEADLOCK FALSE
