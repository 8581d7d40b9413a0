\* Up to four items, in arrays and in objects with names that differ in case,
\* and calls of malloc that fail.
SPECIFICATION Spec
CONSTANTS
  Name = {"a", "A"}
  Types = {"object"}
  MaxItems = 4
INVARIANTS LinksMirror AllGivenBack
PROPERTIES ImplementsLists
CHECK_DEADLOCK FALSE
