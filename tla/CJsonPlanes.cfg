\* Texts with two escapes, of code units that are pairs or not.
SPECIFICATION Spec
CONSTANTS
  Blank <- MCBlank
  CodeUnit <- MCPlanesUnit
  CharOf <- MCPlanesChar
  Escaped <- MCEscaped
  Items = {}
  Foreign <- MCPlanesForeign
  Tokens = {}
  Width <- MCWidth
INVARIANT PairsAreTranscoded
CHECK_DEADLOCK FALSE
