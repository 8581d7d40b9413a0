\* Every item of MCCJson, in both formats, and one change of each text.
SPECIFICATION Spec
CONSTANTS
  Blank <- MCBlank
  CodeUnit <- MCCodeUnit
  CharOf <- MCCharOf
  Escaped <- MCEscaped
  Items <- MCItems
  Foreign <- MCForeign
  Tokens <- MCTokens
  Width <- MCWidth
INVARIANTS RoundTrip Stable ErrorLeadsThere Fits
CHECK_DEADLOCK FALSE
