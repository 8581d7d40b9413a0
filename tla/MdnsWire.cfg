\* Packets of up to two records in each section, in a buffer that three or four
\* of the longer records fill.
SPECIFICATION Spec
CONSTANTS
  Width <- MCWidth
  Records <- MCRecords
  Questions <- MCQuestions
  MaxRecords = 2
  PacketSize = 220
  PointerRange = 200
INVARIANTS RoundTrip CanBeWalked
CHECK_DEADLOCK FALSE
