\* IAC EL while an earlier line is still buffered.
CONSTANTS
  Lines <- MCLines
  NegOpts <- MCNegOpts
  Blocks <- MCBlocks
  PeerErases = TRUE
  Junk = {0, 255}
  BufferLines = 2
  InputCap = 16
  SbCap = 8
  ReadMax = 3
  MaxSteps = 3
  MaxToggles = 1
SPECIFICATION Spec
INVARIANT LinesInOrder
\* The peer stops writing after MaxSteps units, and then the server waits.
CHECK_DEADLOCK FALSE
