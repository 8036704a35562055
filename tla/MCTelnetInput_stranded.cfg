\* Two lines in one read: process_input takes only the first.
CONSTANTS
  Lines <- MCLines
  NegOpts <- MCNegOpts
  Blocks <- MCBlocks
  PeerErases = FALSE
  Junk = {0, 255}
  BufferLines = 2
  InputCap = 16
  SbCap = 8
  ReadMax = 3
  MaxSteps = 2
  MaxToggles = 0
SPECIFICATION Spec
PROPERTY LineEventuallyProcessed
\* The peer stops writing after MaxSteps units, and then the server waits.
CHECK_DEADLOCK FALSE
