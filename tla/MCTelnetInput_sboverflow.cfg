\* A subnegotiation longer than the subrequest buffer can grow to.
CONSTANTS
  Lines <- MCLines
  NegOpts <- MCNegOpts
  Blocks <- MCBlocks
  PeerErases = FALSE
  Junk = {0, 255}
  BufferLines = 2
  InputCap = 16
  SbCap = 4
  ReadMax = 3
  MaxSteps = 3
  MaxToggles = 1
SPECIFICATION Spec
INVARIANT SubnegotiationIntact
\* The peer stops writing after MaxSteps units, and then the server waits.
CHECK_DEADLOCK FALSE
