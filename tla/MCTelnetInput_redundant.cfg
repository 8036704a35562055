\* Repeated answers to the peer's negotiation; no "!" commands and no echo switch by the mode.
CONSTANTS
  Lines <- MCPlainLines
  NegOpts <- MCNegOpts
  Blocks <- MCBlocks
  PeerErases = FALSE
  Junk = {0, 255}
  BufferLines = 2
  InputCap = 16
  SbCap = 8
  ReadMax = 3
  MaxSteps = 2
  MaxToggles = 0
SPECIFICATION Spec
INVARIANT NoRedundantNegotiation
\* The peer stops writing after MaxSteps units, and then the server waits.
CHECK_DEADLOCK FALSE
