\* Framing and echo over every segmentation of the stream, IAC EL included.
CONSTANTS
  Lines <- MCLines
  NegOpts <- MCNegOpts
  Blocks <- MCBlocks
  PeerErases = TRUE
  Junk = {0, 255}
  BufferLines = 2
  InputCap = 4
  SbCap = 8
  ReadMax = 3
  MaxSteps = 3
  MaxToggles = 1
SPECIFICATION Spec
INVARIANTS TypeOK SubnegotiationIntact PasswordNotEchoed
\* The peer stops writing after MaxSteps units, and then the server waits.
CHECK_DEADLOCK FALSE
