\* EOR, ZMP and MCCP2 use against the last WILL/WONT sent.
CONSTANTS
  Lines <- MCLines
  NegOpts <- MCNegOpts
  Blocks <- MCBlocks
  PeerErases = FALSE
  Junk = {0, 255}
  BufferLines = 2
  InputCap = 16
  SbCap = 8
  ReadMax = 3
  MaxSteps = 2
  MaxToggles = 1
SPECIFICATION Spec
INVARIANT ServerOptionsAsAnnounced
\* The peer stops writing after MaxSteps units, and then the server waits.
CHECK_DEADLOCK FALSE
