\* "!echo off" while the mode wants echo.
CONSTANTS
  Lines <- MCLines
  NegOpts <- MCNegOpts
  Blocks <- MCBlocks
  PeerErases = FALSE
  Junk = {0, 255}
  BufferLines = 2
  InputCap = 16
  SbCap = 8
  ReadMax = 3
  MaxSteps = 1
  MaxToggles = 0
SPECIFICATION Spec
INVARIANT WellFormedCommands
\* The peer stops writing after MaxSteps units, and then the server waits.
CHECK_DEADLOCK FALSE
