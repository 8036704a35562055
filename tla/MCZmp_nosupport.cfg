\* The peer announces zmp.support and then zmp.no-support for color.define.
CONSTANTS
  Payloads <- MCPayloads
  ScriptNames <- MCScriptNames
  ArgvSize = 3
  NumCTypes = 3
  MaxSteps = 4
SPECIFICATION Spec
INVARIANT ColorAsAnnounced
\* After MaxSteps peer and script events the connection is idle.
CHECK_DEADLOCK FALSE
