\* A script registers "net." and then "net.x"; which entry gets "net.x"?
CONSTANTS
  Payloads <- MCPayloads
  ScriptNames <- MCOrderNames
  ArgvSize = 3
  NumCTypes = 3
  MaxSteps = 4
SPECIFICATION Spec
INVARIANT LookupExactFirst
\* After MaxSteps peer and script events the connection is idle.
CHECK_DEADLOCK FALSE
