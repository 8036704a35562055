\* Decoding, dispatch, zmp.check and send_zmp over every order of at most
\* MaxSteps DO ZMP, payloads and script registrations.
CONSTANTS
  Payloads <- MCPayloads
  ScriptNames <- MCScriptNames
  ArgvSize = 3
  NumCTypes = 3
  MaxSteps = 4
SPECIFICATION Spec
INVARIANTS DispatchFramed CheckAgreesWithLookup SentRoundTrip
\* After MaxSteps peer and script events the connection is idle.
CHECK_DEADLOCK FALSE
