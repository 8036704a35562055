\* Connection lifecycle: two connections from one host, one at a time.
CONSTANTS
    h1 = h1
    h2 = h2
    Handlers <- MCHandlers
    Addr <- MCAddr
    Modes <- MCModes
    MaxPerHost = 1
    Timeout = 1
    MaxReads = 1
SPECIFICATION Spec
INVARIANT ReleasedOnce
PROPERTY EveryConnectionEnds
\* The server may end with every connection closed and nothing to do.
CHECK_DEADLOCK FALSE
