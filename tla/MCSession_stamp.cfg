\* A peer that keeps sending negotiation but no complete line.
CONSTANTS
    h1 = h1
    h2 = h2
    Handlers <- MCHandlers
    Addr <- MCAddr
    Modes <- MCModes
    MaxPerHost = 1
    Timeout = 1
    MaxReads = 1
SPECIFICATION Spec
PROPERTY OnlyIdleTimedOut
\* The server may end with every connection closed and nothing to do.
CHECK_DEADLOCK FALSE
