\* Control socket whose send() may return less than asked or fail.
CONSTANTS
    admin = admin
    user = user
    Clients <- MCClients
    Admins <- MCAdmins
    Chunks <- MCChunks
    BufSize = 10
    Names <- MCNames
    Existing <- MCExisting
    Numbers <- MCNumbers
    SendResults = {"all", "partial", "error"}
    MaxSteps = 3
SPECIFICATION Spec
INVARIANT DeliveredInOrder
\* Every client may have quit or overflowed its buffer and the read bound is reached.
CHECK_DEADLOCK FALSE
