\* Control socket: an administrator and a user, whole sends.
CONSTANTS
    admin = admin
    user = user
    Clients <- MCClients
    Admins <- MCAdmins
    Chunks <- MCChunks
    BufSize = 10
    Names <- MCNames
    Existing <- MCExisting
    Numbers <- MCNumbers
    SendResults = {"all"}
    MaxSteps = 3
SPECIFICATION Spec
INVARIANTS LineFraming OneReplyPerLine
PROPERTY AdminOnly
\* Every client may have quit or overflowed its buffer and the read bound is reached.
CHECK_DEADLOCK FALSE
