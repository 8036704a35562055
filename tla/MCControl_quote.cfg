\* An open quote: the tokenizer runs past the line into stale bytes.
CONSTANTS
    admin = admin
    user = user
    Clients <- MCClients
    Admins <- MCAdmins
    Chunks <- MCOpenQuote
    BufSize = 10
    Names <- MCNames
    Existing <- MCExisting
    Numbers <- MCNumbers
    SendResults = {"all"}
    MaxSteps = 3
SPECIFICATION Spec
INVARIANT NoStaleRead
\* Every client may have quit or overflowed its buffer and the read bound is reached.
CHECK_DEADLOCK FALSE
