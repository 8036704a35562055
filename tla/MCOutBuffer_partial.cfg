\* Short sends: what the peer receives after out_ready moves the buffer.
CONSTANTS
  Sizes <- MCSizes
  OvfLen = 2
  MaxLen = 3
  MaxBytes = 7
  PartialSends = TRUE
SPECIFICATION Spec
INVARIANT StreamIntegrity
\* Once MaxBytes have been queued and sent, the connection is idle in poll.
CHECK_DEADLOCK FALSE
