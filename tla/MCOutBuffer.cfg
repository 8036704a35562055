\* Growth, overflow and whole sends: the delivered stream and draining.
CONSTANTS
  Sizes <- MCSizes
  OvfLen = 2
  MaxLen = 3
  MaxBytes = 10
  PartialSends = FALSE
SPECIFICATION Spec
INVARIANTS TypeOK StreamIntegrity NewestKept LossAnnounced
PROPERTY ImplementsChannel
\* Once MaxBytes have been queued and sent, the connection is idle in poll.
CHECK_DEADLOCK FALSE
