CONSTANTS
  Senders = {s1, s2}
  QueueCapacity = 2
  MaxSends = 2
SPECIFICATION FairSpec
INVARIANTS TypeOK TokenAccounting NeverBlocksInHandler AtMostOneAfterStop
PROPERTY EverySentIsHandled
CHECK_DEADLOCK FALSE
