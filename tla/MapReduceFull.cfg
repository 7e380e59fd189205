CONSTANTS
  Conns = {c1, c2}
  Fds = {f1, f2}
  Pool = {p1}
  Requests <- TwoFiles
  MaxRequests = 1
  TaskQueueCapacity = 1
  MailboxCapacity = 1
  Ints = {0, 3}
  None = None
SPECIFICATION FairSpec
PROPERTY EveryRequestAnswered
CHECK_DEADLOCK FALSE
