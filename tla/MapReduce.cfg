CONSTANTS
  Conns = {c1, c2}
  Fds = {f1, f2}
  Pool = {p1, p2}
  Requests <- TwoFiles
  MaxRequests = 1
  TaskQueueCapacity = 2
  MailboxCapacity = 2
  Ints = {0, 3}
  None = None
SPECIFICATION FairSpec
INVARIANTS TypeOK NoCrossTalk AnswersAreRight
PROPERTIES EveryRequestAnswered NoLeak
CHECK_DEADLOCK FALSE
