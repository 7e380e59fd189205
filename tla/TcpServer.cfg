CONSTANTS
  NetWorkServiceNum = 2
  ThreadPoolNum = 1
  TaskQueueCapacity = 1
  MailboxCapacity = 1
  Clients = {c1, c2, c3}
  Fds = {f1, f2}
  NoClient = NoClient
SPECIFICATION FairSpec
INVARIANTS TypeOK UniqueOwner NeverDropped Balanced
PROPERTIES AcceptedIsServed ServerStarts
CHECK_DEADLOCK FALSE
