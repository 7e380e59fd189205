CONSTANTS
  Conns = {c1}
  Fds = {f1}
  Pool = {p1}
  Requests <- OneFile
  MaxRequests = 2
  TaskQueueCapacity = 2
  MailboxCapacity = 2
  Ints = {0, 3}
  None = None
SPECIFICATION Spec
INVARIANT HandlerOnLiveObject
CHECK_DEADLOCK FALSE
