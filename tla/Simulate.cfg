CONSTANTS
  NoCallback = NoCallback
  ClientNum = 2
  MsgNum = 2
  WorkerNum = 2
  FdNum = 2
  Window = 1
  MailboxCapacity = 1
  MaxFaults = 1
SPECIFICATION FairSpec
INVARIANTS TypeOK EventsHaveOwners NoDescriptorLost ExitMeansAll DurationIsDefined
PROPERTIES EveryoneEchoed EveryConnectCallsBack
CHECK_DEADLOCK FALSE
