CONSTANTS
  Values = {v1, v2}
  Size = 4
  NoValue = NoValue
SPECIFICATION FairQueueSpec
INVARIANTS QueueTypeOK NoSlotConflict TokensMatch NeverAborts
PROPERTIES ImplementsFifo EveryNewConnectServed
