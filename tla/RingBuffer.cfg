CONSTANTS
  Threads = {t1, t2, t3}
  Values = {v1, v2}
  Size = 3
  NoValue = NoValue
SPECIFICATION Spec
INVARIANTS TypeOK NoLostWakeup
PROPERTY ImplementsFifo
