CONSTANTS
  Threads = {t1, t2, t3}
  Names = {n1, n2}
  Buckets = {b}
  BucketOf <- OneBucket
  NoTask = NoTask
  SingleWaiter = TRUE
SPECIFICATION Spec
INVARIANTS TypeOK OneRegistry NoStrandedWaiter
SYMMETRY Symmetry
