--------------------------- MODULE MCMessageCenter ---------------------------
EXTENDS MessageCenter, TLC

\* All names fall into one bucket, where a thread can get another's wakeup.
OneBucket == [k \in Names |-> CHOOSE b \in Buckets : TRUE]

Symmetry == Permutations(Threads) \cup Permutations(Names)
=============================================================================
