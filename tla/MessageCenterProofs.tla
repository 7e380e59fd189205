------------------------- MODULE MessageCenterProofs -------------------------
(***************************************************************************)
(* Proofs about MessageCenter, for any threads, names and hash function.   *)
(***************************************************************************)
EXTENDS MessageCenter, TLAPS

\* Types are as declared, and only operations built on waitFind sleep.
THEOREM CenterTypeCorrect == Spec => []TypeOK
<1>1. Init => TypeOK
  BY DEF Init, TypeOK, Places
<1>2. TypeOK /\ [Next]_vars => TypeOK'
  <2> SUFFICES ASSUME TypeOK, [Next]_vars
               PROVE  TypeOK'
    OBVIOUS
  <2> USE DEF TypeOK, Places, Return, AtBucket
  <2>1. ASSUME NEW t \in Threads, NEW o \in Ops, NEW k \in Names, Call(t, o, k)
        PROVE  TypeOK'
    BY <2>1 DEF Call, Ops, WaitOps
  <2>2. ASSUME NEW t \in Threads, LoadInstance(t)
        PROVE  TypeOK'
    BY <2>2 DEF LoadInstance
  <2>3. ASSUME NEW t \in Threads, CreateInstance(t)
        PROVE  TypeOK'
    BY <2>3 DEF CreateInstance
  <2>4. ASSUME NEW t \in Threads, RegisterTask(t)
        PROVE  TypeOK'
    BY <2>4 DEF RegisterTask, Sleepers
  <2>5. ASSUME NEW t \in Threads, UnregisterTask(t)
        PROVE  TypeOK'
    BY <2>5 DEF UnregisterTask
  <2>6. ASSUME NEW t \in Threads, GetTaskRef(t)
        PROVE  TypeOK'
    BY <2>6 DEF GetTaskRef
  <2>7. ASSUME NEW t \in Threads, NEW o \in WaitOps, WaitFind(t, o)
        PROVE  TypeOK'
    BY <2>7 DEF WaitFind
  <2>8. ASSUME NEW t \in Threads, SpuriousWakeup(t)
        PROVE  TypeOK'
    BY <2>8 DEF SpuriousWakeup
  <2>9. CASE UNCHANGED vars
    BY <2>9 DEF vars
  <2>10. QED
    BY <2>1, <2>2, <2>3, <2>4, <2>5, <2>6, <2>7, <2>8, <2>9 DEF Next, Step
<1>3. QED
  BY <1>1, <1>2, PTL DEF Spec

-----------------------------------------------------------------------------
\* Double-checked locking makes one registry, and every thread gets it.  The
\* invariant is inductive with the fact that center and made agree.
THEOREM RegistryIsUnique == Spec => []OneRegistry
<1> DEFINE MadeOnce == center \in {0, 1} /\ made = center
<1>1. Init => MadeOnce /\ OneRegistry
  BY DEF Init, OneRegistry
<1>2. TypeOK /\ MadeOnce /\ OneRegistry /\ [Next]_vars => MadeOnce' /\ OneRegistry'
  <2> SUFFICES ASSUME TypeOK, MadeOnce, OneRegistry, [Next]_vars
               PROVE  MadeOnce' /\ OneRegistry'
    OBVIOUS
  <2> USE DEF TypeOK, OneRegistry, Return, AtBucket
  <2>1. ASSUME NEW t \in Threads, NEW o \in Ops, NEW k \in Names, Call(t, o, k)
        PROVE  MadeOnce' /\ OneRegistry'
    BY <2>1 DEF Call
  <2>2. ASSUME NEW t \in Threads, LoadInstance(t)
        PROVE  MadeOnce' /\ OneRegistry'
    BY <2>2 DEF LoadInstance
  <2>3. ASSUME NEW t \in Threads, CreateInstance(t)
        PROVE  MadeOnce' /\ OneRegistry'
    BY <2>3 DEF CreateInstance
  <2>4. ASSUME NEW t \in Threads, RegisterTask(t)
        PROVE  MadeOnce' /\ OneRegistry'
    BY <2>4 DEF RegisterTask, Sleepers
  <2>5. ASSUME NEW t \in Threads, UnregisterTask(t) \/ GetTaskRef(t) \/ SpuriousWakeup(t)
        PROVE  MadeOnce' /\ OneRegistry'
    BY <2>5 DEF UnregisterTask, GetTaskRef, SpuriousWakeup
  <2>6. ASSUME NEW t \in Threads, NEW o \in WaitOps, WaitFind(t, o)
        PROVE  MadeOnce' /\ OneRegistry'
    BY <2>6 DEF WaitFind
  <2>7. CASE UNCHANGED vars
    BY <2>7 DEF vars
  <2>8. QED
    BY <2>1, <2>2, <2>3, <2>4, <2>5, <2>6, <2>7 DEF Next, Step
<1>3. QED
  BY <1>1, <1>2, CenterTypeCorrect, PTL DEF Spec

-----------------------------------------------------------------------------
\* No two threads wait in one bucket.
SoleWaiter ==
  \A t, u \in Threads :
    (t # u /\ pc[t] # "idle" /\ op[t] \in WaitOps) => ~WaitsIn(u, BucketOf[name[t]])

\* Two threads never wait in one bucket, as long as callers keep to SingleWaiter.
LEMMA SoleWaiterInvariant ==
  ASSUME SingleWaiter
  PROVE  Spec => []SoleWaiter
<1>1. Init => SoleWaiter
  BY DEF Init, SoleWaiter
<1>2. TypeOK /\ SoleWaiter /\ [Next]_vars => SoleWaiter'
  <2> SUFFICES ASSUME TypeOK, SoleWaiter, [Next]_vars
               PROVE  SoleWaiter'
    OBVIOUS
  <2>1. ASSUME NEW t \in Threads, NEW o \in Ops, NEW k \in Names, Call(t, o, k)
        PROVE  SoleWaiter'
    BY <2>1 DEF Call, SoleWaiter, WaitsIn, TypeOK
  \* No other step moves a thread out of "idle" or changes what it was called with.
  <2>2. ASSUME UNCHANGED <<op, name>>,
               \A t \in Threads : pc'[t] # "idle" => pc[t] # "idle"
        PROVE  SoleWaiter'
    BY <2>2 DEF SoleWaiter, WaitsIn
  <2>3. ASSUME NEW t \in Threads, Step(t) \/ SpuriousWakeup(t)
        PROVE  /\ UNCHANGED <<op, name>>
               /\ \A u \in Threads : pc'[u] # "idle" => pc[u] # "idle"
    <3> USE DEF TypeOK, Return, AtBucket
    <3>1. CASE LoadInstance(t) \/ CreateInstance(t)
      BY <3>1 DEF LoadInstance, CreateInstance
    <3>2. CASE RegisterTask(t)
      BY <3>2 DEF RegisterTask, Sleepers
    <3>3. CASE UnregisterTask(t) \/ GetTaskRef(t) \/ SpuriousWakeup(t)
      BY <3>3 DEF UnregisterTask, GetTaskRef, SpuriousWakeup
    <3>4. ASSUME NEW o \in WaitOps, WaitFind(t, o)
          PROVE  /\ UNCHANGED <<op, name>>
                 /\ \A u \in Threads : pc'[u] # "idle" => pc[u] # "idle"
      BY <3>4 DEF WaitFind
    <3>5. QED
      BY <2>3, <3>1, <3>2, <3>3, <3>4 DEF Step
  <2>4. CASE UNCHANGED vars
    BY <2>4 DEF vars, SoleWaiter, WaitsIn
  <2>5. QED
    BY <2>1, <2>2, <2>3, <2>4 DEF Next
<1>3. QED
  BY <1>1, <1>2, CenterTypeCorrect, PTL DEF Spec

\* As long as no two threads wait in one bucket, a thread never sleeps for a
\* name that is registered: the one wakeup of insert reaches the right thread.
THEOREM WaiterNeverStranded ==
  ASSUME SingleWaiter
  PROVE  Spec => []NoStrandedWaiter
<1>1. Init => NoStrandedWaiter
  BY DEF Init, NoStrandedWaiter
<1>2. TypeOK /\ SoleWaiter /\ NoStrandedWaiter /\ [Next]_vars => NoStrandedWaiter'
  <2> SUFFICES ASSUME TypeOK, SoleWaiter, NoStrandedWaiter, [Next]_vars
               PROVE  NoStrandedWaiter'
    OBVIOUS
  <2> USE DEF TypeOK, NoStrandedWaiter, Return, AtBucket
  <2>1. ASSUME NEW t \in Threads, NEW o \in Ops, NEW k \in Names, Call(t, o, k)
        PROVE  NoStrandedWaiter'
    BY <2>1 DEF Call
  <2>2. ASSUME NEW t \in Threads, LoadInstance(t) \/ CreateInstance(t)
        PROVE  NoStrandedWaiter'
    BY <2>2 DEF LoadInstance, CreateInstance
  <2>3. ASSUME NEW t \in Threads, RegisterTask(t)
        PROVE  NoStrandedWaiter'
    <3> SUFFICES ASSUME NEW u \in Threads, pc'[u] = "asleep"
                 PROVE  taskMap'[name[u]] = NoTask
      BY <2>3 DEF RegisterTask
    <3>1. pc[u] = "asleep" /\ taskMap[name[u]] = NoTask
      BY <2>3 DEF RegisterTask, Sleepers
    <3>2. CASE name[u] # name[t] \/ taskMap[name[t]] # NoTask
      BY <2>3, <3>1, <3>2 DEF RegisterTask
    <3>3. CASE name[u] = name[t] /\ taskMap[name[t]] = NoTask
      <4>1. u \in Sleepers(BucketOf[name[t]])
        BY <3>1, <3>3 DEF Sleepers
      <4>2. Sleepers(BucketOf[name[t]]) = {u}
        BY <3>1, <3>3, <4>1 DEF Sleepers, SoleWaiter, WaitsIn
      <4>3. pc'[u] = "relock"
        BY <2>3, <3>3, <4>2 DEF RegisterTask
      <4>4. QED
        BY <4>3
    <3>4. QED
      BY <3>2, <3>3
  <2>4. ASSUME NEW t \in Threads, UnregisterTask(t)
        PROVE  NoStrandedWaiter'
    BY <2>4 DEF UnregisterTask
  <2>5. ASSUME NEW t \in Threads, GetTaskRef(t) \/ SpuriousWakeup(t)
        PROVE  NoStrandedWaiter'
    BY <2>5 DEF GetTaskRef, SpuriousWakeup
  <2>6. ASSUME NEW t \in Threads, NEW o \in WaitOps, WaitFind(t, o)
        PROVE  NoStrandedWaiter'
    BY <2>6 DEF WaitFind
  <2>7. CASE UNCHANGED vars
    BY <2>7 DEF vars
  <2>8. QED
    BY <2>1, <2>2, <2>3, <2>4, <2>5, <2>6, <2>7 DEF Next, Step
<1>3. QED
  BY <1>1, <1>2, CenterTypeCorrect, SoleWaiterInvariant, PTL DEF Spec
=============================================================================
