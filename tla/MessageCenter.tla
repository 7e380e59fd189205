---------------------------- MODULE MessageCenter ----------------------------
(***************************************************************************)
(* multi-threading/MessageCenter.cpp and the ConcurrentHashMap.h it keeps  *)
(* the tasks in: a registry of tasks by name, split into buckets with a    *)
(* mutex and a condition variable each.  waitFind sleeps on the bucket's   *)
(* condition until its own key is there; insert wakes one sleeper of the   *)
(* bucket, whichever key that one waits for.                               *)
(*                                                                         *)
(* Every operation starts with MessageCenter::Instance(), which creates    *)
(* the registry on first use under double-checked locking.  Each action is *)
(* one stay inside a mutex (mtx_ of the center, or of a bucket), or one    *)
(* load of the atomic pointer.  A thread is in one of these places:        *)
(*   "idle"      outside                                                   *)
(*   "load"      about to load pMessageCenter_                             *)
(*   "create"    it loaded a null pointer and is about to lock mtx_        *)
(*   "bucket"    about to lock the mutex of its key's bucket               *)
(*   "asleep"    in condElement_[bucket].wait                              *)
(*   "relock"    woken, about to lock the bucket again and look            *)
(***************************************************************************)
EXTENDS Integers, FiniteSets

CONSTANTS
  Threads,       \* the threads; each registers itself as a task
  Names,         \* task names
  Buckets,       \* the HASHLOCKS buckets
  BucketOf,      \* hasher_(k) % HASHLOCKS
  SingleWaiter,  \* at most one thread waits in a bucket at a time
  NoTask

ASSUME BucketAssumption == BucketOf \in [Names -> Buckets]
ASSUME SingleWaiterAssumption == SingleWaiter \in BOOLEAN
ASSUME NoTaskAssumption == NoTask \notin Threads

VARIABLES
  center,   \* pMessageCenter_: 0 is nullptr, else the number of the object
  made,     \* number of MessageCenter objects created
  inst,     \* what Instance() returned to each thread
  taskMap,  \* taskMap_
  pc,       \* where each thread is
  op,       \* the operation it is in
  name,     \* the task name it was called with
  got,      \* wpTask, the out parameter
  ret       \* the value returned

vars == <<center, made, inst, taskMap, pc, op, name, got, ret>>

WaitOps == {"waitGetTaskRef", "syncSendMsgTo"}
Ops == WaitOps \cup {"registerTask", "unregisterTask", "getTaskRef"}

Init ==
  /\ center = 0
  /\ made = 0
  /\ inst = [t \in Threads |-> 0]
  /\ taskMap = [k \in Names |-> NoTask]
  /\ pc = [t \in Threads |-> "idle"]
  /\ op = [t \in Threads |-> "none"]
  /\ name \in [Threads -> Names]
  /\ got = [t \in Threads |-> NoTask]
  /\ ret = [t \in Threads |-> "none"]

\* t is inside waitFind (or on its way to it) for a key of bucket b.
WaitsIn(t, b) == pc[t] # "idle" /\ op[t] \in WaitOps /\ BucketOf[name[t]] = b

Call(t, o, k) ==
  /\ pc[t] = "idle"
  /\ SingleWaiter /\ o \in WaitOps =>
       \A u \in Threads \ {t} : ~WaitsIn(u, BucketOf[k])
  /\ pc' = [pc EXCEPT ![t] = "load"]
  /\ op' = [op EXCEPT ![t] = o]
  /\ name' = [name EXCEPT ![t] = k]
  /\ got' = [got EXCEPT ![t] = NoTask]
  /\ ret' = [ret EXCEPT ![t] = "none"]
  /\ inst' = [inst EXCEPT ![t] = 0]
  /\ UNCHANGED <<center, made, taskMap>>

-----------------------------------------------------------------------------
(* Instance()                                                              *)

\* The first, lock-free load.
LoadInstance(t) ==
  /\ pc[t] = "load"
  /\ \/ /\ center = 0
        /\ pc' = [pc EXCEPT ![t] = "create"]
        /\ UNCHANGED inst
     \/ /\ center # 0
        /\ inst' = [inst EXCEPT ![t] = center]
        /\ pc' = [pc EXCEPT ![t] = "bucket"]
  /\ UNCHANGED <<center, made, taskMap, op, name, got, ret>>

\* Slip: the pointer is not loaded again under the lock.
CreateInstance_NoRecheck(t) ==
  /\ pc[t] = "create"
  /\ made' = made + 1
  /\ center' = made'
  /\ inst' = [inst EXCEPT ![t] = center']
  /\ pc' = [pc EXCEPT ![t] = "bucket"]
  /\ UNCHANGED <<taskMap, op, name, got, ret>>

\* Under mtx_: load again, create the object only if there is still none.
CreateInstance(t) ==
  /\ pc[t] = "create"
  /\ made' = IF center = 0 THEN made + 1 ELSE made
  /\ center' = IF center = 0 THEN made' ELSE center
  /\ inst' = [inst EXCEPT ![t] = center']
  /\ pc' = [pc EXCEPT ![t] = "bucket"]
  /\ UNCHANGED <<taskMap, op, name, got, ret>>

-----------------------------------------------------------------------------
(* The operations, each under the lock of its bucket                       *)

AtBucket(t, o) == op[t] = o /\ pc[t] \in {"bucket", "relock"}

Return(t, v) ==
  /\ pc' = [pc EXCEPT ![t] = "idle"]
  /\ ret' = [ret EXCEPT ![t] = v]

Sleepers(b) == {w \in Threads : pc[w] = "asleep" /\ BucketOf[name[w]] = b}

\* Slip: insert does not notify.
RegisterTask_NoNotify(t) ==
  /\ AtBucket(t, "registerTask")
  /\ \/ /\ taskMap[name[t]] # NoTask
        /\ Return(t, "false")
        /\ UNCHANGED taskMap
     \/ /\ taskMap[name[t]] = NoTask
        /\ taskMap' = [taskMap EXCEPT ![name[t]] = t]
        /\ Return(t, "true")
  /\ UNCHANGED <<center, made, inst, op, name, got>>

\* insert: only a new key is stored, and wakes one sleeper of the bucket.
RegisterTask(t) ==
  /\ AtBucket(t, "registerTask")
  /\ \/ /\ taskMap[name[t]] # NoTask
        /\ Return(t, "false")
        /\ UNCHANGED taskMap
     \/ /\ taskMap[name[t]] = NoTask
        /\ taskMap' = [taskMap EXCEPT ![name[t]] = t]
        /\ ret' = [ret EXCEPT ![t] = "true"]
        /\ LET asleep == Sleepers(BucketOf[name[t]]) IN
             \/ /\ asleep = {}
                /\ pc' = [pc EXCEPT ![t] = "idle"]
             \/ \E w \in asleep : pc' = [pc EXCEPT ![t] = "idle", ![w] = "relock"]
  /\ UNCHANGED <<center, made, inst, op, name, got>>

UnregisterTask(t) ==
  /\ AtBucket(t, "unregisterTask")
  /\ taskMap' = [taskMap EXCEPT ![name[t]] = NoTask]
  /\ Return(t, "none")
  /\ UNCHANGED <<center, made, inst, op, name, got>>

\* Slip: a missing name is waited for, as in waitGetTaskRef.
GetTaskRef_Waits(t) ==
  /\ AtBucket(t, "getTaskRef")
  /\ \/ /\ taskMap[name[t]] = NoTask
        /\ pc' = [pc EXCEPT ![t] = "asleep"]
        /\ UNCHANGED <<got, ret>>
     \/ /\ taskMap[name[t]] # NoTask
        /\ got' = [got EXCEPT ![t] = taskMap[name[t]]]
        /\ Return(t, "true")
  /\ UNCHANGED <<center, made, inst, taskMap, op, name>>

\* find.  When the name is missing, getTaskRef returns RECEIVER_NOT_EXIST,
\* which is 1, from a function declared bool.
GetTaskRef(t) ==
  /\ AtBucket(t, "getTaskRef")
  /\ got' = [got EXCEPT ![t] = taskMap[name[t]]]
  /\ Return(t, "true")
  /\ UNCHANGED <<center, made, inst, taskMap, op, name>>

\* waitFind: sleep while the name is missing.  syncSendMsgTo then locks the
\* weak_ptr, which fails if the task has been destroyed since, and otherwise
\* gives it the message.
WaitFind(t, o) ==
  /\ AtBucket(t, o)
  /\ \/ /\ taskMap[name[t]] = NoTask
        /\ pc' = [pc EXCEPT ![t] = "asleep"]
        /\ UNCHANGED <<got, ret>>
     \/ /\ taskMap[name[t]] # NoTask
        /\ got' = [got EXCEPT ![t] = taskMap[name[t]]]
        /\ \/ o = "waitGetTaskRef" /\ Return(t, "none")
           \/ /\ o = "syncSendMsgTo"
              /\ \E r \in {"RECEIVER_RECV_OK", "RECEIVER_NOT_EXIST"} : Return(t, r)
  /\ UNCHANGED <<center, made, inst, taskMap, op, name>>

\* std::condition_variable::wait may return without a notification.
SpuriousWakeup(t) ==
  /\ pc[t] = "asleep"
  /\ pc' = [pc EXCEPT ![t] = "relock"]
  /\ UNCHANGED <<center, made, inst, taskMap, op, name, got, ret>>

-----------------------------------------------------------------------------
Step(t) ==
  \/ LoadInstance(t)
  \/ CreateInstance(t)
  \/ RegisterTask(t)
  \/ UnregisterTask(t)
  \/ GetTaskRef(t)
  \/ \E o \in WaitOps : WaitFind(t, o)

Next ==
  \E t \in Threads :
    \/ \E o \in Ops, k \in Names : Call(t, o, k)
    \/ Step(t)
    \/ SpuriousWakeup(t)

Spec == Init /\ [][Next]_vars

-----------------------------------------------------------------------------
Places == {"idle", "load", "create", "bucket", "asleep", "relock"}

\* Types; only an operation built on waitFind sleeps.
TypeOK ==
  /\ center \in Nat
  /\ made \in Nat
  /\ inst \in [Threads -> Nat]
  /\ taskMap \in [Names -> Threads \cup {NoTask}]
  /\ pc \in [Threads -> Places]
  /\ op \in [Threads -> Ops \cup {"none"}]
  /\ name \in [Threads -> Names]
  /\ got \in [Threads -> Threads \cup {NoTask}]
  /\ \A t \in Threads :
       /\ pc[t] \in {"asleep", "relock"} => op[t] \in WaitOps
       /\ pc[t] # "idle" => op[t] # "none"

\* Every thread that has gone through Instance() talks to the same registry,
\* however many threads came first (MessageCenter.cpp:15-29).
OneRegistry ==
  \A t \in Threads : pc[t] \in {"bucket", "asleep", "relock"} => inst[t] = 1 /\ center = 1

\* MessageCenter.h:50: waitGetTaskRef blocks until the target task has been
\* registered, that is, once the name is in the map no thread goes on
\* sleeping for it.
NoStrandedWaiter ==
  \A t \in Threads : pc[t] = "asleep" => taskMap[name[t]] = NoTask
=============================================================================
