------------------------ MODULE ConcurrentRingBuffer ------------------------
(***************************************************************************)
(* multi-threading/ConcurrentRingBuffer.h: a ring of Size slots guarded by *)
(* one mutex, with a condition variable for "not full" and one for "not    *)
(* empty".  It is the task queue of the ThreadPool and the message queue   *)
(* of every InteractiveTask.                                               *)
(*                                                                         *)
(* All shared state is touched only while mtx_ is held, so an action is    *)
(* one stay inside the mutex: from lock() to the return, or to the wait()  *)
(* that releases it.  A thread is in one of these places:                  *)
(*   "out"       outside the buffer                                        *)
(*   "lock"      it has called an operation and is about to lock mtx_      *)
(*   "notFull"   asleep in condNotFull_.wait                               *)
(*   "notEmpty"  asleep in condNotEmpty_.wait                              *)
(*   "relock"    woken, about to lock mtx_ again and re-test the condition *)
(***************************************************************************)
EXTENDS Integers, Sequences, FiniteSets

CONSTANTS
  Threads,   \* the threads that call the buffer
  Values,    \* what is stored: shared_ptr<Task>, shared_ptr<Message>
  Size,      \* constructor argument (1000 and 50000 in the code)
  NoValue    \* a default-constructed T: a null shared_ptr

ASSUME ThreadsAssumption == IsFiniteSet(Threads)
ASSUME SizeAssumption == Size \in Nat \ {0}
ASSUME NoValueAssumption == NoValue \notin Values

VARIABLES
  buff,      \* buff_
  head,      \* head_: where the next value is stored
  tail,      \* tail_: where the oldest value is
  pc,        \* where each thread is
  op,        \* the operation each thread has called
  arg,       \* the value a put still has to store
  obj,       \* the out parameter of a get
  ret        \* the bool an operation returned

vars == <<buff, head, tail, pc, op, arg, obj, ret>>

Slots == 0 .. Size - 1
PutOps == {"syncPut", "asyncPut"}
GetOps == {"syncGet", "asyncGet"}

\* Slip: the index wraps one slot too late.
NextIndex_TooFar(i) == (i + 1) % (Size + 1)

\* _next
NextIndex(i) == (i + 1) % Size

Empty == tail = head

Full == NextIndex(head) = tail

Init ==
  /\ buff = [i \in Slots |-> NoValue]
  /\ head = 0
  /\ tail = 0
  /\ pc = [t \in Threads |-> "out"]
  /\ op = [t \in Threads |-> "none"]
  /\ arg = [t \in Threads |-> NoValue]
  /\ obj = [t \in Threads |-> NoValue]
  /\ ret = [t \in Threads |-> FALSE]

-----------------------------------------------------------------------------
\* A thread calls one of the four operations.  A get is given a fresh obj.
Call(t, o, v) ==
  /\ pc[t] = "out"
  /\ pc' = [pc EXCEPT ![t] = "lock"]
  /\ op' = [op EXCEPT ![t] = o]
  /\ arg' = [arg EXCEPT ![t] = v]
  /\ obj' = [obj EXCEPT ![t] = NoValue]
  /\ ret' = [ret EXCEPT ![t] = FALSE]
  /\ UNCHANGED <<buff, head, tail>>

\* The thread holds mtx_ and stands at the test of the operation o.
Holds(t, o) == op[t] = o /\ pc[t] \in {"lock", "relock"}

\* cond.wait(lck): fall asleep and release mtx_.
Wait(t, cond) ==
  /\ pc' = [pc EXCEPT ![t] = cond]
  /\ UNCHANGED <<buff, head, tail, op, arg, obj, ret>>

Asleep(cond) == {w \in Threads : pc[w] = cond}

\* Slip: the waiters of the other condition are notified.
NotifyOneAndReturn_Swapped(t, cond) ==
  LET other == IF cond = "notEmpty" THEN "notFull" ELSE "notEmpty" IN
  \/ /\ Asleep(other) = {}
     /\ pc' = [pc EXCEPT ![t] = "out"]
  \/ \E w \in Asleep(other) : pc' = [pc EXCEPT ![t] = "out", ![w] = "relock"]

\* cond.notify_one() wakes one sleeper if there is any; then the operation
\* returns and releases mtx_.
NotifyOneAndReturn(t, cond) ==
  \/ /\ Asleep(cond) = {}
     /\ pc' = [pc EXCEPT ![t] = "out"]
  \/ \E w \in Asleep(cond) : pc' = [pc EXCEPT ![t] = "out", ![w] = "relock"]

\* Slip: the index is advanced before the slot is written.
Store_AdvanceFirst(t) ==
  /\ buff' = [buff EXCEPT ![NextIndex(head)] = arg[t]]
  /\ head' = NextIndex(head)
  /\ arg' = [arg EXCEPT ![t] = NoValue]
  /\ UNCHANGED <<tail, op, obj>>

Store(t) ==
  /\ buff' = [buff EXCEPT ![head] = arg[t]]
  /\ head' = NextIndex(head)
  /\ arg' = [arg EXCEPT ![t] = NoValue]
  /\ UNCHANGED <<tail, op, obj>>

\* The slot keeps its copy of the value until a later put overwrites it.
Take(t) ==
  /\ obj' = [obj EXCEPT ![t] = buff[tail]]
  /\ tail' = NextIndex(tail)
  /\ UNCHANGED <<buff, head, op, arg>>

SyncPut(t) ==
  /\ Holds(t, "syncPut")
  /\ \/ Full /\ Wait(t, "notFull")
     \/ ~Full /\ Store(t) /\ NotifyOneAndReturn(t, "notEmpty") /\ UNCHANGED ret

\* On success control runs off the end of a function declared bool: the
\* caller reads whatever the return register holds.
AsyncPut(t) ==
  /\ Holds(t, "asyncPut")
  /\ \/ /\ Full
        /\ pc' = [pc EXCEPT ![t] = "out"]
        /\ arg' = [arg EXCEPT ![t] = NoValue]
        /\ ret' = [ret EXCEPT ![t] = FALSE]
        /\ UNCHANGED <<buff, head, tail, op, obj>>
     \/ /\ ~Full
        /\ Store(t)
        /\ NotifyOneAndReturn(t, "notEmpty")
        /\ \E r \in BOOLEAN : ret' = [ret EXCEPT ![t] = r]

\* Slip: "if" instead of "while", so a woken thread does not re-test.
SyncGet_If(t) ==
  /\ Holds(t, "syncGet")
  /\ \/ pc[t] = "lock" /\ Empty /\ Wait(t, "notEmpty")
     \/ /\ pc[t] = "relock" \/ ~Empty
        /\ Take(t)
        /\ NotifyOneAndReturn(t, "notFull")
        /\ ret' = [ret EXCEPT ![t] = TRUE]

SyncGet(t) ==
  /\ Holds(t, "syncGet")
  /\ \/ Empty /\ Wait(t, "notEmpty")
     \/ /\ ~Empty
        /\ Take(t)
        /\ NotifyOneAndReturn(t, "notFull")
        /\ ret' = [ret EXCEPT ![t] = TRUE]

AsyncGet(t) ==
  /\ Holds(t, "asyncGet")
  /\ \/ /\ Empty
        /\ pc' = [pc EXCEPT ![t] = "out"]
        /\ ret' = [ret EXCEPT ![t] = FALSE]
        /\ UNCHANGED <<buff, head, tail, op, arg, obj>>
     \/ /\ ~Empty
        /\ Take(t)
        /\ NotifyOneAndReturn(t, "notFull")
        /\ ret' = [ret EXCEPT ![t] = TRUE]

\* std::condition_variable::wait may return without a notification.
SpuriousWakeup(t) ==
  /\ pc[t] \in {"notFull", "notEmpty"}
  /\ pc' = [pc EXCEPT ![t] = "relock"]
  /\ UNCHANGED <<buff, head, tail, op, arg, obj, ret>>

Next ==
  \E t \in Threads :
    \/ \E o \in PutOps, v \in Values : Call(t, o, v)
    \/ \E o \in GetOps : Call(t, o, NoValue)
    \/ SyncPut(t)
    \/ AsyncPut(t)
    \/ SyncGet(t)
    \/ AsyncGet(t)
    \/ SpuriousWakeup(t)

Spec == Init /\ [][Next]_vars

-----------------------------------------------------------------------------
\* How many values are inside, and the values themselves, oldest first.
Count == IF head >= tail THEN head - tail ELSE head - tail + Size
SlotOf(i) == IF tail + i - 1 < Size THEN tail + i - 1 ELSE tail + i - 1 - Size
Contents == [i \in 1 .. Count |-> buff[SlotOf(i)]]

\* The states of the buffer are well formed: indices stay inside the array
\* of ConcurrentRingBuffer.h:21, and a thread's place fits its operation.
TypeOK ==
  /\ buff \in [Slots -> Values \cup {NoValue}]
  /\ head \in Slots
  /\ tail \in Slots
  /\ pc \in [Threads -> {"out", "lock", "notFull", "notEmpty", "relock"}]
  /\ op \in [Threads -> PutOps \cup GetOps \cup {"none"}]
  /\ arg \in [Threads -> Values \cup {NoValue}]
  /\ obj \in [Threads -> Values \cup {NoValue}]
  /\ ret \in [Threads -> BOOLEAN]
  /\ \A t \in Threads :
       /\ pc[t] # "out" => op[t] # "none"
       /\ pc[t] = "notFull" => op[t] = "syncPut"
       /\ pc[t] = "notEmpty" => op[t] = "syncGet"
       /\ pc[t] = "relock" => op[t] \in {"syncPut", "syncGet"}

Woken(o) == {t \in Threads : pc[t] = "relock" /\ op[t] = o}

\* One notify_one per put and one per get (lines 42, 52, 64, 75) is enough:
\* while a getter sleeps, every value inside is matched by a getter that has
\* been woken and not yet run, and while a putter sleeps every free slot is
\* matched by a woken putter.  So no thread sleeps through work that nobody
\* is on the way to do.
NoLostWakeup ==
  /\ Asleep("notEmpty") # {} => Count <= Cardinality(Woken("syncGet"))
  /\ Asleep("notFull") # {} => Size - 1 - Count <= Cardinality(Woken("syncPut"))

\* The ring implements a FIFO queue of Size - 1 places: whatever threads call
\* and however they are woken, values leave in the order of arrival, once
\* each, and only a full ring refuses one.
Fifo == INSTANCE BoundedFifo WITH queue <- Contents, Capacity <- Size - 1
ImplementsFifo == Fifo!Spec
=============================================================================
