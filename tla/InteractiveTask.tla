--------------------------- MODULE InteractiveTask ---------------------------
(***************************************************************************)
(* multi-threading/InteractiveTask.cpp: a task with a thread of its own    *)
(* that handles the messages other threads send it.  A message travels in  *)
(* two parts: the message itself through recvMsgQueue_, and a token in the *)
(* counter of eventFd_ that tells the task to look.  notifyMsg writes the  *)
(* token after the message, outside any lock, so the two can be out of     *)
(* step, and the task may read a token that belongs to another sender's    *)
(* message.                                                                *)
(*                                                                         *)
(* With a reactor (hasReactor) the eventfd is a one-shot event of the      *)
(* loop; without one the task blocks in read().  recvMsgQueue_ is the      *)
(* BoundedFifo that ConcurrentRingBuffer implements.                       *)
(***************************************************************************)
EXTENDS Integers, Sequences, FiniteSets

CONSTANTS
  Senders,        \* threads that send to this task
  QueueCapacity,  \* places of recvMsgQueue_ (49999 in the code)
  MaxSends        \* bound: messages each sender sends

ASSUME SendersAssumption == IsFiniteSet(Senders)
ASSUME BoundsAssumption == QueueCapacity \in Nat \ {0} /\ MaxSends \in Nat

VARIABLES
  hasReactor,  \* spEventReactor_ was given to the constructor
  pc,          \* where the task's thread is
  stat,        \* stat_
  eventFd,     \* eventFd_: "none", "open" or "closed"
  counter,     \* the kernel's counter of the eventfd
  armed,       \* the eventfd's read event is added to the reactor
  registered,  \* the MessageCenter knows the task
  alive,       \* the task object exists
  queue,       \* recvMsgQueue_, oldest first
  message,     \* the message being handled
  spc,         \* where each sender is
  sent,        \* number of messages each sender has put
  handled,     \* number of messages of each sender that were handled
  late         \* number of messages handled after a stop was requested

taskVars == <<stat, eventFd, counter, armed, registered, alive>>
vars == <<hasReactor, pc, taskVars, queue, message, spc, sent, handled, late>>

Messages == Senders \X Nat
NoMessage == <<"none", 0>>

Init ==
  /\ hasReactor \in BOOLEAN
  /\ pc = "new"
  /\ stat = "STARTING"
  /\ eventFd = "none"
  /\ counter = 0
  /\ armed = FALSE
  /\ registered = FALSE
  /\ alive = TRUE
  /\ queue = << >>
  /\ message = NoMessage
  /\ spc = [s \in Senders |-> "idle"]
  /\ sent = [s \in Senders |-> 0]
  /\ handled = [s \in Senders |-> 0]
  /\ late = 0

-----------------------------------------------------------------------------
(* The task's thread: start(), the message loop and __stop().              *)

Start ==
  /\ pc = "new"
  /\ eventFd' = "open"
  /\ stat' = "RUNNING"
  /\ armed' = hasReactor
  /\ pc' = "regist"
  /\ UNCHANGED <<hasReactor, counter, registered, alive, queue, message, spc, sent, handled, late>>

Regist ==
  /\ pc = "regist"
  /\ registered' = TRUE
  /\ pc' = "onStart"
  /\ UNCHANGED <<hasReactor, stat, eventFd, counter, armed, alive, queue, message, spc, sent, handled, late>>

OnStart ==
  /\ pc = "onStart"
  /\ pc' = "loop"
  /\ UNCHANGED <<hasReactor, taskVars, queue, message, spc, sent, handled, late>>

\* Slip: the handler is called although the eventfd is not readable.
Fire_Unready ==
  /\ hasReactor
  /\ pc = "loop"
  /\ armed
  /\ armed' = FALSE
  /\ pc' = "read"
  /\ UNCHANGED <<hasReactor, stat, eventFd, counter, registered, alive, queue, message, spc, sent, handled, late>>

\* The reactor finds the eventfd readable and calls __onMessage.  The event
\* is one-shot: it is off until it is added again.
Fire ==
  /\ hasReactor
  /\ pc = "loop"
  /\ armed /\ counter > 0
  /\ armed' = FALSE
  /\ pc' = "read"
  /\ UNCHANGED <<hasReactor, stat, eventFd, counter, registered, alive, queue, message, spc, sent, handled, late>>

\* Slip: the loop without a reactor does not look at stat_.
CheckStat_Forever ==
  /\ ~hasReactor
  /\ pc = "loop"
  /\ pc' = "read"
  /\ UNCHANGED <<hasReactor, taskVars, queue, message, spc, sent, handled, late>>

CheckStat ==
  /\ ~hasReactor
  /\ pc = "loop"
  /\ pc' = IF stat = "RUNNING" THEN "read" ELSE "stop"
  /\ UNCHANGED <<hasReactor, taskVars, queue, message, spc, sent, handled, late>>

\* Slip: an eventfd without EFD_SEMAPHORE, whose read takes the whole counter.
Read_WholeCounter ==
  /\ pc = "read"
  /\ counter > 0
  /\ counter' = 0
  /\ pc' = "get"
  /\ UNCHANGED <<hasReactor, stat, eventFd, armed, registered, alive, queue, message, spc, sent, handled, late>>

\* read(eventFd_) blocks while the counter is 0; the eventfd is a semaphore,
\* so it takes one token and returns the value 1.
Read ==
  /\ pc = "read"
  /\ counter > 0
  /\ counter' = counter - 1
  /\ pc' = "get"
  /\ UNCHANGED <<hasReactor, stat, eventFd, armed, registered, alive, queue, message, spc, sent, handled, late>>

\* recvMsgQueue_.syncGet blocks while the queue is empty.
Get ==
  /\ pc = "get"
  /\ queue # << >>
  /\ message' = Head(queue)
  /\ queue' = Tail(queue)
  /\ pc' = "handle"
  /\ UNCHANGED <<hasReactor, taskVars, spc, sent, handled, late>>

\* Slip: the task always adds its event again, with a reactor or without.
Handle_AlwaysRearm ==
  /\ pc = "handle"
  /\ handled' = [handled EXCEPT ![message[1]] = @ + 1]
  /\ late' = IF stat = "RUNNING" THEN 0 ELSE late + 1
  /\ message' = NoMessage
  /\ pc' = "rearm"
  /\ UNCHANGED <<hasReactor, taskVars, queue, spc, sent>>

\* onMessage of the subclass.
Handle ==
  /\ pc = "handle"
  /\ handled' = [handled EXCEPT ![message[1]] = @ + 1]
  /\ late' = IF stat = "RUNNING" THEN 0 ELSE late + 1
  /\ message' = NoMessage
  /\ pc' = IF hasReactor THEN "rearm" ELSE "loop"
  /\ UNCHANGED <<hasReactor, taskVars, queue, spc, sent>>

\* Slip: the one-shot event is not added again after a message.
Rearm_Forgotten ==
  /\ pc = "rearm"
  /\ pc' = "loop"
  /\ UNCHANGED <<hasReactor, taskVars, queue, message, spc, sent, handled, late>>

Rearm ==
  /\ pc = "rearm"
  /\ armed' = TRUE
  /\ pc' = "loop"
  /\ UNCHANGED <<hasReactor, stat, eventFd, counter, registered, alive, queue, message, spc, sent, handled, late>>

\* The loop has ended: setStat(STOPPED), onStop() of the subclass.
Stop ==
  /\ pc = "stop"
  /\ stat' = "STOPPED"
  /\ pc' = "unregist"
  /\ UNCHANGED <<hasReactor, eventFd, counter, armed, registered, alive, queue, message, spc, sent, handled, late>>

Unregist ==
  /\ pc = "unregist"
  /\ registered' = FALSE
  /\ pc' = "close"
  /\ UNCHANGED <<hasReactor, stat, eventFd, counter, armed, alive, queue, message, spc, sent, handled, late>>

\* destroyReactor(), close(eventFd_).
Close ==
  /\ pc = "close"
  /\ eventFd' = "closed"
  /\ counter' = 0
  /\ armed' = FALSE
  /\ pc' = "stopped"
  /\ UNCHANGED <<hasReactor, stat, registered, alive, queue, message, spc, sent, handled, late>>

\* The last shared_ptr to a stopped task is dropped.
Release ==
  /\ pc = "stopped" /\ alive
  /\ \A s \in Senders : spc[s] \notin {"put", "write"}
  /\ alive' = FALSE
  /\ UNCHANGED <<hasReactor, pc, stat, eventFd, counter, armed, registered, queue, message, spc, sent, handled, late>>

\* Another thread that knows the task calls the public setStat.
SetStat ==
  /\ registered
  /\ stat' = "STOPPED"
  /\ UNCHANGED <<hasReactor, pc, eventFd, counter, armed, registered, alive, queue, message, spc, sent, handled, late>>

-----------------------------------------------------------------------------
(* A sender: MessageCenter::syncSendMsgTo and notifyMsg.                   *)

At(s, from, to) == spc[s] = from /\ spc' = [spc EXCEPT ![s] = to]

SendMsgTo(s) ==
  /\ sent[s] < MaxSends
  /\ At(s, "idle", "waitFind")
  /\ UNCHANGED <<hasReactor, pc, taskVars, queue, message, sent, handled, late>>

\* taskMap_.waitFind returns a weak_ptr once the task is registered.
WaitFind(s) ==
  /\ registered
  /\ At(s, "waitFind", "lock")
  /\ UNCHANGED <<hasReactor, pc, taskVars, queue, message, sent, handled, late>>

\* wpTask.lock(): RECEIVER_NOT_EXIST if the task is gone by now.
LockTask(s) ==
  /\ At(s, "lock", IF alive THEN "put" ELSE "idle")
  /\ UNCHANGED <<hasReactor, pc, taskVars, queue, message, sent, handled, late>>

\* recvMsgQueue_.syncPut blocks while the queue is full.
Put(s) ==
  /\ Len(queue) < QueueCapacity
  /\ At(s, "put", "write")
  /\ sent' = [sent EXCEPT ![s] = @ + 1]
  /\ queue' = Append(queue, <<s, sent'[s]>>)
  /\ UNCHANGED <<hasReactor, pc, taskVars, message, handled, late>>

\* write(eventFd_): the token is lost if the eventfd is closed by then.
Write(s) ==
  /\ At(s, "write", "idle")
  /\ counter' = IF eventFd = "open" THEN counter + 1 ELSE counter
  /\ UNCHANGED <<hasReactor, pc, stat, eventFd, armed, registered, alive, queue, message, sent, handled, late>>

-----------------------------------------------------------------------------
TaskStep ==
  \/ Start \/ Regist \/ OnStart \/ Fire \/ CheckStat \/ Read \/ Get \/ Handle
  \/ Rearm \/ Stop \/ Unregist \/ Close

SenderStep(s) == SendMsgTo(s) \/ WaitFind(s) \/ LockTask(s) \/ Put(s) \/ Write(s)

Next == TaskStep \/ Release \/ SetStat \/ \E s \in Senders : SenderStep(s)

Spec == Init /\ [][Next]_vars

\* The operating system runs the task's thread and lets a sender finish
\* notifyMsg; nothing makes a sender send.
FairSpec == Spec /\ WF_vars(TaskStep) /\ \A s \in Senders : WF_vars(Write(s))

-----------------------------------------------------------------------------
TaskPlaces ==
  {"new", "regist", "onStart", "loop", "read", "get", "handle", "rearm",
   "stop", "unregist", "close", "stopped"}

\* Types, and which places of start() a message and a reactor are needed at.
TypeOK ==
  /\ hasReactor \in BOOLEAN
  /\ pc \in TaskPlaces
  /\ stat \in {"STARTING", "RUNNING", "STOPPED"}
  /\ eventFd \in {"none", "open", "closed"}
  /\ counter \in Nat
  /\ armed \in BOOLEAN /\ registered \in BOOLEAN /\ alive \in BOOLEAN
  /\ queue \in Seq(Messages)
  /\ message \in Messages \cup {NoMessage}
  /\ spc \in [Senders -> {"idle", "waitFind", "lock", "put", "write"}]
  /\ sent \in [Senders -> Nat]
  /\ handled \in [Senders -> Nat]
  /\ late \in Nat
  /\ pc = "handle" => message \in Messages
  /\ pc = "rearm" => hasReactor

Writing == {s \in Senders : spc[s] = "write"}
TokenInHand == IF pc = "get" THEN 1 ELSE 0

\* Every queued message has its token: in the eventfd, in the hands of the
\* sender that is about to write it, or in those of the task that has just
\* read it.  Both halves of notifyMsg and of __onMessage keep the count.
TokenAccounting ==
  pc \in TaskPlaces \ {"new", "stopped"} =>
    Len(queue) = counter + Cardinality(Writing) + TokenInHand

\* The comment at utils/Utils.cpp:28: the eventfd need not be non-blocking,
\* because an event means there is something to read.  Once the reactor has
\* called __onMessage neither its read nor its syncGet can block the loop.
NeverBlocksInHandler ==
  /\ hasReactor /\ pc = "read" => counter > 0
  /\ pc = "get" => queue # << >>

\* A task without a reactor that was told to stop handles at most the one
\* message it was waiting for (InteractiveTask.cpp:54).
AtMostOneAfterStop == ~hasReactor => late <= 1

\* Whatever is put into the queue is handled, although the token is written
\* later and by a one-shot event at a time; only a task without a reactor
\* that is told to stop leaves messages behind.
EverySentIsHandled ==
  \A s \in Senders : \A n \in 1 .. MaxSends :
    sent[s] >= n ~> (handled[s] >= n \/ (~hasReactor /\ stat = "STOPPED"))
=============================================================================
