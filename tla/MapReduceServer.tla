--------------------------- MODULE MapReduceServer ---------------------------
(***************************************************************************)
(* examples/MapReduceServer: a client sends a list of files, the worker's  *)
(* loop posts one MapTask per file to the ThreadPool, each task sends the  *)
(* largest number of its file back to the loop as a MapDone message, and   *)
(* the loop reduces them and answers the client.                           *)
(*                                                                         *)
(* Three kinds of threads meet here: main (accepts), the loop of the one   *)
(* NetWorkService, and the threads of the pool.  They share the task       *)
(* queue, the service's mailbox, and the ownership of the connections: a   *)
(* MapTask holds a shared_ptr to its connection (MapReduceConnection.cpp   *)
(* line 97 binds shared_from_this()), and the last owner to let go runs    *)
(* ~Stream, which closes the descriptor; the kernel then gives the number  *)
(* to a new client.  A MapDone message names its connection by descriptor. *)
(*                                                                         *)
(* A mailbox message is handled once it is put: InteractiveTask shows that *)
(* each has its token.  A request and an answer arrive whole:              *)
(* EchoConnection models Stream.  A file is the sequence of its numbers.   *)
(***************************************************************************)
EXTENDS Integers, Sequences, FiniteSets, FiniteSetsExt, SequencesExt

CONSTANTS
  Conns,              \* bound: clients, each connects once
  Fds,                \* bound: descriptors the kernel can give out
  Pool,               \* the threads of the pool that are left for tasks
  Requests,           \* what a client may ask: sequences of files
  MaxRequests,        \* bound: requests a client sends
  TaskQueueCapacity,  \* places of ThreadPool::taskQueue_ (999 in the code)
  MailboxCapacity,    \* places of recvMsgQueue_ (49999 in the code)
  Ints,               \* bound: what an int nobody has initialised may hold
  None

ASSUME CapacityAssumption ==
  TaskQueueCapacity \in Nat \ {0} /\ MailboxCapacity \in Nat \ {0}
ASSUME NoneAssumption == None \notin Conns
ASSUME PoolAssumption == IsFiniteSet(Pool)

VARIABLES
  peer,        \* each client: "away", "connected" or "closed"
  asked,       \* the requests it has sent
  unread,      \* those still in the kernel
  answers,     \* the answers it got
  fdOf,        \* its descriptor
  object,      \* its connection: "none", "accepted" (no object yet), "live", "freed"
  freedBy,     \* the thread that ran ~Stream: None, "loop" or "pool"
  map,         \* connectionMap_
  readEvent,   \* the read event of a connection is added
  writeEvent,  \* the write event of a connection is added
  taskCount, firstCome, curMaxNum,   \* fields of MapReduceConnection
  result,      \* sendBuf_: the answer being sent
  posting,     \* the connection whose request the loop is posting, or None
  todo,        \* the files of it still to be posted
  taskQueue,   \* MapTasks nobody has taken: [conn, file]
  worker,      \* what each pool thread does: [task, step]
  mailbox,     \* recvMsgQueue_ of the NetWorkService
  accepting    \* the client whose NEW_CONNECT main is about to put, or None

clientVars == <<peer, asked, unread, answers>>
ownVars == <<fdOf, object, freedBy, map>>
eventVars == <<readEvent, writeEvent>>
reduceVars == <<taskCount, firstCome, curMaxNum, result>>
loopVars == <<posting, todo>>
poolVars == <<taskQueue, worker>>
mainVars == <<mailbox, accepting>>
vars == <<clientVars, ownVars, eventVars, reduceVars, loopVars, poolVars, mainVars>>

\* reduce: the larger number.
ReduceTwo(last, cur) == IF cur > last THEN cur ELSE last

\* What mapFunction may compute for a file.  The first number starts the
\* maximum; of an empty file nothing is read, and maxNum was not initialised.
MapFunction(file) ==
  IF file = << >> THEN Ints ELSE {FoldLeft(ReduceTwo, file[1], file)}

\* What BenchmarkTest computes on its own thread, to compare with the answer.
SerialMax(files) ==
  FoldLeft(ReduceTwo, IF files[1] = << >> THEN 0 ELSE files[1][1], FlattenSeq(files))

Idle == [conn |-> None, file |-> << >>, step |-> "idle"]

Init ==
  /\ peer = [c \in Conns |-> "away"]
  /\ asked = [c \in Conns |-> << >>]
  /\ unread = [c \in Conns |-> << >>]
  /\ answers = [c \in Conns |-> << >>]
  /\ fdOf = [c \in Conns |-> None]
  /\ object = [c \in Conns |-> "none"]
  /\ freedBy = [c \in Conns |-> None]
  /\ map = [fd \in Fds |-> None]
  /\ readEvent = [c \in Conns |-> FALSE]
  /\ writeEvent = [c \in Conns |-> FALSE]
  /\ taskCount = [c \in Conns |-> 0]
  /\ firstCome = [c \in Conns |-> TRUE]
  /\ curMaxNum = [c \in Conns |-> 0]
  /\ result = [c \in Conns |-> 0]
  /\ posting = None
  /\ todo = << >>
  /\ taskQueue = << >>
  /\ worker = [p \in Pool |-> Idle]
  /\ mailbox = << >>
  /\ accepting = None

FdOpen(fd) == \E c \in Conns : fdOf[c] = fd /\ object[c] \in {"accepted", "live"}

\* Slip: mapFunction keeps the handle of its connection and no reference.
HeldByTask_QueuedOnly(c, threads) == \E i \in 1 .. Len(taskQueue) : taskQueue[i].conn = c

\* A task in the queue, or one that one of the given threads runs, holds a
\* shared_ptr to the connection.
HeldByTask(c, threads) ==
  \/ \E i \in 1 .. Len(taskQueue) : taskQueue[i].conn = c
  \/ \E p \in threads : worker[p].conn = c

-----------------------------------------------------------------------------
(* The clients                                                             *)

ClientSends(c, files) ==
  /\ peer[c] = "connected"
  /\ Len(asked[c]) < MaxRequests
  /\ asked' = [asked EXCEPT ![c] = Append(@, files)]
  /\ unread' = [unread EXCEPT ![c] = Append(@, files)]
  /\ UNCHANGED <<peer, answers, ownVars, eventVars, reduceVars, loopVars, poolVars, mainVars>>

ClientCloses(c) ==
  /\ peer[c] = "connected"
  /\ peer' = [peer EXCEPT ![c] = "closed"]
  /\ UNCHANGED <<asked, unread, answers, ownVars, eventVars, reduceVars, loopVars, poolVars, mainVars>>

-----------------------------------------------------------------------------
(* Main: NetAcceptService::__onAccept                                      *)

\* The kernel gives the new connection a number that is not in use.
Accept(c, fd) ==
  /\ accepting = None
  /\ peer[c] = "away"
  /\ ~FdOpen(fd)
  /\ peer' = [peer EXCEPT ![c] = "connected"]
  /\ fdOf' = [fdOf EXCEPT ![c] = fd]
  /\ object' = [object EXCEPT ![c] = "accepted"]
  /\ accepting' = c
  /\ UNCHANGED <<asked, unread, answers, freedBy, map, eventVars, reduceVars, loopVars, poolVars, mailbox>>

NotifyNewConnect ==
  /\ accepting # None
  /\ Len(mailbox) < MailboxCapacity
  /\ mailbox' = Append(mailbox, [what |-> "NEW_CONNECT", fd |-> fdOf[accepting], num |-> 0, from |-> accepting])
  /\ accepting' = None
  /\ UNCHANGED <<clientVars, ownVars, eventVars, reduceVars, loopVars, poolVars>>

-----------------------------------------------------------------------------
(* The loop of the NetWorkService                                          *)

LoopFree == posting = None

\* onMessage of NEW_CONNECT: onConnection makes the connection, adds it to
\* the map and asks for the first head.  A connection that the map does not
\* take is destroyed when onConnection returns.
OnNewConnect ==
  /\ LoopFree
  /\ mailbox # << >> /\ Head(mailbox).what = "NEW_CONNECT"
  /\ LET c == Head(mailbox).from
         fits == map[fdOf[c]] = None
     IN
       /\ object' = [object EXCEPT ![c] = IF fits THEN "live" ELSE "freed"]
       /\ freedBy' = [freedBy EXCEPT ![c] = IF fits THEN @ ELSE "loop"]
       /\ map' = [map EXCEPT ![fdOf[c]] = IF fits THEN c ELSE @]
       /\ readEvent' = [readEvent EXCEPT ![c] = fits]
  /\ mailbox' = Tail(mailbox)
  /\ UNCHANGED <<clientVars, fdOf, writeEvent, reduceVars, loopVars, poolVars, accepting>>

\* recvCompleteCallback with a body: the handler starts to post the tasks.
RecvRequest(c) ==
  /\ LoopFree
  /\ object[c] = "live" /\ readEvent[c]
  /\ unread[c] # << >>
  /\ unread' = [unread EXCEPT ![c] = Tail(@)]
  /\ readEvent' = [readEvent EXCEPT ![c] = FALSE]
  /\ posting' = c
  /\ todo' = Head(unread[c])
  /\ UNCHANGED <<peer, asked, answers, ownVars, writeEvent, reduceVars, poolVars, mainVars>>

\* Slip: the task is posted and not counted.
PostTask_NoCount ==
  /\ posting # None
  /\ Len(taskQueue) < TaskQueueCapacity
  /\ taskQueue' = Append(taskQueue, [conn |-> posting, file |-> Head(todo)])
  /\ todo' = Tail(todo)
  /\ IF Tail(todo) = << >>
       THEN /\ readEvent' = [readEvent EXCEPT ![posting] = TRUE]
            /\ posting' = None
       ELSE UNCHANGED <<readEvent, posting>>
  /\ UNCHANGED <<clientVars, ownVars, writeEvent, reduceVars, worker, mainVars>>

\* One round of the loop over the files: syncPostTask blocks the whole loop
\* while the task queue is full.  After the last file the next head is asked
\* for and the handler returns.
PostTask ==
  /\ posting # None
  /\ Len(taskQueue) < TaskQueueCapacity
  /\ taskQueue' = Append(taskQueue, [conn |-> posting, file |-> Head(todo)])
  /\ taskCount' = [taskCount EXCEPT ![posting] = @ + 1]
  /\ todo' = Tail(todo)
  /\ IF Tail(todo) = << >>
       THEN /\ readEvent' = [readEvent EXCEPT ![posting] = TRUE]
            /\ posting' = None
       ELSE UNCHANGED <<readEvent, posting>>
  /\ UNCHANGED <<clientVars, ownVars, writeEvent, firstCome, curMaxNum, result, worker, mainVars>>

\* Slip: the answer is sent when one task is left instead of none.
Reduce_Early(c, num) ==
  LET m == IF firstCome[c] THEN num ELSE ReduceTwo(curMaxNum[c], num)
      done == taskCount[c] - 1 <= 1
  IN
  /\ taskCount' = [taskCount EXCEPT ![c] = @ - 1]
  /\ firstCome' = [firstCome EXCEPT ![c] = FALSE]
  /\ curMaxNum' = [curMaxNum EXCEPT ![c] = m]
  /\ result' = IF done THEN [result EXCEPT ![c] = m] ELSE result
  /\ writeEvent' = IF done THEN [writeEvent EXCEPT ![c] = TRUE] ELSE writeEvent

\* Slip: the count is tested before it is counted down.
Reduce_TestFirst(c, num) ==
  LET m == IF firstCome[c] THEN num ELSE ReduceTwo(curMaxNum[c], num)
      done == taskCount[c] = 0
  IN
  /\ taskCount' = [taskCount EXCEPT ![c] = @ - 1]
  /\ firstCome' = [firstCome EXCEPT ![c] = FALSE]
  /\ curMaxNum' = [curMaxNum EXCEPT ![c] = m]
  /\ result' = IF done THEN [result EXCEPT ![c] = m] ELSE result
  /\ writeEvent' = IF done THEN [writeEvent EXCEPT ![c] = TRUE] ELSE writeEvent

\* MapReduceConnection::onMessage: count down, keep the larger number, and
\* send the result when no task is left.
Reduce(c, num) ==
  LET m == IF firstCome[c] THEN num ELSE ReduceTwo(curMaxNum[c], num)
      done == taskCount[c] - 1 = 0
  IN
  /\ taskCount' = [taskCount EXCEPT ![c] = @ - 1]
  /\ firstCome' = [firstCome EXCEPT ![c] = FALSE]
  /\ curMaxNum' = [curMaxNum EXCEPT ![c] = m]
  /\ result' = IF done THEN [result EXCEPT ![c] = m] ELSE result
  /\ writeEvent' = IF done THEN [writeEvent EXCEPT ![c] = TRUE] ELSE writeEvent

\* onMessage of CONNECTION: the descriptor is looked up in the map; a message
\* whose connection is not there any more is dropped.
OnMapDone ==
  /\ LoopFree
  /\ mailbox # << >> /\ Head(mailbox).what = "CONNECTION"
  /\ LET c == map[Head(mailbox).fd] IN
       \/ c # None /\ Reduce(c, Head(mailbox).num)
       \/ c = None /\ UNCHANGED <<reduceVars, writeEvent>>
  /\ mailbox' = Tail(mailbox)
  /\ UNCHANGED <<clientVars, ownVars, readEvent, loopVars, poolVars, accepting>>

\* _destroy, called when the read or the write event has fired: the map's
\* reference goes; if no task holds one, ~Stream runs, removes the events and
\* closes the descriptor.  Otherwise the other event stays added.
Destroy(c, fired) ==
  LET held == HeldByTask(c, Pool) IN
  /\ map' = [map EXCEPT ![fdOf[c]] = None]
  /\ readEvent' = [readEvent EXCEPT ![c] = @ /\ held /\ fired # "read"]
  /\ writeEvent' = [writeEvent EXCEPT ![c] = @ /\ held /\ fired # "write"]
  /\ object' = [object EXCEPT ![c] = IF held THEN @ ELSE "freed"]
  /\ freedBy' = [freedBy EXCEPT ![c] = IF held THEN @ ELSE "loop"]
  /\ UNCHANGED <<fdOf, clientVars, reduceVars, loopVars, poolVars, mainVars>>

\* recv reports the end of the connection, or an error.
RecvError(c) ==
  /\ LoopFree
  /\ object[c] = "live" /\ readEvent[c] /\ peer[c] = "closed"
  /\ Destroy(c, "read")

\* The result is sent, though a client that has left does not see it;
\* sendCompleteCallback has nothing to do.
SendResult(c) ==
  /\ LoopFree
  /\ object[c] = "live" /\ writeEvent[c]
  /\ answers' = IF peer[c] = "connected" THEN [answers EXCEPT ![c] = Append(@, result[c])] ELSE answers
  /\ writeEvent' = [writeEvent EXCEPT ![c] = FALSE]
  /\ UNCHANGED <<peer, asked, unread, ownVars, readEvent, reduceVars, loopVars, poolVars, mainVars>>

SendError(c) ==
  /\ LoopFree
  /\ object[c] = "live" /\ writeEvent[c] /\ peer[c] = "closed"
  /\ Destroy(c, "write")

-----------------------------------------------------------------------------
(* A thread of the pool: MapTask::run and mapFunction                      *)

TakeTask(p) ==
  /\ worker[p].step = "idle"
  /\ taskQueue # << >>
  /\ worker' = [worker EXCEPT ![p] = [conn |-> Head(taskQueue).conn, file |-> Head(taskQueue).file, step |-> "run"]]
  /\ taskQueue' = Tail(taskQueue)
  /\ UNCHANGED <<clientVars, ownVars, eventVars, reduceVars, loopVars, mainVars>>

\* The file is read and notifyMsg puts the result; it blocks while the
\* mailbox is full.
NotifyMapDone(p) ==
  LET c == worker[p].conn IN
  /\ worker[p].step = "run"
  /\ Len(mailbox) < MailboxCapacity
  /\ \E num \in MapFunction(worker[p].file) :
       mailbox' = Append(mailbox, [what |-> "CONNECTION", fd |-> fdOf[c], num |-> num, from |-> c])
  /\ worker' = [worker EXCEPT ![p].step = "release"]
  /\ UNCHANGED <<clientVars, ownVars, eventVars, reduceVars, loopVars, taskQueue, accepting>>

\* Slip: the task is finished without giving its reference up (run does not
\* clear runCallback_, and the queue's slot keeps the task).
ReleaseTask_Keep(p) ==
  /\ worker[p].step = "release"
  /\ worker' = [worker EXCEPT ![p] = Idle]
  /\ UNCHANGED <<clientVars, ownVars, eventVars, reduceVars, loopVars, taskQueue, mainVars>>

\* mapFunction has returned and run clears runCallback_: the task's reference
\* goes.  If it was the last one, ~Stream runs on this thread.
ReleaseTask(p) ==
  LET c == worker[p].conn
      last == map[fdOf[c]] # c /\ ~HeldByTask(c, Pool \ {p})
  IN
  /\ worker[p].step = "release"
  /\ worker' = [worker EXCEPT ![p] = Idle]
  /\ object' = [object EXCEPT ![c] = IF last THEN "freed" ELSE @]
  /\ freedBy' = [freedBy EXCEPT ![c] = IF last THEN "pool" ELSE @]
  /\ readEvent' = [readEvent EXCEPT ![c] = @ /\ ~last]
  /\ writeEvent' = [writeEvent EXCEPT ![c] = @ /\ ~last]
  /\ UNCHANGED <<clientVars, fdOf, map, reduceVars, loopVars, taskQueue, mainVars>>

-----------------------------------------------------------------------------
ConnStep(c) == RecvRequest(c) \/ RecvError(c) \/ SendResult(c) \/ SendError(c)
MessageStep == OnNewConnect \/ OnMapDone
PoolStep(p) == TakeTask(p) \/ NotifyMapDone(p) \/ ReleaseTask(p)

Next ==
  \/ \E c \in Conns :
       \/ \E files \in Requests : ClientSends(c, files)
       \/ ClientCloses(c)
       \/ \E fd \in Fds : Accept(c, fd)
       \/ ConnStep(c)
  \/ NotifyNewConnect
  \/ MessageStep
  \/ PostTask
  \/ \E p \in Pool : PoolStep(p)

Spec == Init /\ [][Next]_vars

\* Threads are scheduled, and the loop serves its event sources in turn; the
\* clients do as they please.
FairSpec ==
  /\ Spec
  /\ WF_vars(NotifyNewConnect) /\ WF_vars(PostTask) /\ SF_vars(MessageStep)
  /\ \A c \in Conns : SF_vars(ConnStep(c))
  /\ \A p \in Pool : WF_vars(PoolStep(p))

-----------------------------------------------------------------------------
\* Types: no result is counted that was not posted, queues keep their limits.
TypeOK ==
  /\ peer \in [Conns -> {"away", "connected", "closed"}]
  /\ fdOf \in [Conns -> Fds \cup {None}] /\ map \in [Fds -> Conns \cup {None}]
  /\ object \in [Conns -> {"none", "accepted", "live", "freed"}]
  /\ freedBy \in [Conns -> {None, "loop", "pool"}]
  /\ readEvent \in [Conns -> BOOLEAN] /\ writeEvent \in [Conns -> BOOLEAN]
  /\ taskCount \in [Conns -> Nat] /\ firstCome \in [Conns -> BOOLEAN]
  /\ posting \in Conns \cup {None} /\ accepting \in Conns \cup {None}
  /\ Len(taskQueue) <= TaskQueueCapacity /\ Len(mailbox) <= MailboxCapacity

\* "Release the global reference first, to avoid cross talk"
\* (MapReduceConnection.cpp:117): the result of one client's task is never
\* counted for another client that got the same descriptor.
NoCrossTalk ==
  mailbox # << >> /\ Head(mailbox).what = "CONNECTION" =>
    map[Head(mailbox).fd] \in {None, Head(mailbox).from}

\* "The algorithm is the same" and "several instances at once show that the
\* results agree" (BenchmarkTest.cpp:4 and 6): whatever the pool does first
\* and whoever else asks, a client is answered what it computes itself.
AnswersAreRight ==
  \A c \in Conns : \A i \in 1 .. Len(answers[c]) :
    i <= Len(asked[c]) /\ answers[c][i] = SerialMax(asked[c][i])

\* "Not thread safe, do not operate on an instance in another thread"
\* (Stream.cpp:5): while the loop is in the handler of a request, no pool
\* thread destroys the connection and the stream the handler works on.
HandlerOnLiveObject == posting # None => object[posting] = "live"

\* "... and return the result to the client" (MapReduceServer.cpp:4): every
\* client that stays gets an answer to what it asked.
EveryRequestAnswered ==
  \A c \in Conns : asked[c] # << >> ~> (answers[c] # << >> \/ peer[c] = "closed")

\* When a client has left, its connection is destroyed and its descriptor
\* closed in the end, whatever tasks were under way.
NoLeak == \A c \in Conns : peer[c] = "closed" ~> object[c] = "freed"
=============================================================================
