------------------------------ MODULE TcpServer ------------------------------
(***************************************************************************)
(* network/TcpServer.cpp with the parts it sets to work: the main thread   *)
(* starts the ThreadPool, posts one NetWorkService per loop thread, waits  *)
(* until each is registered, and then becomes the NetAcceptService, which  *)
(* hands each accepted socket to the workers in turn.  A worker runs on a  *)
(* thread of the pool, keeps its connections by descriptor in              *)
(* connectionMap_, and destroys a connection when its peer closes.         *)
(*                                                                         *)
(* The kernel gives out the number of a closed descriptor again, while     *)
(* main and the workers run concurrently.  Mailboxes are those of          *)
(* InteractiveTask: a message first, its eventfd token after it; the       *)
(* handler of one message is a single step here.                           *)
(***************************************************************************)
EXTENDS Integers, Sequences, FiniteSets

CONSTANTS
  NetWorkServiceNum,  \* netWorkServiceNum_
  ThreadPoolNum,      \* threadPoolNum_
  TaskQueueCapacity,  \* places of ThreadPool::taskQueue_ (999 in the code)
  MailboxCapacity,    \* places of recvMsgQueue_ (49999 in the code)
  Clients,            \* bound: clients that connect, once each
  Fds,                \* bound: descriptors the kernel can give out
  NoClient

ASSUME NumAssumption ==
  /\ NetWorkServiceNum \in Nat \ {0}
  /\ ThreadPoolNum \in Nat
  /\ TaskQueueCapacity \in Nat \ {0}
  /\ MailboxCapacity \in Nat \ {0}
ASSUME NoClientAssumption == NoClient \notin Clients
ASSUME FdsAssumption == Fds # {}

Services == 0 .. NetWorkServiceNum - 1

\* Slip: only threadPoolNum_ threads, none for the services.
AllNum_PoolOnly == ThreadPoolNum

AllNum == ThreadPoolNum + NetWorkServiceNum

Threads == 1 .. AllNum
Free == -1
Unborn == -2

VARIABLES
  mainPc,         \* where the main thread is in TcpServer::start and after it
  index,          \* loop variable of the start functions
  thread,         \* what each thread of the pool does: Unborn, Free or a service
  taskQueue,      \* ThreadPool::taskQueue_
  svcPc,          \* where each service is
  mailbox,        \* recvMsgQueue_ of each service: clients to take over
  token,          \* the counter of each service's eventFd_
  connectionMap,  \* connectionMap_ of each service
  closing,        \* the connection each service is destroying
  cur,            \* curServiceIndex_
  inHand,         \* the client that __onAccept is handing over
  client,         \* what became of each client
  fdOf,           \* the descriptor the kernel gave it
  given           \* number of connections handed to each service

poolVars == <<thread, taskQueue>>
svcVars == <<svcPc, mailbox, token, connectionMap, closing>>
netVars == <<client, fdOf>>
acceptVars == <<cur, inHand, given>>
vars == <<mainPc, index, poolVars, svcVars, netVars, acceptVars>>

Open(fd) == \E c \in Clients : fdOf[c] = fd /\ client[c] \in {"accepted", "served", "closing"}

Init ==
  /\ mainPc = "startThreadPool"
  /\ index = 0
  /\ thread = [p \in Threads |-> Unborn]
  /\ taskQueue = << >>
  /\ svcPc = [i \in Services |-> "none"]
  /\ mailbox = [i \in Services |-> << >>]
  /\ token = [i \in Services |-> 0]
  /\ connectionMap = [i \in Services |-> [fd \in Fds |-> NoClient]]
  /\ closing = [i \in Services |-> NoClient]
  /\ cur = 0
  /\ inHand = NoClient
  /\ client = [c \in Clients |-> "away"]
  /\ fdOf = [c \in Clients |-> CHOOSE fd \in Fds : TRUE]
  /\ given = [i \in Services |-> 0]

-----------------------------------------------------------------------------
(* The main thread                                                         *)

\* _startThreadPool: one thread after the other is created.
StartThread ==
  /\ mainPc = "startThreadPool"
  /\ \E p \in Threads :
       /\ thread[p] = Unborn
       /\ \A q \in Threads : q < p => thread[q] # Unborn
       /\ thread' = [thread EXCEPT ![p] = Free]
       /\ mainPc' = IF p = AllNum THEN "startNetWorkService" ELSE mainPc
  /\ UNCHANGED <<index, taskQueue, svcVars, netVars, acceptVars>>

\* _startNetWorkService: create a service and syncPostTask it.
PostService ==
  /\ mainPc = "startNetWorkService"
  /\ Len(taskQueue) < TaskQueueCapacity
  /\ svcPc' = [svcPc EXCEPT ![index] = "posted"]
  /\ taskQueue' = Append(taskQueue, index)
  /\ IF index + 1 = NetWorkServiceNum
       THEN mainPc' = "waitWorkers" /\ index' = 0
       ELSE index' = index + 1 /\ UNCHANGED mainPc
  /\ UNCHANGED <<thread, mailbox, token, connectionMap, closing, netVars, acceptVars>>

Registered(i) == svcPc[i] \in {"onStart", "loop", "close"}

\* Slip: main starts to accept without waiting for the workers.
WaitWorker_Skip ==
  /\ mainPc = "waitWorkers"
  /\ mainPc' = "loop"
  /\ UNCHANGED <<index, poolVars, svcVars, netVars, acceptVars>>

\* _startNetAcceptService: waitGetTaskRef for each worker, then start().
WaitWorker ==
  /\ mainPc = "waitWorkers"
  /\ Registered(index)
  /\ IF index + 1 = NetWorkServiceNum
       THEN mainPc' = "loop" /\ UNCHANGED index
       ELSE index' = index + 1 /\ UNCHANGED mainPc
  /\ UNCHANGED <<poolVars, svcVars, netVars, acceptVars>>

\* Slip: the index wraps one place too early.
NextServiceIndex_Early == IF cur + 1 >= NetWorkServiceNum - 1 THEN 0 ELSE cur + 1

\* Slip: the index leaves the vector of services.
NextServiceIndex_NoWrap == cur + 1

\* _nextServiceIndex.
NextServiceIndex == IF cur + 1 = NetWorkServiceNum THEN 0 ELSE cur + 1

\* libevent accepts a connection and calls __onAccept with its descriptor.
Accept(c, fd) ==
  /\ mainPc = "loop"
  /\ client[c] = "connecting"
  /\ ~Open(fd)
  /\ client' = [client EXCEPT ![c] = "accepted"]
  /\ fdOf' = [fdOf EXCEPT ![c] = fd]
  /\ inHand' = c
  /\ cur' = NextServiceIndex
  /\ mainPc' = "put"
  /\ UNCHANGED <<index, poolVars, svcVars, given>>

\* notifyMsg, first half: recvMsgQueue_.syncPut of the worker.
NotifyPut ==
  /\ mainPc = "put"
  /\ Len(mailbox[cur]) < MailboxCapacity
  /\ mailbox' = [mailbox EXCEPT ![cur] = Append(@, inHand)]
  /\ given' = [given EXCEPT ![cur] = @ + 1]
  /\ mainPc' = "write"
  /\ UNCHANGED <<index, poolVars, svcPc, token, connectionMap, closing, netVars, cur, inHand>>

\* Second half: write(eventFd_).  Before the worker has made its eventfd the
\* descriptor is -1 and the token is lost.
NotifyWrite ==
  /\ mainPc = "write"
  /\ token' = IF svcPc[cur] \in {"none", "posted", "start"} THEN token
              ELSE [token EXCEPT ![cur] = @ + 1]
  /\ inHand' = NoClient
  /\ mainPc' = "loop"
  /\ UNCHANGED <<index, poolVars, svcPc, mailbox, connectionMap, closing, netVars, cur, given>>

-----------------------------------------------------------------------------
(* The pool's threads and the services that run on them                    *)

\* threadEntry: syncGet a task and run its start().
TakeTask(p) ==
  /\ thread[p] = Free
  /\ taskQueue # << >>
  /\ thread' = [thread EXCEPT ![p] = Head(taskQueue)]
  /\ taskQueue' = Tail(taskQueue)
  /\ svcPc' = [svcPc EXCEPT ![Head(taskQueue)] = "start"]
  /\ UNCHANGED <<mainPc, index, mailbox, token, connectionMap, closing, netVars, acceptVars>>

Runs(i) == \E p \in Threads : thread[p] = i

Move(i, from, to) == Runs(i) /\ svcPc[i] = from /\ svcPc' = [svcPc EXCEPT ![i] = to]

\* InteractiveTask::start: eventfd and reactor, registration, onStart.
OpenEventFd(i) ==
  /\ Move(i, "start", "regist")
  /\ UNCHANGED <<mainPc, index, poolVars, mailbox, token, connectionMap, closing, netVars, acceptVars>>

Regist(i) ==
  /\ Move(i, "regist", "onStart")
  /\ UNCHANGED <<mainPc, index, poolVars, mailbox, token, connectionMap, closing, netVars, acceptVars>>

OnStart(i) ==
  /\ Move(i, "onStart", "loop")
  /\ UNCHANGED <<mainPc, index, poolVars, mailbox, token, connectionMap, closing, netVars, acceptVars>>

\* NetWorkService::onMessage of NEW_CONNECT, with onConnection: a Stream and
\* a Connection are made and addNewConnection inserts it.  The result of the
\* insertion is ignored: a connection that is not inserted is destroyed when
\* onConnection returns.
OnNewConnect(i) ==
  LET c == Head(mailbox[i])
      fd == fdOf[c]
      fits == connectionMap[i][fd] = NoClient
  IN
  /\ Runs(i) /\ svcPc[i] = "loop"
  /\ token[i] > 0 /\ mailbox[i] # << >>
  /\ token' = [token EXCEPT ![i] = @ - 1]
  /\ mailbox' = [mailbox EXCEPT ![i] = Tail(@)]
  /\ connectionMap' = IF fits THEN [connectionMap EXCEPT ![i][fd] = c] ELSE connectionMap
  /\ client' = [client EXCEPT ![c] = IF fits THEN "served" ELSE "dropped"]
  /\ UNCHANGED <<mainPc, index, poolVars, svcPc, closing, fdOf, acceptVars>>

\* Slip: the descriptor is closed while the map still holds the connection.
RemoveConnection_CloseFirst(i, fd) ==
  /\ Move(i, "loop", "close")
  /\ connectionMap[i][fd] # NoClient
  /\ closing' = [closing EXCEPT ![i] = connectionMap[i][fd]]
  /\ client' = [client EXCEPT ![connectionMap[i][fd]] = "gone"]
  /\ UNCHANGED <<mainPc, index, poolVars, mailbox, token, connectionMap, fdOf, acceptVars>>

\* The peer has closed: Connection::destroy erases the map's reference ...
RemoveConnection(i, fd) ==
  /\ Move(i, "loop", "close")
  /\ connectionMap[i][fd] # NoClient
  /\ closing' = [closing EXCEPT ![i] = connectionMap[i][fd]]
  /\ client' = [client EXCEPT ![connectionMap[i][fd]] = "closing"]
  /\ connectionMap' = [connectionMap EXCEPT ![i][fd] = NoClient]
  /\ UNCHANGED <<mainPc, index, poolVars, mailbox, token, fdOf, acceptVars>>

\* ... which was the last one, so ~Stream closes the descriptor.
DestroyStream(i) ==
  /\ Move(i, "close", "loop")
  /\ client' = [client EXCEPT ![closing[i]] = "gone"]
  /\ closing' = [closing EXCEPT ![i] = NoClient]
  /\ UNCHANGED <<mainPc, index, poolVars, mailbox, token, connectionMap, fdOf, acceptVars>>

\* A client connects to the listening socket.
Connect(c) ==
  /\ mainPc \in {"loop", "put", "write"}
  /\ client[c] = "away"
  /\ client' = [client EXCEPT ![c] = "connecting"]
  /\ UNCHANGED <<mainPc, index, poolVars, svcVars, fdOf, acceptVars>>

-----------------------------------------------------------------------------
MainStep ==
  \/ StartThread \/ PostService \/ WaitWorker
  \/ \E c \in Clients, fd \in Fds : Accept(c, fd)
  \/ NotifyPut \/ NotifyWrite

ServiceStep(i) ==
  OpenEventFd(i) \/ Regist(i) \/ OnStart(i) \/ OnNewConnect(i) \/ DestroyStream(i)

Next ==
  \/ MainStep
  \/ \E p \in Threads : TakeTask(p)
  \/ \E i \in Services : ServiceStep(i)
  \/ \E i \in Services, fd \in Fds : RemoveConnection(i, fd)
  \/ \E c \in Clients : Connect(c)

Spec == Init /\ [][Next]_vars

\* Every thread is scheduled; no client is obliged to connect or to leave.
FairSpec ==
  /\ Spec
  /\ WF_vars(MainStep)
  /\ \A p \in Threads : WF_vars(TakeTask(p))
  /\ \A i \in Services : WF_vars(ServiceStep(i))

-----------------------------------------------------------------------------
\* Types: the round-robin index names a service, and queues keep their limits.
TypeOK ==
  /\ mainPc \in {"startThreadPool", "startNetWorkService", "waitWorkers", "loop", "put", "write"}
  /\ index \in Services /\ cur \in Services
  /\ thread \in [Threads -> Services \cup {Free, Unborn}]
  /\ taskQueue \in Seq(Services) /\ Len(taskQueue) <= TaskQueueCapacity
  /\ svcPc \in [Services -> {"none", "posted", "start", "regist", "onStart", "loop", "close"}]
  /\ mailbox \in [Services -> Seq(Clients)]
  /\ \A i \in Services : Len(mailbox[i]) <= MailboxCapacity
  /\ token \in [Services -> Nat]
  /\ connectionMap \in [Services -> [Fds -> Clients \cup {NoClient}]]
  /\ closing \in [Services -> Clients \cup {NoClient}]
  /\ inHand \in Clients \cup {NoClient}
  /\ client \in [Clients -> {"away", "connecting", "accepted", "served", "dropped", "closing", "gone"}]
  /\ fdOf \in [Clients -> Fds]
  /\ given \in [Services -> Nat]

\* Every descriptor belongs to at most one connection of one worker, even
\* though numbers are given out again while other threads still work: the
\* map forgets a connection before its descriptor is closed ("close the fd
\* last ...", ConcurrentConnection.cpp:90).
UniqueOwner ==
  \A i, j \in Services, fd \in Fds :
    (connectionMap[i][fd] # NoClient /\ connectionMap[j][fd] # NoClient) => i = j

\* addNewConnection never meets an old entry, so ignoring its result
\* (ConcurrenceEchoServer.cpp:26, MapReduceServer.cpp:41) drops no client.
NeverDropped == \A c \in Clients : client[c] # "dropped"

\* Round robin: the workers' shares differ by at most one.
Balanced == \A i, j \in Services : given[i] - given[j] \in -1 .. 1

\* TcpServer.cpp:43: main waits for the workers before it accepts, "otherwise
\* the first connections may fail".  Every accepted client is served.
AcceptedIsServed == \A c \in Clients : client[c] = "accepted" ~> client[c] = "served"

\* The server comes up: each service gets a thread of the pool, and main gets
\* through start() to the accept loop.
ServerStarts == <>(mainPc = "loop") /\ <>[](\A i \in Services : Runs(i))
=============================================================================
