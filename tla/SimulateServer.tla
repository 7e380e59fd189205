--------------------------- MODULE SimulateServer ---------------------------
(***************************************************************************)
(* The client side: examples/ConcurrenceSimulateServer with                *)
(* network/Connector.cpp, on the event tables of LibeventReactor.          *)
(*                                                                         *)
(* Main creates one Connector per client, each starts a non-blocking       *)
(* connect, and main's loop learns how it ended.  A connected socket goes  *)
(* to the workers in turn; there a ClientConnection sends messages without *)
(* waiting, counts the echoes, and the worker that counts the last echo of *)
(* all clients ends the process.                                           *)
(*                                                                         *)
(* A mailbox message is handled once it is put (InteractiveTask), and one  *)
(* recv or send moves a whole head, body or message (EchoConnection).  The *)
(* kernel gives out the lowest free descriptor.  What may fail: a connect, *)
(* the peer, and event_new or event_add; the clients concerned are in      *)
(* faults.                                                                 *)
(***************************************************************************)
EXTENDS Integers, Sequences, FiniteSets, LibeventReactor

CONSTANTS
  ClientNum,        \* clientNum_ (CLIENT_NUM)
  MsgNum,           \* msgNum_ (MSG_NUM_EACH_CLIENT)
  WorkerNum,        \* REACTOR_NUM
  FdNum,            \* bound: descriptors the kernel can give out
  Window,           \* bound: messages under way in one direction
  MailboxCapacity,  \* places of recvMsgQueue_ (49999 in the code)
  MaxFaults         \* bound: clients that meet a failure

ASSUME SimulateAssumption ==
  /\ ClientNum \in Nat \ {0} /\ MsgNum \in Nat \ {0} /\ WorkerNum \in Nat \ {0}
  /\ FdNum \in Nat \ {0} /\ Window \in Nat \ {0} /\ MailboxCapacity \in Nat \ {0}
  /\ MaxFaults \in Nat
  /\ NoCallback \notin 1 .. ClientNum

Clients == 1 .. ClientNum
Workers == 0 .. WorkerNum - 1
Fds == 1 .. FdNum
NoClient == NoCallback

VARIABLES
  next,          \* the client whose Connector is created next
  inHand,        \* the client that __onAccept is handing over, or NoClient
  cur,           \* curServiceIndex_
  connectTable,  \* write events of main's reactor
  phase,         \* how far each client has come
  fdOf,          \* its descriptor
  openFds,       \* the descriptors in use
  mailbox,       \* recvMsgQueue_ of each worker
  map,           \* connectionMap_ of each worker
  readTable, writeTable,  \* events of each worker's reactor
  pc,            \* where each worker is: in its loop or inside a handler
  at,            \* the client whose handler it is in
  stat, selfEcho,         \* stat_ and selfEchoCount_ of each connection
  echoCount, firstSend,   \* echoCount_ and bConnectedFirstSend_
  stamped,       \* connectedSendStartTime_ has been written
  exited,        \* the process has ended
  up, down,      \* under way: messages to the server; heads and bodies back
  peerOpen,      \* the server has not closed the connection
  faults         \* the clients that met a failure

mainVars == <<next, inHand, cur, connectTable>>
fdVars == <<fdOf, openFds>>
tableVars == <<map, readTable, writeTable>>
connVars == <<stat, selfEcho>>
countVars == <<echoCount, firstSend, stamped>>
netVars == <<up, down, peerOpen>>
vars == <<mainVars, phase, fdVars, mailbox, tableVars, pc, at, connVars, countVars, exited, netVars, faults>>

Init ==
  /\ next = 1 /\ inHand = NoClient /\ cur = 0
  /\ connectTable = [fd \in Fds |-> NoEvent]
  /\ phase = [c \in Clients |-> "new"]
  /\ fdOf = [c \in Clients |-> 0]
  /\ openFds = {}
  /\ mailbox = [w \in Workers |-> << >>]
  /\ map = [w \in Workers |-> [fd \in Fds |-> NoClient]]
  /\ readTable = [w \in Workers |-> [fd \in Fds |-> NoEvent]]
  /\ writeTable = [w \in Workers |-> [fd \in Fds |-> NoEvent]]
  /\ pc = [w \in Workers |-> "loop"]
  /\ at = [w \in Workers |-> NoClient]
  /\ stat = [c \in Clients |-> "RECV_HEAD"]
  /\ selfEcho = [c \in Clients |-> 0]
  /\ echoCount = 0 /\ firstSend = TRUE /\ stamped = FALSE
  /\ exited = FALSE
  /\ up = [c \in Clients |-> 0]
  /\ down = [c \in Clients |-> 0]
  /\ peerOpen = [c \in Clients |-> TRUE]
  /\ faults = {}

CanFail(c) == c \in faults \/ Cardinality(faults) < MaxFaults

\* A failure happens to c, or none does.
Outcome(c, ok) ==
  /\ ok \/ CanFail(c)
  /\ faults' = IF ok THEN faults ELSE faults \cup {c}

FreeFds == Fds \ openFds
LowestFree == CHOOSE fd \in FreeFds : \A g \in FreeFds : fd <= g

-----------------------------------------------------------------------------
(* Main: _creatConnections, then the loop of the NetAcceptService          *)

Creating == next <= ClientNum /\ inHand = NoClient
MainLoop == next > ClientNum /\ inHand = NoClient

\* Slip: the index is not wrapped.
NextServiceIndex_NoWrap == cur + 1

NextServiceIndex == IF cur + 1 = WorkerNum THEN 0 ELSE cur + 1

\* onConnected with a descriptor: __onAccept picks the next worker ...
OnConnected(c) == inHand' = c /\ cur' = NextServiceIndex

\* ... and notifyMsg blocks while the worker's mailbox is full.
NotifyNewConnect ==
  /\ inHand # NoClient
  /\ Len(mailbox[cur]) < MailboxCapacity
  /\ mailbox' = [mailbox EXCEPT ![cur] = Append(@, inHand)]
  /\ phase' = [phase EXCEPT ![inHand] = "queued"]
  /\ inHand' = NoClient
  /\ UNCHANGED <<next, cur, connectTable, fdVars, tableVars, pc, at, connVars, countVars, exited, netVars, faults>>

\* asyncConnect: socket() gives client next a descriptor.  Until asyncConnect
\* is done with it only its local sockFd knows it.
Socket ==
  /\ Creating /\ phase[next] = "new"
  /\ FreeFds # {}
  /\ fdOf' = [fdOf EXCEPT ![next] = LowestFree]
  /\ openFds' = openFds \cup {LowestFree}
  /\ phase' = [phase EXCEPT ![next] = "opened"]
  /\ UNCHANGED <<mainVars, mailbox, tableVars, pc, at, connVars, countVars, exited, netVars, faults>>

\* socket() fails: there is nothing to close, and onConnected(-1) returns.
SocketFails ==
  /\ Creating /\ phase[next] = "new"
  /\ FreeFds = {} \/ CanFail(next)
  /\ phase' = [phase EXCEPT ![next] = "failed"]
  /\ faults' = faults \cup {next}
  /\ next' = next + 1
  /\ UNCHANGED <<inHand, cur, connectTable, fdVars, mailbox, tableVars, pc, at, connVars, countVars, exited, netVars>>

\* The rest of asyncConnect, with a socket: it returns to _creatConnections.
AfterSocket ==
  /\ Creating /\ phase[next] = "opened"
  /\ next' = next + 1

\* Slip: the socket of a failed connect is not closed.
CloseFailed_Leak(fd) == openFds' = openFds

CloseFailed(fd) == openFds' = openFds \ {fd}

\* setsockopt or connect reports an error.  The socket is closed, and
\* onConnected(-1) returns.
ConnectFails ==
  /\ AfterSocket
  /\ CanFail(next)
  /\ CloseFailed(fdOf[next])
  /\ phase' = [phase EXCEPT ![next] = "failed"]
  /\ faults' = faults \cup {next}
  /\ UNCHANGED <<inHand, cur, connectTable, fdOf, mailbox, tableVars, pc, at, connVars, countVars, exited, netVars>>

\* connect returns 0.
ConnectedAtOnce ==
  /\ AfterSocket
  /\ OnConnected(next)
  /\ phase' = [phase EXCEPT ![next] = "inHand"]
  /\ UNCHANGED <<connectTable, fdVars, mailbox, tableVars, pc, at, connVars, countVars, exited, netVars, faults>>

\* Slip: the event is made and not added.
WaitConnected_NotAdded(e, c) == [AddEventHandler(e, c) EXCEPT !.added = FALSE]

WaitConnected(e, c) == AddEventHandler(e, c)

\* connect returns EINPROGRESS: wait for the write event.  The result of
\* addEventHandler is ignored: a client whose event could not be added is
\* forgotten, with its socket.
ConnectPending(ok) ==
  LET fd == fdOf[next]
      e == connectTable[fd]
  IN
  /\ AfterSocket
  /\ phase' = [phase EXCEPT ![next] = IF ok THEN "connecting" ELSE "forgotten"]
  /\ Outcome(next, ok)
  /\ \E new \in IF ok THEN {WaitConnected(e, next)} ELSE AddFails(e) :
       connectTable' = [connectTable EXCEPT ![fd] = new]
  /\ UNCHANGED <<inHand, cur, fdVars, mailbox, tableVars, pc, at, connVars, countVars, exited, netVars>>

\* _onConnectEvent: getsockopt tells how the connect ended.
OnConnectEvent(fd, ok) ==
  LET c == connectTable[fd].callback IN
  /\ MainLoop
  /\ connectTable[fd].added
  /\ connectTable' = [connectTable EXCEPT ![fd] = Fired(@)]
  /\ Outcome(c, ok)
  /\ IF ok
       THEN /\ phase' = [phase EXCEPT ![c] = "inHand"]
            /\ OnConnected(c)
            /\ UNCHANGED openFds
       ELSE /\ phase' = [phase EXCEPT ![c] = "failed"]
            /\ CloseFailed(fd)
            /\ UNCHANGED <<inHand, cur>>
  /\ UNCHANGED <<next, fdOf, mailbox, tableVars, pc, at, connVars, countVars, exited, netVars>>

-----------------------------------------------------------------------------
(* A worker's loop with its ClientConnections                              *)

\* Slip: ~Stream removes the read event only.
Destroy_ReadOnly(w, fd, rd, wr) ==
  /\ map' = [map EXCEPT ![w][fd] = NoClient]
  /\ readTable' = [readTable EXCEPT ![w][fd] = RemoveEventHandler(rd)]
  /\ writeTable' = [writeTable EXCEPT ![w][fd] = wr]
  /\ openFds' = openFds \ {fd}
  /\ phase' = [phase EXCEPT ![map[w][fd]] = "gone"]

\* _destroy of the connection on fd, whose events are rd and wr now: it
\* leaves the map, and ~Stream removes both events and closes fd.
Destroy(w, fd, rd, wr) ==
  /\ map' = [map EXCEPT ![w][fd] = NoClient]
  /\ readTable' = [readTable EXCEPT ![w][fd] = RemoveEventHandler(rd)]
  /\ writeTable' = [writeTable EXCEPT ![w][fd] = RemoveEventHandler(wr)]
  /\ openFds' = openFds \ {fd}
  /\ phase' = [phase EXCEPT ![map[w][fd]] = "gone"]

\* onMessage of NEW_CONNECT, with onConnection and the first half of
\* startReadOrWriteInService: asyncSendBytes, and the look at
\* bConnectedFirstSend_.
OnNewConnect(w, ok) ==
  LET c == Head(mailbox[w])
      fd == fdOf[c]
  IN
  /\ pc[w] = "loop"
  /\ mailbox[w] # << >>
  /\ mailbox' = [mailbox EXCEPT ![w] = Tail(@)]
  /\ Outcome(c, ok)
  /\ IF ok
       THEN /\ map' = [map EXCEPT ![w][fd] = c]
            /\ writeTable' = [writeTable EXCEPT ![w][fd] = AddEventHandler(@, c)]
            /\ phase' = [phase EXCEPT ![c] = "live"]
            /\ pc' = [pc EXCEPT ![w] = IF firstSend THEN "first" ELSE "recv"]
            /\ at' = [at EXCEPT ![w] = c]
            /\ UNCHANGED <<readTable, openFds>>
       ELSE /\ phase' = [phase EXCEPT ![c] = "gone"]
            /\ openFds' = openFds \ {fd}
            /\ UNCHANGED <<map, readTable, writeTable, pc, at>>
  /\ UNCHANGED <<mainVars, fdOf, connVars, countVars, exited, netVars>>

\* bConnectedFirstSend_ = false; another worker may have seen true as well.
ClearFirst(w) ==
  /\ pc[w] = "first"
  /\ firstSend' = FALSE
  /\ pc' = [pc EXCEPT ![w] = "stamp"]
  /\ UNCHANGED <<mainVars, phase, fdVars, mailbox, tableVars, at, connVars, echoCount, stamped, exited, netVars, faults>>

\* connectedSendStartTime_ = now().
Stamp(w) ==
  /\ pc[w] = "stamp"
  /\ stamped' = TRUE
  /\ pc' = [pc EXCEPT ![w] = "recv"]
  /\ UNCHANGED <<mainVars, phase, fdVars, mailbox, tableVars, at, connVars, echoCount, firstSend, exited, netVars, faults>>

\* The rest of startReadOrWriteInService: ask for the first head.
BeginRecv(w, ok) ==
  LET fd == fdOf[at[w]] IN
  /\ pc[w] = "recv"
  /\ Outcome(at[w], ok)
  /\ IF ok
       THEN /\ readTable' = [readTable EXCEPT ![w][fd] = AddEventHandler(@, at[w])]
            /\ UNCHANGED <<map, writeTable, openFds, phase>>
       ELSE Destroy(w, fd, readTable[w][fd], writeTable[w][fd])
  /\ pc' = [pc EXCEPT ![w] = "loop"]
  /\ at' = [at EXCEPT ![w] = NoClient]
  /\ UNCHANGED <<mainVars, fdOf, mailbox, connVars, countVars, exited, netVars>>

ReadFires(w, fd) == pc[w] = "loop" /\ readTable[w][fd].added
WriteFires(w, fd) == pc[w] = "loop" /\ writeTable[w][fd].added

\* asyncRecvBytes inside a receive callback: its result is ignored.
RecvAgain(w, fd, c, ok) ==
  /\ Outcome(c, ok)
  /\ \E new \in IF ok THEN {AddEventHandler(Fired(readTable[w][fd]), c)}
                      ELSE AddFails(Fired(readTable[w][fd])) :
       readTable' = [readTable EXCEPT ![w][fd] = new]

\* recvCompleteCallback with a head.
RecvHead(w, fd, ok) ==
  LET c == readTable[w][fd].callback IN
  /\ ReadFires(w, fd)
  /\ down[c] > 0 /\ stat[c] = "RECV_HEAD"
  /\ down' = [down EXCEPT ![c] = @ - 1]
  /\ stat' = [stat EXCEPT ![c] = "RECV_BODY"]
  /\ RecvAgain(w, fd, c, ok)
  /\ UNCHANGED <<mainVars, phase, fdVars, mailbox, map, writeTable, pc, at, selfEcho, countVars, exited, up, peerOpen>>

\* Slip: ++selfEchoCount_ is compared before it is incremented.
AllOwnEchoes_Late(n) == n - 1 = MsgNum

\* A client with all its echoes stops to receive and to send.
AllOwnEchoes(n) == n = MsgNum

\* Slip: the number of clients is left out.
AllEchoes_OneClient(n) == n >= MsgNum

AllEchoes(n) == n >= MsgNum * ClientNum

\* recvCompleteCallback with a body: one echo more.  The last of all ends the
\* process, the last of this client ends its receiving.
RecvBody(w, fd, ok) ==
  LET c == readTable[w][fd].callback IN
  /\ ReadFires(w, fd)
  /\ down[c] > 0 /\ stat[c] = "RECV_BODY"
  /\ down' = [down EXCEPT ![c] = @ - 1]
  /\ echoCount' = echoCount + 1
  /\ IF AllEchoes(echoCount + 1)
       THEN /\ ok
            /\ Destroy(w, fd, Fired(readTable[w][fd]), writeTable[w][fd])
            /\ pc' = [pc EXCEPT ![w] = "exit"]
            /\ at' = [at EXCEPT ![w] = c]
            /\ UNCHANGED <<stat, selfEcho, faults>>
       ELSE /\ selfEcho' = [selfEcho EXCEPT ![c] = @ + 1]
            /\ IF AllOwnEchoes(selfEcho[c] + 1)
                 THEN /\ ok
                      /\ readTable' = [readTable EXCEPT ![w][fd] = Fired(@)]
                      /\ UNCHANGED <<stat, faults>>
                 ELSE /\ stat' = [stat EXCEPT ![c] = "RECV_HEAD"]
                      /\ RecvAgain(w, fd, c, ok)
            /\ UNCHANGED <<phase, openFds, map, writeTable, pc, at>>
  /\ UNCHANGED <<mainVars, fdOf, mailbox, firstSend, stamped, exited, up, peerOpen>>

\* exit(0), while the other threads still run.
Exit(w) ==
  /\ pc[w] = "exit"
  /\ exited' = TRUE
  /\ UNCHANGED <<mainVars, phase, fdVars, mailbox, tableVars, pc, at, connVars, countVars, netVars, faults>>

\* recv reports the end of the connection or an error.
RecvError(w, fd) ==
  /\ ReadFires(w, fd)
  /\ ~peerOpen[readTable[w][fd].callback]
  /\ Destroy(w, fd, Fired(readTable[w][fd]), writeTable[w][fd])
  /\ UNCHANGED <<mainVars, fdOf, mailbox, pc, at, connVars, countVars, exited, netVars, faults>>

\* A message has been sent; sendCompleteCallback sends the next one without
\* waiting for the echo, unless all echoes are there.
SendComplete(w, fd, ok) ==
  LET c == writeTable[w][fd].callback IN
  /\ WriteFires(w, fd)
  /\ up[c] < Window
  /\ up' = [up EXCEPT ![c] = @ + 1]
  /\ Outcome(c, ok)
  /\ IF selfEcho[c] = MsgNum
       THEN /\ ok
            /\ writeTable' = [writeTable EXCEPT ![w][fd] = Fired(@)]
            /\ UNCHANGED <<map, readTable, openFds, phase>>
       ELSE IF ok
       THEN /\ writeTable' = [writeTable EXCEPT ![w][fd] = AddEventHandler(Fired(@), c)]
            /\ UNCHANGED <<map, readTable, openFds, phase>>
       ELSE Destroy(w, fd, readTable[w][fd], Fired(writeTable[w][fd]))
  /\ UNCHANGED <<mainVars, fdOf, mailbox, pc, at, connVars, countVars, exited, down, peerOpen>>

SendError(w, fd) ==
  /\ WriteFires(w, fd)
  /\ ~peerOpen[writeTable[w][fd].callback]
  /\ Destroy(w, fd, readTable[w][fd], Fired(writeTable[w][fd]))
  /\ UNCHANGED <<mainVars, fdOf, mailbox, pc, at, connVars, countVars, exited, netVars, faults>>

-----------------------------------------------------------------------------
(* The echo server at the other end                                        *)

EchoBack(c) ==
  /\ peerOpen[c]
  /\ up[c] > 0 /\ down[c] + 2 <= 2 * Window
  /\ up' = [up EXCEPT ![c] = @ - 1]
  /\ down' = [down EXCEPT ![c] = @ + 2]
  /\ UNCHANGED <<mainVars, phase, fdVars, mailbox, tableVars, pc, at, connVars, countVars, exited, peerOpen, faults>>

PeerFails(c) ==
  /\ peerOpen[c] /\ phase[c] \in {"inHand", "queued", "live"}
  /\ CanFail(c)
  /\ peerOpen' = [peerOpen EXCEPT ![c] = FALSE]
  /\ faults' = faults \cup {c}
  /\ UNCHANGED <<mainVars, phase, fdVars, mailbox, tableVars, pc, at, connVars, countVars, exited, up, down>>

-----------------------------------------------------------------------------
MainStep ==
  \/ NotifyNewConnect
  \/ Socket \/ SocketFails
  \/ ConnectFails
  \/ ConnectedAtOnce
  \/ \E ok \in BOOLEAN : ConnectPending(ok)
  \/ \E fd \in Fds, ok \in BOOLEAN : OnConnectEvent(fd, ok)

HandlerStep(w) ==
  \/ ClearFirst(w) \/ Stamp(w) \/ Exit(w)
  \/ \E ok \in BOOLEAN : OnNewConnect(w, ok) \/ BeginRecv(w, ok)

ReadStep(w, fd) == RecvError(w, fd) \/ \E ok \in BOOLEAN : RecvHead(w, fd, ok) \/ RecvBody(w, fd, ok)
WriteStep(w, fd) == SendError(w, fd) \/ \E ok \in BOOLEAN : SendComplete(w, fd, ok)

Next ==
  /\ ~exited
  /\ \/ MainStep
     \/ \E w \in Workers : HandlerStep(w) \/ \E fd \in Fds : ReadStep(w, fd) \/ WriteStep(w, fd)
     \/ \E c \in Clients : EchoBack(c) \/ PeerFails(c)

Spec == Init /\ [][Next]_vars

\* Threads are scheduled, each loop dispatches all events that are ready, a
\* connect ends, and a server that has not failed echoes.
FairSpec ==
  /\ Spec
  /\ WF_vars(~exited /\ MainStep)
  /\ \A w \in Workers :
       /\ WF_vars(~exited /\ HandlerStep(w))
       /\ \A fd \in Fds : WF_vars(~exited /\ ReadStep(w, fd)) /\ WF_vars(~exited /\ WriteStep(w, fd))
  /\ \A c \in Clients : WF_vars(~exited /\ EchoBack(c))

-----------------------------------------------------------------------------
Events == [made : BOOLEAN, added : BOOLEAN, callback : Clients \cup {NoClient}]
Phases == {"new", "opened", "connecting", "forgotten", "inHand", "queued", "live", "gone", "failed"}

\* Types.
TypeOK ==
  /\ next \in 1 .. ClientNum + 1
  /\ inHand \in Clients \cup {NoClient} /\ cur \in Workers
  /\ connectTable \in [Fds -> Events]
  /\ phase \in [Clients -> Phases]
  /\ fdOf \in [Clients -> Fds \cup {0}] /\ openFds \subseteq Fds
  /\ mailbox \in [Workers -> Seq(Clients)]
  /\ map \in [Workers -> [Fds -> Clients \cup {NoClient}]]
  /\ readTable \in [Workers -> [Fds -> Events]]
  /\ writeTable \in [Workers -> [Fds -> Events]]
  /\ pc \in [Workers -> {"loop", "first", "stamp", "recv", "exit"}]
  /\ at \in [Workers -> Clients \cup {NoClient}]
  /\ stat \in [Clients -> {"RECV_HEAD", "RECV_BODY"}]
  /\ selfEcho \in [Clients -> Nat] /\ echoCount \in Nat
  /\ firstSend \in BOOLEAN /\ stamped \in BOOLEAN /\ exited \in BOOLEAN
  /\ up \in [Clients -> Nat] /\ down \in [Clients -> Nat]
  /\ peerOpen \in [Clients -> BOOLEAN]
  /\ faults \subseteq Clients

\* Callbacks hold a raw this (Stream.cpp:26) and stay in the table when an
\* event is removed, and descriptors are given out again: an event that can
\* fire always calls the live object that owns its descriptor in this reactor,
\* and a connection that is handed over finds its place in the map free, so
\* that ignoring addNewConnection's result loses nobody.
EventsHaveOwners ==
  /\ \A fd \in Fds : connectTable[fd].added =>
       \E c \in Clients :
         connectTable[fd].callback = c /\ phase[c] = "connecting" /\ fdOf[c] = fd
  /\ \A w \in Workers, fd \in Fds :
       readTable[w][fd].added \/ writeTable[w][fd].added => map[w][fd] # NoClient
  /\ \A w \in Workers, fd \in Fds : map[w][fd] # NoClient =>
       /\ phase[map[w][fd]] = "live" /\ fdOf[map[w][fd]] = fd
       /\ readTable[w][fd].added => readTable[w][fd].callback = map[w][fd]
       /\ writeTable[w][fd].added => writeTable[w][fd].callback = map[w][fd]
  /\ \A w \in Workers : \A i \in 1 .. Len(mailbox[w]) :
       \A v \in Workers : map[v][fdOf[mailbox[w][i]]] = NoClient

\* Main has the client's socket: in asyncConnect, behind a write event that
\* calls its Connector, or on the way to a mailbox.
HeldByMain(c) ==
  \/ c = next /\ phase[c] = "opened"
  \/ \E fd \in Fds : connectTable[fd].added /\ connectTable[fd].callback = c
  \/ inHand = c

\* Worker w has it: in its mailbox or in its map.
HeldByWorker(c, w) ==
  \/ \E i \in 1 .. Len(mailbox[w]) : mailbox[w][i] = c
  \/ \E fd \in Fds : map[w][fd] = c

Holders == {c \in Clients : HeldByMain(c) \/ \E w \in Workers : HeldByWorker(c, w)}
Forgotten == {c \in Clients : phase[c] = "forgotten"}

\* An open socket belongs to one client, and somebody holds it who will close
\* it or hand it on: asyncConnect, an event that can fire, the hand-over, a
\* mailbox or a map.  No path closes a socket under its owner, and one only
\* leaks: a failing addEventHandler in asyncConnect (Connector.cpp:97) leaves
\* the socket of its client open, with no holder, for good.
NoDescriptorLost ==
  /\ openFds = {fdOf[c] : c \in Holders \cup Forgotten}
  /\ \A c, d \in Holders \cup Forgotten : fdOf[c] = fdOf[d] => c = d
  /\ Holders \cap Forgotten = {}

\* "All ... echo received" (ClientConnection.cpp:89): when a worker ends the
\* process every client has got all its echoes, none counted for another, and
\* no second thread calls exit.
ExitMeansAll ==
  \A w \in Workers : pc[w] = "exit" =>
    /\ \A c \in Clients : selfEcho[c] = IF c = at[w] THEN MsgNum - 1 ELSE MsgNum
    /\ \A v \in Workers : pc[v] = "exit" => v = w

\* The flag that guards connectedSendStartTime_ is "not thread safe"
\* (ClientConnection.cpp:36): two workers may both take the time, and the flag
\* is cleared before it is written.  Yet when the duration is computed the
\* start time has been written and no thread is about to write it.
DurationIsDefined ==
  (\E w \in Workers : pc[w] = "exit") =>
    stamped /\ \A w \in Workers : pc[w] \notin {"first", "stamp"}

\* "Exits when all messages have come" (ClientConnection.cpp:83): it does,
\* although clients send ahead of their echoes, unless some client fails.
EveryoneEchoed == <>(exited \/ faults # {})

\* asyncConnect calls back: a connect that is waited for ends in a hand-over
\* or in a failure, whatever happens to the other clients.  Only a client
\* whose event could not be added is not waited for (Connector.cpp:97).
EveryConnectCallsBack ==
  \A c \in Clients : phase[c] = "connecting" ~> (phase[c] # "connecting" \/ exited)
=============================================================================
