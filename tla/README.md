# Banana: a TLA+ verification project

Banana is a C++11 service framework: an event loop per worker thread, a thread
pool, message queues between tasks, and TCP servers built on them. This
directory models its concurrent core, two of its servers and its load-test
client in TLA+, checks the models with TLC and proves properties of them with TLAPS.
`PROJECT.json` lists the components, runs, mutants, findings, hazards and
theorems, and maps every definition to the lines it models.

## 1. The system

| Component | State | Operations | Talks to |
|---|---|---|---|
| `multi-threading/ConcurrentRingBuffer.h` | array, `head_`, `tail_`, a mutex, two conditions | `syncPut`, `asyncPut`, `syncGet`, `asyncGet` | task queue of the pool, mailbox of every task |
| `multi-threading/WaitFreeConcurrentRingBuffer.h` | array, two atomic indices | `asyncPut`, `asyncGet` (one producer, one consumer) | `NetWorkService::newConMsgBuf_` |
| `multi-threading/ConcurrentHashMap.h` | buckets with a mutex and a condition each | `find`, `waitFind`, `insert`, `erase` | `MessageCenter` |
| `multi-threading/MessageCenter.cpp` | a singleton registry of tasks by name | `Instance`, register, unregister, look up, wait, send | every task, `TcpServer::start` |
| `multi-threading/InteractiveTask.cpp` | mailbox, eventfd, `stat_`, optional reactor | `start`, `notifyMsg`, `sendMsgTo`, `setStat`, `__stop` | reactor, registry, senders on any thread |
| `multi-threading/ThreadPool.cpp` | task queue, threads | `start`, `syncPostTask`, `threadEntry` | services and `MapTask`s run on it |
| `network/LibeventReactor.cpp` | a table of one-shot read and write events with callbacks, by descriptor | add, remove, dispatch | everything with a descriptor |
| `network/Stream.cpp` | receive and send buffers with marks | `asyncRecvBytes`, `asyncSendBytes`, event handlers | reactor below, connection above |
| `network/NetWorkService.cpp` | `connectionMap_` by descriptor; a wait-free ring and an eventfd for new sockets | `onMessage`, add and remove a connection; `notifyNewConnnectMsg`, `onNewConMsg` | mailbox, connections, acceptor |
| `network/NetAcceptService.cpp` | round-robin index | `__onAccept` | workers' mailboxes |
| `network/TcpServer.cpp` | the services | `start` | all of the above |
| `examples/ConcurrenceEchoServer` | per connection: head or body | receive, echo | `Stream` |
| `examples/MapReduceServer` | per connection: count and maximum | post tasks, reduce results, answer | pool and mailbox |
| `examples/MapReduceServer/BenchmarkTest.cpp` | the files | compute the maximum serially, ask the server for it | `MapReduceServer` |
| `network/Connector.cpp` | a socket being connected; itself, through its callback | `asyncConnect`, connect event | main's reactor, `onConnected` |
| `examples/ConcurrenceSimulateServer` | `echoCount_`, `bConnectedFirstSend_`; per client `stat_`, `selfEchoCount_` | connect all clients, send, count echoes, exit | `Connector`, `NetAcceptService`, two workers, an echo server |

Also in the repository: `StorageServer` (not built: commented out in
`cmake/CMakeLists.txt`), the empty codecs and `ServiceManager`, and the stubs of
`SelectEventReactor`.

Threads: main starts the pool, posts the workers, waits for them and becomes the
acceptor. Each worker is an event loop on a pool thread. The remaining pool
threads run `MapTask`s. What is hard:

- *hand-over between threads*: a message goes through a ring, its token through
  an eventfd; both block, both can be out of step;
- *condition variables with `notify_one`*, shared by several kinds of waiters;
- *one-shot events*: a path that forgets to add the event again is silent;
- *descriptor reuse*: the kernel gives out the number of a closed descriptor
  while messages that name it are under way;
- *life time by reference count*: the last owner can be any thread; callbacks
  hold a raw `this` and stay in the reactor's table;
- *partial failure*: of a connect, of adding an event, of the peer, each with
  resources already taken;
- *bounded queues in both directions* between a loop and the pool;
- *partial transfers* and length limits in `Stream` and its users.

What makes each part correct: the rings are FIFO queues that strand nobody;
tokens and messages stay paired and every message is handled; the registry is
unique and waiters are woken; the server comes up and serves each accepted
client, once, evenly; an echo is exact and complete and stays inside its
buffers; a map-reduce answer is right, arrives, and reaches the right client;
a connect attempt calls back and its socket is closed or handed on (except where
`Connector.cpp:97` ignores a failing `addEventHandler`: that socket leaks), and
the load test ends exactly when every client has all its echoes.

## 2. Modules

| Module | Models | Notes |
|---|---|---|
| `BoundedFifo` | what a queue between threads promises | abstract specification |
| `ConcurrentRingBuffer` | `ConcurrentRingBuffer.h` | one action per stay inside the mutex; `Wait`, `NotifyOneAndReturn`, `SpuriousWakeup` |
| `ConcurrentRingBufferProofs` | | theorems |
| `WaitFreeRingBuffer` | `WaitFreeConcurrentRingBuffer.h` | one action per memory access; `seenHead`, `seenTail` are old values an acquire load may return |
| `NewConnectQueue` | `NetWorkService::notifyNewConnnectMsg` and `onNewConMsg` | extends `WaitFreeRingBuffer`: acceptor, ring, eventfd and loop composed |
| `NewConnectQueueProofs` | | theorems about both |
| `InteractiveTask` | `InteractiveTask.cpp` with and without reactor, and its senders | the mailbox is a FIFO queue, as the ring refines `BoundedFifo` |
| `InteractiveTaskProofs` | | theorems |
| `MessageCenter`, `MCMessageCenter` | `MessageCenter.cpp` over `ConcurrentHashMap.h` | one action per lock; the MC module puts all names into one bucket |
| `MessageCenterProofs` | | theorems |
| `TcpServer` | `TcpServer.cpp`, `ThreadPool.cpp`, `NetAcceptService.cpp`, `NetWorkService.cpp` | composition: main, pool threads, workers, clients, the kernel's descriptors |
| `TcpServerProofs` | | theorems |
| `EchoConnection` | `Stream.cpp`, the events of `LibeventReactor.cpp`, `ConcurrentConnection.cpp` | bytes are tagged, so loss, duplication and shift are visible |
| `EchoConnectionProofs` | | theorems |
| `MapReduceServer`, `MCMapReduceServer` | `MapReduceConnection.cpp`, `MapTask.h`, `BenchmarkTest.cpp`, with acceptor, loop and pool | reference counts are derived: who holds the object |
| `MapReduceServerProofs` | | theorems |
| `LibeventReactor` | the entries of `pEventBundleMap_` in `LibeventReactor.cpp` | operators: add, failed add, remove, fire |
| `SimulateServer` | `Connector.cpp`, `ConcurrenceSimulateServer.cpp`, `ClientConnection.cpp` | composition: main with its reactor, two workers with theirs, the kernel's descriptors, an echo server |
| `SimulateServerProofs` | | theorems |

Correspondences that are not one to one:

- **ConcurrentRingBuffer.** All shared state is touched under `mtx_`, so a
  thread's stay inside it is atomic. A thread asleep in a condition is at place
  `notFull` or `notEmpty`; `notify_one` moves one of them to `relock`, and it
  tests again when it gets the mutex, possibly after others. `asyncPut` falls
  off its end on success: the returned value is any Boolean.
- **WaitFreeRingBuffer.** A put counts from the moment `head_` is published, a
  get until `tail_` is. A put may be refused by an old `tail_` although there is
  room; the refinement treats a refused put as no put.
- **NewConnectQueue.** The eventfd orders memory: who reads a token sees at least
  the `head_` of the put it announces (`announced`). `Serve` stands for the
  callback with the new `Stream`, which `TcpServer` models. The only caller of
  `notifyNewConnnectMsg` is commented out in `NetAcceptService::__onAccept`; the
  model has it there, one acceptor and one loop.
- **InteractiveTask.** `Write` loses the token when the eventfd is closed (the
  code writes to `-1`). The reactor calls the handler only if the eventfd is
  readable. `SetStat` is the public `setStat`, called by a thread that found the
  task in the registry; only the loop without a reactor looks at `stat_`.
- **MessageCenter.** `syncSendMsgTo` either finds the task alive or not; giving
  it the message is `InteractiveTask`. `SingleWaiter` restricts the callers to
  one waiter per bucket, which is what `TcpServer::start` needs (main is the
  only thread that waits); the run without the restriction is a finding.
- **TcpServer.** A worker's handling of one NEW_CONNECT is one step: it runs on
  its loop thread and touches only its own map. Destroying a connection is two
  (leave the map, close the descriptor), as main can accept in between.
- **EchoConnection.** A head that is not aligned spells any length from -1 to
  the limit plus one. The constructor and the first `asyncRecvBytes` are `Init`.
- **MapReduceServer.** A request and an answer arrive whole, as
  `EchoConnection` treats framing. A file is the sequence of its numbers,
  `MapFunction` is what a task makes of it (any value for an empty file, whose
  maximum is never initialised), and `SerialMax` is what `BenchmarkTest`
  computes on its own thread, the reference for the answers. The task in the queue or on a thread holds a strong reference (line 97 binds a
  `shared_ptr`); `ReleaseTask` is the `runCallback_ = nullptr` of `MapTask::run`.

- **SimulateServer.** One step moves a whole head, body or message, as
  `EchoConnection` covers partial transfers; the echo server at the other end is
  external and answers with well-formed messages. The kernel gives out the
  lowest free descriptor. `faults` is the set of clients that met a failure:
  socket, connect, the connect event, adding an event, or the peer; `MaxFaults`
  bounds them. An event entry is *made* (the `struct event` exists) and *added*;
  a connect event is never removed from main's table, and as main makes all
  sockets before its loop runs, an entry there is used once. `Socket` is a step of
  its own, so workers run between `socket` and the exits of `asyncConnect`, and
  each failing exit closes a descriptor that is open. A pending connect whose
  event cannot be added is in phase `forgotten` for good: its descriptor stays
  open and nothing in the program knows it. `phase` only says how far a client has
  come; `Holders`, in `NoDescriptorLost`, is read off the event table, the
  hand-over, the mailboxes and the maps. `bConnectedFirstSend_`, tested, cleared and
  followed by the time stamp, is three steps. `connectedCount_` and the times
  around it only feed the log and are left out, as is the listening port, which
  the program does not use. Server start-up is `TcpServer`.

## 3. Runs

Passing runs; each property has a mutant in `PROJECT.json` that breaks it.

| Run | Bounds | Shows |
|---|---|---|
| `ring_buffer` | 3 threads, 2 values, 3 slots | `TypeOK`, `NoLostWakeup`, refinement of `BoundedFifo`, no deadlock |
| `wait_free` | 2 sockets, 4 slots | `QueueTypeOK`, `NoSlotConflict`, refinement of `BoundedFifo`, `TokensMatch`, `NeverAborts`, `EveryNewConnectServed`, no deadlock |
| `task` | 2 senders, 2 messages each, mailbox of 2, with and without reactor, a stop | `TypeOK`, `TokenAccounting`, `NeverBlocksInHandler`, `AtMostOneAfterStop`, `EverySentIsHandled` |
| `registry` | 3 threads, 2 names, 1 bucket, one waiter | `TypeOK`, `OneRegistry`, `NoStrandedWaiter`, no deadlock |
| `tcp_server` | 2 workers, 3 pool threads, 3 clients, 2 descriptors | `TypeOK`, `UniqueOwner`, `NeverDropped`, `Balanced`, `AcceptedIsServed`, `ServerStarts` |
| `echo` | head 2, buffer 5, bodies 1, 3 and 6, 2 frames | `TypeOK` and `BuffersInBounds` always; `EchoIsExact`, `NeverStalls`, `EveryFrameReturns` for frames that fit |
| `simulate` | 2 clients, 2 messages each, 2 workers, 2 descriptors, mailboxes of 1, one message under way each way, 1 client that fails | `TypeOK`, `EventsHaveOwners`, `NoDescriptorLost`, `ExitMeansAll`, `DurationIsDefined`, `EveryoneEchoed`, `EveryConnectCallsBack` |
| `map_reduce` | 2 clients, 2 descriptors, 2 pool threads, 2 files, queues of 2 | `TypeOK`, `NoCrossTalk`, `AnswersAreRight`, `EveryRequestAnswered`, `NoLeak` |

Why the bounds are enough to be interesting: three threads on a ring of two
usable places give two sleepers on one side and a third thread that steals a
wakeup; a mailbox of two with two senders gives a full queue and two tokens
under way; three clients on two descriptors force reuse while a worker still
closes; a buffer of 5 with a head of 2 has a body that fits (3), one whose echo
does not (4 and 5) and one that is refused (6), as 1024 with 4 has; two pool
threads finish the tasks of a request in either order, and a second client can
get the descriptor of the first while a result for it is under way. Both
clients of `map_reduce` ask for the same files, so `AnswersAreRight` alone would
not show one client's result counted for the other; `NoCrossTalk` does. In
`simulate` a client that fails before the next is created gives its descriptor
to it, which goes to the other worker while the first still has its callbacks in
the table; that an entry of the same worker is used again, or that the kernel has
no descriptor left, is beyond these bounds and within those of the theorems
(`EventsOwned`, `DescriptorsKept`). Both workers can find the first-send
flag set, and two messages each with one under way let a client send ahead and
stop while echoes are still coming. In `wait_free` four slots hold three
sockets, so the ring is full, wraps, and has several tokens outstanding.

The wait-free ring is checked inside its only user. There a get never meets an
empty ring (that is `NeverAborts`), so the refusal of `asyncGet` is modelled and
not exercised.

Runs whose property TLC refutes, each stating what a comment of the code says:

| Run | Property | What happens |
|---|---|---|
| `registry_two_waiters` | `NoStrandedWaiter` | `notify_one` wakes one waiter of a bucket, maybe for another name (`ConcurrentHashMap.h:53`) |
| `echo_full_body` | `AdmittedNeverStalls` | the echo of 1021 to 1024 bytes is refused and the result ignored (`ConcurrentConnection.cpp:61`) |
| `map_reduce_owner` | `HandlerOnLiveObject` | a pool thread drops the last reference and destroys connection and stream while the loop is in their handler (`MapReduceConnection.cpp:97`) |
| `map_reduce_full` | `EveryRequestAnswered` | loop and pool wait for each other with full queues (line 98) |

`AnswersAreRight` and `EveryRequestAnswered` hold in the passing run because it
allows one request per connection, and queues with room for what the requests
make. Both restrictions matter: with a second request there is
`map_reduce_owner`, and the maximum of the first is still in
`curMaxNum_` (`MapReduceConnection.cpp:41` resets nothing), so `AnswersAreRight`
fails; with full queues there is `map_reduce_full`.

Other places where the models follow the code and not its comments, without a
run of their own: `asyncPut` has no `return` on success
(`ConcurrentRingBuffer.h:45`, any Boolean in the model); `getTaskRef` returns
the error code 1 as `bool` (`MessageCenter.cpp:72`); `syncSendMsgTo` waits
instead of returning RECEIVER_NOT_EXIST (`MessageCenter.cpp:49`); `start()` stores
RUNNING over an earlier `setStat(STOPPED)` (`InteractiveTask.cpp:31`), and with a
reactor the loop never looks at `stat_` (line 44), though nothing stops a task; of a message
that is too long only the head is discarded (`ConcurrentConnection.cpp:45`);
`MSG_NUM_EACH_CLIENT` is "the number of messages each client sends"
(`ConcurrenceSimulateServer.cpp:15`), but a client goes on sending until that
many *echoes* are back, so it sends more; a connect that fails is not made up
for (`ConcurrenceSimulateServer.cpp:57`), after which the load test never ends.

Deadlock is checked for the rings and the registry. The other models may stop
for good: senders and clients need not go on, and counts are bounded.

### Fairness

Only what the scheduler and the kernel give: a thread that can take a step
takes one in the end (weak fairness of the task's, main's, a pool thread's or a
worker's steps). The loop's event sources in `MapReduceServer` get strong
fairness, because the loop is busy in between and libevent dispatches all ready
events of a round before it polls again. In `EchoConnection` weak fairness is on
the steps that move bytes: a peer that stays reads, and EAGAIN does not repeat
for ever. In `SimulateServer` each loop dispatches all events that are ready,
so every descriptor's read and write event has its own weak fairness; a connect
ends and a server that has not failed echoes. In `NewConnectQueue` both threads
are scheduled and a published index reaches the other side. No fairness is assumed of clients, senders or callers.

## 4. Proofs

Checked by `tlapm` for all values of the constants, under the `ASSUME`s of the
modules: finite sets of threads, positive sizes, a null value outside the
values, at least one descriptor (`FdsAssumption`), and buffers that pass their
own length check (`MaxBodyAssumption`: both limits are 1024 in the code). Every
inductive invariant below was first checked with TLC on the bounds of the run
of its module.

- **ConcurrentRingBufferProofs.** `TypeCorrect`; `NoWakeupIsLost`;
  `RingBufferImplementsFifo`. `NoLostWakeup` is inductive together with
  `TypeOK`: a put adds one to `Count` and, if anybody sleeps, one to the woken
  getters; a woken getter that runs takes one from both; a newcomer that takes a
  value lowers only `Count`. The proof follows the cardinalities of `Woken` and
  `Asleep` through each action. For the refinement, `Contents` grows at its end
  with `Store` and loses its head with `Take`, and a put in progress has a
  pending argument (`ArgPending`, the strengthening that rules out requests the
  abstract queue does not know).
- **InteractiveTaskProofs.** `TaskTypeCorrect`, `TokensAccounted`,
  `HandlerNeverBlocks`. `TokenAccounting` alone is not inductive: nothing in it
  says that senders write only once the eventfd is open. The strengthening says
  at which places the task is unregistered, its eventfd open, and where the
  senders can be then. With the count, a task that has read a token finds a
  message: its own token is one of the summands, so the queue is not empty.
  `StopIsPrompt`: nobody stores RUNNING after `start`, so a loop without a
  reactor that was told to stop handles only what it was waiting for (`LateInv`).
- **MessageCenterProofs.** `CenterTypeCorrect`, `RegistryIsUnique`,
  `WaiterNeverStranded` (under `SingleWaiter`). The invariant of the second:
  `made` and `center` are 0 together and 1 after that, and whoever is past
  `Instance` has seen 1. Of the third: two threads are never inside a waiting
  operation of one bucket, so the one that `insert` wakes is the only sleeper.
- **NewConnectQueueProofs.** `SlotsNeverConflict`, `WaitFreeImplementsFifo`,
  `QueueUsesRing`, `QueueTypeCorrect`, `TokensAlwaysMatch`, `HandlerNeverAborts`. For the ring,
  `SlotInv` says that the old value of an index lies, going round the ring,
  between the other side's index and the new value, and that whoever has passed
  its test still has what the test has seen: a value to get, or a free slot. The
  first half is what makes the second survive the other side's steps. Every step
  of the queue is a step of the ring or leaves it alone, so this carries over to
  acceptor and loop. `TokensMatch` counts the sockets in the ring, but for
  `NeverAborts` they must be *visible* to the loop: `QueueInv` adds that the
  tokens written count the sockets up to `announced`, which have reached whoever
  reads a token, so a handler with a token has `tail # seenHead`.
  For the refinement, `HandOverInv` ties the slots to the two calls: what a put
  is about to publish stands in the slot, and what a get has read still stands
  there until `tail_` is published, because `SlotInv` keeps the producer out.
  So publishing `head_` is the abstract put and publishing `tail_` the abstract
  get, and all other steps stutter.
- **TcpServerProofs.** `ServerTypeCorrect`, `OwnersAreUnique`,
  `NobodyIsDropped`, `SharesAreBalanced`, `PoolIsLargeEnough`,
  `NobodyIsForgotten`. `OwnInv` follows a client from
  main's hand through one mailbox into one map and out of it: open connections
  have different descriptors, a client is handed over once, and a connection
  that is being closed has left the maps but still has its descriptor. That
  last state is the reason that the kernel cannot give a number out while a map
  has it. `Balanced` is not inductive; `RoundRobin` is: the difference of two
  shares is the difference of their places in the round, seen from
  `curServiceIndex_`.
  `PoolIsLargeEnough` and `NobodyIsForgotten` are the safety halves of the two
  liveness properties of the run. For the first, `StartInv` follows the
  start-up: a queued service is queued once and runs nowhere, and the running
  ones have different threads, so if all threads were busy they would map one to
  one into the services without the queued one, which are fewer than `allNum`.
  For the second, main accepts only when all services are registered
  (`Progress`), so no token is written to a service without an eventfd, and each
  mailbox has as many tokens as messages, the one main is about to write
  included; `NobodyForgotten` is the converse of `OwnInv`, that whoever has a
  descriptor is still known to main, to a mailbox, to a map or to the worker
  that closes it.
- **EchoConnectionProofs.** `EchoTypeCorrect`, `AlwaysInBounds`,
  `EchoAlwaysExact`, `ConnectionNeverStalls`. Bounds hold for any peer: `BufInv`
  adds to `BuffersInBounds` that buffers and wire hold bytes. Exactness is under
  the same condition as in the run, that frames fit. `EchoInv` lays the frames
  out in the peer's stream (`Layout`) and says that an open connection works on
  one of them: it waits for the head, waits for the body or sends both, all
  before that frame has been echoed, and its buffer holds the frame's bytes up to
  the mark. Each callback moves from one of these to the next, and in each of them
  exactly one event is added, which is `NeverStalls`.
- **SimulateServerProofs.** `SimulateTypeCorrect`, `DescriptorsKept`,
  `EventsOwned`, `ExitAfterAll`, `DurationAlwaysDefined`. `OwnInv` says what
  each client has (`FdOwners`: a descriptor of its own from `socket` to `close`),
  that whoever is in main's hand, a mailbox or a map is in the phase that says so,
  and that the event tables follow: an event that is on calls the owner of its
  descriptor. `HeldInv` is the converse, that a client is really where its phase
  says: in `asyncConnect`, behind an event that is on, in hand, in a mailbox, in a
  map. `DescriptorsKept` needs both. It does not say that nothing leaks: a client
  whose connect event could not be added (`Connector.cpp:97`) is `Forgotten`, has
  an open descriptor and no holder, and the theorem says that no other has. That the kernel has a lowest free descriptor is the
  well-foundedness of the naturals. The count is followed as a set: `Echoes` has
  a pair for each echo of each client, `echoCount_` is its cardinality until
  somebody exits (`EchoInv`). A body adds one pair that was not there, since who
  still receives has echoes to come; a set of `MsgNum * ClientNum` pairs is all
  of them, so whoever counts the last one is right, and alone, for nobody has a
  read event any more. The time stamp follows: a worker that is still about to
  stamp has a connection without echoes, so nobody can have counted the last.
- **MapReduceServerProofs.** `ResultsStayApart`, `CountsAreRight` and, for
  `MaxRequests = 1`, `OneRequestKeepsHandler`, `OneRequestStaysApart`,
  `OneRequestCounts`, `OneRequestAnswers`, `OneRequestNoMutualWait`. The first
  two have the hypothesis `[]HandlerOnLiveObject`. It is needed: with two requests per connection the code breaks it (run
  `map_reduce_owner`), and TLC then also finds cross talk. A handler posts for
  a connection that a pool thread has destroyed, a new client gets its
  descriptor, and the result is counted for the new client. With one request per
  connection, which is what `BenchmarkTest.cpp:93` sends, the hypothesis is a
  theorem: `OnceInv` says that a connection whose request is still to come has no
  task, so that as long as it lives it is in the map, and so is the one whose
  handler runs; a task's reference is then never the last. `CrossInv`
  carries the argument about descriptors: tasks keep their connection alive,
  so when a result enters the mailbox nobody else has its descriptor, and a
  `NEW_CONNECT` for the same number can only stand behind it. For the types,
  `Counted` bounds the results, running and queued tasks of a connection by its
  `taskCount_`, which therefore never goes below zero.
  `OneRequestAnswers` is `AnswersAreRight` under two hypotheses that both
  describe `BenchmarkTest`: one request per connection, and files with at least
  one number. Neither can go: `curMaxNum_` is not reset for a second request, and
  of an empty file the maximum is an uninitialised `int`. `AnswerInv` has two
  halves. `Bounded`: no number under way exceeds what the client computes itself
  (`Wanted`). `NothingLost`: the wanted number is somewhere, in a file still to
  be posted, in an open task, in a result, or it is the maximum so far. When
  `taskCount_` comes to zero, `Counted` says that no task and no other result is
  left, so the wanted number can only be the maximum that is sent. What the folds
  compute (`FoldIsLargest`, `FlattenNumbers`) is shown by least counterexample:
  the naturals are well founded (`UpTo`), and the fold is the solution of its
  equation over the sets of positions.
  `OneRequestNoMutualWait` says how far `map_reduce_full` reaches: with requests
  of at most `k` files, loop and pool cannot wait for each other while
  `Cardinality(Conns) * k` is at most `TaskQueueCapacity + MailboxCapacity +
  Cardinality(Pool)`. Everything that takes a place (a task, a message, a running
  thread, the file in the loop's hand) belongs to a client, and a client has at
  most `k` of them, because what it waits for is counted and while its
  `NEW_CONNECT` waits it has nothing else (`FewPlacesEach`). The bound is exact at
  the bounds of the runs: `map_reduce_full` has four files and three places.

Only model-checked: liveness, which is outside this prover
(`EverySentIsHandled`, `AcceptedIsServed`, `ServerStarts`, `EveryFrameReturns`,
`EveryRequestAnswered`, `NoLeak`, `EveryNewConnectServed`, `EveryoneEchoed`,
`EveryConnectCallsBack`). `NobodyForgotten`, `MailIsAnnounced`,
`ThreadForEveryService` and `NoMutualWait` are stated in the proof modules and no
run lists them; like the inductive invariants they were checked with TLC on the
bounds of `tcp_server` and `map_reduce` before they were proved.

## 5. Not modelled

The size of the reactor's event table, its start-up and destruction, socket
options and addresses, logging, measured times, thread names, the codecs and
`ServiceManager` (empty), `SelectEventReactor` (every operation is a stub),
`enableEvent` and `disableEvent` (no caller; `enableEvent` after a one-shot event
has fired would meet the assertion on the callback), `StorageServer` (not built,
and written against an interface the framework no longer has), and the writing
of `BenchmarkTest`'s files. Of `MapReduceConnection.cpp:139` the assertion that
the file is open: files exist in the model, and in the program a request for one
that does not ends the server. A failing `addEventHandler` is modelled in
`SimulateServer` only. `asyncConnect` returns without a call-back for an address
of the wrong length (`Connector.cpp:32`); addresses are not modelled. Calls inside `assert` are executed: the build does
not define `NDEBUG`.

## 6. Plan

Done: rings, registry, tasks, server start-up and hand-over, the wait-free
hand-over, echo connection, map-reduce, connector and load-test client; proofs
of every safety invariant of the passing runs and of both refinements.

Next: action properties of the hand-overs, such as that a client's stages only
go forward; and what a second request on a map-reduce connection is answered, the
maximum of all files asked so far, once the code keeps the handler's connection
alive.
