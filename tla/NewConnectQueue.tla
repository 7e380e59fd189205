--------------------------- MODULE NewConnectQueue ---------------------------
(***************************************************************************)
(* NetWorkService::notifyNewConnnectMsg and onNewConMsg: the acceptor      *)
(* hands sockets to a worker through the wait-free ring, and wakes its     *)
(* loop with a token in an eventfd of its own, acceptEventFd_.  There is   *)
(* one producer, the acceptor, and one consumer, the worker's loop.        *)
(*                                                                         *)
(* write and read of the eventfd are ordered by the kernel: what was       *)
(* published before the last write has reached whoever reads a token.      *)
(***************************************************************************)
EXTENDS WaitFreeRingBuffer

VARIABLES
  notifyPc,   \* where notifyNewConnnectMsg is: "out", "put" or "write"
  tokens,     \* the counter of acceptEventFd_
  announced,  \* head_ when the last token was written
  armed,      \* the read event of acceptEventFd_ is added
  handlerPc   \* where onNewConMsg is: "loop", "get", "serve" or "abort"

queueVars == <<notifyPc, tokens, announced, armed, handlerPc>>
allVars == <<vars, queueVars>>

\* After onStart: the eventfd is made and its event added.
QueueInit ==
  /\ Init
  /\ notifyPc = "out"
  /\ tokens = 0 /\ announced = 0
  /\ armed = TRUE
  /\ handlerPc = "loop"

-----------------------------------------------------------------------------
(* notifyNewConnnectMsg                                                    *)

Notify(fd) ==
  /\ notifyPc = "out"
  /\ CallPut(fd)
  /\ notifyPc' = "put"
  /\ UNCHANGED <<tokens, announced, armed, handlerPc>>

\* Slip: a token is written although asyncPut has refused.
Refused_TokenAnyway == "write"

\* "service is busy": return false.
Refused == "out"

NotifyCheck ==
  /\ PutCheck
  /\ notifyPc' = IF putPc' = "out" THEN Refused ELSE "put"
  /\ UNCHANGED <<tokens, announced, armed, handlerPc>>

NotifyStore == PutWrite /\ UNCHANGED queueVars

NotifyPublish ==
  /\ PutPublish
  /\ notifyPc' = "write"
  /\ UNCHANGED <<tokens, announced, armed, handlerPc>>

WriteToken ==
  /\ notifyPc = "write"
  /\ tokens' = tokens + 1
  /\ announced' = head
  /\ notifyPc' = "out"
  /\ UNCHANGED <<vars, armed, handlerPc>>

-----------------------------------------------------------------------------
(* onNewConMsg                                                             *)

From(i, j) == IF j >= i THEN j - i ELSE j - i + Size

\* Slip: an eventfd without EFD_SEMAPHORE, whose read takes the whole counter.
TokensLeft_None == 0

\* The eventfd is a semaphore: read takes one token.
TokensLeft == tokens - 1

\* The event has fired: read the token, then asyncGet.
OnNewConMsg ==
  /\ handlerPc = "loop"
  /\ armed /\ tokens > 0
  /\ From(tail, seenHead) >= From(tail, announced)
  /\ armed' = FALSE
  /\ tokens' = TokensLeft
  /\ CallGet
  /\ handlerPc' = "get"
  /\ UNCHANGED <<notifyPc, announced>>

\* The assert around asyncGet ends the process if there is nothing to get.
HandlerCheck ==
  /\ GetCheck
  /\ handlerPc' = IF getPc' = "out" THEN "abort" ELSE "get"
  /\ UNCHANGED <<notifyPc, tokens, announced, armed>>

HandlerRead == GetRead /\ UNCHANGED queueVars

HandlerPublish ==
  /\ GetPublish
  /\ handlerPc' = "serve"
  /\ UNCHANGED <<notifyPc, tokens, announced, armed>>

\* Slip: the one-shot event is not added again.
Rearmed_No == FALSE

Rearmed == TRUE

\* A Stream is made, newConnectionCb_ called, and the event added again.
Serve ==
  /\ handlerPc = "serve"
  /\ armed' = Rearmed
  /\ handlerPc' = "loop"
  /\ UNCHANGED <<vars, notifyPc, tokens, announced>>

-----------------------------------------------------------------------------
Arrive == (HeadArrives \/ TailArrives) /\ UNCHANGED queueVars

AcceptorStep == NotifyCheck \/ NotifyStore \/ NotifyPublish \/ WriteToken
LoopStep == OnNewConMsg \/ HandlerCheck \/ HandlerRead \/ HandlerPublish \/ Serve

QueueNext == (\E fd \in Values : Notify(fd)) \/ AcceptorStep \/ LoopStep \/ Arrive

QueueSpec == QueueInit /\ [][QueueNext]_allVars

\* Both threads are scheduled and published indices arrive; nobody is obliged
\* to connect.
FairQueueSpec ==
  QueueSpec /\ WF_allVars(AcceptorStep) /\ WF_allVars(LoopStep) /\ WF_allVars(Arrive)

-----------------------------------------------------------------------------
\* Types, those of the ring included: both sides keep their indices inside it.
QueueTypeOK ==
  /\ TypeOK
  /\ notifyPc \in {"out", "put", "write"}
  /\ tokens \in Nat /\ announced \in Slots
  /\ armed \in BOOLEAN
  /\ handlerPc \in {"loop", "get", "serve", "abort"}

\* Every socket in the ring has its token: in the eventfd, in the hands of
\* the acceptor that has not written it yet, or in those of the handler.
TokensMatch ==
  Count = tokens + (IF notifyPc = "write" THEN 1 ELSE 0) + (IF handlerPc = "get" THEN 1 ELSE 0)

\* NetWorkService.cpp:100 asserts that asyncGet succeeds: a token is written
\* only after a put that was not refused, and what it announces is visible to
\* the loop although the ring's indices may be seen late.
NeverAborts == handlerPc # "abort"

\* Each socket that gets into the ring gets its connection, although events
\* are one-shot and puts go on while the handler runs.
EveryNewConnectServed ==
  \A fd \in Values :
    (putPc = "publish" /\ arg = fd) ~> (handlerPc = "serve" /\ obj = fd)
=============================================================================
