------------------------ MODULE InteractiveTaskProofs ------------------------
(***************************************************************************)
(* Proofs about InteractiveTask, for any number of senders and messages,   *)
(* any queue capacity, with or without a reactor.                          *)
(***************************************************************************)
EXTENDS InteractiveTask, FiniteSetTheorems, SequenceTheorems, TLAPS

\* Types and places are as declared.
THEOREM TaskTypeCorrect == Spec => []TypeOK
<1>1. Init => TypeOK
  <2> SUFFICES ASSUME Init PROVE TypeOK
    OBVIOUS
  <2> USE DEF Init
  <2>1. queue \in Seq(Messages) /\ message \in Messages \cup {NoMessage}
    OBVIOUS
  <2>2. /\ spc \in [Senders -> {"idle", "waitFind", "lock", "put", "write"}]
        /\ sent \in [Senders -> Nat]
        /\ handled \in [Senders -> Nat]
        /\ late \in Nat /\ counter \in Nat
    OBVIOUS
  <2>3. armed \in BOOLEAN /\ registered \in BOOLEAN /\ alive \in BOOLEAN
    OBVIOUS
  <2>4. QED
    BY <2>1, <2>2, <2>3 DEF TypeOK, TaskPlaces
<1>2. TypeOK /\ [Next]_vars => TypeOK'
  <2> SUFFICES ASSUME TypeOK, [Next]_vars
               PROVE  TypeOK'
    OBVIOUS
  <2> USE DEF TypeOK, taskVars
  <2>1. CASE Start
    BY <2>1 DEF Start, TaskPlaces
  <2>2. CASE Regist
    BY <2>2 DEF Regist, TaskPlaces
  <2>3. CASE OnStart
    BY <2>3 DEF OnStart, TaskPlaces
  <2>4. CASE Fire
    BY <2>4 DEF Fire, TaskPlaces
  <2>5. CASE CheckStat
    BY <2>5 DEF CheckStat, TaskPlaces
  <2>6. CASE Read
    BY <2>6 DEF Read, TaskPlaces
  <2>7. CASE Get
    <3>1. Head(queue) \in Messages /\ Tail(queue) \in Seq(Messages)
      BY <2>7, HeadTailProperties DEF Get
    <3>2. QED
      BY <2>7, <3>1 DEF Get, TaskPlaces
  <2>8. CASE Handle
    BY <2>8 DEF Handle, TaskPlaces, Messages
  <2>9. CASE Rearm
    BY <2>9 DEF Rearm, TaskPlaces
  <2>10. CASE Stop
    BY <2>10 DEF Stop, TaskPlaces
  <2>11. CASE Unregist
    BY <2>11 DEF Unregist, TaskPlaces
  <2>12. CASE Close
    BY <2>12 DEF Close, TaskPlaces
  <2>13. CASE Release
    BY <2>13 DEF Release
  <2>14. CASE SetStat
    BY <2>14 DEF SetStat
  <2>15. ASSUME NEW s \in Senders, Put(s)
         PROVE  TypeOK'
    <3>1. sent' \in [Senders -> Nat] /\ <<s, sent'[s]>> \in Messages
      BY <2>15 DEF Put, Messages
    <3>2. queue' \in Seq(Messages)
      BY <2>15, <3>1, AppendProperties DEF Put
    <3>3. QED
      BY <2>15, <3>1, <3>2 DEF Put, At
  <2>16. ASSUME NEW s \in Senders, SendMsgTo(s) \/ WaitFind(s) \/ LockTask(s) \/ Write(s)
         PROVE  TypeOK'
    <3>1. CASE SendMsgTo(s)
      BY <3>1 DEF SendMsgTo, At
    <3>2. CASE WaitFind(s)
      BY <3>2 DEF WaitFind, At
    <3>3. CASE LockTask(s)
      BY <3>3 DEF LockTask, At
    <3>4. CASE Write(s)
      BY <3>4 DEF Write, At
    <3>5. QED
      BY <2>16, <3>1, <3>2, <3>3, <3>4
  <2>17. CASE UNCHANGED vars
    BY <2>17 DEF vars
  <2>18. QED
    BY <2>1, <2>2, <2>3, <2>4, <2>5, <2>6, <2>7, <2>8, <2>9, <2>10, <2>11, <2>12,
       <2>13, <2>14, <2>15, <2>16, <2>17 DEF Next, TaskStep, SenderStep
<1>3. QED
  BY <1>1, <1>2, PTL DEF Spec

-----------------------------------------------------------------------------
\* What the accounting rests on: nobody can reach the task before it has its
\* eventfd and is registered (start() registers last), and the eventfd stays
\* open until the loop has ended.
Reachability ==
  /\ pc \in {"new", "regist"} =>
       ~registered /\ \A s \in Senders : spc[s] \in {"idle", "waitFind"}
  /\ pc = "new" => queue = << >> /\ counter = 0
  /\ pc \in TaskPlaces \ {"new", "stopped"} => eventFd = "open"

\* Senders find the task only while its eventfd is open.
LEMMA ReachabilityInvariant == Spec => []Reachability
<1>1. Init => Reachability
  BY DEF Init, Reachability, TaskPlaces
<1>2. TypeOK /\ Reachability /\ [Next]_vars => Reachability'
  <2> SUFFICES ASSUME TypeOK, Reachability, [Next]_vars
               PROVE  Reachability'
    OBVIOUS
  <2> USE DEF TypeOK, Reachability, TaskPlaces, taskVars
  <2>1. CASE TaskStep
    BY <2>1 DEF TaskStep, Start, Regist, OnStart, Fire, CheckStat, Read, Get, Handle,
                Rearm, Stop, Unregist, Close
  <2>2. CASE Release \/ SetStat
    BY <2>2 DEF Release, SetStat
  <2>3. ASSUME NEW s \in Senders, SenderStep(s)
        PROVE  Reachability'
    <3>1. CASE SendMsgTo(s)
      BY <3>1 DEF SendMsgTo, At
    <3>2. CASE WaitFind(s)
      BY <3>2 DEF WaitFind, At
    <3>3. CASE LockTask(s)
      BY <3>3 DEF LockTask, At
    <3>4. CASE Put(s)
      BY <3>4 DEF Put, At
    <3>5. CASE Write(s)
      BY <3>5 DEF Write, At
    <3>6. QED
      BY <2>3, <3>1, <3>2, <3>3, <3>4, <3>5 DEF SenderStep
  <2>4. CASE UNCHANGED vars
    BY <2>4 DEF vars
  <2>5. QED
    BY <2>1, <2>2, <2>3, <2>4 DEF Next
<1>3. QED
  BY <1>1, <1>2, TaskTypeCorrect, PTL DEF Spec

\* How the set of senders between their put and their write changes.
LEMMA WritingFinite ==
  IsFiniteSet(Writing) /\ Cardinality(Writing) \in Nat
<1>1. Writing \in SUBSET Senders
  BY DEF Writing
<1>2. IsFiniteSet(Writing)
  BY <1>1, SendersAssumption, FS_Subset, Zenon
<1>3. QED
  BY <1>2, FS_CardinalityType, Zenon

\* A sender that has put its message is about to write a token.
LEMMA PutWriting ==
  ASSUME TypeOK, NEW s \in Senders, At(s, "put", "write")
  PROVE  Cardinality(Writing)' = Cardinality(Writing) + 1
<1>1. Writing' = Writing \cup {s} /\ s \notin Writing
  BY DEF TypeOK, At, Writing
<1>2. QED
  BY <1>1, WritingFinite, FS_AddElement

\* A sender that has written its token is done.
LEMMA WriteWriting ==
  ASSUME TypeOK, NEW s \in Senders, At(s, "write", "idle")
  PROVE  Cardinality(Writing)' = Cardinality(Writing) - 1
<1>1. Writing' = Writing \ {s} /\ s \in Writing
  BY DEF TypeOK, At, Writing
<1>2. QED
  BY <1>1, WritingFinite, FS_RemoveElement

\* Every queued message has its token: the count kept by the two halves of
\* notifyMsg and of __onMessage, for any number of senders.
THEOREM TokensAccounted == Spec => []TokenAccounting
<1>1. Init => TokenAccounting
  BY DEF Init, TokenAccounting, TaskPlaces
<1>2. TypeOK /\ Reachability /\ TokenAccounting /\ [Next]_vars => TokenAccounting'
  <2> SUFFICES ASSUME TypeOK, Reachability, TokenAccounting, [Next]_vars
               PROVE  TokenAccounting'
    OBVIOUS
  <2> DEFINE W == Cardinality(Writing)
  <2> USE DEF TaskPlaces, taskVars
  <2>0. W \in Nat /\ Len(queue) \in Nat /\ counter \in Nat
    BY WritingFinite, LenProperties DEF TypeOK
  \* Steps that leave spc alone leave W alone.
  <2>w. ASSUME spc' = spc PROVE W' = W
    BY <2>w DEF Writing
  <2>1. CASE Start
    <3>1. W = 0
      <4>1. Writing = {}
        BY <2>1 DEF Start, Writing, Reachability
      <4>2. QED
        BY <4>1, FS_EmptySet, Zenon
    <3>2. W' = 0 /\ queue' = << >> /\ counter' = 0 /\ pc' = "regist"
      BY <2>1, <2>w, <3>1 DEF Start, Reachability
    <3>3. QED
      BY <3>2 DEF TokenAccounting, TokenInHand
  <2>2. CASE Regist \/ OnStart \/ Fire \/ CheckStat \/ Handle \/ Rearm \/ Stop \/ Unregist
    <3>1. UNCHANGED <<queue, counter, spc>> /\ pc # "get" /\ pc' # "get" /\ pc \notin {"new", "stopped"}
      BY <2>2 DEF Regist, OnStart, Fire, CheckStat, Handle, Rearm, Stop, Unregist
    <3>2. QED
      BY <3>1, <2>w DEF TokenAccounting, TokenInHand, TypeOK
  <2>3. CASE Read
    BY <2>0, <2>3, <2>w DEF Read, TokenAccounting, TokenInHand
  <2>4. CASE Get
    <3>1. Len(queue') = Len(queue) - 1
      BY <2>4, HeadTailProperties DEF Get, TypeOK
    <3>2. QED
      BY <2>0, <2>4, <2>w, <3>1 DEF Get, TokenAccounting, TokenInHand
  <2>5. CASE Close
    BY <2>5 DEF Close, TokenAccounting
  <2>6. CASE Release \/ SetStat
    BY <2>6, <2>w DEF Release, SetStat, TokenAccounting, TokenInHand
  <2>7. ASSUME NEW s \in Senders, SendMsgTo(s) \/ WaitFind(s) \/ LockTask(s)
        PROVE  TokenAccounting'
    <3>1. UNCHANGED <<queue, counter, pc>> /\ Writing' = Writing
      BY <2>7 DEF SendMsgTo, WaitFind, LockTask, At, Writing, TypeOK
    <3>2. W' = W
      BY <3>1, Zenon
    <3>3. QED
      BY <3>1, <3>2 DEF TokenAccounting, TokenInHand
  <2>8. ASSUME NEW s \in Senders, Put(s)
        PROVE  TokenAccounting'
    <3>1. <<s, sent'[s]>> \in Messages
      BY <2>8 DEF Put, Messages, TypeOK
    <3>2. Len(queue') = Len(queue) + 1
      BY <2>8, <3>1, AppendProperties DEF Put, TypeOK
    <3>3. W' = W + 1
      BY <2>8, PutWriting DEF Put
    <3>4. QED
      BY <2>0, <2>8, <3>2, <3>3 DEF Put, TokenAccounting, TokenInHand
  <2>9. ASSUME NEW s \in Senders, Write(s)
        PROVE  TokenAccounting'
    <3>1. W' = W - 1
      BY <2>9, WriteWriting DEF Write
    <3>2. QED
      BY <2>0, <2>9, <3>1 DEF Write, TokenAccounting, TokenInHand, Reachability
  <2>10. CASE UNCHANGED vars
    BY <2>10, <2>w DEF vars, TokenAccounting, TokenInHand
  <2>11. QED
    BY <2>1, <2>2, <2>3, <2>4, <2>5, <2>6, <2>7, <2>8, <2>9, <2>10
       DEF Next, TaskStep, SenderStep
<1>3. QED
  BY <1>1, <1>2, TaskTypeCorrect, ReachabilityInvariant, PTL DEF Spec

\* The handler never blocks the reactor: neither its read() nor its syncGet().
THEOREM HandlerNeverBlocks == Spec => []NeverBlocksInHandler
<1> DEFINE ReadReady == hasReactor /\ pc = "read" => counter > 0
<1>1. Init => ReadReady
  BY DEF Init
<1>2. TypeOK /\ ReadReady /\ [Next]_vars => ReadReady'
  <2> SUFFICES ASSUME TypeOK, ReadReady, [Next]_vars
               PROVE  ReadReady'
    OBVIOUS
  <2> USE DEF TypeOK, taskVars
  <2>1. CASE TaskStep
    BY <2>1 DEF TaskStep, Start, Regist, OnStart, Fire, CheckStat, Read, Get, Handle,
                Rearm, Stop, Unregist, Close
  <2>2. CASE Release \/ SetStat
    BY <2>2 DEF Release, SetStat
  <2>3. ASSUME NEW s \in Senders, SenderStep(s)
        PROVE  ReadReady'
    <3>1. hasReactor' = hasReactor /\ pc' = pc
      BY <2>3 DEF SenderStep, SendMsgTo, WaitFind, LockTask, Put, Write
    <3>2. counter > 0 => counter' > 0
      BY <2>3 DEF SenderStep, SendMsgTo, WaitFind, LockTask, Put, Write
    <3>3. QED
      BY <3>1, <3>2, Zenon
  <2>4. CASE UNCHANGED vars
    BY <2>4 DEF vars
  <2>5. QED
    BY <2>1, <2>2, <2>3, <2>4 DEF Next
<1>3. TypeOK /\ TokenAccounting /\ ReadReady => NeverBlocksInHandler
  <2> SUFFICES ASSUME TypeOK, TokenAccounting, ReadReady, pc = "get"
               PROVE  queue # << >>
    BY DEF NeverBlocksInHandler
  <2>1. Len(queue) = counter + Cardinality(Writing) + 1
    BY DEF TokenAccounting, TokenInHand, TaskPlaces
  <2>2. Len(queue) > 0
    BY <2>1, WritingFinite DEF TypeOK
  <2>3. QED
    BY <2>2
<1>4. QED
  BY <1>1, <1>2, <1>3, TaskTypeCorrect, TokensAccounted, PTL DEF Spec

\* A task without a reactor looks at stat_ before each message, and stat_ never
\* returns to RUNNING once the task has started.
LateInv ==
  ~hasReactor =>
    /\ late <= 1
    /\ pc \in {"new", "read", "get", "handle"} => late = 0
    /\ stat = "RUNNING" => late = 0

\* A task that was told to stop handles at most the message it was waiting for,
\* whatever is still in the queue.
THEOREM StopIsPrompt == Spec => []AtMostOneAfterStop
<1>1. Init => LateInv
  BY DEF Init, LateInv
<1>2. TypeOK /\ LateInv /\ [Next]_vars => LateInv'
  <2> SUFFICES ASSUME TypeOK, LateInv, [Next]_vars, ~hasReactor'
               PROVE  LateInv'
    BY DEF LateInv
  <2>1. hasReactor' = hasReactor
    BY DEF Next, vars, TaskStep, Start, Regist, OnStart, Fire, CheckStat, Read, Get, Handle,
           Rearm, Stop, Unregist, Close, Release, SetStat, SenderStep, SendMsgTo, WaitFind,
           LockTask, Put, Write
  <2>2. ~hasReactor /\ pc # "rearm"
    BY <2>1, Zenon DEF TypeOK
  <2>3. CASE TaskStep
    BY <2>2, <2>3 DEF LateInv, TypeOK, taskVars, TaskStep, Start, Regist, OnStart, Fire, CheckStat,
                      Read, Get, Handle, Rearm, Stop, Unregist, Close
  <2>4. CASE Release \/ SetStat
    BY <2>2, <2>4 DEF LateInv, Release, SetStat
  <2>5. ASSUME NEW s \in Senders, SenderStep(s)
        PROVE  LateInv'
    <3>1. UNCHANGED <<pc, stat, late>>
      BY <2>5 DEF SenderStep, SendMsgTo, WaitFind, LockTask, Put, Write, taskVars
    <3>2. QED
      BY <2>2, <3>1 DEF LateInv
  <2>6. CASE UNCHANGED vars
    BY <2>2, <2>6 DEF LateInv, vars, taskVars
  <2>7. QED
    BY <2>3, <2>4, <2>5, <2>6 DEF Next
<1>3. LateInv => AtMostOneAfterStop
  BY DEF LateInv, AtMostOneAfterStop
<1>4. QED
  BY <1>1, <1>2, <1>3, TaskTypeCorrect, PTL DEF Spec
=============================================================================
