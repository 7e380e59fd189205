------------------------ MODULE NewConnectQueueProofs ------------------------
(***************************************************************************)
(* Proofs about WaitFreeRingBuffer and its use in NewConnectQueue, for     *)
(* every size of the ring and every set of values.                         *)
(***************************************************************************)
EXTENDS NewConnectQueue, SequenceTheorems, TLAPS

\* The index computation of _next (WaitFreeConcurrentRingBuffer.h:55-58).
LEMMA NextIndexValue ==
  ASSUME NEW i \in Slots
  PROVE  /\ NextIndex(i) = IF i = Size - 1 THEN 0 ELSE i + 1
         /\ NextIndex(i) \in Slots
<1>1. CASE i = Size - 1
  BY <1>1, SizeAssumption DEF NextIndex, Slots
<1>2. CASE i # Size - 1
  BY <1>2, SizeAssumption DEF NextIndex, Slots
<1>3. QED
  BY <1>1, <1>2

-----------------------------------------------------------------------------
(* The ring by itself                                                      *)

\* An empty ring is well formed.
LEMMA RingTypeInit == Init => TypeOK
BY SizeAssumption DEF Init, TypeOK, Slots

\* Every step of asyncPut and asyncGet, and every index that arrives, keeps
\* the indices inside the ring.
LEMMA RingTypeStep == TypeOK /\ [Next]_vars => TypeOK'
<1> SUFFICES ASSUME TypeOK, [Next]_vars
             PROVE  TypeOK'
  OBVIOUS
<1> USE DEF TypeOK
<1>1. ASSUME NEW v \in Values, CallPut(v)
      PROVE  TypeOK'
  BY <1>1 DEF CallPut, getVars
<1>2. CASE PutCheck
  BY <1>2 DEF PutCheck, getVars
<1>3. CASE PutWrite
  BY <1>3 DEF PutWrite, getVars
<1>4. CASE PutPublish
  BY <1>4, NextIndexValue DEF PutPublish, getVars
<1>5. CASE CallGet
  BY <1>5 DEF CallGet, putVars
<1>6. CASE GetCheck
  BY <1>6 DEF GetCheck, putVars
<1>7. CASE GetRead
  BY <1>7 DEF GetRead, putVars
<1>8. CASE GetPublish
  BY <1>8, NextIndexValue DEF GetPublish, putVars
<1>9. CASE HeadArrives
  BY <1>9, NextIndexValue DEF HeadArrives, putVars, getVars
<1>10. CASE TailArrives
  BY <1>10, NextIndexValue DEF TailArrives, putVars, getVars
<1>11. CASE UNCHANGED vars
  BY <1>11 DEF vars, putVars, getVars
<1>12. QED
  BY <1>1, <1>2, <1>3, <1>4, <1>5, <1>6, <1>7, <1>8, <1>9, <1>10, <1>11 DEF Next

\* Old indices are between the other side's and the new ones, and whoever has
\* passed its test still has what the test has seen: a value, or a free slot.
SlotInv ==
  /\ From(tail, seenHead) <= From(tail, head)
  /\ From(seenTail, tail) <= From(seenTail, head)
  /\ getPc \in {"read", "publish"} => tail # seenHead
  /\ putPc \in {"write", "publish"} => NextIndex(head) # seenTail

\* It holds of an empty ring.
LEMMA SlotInvInit == Init => SlotInv
BY SizeAssumption DEF Init, SlotInv, From

\* Every step keeps it: an index moves only past a test of the other side's
\* old index, and what arrives late does not overtake what was published.
LEMMA SlotInvStep == TypeOK /\ SlotInv /\ [Next]_vars => SlotInv'
<1> SUFFICES ASSUME TypeOK, SlotInv, [Next]_vars
             PROVE  SlotInv'
  OBVIOUS
<1>0. /\ head \in Slots /\ tail \in Slots /\ seenHead \in Slots /\ seenTail \in Slots
      /\ Size \in Nat \ {0} /\ Slots = 0 .. Size - 1
  BY SizeAssumption DEF TypeOK, Slots
<1>1. ASSUME NEW v \in Values, CallPut(v)
      PROVE  SlotInv'
  BY <1>1 DEF CallPut, getVars, SlotInv, From, NextIndex
<1>2. CASE PutCheck
  BY <1>2 DEF PutCheck, getVars, SlotInv, From, NextIndex
<1>3. CASE PutWrite
  BY <1>3 DEF PutWrite, getVars, SlotInv, From, NextIndex
<1>4. CASE PutPublish
  <2>1. /\ head' = NextIndex(head) /\ putPc' = "out"
        /\ UNCHANGED <<tail, seenHead, seenTail, getPc>>
    BY <1>4 DEF PutPublish, getVars
  <2>2. NextIndex(head) # seenTail
    BY <1>4 DEF PutPublish, SlotInv
  <2>3. NextIndex(head) = IF head = Size - 1 THEN 0 ELSE head + 1
    BY <1>0, NextIndexValue
  <2>4. QED
    BY <1>0, <2>1, <2>2, <2>3 DEF SlotInv, From
<1>5. CASE CallGet
  BY <1>5 DEF CallGet, putVars, SlotInv, From, NextIndex
<1>6. CASE GetCheck
  BY <1>6 DEF GetCheck, putVars, SlotInv, From, NextIndex
<1>7. CASE GetRead
  BY <1>7 DEF GetRead, putVars, SlotInv, From, NextIndex
<1>8. CASE GetPublish
  <2>1. /\ tail' = NextIndex(tail) /\ getPc' = "out"
        /\ UNCHANGED <<head, seenHead, seenTail, putPc>>
    BY <1>8 DEF GetPublish, putVars
  <2>2. tail # seenHead
    BY <1>8 DEF GetPublish, SlotInv
  <2>3. NextIndex(tail) = IF tail = Size - 1 THEN 0 ELSE tail + 1
    BY <1>0, NextIndexValue
  <2>4. QED
    BY <1>0, <2>1, <2>2, <2>3 DEF SlotInv, From, NextIndex
<1>9. CASE HeadArrives
  <2>1. /\ seenHead # head /\ seenHead' = NextIndex(seenHead)
        /\ UNCHANGED <<head, tail, seenTail, putPc, getPc>>
    BY <1>9 DEF HeadArrives, putVars, getVars
  <2>2. NextIndex(seenHead) = IF seenHead = Size - 1 THEN 0 ELSE seenHead + 1
    BY <1>0, NextIndexValue
  <2>3. QED
    BY <1>0, <2>1, <2>2 DEF SlotInv, From, NextIndex
<1>10. CASE TailArrives
  <2>1. /\ seenTail # tail /\ seenTail' = NextIndex(seenTail)
        /\ UNCHANGED <<head, tail, seenHead, putPc, getPc>>
    BY <1>10 DEF TailArrives, putVars, getVars
  <2>2. /\ NextIndex(seenTail) = IF seenTail = Size - 1 THEN 0 ELSE seenTail + 1
        /\ NextIndex(head) = IF head = Size - 1 THEN 0 ELSE head + 1
    BY <1>0, NextIndexValue
  <2>3. NextIndex(head)' = NextIndex(head)
    BY <2>1 DEF NextIndex
  <2>4. QED
    BY <1>0, <2>1, <2>2, <2>3 DEF SlotInv, From
<1>11. CASE UNCHANGED vars
  BY <1>11 DEF vars, putVars, getVars, SlotInv, From, NextIndex
<1>12. QED
  BY <1>1, <1>2, <1>3, <1>4, <1>5, <1>6, <1>7, <1>8, <1>9, <1>10, <1>11 DEF Next

\* It forbids the write that asyncPut must not do.
LEMMA SlotInvImplies == TypeOK /\ SlotInv => NoSlotConflict
<1> SUFFICES ASSUME TypeOK, SlotInv, putPc = "write"
             PROVE  ~(getPc = "read" /\ head = tail) /\ Count < Size - 1
  BY DEF NoSlotConflict
<1>1. /\ head \in Slots /\ tail \in Slots /\ seenHead \in Slots /\ seenTail \in Slots
      /\ Size \in Nat \ {0} /\ Slots = 0 .. Size - 1
  BY SizeAssumption DEF TypeOK, Slots
<1>2. /\ NextIndex(head) # seenTail
      /\ NextIndex(head) = IF head = Size - 1 THEN 0 ELSE head + 1
  BY <1>1, NextIndexValue DEF SlotInv
<1>3. ~(getPc = "read" /\ head = tail)
  BY <1>1 DEF SlotInv, From
<1>4. Count < Size - 1
  BY <1>1, <1>2 DEF SlotInv, From, Count
<1>5. QED
  BY <1>3, <1>4

\* Producer and consumer never meet in a slot, and no value is overwritten,
\* for every size, however late each sees the other's index.
THEOREM SlotsNeverConflict == Spec => []NoSlotConflict
<1>1. Init => TypeOK /\ SlotInv
  BY RingTypeInit, SlotInvInit
<1>2. TypeOK /\ SlotInv /\ [Next]_vars => (TypeOK /\ SlotInv)'
  BY RingTypeStep, SlotInvStep
<1>3. QED
  BY <1>1, <1>2, SlotInvImplies, PTL DEF Spec

\* Between its test and its publication a put has a value, which it has stored
\* in the slot it is about to publish; a get has cleared its object, or holds
\* the value of the slot it is about to give up.
HandOverInv ==
  /\ putPc # "out" => arg \in Values
  /\ putPc = "publish" => buff[head] = arg
  /\ getPc \in {"check", "read"} => obj = NoValue
  /\ getPc = "publish" => obj = buff[tail]

\* It holds of an empty ring.
LEMMA HandOverInit == Init => HandOverInv
BY DEF Init, HandOverInv

\* Every step keeps it: the producer writes no slot that the consumer has read
\* and not given up (SlotInv).
LEMMA HandOverStep == TypeOK /\ SlotInv /\ HandOverInv /\ [Next]_vars => HandOverInv'
<1> SUFFICES ASSUME TypeOK, SlotInv, HandOverInv, [Next]_vars
             PROVE  HandOverInv'
  OBVIOUS
<1> USE DEF HandOverInv
<1>1. ASSUME NEW v \in Values, CallPut(v)
      PROVE  HandOverInv'
  BY <1>1 DEF CallPut, getVars
<1>2. CASE PutCheck
  BY <1>2 DEF PutCheck, getVars
<1>3. CASE PutWrite
  <2>1. getPc = "publish" => head # tail
    BY SizeAssumption DEF SlotInv, From, TypeOK, Slots
  <2>2. buff'[head] = arg /\ (head # tail => buff'[tail] = buff[tail])
    BY <1>3 DEF PutWrite, TypeOK
  <2>3. QED
    BY <1>3, <2>1, <2>2 DEF PutWrite, getVars
<1>4. CASE PutPublish
  BY <1>4 DEF PutPublish, getVars
<1>5. CASE CallGet
  BY <1>5 DEF CallGet, putVars
<1>6. CASE GetCheck
  BY <1>6 DEF GetCheck, putVars
<1>7. CASE GetRead
  BY <1>7 DEF GetRead, putVars
<1>8. CASE GetPublish
  BY <1>8 DEF GetPublish, putVars
<1>9. CASE HeadArrives
  BY <1>9 DEF HeadArrives, putVars, getVars
<1>10. CASE TailArrives
  BY <1>10 DEF TailArrives, putVars, getVars
<1>11. CASE UNCHANGED vars
  BY <1>11 DEF vars, putVars, getVars
<1>12. QED
  BY <1>1, <1>2, <1>3, <1>4, <1>5, <1>6, <1>7, <1>8, <1>9, <1>10, <1>11 DEF Next

\* Contents is a sequence as long as Count says.
LEMMA RingContents ==
  ASSUME TypeOK
  PROVE  /\ Count \in 0 .. Size - 1
         /\ \A i \in 1 .. Count : SlotOf(i) \in Slots /\ SlotOf(i) # head
         /\ Contents \in Seq(Values \cup {NoValue})
         /\ Len(Contents) = Count
         /\ \A i \in 1 .. Count : Contents[i] = buff[SlotOf(i)]
<1>1. /\ head \in Slots /\ tail \in Slots
      /\ Size \in Nat \ {0} /\ Slots = 0 .. Size - 1
  BY SizeAssumption DEF TypeOK, Slots
<1>2. Count \in 0 .. Size - 1
  BY <1>1 DEF Count
<1>3. \A i \in 1 .. Count : SlotOf(i) \in Slots /\ SlotOf(i) # head
  BY <1>1, <1>2 DEF SlotOf, Count
<1>4. \A i \in 1 .. Count : buff[SlotOf(i)] \in Values \cup {NoValue}
  BY <1>3 DEF TypeOK
<1>5. QED
  BY <1>1, <1>2, <1>3, <1>4 DEF Contents

\* Publishing head_ appends the slot it has passed.
LEMMA PublishAppends ==
  ASSUME TypeOK, SlotInv, PutPublish
  PROVE  Count < Size - 1 /\ Contents' = Append(Contents, buff[head])
<1>1. /\ head \in Slots /\ tail \in Slots /\ seenTail \in Slots
      /\ Size \in Nat \ {0} /\ Slots = 0 .. Size - 1
  BY SizeAssumption DEF TypeOK, Slots
<1>2. /\ NextIndex(head) # seenTail
      /\ NextIndex(head) = IF head = Size - 1 THEN 0 ELSE head + 1
  BY <1>1, NextIndexValue DEF SlotInv, PutPublish
<1>3. Count < Size - 1
  BY <1>1, <1>2 DEF SlotInv, From, Count
<1>4. head' = NextIndex(head) /\ tail' = tail /\ buff' = buff
  BY DEF PutPublish
<1>5. Count' = Count + 1
  BY <1>1, <1>2, <1>3, <1>4 DEF Count
<1>6. \A i \in 1 .. Count + 1 : SlotOf(i)' = SlotOf(i)
  BY <1>4 DEF SlotOf
<1>7. SlotOf(Count + 1) = head
  BY <1>1, <1>3 DEF SlotOf, Count
<1>8. Contents' = [i \in 1 .. Count + 1 |-> buff[SlotOf(i)]]
  BY <1>4, <1>5, <1>6, Zenon DEF Contents
<1>9. QED
  BY <1>3, <1>7, <1>8, RingContents

\* Publishing tail_ removes the slot it has passed, which held the oldest value.
LEMMA PublishRemoves ==
  ASSUME TypeOK, SlotInv, GetPublish
  PROVE  /\ Contents # << >>
         /\ buff[tail] = Head(Contents)
         /\ Contents' = Tail(Contents)
<1>1. /\ head \in Slots /\ tail \in Slots /\ seenHead \in Slots
      /\ Size \in Nat \ {0} /\ Slots = 0 .. Size - 1
  BY SizeAssumption DEF TypeOK, Slots
<1>2. tail' = IF tail = Size - 1 THEN 0 ELSE tail + 1
  BY <1>1, NextIndexValue DEF GetPublish
<1>3. head' = head /\ buff' = buff
  BY DEF GetPublish
<1>4. head # tail
  BY <1>1 DEF SlotInv, From, GetPublish
<1>5. Count' = Count - 1 /\ Count \in 1 .. Size - 1
  BY <1>1, <1>2, <1>3, <1>4 DEF Count
<1>6. \A i \in 1 .. Count - 1 : SlotOf(i)' = SlotOf(i + 1)
  BY <1>1, <1>2, <1>5 DEF SlotOf
<1>7. SlotOf(1) = tail
  BY <1>1 DEF SlotOf
<1>8. Contents' = [i \in 1 .. Count - 1 |-> buff[SlotOf(i + 1)]]
  BY <1>3, <1>5, <1>6, Zenon DEF Contents
<1>9. Contents # << >> /\ buff[tail] = Head(Contents)
  BY <1>5, <1>7, RingContents
<1>10. /\ Tail(Contents) \in Seq(Values \cup {NoValue})
       /\ Len(Tail(Contents)) = Count - 1
       /\ \A i \in 1 .. Count - 1 : Tail(Contents)[i] = Contents[i + 1]
  BY <1>9, RingContents, HeadTailProperties
<1>11. Tail(Contents) = [i \in 1 .. Count - 1 |-> Tail(Contents)[i]]
  BY <1>10, LenProperties
<1>12. \A i \in 1 .. Count - 1 : Tail(Contents)[i] = buff[SlotOf(i + 1)]
  BY <1>5, <1>10, RingContents
<1>13. QED
  BY <1>8, <1>9, <1>11, <1>12

\* What the ring shows of the two threads to a user of BoundedFifo.
pendingArg == [t \in {"producer", "consumer"} |->
                 IF t = "producer" /\ putPc \in {"write", "publish"} THEN arg ELSE NoValue]
takenObj == [t \in {"producer", "consumer"} |->
               IF t = "consumer" /\ getPc # "publish" THEN obj ELSE NoValue]

\* "For one producer and one consumer": without any lock, and with each side
\* acting on old values of the other's index, the ring is the bounded FIFO
\* queue, for every size.
THEOREM WaitFreeImplementsFifo == Spec => ImplementsFifo
<1>1. Init => Fifo!Init
  <2> SUFFICES ASSUME Init PROVE Fifo!Init
    OBVIOUS
  <2>1. Count = 0
    BY DEF Init, Count
  <2>2. Contents = << >>
    BY <2>1 DEF Contents
  <2>3. QED
    BY <2>2 DEF Init, Fifo!Init
<1>2. TypeOK /\ SlotInv /\ HandOverInv /\ [Next]_vars => [Fifo!Next]_(Fifo!fifoVars)
  <2> SUFFICES ASSUME TypeOK, SlotInv, HandOverInv, [Next]_vars
               PROVE  Fifo!Next \/ UNCHANGED <<Contents, pendingArg, takenObj>>
    BY DEF Fifo!fifoVars, pendingArg, takenObj
  <2>0. ASSUME UNCHANGED <<buff, head, tail>>
        PROVE  Contents' = Contents
    BY <2>0 DEF Contents, Count, SlotOf
  <2>1. ASSUME NEW v \in Values, CallPut(v)
        PROVE  UNCHANGED <<Contents, pendingArg, takenObj>>
    BY <2>0, <2>1 DEF CallPut, getVars, pendingArg, takenObj
  <2>2. CASE PutCheck
    <3>1. Contents' = Contents /\ takenObj' = takenObj
      BY <2>0, <2>2 DEF PutCheck, getVars, takenObj
    <3>2. CASE putPc' = "write"
      <4>1. PICK v \in Values : v = arg
        BY <2>2 DEF PutCheck, HandOverInv
      <4>2. pendingArg' = [pendingArg EXCEPT !["producer"] = v]
        BY <2>2, <3>2, <4>1 DEF PutCheck, pendingArg
      <4>3. Fifo!Request("producer", v)
        BY <2>2, <3>1, <4>2 DEF PutCheck, Fifo!Request, pendingArg, takenObj
      <4>4. QED
        BY <4>3 DEF Fifo!Next
    <3>3. CASE putPc' = "out"
      BY <2>2, <3>1, <3>3 DEF PutCheck, pendingArg
    <3>4. QED
      BY <2>2, <3>2, <3>3 DEF PutCheck
  <2>3. CASE PutWrite
    <3>1. Count' = Count /\ \A i \in 1 .. Count : SlotOf(i)' = SlotOf(i)
      BY <2>3 DEF PutWrite, Count, SlotOf
    <3>2. \A i \in 1 .. Count : buff'[SlotOf(i)] = buff[SlotOf(i)]
      BY <2>3, RingContents DEF PutWrite, TypeOK
    <3>3. Contents' = Contents
      BY <3>1, <3>2 DEF Contents
    <3>4. QED
      BY <2>3, <3>3 DEF PutWrite, getVars, pendingArg, takenObj
  <2>4. CASE PutPublish
    <3>1. Len(Contents) < Size - 1 /\ Contents' = Append(Contents, arg) /\ arg \in Values
      BY <2>4, PublishAppends, RingContents DEF HandOverInv, PutPublish
    <3>2. /\ pendingArg["producer"] = arg
          /\ pendingArg' = [pendingArg EXCEPT !["producer"] = NoValue]
          /\ takenObj' = takenObj
      BY <2>4 DEF PutPublish, getVars, pendingArg, takenObj
    <3>3. Fifo!Put("producer")
      BY <3>1, <3>2, NoValueAssumption DEF Fifo!Put, pendingArg, takenObj
    <3>4. QED
      BY <3>3 DEF Fifo!Next
  <2>5. CASE CallGet
    <3>1. Contents' = Contents /\ pendingArg' = pendingArg
      BY <2>0, <2>5 DEF CallGet, putVars, pendingArg
    <3>2. takenObj' = [takenObj EXCEPT !["consumer"] = NoValue]
      BY <2>5 DEF CallGet, takenObj
    <3>3. Fifo!Request("consumer", NoValue)
      BY <3>1, <3>2 DEF Fifo!Request, pendingArg, takenObj
    <3>4. QED
      BY <3>3 DEF Fifo!Next
  <2>6. CASE GetCheck
    BY <2>0, <2>6 DEF GetCheck, putVars, pendingArg, takenObj
  <2>7. CASE GetRead
    BY <2>0, <2>7 DEF GetRead, putVars, HandOverInv, pendingArg, takenObj
  <2>8. CASE GetPublish
    <3>1. Contents # << >> /\ obj = Head(Contents) /\ Contents' = Tail(Contents)
      BY <2>8, PublishRemoves DEF HandOverInv, GetPublish
    <3>2. /\ takenObj' = [takenObj EXCEPT !["consumer"] = obj]
          /\ pendingArg' = pendingArg
      BY <2>8 DEF GetPublish, putVars, pendingArg, takenObj
    <3>3. Fifo!Get("consumer")
      BY <3>1, <3>2 DEF Fifo!Get, pendingArg, takenObj
    <3>4. QED
      BY <3>3 DEF Fifo!Next
  <2>9. CASE HeadArrives \/ TailArrives
    BY <2>0, <2>9 DEF HeadArrives, TailArrives, putVars, getVars, pendingArg, takenObj
  <2>10. CASE UNCHANGED vars
    BY <2>0, <2>10 DEF vars, putVars, getVars, pendingArg, takenObj
  <2>11. QED
    BY <2>1, <2>2, <2>3, <2>4, <2>5, <2>6, <2>7, <2>8, <2>9, <2>10 DEF Next
<1>3. Init => TypeOK /\ SlotInv /\ HandOverInv
  BY RingTypeInit, SlotInvInit, HandOverInit
<1>4. TypeOK /\ SlotInv /\ HandOverInv /\ [Next]_vars => (TypeOK /\ SlotInv /\ HandOverInv)'
  BY RingTypeStep, SlotInvStep, HandOverStep
<1>5. QED
  BY <1>1, <1>2, <1>3, <1>4, PTL DEF Spec, ImplementsFifo, Fifo!Spec

-----------------------------------------------------------------------------
(* The ring between acceptor and loop                                      *)

\* Every step of the queue is a step of the ring or leaves it alone.
LEMMA QueueStepIsRingStep == [QueueNext]_allVars => [Next]_vars
<1> SUFFICES ASSUME [QueueNext]_allVars
             PROVE  Next \/ UNCHANGED vars
  OBVIOUS
<1>1. ASSUME NEW fd \in Values, Notify(fd)
      PROVE  Next
  BY <1>1 DEF Notify, Next
<1>2. CASE AcceptorStep
  BY <1>2 DEF AcceptorStep, NotifyCheck, NotifyStore, NotifyPublish, WriteToken, Next
<1>3. CASE LoopStep
  BY <1>3 DEF LoopStep, OnNewConMsg, HandlerCheck, HandlerRead, HandlerPublish, Serve, Next
<1>4. CASE Arrive
  BY <1>4 DEF Arrive, Next
<1>5. CASE UNCHANGED allVars
  BY <1>5 DEF allVars
<1>6. QED
  BY <1>1, <1>2, <1>3, <1>4, <1>5 DEF QueueNext

\* The queue uses the ring as one producer and one consumer may: what holds
\* for the ring by itself (SlotsNeverConflict, WaitFreeImplementsFifo) holds
\* for it here.
THEOREM QueueUsesRing == QueueSpec => Spec
<1>1. QueueInit => Init
  BY DEF QueueInit
<1>2. QED
  BY <1>1, QueueStepIsRingStep, PTL DEF QueueSpec, Spec

\* notifyNewConnnectMsg and onNewConMsg are inside the ring's operations when
\* they say so.  The tokens written so far announce the sockets up to
\* announced, less the one the handler works on; once the handler has read
\* its token there is a socket that it can see.
QueueInv ==
  /\ notifyPc = "put" <=> putPc # "out"
  /\ handlerPc = "get" <=> getPc # "out"
  /\ TokensMatch
  /\ From(tail, announced) = tokens + (IF handlerPc = "get" THEN 1 ELSE 0)
  /\ handlerPc = "get" => tail # seenHead
  /\ NeverAborts

\* It holds after onStart, with neither sockets nor tokens.
LEMMA QueueInvInit == QueueInit => QueueTypeOK /\ QueueInv
<1> SUFFICES ASSUME QueueInit
             PROVE  QueueTypeOK /\ QueueInv
  OBVIOUS
<1>1. TypeOK
  BY RingTypeInit DEF QueueInit
<1>2. QueueTypeOK
  BY <1>1, SizeAssumption DEF QueueInit, QueueTypeOK, Slots
<1>3. QueueInv
  BY SizeAssumption DEF QueueInit, Init, QueueInv, TokensMatch, NeverAborts, From, Count
<1>4. QED
  BY <1>2, <1>3

\* Every step of acceptor and loop keeps it.
LEMMA QueueInvStep ==
  QueueTypeOK /\ SlotInv /\ QueueInv /\ [QueueNext]_allVars => QueueTypeOK' /\ QueueInv'
<1> SUFFICES ASSUME QueueTypeOK, SlotInv, QueueInv, [QueueNext]_allVars
             PROVE  QueueTypeOK' /\ QueueInv'
  OBVIOUS
<1>0. TypeOK'
  BY RingTypeStep, QueueStepIsRingStep DEF QueueTypeOK
<1>a. /\ head \in 0 .. Size - 1 /\ tail \in 0 .. Size - 1
      /\ seenHead \in 0 .. Size - 1 /\ seenTail \in 0 .. Size - 1
      /\ announced \in 0 .. Size - 1
      /\ tokens \in Nat
      /\ Size \in Nat \ {0}
  BY SizeAssumption DEF QueueTypeOK, TypeOK, Slots
<1>b. \A i \in 0 .. Size - 1 : NextIndex(i) = IF i = Size - 1 THEN 0 ELSE i + 1
  BY NextIndexValue DEF Slots
<1> USE <1>0 DEF QueueTypeOK, QueueInv, TokensMatch, NeverAborts
<1>1. ASSUME NEW fd \in Values, Notify(fd)
      PROVE  QueueTypeOK' /\ QueueInv'
  BY <1>1 DEF Notify, CallPut, getVars, From, Count
<1>2. CASE NotifyCheck
  BY <1>2 DEF NotifyCheck, PutCheck, Refused, getVars, From, Count
<1>3. CASE NotifyStore
  BY <1>3 DEF NotifyStore, PutWrite, queueVars, getVars, From, Count
<1>4. CASE NotifyPublish
  <2>1. /\ notifyPc = "put" /\ notifyPc' = "write" /\ putPc' = "out"
        /\ head' = NextIndex(head)
        /\ UNCHANGED <<tail, seenHead, getPc, tokens, announced, armed, handlerPc>>
    BY <1>4 DEF NotifyPublish, PutPublish, getVars
  <2>2. NextIndex(head) # seenTail
    BY <1>4 DEF NotifyPublish, PutPublish, SlotInv
  <2>3. Count' = Count + 1
    BY <1>a, <1>b, <2>1, <2>2 DEF SlotInv, From, Count
  <2>4. From(tail, announced)' = From(tail, announced)
    BY <2>1 DEF From
  <2>5. QED
    BY <1>a, <2>1, <2>3, <2>4
<1>5. CASE WriteToken
  <2>1. /\ notifyPc = "write" /\ notifyPc' = "out" /\ tokens' = tokens + 1
        /\ announced' = head
        /\ UNCHANGED <<head, tail, seenHead, putPc, getPc, armed, handlerPc>>
    BY <1>5 DEF WriteToken, vars, putVars, getVars
  <2>2. Count' = Count /\ From(tail, announced)' = Count
    BY <1>a, <2>1 DEF Count, From
  <2>3. announced' \in Slots
    BY <1>a, <2>1 DEF Slots
  <2>4. QED
    BY <1>a, <2>1, <2>2, <2>3
<1>6. CASE OnNewConMsg
  <2>1. /\ handlerPc = "loop" /\ handlerPc' = "get" /\ getPc' = "check"
        /\ tokens > 0 /\ tokens' = tokens - 1
        /\ From(tail, seenHead) >= From(tail, announced)
        /\ UNCHANGED <<head, tail, seenHead, putPc, notifyPc, announced>>
    BY <1>6 DEF OnNewConMsg, CallGet, TokensLeft, putVars
  <2>2. Count' = Count /\ From(tail, announced)' = From(tail, announced)
    BY <2>1 DEF Count, From
  <2>3. tail # seenHead
    BY <1>a, <2>1 DEF From
  <2>4. armed' \in BOOLEAN
    BY <1>6 DEF OnNewConMsg
  <2>5. QED
    BY <1>a, <2>1, <2>2, <2>3, <2>4
<1>7. CASE HandlerCheck
  BY <1>7 DEF HandlerCheck, GetCheck, putVars, From, Count
<1>8. CASE HandlerRead
  BY <1>8 DEF HandlerRead, GetRead, queueVars, putVars, From, Count
<1>9. CASE HandlerPublish
  <2>1. /\ handlerPc = "get" /\ handlerPc' = "serve" /\ getPc' = "out"
        /\ tail' = NextIndex(tail)
        /\ UNCHANGED <<head, seenHead, putPc, notifyPc, tokens, announced, armed>>
    BY <1>9 DEF HandlerPublish, GetPublish, putVars
  <2>2. Count >= 1 /\ From(tail, announced) >= 1
    BY <1>a, <2>1
  <2>3. Count' = Count - 1
    BY <1>a, <1>b, <2>1, <2>2 DEF Count
  <2>4. From(tail, announced)' = From(tail, announced) - 1
    BY <1>a, <1>b, <2>1, <2>2 DEF From
  <2>5. QED
    BY <1>a, <2>1, <2>3, <2>4
<1>10. CASE Serve
  BY <1>10 DEF Serve, Rearmed, vars, putVars, getVars, From, Count
<1>11. CASE Arrive
  <2>1. /\ UNCHANGED <<head, tail, putPc, getPc>> /\ UNCHANGED queueVars
        /\ seenHead' = seenHead \/ (seenHead # head /\ seenHead' = NextIndex(seenHead))
    BY <1>11 DEF Arrive, HeadArrives, TailArrives, putVars, getVars
  <2>2. Count' = Count /\ From(tail, announced)' = From(tail, announced)
    BY <2>1 DEF Count, From, queueVars
  <2>3. handlerPc = "get" => tail # seenHead'
    BY <1>a, <1>b, <2>1 DEF SlotInv, From
  <2>4. QED
    BY <2>1, <2>2, <2>3 DEF queueVars
<1>12. CASE UNCHANGED allVars
  BY <1>12 DEF allVars, vars, queueVars, putVars, getVars, From, Count
<1>13. QED
  BY <1>1, <1>2, <1>3, <1>4, <1>5, <1>6, <1>7, <1>8, <1>9, <1>10, <1>11, <1>12
     DEF QueueNext, AcceptorStep, LoopStep

\* The invariants of ring and queue together hold in every state.
LEMMA QueueInvariant == QueueSpec => [](QueueTypeOK /\ SlotInv /\ QueueInv)
<1>1. QueueInit => QueueTypeOK /\ SlotInv /\ QueueInv
  BY QueueInvInit, SlotInvInit DEF QueueInit
<1>2. QueueTypeOK /\ SlotInv /\ QueueInv /\ [QueueNext]_allVars
        => (QueueTypeOK /\ SlotInv /\ QueueInv)'
  BY QueueInvStep, SlotInvStep, QueueStepIsRingStep DEF QueueTypeOK
<1>3. QED
  BY <1>1, <1>2, PTL DEF QueueSpec

\* The states of ring, acceptor and loop are well formed.
THEOREM QueueTypeCorrect == QueueSpec => []QueueTypeOK
BY QueueInvariant, PTL

\* Sockets in the ring and tokens stay paired, whatever is refused meanwhile.
THEOREM TokensAlwaysMatch == QueueSpec => []TokensMatch
<1>1. QueueInv => TokensMatch
  BY DEF QueueInv
<1>2. QED
  BY <1>1, QueueInvariant, PTL

\* The assertion of NetWorkService.cpp:100 holds for every size of the ring.
THEOREM HandlerNeverAborts == QueueSpec => []NeverAborts
<1>1. QueueInv => NeverAborts
  BY DEF QueueInv
<1>2. QED
  BY <1>1, QueueInvariant, PTL
=============================================================================
