------------------------- MODULE WaitFreeRingBuffer -------------------------
(***************************************************************************)
(* multi-threading/WaitFreeConcurrentRingBuffer.h: a ring without locks    *)
(* for one producer and one consumer (NetWorkService::newConMsgBuf_).      *)
(* Each side owns one index, loads the other's with acquire and publishes  *)
(* its own with release.                                                   *)
(*                                                                         *)
(* An acquire load may return an older value of the other side's index:    *)
(* seenHead and seenTail are the values that have reached the consumer and *)
(* the producer.  They follow head and tail in order, at any distance.     *)
(* What was written to a slot before an index was published is visible to  *)
(* whoever has loaded that index.                                          *)
(***************************************************************************)
EXTENDS Integers, Sequences

CONSTANTS
  Values,    \* NewConnectMessage
  Size,      \* constructor argument (50000 in the code)
  NoValue    \* a default-constructed T

ASSUME SizeAssumption == Size \in Nat \ {0}
ASSUME NoValueAssumption == NoValue \notin Values

VARIABLES
  buff,      \* buff_
  head,      \* head_
  tail,      \* tail_
  seenHead,  \* the value of head_ that has reached the consumer
  seenTail,  \* the value of tail_ that has reached the producer
  putPc,     \* where the producer is: "out", "check", "write" or "publish"
  arg,       \* what it puts
  getPc,     \* where the consumer is: "out", "check", "read" or "publish"
  obj        \* what it got

putVars == <<putPc, arg>>
getVars == <<getPc, obj>>
vars == <<buff, head, tail, seenHead, seenTail, putVars, getVars>>

Slots == 0 .. Size - 1

\* Slip: the index runs past the end of the ring.
NextIndex_NoWrap(i) == i + 1

NextIndex(i) == (i + 1) % Size

Init ==
  /\ buff = [i \in Slots |-> NoValue]
  /\ head = 0 /\ tail = 0
  /\ seenHead = 0 /\ seenTail = 0
  /\ putPc = "out" /\ arg = NoValue
  /\ getPc = "out" /\ obj = NoValue

-----------------------------------------------------------------------------
(* asyncPut                                                                *)

CallPut(v) ==
  /\ putPc = "out"
  /\ putPc' = "check"
  /\ arg' = v
  /\ UNCHANGED <<buff, head, tail, seenHead, seenTail, getVars>>

\* Slip: a full ring is not noticed.
PutCheck_Always ==
  /\ putPc = "check"
  /\ putPc' = "write"
  /\ UNCHANGED <<buff, head, tail, seenHead, seenTail, arg, getVars>>

\* Load both indices; return false if there is no free slot.
PutCheck ==
  /\ putPc = "check"
  /\ putPc' = IF NextIndex(head) = seenTail THEN "out" ELSE "write"
  /\ UNCHANGED <<buff, head, tail, seenHead, seenTail, arg, getVars>>

\* Slip: the value is stored where head_ is going to be.
PutWrite_NextSlot ==
  /\ putPc = "write"
  /\ buff' = [buff EXCEPT ![NextIndex(head)] = arg]
  /\ putPc' = "publish"
  /\ UNCHANGED <<head, tail, seenHead, seenTail, arg, getVars>>

PutWrite ==
  /\ putPc = "write"
  /\ buff' = [buff EXCEPT ![head] = arg]
  /\ putPc' = "publish"
  /\ UNCHANGED <<head, tail, seenHead, seenTail, arg, getVars>>

PutPublish ==
  /\ putPc = "publish"
  /\ head' = NextIndex(head)
  /\ putPc' = "out"
  /\ UNCHANGED <<buff, tail, seenHead, seenTail, arg, getVars>>

-----------------------------------------------------------------------------
(* asyncGet                                                                *)

CallGet ==
  /\ getPc = "out"
  /\ getPc' = "check"
  /\ obj' = NoValue
  /\ UNCHANGED <<buff, head, tail, seenHead, seenTail, putVars>>

\* Load both indices; return false if there is nothing to get.
GetCheck ==
  /\ getPc = "check"
  /\ getPc' = IF tail = seenHead THEN "out" ELSE "read"
  /\ UNCHANGED <<buff, head, tail, seenHead, seenTail, obj, putVars>>

GetRead ==
  /\ getPc = "read"
  /\ obj' = buff[tail]
  /\ getPc' = "publish"
  /\ UNCHANGED <<buff, head, tail, seenHead, seenTail, putVars>>

GetPublish ==
  /\ getPc = "publish"
  /\ tail' = NextIndex(tail)
  /\ getPc' = "out"
  /\ UNCHANGED <<buff, head, seenHead, seenTail, obj, putVars>>

-----------------------------------------------------------------------------
\* A published index reaches the other side.
HeadArrives ==
  /\ seenHead # head
  /\ seenHead' = NextIndex(seenHead)
  /\ UNCHANGED <<buff, head, tail, seenTail, putVars, getVars>>

TailArrives ==
  /\ seenTail # tail
  /\ seenTail' = NextIndex(seenTail)
  /\ UNCHANGED <<buff, head, tail, seenHead, putVars, getVars>>

Next ==
  \/ \E v \in Values : CallPut(v)
  \/ PutCheck \/ PutWrite \/ PutPublish
  \/ CallGet \/ GetCheck \/ GetRead \/ GetPublish
  \/ HeadArrives \/ TailArrives

Spec == Init /\ [][Next]_vars

-----------------------------------------------------------------------------
\* Types: the indices stay inside the ring, for every memory access.
TypeOK ==
  /\ buff \in [Slots -> Values \cup {NoValue}]
  /\ head \in Slots /\ tail \in Slots
  /\ seenHead \in Slots /\ seenTail \in Slots
  /\ putPc \in {"out", "check", "write", "publish"}
  /\ arg \in Values \cup {NoValue}
  /\ getPc \in {"out", "check", "read", "publish"}
  /\ obj \in Values \cup {NoValue}

Count == IF head >= tail THEN head - tail ELSE head - tail + Size
SlotOf(i) == IF tail + i - 1 < Size THEN tail + i - 1 ELSE tail + i - 1 - Size
Contents == [i \in 1 .. Count |-> buff[SlotOf(i)]]

\* The producer never writes the slot the consumer is reading, which would be
\* a data race on a T that is not atomic (lines 38 and 49), and never one
\* that holds a value nobody has taken.
NoSlotConflict ==
  putPc = "write" => ~(getPc = "read" /\ head = tail) /\ Count < Size - 1

\* "For one producer and one consumer" (line 3): the ring hands values over
\* in order, once each, at most Size - 1 at a time, although both sides act
\* on old values of the other's index.  The put joins the queue when head_ is
\* published, and the get leaves it when tail_ is; a refused put is none.
Fifo ==
  INSTANCE BoundedFifo WITH
    Threads <- {"producer", "consumer"},
    Capacity <- Size - 1,
    queue <- Contents,
    arg <- [t \in {"producer", "consumer"} |->
              IF t = "producer" /\ putPc \in {"write", "publish"} THEN arg ELSE NoValue],
    obj <- [t \in {"producer", "consumer"} |->
              IF t = "consumer" /\ getPc # "publish" THEN obj ELSE NoValue]
ImplementsFifo == Fifo!Spec
=============================================================================
