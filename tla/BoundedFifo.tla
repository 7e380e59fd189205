---------------------------- MODULE BoundedFifo ----------------------------
(***************************************************************************)
(* What a queue shared between threads promises its callers: values come   *)
(* out in the order in which they went in, each exactly once, and never    *)
(* more than Capacity of them are inside.  ConcurrentRingBuffer and        *)
(* WaitFreeRingBuffer implement it.                                        *)
(*                                                                         *)
(* arg[t] is the value thread t has asked to put and that has neither been *)
(* stored nor refused yet, obj[t] the value t took last.                   *)
(***************************************************************************)
EXTENDS Naturals, Sequences

CONSTANTS Threads, Values, Capacity, NoValue

VARIABLES queue, arg, obj

fifoVars == <<queue, arg, obj>>

Init ==
  /\ queue = << >>
  /\ arg = [t \in Threads |-> NoValue]
  /\ obj = [t \in Threads |-> NoValue]

\* A thread asks to put v, or (v = NoValue) to take a value into a fresh obj.
Request(t, v) ==
  /\ arg[t] = NoValue
  /\ arg' = [arg EXCEPT ![t] = v]
  /\ obj' = [obj EXCEPT ![t] = NoValue]
  /\ UNCHANGED queue

\* The requested value joins the end of the queue.
Put(t) ==
  /\ arg[t] # NoValue
  /\ Len(queue) < Capacity
  /\ queue' = Append(queue, arg[t])
  /\ arg' = [arg EXCEPT ![t] = NoValue]
  /\ UNCHANGED obj

\* A put is refused: only a full queue may do so.
Refuse(t) ==
  /\ arg[t] # NoValue
  /\ Len(queue) = Capacity
  /\ arg' = [arg EXCEPT ![t] = NoValue]
  /\ UNCHANGED <<queue, obj>>

\* A thread takes the oldest value.
Get(t) ==
  /\ queue # << >>
  /\ obj' = [obj EXCEPT ![t] = Head(queue)]
  /\ queue' = Tail(queue)
  /\ UNCHANGED arg

Next ==
  \E t \in Threads :
    \/ \E v \in Values \cup {NoValue} : Request(t, v)
    \/ Put(t)
    \/ Refuse(t)
    \/ Get(t)

Spec == Init /\ [][Next]_fifoVars
=============================================================================
