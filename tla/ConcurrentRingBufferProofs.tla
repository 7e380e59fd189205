--------------------- MODULE ConcurrentRingBufferProofs ---------------------
(***************************************************************************)
(* Proofs about ConcurrentRingBuffer, for every number of threads, every   *)
(* set of values and every size.                                           *)
(***************************************************************************)
EXTENDS ConcurrentRingBuffer, FiniteSetTheorems, SequenceTheorems, TLAPS

\* The index computation of _next (ConcurrentRingBuffer.h:80-83) without %.
LEMMA NextIndexValue ==
  ASSUME NEW i \in Slots
  PROVE  /\ NextIndex(i) = IF i = Size - 1 THEN 0 ELSE i + 1
         /\ NextIndex(i) \in Slots
<1>1. CASE i = Size - 1
  BY <1>1, SizeAssumption DEF NextIndex, Slots
<1>2. CASE i # Size - 1
  BY <1>2, SizeAssumption DEF NextIndex, Slots
<1>3. QED
  BY <1>1, <1>2

\* The buffer's states are well formed, whatever the threads call.
THEOREM TypeCorrect == Spec => []TypeOK
<1>1. Init => TypeOK
  BY SizeAssumption DEF Init, TypeOK, Slots
<1>2. TypeOK /\ [Next]_vars => TypeOK'
  <2> SUFFICES ASSUME TypeOK, [Next]_vars
               PROVE  TypeOK'
    OBVIOUS
  <2> USE DEF TypeOK
  <2>1. ASSUME NEW t \in Threads, NEW o \in PutOps, NEW v \in Values, Call(t, o, v)
        PROVE  TypeOK'
    BY <2>1 DEF Call, PutOps, GetOps
  <2>2. ASSUME NEW t \in Threads, NEW o \in GetOps, Call(t, o, NoValue)
        PROVE  TypeOK'
    BY <2>2 DEF Call, PutOps, GetOps
  <2>3. ASSUME NEW t \in Threads, SyncPut(t)
        PROVE  TypeOK'
    BY <2>3, NextIndexValue
       DEF SyncPut, Holds, Wait, Store, NotifyOneAndReturn, Asleep, PutOps, GetOps
  <2>4. ASSUME NEW t \in Threads, AsyncPut(t)
        PROVE  TypeOK'
    <3>1. CASE Full
      BY <2>4, <3>1 DEF AsyncPut, Holds, PutOps, GetOps
    <3>2. CASE ~Full
      <4>1. ret' \in [Threads -> BOOLEAN]
        <5>1. PICK r \in BOOLEAN : ret' = [ret EXCEPT ![t] = r]
          BY <2>4, <3>2, Zenon DEF AsyncPut
        <5>2. QED
          BY <5>1
      <4>2. Holds(t, "asyncPut") /\ Store(t) /\ NotifyOneAndReturn(t, "notEmpty")
        BY <2>4, <3>2, Zenon DEF AsyncPut
      <4>3. QED
        BY <4>1, <4>2, NextIndexValue
           DEF Holds, Store, NotifyOneAndReturn, Asleep, PutOps, GetOps
    <3>3. QED
      BY <3>1, <3>2
  <2>5. ASSUME NEW t \in Threads, SyncGet(t)
        PROVE  TypeOK'
    <3>1. CASE Empty
      BY <2>5, <3>1 DEF SyncGet, Holds, Wait, PutOps, GetOps
    <3>2. CASE ~Empty
      <4>1. ret' \in [Threads -> BOOLEAN]
        BY <2>5, <3>2 DEF SyncGet
      <4>2. Holds(t, "syncGet") /\ Take(t) /\ NotifyOneAndReturn(t, "notFull")
        BY <2>5, <3>2, Zenon DEF SyncGet
      <4>3. QED
        BY <4>1, <4>2, NextIndexValue
           DEF Holds, Take, NotifyOneAndReturn, Asleep, PutOps, GetOps
    <3>3. QED
      BY <3>1, <3>2
  <2>6. ASSUME NEW t \in Threads, AsyncGet(t)
        PROVE  TypeOK'
    <3>1. CASE Empty
      BY <2>6, <3>1 DEF AsyncGet, Holds, PutOps, GetOps
    <3>2. CASE ~Empty
      <4>1. ret' \in [Threads -> BOOLEAN]
        BY <2>6, <3>2 DEF AsyncGet
      <4>2. Holds(t, "asyncGet") /\ Take(t) /\ NotifyOneAndReturn(t, "notFull")
        BY <2>6, <3>2, Zenon DEF AsyncGet
      <4>3. QED
        BY <4>1, <4>2, NextIndexValue
           DEF Holds, Take, NotifyOneAndReturn, Asleep, PutOps, GetOps
    <3>3. QED
      BY <3>1, <3>2
  <2>7. ASSUME NEW t \in Threads, SpuriousWakeup(t)
        PROVE  TypeOK'
    BY <2>7 DEF SpuriousWakeup, PutOps, GetOps
  <2>8. CASE UNCHANGED vars
    BY <2>8 DEF vars
  <2>9. QED
    BY <2>1, <2>2, <2>3, <2>4, <2>5, <2>6, <2>7, <2>8 DEF Next
<1>3. QED
  BY <1>1, <1>2, PTL DEF Spec

-----------------------------------------------------------------------------
\* What the tests of lines 36, 48, 58 and 71 find out about the number of
\* values inside, and how a put and a get change it.
LEMMA CountFacts ==
  ASSUME TypeOK
  PROVE  /\ Count \in 0 .. Size - 1
         /\ Empty <=> Count = 0
         /\ Full <=> Count = Size - 1
<1>1. head \in Nat /\ tail \in Nat /\ head < Size /\ tail < Size /\ Size \in Nat
  BY SizeAssumption DEF TypeOK, Slots
<1>2. NextIndex(head) = IF head = Size - 1 THEN 0 ELSE head + 1
  BY NextIndexValue DEF TypeOK
<1>3. Count \in 0 .. Size - 1 /\ (Empty <=> Count = 0)
  BY <1>1 DEF Count, Empty
<1>4. Full <=> Count = Size - 1
  BY <1>1, <1>2 DEF Count, Full
<1>5. QED
  BY <1>3, <1>4

\* A put that finds room adds one value.
LEMMA PutCount ==
  ASSUME TypeOK, ~Full, head' = NextIndex(head), tail' = tail
  PROVE  Count' = Count + 1
<1>1. head \in Nat /\ tail \in Nat /\ head < Size /\ tail < Size /\ Size \in Nat
  BY SizeAssumption DEF TypeOK, Slots
<1>2. head' = IF head = Size - 1 THEN 0 ELSE head + 1
  BY NextIndexValue DEF TypeOK
<1>3. head' # tail
  BY DEF Full
<1>4. QED
  BY <1>1, <1>2, <1>3 DEF Count

\* A get that finds a value takes one.
LEMMA GetCount ==
  ASSUME TypeOK, ~Empty, head' = head, tail' = NextIndex(tail)
  PROVE  Count' = Count - 1
<1>1. head \in Nat /\ tail \in Nat /\ head < Size /\ tail < Size /\ Size \in Nat
  BY SizeAssumption DEF TypeOK, Slots
<1>2. tail' = IF tail = Size - 1 THEN 0 ELSE tail + 1
  BY NextIndexValue DEF TypeOK
<1>3. QED
  BY <1>1, <1>2 DEF Count, Empty

\* The sets of woken threads are finite, so that they can be counted.
LEMMA WokenFinite ==
  ASSUME NEW o
  PROVE  IsFiniteSet(Woken(o)) /\ Cardinality(Woken(o)) \in Nat
<1>1. Woken(o) \in SUBSET Threads
  BY DEF Woken
<1>2. IsFiniteSet(Woken(o))
  BY <1>1, ThreadsAssumption, FS_Subset, Zenon
<1>3. QED
  BY <1>2, FS_CardinalityType, Zenon

\* A put that returns wakes one sleeping getter if there is any, and takes at
\* most its own thread from the woken putters.
LEMMA PutWakes ==
  ASSUME TypeOK, NEW t \in Threads, NEW o \in PutOps, Holds(t, o),
         NotifyOneAndReturn(t, "notEmpty"), op' = op
  PROVE  /\ Cardinality(Woken("syncPut"))' >= Cardinality(Woken("syncPut")) - 1
         /\ Asleep("notFull")' = Asleep("notFull")
         /\ Asleep("notEmpty")' # {} =>
              /\ Asleep("notEmpty") # {}
              /\ Cardinality(Woken("syncGet"))' = Cardinality(Woken("syncGet")) + 1
<1> USE DEF TypeOK, Holds, PutOps, GetOps
<1>1. Woken("syncPut")' = Woken("syncPut") \ {t}
  BY DEF NotifyOneAndReturn, Asleep, Woken
<1>2. Cardinality(Woken("syncPut"))' >= Cardinality(Woken("syncPut")) - 1
  <2>1. Cardinality(Woken("syncPut") \ {t}) =
          IF t \in Woken("syncPut") THEN Cardinality(Woken("syncPut")) - 1
                                 ELSE Cardinality(Woken("syncPut"))
    <3>1. IsFiniteSet(Woken("syncPut"))
      BY WokenFinite
    <3>2. QED
      BY <3>1, FS_RemoveElement, Zenon
  <2>2. Cardinality(Woken("syncPut")) \in Nat
    BY WokenFinite
  <2>3. Cardinality(Woken("syncPut"))' = Cardinality(Woken("syncPut") \ {t})
    BY <1>1, Zenon
  <2>4. QED
    BY <2>1, <2>2, <2>3
<1>3. Asleep("notFull")' = Asleep("notFull")
  BY DEF NotifyOneAndReturn, Asleep
<1>4. ASSUME Asleep("notEmpty")' # {}
      PROVE  /\ Asleep("notEmpty") # {}
             /\ Cardinality(Woken("syncGet"))' = Cardinality(Woken("syncGet")) + 1
  <2>1. Asleep("notEmpty") # {}
    BY <1>4 DEF NotifyOneAndReturn, Asleep
  <2>2. PICK w \in Asleep("notEmpty") : pc' = [pc EXCEPT ![t] = "out", ![w] = "relock"]
    BY <2>1 DEF NotifyOneAndReturn
  <2>3. Woken("syncGet")' = Woken("syncGet") \cup {w} /\ w \notin Woken("syncGet")
    BY <2>2 DEF Asleep, Woken
  <2>4. QED
    BY <2>1, <2>3, WokenFinite, FS_AddElement
<1>5. QED
  BY <1>2, <1>3, <1>4

\* A get that returns does the same for the other side.
LEMMA GetWakes ==
  ASSUME TypeOK, NEW t \in Threads, NEW o \in GetOps, Holds(t, o),
         NotifyOneAndReturn(t, "notFull"), op' = op
  PROVE  /\ Cardinality(Woken("syncGet"))' >= Cardinality(Woken("syncGet")) - 1
         /\ Asleep("notEmpty")' = Asleep("notEmpty")
         /\ Asleep("notFull")' # {} =>
              /\ Asleep("notFull") # {}
              /\ Cardinality(Woken("syncPut"))' = Cardinality(Woken("syncPut")) + 1
<1> USE DEF TypeOK, Holds, PutOps, GetOps
<1>1. Woken("syncGet")' = Woken("syncGet") \ {t}
  BY DEF NotifyOneAndReturn, Asleep, Woken
<1>2. Cardinality(Woken("syncGet"))' >= Cardinality(Woken("syncGet")) - 1
  <2>1. Cardinality(Woken("syncGet") \ {t}) =
          IF t \in Woken("syncGet") THEN Cardinality(Woken("syncGet")) - 1
                                 ELSE Cardinality(Woken("syncGet"))
    <3>1. IsFiniteSet(Woken("syncGet"))
      BY WokenFinite
    <3>2. QED
      BY <3>1, FS_RemoveElement, Zenon
  <2>2. Cardinality(Woken("syncGet")) \in Nat
    BY WokenFinite
  <2>3. Cardinality(Woken("syncGet"))' = Cardinality(Woken("syncGet") \ {t})
    BY <1>1, Zenon
  <2>4. QED
    BY <2>1, <2>2, <2>3
<1>3. Asleep("notEmpty")' = Asleep("notEmpty")
  BY DEF NotifyOneAndReturn, Asleep
<1>4. ASSUME Asleep("notFull")' # {}
      PROVE  /\ Asleep("notFull") # {}
             /\ Cardinality(Woken("syncPut"))' = Cardinality(Woken("syncPut")) + 1
  <2>1. Asleep("notFull") # {}
    BY <1>4 DEF NotifyOneAndReturn, Asleep
  <2>2. PICK w \in Asleep("notFull") : pc' = [pc EXCEPT ![t] = "out", ![w] = "relock"]
    BY <2>1 DEF NotifyOneAndReturn
  <2>3. Woken("syncPut")' = Woken("syncPut") \cup {w} /\ w \notin Woken("syncPut")
    BY <2>2 DEF Asleep, Woken
  <2>4. QED
    BY <2>1, <2>3, WokenFinite, FS_AddElement
<1>5. QED
  BY <1>2, <1>3, <1>4

\* No thread sleeps through work that nobody has been woken for: the invariant
\* is inductive once the types are known.
THEOREM NoWakeupIsLost == Spec => []NoLostWakeup
<1>1. Init => NoLostWakeup
  BY DEF Init, NoLostWakeup, Asleep
<1>2. TypeOK /\ NoLostWakeup /\ [Next]_vars => NoLostWakeup'
  <2> SUFFICES ASSUME TypeOK, NoLostWakeup, [Next]_vars
               PROVE  NoLostWakeup'
    OBVIOUS
  <2> DEFINE G == Cardinality(Woken("syncGet"))
             P == Cardinality(Woken("syncPut"))
  <2>0. G \in Nat /\ P \in Nat /\ Count \in 0 .. Size - 1 /\ Size \in Nat
    BY WokenFinite, CountFacts, SizeAssumption
  <2>f. IsFiniteSet(Woken("syncGet")') /\ IsFiniteSet(Woken("syncPut")')
    <3>1. Woken("syncGet")' \in SUBSET Threads /\ Woken("syncPut")' \in SUBSET Threads
      BY DEF Woken
    <3>2. QED
      BY <3>1, ThreadsAssumption, FS_Subset, Zenon
  <2>a. G' \in Nat /\ P' \in Nat
    BY <2>f, FS_CardinalityType, Zenon
  <2>1. ASSUME NEW t \in Threads, NEW o \in PutOps \cup GetOps, NEW v, Call(t, o, v)
        PROVE  NoLostWakeup'
    <3>1. /\ Woken("syncGet")' = Woken("syncGet")
          /\ Woken("syncPut")' = Woken("syncPut")
          /\ Asleep("notEmpty")' = Asleep("notEmpty")
          /\ Asleep("notFull")' = Asleep("notFull")
      BY <2>1 DEF Call, Woken, Asleep, TypeOK
    <3>2. Count' = Count
      BY <2>1 DEF Call, Count
    <3>3. G' = G /\ P' = P
      BY <3>1, Zenon
    <3>4. QED
      BY <3>1, <3>2, <3>3 DEF NoLostWakeup
  <2>2. ASSUME NEW t \in Threads, NEW o \in PutOps, Holds(t, o), ~Full, Store(t),
               NotifyOneAndReturn(t, "notEmpty")
        PROVE  NoLostWakeup'
    <3>1. Count' = Count + 1
      BY <2>2, PutCount DEF Store
    <3>2. /\ P' >= P - 1
          /\ Asleep("notFull")' = Asleep("notFull")
          /\ Asleep("notEmpty")' # {} => Asleep("notEmpty") # {} /\ G' = G + 1
      BY <2>2, PutWakes, Zenon DEF Store
    <3>3. QED
      BY <2>0, <2>a, <3>1, <3>2 DEF NoLostWakeup
  <2>3. ASSUME NEW t \in Threads, NEW o \in GetOps, Holds(t, o), ~Empty, Take(t),
               NotifyOneAndReturn(t, "notFull")
        PROVE  NoLostWakeup'
    <3>1. Count' = Count - 1
      BY <2>3, GetCount DEF Take
    <3>2. /\ G' >= G - 1
          /\ Asleep("notEmpty")' = Asleep("notEmpty")
          /\ Asleep("notFull")' # {} => Asleep("notFull") # {} /\ P' = P + 1
      BY <2>3, GetWakes, Zenon DEF Take
    <3>3. QED
      BY <2>0, <2>a, <3>1, <3>2 DEF NoLostWakeup
  <2>4. ASSUME NEW t \in Threads, Holds(t, "syncPut"), Full, Wait(t, "notFull")
        PROVE  NoLostWakeup'
    <3>1. Count' = Count /\ Count = Size - 1
      BY <2>4, CountFacts DEF Wait, Count
    <3>2. /\ Woken("syncGet")' = Woken("syncGet")
          /\ Asleep("notEmpty")' = Asleep("notEmpty")
      BY <2>4 DEF Wait, Holds, Woken, Asleep, TypeOK
    <3>3. G' = G
      BY <3>2, Zenon
    <3>4. QED
      BY <2>0, <2>a, <3>1, <3>2, <3>3 DEF NoLostWakeup
  <2>5. ASSUME NEW t \in Threads, Holds(t, "syncGet"), Empty, Wait(t, "notEmpty")
        PROVE  NoLostWakeup'
    <3>1. Count' = Count /\ Count = 0
      BY <2>5, CountFacts DEF Wait, Count
    <3>2. /\ Woken("syncPut")' = Woken("syncPut")
          /\ Asleep("notFull")' = Asleep("notFull")
      BY <2>5 DEF Wait, Holds, Woken, Asleep, TypeOK
    <3>3. P' = P
      BY <3>2, Zenon
    <3>4. QED
      BY <2>0, <2>a, <3>1, <3>2, <3>3 DEF NoLostWakeup
  \* An asynchronous operation that gives up returns without touching anything
  \* the invariant speaks of.
  <2>6. ASSUME NEW t \in Threads, NEW o \in {"asyncPut", "asyncGet"}, Holds(t, o),
               pc' = [pc EXCEPT ![t] = "out"], UNCHANGED <<head, tail, op>>
        PROVE  NoLostWakeup'
    <3>1. /\ Woken("syncGet")' = Woken("syncGet")
          /\ Woken("syncPut")' = Woken("syncPut")
          /\ Asleep("notEmpty")' = Asleep("notEmpty")
          /\ Asleep("notFull")' = Asleep("notFull")
      BY <2>6 DEF Holds, Woken, Asleep, TypeOK
    <3>2. Count' = Count
      BY <2>6 DEF Count
    <3>3. G' = G /\ P' = P
      BY <3>1, Zenon
    <3>4. QED
      BY <3>1, <3>2, <3>3 DEF NoLostWakeup
  <2>7. ASSUME NEW t \in Threads, SpuriousWakeup(t)
        PROVE  NoLostWakeup'
    <3>1. Count' = Count
      BY <2>7 DEF SpuriousWakeup, Count
    <3>2. /\ Asleep("notEmpty")' \subseteq Asleep("notEmpty")
          /\ Asleep("notFull")' \subseteq Asleep("notFull")
      BY <2>7 DEF SpuriousWakeup, Asleep, TypeOK
    <3>3. /\ Woken("syncGet") \in SUBSET (Woken("syncGet")')
          /\ Woken("syncPut") \in SUBSET (Woken("syncPut")')
      BY <2>7 DEF SpuriousWakeup, Woken, TypeOK
    <3>4. G <= G' /\ P <= P'
      BY <2>f, <3>3, FS_Subset, Zenon
    <3>5. QED
      BY <2>0, <2>a, <3>1, <3>2, <3>4 DEF NoLostWakeup
  <2>8. CASE UNCHANGED vars
    BY <2>8 DEF vars, NoLostWakeup, Woken, Asleep, Count
  <2>9. QED
    BY <2>1, <2>2, <2>3, <2>4, <2>5, <2>6, <2>7, <2>8
       DEF Next, SyncPut, AsyncPut, SyncGet, AsyncGet, PutOps, GetOps
<1>3. QED
  BY <1>1, <1>2, TypeCorrect, PTL DEF Spec

-----------------------------------------------------------------------------
\* A value is pending exactly while its put is under way.
ArgPending ==
  \A t \in Threads : arg[t] # NoValue <=> (pc[t] # "out" /\ op[t] \in PutOps)

\* Contents is a sequence as long as Count says.
LEMMA ContentsType ==
  ASSUME TypeOK
  PROVE  /\ Contents \in Seq(Values \cup {NoValue})
         /\ Len(Contents) = Count
         /\ \A i \in 1 .. Count : Contents[i] = buff[SlotOf(i)]
<1>1. Count \in Nat /\ Size \in Nat
  BY CountFacts, SizeAssumption
<1>2. \A i \in 1 .. Count : SlotOf(i) \in Slots
  BY <1>1, SizeAssumption DEF TypeOK, Slots, SlotOf, Count
<1>3. \A i \in 1 .. Count : buff[SlotOf(i)] \in Values \cup {NoValue}
  BY <1>2 DEF TypeOK
<1>4. QED
  BY <1>1, <1>3 DEF Contents

\* A put appends its value to Contents.
LEMMA StoreAppends ==
  ASSUME TypeOK, NEW t \in Threads, ~Full, Store(t)
  PROVE  Contents' = Append(Contents, arg[t])
<1>1. head \in Nat /\ tail \in Nat /\ head < Size /\ tail < Size /\ Size \in Nat
  BY SizeAssumption DEF TypeOK, Slots
<1>2. Count' = Count + 1 /\ Count \in Nat /\ tail' = tail /\ Count < Size - 1
  BY <1>1, PutCount, CountFacts DEF Store
<1>3. \A i \in 1 .. Count + 1 : SlotOf(i)' = SlotOf(i)
  BY <1>2 DEF SlotOf
<1>4. SlotOf(Count + 1) = head /\ \A i \in 1 .. Count : SlotOf(i) # head
  BY <1>1, <1>2 DEF SlotOf, Count
<1>5. \A i \in 1 .. Count : SlotOf(i) \in Slots
  BY <1>1, <1>2 DEF SlotOf, Count, Slots
<1>6. \A i \in 1 .. Count + 1 : buff'[SlotOf(i)] =
         IF i = Count + 1 THEN arg[t] ELSE buff[SlotOf(i)]
  BY <1>1, <1>2, <1>4, <1>5 DEF TypeOK, Store, Slots
<1>7. Contents' = [i \in 1 .. Count + 1 |->
                     IF i = Count + 1 THEN arg[t] ELSE buff[SlotOf(i)]]
  BY <1>2, <1>3, <1>6 DEF Contents
<1>8. /\ Contents \in Seq(Values \cup {NoValue})
      /\ Len(Contents) = Count
      /\ \A i \in 1 .. Count : Contents[i] = buff[SlotOf(i)]
  BY ContentsType
<1>9. QED
  BY <1>2, <1>7, <1>8

\* A get removes the oldest value.
LEMMA TakeRemoves ==
  ASSUME TypeOK, NEW t \in Threads, ~Empty, Take(t)
  PROVE  /\ Contents # << >>
         /\ buff[tail] = Head(Contents)
         /\ Contents' = Tail(Contents)
<1>1. head \in Nat /\ tail \in Nat /\ head < Size /\ tail < Size /\ Size \in Nat
  BY SizeAssumption DEF TypeOK, Slots
<1>2. Count' = Count - 1 /\ Count \in 1 .. Size - 1 /\ buff' = buff
  BY <1>1, GetCount, CountFacts DEF Take
<1>3. tail' = IF tail = Size - 1 THEN 0 ELSE tail + 1
  BY NextIndexValue DEF TypeOK, Take
<1>4. \A i \in 1 .. Count - 1 : SlotOf(i)' = SlotOf(i + 1)
  BY <1>1, <1>2, <1>3 DEF SlotOf
<1>5. SlotOf(1) = tail
  BY <1>1 DEF SlotOf
<1>6. Contents' = [i \in 1 .. Count - 1 |-> buff[SlotOf(i + 1)]]
  BY <1>2, <1>4, Zenon DEF Contents
<1>7. /\ Contents \in Seq(Values \cup {NoValue})
      /\ Len(Contents) = Count
      /\ \A i \in 1 .. Count : Contents[i] = buff[SlotOf(i)]
  BY ContentsType
<1>8. Contents # << >> /\ buff[tail] = Head(Contents)
  BY <1>2, <1>5, <1>7
<1>9. /\ Tail(Contents) \in Seq(Values \cup {NoValue})
      /\ Len(Tail(Contents)) = Count - 1
      /\ \A i \in 1 .. Count - 1 : Tail(Contents)[i] = Contents[i + 1]
  BY <1>7, <1>8, HeadTailProperties
<1>10. Tail(Contents) = [i \in 1 .. Count - 1 |-> Tail(Contents)[i]]
  BY <1>9, LenProperties
<1>11. \A i \in 1 .. Count - 1 : Tail(Contents)[i] = buff[SlotOf(i + 1)]
  BY <1>2, <1>7, <1>9
<1>12. QED
  BY <1>6, <1>8, <1>10, <1>11

\* A put in progress always has its argument pending.
LEMMA ArgPendingInductive == Spec => []ArgPending
<1>1. Init => ArgPending
  BY DEF Init, ArgPending
<1>2. TypeOK /\ ArgPending /\ [Next]_vars => ArgPending'
  <2> SUFFICES ASSUME TypeOK, ArgPending, [Next]_vars
               PROVE  ArgPending'
    OBVIOUS
  <2> USE DEF TypeOK, ArgPending
  <2>1. ASSUME NEW t \in Threads, NEW o \in PutOps, NEW v \in Values, Call(t, o, v)
        PROVE  ArgPending'
    BY <2>1, NoValueAssumption DEF Call
  <2>2. ASSUME NEW t \in Threads, NEW o \in GetOps, Call(t, o, NoValue)
        PROVE  ArgPending'
    BY <2>2 DEF Call, PutOps, GetOps
  <2>3. ASSUME NEW t \in Threads, NEW o \in PutOps, Holds(t, o), Store(t),
               NotifyOneAndReturn(t, "notEmpty")
        PROVE  ArgPending'
    BY <2>3 DEF Holds, Store, NotifyOneAndReturn, Asleep
  <2>4. ASSUME NEW t \in Threads, NEW o \in GetOps, Holds(t, o), Take(t),
               NotifyOneAndReturn(t, "notFull")
        PROVE  ArgPending'
    BY <2>4 DEF Holds, Take, NotifyOneAndReturn, Asleep, PutOps, GetOps
  <2>5. ASSUME NEW t \in Threads, NEW o \in {"syncPut", "syncGet"}, Holds(t, o),
               NEW cond \in {"notFull", "notEmpty"}, Wait(t, cond)
        PROVE  ArgPending'
    BY <2>5 DEF Holds, Wait
  <2>6. ASSUME NEW t \in Threads, Holds(t, "asyncPut"), UNCHANGED op,
               pc' = [pc EXCEPT ![t] = "out"], arg' = [arg EXCEPT ![t] = NoValue]
        PROVE  ArgPending'
    BY <2>6 DEF Holds
  <2>7. ASSUME NEW t \in Threads, Holds(t, "asyncGet"), UNCHANGED <<op, arg>>,
               pc' = [pc EXCEPT ![t] = "out"]
        PROVE  ArgPending'
    BY <2>7 DEF Holds, PutOps
  <2>8. ASSUME NEW t \in Threads, SpuriousWakeup(t)
        PROVE  ArgPending'
    BY <2>8 DEF SpuriousWakeup
  <2>9. CASE UNCHANGED vars
    BY <2>9 DEF vars
  <2>10. QED
    BY <2>1, <2>2, <2>3, <2>4, <2>5, <2>6, <2>7, <2>8, <2>9
       DEF Next, SyncPut, AsyncPut, SyncGet, AsyncGet, PutOps, GetOps
<1>3. QED
  BY <1>1, <1>2, TypeCorrect, PTL DEF Spec

\* The ring buffer implements the bounded FIFO queue: every step of a thread
\* is a Request, Put, Refuse or Get of the queue, or leaves it alone.
THEOREM RingBufferImplementsFifo == Spec => ImplementsFifo
<1>1. Init => Fifo!Init
  <2> SUFFICES ASSUME Init PROVE Fifo!Init
    OBVIOUS
  <2>1. Count = 0
    BY DEF Init, Count
  <2>2. Contents = << >>
    BY <2>1 DEF Contents
  <2>3. QED
    BY <2>2 DEF Init, Fifo!Init
<1>2. TypeOK /\ ArgPending /\ [Next]_vars => [Fifo!Next]_(Fifo!fifoVars)
  <2> SUFFICES ASSUME TypeOK, ArgPending, [Next]_vars
               PROVE  Fifo!Next \/ UNCHANGED <<Contents, arg, obj>>
    BY DEF Fifo!fifoVars
  <2>1. ASSUME NEW t \in Threads, NEW o, NEW v \in Values \cup {NoValue}, Call(t, o, v)
        PROVE  Fifo!Next
    <3>1. Contents' = Contents
      BY <2>1 DEF Call, Contents, Count, SlotOf
    <3>2. Fifo!Request(t, v)
      BY <2>1, <3>1 DEF Call, ArgPending, Fifo!Request
    <3>3. QED
      BY <3>2 DEF Fifo!Next
  <2>2. ASSUME NEW t \in Threads, NEW o \in PutOps, Holds(t, o), ~Full, Store(t)
        PROVE  Fifo!Next
    <3>1. Contents' = Append(Contents, arg[t])
      BY <2>2, StoreAppends
    <3>2. Len(Contents) < Size - 1
      <4>1. Len(Contents) = Count /\ Count \in 0 .. Size - 1 /\ Count # Size - 1
        BY <2>2, ContentsType, CountFacts
      <4>2. QED
        BY <4>1, SizeAssumption
    <3>3. arg[t] # NoValue
      BY <2>2 DEF Holds, ArgPending
    <3>4. Fifo!Put(t)
      BY <2>2, <3>1, <3>2, <3>3 DEF Store, Fifo!Put
    <3>5. QED
      BY <3>4 DEF Fifo!Next
  <2>3. ASSUME NEW t \in Threads, ~Empty, Take(t)
        PROVE  Fifo!Next
    <3>1. Fifo!Get(t)
      BY <2>3, TakeRemoves DEF Take, Fifo!Get
    <3>2. QED
      BY <3>1 DEF Fifo!Next
  <2>4. ASSUME NEW t \in Threads, Holds(t, "asyncPut"), Full,
               arg' = [arg EXCEPT ![t] = NoValue],
               UNCHANGED <<buff, head, tail, obj>>
        PROVE  Fifo!Next
    <3>1. Contents' = Contents
      BY <2>4 DEF Contents, Count, SlotOf
    <3>2. Len(Contents) = Size - 1
      BY <2>4, ContentsType, CountFacts
    <3>3. arg[t] # NoValue
      BY <2>4 DEF Holds, ArgPending, PutOps
    <3>4. Fifo!Refuse(t)
      BY <2>4, <3>1, <3>2, <3>3 DEF Fifo!Refuse
    <3>5. QED
      BY <3>4 DEF Fifo!Next
  <2>5. ASSUME UNCHANGED <<buff, head, tail, arg, obj>>
        PROVE  UNCHANGED <<Contents, arg, obj>>
    BY <2>5 DEF Contents, Count, SlotOf
  <2>6. QED
    BY <2>1, <2>2, <2>3, <2>4, <2>5
       DEF Next, SyncPut, AsyncPut, SyncGet, AsyncGet, SpuriousWakeup, Wait,
           PutOps, GetOps, vars
<1>3. QED
  BY <1>1, <1>2, TypeCorrect, ArgPendingInductive, PTL
     DEF Spec, ImplementsFifo, Fifo!Spec
=============================================================================
