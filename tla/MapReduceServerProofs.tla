------------------------ MODULE MapReduceServerProofs ------------------------
(***************************************************************************)
(* Proofs about MapReduceServer, for any number of clients, descriptors,   *)
(* pool threads and requests, and any capacity of the two queues.          *)
(***************************************************************************)
EXTENDS MapReduceServer, FiniteSetTheorems, FunctionTheorems, SequenceTheorems,
        WellFoundedInduction, TLAPS

IsSeq(s) == \E S : s \in Seq(S)

\* What the proof needs to know of the variables' values; the numbers, files
\* and counts are left open.
Shape ==
  /\ peer \in [Conns -> {"away", "connected", "closed"}]
  /\ fdOf \in [Conns -> Fds \cup {None}] /\ map \in [Fds -> Conns \cup {None}]
  /\ object \in [Conns -> {"none", "accepted", "live", "freed"}]
  /\ posting \in Conns \cup {None} /\ accepting \in Conns \cup {None}
  /\ IsSeq(taskQueue) /\ IsSeq(mailbox)
  /\ worker = [p \in Pool |->
                 [conn |-> worker[p].conn, file |-> worker[p].file, step |-> worker[p].step]]

\* A client is away until it is accepted, and has a descriptor from then on.
Stages ==
  \A c \in Conns :
    /\ peer[c] = "away" <=> object[c] = "none"
    /\ object[c] # "none" => fdOf[c] \in Fds

Open(c) == object[c] \in {"accepted", "live"}

DistinctFds == \A c, d \in Conns : Open(c) /\ Open(d) /\ fdOf[c] = fdOf[d] => c = d

MapOwners == \A fd \in Fds : map[fd] # None => object[map[fd]] = "live" /\ fdOf[map[fd]] = fd

AcceptedOnly == accepting # None => object[accepting] = "accepted"

\* A task keeps its connection alive.
TasksHold ==
  /\ \A i \in 1 .. Len(taskQueue) : taskQueue[i].conn \in Conns /\ object[taskQueue[i].conn] = "live"
  /\ \A p \in Pool :
       /\ worker[p].step = "idle" <=> worker[p].conn = None
       /\ worker[p].conn # None => worker[p].conn \in Conns /\ object[worker[p].conn] = "live"

Senders ==
  \A i \in 1 .. Len(mailbox) :
    /\ mailbox[i].from \in Conns /\ object[mailbox[i].from] # "none"
    /\ mailbox[i].fd = fdOf[mailbox[i].from] /\ mailbox[i].fd \in Fds

\* A NEW_CONNECT message waits for each client once.
NewConnects ==
  \A i \in 1 .. Len(mailbox) : mailbox[i].what = "NEW_CONNECT" =>
    /\ object[mailbox[i].from] = "accepted" /\ accepting # mailbox[i].from
    /\ \A j \in 1 .. Len(mailbox) :
         mailbox[j].what = "NEW_CONNECT" /\ mailbox[j].from = mailbox[i].from => j = i

\* When a result is put its connection is open: nobody else has its
\* descriptor, in the map or in a NEW_CONNECT message before it.
MapDones ==
  \A i \in 1 .. Len(mailbox) : mailbox[i].what = "CONNECTION" =>
    /\ object[mailbox[i].from] \in {"live", "freed"}
    /\ \A d \in Conns : object[d] = "live" /\ fdOf[d] = mailbox[i].fd => d = mailbox[i].from
    /\ \A j \in 1 .. i - 1 : mailbox[j].what = "NEW_CONNECT" => mailbox[j].fd # mailbox[i].fd

CrossInv ==
  /\ Shape /\ Stages /\ DistinctFds /\ MapOwners /\ AcceptedOnly
  /\ TasksHold /\ Senders /\ NewConnects /\ MapDones

-----------------------------------------------------------------------------
(* Queues                                                                  *)

\* A queue has a length.
LEMMA LenSeq ==
  ASSUME NEW s, IsSeq(s)
  PROVE  Len(s) \in Nat
<1>1. PICK S : s \in Seq(S)
  BY DEF IsSeq
<1>2. QED
  BY <1>1

\* Put and get of a queue, whatever its elements are.
LEMMA PutSeq ==
  ASSUME NEW s, IsSeq(s), NEW m
  PROVE  /\ IsSeq(Append(s, m)) /\ Len(s) \in Nat /\ Len(Append(s, m)) = Len(s) + 1
         /\ \A i \in 1 .. Len(s) : Append(s, m)[i] = s[i]
         /\ Append(s, m)[Len(s) + 1] = m
<1>1. PICK S : s \in Seq(S)
  BY DEF IsSeq
<1>2. s \in Seq(S \cup {m}) /\ m \in S \cup {m}
  BY <1>1
<1>3. Append(s, m) \in Seq(S \cup {m})
  BY <1>2
<1>4. IsSeq(Append(s, m))
  BY <1>3 DEF IsSeq
<1>5. QED
  BY <1>2, <1>4

\* See PutSeq.
LEMMA GetSeq ==
  ASSUME NEW s, IsSeq(s), s # << >>
  PROVE  /\ IsSeq(Tail(s)) /\ Len(s) \in Nat /\ Len(s) >= 1 /\ Len(Tail(s)) = Len(s) - 1
         /\ \A i \in 1 .. Len(s) - 1 : Tail(s)[i] = s[i + 1]
         /\ Head(s) = s[1]
<1>1. PICK S : s \in Seq(S)
  BY DEF IsSeq
<1>2. Tail(s) \in Seq(S)
  BY <1>1
<1>3. IsSeq(Tail(s))
  BY <1>2 DEF IsSeq
<1>4. QED
  BY <1>1, <1>3

\* The empty queue.
LEMMA EmptyQueue == IsSeq(<< >>) /\ Len(<< >>) = 0
<1>1. << >> \in Seq({}) /\ Len(<< >>) = 0
  OBVIOUS
<1>2. QED
  BY <1>1 DEF IsSeq

-----------------------------------------------------------------------------
(* Whose result, one step per operation                                    *)

\* Nobody has connected.
LEMMA CrossInit == Init => CrossInv
<1> SUFFICES ASSUME Init PROVE CrossInv
  OBVIOUS
<1>1. Shape
  <2>1. worker = [p \in Pool |->
                    [conn |-> worker[p].conn, file |-> worker[p].file, step |-> worker[p].step]]
    BY DEF Init, Idle
  <2>2. IsSeq(taskQueue) /\ IsSeq(mailbox)
    BY EmptyQueue DEF Init
  <2>3. QED
    BY <2>1, <2>2 DEF Init, Shape
<1>2. Len(mailbox) = 0 /\ Len(taskQueue) = 0
  BY EmptyQueue DEF Init
<1>3. Senders /\ NewConnects /\ MapDones
  BY <1>2 DEF Senders, NewConnects, MapDones
<1>4. TasksHold
  BY <1>2 DEF Init, Idle, TasksHold
<1>5. Stages /\ DistinctFds /\ MapOwners /\ AcceptedOnly
  BY DEF Init, Stages, DistinctFds, MapOwners, AcceptedOnly, Open
<1>6. QED
  BY <1>1, <1>3, <1>4, <1>5 DEF CrossInv

\* A step that leaves the queues and the ownership alone.
LEMMA CrossStays ==
  ASSUME CrossInv, UNCHANGED <<fdOf, object, map, taskQueue, worker, mailbox, accepting>>,
         peer' \in [Conns -> {"away", "connected", "closed"}],
         \A c \in Conns : peer'[c] = "away" <=> peer[c] = "away",
         posting' \in Conns \cup {None}
  PROVE  CrossInv'
<1>1. Shape' /\ Stages'
  BY DEF CrossInv, Shape, Stages
<1>2. DistinctFds' /\ MapOwners' /\ AcceptedOnly'
  BY DEF CrossInv, DistinctFds, MapOwners, AcceptedOnly, Open
<1>3. TasksHold' /\ Senders'
  BY DEF CrossInv, TasksHold, Senders
<1>4. NewConnects' /\ MapDones'
  BY DEF CrossInv, NewConnects, MapDones
<1>5. QED
  BY <1>1, <1>2, <1>3, <1>4 DEF CrossInv

\* A client that is accepted gets a descriptor nobody has.
LEMMA AcceptKeeps ==
  ASSUME CrossInv, NEW c \in Conns, NEW fd \in Fds, Accept(c, fd)
  PROVE  CrossInv'
<1>1. /\ accepting = None /\ peer[c] = "away" /\ object[c] = "none"
      /\ \A d \in Conns : Open(d) => fdOf[d] # fd
  BY DEF Accept, CrossInv, Stages, FdOpen, Open
<1>2. /\ peer' = [peer EXCEPT ![c] = "connected"]
      /\ fdOf' = [fdOf EXCEPT ![c] = fd] /\ object' = [object EXCEPT ![c] = "accepted"]
      /\ accepting' = c /\ UNCHANGED <<map, posting, taskQueue, worker, mailbox>>
  BY DEF Accept, loopVars, poolVars
<1>3. /\ fdOf'[c] = fd /\ object'[c] = "accepted" /\ peer'[c] = "connected"
      /\ \A d \in Conns : d # c => fdOf'[d] = fdOf[d] /\ object'[d] = object[d] /\ peer'[d] = peer[d]
  BY <1>2 DEF CrossInv, Shape
<1>4. Shape'
  BY <1>2 DEF CrossInv, Shape
<1>5. Stages'
  BY <1>3 DEF CrossInv, Stages
<1>6. DistinctFds'
  BY <1>1, <1>3 DEF CrossInv, DistinctFds, Open
<1>7. AcceptedOnly'
  BY <1>2, <1>3 DEF AcceptedOnly
<1>8. MapOwners'
  BY <1>1, <1>2, <1>3 DEF CrossInv, Shape, MapOwners
<1>9. TasksHold'
  BY <1>1, <1>2, <1>3 DEF CrossInv, TasksHold
<1>10. \A i \in 1 .. Len(mailbox) : mailbox[i].from \in Conns /\ mailbox[i].from # c
  BY <1>1 DEF CrossInv, Senders
<1>11. Senders'
  BY <1>2, <1>3, <1>10 DEF CrossInv, Senders
<1>12. NewConnects'
  BY <1>2, <1>3, <1>10 DEF CrossInv, NewConnects
<1>13. MapDones'
  BY <1>2, <1>3, <1>10 DEF CrossInv, MapDones
<1>14. QED
  BY <1>4, <1>5, <1>6, <1>7, <1>8, <1>9, <1>11, <1>12, <1>13 DEF CrossInv

\* Main or a pool thread puts a message.
LEMMA PutKeepsMessages ==
  ASSUME CrossInv, NEW m, mailbox' = Append(mailbox, m), UNCHANGED <<fdOf, object>>,
         m.from \in Conns, m.fd = fdOf[m.from],
         \/ m.what = "NEW_CONNECT" /\ m.from = accepting /\ accepting # None /\ accepting' = None
         \/ m.what = "CONNECTION" /\ object[m.from] = "live" /\ accepting' = accepting
  PROVE  IsSeq(mailbox') /\ Senders' /\ NewConnects' /\ MapDones'
<1>1. PICK mb, n : mb = mailbox' /\ n = Len(mailbox) /\ n \in Nat
  <2>1. Len(mailbox) \in Nat
    BY LenSeq DEF CrossInv, Shape
  <2>2. QED
    BY <2>1
<1>2. /\ IsSeq(mb) /\ Len(mb) = n + 1 /\ mb[n + 1] = m
      /\ \A i \in 1 .. n : mb[i] = mailbox[i]
  BY <1>1, PutSeq DEF CrossInv, Shape
<1>3. \A i \in 1 .. Len(mb) : i \in 1 .. n \/ i = n + 1
  BY <1>1, <1>2
<1>4. object[m.from] \in {"accepted", "live"}
  BY DEF CrossInv, AcceptedOnly
<1>5. ASSUME NEW i \in 1 .. Len(mb)
      PROVE  /\ mb[i].from \in Conns /\ object[mb[i].from] # "none"
             /\ mb[i].fd = fdOf[mb[i].from] /\ mb[i].fd \in Fds
  <2>1. CASE i \in 1 .. n
    BY <1>1, <1>2, <2>1 DEF CrossInv, Senders
  <2>2. CASE i = n + 1
    BY <1>2, <1>4, <2>2 DEF CrossInv, Stages
  <2>3. QED
    BY <1>3, <2>1, <2>2
<1>6. Senders'
  BY <1>1, <1>5 DEF Senders
<1>7. ASSUME NEW i \in 1 .. Len(mb), mb[i].what = "NEW_CONNECT"
      PROVE  /\ object[mb[i].from] = "accepted" /\ accepting' # mb[i].from
             /\ \A j \in 1 .. Len(mb) :
                  mb[j].what = "NEW_CONNECT" /\ mb[j].from = mb[i].from => j = i
  <2>1. ASSUME NEW j \in 1 .. n, mailbox[j].what = "NEW_CONNECT"
        PROVE  /\ object[mailbox[j].from] = "accepted" /\ mailbox[j].from # accepting
               /\ \A k \in 1 .. n :
                    mailbox[k].what = "NEW_CONNECT" /\ mailbox[k].from = mailbox[j].from => k = j
    BY <1>1, <2>1 DEF CrossInv, NewConnects
  <2>2. CASE i \in 1 .. n
    <3>1. object[mb[i].from] = "accepted" /\ mb[i].from # accepting /\ mb[i].from \in Conns
      BY <1>2, <1>5, <1>7, <2>1, <2>2
    <3>2. accepting' # mb[i].from
      BY <3>1, NoneAssumption
    <3>3. ASSUME NEW j \in 1 .. Len(mb), mb[j].what = "NEW_CONNECT", mb[j].from = mb[i].from
          PROVE  j = i
      <4>1. j # n + 1
        BY <1>2, <3>1, <3>3
      <4>2. j \in 1 .. n
        BY <1>3, <4>1
      <4>3. QED
        BY <1>2, <1>7, <2>1, <2>2, <3>3, <4>2
    <3>4. QED
      BY <3>1, <3>2, <3>3
  <2>3. CASE i = n + 1
    <3>1. mb[i] = m /\ m.from = accepting /\ accepting # None /\ accepting' = None
      BY <1>2, <1>7, <2>3
    <3>2. object[mb[i].from] = "accepted" /\ accepting' # mb[i].from
      BY <3>1 DEF CrossInv, AcceptedOnly
    <3>3. ASSUME NEW j \in 1 .. Len(mb), mb[j].what = "NEW_CONNECT", mb[j].from = mb[i].from
          PROVE  j = i
      BY <1>2, <1>3, <2>1, <2>3, <3>1, <3>3
    <3>4. QED
      BY <3>2, <3>3
  <2>4. QED
    BY <1>3, <2>2, <2>3
<1>8. NewConnects'
  BY <1>1, <1>7 DEF NewConnects
<1>9. ASSUME NEW i \in 1 .. Len(mb), mb[i].what = "CONNECTION"
      PROVE  /\ object[mb[i].from] \in {"live", "freed"}
             /\ \A d \in Conns : object[d] = "live" /\ fdOf[d] = mb[i].fd => d = mb[i].from
             /\ \A j \in 1 .. i - 1 : mb[j].what = "NEW_CONNECT" => mb[j].fd # mb[i].fd
  <2>1. CASE i \in 1 .. n
    <3>1. \A j \in 1 .. i - 1 : j \in 1 .. n
      BY <1>1, <2>1
    <3>2. QED
      BY <1>1, <1>2, <1>9, <2>1, <3>1 DEF CrossInv, MapDones
  <2>2. CASE i = n + 1
    <3>1. mb[i] = m /\ m.what = "CONNECTION" /\ object[m.from] = "live"
      BY <1>2, <1>9, <2>2
    <3>2. \A d \in Conns : object[d] = "live" /\ fdOf[d] = mb[i].fd => d = mb[i].from
      BY <3>1 DEF CrossInv, DistinctFds, Open
    <3>3. ASSUME NEW j \in 1 .. i - 1, mb[j].what = "NEW_CONNECT" PROVE mb[j].fd # mb[i].fd
      <4>1. j \in 1 .. n /\ mb[j] = mailbox[j]
        BY <1>1, <1>2, <2>2
      <4>2. /\ object[mailbox[j].from] = "accepted" /\ mailbox[j].from \in Conns
            /\ mailbox[j].fd = fdOf[mailbox[j].from]
        BY <1>1, <3>3, <4>1 DEF CrossInv, NewConnects, Senders
      <4>3. QED
        BY <3>1, <4>1, <4>2 DEF CrossInv, DistinctFds, Open
    <3>4. QED
      BY <3>1, <3>2, <3>3
  <2>3. QED
    BY <1>3, <2>1, <2>2
<1>10. MapDones'
  BY <1>1, <1>9 DEF MapDones
<1>11. QED
  BY <1>1, <1>2, <1>6, <1>8, <1>10

\* __onAccept puts the NEW_CONNECT message.
LEMMA NotifyNewConnectKeeps ==
  ASSUME CrossInv, NotifyNewConnect
  PROVE  CrossInv'
<1>1. PICK m : /\ mailbox' = Append(mailbox, m) /\ m.from = accepting /\ m.fd = fdOf[accepting]
               /\ m.what = "NEW_CONNECT"
  BY DEF NotifyNewConnect
<1>2. /\ accepting \in Conns /\ accepting # None /\ accepting' = None
      /\ UNCHANGED <<peer, fdOf, object, map, posting, taskQueue, worker>>
  BY DEF NotifyNewConnect, CrossInv, Shape, clientVars, ownVars, loopVars, poolVars
<1>3. IsSeq(mailbox') /\ Senders' /\ NewConnects' /\ MapDones'
  BY <1>1, <1>2, PutKeepsMessages
<1>4. Shape' /\ Stages' /\ DistinctFds' /\ MapOwners' /\ AcceptedOnly' /\ TasksHold'
  BY <1>2, <1>3 DEF CrossInv, Shape, Stages, DistinctFds, MapOwners, AcceptedOnly, TasksHold, Open
<1>5. QED
  BY <1>3, <1>4 DEF CrossInv

\* mapFunction puts its result while its task still holds the connection.
LEMMA NotifyMapDoneKeeps ==
  ASSUME CrossInv, NEW p \in Pool, NotifyMapDone(p)
  PROVE  CrossInv'
<1>1. PICK c : c = worker[p].conn
  OBVIOUS
<1>2. c \in Conns /\ object[c] = "live" /\ c # None
  BY <1>1, NoneAssumption DEF NotifyMapDone, CrossInv, TasksHold
<1>3. PICK m : mailbox' = Append(mailbox, m) /\ m.from = c /\ m.fd = fdOf[c] /\ m.what = "CONNECTION"
  BY <1>1 DEF NotifyMapDone
<1>4. /\ UNCHANGED <<peer, fdOf, object, map, posting, taskQueue, accepting>>
      /\ worker' = [worker EXCEPT ![p].step = "release"] /\ worker[p].step = "run"
  BY DEF NotifyMapDone, clientVars, ownVars, loopVars
<1>5. IsSeq(mailbox') /\ Senders' /\ NewConnects' /\ MapDones'
  BY <1>2, <1>3, <1>4, PutKeepsMessages
<1>6. PICK wk : wk = worker'
  OBVIOUS
<1>7. /\ wk = [q \in Pool |-> [conn |-> wk[q].conn, file |-> wk[q].file, step |-> wk[q].step]]
      /\ wk[p].step = "release" /\ \A q \in Pool : wk[q].conn = worker[q].conn
      /\ \A q \in Pool : q # p => wk[q].step = worker[q].step
  BY <1>4, <1>6, SMTT(30) DEF CrossInv, Shape
<1>8. Shape'
  BY <1>4, <1>5, <1>6, <1>7 DEF CrossInv, Shape
<1>9. TasksHold'
  <2>1. worker[p].step = "idle" <=> worker[p].conn = None
    BY DEF CrossInv, TasksHold
  <2>2. \A q \in Pool : wk[q].step = "idle" <=> wk[q].conn = None
    BY <1>1, <1>2, <1>4, <1>7 DEF CrossInv, TasksHold
  <2>3. QED
    BY <1>4, <1>6, <1>7, <2>2 DEF CrossInv, TasksHold
<1>10. Stages' /\ DistinctFds' /\ MapOwners' /\ AcceptedOnly'
  BY <1>4 DEF CrossInv, Stages, DistinctFds, MapOwners, AcceptedOnly, Open
<1>11. QED
  BY <1>5, <1>8, <1>9, <1>10 DEF CrossInv

\* onMessage of NEW_CONNECT: the place in the map is free, as the client that
\* had the descriptor before is destroyed, and no result of it follows.
LEMMA OnNewConnectKeeps ==
  ASSUME CrossInv, OnNewConnect
  PROVE  CrossInv'
<1>1. PICK mb, n : mb = mailbox' /\ n = Len(mailbox) /\ n \in Nat
  <2>1. Len(mailbox) \in Nat
    BY LenSeq DEF CrossInv, Shape
  <2>2. QED
    BY <2>1
<1>2. mailbox # << >> /\ mb = Tail(mailbox) /\ Head(mailbox).what = "NEW_CONNECT"
  BY <1>1 DEF OnNewConnect
<1>3. /\ IsSeq(mb) /\ Len(mb) = n - 1 /\ n >= 1 /\ Head(mailbox) = mailbox[1]
      /\ \A i \in 1 .. n - 1 : mb[i] = mailbox[i + 1]
  BY <1>1, <1>2, GetSeq DEF CrossInv, Shape
<1>4. PICK c \in Conns, fd \in Fds : c = mailbox[1].from /\ fd = fdOf[c]
  BY <1>1, <1>3 DEF CrossInv, Senders
<1>5. /\ object[c] = "accepted" /\ accepting # c
      /\ \A j \in 1 .. n : mailbox[j].what = "NEW_CONNECT" /\ mailbox[j].from = c => j = 1
  BY <1>1, <1>2, <1>3, <1>4 DEF CrossInv, NewConnects
<1>6. map[fd] = None
  <2>1. map[fd] # None => map[fd] \in Conns /\ object[map[fd]] = "live" /\ fdOf[map[fd]] = fd
    BY DEF CrossInv, Shape, MapOwners
  <2>2. QED
    BY <1>4, <1>5, <2>1 DEF CrossInv, DistinctFds, Open
<1>7. /\ object' = [object EXCEPT ![c] = "live"] /\ map' = [map EXCEPT ![fd] = c]
      /\ UNCHANGED <<peer, fdOf, posting, taskQueue, worker, accepting>>
  BY <1>3, <1>4, <1>6 DEF OnNewConnect, clientVars, loopVars, poolVars
<1>8. /\ object'[c] = "live" /\ \A d \in Conns : d # c => object'[d] = object[d]
      /\ map'[fd] = c /\ \A f \in Fds : f # fd => map'[f] = map[f]
  BY <1>7 DEF CrossInv, Shape
<1>9. Shape'
  BY <1>1, <1>3, <1>7 DEF CrossInv, Shape
<1>10. Stages' /\ AcceptedOnly'
  BY <1>5, <1>7, <1>8 DEF CrossInv, Stages, AcceptedOnly, Shape
<1>11. DistinctFds'
  BY <1>5, <1>7, <1>8 DEF CrossInv, DistinctFds, Open
<1>12. MapOwners'
  BY <1>4, <1>5, <1>7, <1>8 DEF CrossInv, MapOwners, Shape
<1>13. TasksHold'
  BY <1>5, <1>7, <1>8 DEF CrossInv, TasksHold
<1>14. \A i \in 1 .. n - 1 : i + 1 \in 1 .. n /\ i + 1 # 1 /\ mb[i] = mailbox[i + 1]
  BY <1>1, <1>3
<1>15. Senders'
  <2>1. ASSUME NEW i \in 1 .. n - 1
        PROVE  /\ mb[i].from \in Conns /\ object'[mb[i].from] # "none"
               /\ mb[i].fd = fdOf[mb[i].from] /\ mb[i].fd \in Fds
    BY <1>1, <1>8, <1>14 DEF CrossInv, Senders
  <2>2. QED
    BY <1>1, <1>3, <1>7, <2>1 DEF Senders
<1>16. NewConnects'
  <2>1. ASSUME NEW i \in 1 .. n - 1, mb[i].what = "NEW_CONNECT"
        PROVE  /\ object'[mb[i].from] = "accepted" /\ accepting # mb[i].from
               /\ \A j \in 1 .. n - 1 :
                    mb[j].what = "NEW_CONNECT" /\ mb[j].from = mb[i].from => j = i
    <3>1. mb[i].from # c /\ mb[i].from \in Conns
      BY <1>1, <1>5, <1>14, <2>1 DEF CrossInv, Senders
    <3>2. object'[mb[i].from] = "accepted" /\ accepting # mb[i].from
      BY <1>1, <1>8, <1>14, <2>1, <3>1 DEF CrossInv, NewConnects
    <3>3. ASSUME NEW j \in 1 .. n - 1, mb[j].what = "NEW_CONNECT", mb[j].from = mb[i].from
          PROVE  j = i
      <4>1. j + 1 = i + 1
        BY <1>1, <1>14, <2>1, <3>3 DEF CrossInv, NewConnects
      <4>2. QED
        BY <4>1
    <3>4. QED
      BY <3>2, <3>3
  <2>2. QED
    BY <1>1, <1>3, <1>7, <2>1 DEF NewConnects
<1>17. MapDones'
  <2>1. ASSUME NEW i \in 1 .. n - 1, mb[i].what = "CONNECTION"
        PROVE  /\ object'[mb[i].from] \in {"live", "freed"}
               /\ \A d \in Conns : object'[d] = "live" /\ fdOf[d] = mb[i].fd => d = mb[i].from
               /\ \A j \in 1 .. i - 1 : mb[j].what = "NEW_CONNECT" => mb[j].fd # mb[i].fd
    <3>1. /\ object[mb[i].from] \in {"live", "freed"} /\ mb[i].from \in Conns
          /\ \A d \in Conns : object[d] = "live" /\ fdOf[d] = mb[i].fd => d = mb[i].from
          /\ \A j \in 1 .. i : mailbox[j].what = "NEW_CONNECT" => mailbox[j].fd # mb[i].fd
      <4>1. \A j \in 1 .. i : j \in 1 .. (i + 1) - 1
        OBVIOUS
      <4>2. QED
        BY <1>1, <1>14, <2>1, <4>1, SMTT(30) DEF CrossInv, MapDones, Senders
    <3>2. fd # mb[i].fd
      <4>1. 1 \in 1 .. i /\ mailbox[1].what = "NEW_CONNECT" /\ mailbox[1].fd = fd
        BY <1>1, <1>2, <1>3, <1>4 DEF CrossInv, Senders
      <4>2. QED
        BY <3>1, <4>1
    <3>3. \A d \in Conns : object'[d] = "live" /\ fdOf[d] = mb[i].fd => d = mb[i].from
      BY <1>4, <1>8, <3>1, <3>2
    <3>4. ASSUME NEW j \in 1 .. i - 1, mb[j].what = "NEW_CONNECT" PROVE mb[j].fd # mb[i].fd
      <4>1. j + 1 \in 1 .. i /\ j \in 1 .. n - 1
        BY <1>1
      <4>2. mb[j] = mailbox[j + 1]
        BY <1>14, <4>1
      <4>3. QED
        BY <3>1, <3>4, <4>1, <4>2
    <3>5. object'[mb[i].from] \in {"live", "freed"}
      BY <1>8, <3>1
    <3>6. QED
      BY <3>3, <3>4, <3>5
  <2>2. QED
    BY <1>1, <1>3, <1>7, <2>1 DEF MapDones
<1>18. QED
  BY <1>9, <1>10, <1>11, <1>12, <1>13, <1>15, <1>16, <1>17 DEF CrossInv

\* A result is taken from the mailbox.
LEMMA OnMapDoneKeeps ==
  ASSUME CrossInv, OnMapDone
  PROVE  CrossInv'
<1>1. PICK mb, n : mb = mailbox' /\ n = Len(mailbox) /\ n \in Nat
  <2>1. Len(mailbox) \in Nat
    BY LenSeq DEF CrossInv, Shape
  <2>2. QED
    BY <2>1
<1>2. /\ mailbox # << >> /\ mb = Tail(mailbox)
      /\ UNCHANGED <<peer, fdOf, object, map, posting, taskQueue, worker, accepting>>
  BY <1>1 DEF OnMapDone, clientVars, ownVars, loopVars, poolVars
<1>3. /\ IsSeq(mb) /\ Len(mb) = n - 1
      /\ \A i \in 1 .. n - 1 : i + 1 \in 1 .. n /\ mb[i] = mailbox[i + 1]
  BY <1>1, <1>2, GetSeq DEF CrossInv, Shape
<1>4. Shape' /\ Stages' /\ DistinctFds' /\ MapOwners' /\ AcceptedOnly' /\ TasksHold'
  BY <1>1, <1>2, <1>3 DEF CrossInv, Shape, Stages, DistinctFds, MapOwners, AcceptedOnly, TasksHold, Open
<1>5. Senders'
  BY <1>1, <1>2, <1>3 DEF CrossInv, Senders
<1>6. NewConnects'
  <2>1. ASSUME NEW i \in 1 .. n - 1, mb[i].what = "NEW_CONNECT"
        PROVE  /\ object[mb[i].from] = "accepted" /\ accepting # mb[i].from
               /\ \A j \in 1 .. n - 1 :
                    mb[j].what = "NEW_CONNECT" /\ mb[j].from = mb[i].from => j = i
    <3>1. object[mb[i].from] = "accepted" /\ accepting # mb[i].from
      BY <1>1, <1>3, <2>1 DEF CrossInv, NewConnects
    <3>2. ASSUME NEW j \in 1 .. n - 1, mb[j].what = "NEW_CONNECT", mb[j].from = mb[i].from
          PROVE  j = i
      <4>1. j + 1 = i + 1
        BY <1>1, <1>3, <2>1, <3>2 DEF CrossInv, NewConnects
      <4>2. QED
        BY <1>1, <4>1
    <3>3. QED
      BY <3>1, <3>2
  <2>2. QED
    BY <1>1, <1>2, <1>3, <2>1 DEF NewConnects
<1>7. MapDones'
  <2>1. ASSUME NEW i \in 1 .. n - 1, mb[i].what = "CONNECTION"
        PROVE  /\ object[mb[i].from] \in {"live", "freed"}
               /\ \A d \in Conns : object[d] = "live" /\ fdOf[d] = mb[i].fd => d = mb[i].from
               /\ \A j \in 1 .. i - 1 : mb[j].what = "NEW_CONNECT" => mb[j].fd # mb[i].fd
    <3>1. PICK k \in 1 .. n : k = i + 1 /\ mb[i] = mailbox[k]
      BY <1>3
    <3>2. /\ object[mb[i].from] \in {"live", "freed"}
          /\ \A d \in Conns : object[d] = "live" /\ fdOf[d] = mb[i].fd => d = mb[i].from
          /\ \A j \in 1 .. k - 1 : mailbox[j].what = "NEW_CONNECT" => mailbox[j].fd # mb[i].fd
      BY <1>1, <2>1, <3>1 DEF CrossInv, MapDones
    <3>3. \A j \in 1 .. i - 1 : j + 1 \in 1 .. k - 1 /\ mb[j] = mailbox[j + 1]
      BY <1>3, <3>1
    <3>4. QED
      BY <3>2, <3>3
  <2>2. QED
    BY <1>1, <1>2, <1>3, <2>1 DEF MapDones
<1>8. QED
  BY <1>4, <1>5, <1>6, <1>7 DEF CrossInv

\* A connection is freed that neither the map nor a task holds.
LEMMA FreeKeeps ==
  ASSUME CrossInv, NEW c \in Conns, object[c] = "live",
         object' = [object EXCEPT ![c] = "freed"], UNCHANGED <<peer, fdOf, mailbox, accepting>>
  PROVE  Stages' /\ DistinctFds' /\ AcceptedOnly' /\ Senders' /\ NewConnects' /\ MapDones'
<1>1. object'[c] = "freed" /\ \A d \in Conns : d # c => object'[d] = object[d]
  BY DEF CrossInv, Shape
<1>2. Stages' /\ DistinctFds' /\ AcceptedOnly'
  BY <1>1 DEF CrossInv, Stages, DistinctFds, AcceptedOnly, Open, Shape
<1>3. Senders'
  BY <1>1 DEF CrossInv, Senders
<1>4. NewConnects'
  <2>1. \A i \in 1 .. Len(mailbox) : mailbox[i].what = "NEW_CONNECT" =>
          mailbox[i].from \in Conns /\ object'[mailbox[i].from] = "accepted"
    BY <1>1 DEF CrossInv, Senders, NewConnects
  <2>2. QED
    BY <2>1 DEF CrossInv, NewConnects
<1>5. MapDones'
  <2>1. ASSUME NEW i \in 1 .. Len(mailbox), mailbox[i].what = "CONNECTION"
        PROVE  /\ object'[mailbox[i].from] \in {"live", "freed"}
               /\ \A d \in Conns : object'[d] = "live" /\ fdOf[d] = mailbox[i].fd => d = mailbox[i].from
    BY <1>1, <2>1 DEF CrossInv, Senders, MapDones
  <2>2. QED
    BY <2>1 DEF CrossInv, MapDones
<1>6. QED
  BY <1>2, <1>3, <1>4, <1>5

\* _destroy of a connection: it leaves the map, and lives on while a task
\* holds it.
LEMMA DestroyKeeps ==
  ASSUME CrossInv, NEW c \in Conns, NEW fired, object[c] = "live", Destroy(c, fired)
  PROVE  CrossInv'
<1>1. PICK fd \in Fds : fd = fdOf[c]
  BY DEF CrossInv, Stages
<1>2. map' = [map EXCEPT ![fd] = None] /\ UNCHANGED <<peer, fdOf, mailbox, accepting, posting, taskQueue, worker>>
  BY <1>1 DEF Destroy, clientVars, loopVars, poolVars, mainVars
<1>3. map'[fd] = None /\ \A f \in Fds : f # fd => map'[f] = map[f]
  BY <1>2 DEF CrossInv, Shape
<1>4. CASE HeldByTask(c, Pool)
  <2>1. object' = object
    BY <1>4 DEF Destroy, CrossInv, Shape
  <2>2. Shape' /\ Stages' /\ AcceptedOnly' /\ DistinctFds'
    BY <1>2, <2>1 DEF CrossInv, Shape, Stages, AcceptedOnly, DistinctFds, Open
  <2>3. MapOwners'
    BY <1>2, <1>3, <2>1 DEF CrossInv, MapOwners
  <2>4. TasksHold' /\ Senders'
    BY <1>2, <2>1 DEF CrossInv, TasksHold, Senders
  <2>5. NewConnects' /\ MapDones'
    BY <1>2, <2>1 DEF CrossInv, NewConnects, MapDones
  <2>6. QED
    BY <2>2, <2>3, <2>4, <2>5 DEF CrossInv
<1>5. CASE ~HeldByTask(c, Pool)
  <2>1. object' = [object EXCEPT ![c] = "freed"]
    BY <1>5 DEF Destroy
  <2>2. Stages' /\ DistinctFds' /\ AcceptedOnly' /\ Senders' /\ NewConnects' /\ MapDones'
    BY <1>2, <2>1, FreeKeeps
  <2>3. Shape'
    BY <1>2, <2>1 DEF CrossInv, Shape
  <2>4. object'[c] = "freed" /\ \A d \in Conns : d # c => object'[d] = object[d]
    BY <2>1 DEF CrossInv, Shape
  <2>5. MapOwners'
    <3>1. ASSUME NEW f \in Fds, map'[f] # None
          PROVE  object'[map'[f]] = "live" /\ fdOf[map'[f]] = f
      <4>1. f # fd /\ map'[f] = map[f] /\ map[f] \in Conns /\ object[map[f]] = "live" /\ fdOf[map[f]] = f
        BY <1>3, <3>1 DEF CrossInv, Shape, MapOwners
      <4>2. QED
        BY <1>1, <2>4, <4>1
    <3>2. QED
      BY <1>2, <3>1 DEF MapOwners
  <2>6. TasksHold'
    <3>1. \A i \in 1 .. Len(taskQueue) : taskQueue[i].conn # c
      BY <1>5 DEF HeldByTask
    <3>2. \A p \in Pool : worker[p].conn # c
      BY <1>5 DEF HeldByTask
    <3>3. QED
      BY <1>2, <2>4, <3>1, <3>2 DEF CrossInv, TasksHold
  <2>7. QED
    BY <2>2, <2>3, <2>5, <2>6 DEF CrossInv
<1>6. QED
  BY <1>4, <1>5

\* A task that is posted holds a connection that is alive, as long as the
\* handler that posts it works on one.
LEMMA PostTaskKeeps ==
  ASSUME CrossInv, HandlerOnLiveObject, PostTask
  PROVE  CrossInv'
<1>1. posting \in Conns /\ posting # None /\ object[posting] = "live"
  BY DEF PostTask, CrossInv, Shape, HandlerOnLiveObject
<1>2. PICK t : taskQueue' = Append(taskQueue, t) /\ t.conn = posting
  BY DEF PostTask
<1>3. /\ UNCHANGED <<peer, fdOf, object, map, worker, mailbox, accepting>>
      /\ posting' \in {posting, None}
  BY DEF PostTask, clientVars, ownVars, mainVars
<1>4. PICK q, n : q = taskQueue' /\ n = Len(taskQueue) /\ n \in Nat
  <2>1. Len(taskQueue) \in Nat
    BY LenSeq DEF CrossInv, Shape
  <2>2. QED
    BY <2>1
<1>5. IsSeq(q) /\ Len(q) = n + 1 /\ q[n + 1] = t /\ \A i \in 1 .. n : q[i] = taskQueue[i]
  BY <1>2, <1>4, PutSeq DEF CrossInv, Shape
<1>6. Shape'
  BY <1>1, <1>3, <1>4, <1>5 DEF CrossInv, Shape
<1>7. \A i \in 1 .. Len(q) : q[i].conn \in Conns /\ object[q[i].conn] = "live"
  <2>1. \A i \in 1 .. Len(q) : i \in 1 .. n \/ i = n + 1
    BY <1>4, <1>5
  <2>2. \A i \in 1 .. n : q[i].conn \in Conns /\ object[q[i].conn] = "live"
    BY <1>4, <1>5 DEF CrossInv, TasksHold
  <2>3. q[n + 1].conn = posting
    BY <1>2, <1>5
  <2>4. QED
    BY <1>1, <2>1, <2>2, <2>3
<1>8. TasksHold'
  BY <1>3, <1>4, <1>7 DEF CrossInv, TasksHold
<1>9. Stages' /\ DistinctFds' /\ MapOwners' /\ AcceptedOnly'
  BY <1>3 DEF CrossInv, Stages, DistinctFds, MapOwners, AcceptedOnly, Open
<1>10. Senders' /\ NewConnects' /\ MapDones'
  BY <1>3 DEF CrossInv, Senders, NewConnects, MapDones
<1>11. QED
  BY <1>6, <1>8, <1>9, <1>10 DEF CrossInv

\* A pool thread takes a task over with its reference.
LEMMA TakeTaskKeeps ==
  ASSUME CrossInv, NEW p \in Pool, TakeTask(p)
  PROVE  CrossInv'
<1>1. /\ UNCHANGED <<peer, fdOf, object, map, posting, mailbox, accepting>>
      /\ taskQueue # << >> /\ taskQueue' = Tail(taskQueue)
  BY DEF TakeTask, clientVars, ownVars, loopVars, mainVars
<1>2. PICK q, n, wk : q = taskQueue' /\ n = Len(taskQueue) /\ n \in Nat /\ wk = worker'
  <2>1. Len(taskQueue) \in Nat
    BY LenSeq DEF CrossInv, Shape
  <2>2. QED
    BY <2>1
<1>3. /\ IsSeq(q) /\ Len(q) = n - 1 /\ n >= 1 /\ Head(taskQueue) = taskQueue[1]
      /\ \A i \in 1 .. n - 1 : i + 1 \in 1 .. n /\ q[i] = taskQueue[i + 1]
  BY <1>1, <1>2, GetSeq DEF CrossInv, Shape
<1>4. PICK c : c = taskQueue[1].conn /\ c \in Conns /\ object[c] = "live"
  BY <1>2, <1>3 DEF CrossInv, TasksHold
<1>5. wk = [worker EXCEPT ![p] = [conn |-> c, file |-> Head(taskQueue).file, step |-> "run"]]
  BY <1>2, <1>3, <1>4 DEF TakeTask
<1>6. /\ wk = [r \in Pool |-> [conn |-> wk[r].conn, file |-> wk[r].file, step |-> wk[r].step]]
      /\ wk[p].conn = c /\ wk[p].step = "run" /\ \A r \in Pool : r # p => wk[r] = worker[r]
  BY <1>5 DEF CrossInv, Shape
<1>7. Shape'
  BY <1>1, <1>2, <1>3, <1>6 DEF CrossInv, Shape
<1>8. TasksHold'
  <2>1. \A i \in 1 .. Len(q) : q[i].conn \in Conns /\ object[q[i].conn] = "live"
    BY <1>2, <1>3 DEF CrossInv, TasksHold
  <2>2. c # None
    BY <1>4, NoneAssumption
  <2>3. \A r \in Pool :
          /\ wk[r].step = "idle" <=> wk[r].conn = None
          /\ wk[r].conn # None => wk[r].conn \in Conns /\ object[wk[r].conn] = "live"
    <3>1. /\ wk[p].step # "idle" /\ wk[p].conn # None
          /\ wk[p].conn \in Conns /\ object[wk[p].conn] = "live"
      BY <1>4, <1>6, <2>2
    <3>2. \A r \in Pool : r # p =>
            /\ wk[r].step = "idle" <=> wk[r].conn = None
            /\ wk[r].conn # None => wk[r].conn \in Conns /\ object[wk[r].conn] = "live"
      BY <1>6 DEF CrossInv, TasksHold
    <3>3. QED
      BY <3>1, <3>2
  <2>4. QED
    BY <1>1, <1>2, <2>1, <2>3 DEF TasksHold
<1>9. Stages' /\ DistinctFds' /\ MapOwners' /\ AcceptedOnly'
  BY <1>1 DEF CrossInv, Stages, DistinctFds, MapOwners, AcceptedOnly, Open
<1>10. Senders' /\ NewConnects' /\ MapDones'
  BY <1>1 DEF CrossInv, Senders, NewConnects, MapDones
<1>11. QED
  BY <1>7, <1>8, <1>9, <1>10 DEF CrossInv

\* A task lets go; the last owner frees the connection.
LEMMA ReleaseTaskKeeps ==
  ASSUME CrossInv, NEW p \in Pool, ReleaseTask(p)
  PROVE  CrossInv'
<1>1. PICK c : c = worker[p].conn
  OBVIOUS
<1>2. c \in Conns /\ object[c] = "live" /\ worker[p].step = "release"
  BY <1>1 DEF ReleaseTask, CrossInv, TasksHold
<1>3. PICK wk : wk = worker'
  OBVIOUS
<1>4. /\ wk = [worker EXCEPT ![p] = [conn |-> None, file |-> << >>, step |-> "idle"]]
      /\ UNCHANGED <<peer, fdOf, map, posting, taskQueue, mailbox, accepting>>
  BY <1>3 DEF ReleaseTask, Idle, clientVars, loopVars, mainVars
<1>5. /\ wk = [r \in Pool |-> [conn |-> wk[r].conn, file |-> wk[r].file, step |-> wk[r].step]]
      /\ wk[p].conn = None /\ wk[p].step = "idle" /\ \A r \in Pool : r # p => wk[r] = worker[r]
  BY <1>4 DEF CrossInv, Shape
<1>6. CASE map[fdOf[c]] = c \/ HeldByTask(c, Pool \ {p})
  <2>1. object' = object
    BY <1>1, <1>6 DEF ReleaseTask, CrossInv, Shape
  <2>2. Shape'
    BY <1>3, <1>4, <1>5, <2>1 DEF CrossInv, Shape
  <2>3. TasksHold'
    BY <1>3, <1>4, <1>5, <2>1 DEF CrossInv, TasksHold
  <2>4. Stages' /\ DistinctFds' /\ MapOwners' /\ AcceptedOnly'
    BY <1>4, <2>1 DEF CrossInv, Stages, DistinctFds, MapOwners, AcceptedOnly, Open
  <2>5. Senders' /\ NewConnects' /\ MapDones'
    BY <1>4, <2>1 DEF CrossInv, Senders, NewConnects, MapDones
  <2>6. QED
    BY <2>2, <2>3, <2>4, <2>5 DEF CrossInv
<1>7. CASE map[fdOf[c]] # c /\ ~HeldByTask(c, Pool \ {p})
  <2>1. object' = [object EXCEPT ![c] = "freed"]
    BY <1>1, <1>7 DEF ReleaseTask
  <2>2. Stages' /\ DistinctFds' /\ AcceptedOnly' /\ Senders' /\ NewConnects' /\ MapDones'
    BY <1>2, <1>4, <2>1, FreeKeeps
  <2>3. Shape'
    BY <1>3, <1>4, <1>5, <2>1 DEF CrossInv, Shape
  <2>4. object'[c] = "freed" /\ \A d \in Conns : d # c => object'[d] = object[d]
    BY <1>2, <2>1 DEF CrossInv, Shape
  <2>5. MapOwners'
    <3>1. ASSUME NEW f \in Fds, map[f] # None
          PROVE  object'[map[f]] = "live" /\ fdOf[map[f]] = f
      <4>1. map[f] \in Conns /\ object[map[f]] = "live" /\ fdOf[map[f]] = f
        BY <3>1 DEF CrossInv, Shape, MapOwners
      <4>2. QED
        BY <1>7, <2>4, <4>1
    <3>2. QED
      BY <1>4, <3>1 DEF MapOwners
  <2>6. TasksHold'
    <3>1. \A i \in 1 .. Len(taskQueue) : taskQueue[i].conn # c
      BY <1>7 DEF HeldByTask
    <3>2. \A r \in Pool : r # p => worker[r].conn # c
      BY <1>7 DEF HeldByTask
    <3>3. \A i \in 1 .. Len(taskQueue) : taskQueue[i].conn \in Conns /\ object'[taskQueue[i].conn] = "live"
      BY <2>4, <3>1 DEF CrossInv, TasksHold
    <3>4. \A r \in Pool :
            /\ wk[r].step = "idle" <=> wk[r].conn = None
            /\ wk[r].conn # None => wk[r].conn \in Conns /\ object'[wk[r].conn] = "live"
      BY <1>5, <2>4, <3>2 DEF CrossInv, TasksHold
    <3>5. QED
      BY <1>3, <1>4, <3>3, <3>4 DEF TasksHold
  <2>7. QED
    BY <2>2, <2>3, <2>5, <2>6 DEF CrossInv
<1>8. QED
  BY <1>6, <1>7

\* Every step keeps the results apart, as long as no pool thread frees a
\* connection under the handler that posts its tasks.
LEMMA CrossStep == CrossInv /\ HandlerOnLiveObject /\ [Next]_vars => CrossInv'
<1> SUFFICES ASSUME CrossInv, HandlerOnLiveObject, [Next]_vars PROVE CrossInv'
  OBVIOUS
<1>1. peer \in [Conns -> {"away", "connected", "closed"}] /\ posting \in Conns \cup {None}
  BY DEF CrossInv, Shape
<1>2. ASSUME NEW c \in Conns,
             \/ \E files \in Requests : ClientSends(c, files)
             \/ ClientCloses(c) \/ RecvRequest(c) \/ SendResult(c)
      PROVE  CrossInv'
  <2>1. UNCHANGED <<fdOf, object, map, taskQueue, worker, mailbox, accepting>>
    BY <1>2 DEF ClientSends, ClientCloses, RecvRequest, SendResult, ownVars, poolVars, mainVars
  <2>2. peer' = peer \/ (peer[c] = "connected" /\ peer' = [peer EXCEPT ![c] = "closed"])
    BY <1>2 DEF ClientSends, ClientCloses, RecvRequest, SendResult
  <2>3. posting' \in Conns \cup {None}
    BY <1>1, <1>2 DEF ClientSends, ClientCloses, RecvRequest, SendResult, loopVars
  <2>4. /\ peer' \in [Conns -> {"away", "connected", "closed"}]
        /\ \A d \in Conns : peer'[d] = "away" <=> peer[d] = "away"
    BY <1>1, <2>2
  <2>5. QED
    BY <2>1, <2>3, <2>4, CrossStays
<1>3. ASSUME NEW c \in Conns, RecvError(c) \/ SendError(c) PROVE CrossInv'
  BY <1>3, DestroyKeeps DEF RecvError, SendError
<1>4. CASE UNCHANGED vars
  BY <1>1, <1>4, CrossStays DEF vars, clientVars, ownVars, loopVars, poolVars, mainVars
<1>5. QED
  BY <1>2, <1>3, <1>4, AcceptKeeps, NotifyNewConnectKeeps, OnNewConnectKeeps, OnMapDoneKeeps, PostTaskKeeps,
     TakeTaskKeeps, NotifyMapDoneKeeps, ReleaseTaskKeeps DEF Next, ConnStep, MessageStep, PoolStep

\* The result at the head of the mailbox is its own connection's, or nobody's.
LEMMA CrossImplies == CrossInv => NoCrossTalk
<1> SUFFICES ASSUME CrossInv, mailbox # << >>, Head(mailbox).what = "CONNECTION"
             PROVE  map[Head(mailbox).fd] \in {None, Head(mailbox).from}
  BY DEF NoCrossTalk
<1>1. Head(mailbox) = mailbox[1] /\ 1 \in 1 .. Len(mailbox)
  BY GetSeq DEF CrossInv, Shape
<1>2. PICK fd \in Fds : fd = mailbox[1].fd
  BY <1>1 DEF CrossInv, Senders
<1>3. \A d \in Conns : object[d] = "live" /\ fdOf[d] = fd => d = mailbox[1].from
  BY <1>1, <1>2 DEF CrossInv, MapDones
<1>4. map[fd] # None => map[fd] \in Conns /\ object[map[fd]] = "live" /\ fdOf[map[fd]] = fd
  BY DEF CrossInv, Shape, MapOwners
<1>5. QED
  BY <1>1, <1>2, <1>3, <1>4

\* "Release the global reference first, to avoid cross talk": the result of one
\* client's task is never counted for another client with the same descriptor,
\* however often descriptors are given out again, for any number of clients,
\* requests and threads, in every behaviour in which no pool thread destroys a
\* connection under its handler.
THEOREM ResultsStayApart == Spec /\ []HandlerOnLiveObject => []NoCrossTalk
<1>1. Spec /\ []HandlerOnLiveObject => []CrossInv
  BY CrossInit, CrossStep, PTL DEF Spec
<1>2. QED
  BY <1>1, CrossImplies, PTL

-----------------------------------------------------------------------------
(* Clients that ask once                                                   *)

\* A client asks at most once, and its request is unread or gone.
AskedOnce ==
  /\ asked \in [Conns -> Seq(Requests)] /\ unread \in [Conns -> Seq(Requests)]
  /\ \A c \in Conns : Len(asked[c]) <= 1 /\ unread[c] \in {<< >>, asked[c]}

Unserved(c) == asked[c] = << >> \/ unread[c] # << >>

\* A connection without a request yet has no task, so that _destroy frees it:
\* as long as it lives it is in the map.
FreshInMap ==
  \A c \in Conns : Unserved(c) =>
    /\ \A i \in 1 .. Len(taskQueue) : taskQueue[i].conn # c
    /\ \A p \in Pool : worker[p].conn # c
    /\ posting # c
    /\ object[c] = "live" => map[fdOf[c]] = c

\* The connection whose handler runs is in the map.
HandlerInMap == posting # None => object[posting] = "live" /\ map[fdOf[posting]] = posting

OnceInv == CrossInv /\ AskedOnce /\ FreshInMap /\ HandlerInMap

\* What a connection without a task is to _destroy and ReleaseTask.
LEMMA FreshIsNotHeld ==
  ASSUME FreshInMap, NEW c \in Conns, Unserved(c), NEW threads, threads \subseteq Pool
  PROVE  ~HeldByTask(c, threads)
BY DEF FreshInMap, HeldByTask

\* Requests are asked and taken.
LEMMA AskedOnceStep ==
  ASSUME MaxRequests = 1, AskedOnce, [Next]_vars
  PROVE  AskedOnce'
<1>1. ASSUME UNCHANGED <<asked, unread>> PROVE AskedOnce'
  BY <1>1 DEF AskedOnce
<1>2. ASSUME NEW c \in Conns, NEW files \in Requests, ClientSends(c, files) PROVE AskedOnce'
  <2>1. asked[c] \in Seq(Requests) /\ Len(asked[c]) < 1 /\ unread[c] \in {<< >>, asked[c]}
    BY <1>2 DEF AskedOnce, ClientSends
  <2>2. asked[c] = << >> /\ unread[c] = << >>
    BY <2>1
  <2>3. PICK s : s = Append(<< >>, files)
    OBVIOUS
  <2>4. s \in Seq(Requests) /\ Len(s) = 1
    BY <2>3
  <2>5. asked' = [asked EXCEPT ![c] = s] /\ unread' = [unread EXCEPT ![c] = s]
    BY <1>2, <2>2, <2>3 DEF ClientSends
  <2>6. /\ asked' \in [Conns -> Seq(Requests)] /\ unread' \in [Conns -> Seq(Requests)]
        /\ asked'[c] = s /\ unread'[c] = s
        /\ \A d \in Conns : d # c => asked'[d] = asked[d] /\ unread'[d] = unread[d]
    BY <2>4, <2>5 DEF AskedOnce
  <2>7. ASSUME NEW d \in Conns PROVE Len(asked'[d]) <= 1 /\ unread'[d] \in {<< >>, asked'[d]}
    <3>1. CASE d = c
      <4>1. asked'[d] = s /\ unread'[d] = s
        BY <2>6, <3>1
      <4>2. Len(s) <= 1
        BY <2>4
      <4>3. QED
        BY <4>1, <4>2
    <3>2. CASE d # c
      <4>1. Len(asked[d]) <= 1 /\ unread[d] \in {<< >>, asked[d]}
        BY DEF AskedOnce
      <4>2. QED
        BY <2>6, <3>2, <4>1
    <3>3. QED
      BY <3>1, <3>2
  <2>8. QED
    BY <2>6, <2>7 DEF AskedOnce
<1>3. ASSUME NEW c \in Conns, RecvRequest(c) PROVE AskedOnce'
  <2>1. /\ unread[c] # << >> /\ asked' = asked
        /\ unread' = [unread EXCEPT ![c] = Tail(unread[c])]
    BY <1>3 DEF RecvRequest
  <2>2. unread[c] = asked[c] /\ Len(asked[c]) <= 1 /\ asked[c] \in Seq(Requests)
    BY <2>1 DEF AskedOnce
  <2>3. Tail(unread[c]) = << >>
    BY <2>1, <2>2
  <2>4. QED
    BY <2>1, <2>3 DEF AskedOnce
<1>4. CASE UNCHANGED vars
  BY <1>1, <1>4 DEF vars, clientVars
<1>5. ASSUME NEW c \in Conns, \/ ClientCloses(c) \/ (\E fd \in Fds : Accept(c, fd))
                              \/ RecvError(c) \/ SendResult(c) \/ SendError(c)
      PROVE  AskedOnce'
  BY <1>1, <1>5 DEF ClientCloses, Accept, RecvError, SendResult, SendError, Destroy, clientVars
<1>6. CASE NotifyNewConnect \/ MessageStep \/ PostTask
  BY <1>1, <1>6 DEF NotifyNewConnect, MessageStep, OnNewConnect, OnMapDone, PostTask, clientVars
<1>7. ASSUME NEW p \in Pool, PoolStep(p) PROVE AskedOnce'
  BY <1>1, <1>7 DEF PoolStep, TakeTask, NotifyMapDone, ReleaseTask, clientVars
<1>8. QED
  BY <1>2, <1>3, <1>4, <1>5, <1>6, <1>7 DEF Next, ConnStep

\* A connection that has not been asked anything stays in the map or is freed.
LEMMA FreshStep ==
  ASSUME OnceInv, MaxRequests = 1, [Next]_vars
  PROVE  FreshInMap'
<1> USE DEF OnceInv
<1>1. ASSUME NEW c \in Conns, Unserved(c)'
      PROVE  Unserved(c)
  <2>1. CASE UNCHANGED <<asked, unread>>
    BY <1>1, <2>1 DEF Unserved
  <2>2. ASSUME NEW d \in Conns, NEW files \in Requests, ClientSends(d, files) PROVE Unserved(c)
    <3>1. asked[d] \in Seq(Requests) /\ Len(asked[d]) < 1
      BY <2>2 DEF AskedOnce, ClientSends
    <3>2. asked[d] = << >>
      BY <3>1
    <3>3. d # c => asked'[c] = asked[c] /\ unread'[c] = unread[c]
      BY <2>2 DEF AskedOnce, ClientSends
    <3>4. QED
      BY <1>1, <3>2, <3>3 DEF Unserved
  <2>3. ASSUME NEW d \in Conns, RecvRequest(d) PROVE Unserved(c)
    BY <1>1, <2>3 DEF Unserved, RecvRequest, AskedOnce
  <2>4. QED
    BY <2>1, <2>2, <2>3, ZenonT(40) DEF Next, vars, clientVars, ConnStep, ClientCloses, Accept, RecvError, SendResult,
      SendError, Destroy, NotifyNewConnect, MessageStep, OnNewConnect, OnMapDone, PostTask, PoolStep,
      TakeTask, NotifyMapDone, ReleaseTask
<1>2. ASSUME NEW c \in Conns, Unserved(c)'
      PROVE  /\ Unserved(c) /\ posting # c /\ ~HeldByTask(c, Pool)
             /\ object[c] = "live" => map[fdOf[c]] = c
  <2>1. Unserved(c)
    BY <1>1, <1>2
  <2>2. QED
    BY <2>1, FreshIsNotHeld DEF FreshInMap
<1>3. ASSUME NEW c \in Conns, Unserved(c)'
      PROVE  (\A i \in 1 .. Len(taskQueue) : taskQueue[i].conn # c)'
  <2>1. PICK q, n : q = taskQueue' /\ n = Len(taskQueue) /\ n \in Nat
    <3>1. Len(taskQueue) \in Nat
      BY LenSeq DEF CrossInv, Shape
    <3>2. QED
      BY <3>1
  <2>2. posting # c /\ \A i \in 1 .. n : taskQueue[i].conn # c
    BY <1>2, <1>3, <2>1 DEF HeldByTask
  <2>3. CASE UNCHANGED taskQueue
    BY <2>1, <2>2, <2>3
  <2>4. CASE PostTask
    <3>1. PICK t : q = Append(taskQueue, t) /\ t.conn = posting
      BY <2>1, <2>4 DEF PostTask
    <3>2. Len(q) = n + 1 /\ q[n + 1] = t /\ \A i \in 1 .. n : q[i] = taskQueue[i]
      BY <2>1, <3>1, PutSeq DEF CrossInv, Shape
    <3>3. \A i \in 1 .. Len(q) : i \in 1 .. n \/ i = n + 1
      BY <2>1, <3>2
    <3>4. QED
      BY <2>1, <2>2, <3>1, <3>2, <3>3
  <2>5. ASSUME NEW p \in Pool, TakeTask(p) PROVE \A i \in 1 .. Len(q) : q[i].conn # c
    <3>1. taskQueue # << >> /\ q = Tail(taskQueue)
      BY <2>1, <2>5 DEF TakeTask
    <3>2. Len(q) = n - 1 /\ \A i \in 1 .. n - 1 : i + 1 \in 1 .. n /\ q[i] = taskQueue[i + 1]
      BY <2>1, <3>1, GetSeq DEF CrossInv, Shape
    <3>3. QED
      BY <2>2, <3>2
  <2>6. UNCHANGED taskQueue \/ PostTask \/ \E p \in Pool : TakeTask(p)
    BY ZenonT(40) DEF Next, vars, poolVars, ConnStep, ClientSends, ClientCloses, Accept, RecvRequest, RecvError, SendResult,
      SendError, Destroy, NotifyNewConnect, MessageStep, OnNewConnect, OnMapDone, PoolStep,
      NotifyMapDone, ReleaseTask
  <2>7. QED
    BY <2>1, <2>3, <2>4, <2>5, <2>6
<1>4. ASSUME NEW c \in Conns, Unserved(c)'
      PROVE  (\A p \in Pool : worker[p].conn # c)'
  <2>1. PICK wk : wk = worker'
    OBVIOUS
  <2>2. \A r \in Pool : worker[r].conn # c
    BY <1>2, <1>3, <1>4 DEF HeldByTask
  <2>3. ASSUME NEW p \in Pool, TakeTask(p) PROVE \A r \in Pool : wk[r].conn # c
    <3>1. taskQueue # << >>
      BY <2>3 DEF TakeTask
    <3>2. Head(taskQueue) = taskQueue[1] /\ 1 \in 1 .. Len(taskQueue)
      BY <3>1, GetSeq DEF CrossInv, Shape
    <3>3. Head(taskQueue).conn # c
      BY <1>2, <1>4, <3>2 DEF HeldByTask
    <3>4. wk = [worker EXCEPT ![p] = [conn |-> Head(taskQueue).conn, file |-> Head(taskQueue).file, step |-> "run"]]
      BY <2>1, <2>3 DEF TakeTask
    <3>5. QED
      BY <2>2, <3>3, <3>4 DEF CrossInv, Shape
  <2>4. ASSUME NEW p \in Pool, NotifyMapDone(p) PROVE \A r \in Pool : wk[r].conn # c
    <3>1. wk = [worker EXCEPT ![p].step = "release"]
      BY <2>1, <2>4 DEF NotifyMapDone
    <3>2. QED
      BY <2>2, <3>1 DEF CrossInv, Shape
  <2>5. ASSUME NEW p \in Pool, ReleaseTask(p) PROVE \A r \in Pool : wk[r].conn # c
    <3>1. wk = [worker EXCEPT ![p] = Idle] /\ Idle.conn # c
      BY <2>1, <2>5, NoneAssumption DEF ReleaseTask, Idle
    <3>2. QED
      BY <2>2, <3>1 DEF CrossInv, Shape
  <2>6. UNCHANGED worker \/ \E p \in Pool : TakeTask(p) \/ NotifyMapDone(p) \/ ReleaseTask(p)
    BY DEF Next, vars, poolVars, ConnStep, ClientSends, ClientCloses, Accept, RecvRequest, RecvError, SendResult,
      SendError, Destroy, NotifyNewConnect, MessageStep, OnNewConnect, OnMapDone, PostTask, PoolStep
  <2>7. QED
    BY <2>1, <2>2, <2>3, <2>4, <2>5, <2>6
<1>5. ASSUME NEW c \in Conns, Unserved(c)'
      PROVE  posting' # c
  <2>1. posting # c
    BY <1>2, <1>5
  <2>2. ASSUME RecvRequest(c) PROVE FALSE
    <3>1. /\ unread[c] # << >> /\ asked'[c] = asked[c] /\ unread'[c] = Tail(unread[c])
          /\ unread[c] = asked[c] /\ asked[c] \in Seq(Requests) /\ Len(asked[c]) <= 1
      BY <2>2 DEF RecvRequest, AskedOnce
    <3>2. Tail(unread[c]) = << >>
      BY <3>1
    <3>3. QED
      BY <1>5, <3>1, <3>2 DEF Unserved
  <2>3. posting' \in {posting, None} \/ \E d \in Conns : RecvRequest(d) /\ posting' = d
    BY ZenonT(40) DEF Next, vars, loopVars, ConnStep, ClientSends, ClientCloses, Accept, RecvRequest, RecvError, SendResult,
      SendError, Destroy, NotifyNewConnect, MessageStep, OnNewConnect, OnMapDone, PostTask, PoolStep,
      TakeTask, NotifyMapDone, ReleaseTask
  <2>4. QED
    BY <2>1, <2>2, <2>3, NoneAssumption
<1>6. ASSUME NEW c \in Conns, Unserved(c)', object'[c] = "live"
      PROVE  map'[fdOf'[c]] = c
  <2>1. /\ ~HeldByTask(c, Pool)
        /\ object[c] = "live" => map[fdOf[c]] = c
        /\ \A d \in Conns : object[d] # "none" => fdOf[d] \in Fds
    BY <1>2, <1>6 DEF CrossInv, Stages
  <2>2. CASE UNCHANGED <<object, map, fdOf>>
    BY <1>6, <2>1, <2>2
  <2>3. ASSUME NEW d \in Conns, NEW fd \in Fds, Accept(d, fd) PROVE map'[fdOf'[c]] = c
    BY <1>6, <2>1, <2>3 DEF Accept, CrossInv, Shape
  <2>4. CASE OnNewConnect
    <3>1. PICK d : d = Head(mailbox).from
      OBVIOUS
    <3>2. Head(mailbox) = mailbox[1] /\ 1 \in 1 .. Len(mailbox) /\ mailbox[1].what = "NEW_CONNECT"
      BY <2>4, GetSeq DEF OnNewConnect, CrossInv, Shape
    <3>3. d \in Conns /\ object[d] = "accepted" /\ fdOf[d] \in Fds
      BY <3>1, <3>2 DEF CrossInv, Senders, NewConnects, Stages
    <3>4. fdOf' = fdOf /\ map' = [map EXCEPT ![fdOf[d]] = IF map[fdOf[d]] = None THEN d ELSE map[fdOf[d]]]
          /\ object' = [object EXCEPT ![d] = IF map[fdOf[d]] = None THEN "live" ELSE "freed"]
      BY <2>4, <3>1 DEF OnNewConnect
    <3>5. CASE d = c
      <4>1. map[fdOf[c]] = None
        BY <1>6, <3>3, <3>4, <3>5 DEF CrossInv, Shape
      <4>2. QED
        BY <3>3, <3>4, <3>5, <4>1 DEF CrossInv, Shape
    <3>6. CASE d # c
      <4>1. object[c] = "live"
        BY <1>6, <3>3, <3>4, <3>6 DEF CrossInv, Shape
      <4>2. fdOf[c] # fdOf[d] /\ fdOf[c] \in Fds /\ map[fdOf[c]] = c
        BY <2>1, <3>3, <3>6, <4>1 DEF CrossInv, DistinctFds, Open
      <4>3. QED
        BY <3>4, <4>2 DEF CrossInv, Shape
    <3>7. QED
      BY <3>5, <3>6
  <2>5. ASSUME NEW d \in Conns, NEW fired, object[d] = "live", Destroy(d, fired) PROVE map'[fdOf'[c]] = c
    <3>1. fdOf' = fdOf /\ map' = [map EXCEPT ![fdOf[d]] = None] /\ fdOf[d] \in Fds
      BY <2>1, <2>5 DEF Destroy
    <3>2. CASE d = c
      <4>1. object'[c] = "freed"
        BY <2>1, <2>5, <3>2 DEF Destroy, CrossInv, Shape
      <4>2. QED
        BY <1>6, <4>1
    <3>3. CASE d # c
      <4>1. object[c] = "live"
        BY <1>6, <2>5, <3>3 DEF Destroy, CrossInv, Shape
      <4>2. fdOf[c] # fdOf[d] /\ fdOf[c] \in Fds /\ map[fdOf[c]] = c
        BY <2>1, <2>5, <3>3, <4>1 DEF CrossInv, DistinctFds, Open
      <4>3. QED
        BY <3>1, <4>2 DEF CrossInv, Shape
    <3>4. QED
      BY <3>2, <3>3
  <2>6. ASSUME NEW p \in Pool, ReleaseTask(p) PROVE map'[fdOf'[c]] = c
    <3>1. worker[p].conn # c /\ UNCHANGED <<map, fdOf>>
      BY <2>1, <2>6 DEF HeldByTask, ReleaseTask
    <3>2. object[c] = "live"
      BY <1>6, <2>6, <3>1 DEF ReleaseTask, CrossInv, Shape
    <3>3. QED
      BY <2>1, <3>1, <3>2
  <2>7. \/ UNCHANGED <<object, map, fdOf>> \/ OnNewConnect
        \/ \E d \in Conns, fd \in Fds : Accept(d, fd)
        \/ \E d \in Conns : object[d] = "live" /\ (Destroy(d, "read") \/ Destroy(d, "write"))
        \/ \E p \in Pool : ReleaseTask(p)
    BY DEF Next, vars, ownVars, ConnStep, ClientSends, ClientCloses, RecvRequest, RecvError, SendResult,
      SendError, NotifyNewConnect, MessageStep, OnMapDone, PostTask, PoolStep, TakeTask, NotifyMapDone
  <2>8. QED
    BY <2>2, <2>3, <2>4, <2>5, <2>6, <2>7
<1>7. QED
  BY <1>3, <1>4, <1>5, <1>6 DEF FreshInMap

\* The loop is inside one handler at a time, and only the loop takes a
\* connection out of the map.
LEMMA HandlerInMapStep ==
  ASSUME OnceInv, MaxRequests = 1, [Next]_vars
  PROVE  HandlerInMap'
<1> USE DEF OnceInv
<1>1. ASSUME NEW c \in Conns, RecvRequest(c) PROVE HandlerInMap'
  <2>1. object[c] = "live" /\ unread[c] # << >> /\ posting' = c /\ UNCHANGED <<object, map, fdOf>>
    BY <1>1 DEF RecvRequest, ownVars
  <2>2. map[fdOf[c]] = c
    BY <2>1 DEF FreshInMap, Unserved
  <2>3. QED
    BY <2>1, <2>2 DEF HandlerInMap
<1>2. CASE UNCHANGED <<object, map, fdOf>> /\ posting' \in {posting, None}
  BY <1>2 DEF HandlerInMap
<1>3. CASE LoopFree /\ posting' = posting
  BY <1>3 DEF LoopFree, HandlerInMap
<1>4. ASSUME NEW c \in Conns, NEW fd \in Fds, Accept(c, fd) PROVE HandlerInMap'
  <2>1. CASE posting = None
    BY <1>4, <2>1 DEF Accept, loopVars, HandlerInMap
  <2>2. CASE posting # None
    <3>1. posting \in Conns /\ object[posting] = "live" /\ map[fdOf[posting]] = posting
      BY <2>2 DEF HandlerInMap, CrossInv, Shape
    <3>2. posting # c
      BY <1>4, <3>1 DEF Accept, CrossInv, Stages
    <3>3. /\ UNCHANGED <<posting, map>>
          /\ object' = [object EXCEPT ![c] = "accepted"] /\ fdOf' = [fdOf EXCEPT ![c] = fd]
      BY <1>4 DEF Accept, loopVars
    <3>4. object'[posting] = "live" /\ fdOf'[posting] = fdOf[posting]
      BY <3>1, <3>2, <3>3 DEF CrossInv, Shape
    <3>5. QED
      BY <3>1, <3>3, <3>4 DEF HandlerInMap
  <2>3. QED
    BY <2>1, <2>2
<1>5. ASSUME NEW p \in Pool, ReleaseTask(p) PROVE HandlerInMap'
  <2>1. UNCHANGED <<posting, map, fdOf>>
    BY <1>5 DEF ReleaseTask, loopVars
  <2>2. CASE posting = None
    BY <2>1, <2>2 DEF HandlerInMap
  <2>3. CASE posting # None
    <3>1. posting \in Conns /\ object[posting] = "live" /\ map[fdOf[posting]] = posting
      BY <2>3 DEF HandlerInMap, CrossInv, Shape
    <3>2. object'[posting] = "live"
      BY <1>5, <3>1 DEF ReleaseTask, CrossInv, Shape
    <3>3. QED
      BY <2>1, <3>1, <3>2 DEF HandlerInMap
  <2>4. QED
    BY <2>2, <2>3
<1>6. \/ UNCHANGED <<object, map, fdOf>> /\ posting' \in {posting, None}
      \/ LoopFree /\ posting' = posting
      \/ \E c \in Conns : RecvRequest(c)
      \/ \E c \in Conns, fd \in Fds : Accept(c, fd)
      \/ \E p \in Pool : ReleaseTask(p)
  BY DEF Next, vars, ownVars, loopVars, ConnStep, ClientSends, ClientCloses, RecvError, SendResult, SendError,
    Destroy, NotifyNewConnect, MessageStep, OnNewConnect, OnMapDone, PostTask, PoolStep, TakeTask, NotifyMapDone
<1>7. QED
  BY <1>1, <1>2, <1>3, <1>4, <1>5, <1>6

\* All of it holds from the start.
LEMMA OnceInit == Init => OnceInv
<1> SUFFICES ASSUME Init PROVE OnceInv
  OBVIOUS
<1>1. CrossInv
  BY CrossInit
<1>2. AskedOnce
  BY DEF Init, AskedOnce
<1>3. Len(taskQueue) = 0
  BY EmptyQueue DEF Init
<1>4. FreshInMap
  BY <1>3, NoneAssumption DEF Init, Idle, FreshInMap
<1>5. HandlerInMap
  BY DEF Init, HandlerInMap
<1>6. QED
  BY <1>1, <1>2, <1>4, <1>5 DEF OnceInv

\* "Not thread safe, do not operate on an instance in another thread": when
\* clients ask once, as BenchmarkTest does, no pool thread destroys a connection
\* while the loop is in its handler, for any number of clients and threads.
THEOREM OneRequestKeepsHandler ==
  ASSUME MaxRequests = 1
  PROVE  Spec => []HandlerOnLiveObject
<1>1. OnceInv => HandlerOnLiveObject
  BY DEF OnceInv, HandlerInMap, HandlerOnLiveObject
<1>2. OnceInv /\ [Next]_vars => OnceInv'
  BY <1>1, CrossStep, AskedOnceStep, FreshStep, HandlerInMapStep DEF OnceInv
<1>3. QED
  BY <1>1, <1>2, OnceInit, PTL DEF Spec

\* When clients ask once no result is counted for another client, without any
\* further condition, for any number of clients and threads.
THEOREM OneRequestStaysApart ==
  ASSUME MaxRequests = 1
  PROVE  Spec => []NoCrossTalk
BY OneRequestKeepsHandler, ResultsStayApart, PTL

-----------------------------------------------------------------------------
(* Types.  That taskCount_ never goes below zero needs the tasks counted.  *)

\* The tasks of a connection that are queued, that run, and whose result has
\* not been taken.
QueuedOf(c) == {i \in 1 .. Len(taskQueue) : taskQueue[i].conn = c}
RunningOf(c) == {p \in Pool : worker[p].conn = c /\ worker[p].step = "run"}
ResultsOf(c) == {i \in 1 .. Len(mailbox) : mailbox[i].what = "CONNECTION" /\ mailbox[i].from = c}

\* Every task under way has been counted.
Counted ==
  \A c \in Conns :
    /\ taskCount[c] \in Nat
    /\ Cardinality(QueuedOf(c)) + Cardinality(RunningOf(c)) + Cardinality(ResultsOf(c)) <= taskCount[c]

\* Positions of a queue when something is put ...
LEMMA PutPositions ==
  ASSUME NEW n \in Nat, NEW I, I \subseteq 1 .. n, NEW K, K \subseteq 1 .. n + 1,
         \A i \in 1 .. n : i \in K <=> i \in I
  PROVE  /\ Cardinality(I) \in Nat /\ Cardinality(K) \in Nat
         /\ Cardinality(K) = IF n + 1 \in K THEN Cardinality(I) + 1 ELSE Cardinality(I)
<1>1. IsFiniteSet(1 .. n)
  BY FS_Interval
<1>2. IsFiniteSet(I) /\ Cardinality(I) \in Nat
  BY <1>1, FS_Subset, FS_CardinalityType
<1>3. n + 1 \notin I /\ \A k \in 1 .. n + 1 : k \in 1 .. n \/ k = n + 1
  OBVIOUS
<1>4. CASE n + 1 \in K
  <2>1. K = I \cup {n + 1}
    BY <1>3, <1>4
  <2>2. QED
    BY <1>2, <1>3, <1>4, <2>1, FS_AddElement
<1>5. CASE n + 1 \notin K
  <2>1. K = I
    BY <1>3, <1>5
  <2>2. QED
    BY <1>2, <1>5, <2>1
<1>6. QED
  BY <1>4, <1>5

\* ... and when the first element is taken.
LEMMA GetPositions ==
  ASSUME NEW n \in Nat, n >= 1, NEW I, I \subseteq 1 .. n, NEW K, K \subseteq 1 .. n - 1,
         \A i \in 1 .. n - 1 : i \in K <=> i + 1 \in I
  PROVE  /\ Cardinality(I) \in Nat /\ Cardinality(K) \in Nat
         /\ Cardinality(K) <= IF 1 \in I THEN Cardinality(I) - 1 ELSE Cardinality(I)
<1>1. IsFiniteSet(1 .. n)
  BY FS_Interval
<1>2. IsFiniteSet(I) /\ Cardinality(I) \in Nat
  BY <1>1, FS_Subset, FS_CardinalityType
<1>3. PICK L : L = I \ {1}
  OBVIOUS
<1>4. IsFiniteSet(L) /\ Cardinality(L) = IF 1 \in I THEN Cardinality(I) - 1 ELSE Cardinality(I)
  BY <1>2, <1>3, FS_RemoveElement
<1>5. PICK f : f = [i \in L |-> i - 1]
  OBVIOUS
<1>6. \A i \in L : i - 1 \in 1 .. n - 1 /\ (i - 1) + 1 = i
  BY <1>3
<1>7. f \in [L -> K]
  BY <1>3, <1>5, <1>6
<1>8. \A k \in K : k + 1 \in L /\ f[k + 1] = k
  <2>1. ASSUME NEW k \in K PROVE k + 1 \in L /\ f[k + 1] = k
    <3>1. k \in 1 .. n - 1 /\ k + 1 \in I /\ k + 1 # 1
      OBVIOUS
    <3>2. k + 1 \in L /\ (k + 1) - 1 = k
      BY <1>3, <3>1
    <3>3. QED
      BY <1>5, <3>2
  <2>2. QED
    BY <2>1
<1>9. f \in Surjection(L, K)
  BY <1>7, <1>8 DEF Surjection
<1>10. IsFiniteSet(K) /\ Cardinality(K) <= Cardinality(L)
  BY <1>4, <1>9, FS_Surjection
<1>11. Cardinality(K) \in Nat
  BY <1>10, FS_CardinalityType
<1>12. QED
  BY <1>2, <1>4, <1>10, <1>11

\* A message is put: a result is one more of its connection.
LEMMA PutResults ==
  ASSUME CrossInv, NEW c, NEW m, mailbox' = Append(mailbox, m)
  PROVE  /\ Cardinality(ResultsOf(c)) \in Nat /\ Cardinality(ResultsOf(c)') \in Nat
         /\ Cardinality(ResultsOf(c)') =
              IF m.what = "CONNECTION" /\ m.from = c THEN Cardinality(ResultsOf(c)) + 1
              ELSE Cardinality(ResultsOf(c))
<1>1. PICK mb, n, I, K : /\ mb = mailbox' /\ n = Len(mailbox) /\ n \in Nat
                         /\ I = ResultsOf(c) /\ K = ResultsOf(c)'
  <2>1. Len(mailbox) \in Nat
    BY LenSeq DEF CrossInv, Shape
  <2>2. QED
    BY <2>1
<1>2. Len(mb) = n + 1 /\ mb[n + 1] = m /\ \A i \in 1 .. n : mb[i] = mailbox[i]
  BY <1>1, PutSeq DEF CrossInv, Shape
<1>3. I = {i \in 1 .. n : mailbox[i].what = "CONNECTION" /\ mailbox[i].from = c}
  BY <1>1 DEF ResultsOf
<1>4. K = {i \in 1 .. n + 1 : mb[i].what = "CONNECTION" /\ mb[i].from = c}
  BY <1>1, <1>2 DEF ResultsOf
<1>5. I \subseteq 1 .. n /\ K \subseteq 1 .. n + 1 /\ \A i \in 1 .. n : i \in 1 .. n + 1
  BY <1>1, <1>3, <1>4
<1>6. \A i \in 1 .. n : i \in K <=> i \in I
  BY <1>2, <1>3, <1>4, <1>5
<1>7. n + 1 \in K <=> m.what = "CONNECTION" /\ m.from = c
  BY <1>1, <1>2, <1>4
<1>8. /\ Cardinality(I) \in Nat /\ Cardinality(K) \in Nat
      /\ Cardinality(K) = IF n + 1 \in K THEN Cardinality(I) + 1 ELSE Cardinality(I)
  BY <1>1, <1>5, <1>6, PutPositions
<1>9. QED
  BY <1>1, <1>7, <1>8

\* A message is taken: a result is one less of its connection.
LEMMA GetResults ==
  ASSUME CrossInv, NEW c, mailbox # << >>, mailbox' = Tail(mailbox)
  PROVE  /\ Cardinality(ResultsOf(c)) \in Nat /\ Cardinality(ResultsOf(c)') \in Nat
         /\ Cardinality(ResultsOf(c)') <=
              IF Head(mailbox).what = "CONNECTION" /\ Head(mailbox).from = c
              THEN Cardinality(ResultsOf(c)) - 1 ELSE Cardinality(ResultsOf(c))
<1>1. PICK mb, n, I, K : /\ mb = mailbox' /\ n = Len(mailbox) /\ n \in Nat
                         /\ I = ResultsOf(c) /\ K = ResultsOf(c)'
  <2>1. Len(mailbox) \in Nat
    BY LenSeq DEF CrossInv, Shape
  <2>2. QED
    BY <2>1
<1>2. /\ n >= 1 /\ Len(mb) = n - 1 /\ Head(mailbox) = mailbox[1]
      /\ \A i \in 1 .. n - 1 : mb[i] = mailbox[i + 1]
  BY <1>1, GetSeq DEF CrossInv, Shape
<1>3. I = {i \in 1 .. n : mailbox[i].what = "CONNECTION" /\ mailbox[i].from = c}
  BY <1>1 DEF ResultsOf
<1>4. K = {i \in 1 .. n - 1 : mb[i].what = "CONNECTION" /\ mb[i].from = c}
  BY <1>1, <1>2 DEF ResultsOf
<1>5. I \subseteq 1 .. n /\ K \subseteq 1 .. n - 1 /\ \A i \in 1 .. n - 1 : i + 1 \in 1 .. n
  BY <1>1, <1>3, <1>4
<1>6. \A i \in 1 .. n - 1 : i \in K <=> i + 1 \in I
  BY <1>2, <1>3, <1>4, <1>5
<1>7. 1 \in I <=> Head(mailbox).what = "CONNECTION" /\ Head(mailbox).from = c
  BY <1>1, <1>2, <1>3
<1>8. /\ Cardinality(I) \in Nat /\ Cardinality(K) \in Nat
      /\ Cardinality(K) <= IF 1 \in I THEN Cardinality(I) - 1 ELSE Cardinality(I)
  BY <1>1, <1>2, <1>5, <1>6, GetPositions
<1>9. QED
  BY <1>1, <1>7, <1>8

\* A task is posted: one more of its connection.
LEMMA PutQueued ==
  ASSUME CrossInv, NEW c, NEW t, taskQueue' = Append(taskQueue, t)
  PROVE  /\ Cardinality(QueuedOf(c)) \in Nat /\ Cardinality(QueuedOf(c)') \in Nat
         /\ Cardinality(QueuedOf(c)') =
              IF t.conn = c THEN Cardinality(QueuedOf(c)) + 1 ELSE Cardinality(QueuedOf(c))
<1>1. PICK q, n, I, K : /\ q = taskQueue' /\ n = Len(taskQueue) /\ n \in Nat
                        /\ I = QueuedOf(c) /\ K = QueuedOf(c)'
  <2>1. Len(taskQueue) \in Nat
    BY LenSeq DEF CrossInv, Shape
  <2>2. QED
    BY <2>1
<1>2. Len(q) = n + 1 /\ q[n + 1] = t /\ \A i \in 1 .. n : q[i] = taskQueue[i]
  BY <1>1, PutSeq DEF CrossInv, Shape
<1>3. I = {i \in 1 .. n : taskQueue[i].conn = c}
  BY <1>1 DEF QueuedOf
<1>4. K = {i \in 1 .. n + 1 : q[i].conn = c}
  BY <1>1, <1>2 DEF QueuedOf
<1>5. I \subseteq 1 .. n /\ K \subseteq 1 .. n + 1 /\ \A i \in 1 .. n : i \in 1 .. n + 1
  BY <1>1, <1>3, <1>4
<1>6. \A i \in 1 .. n : i \in K <=> i \in I
  BY <1>2, <1>3, <1>4, <1>5
<1>7. n + 1 \in K <=> t.conn = c
  BY <1>1, <1>2, <1>4
<1>8. /\ Cardinality(I) \in Nat /\ Cardinality(K) \in Nat
      /\ Cardinality(K) = IF n + 1 \in K THEN Cardinality(I) + 1 ELSE Cardinality(I)
  BY <1>1, <1>5, <1>6, PutPositions
<1>9. QED
  BY <1>1, <1>7, <1>8

\* A task is taken: one less of its connection.
LEMMA GetQueued ==
  ASSUME CrossInv, NEW c, taskQueue # << >>, taskQueue' = Tail(taskQueue)
  PROVE  /\ Cardinality(QueuedOf(c)) \in Nat /\ Cardinality(QueuedOf(c)') \in Nat
         /\ Cardinality(QueuedOf(c)') <=
              IF Head(taskQueue).conn = c THEN Cardinality(QueuedOf(c)) - 1 ELSE Cardinality(QueuedOf(c))
<1>1. PICK q, n, I, K : /\ q = taskQueue' /\ n = Len(taskQueue) /\ n \in Nat
                        /\ I = QueuedOf(c) /\ K = QueuedOf(c)'
  <2>1. Len(taskQueue) \in Nat
    BY LenSeq DEF CrossInv, Shape
  <2>2. QED
    BY <2>1
<1>2. /\ n >= 1 /\ Len(q) = n - 1 /\ Head(taskQueue) = taskQueue[1]
      /\ \A i \in 1 .. n - 1 : q[i] = taskQueue[i + 1]
  BY <1>1, GetSeq DEF CrossInv, Shape
<1>3. I = {i \in 1 .. n : taskQueue[i].conn = c}
  BY <1>1 DEF QueuedOf
<1>4. K = {i \in 1 .. n - 1 : q[i].conn = c}
  BY <1>1, <1>2 DEF QueuedOf
<1>5. I \subseteq 1 .. n /\ K \subseteq 1 .. n - 1 /\ \A i \in 1 .. n - 1 : i + 1 \in 1 .. n
  BY <1>1, <1>3, <1>4
<1>6. \A i \in 1 .. n - 1 : i \in K <=> i + 1 \in I
  BY <1>2, <1>3, <1>4, <1>5
<1>7. 1 \in I <=> Head(taskQueue).conn = c
  BY <1>1, <1>2, <1>3
<1>8. /\ Cardinality(I) \in Nat /\ Cardinality(K) \in Nat
      /\ Cardinality(K) <= IF 1 \in I THEN Cardinality(I) - 1 ELSE Cardinality(I)
  BY <1>1, <1>2, <1>5, <1>6, GetPositions
<1>9. QED
  BY <1>1, <1>7, <1>8

\* The threads that run tasks of a connection can be counted.
LEMMA RunningFinite ==
  ASSUME NEW c
  PROVE  IsFiniteSet(RunningOf(c)) /\ Cardinality(RunningOf(c)) \in Nat
<1>1. RunningOf(c) \subseteq Pool
  BY DEF RunningOf
<1>2. IsFiniteSet(RunningOf(c))
  BY <1>1, PoolAssumption, FS_Subset
<1>3. QED
  BY <1>2, FS_CardinalityType

\* So can the tasks and the results of a connection in the queues.
LEMMA QueuedFinite ==
  ASSUME CrossInv, NEW c
  PROVE  IsFiniteSet(QueuedOf(c)) /\ Cardinality(QueuedOf(c)) \in Nat
<1>1. Len(taskQueue) \in Nat
  BY LenSeq DEF CrossInv, Shape
<1>2. IsFiniteSet(1 .. Len(taskQueue))
  BY <1>1, FS_Interval
<1>3. QueuedOf(c) \subseteq 1 .. Len(taskQueue)
  BY DEF QueuedOf
<1>4. QED
  BY <1>2, <1>3, FS_Subset, FS_CardinalityType

\* See QueuedFinite.
LEMMA ResultsFinite ==
  ASSUME CrossInv, NEW c
  PROVE  IsFiniteSet(ResultsOf(c)) /\ Cardinality(ResultsOf(c)) \in Nat
<1>1. Len(mailbox) \in Nat
  BY LenSeq DEF CrossInv, Shape
<1>2. IsFiniteSet(1 .. Len(mailbox))
  BY <1>1, FS_Interval
<1>3. ResultsOf(c) \subseteq 1 .. Len(mailbox)
  BY DEF ResultsOf
<1>4. QED
  BY <1>2, <1>3, FS_Subset, FS_CardinalityType

\* A step that counts no task and moves none.
LEMMA CountStays ==
  ASSUME Counted, UNCHANGED <<taskQueue, worker, mailbox, taskCount>>
  PROVE  Counted'
BY DEF Counted, QueuedOf, RunningOf, ResultsOf

\* A task is counted when it is posted.
LEMMA PostTaskCounts ==
  ASSUME CrossInv, Counted, taskCount \in [Conns -> Nat], PostTask
  PROVE  Counted' /\ taskCount' \in [Conns -> Nat]
<1>1. posting \in Conns
  BY DEF PostTask, CrossInv, Shape
<1>2. PICK t : taskQueue' = Append(taskQueue, t) /\ t.conn = posting
  BY DEF PostTask
<1>3. UNCHANGED <<worker, mailbox>> /\ taskCount' = [taskCount EXCEPT ![posting] = taskCount[posting] + 1]
  BY DEF PostTask, mainVars
<1>4. taskCount' \in [Conns -> Nat]
  BY <1>1, <1>3
<1>5. ASSUME NEW c \in Conns
      PROVE  Cardinality(QueuedOf(c)') + Cardinality(RunningOf(c)') + Cardinality(ResultsOf(c)') <= taskCount'[c]
  <2>1. RunningOf(c)' = RunningOf(c) /\ ResultsOf(c)' = ResultsOf(c)
    BY <1>3 DEF RunningOf, ResultsOf
  <2>2. /\ Cardinality(QueuedOf(c)) \in Nat
        /\ Cardinality(QueuedOf(c)') = IF posting = c THEN Cardinality(QueuedOf(c)) + 1 ELSE Cardinality(QueuedOf(c))
    BY <1>2, PutQueued
  <2>3. Cardinality(RunningOf(c)) \in Nat /\ Cardinality(ResultsOf(c)) \in Nat /\ taskCount[c] \in Nat
    BY RunningFinite, ResultsFinite
  <2>4. taskCount'[c] = IF posting = c THEN taskCount[c] + 1 ELSE taskCount[c]
    BY <1>1, <1>3
  <2>5. Cardinality(QueuedOf(c)) + Cardinality(RunningOf(c)) + Cardinality(ResultsOf(c)) <= taskCount[c]
    BY DEF Counted
  <2>6. QED
    BY <2>1, <2>2, <2>3, <2>4, <2>5
<1>6. QED
  BY <1>4, <1>5 DEF Counted

\* A task that is taken runs.
LEMMA TakeTaskCounts ==
  ASSUME CrossInv, Counted, NEW p \in Pool, TakeTask(p)
  PROVE  Counted'
<1>1. /\ taskQueue # << >> /\ taskQueue' = Tail(taskQueue) /\ UNCHANGED <<mailbox, taskCount>>
      /\ worker[p].step = "idle"
  BY DEF TakeTask, mainVars, reduceVars
<1>2. PICK wk, e : wk = worker' /\ e = Head(taskQueue).conn
  OBVIOUS
<1>3. wk[p].conn = e /\ wk[p].step = "run" /\ \A r \in Pool : r # p => wk[r] = worker[r]
  BY <1>2 DEF TakeTask, CrossInv, Shape
<1>4. ASSUME NEW c \in Conns
      PROVE  Cardinality(QueuedOf(c)') + Cardinality(RunningOf(c)') + Cardinality(ResultsOf(c)') <= taskCount[c]
  <2>1. ResultsOf(c)' = ResultsOf(c)
    BY <1>1 DEF ResultsOf
  <2>2. /\ Cardinality(QueuedOf(c)) \in Nat /\ Cardinality(QueuedOf(c)') \in Nat
        /\ Cardinality(QueuedOf(c)') <= IF e = c THEN Cardinality(QueuedOf(c)) - 1 ELSE Cardinality(QueuedOf(c))
    BY <1>1, <1>2, GetQueued
  <2>3. Cardinality(RunningOf(c)) \in Nat /\ Cardinality(ResultsOf(c)) \in Nat /\ taskCount[c] \in Nat
    BY RunningFinite, ResultsFinite DEF Counted
  <2>4. PICK R, S : R = RunningOf(c) /\ S = RunningOf(c)'
    OBVIOUS
  <2>5. p \notin R /\ S = {r \in Pool : wk[r].conn = c /\ wk[r].step = "run"}
    BY <1>1, <1>2, <2>4 DEF RunningOf
  <2>6. S = IF e = c THEN R \cup {p} ELSE R
    <3>1. CASE e = c
      BY <1>3, <2>4, <2>5, <3>1 DEF RunningOf
    <3>2. CASE e # c
      BY <1>3, <2>4, <2>5, <3>2 DEF RunningOf
    <3>3. QED
      BY <3>1, <3>2
  <2>7. Cardinality(S) = IF e = c THEN Cardinality(R) + 1 ELSE Cardinality(R)
    <3>1. IsFiniteSet(R)
      BY <2>4, RunningFinite
    <3>2. Cardinality(R \cup {p}) = Cardinality(R) + 1
      BY <2>5, <3>1, FS_AddElement
    <3>3. QED
      BY <2>6, <3>2
  <2>8. Cardinality(QueuedOf(c)) + Cardinality(RunningOf(c)) + Cardinality(ResultsOf(c)) <= taskCount[c]
    BY DEF Counted
  <2>9. QED
    BY <2>1, <2>2, <2>3, <2>4, <2>7, <2>8
<1>5. \A c \in Conns : taskCount[c] \in Nat
  BY DEF Counted
<1>6. QED
  BY <1>1, <1>4, <1>5 DEF Counted

\* A task that has run leaves its result.
LEMMA NotifyMapDoneCounts ==
  ASSUME CrossInv, Counted, NEW p \in Pool, NotifyMapDone(p)
  PROVE  Counted'
<1>1. PICK wk, e : wk = worker' /\ e = worker[p].conn
  OBVIOUS
<1>2. PICK m : mailbox' = Append(mailbox, m) /\ m.from = e /\ m.what = "CONNECTION"
  BY <1>1 DEF NotifyMapDone
<1>3. UNCHANGED <<taskQueue, taskCount>> /\ worker[p].step = "run"
  BY DEF NotifyMapDone, reduceVars
<1>4. wk[p].step = "release" /\ \A r \in Pool : r # p => wk[r] = worker[r]
  BY <1>1 DEF NotifyMapDone, CrossInv, Shape
<1>5. ASSUME NEW c \in Conns
      PROVE  Cardinality(QueuedOf(c)') + Cardinality(RunningOf(c)') + Cardinality(ResultsOf(c)') <= taskCount[c]
  <2>1. QueuedOf(c)' = QueuedOf(c)
    BY <1>3 DEF QueuedOf
  <2>2. /\ Cardinality(ResultsOf(c)) \in Nat
        /\ Cardinality(ResultsOf(c)') = IF e = c THEN Cardinality(ResultsOf(c)) + 1 ELSE Cardinality(ResultsOf(c))
    BY <1>2, PutResults
  <2>3. Cardinality(RunningOf(c)) \in Nat /\ Cardinality(QueuedOf(c)) \in Nat /\ taskCount[c] \in Nat
    BY RunningFinite, QueuedFinite DEF Counted
  <2>4. PICK R, S : R = RunningOf(c) /\ S = RunningOf(c)'
    OBVIOUS
  <2>5. (p \in R <=> e = c) /\ S = {r \in Pool : wk[r].conn = c /\ wk[r].step = "run"}
    BY <1>1, <1>3, <2>4 DEF RunningOf
  <2>6. S = IF e = c THEN R \ {p} ELSE R
    <3>1. CASE e = c
      BY <1>4, <2>4, <2>5, <3>1 DEF RunningOf
    <3>2. CASE e # c
      BY <1>4, <2>4, <2>5, <3>2 DEF RunningOf
    <3>3. QED
      BY <3>1, <3>2
  <2>7. Cardinality(S) = IF e = c THEN Cardinality(R) - 1 ELSE Cardinality(R)
    <3>1. IsFiniteSet(R)
      BY <2>4, RunningFinite
    <3>2. e = c => Cardinality(R \ {p}) = Cardinality(R) - 1
      BY <2>5, <3>1, FS_RemoveElement
    <3>3. QED
      BY <2>6, <3>2
  <2>8. Cardinality(QueuedOf(c)) + Cardinality(RunningOf(c)) + Cardinality(ResultsOf(c)) <= taskCount[c]
    BY DEF Counted
  <2>9. QED
    BY <2>1, <2>2, <2>3, <2>4, <2>7, <2>8
<1>6. \A c \in Conns : taskCount[c] \in Nat
  BY DEF Counted
<1>7. QED
  BY <1>3, <1>5, <1>6 DEF Counted

\* A thread that lets a task go runs none.
LEMMA ReleaseTaskCounts ==
  ASSUME CrossInv, Counted, NEW p \in Pool, ReleaseTask(p)
  PROVE  Counted'
<1>1. UNCHANGED <<taskQueue, mailbox, taskCount>> /\ worker[p].step = "release"
  BY DEF ReleaseTask, mainVars, reduceVars
<1>2. PICK wk : wk = worker'
  OBVIOUS
<1>3. wk[p].step = "idle" /\ \A r \in Pool : r # p => wk[r] = worker[r]
  BY <1>2 DEF ReleaseTask, Idle, CrossInv, Shape
<1>4. ASSUME NEW c \in Conns PROVE RunningOf(c)' = RunningOf(c)
  <2>1. RunningOf(c)' = {r \in Pool : wk[r].conn = c /\ wk[r].step = "run"}
    BY <1>2 DEF RunningOf
  <2>2. QED
    BY <1>1, <1>3, <2>1 DEF RunningOf
<1>5. \A c \in Conns : QueuedOf(c)' = QueuedOf(c) /\ ResultsOf(c)' = ResultsOf(c)
  BY <1>1 DEF QueuedOf, ResultsOf
<1>6. QED
  BY <1>1, <1>4, <1>5 DEF Counted

\* A result that is taken is counted down for its own connection, or for none.
LEMMA OnMapDoneCounts ==
  ASSUME CrossInv, Counted, taskCount \in [Conns -> Nat], OnMapDone
  PROVE  Counted' /\ taskCount' \in [Conns -> Nat]
<1>1. PICK e, d : e = Head(mailbox).from /\ d = map[Head(mailbox).fd]
  OBVIOUS
<1>2. /\ mailbox # << >> /\ mailbox' = Tail(mailbox) /\ Head(mailbox).what = "CONNECTION"
      /\ UNCHANGED <<taskQueue, worker>>
  BY DEF OnMapDone, poolVars
<1>3. d \in {None, e}
  BY <1>1, <1>2, CrossImplies DEF NoCrossTalk
<1>4. e \in Conns
  <2>1. Head(mailbox) = mailbox[1] /\ 1 \in 1 .. Len(mailbox)
    BY <1>2, GetSeq DEF CrossInv, Shape
  <2>2. QED
    BY <1>1, <2>1 DEF CrossInv, Senders
<1>5. taskCount' = taskCount \/ taskCount' = [taskCount EXCEPT ![e] = taskCount[e] - 1]
  BY <1>1, <1>3 DEF OnMapDone, Reduce, reduceVars
<1>6. ASSUME NEW c \in Conns
      PROVE  /\ Cardinality(QueuedOf(c)') + Cardinality(RunningOf(c)') + Cardinality(ResultsOf(c)') <= taskCount'[c]
             /\ taskCount'[c] \in Nat
  <2>1. QueuedOf(c)' = QueuedOf(c) /\ RunningOf(c)' = RunningOf(c)
    BY <1>2 DEF QueuedOf, RunningOf
  <2>2. /\ Cardinality(ResultsOf(c)) \in Nat /\ Cardinality(ResultsOf(c)') \in Nat
        /\ Cardinality(ResultsOf(c)') <= IF e = c THEN Cardinality(ResultsOf(c)) - 1 ELSE Cardinality(ResultsOf(c))
    BY <1>1, <1>2, GetResults
  <2>3. Cardinality(RunningOf(c)) \in Nat /\ Cardinality(QueuedOf(c)) \in Nat /\ taskCount[c] \in Nat
    BY RunningFinite, QueuedFinite
  <2>4. taskCount'[c] = taskCount[c] \/ (e = c /\ taskCount'[c] = taskCount[c] - 1)
    BY <1>4, <1>5
  <2>5. Cardinality(QueuedOf(c)) + Cardinality(RunningOf(c)) + Cardinality(ResultsOf(c)) <= taskCount[c]
    BY DEF Counted
  <2>6. QED
    BY <2>1, <2>2, <2>3, <2>4, <2>5
<1>7. taskCount' \in [Conns -> Nat]
  BY <1>4, <1>5, <1>6
<1>8. QED
  BY <1>6, <1>7 DEF Counted

\* Other messages are put and taken.
LEMMA NewConnectCounts ==
  ASSUME CrossInv, Counted, UNCHANGED <<taskQueue, worker, taskCount>>,
         \/ \E m : m.what = "NEW_CONNECT" /\ mailbox' = Append(mailbox, m)
         \/ mailbox # << >> /\ mailbox' = Tail(mailbox)
  PROVE  Counted'
<1>1. ASSUME NEW c \in Conns
      PROVE  Cardinality(QueuedOf(c)') + Cardinality(RunningOf(c)') + Cardinality(ResultsOf(c)') <= taskCount[c]
  <2>1. QueuedOf(c)' = QueuedOf(c) /\ RunningOf(c)' = RunningOf(c)
    BY DEF QueuedOf, RunningOf
  <2>2. /\ Cardinality(ResultsOf(c)) \in Nat /\ Cardinality(ResultsOf(c)') \in Nat
        /\ Cardinality(ResultsOf(c)') <= Cardinality(ResultsOf(c))
    <3>1. CASE mailbox # << >> /\ mailbox' = Tail(mailbox)
      BY <3>1, GetResults
    <3>2. ASSUME NEW m, m.what = "NEW_CONNECT", mailbox' = Append(mailbox, m)
          PROVE  /\ Cardinality(ResultsOf(c)) \in Nat /\ Cardinality(ResultsOf(c)') \in Nat
                 /\ Cardinality(ResultsOf(c)') <= Cardinality(ResultsOf(c))
      BY <3>2, PutResults
    <3>3. QED
      BY <3>1, <3>2
  <2>3. Cardinality(RunningOf(c)) \in Nat /\ Cardinality(QueuedOf(c)) \in Nat /\ taskCount[c] \in Nat
    BY RunningFinite, QueuedFinite DEF Counted
  <2>4. Cardinality(QueuedOf(c)) + Cardinality(RunningOf(c)) + Cardinality(ResultsOf(c)) <= taskCount[c]
    BY DEF Counted
  <2>5. QED
    BY <2>1, <2>2, <2>3, <2>4
<1>2. \A c \in Conns : taskCount[c] \in Nat
  BY DEF Counted
<1>3. QED
  BY <1>1, <1>2 DEF Counted

\* What the type invariant says beyond CrossInv.
FlagTypes ==
  readEvent \in [Conns -> BOOLEAN] /\ writeEvent \in [Conns -> BOOLEAN] /\ firstCome \in [Conns -> BOOLEAN]

RestTypes ==
  /\ freedBy \in [Conns -> {None, "loop", "pool"}]
  /\ taskCount \in [Conns -> Nat]
  /\ Len(taskQueue) <= TaskQueueCapacity /\ Len(mailbox) <= MailboxCapacity

\* A Boolean field of one connection is written.
LEMMA SetFlag ==
  ASSUME NEW f \in [Conns -> BOOLEAN], NEW c, NEW v \in BOOLEAN
  PROVE  [f EXCEPT ![c] = v] \in [Conns -> BOOLEAN]
OBVIOUS

\* The events and firstCome_ stay Boolean.
LEMMA FlagStep == FlagTypes /\ [Next]_vars => FlagTypes'
<1> SUFFICES ASSUME FlagTypes, [Next]_vars PROVE FlagTypes'
  OBVIOUS
<1> USE DEF FlagTypes
<1>1. ASSUME UNCHANGED <<readEvent, writeEvent, firstCome>> PROVE FlagTypes'
  BY <1>1
<1>2. ASSUME NEW c, NEW fired, Destroy(c, fired) PROVE FlagTypes'
  <2>1. PICK v \in BOOLEAN : readEvent' = [readEvent EXCEPT ![c] = v]
    BY <1>2 DEF Destroy
  <2>2. PICK u \in BOOLEAN : writeEvent' = [writeEvent EXCEPT ![c] = u]
    BY <1>2 DEF Destroy
  <2>3. firstCome' = firstCome
    BY <1>2 DEF Destroy, reduceVars
  <2>4. QED
    BY <2>1, <2>2, <2>3, SetFlag
<1>3. ASSUME NEW p \in Pool, ReleaseTask(p) PROVE FlagTypes'
  <2>1. PICK v \in BOOLEAN : readEvent' = [readEvent EXCEPT ![worker[p].conn] = v]
    BY <1>3 DEF ReleaseTask
  <2>2. PICK u \in BOOLEAN : writeEvent' = [writeEvent EXCEPT ![worker[p].conn] = u]
    BY <1>3 DEF ReleaseTask
  <2>3. firstCome' = firstCome
    BY <1>3 DEF ReleaseTask, reduceVars
  <2>4. QED
    BY <2>1, <2>2, <2>3, SetFlag
<1>4. CASE OnNewConnect
  <2>1. PICK v \in BOOLEAN : readEvent' = [readEvent EXCEPT ![Head(mailbox).from] = v]
    BY <1>4 DEF OnNewConnect
  <2>2. UNCHANGED <<writeEvent, firstCome>>
    BY <1>4 DEF OnNewConnect, reduceVars
  <2>3. QED
    BY <2>1, <2>2, SetFlag
<1>5. CASE OnMapDone
  <2>1. readEvent' = readEvent
    BY <1>5 DEF OnMapDone
  <2>2. CASE UNCHANGED <<writeEvent, firstCome>>
    BY <1>1, <2>1, <2>2
  <2>3. ASSUME NEW c, NEW num, Reduce(c, num) PROVE FlagTypes'
    <3>1. firstCome' = [firstCome EXCEPT ![c] = FALSE]
      BY <2>3 DEF Reduce
    <3>2. writeEvent' = writeEvent \/ writeEvent' = [writeEvent EXCEPT ![c] = TRUE]
      BY <2>3 DEF Reduce
    <3>3. QED
      BY <2>1, <3>1, <3>2, SetFlag
  <2>4. QED
    BY <1>5, <2>2, <2>3 DEF OnMapDone, reduceVars
<1>6. CASE PostTask
  <2>1. readEvent' = readEvent \/ readEvent' = [readEvent EXCEPT ![posting] = TRUE]
    BY <1>6 DEF PostTask
  <2>2. UNCHANGED <<writeEvent, firstCome>>
    BY <1>6 DEF PostTask
  <2>3. QED
    BY <2>1, <2>2, SetFlag
<1>7. ASSUME NEW c \in Conns, RecvRequest(c) \/ SendResult(c) PROVE FlagTypes'
  <2>1. firstCome' = firstCome
    BY <1>7 DEF RecvRequest, SendResult, reduceVars
  <2>2. readEvent' = readEvent \/ readEvent' = [readEvent EXCEPT ![c] = FALSE]
    BY <1>7 DEF RecvRequest, SendResult
  <2>3. writeEvent' = writeEvent \/ writeEvent' = [writeEvent EXCEPT ![c] = FALSE]
    BY <1>7 DEF RecvRequest, SendResult
  <2>4. QED
    BY <2>1, <2>2, <2>3, SetFlag
<1>8. CASE UNCHANGED vars
  BY <1>1, <1>8 DEF vars, eventVars, reduceVars
<1>9. ASSUME NEW c \in Conns, RecvError(c) \/ SendError(c) PROVE FlagTypes'
  BY <1>2, <1>9 DEF RecvError, SendError
<1>10. ASSUME NEW c \in Conns, \/ \E files \in Requests : ClientSends(c, files)
                               \/ ClientCloses(c) \/ \E fd \in Fds : Accept(c, fd)
       PROVE  FlagTypes'
  BY <1>1, <1>10 DEF ClientSends, ClientCloses, Accept, eventVars, reduceVars
<1>11. CASE NotifyNewConnect
  BY <1>1, <1>11 DEF NotifyNewConnect, eventVars, reduceVars
<1>12. ASSUME NEW p \in Pool, TakeTask(p) \/ NotifyMapDone(p) PROVE FlagTypes'
  BY <1>1, <1>12 DEF TakeTask, NotifyMapDone, eventVars, reduceVars
<1>13. QED
  BY <1>3, <1>4, <1>5, <1>6, <1>7, <1>8, <1>9, <1>10, <1>11, <1>12 DEF Next, ConnStep, MessageStep, PoolStep

\* The queues keep their limits.
LEMMA LimitsStep ==
  ASSUME CrossInv, RestTypes, [Next]_vars
  PROVE  Len(taskQueue') <= TaskQueueCapacity /\ Len(mailbox') <= MailboxCapacity
<1>1. Len(taskQueue) \in Nat /\ Len(mailbox) \in Nat /\ IsSeq(taskQueue) /\ IsSeq(mailbox)
  BY LenSeq DEF CrossInv, Shape
<1>2. Len(taskQueue) <= TaskQueueCapacity /\ Len(mailbox) <= MailboxCapacity
  BY DEF RestTypes
<1>3. /\ \A m : Len(Append(mailbox, m)) = Len(mailbox) + 1 /\ Len(Append(taskQueue, m)) = Len(taskQueue) + 1
      /\ mailbox # << >> => Len(Tail(mailbox)) = Len(mailbox) - 1
      /\ taskQueue # << >> => Len(Tail(taskQueue)) = Len(taskQueue) - 1
  BY <1>1, PutSeq, GetSeq
<1>4. \/ mailbox' = mailbox
      \/ Len(mailbox) < MailboxCapacity /\ \E m : mailbox' = Append(mailbox, m)
      \/ mailbox # << >> /\ mailbox' = Tail(mailbox)
  BY ZenonT(60) DEF Next, vars, mainVars, ConnStep, ClientSends, ClientCloses, Accept, RecvRequest, RecvError, SendResult,
    SendError, Destroy, NotifyNewConnect, MessageStep, OnNewConnect, OnMapDone, PostTask, PoolStep, TakeTask,
    NotifyMapDone, ReleaseTask
<1>5. \/ taskQueue' = taskQueue
      \/ Len(taskQueue) < TaskQueueCapacity /\ \E t : taskQueue' = Append(taskQueue, t)
      \/ taskQueue # << >> /\ taskQueue' = Tail(taskQueue)
  BY ZenonT(60) DEF Next, vars, poolVars, ConnStep, ClientSends, ClientCloses, Accept, RecvRequest, RecvError, SendResult,
    SendError, Destroy, NotifyNewConnect, MessageStep, OnNewConnect, OnMapDone, PostTask, PoolStep, TakeTask,
    NotifyMapDone, ReleaseTask
<1>6. QED
  BY <1>1, <1>2, <1>3, <1>4, <1>5, CapacityAssumption

\* The rest of the types, with the count of the tasks.
LEMMA RestStep ==
  ASSUME CrossInv, Counted, RestTypes, [Next]_vars
  PROVE  Counted' /\ RestTypes'
<1>1. freedBy' \in [Conns -> {None, "loop", "pool"}]
  <2>1. freedBy \in [Conns -> {None, "loop", "pool"}]
    BY DEF RestTypes
  <2>2. freedBy' = freedBy \/ \E c, t : t \in {"loop", "pool"} /\ freedBy' = [freedBy EXCEPT ![c] = t]
    <3>1. ASSUME NEW c, NEW fired, Destroy(c, fired)
          PROVE  freedBy' = freedBy \/ freedBy' = [freedBy EXCEPT ![c] = "loop"]
      BY <2>1, <3>1 DEF Destroy
    <3>2. ASSUME OnNewConnect
          PROVE  freedBy' = freedBy \/ \E c : freedBy' = [freedBy EXCEPT ![c] = "loop"]
      BY <2>1, <3>2 DEF OnNewConnect
    <3>3. ASSUME NEW p \in Pool, ReleaseTask(p)
          PROVE  freedBy' = freedBy \/ \E c : freedBy' = [freedBy EXCEPT ![c] = "pool"]
      BY <2>1, <3>3 DEF ReleaseTask
    <3>4. \/ freedBy' = freedBy \/ OnNewConnect \/ \E c, fired : Destroy(c, fired)
          \/ \E p \in Pool : ReleaseTask(p)
      BY DEF Next, vars, ownVars, ConnStep, ClientSends, ClientCloses, Accept, RecvRequest, RecvError, SendResult,
        SendError, NotifyNewConnect, MessageStep, OnMapDone, PostTask, PoolStep, TakeTask, NotifyMapDone
    <3>5. QED
      BY <3>1, <3>2, <3>3, <3>4
  <2>3. QED
    BY <2>1, <2>2
<1>2. taskCount \in [Conns -> Nat]
  BY DEF RestTypes
<1>3. Counted' /\ taskCount' \in [Conns -> Nat]
  <2>1. CASE UNCHANGED <<taskQueue, worker, mailbox, taskCount>>
    BY <1>2, <2>1, CountStays
  <2>2. CASE NotifyNewConnect
    <3>1. /\ UNCHANGED <<taskQueue, worker, taskCount>>
          /\ \E m : m.what = "NEW_CONNECT" /\ mailbox' = Append(mailbox, m)
      BY <2>2 DEF NotifyNewConnect, poolVars, reduceVars
    <3>2. QED
      BY <1>2, <3>1, NewConnectCounts
  <2>3. CASE OnNewConnect
    <3>1. UNCHANGED <<taskQueue, worker, taskCount>> /\ mailbox # << >> /\ mailbox' = Tail(mailbox)
      BY <2>3 DEF OnNewConnect, poolVars, reduceVars
    <3>2. QED
      BY <1>2, <3>1, NewConnectCounts
  <2>4. CASE OnMapDone
    BY <1>2, <2>4, OnMapDoneCounts
  <2>5. CASE PostTask
    BY <1>2, <2>5, PostTaskCounts
  <2>6. ASSUME NEW p \in Pool, PoolStep(p) PROVE Counted' /\ taskCount' \in [Conns -> Nat]
    <3>1. taskCount' = taskCount
      BY <2>6 DEF PoolStep, TakeTask, NotifyMapDone, ReleaseTask, reduceVars
    <3>2. QED
      BY <1>2, <2>6, <3>1, TakeTaskCounts, NotifyMapDoneCounts, ReleaseTaskCounts DEF PoolStep
  <2>7. \/ UNCHANGED <<taskQueue, worker, mailbox, taskCount>> \/ NotifyNewConnect \/ OnNewConnect
        \/ OnMapDone \/ PostTask \/ \E p \in Pool : PoolStep(p)
    BY DEF Next, vars, poolVars, mainVars, reduceVars, ConnStep, ClientSends, ClientCloses, Accept, RecvRequest,
      RecvError, SendResult, SendError, Destroy, MessageStep
  <2>8. QED
    BY <2>1, <2>2, <2>3, <2>4, <2>5, <2>6, <2>7
<1>4. QED
  BY <1>1, <1>3, LimitsStep DEF RestTypes

\* Nothing is posted or counted at first.
LEMMA RestInit == Init => Counted /\ RestTypes /\ FlagTypes
<1> SUFFICES ASSUME Init PROVE Counted /\ RestTypes /\ FlagTypes
  OBVIOUS
<1>1. Len(taskQueue) = 0 /\ Len(mailbox) = 0
  BY EmptyQueue DEF Init
<1>2. ASSUME NEW c \in Conns
      PROVE  Cardinality(QueuedOf(c)) + Cardinality(RunningOf(c)) + Cardinality(ResultsOf(c)) <= taskCount[c]
  <2>1. QueuedOf(c) = {} /\ ResultsOf(c) = {}
    BY <1>1 DEF QueuedOf, ResultsOf
  <2>2. RunningOf(c) = {}
    BY DEF Init, Idle, RunningOf
  <2>3. taskCount[c] = 0
    BY DEF Init
  <2>4. QED
    BY <2>1, <2>2, <2>3, FS_EmptySet
<1>3. Counted
  BY <1>2 DEF Counted, Init
<1>4. RestTypes
  BY <1>1, CapacityAssumption DEF RestTypes, Init
<1>5. FlagTypes
  BY DEF FlagTypes, Init
<1>6. QED
  BY <1>3, <1>4, <1>5

\* taskCount_ never goes below zero: no result is counted that was not posted
\* for this connection, and both queues keep their limits, in every behaviour
\* in which no pool thread destroys a connection under its handler.
THEOREM CountsAreRight == Spec /\ []HandlerOnLiveObject => []TypeOK
<1>1. CrossInv /\ RestTypes /\ FlagTypes => TypeOK
  BY DEF CrossInv, Shape, RestTypes, FlagTypes, TypeOK
<1>2. Init => CrossInv /\ Counted /\ RestTypes /\ FlagTypes
  BY CrossInit, RestInit
<1>3. HandlerOnLiveObject /\ (CrossInv /\ Counted /\ RestTypes /\ FlagTypes) /\ [Next]_vars
      => (CrossInv /\ Counted /\ RestTypes /\ FlagTypes)'
  BY CrossStep, RestStep, FlagStep
<1>4. QED
  BY <1>1, <1>2, <1>3, PTL DEF Spec

\* The same without any condition when clients ask once.
THEOREM OneRequestCounts ==
  ASSUME MaxRequests = 1
  PROVE  Spec => []TypeOK
BY OneRequestKeepsHandler, CountsAreRight, PTL

-----------------------------------------------------------------------------
(* The larger number of two, folded over a file                            *)

\* m is the largest number of a set.
Largest(m, S) == m \in S /\ \A x \in S : x <= m

\* Induction, without an operator as a parameter: a nonempty set of natural
\* numbers has a least element, so a set with 0 and successors has them all.
LEMMA UpTo ==
  ASSUME NEW n \in Nat, NEW T, 0 \in T, \A k \in 1 .. n : k - 1 \in T => k \in T
  PROVE  \A k \in 0 .. n : k \in T
<1> SUFFICES ASSUME NEW bad \in 0 .. n, bad \notin T PROVE FALSE
  OBVIOUS
<1>1. PICK B : B = {k \in 0 .. n : k \notin T}
  OBVIOUS
<1>2. IsWellFoundedOn(OpToRel(<, Nat), Nat)
  BY NatLessThanWellFounded
<1>3. B \subseteq Nat /\ B # {}
  BY <1>1
<1>4. PICK k \in B : \A y \in B : ~ (<<y, k>> \in OpToRel(<, Nat))
  BY <1>2, <1>3, WFMin
<1>5. \A y \in B : ~ (y < k)
  BY <1>3, <1>4 DEF OpToRel
<1>6. k \in 1 .. n
  <2>1. k \in 0 .. n /\ k \notin T
    BY <1>1, <1>4
  <2>2. k # 0
    BY <2>1
  <2>3. QED
    BY <2>1, <2>2
<1>7. k - 1 \in T
  BY <1>1, <1>5, <1>6
<1>8. QED
  BY <1>1, <1>4, <1>6, <1>7

\* Positions have a last one.
LEMMA LastPosition ==
  ASSUME NEW n \in Nat, NEW s, s \subseteq 1 .. n, s # {}
  PROVE  Max(s) \in s /\ \A y \in s : y <= Max(s)
<1>1. PICK T : T = {k \in Nat : \A t \in SUBSET (1 .. k) : t # {} => \E x \in t : \A y \in t : x >= y}
  OBVIOUS
<1>2. 0 \in T
  <2>1. 1 .. 0 = {}
    OBVIOUS
  <2>2. QED
    BY <1>1, <2>1
<1>3. ASSUME NEW k \in 1 .. n, k - 1 \in T PROVE k \in T
  <2>1. ASSUME NEW t \in SUBSET (1 .. k), t # {} PROVE \E x \in t : \A y \in t : x >= y
    <3>1. CASE k \in t
      BY <3>1
    <3>2. CASE k \notin t
      <4>1. t \in SUBSET (1 .. k - 1)
        BY <3>2
      <4>2. QED
        BY <1>1, <1>3, <2>1, <4>1
    <3>3. QED
      BY <3>1, <3>2
  <2>2. QED
    BY <1>1, <2>1
<1>4. n \in T
  BY <1>2, <1>3, UpTo
<1>5. \E x \in s : \A y \in s : x >= y
  BY <1>1, <1>4
<1>6. Max(s) \in s /\ \A y \in s : Max(s) >= y
  BY <1>5 DEF Max
<1>7. QED
  BY <1>6

\* What a fold of ReduceTwo satisfies.
FoldEquation(g, base, seq) ==
  g = [s \in SUBSET DOMAIN seq |->
         IF s = {} THEN base ELSE ReduceTwo(g[s \ {Max(s)}], seq[Max(s)])]

\* The numbers that have been folded.
Folded(base, seq, s) == {base} \cup {seq[i] : i \in s}

\* One more number is folded.
LEMMA ReduceLargest ==
  ASSUME NEW S, S \subseteq Int, NEW m, Largest(m, S), NEW x \in Int
  PROVE  Largest(ReduceTwo(m, x), S \cup {x})
BY DEF Largest, ReduceTwo

\* A set of numbers has one largest number.
LEMMA LargestIsUnique ==
  ASSUME NEW S, S \subseteq Int, NEW m, NEW k, Largest(m, S), Largest(k, S)
  PROVE  m = k
BY DEF Largest

\* The numbers at some positions, and the base, have a largest.
LEMMA FoldedHasLargest ==
  ASSUME NEW base \in Int, NEW seq \in Seq(Int), NEW s, s \subseteq DOMAIN seq
  PROVE  \E m : Largest(m, Folded(base, seq, s))
<1>0. PICK n \in Nat : n = Len(seq) /\ DOMAIN seq = 1 .. n
  OBVIOUS
<1>1. PICK T : T = {k \in 0 .. n : \A t \in SUBSET (1 .. k) : \E m : Largest(m, Folded(base, seq, t))}
  OBVIOUS
<1>2. 0 \in T
  <2>1. 1 .. 0 = {}
    OBVIOUS
  <2>2. Largest(base, Folded(base, seq, {}))
    BY DEF Largest, Folded
  <2>3. \A t \in SUBSET (1 .. 0) : t = {}
    BY <2>1
  <2>4. \A t \in SUBSET (1 .. 0) : \E m : Largest(m, Folded(base, seq, t))
    BY <2>2, <2>3
  <2>5. QED
    BY <1>1, <2>4
<1>3. ASSUME NEW k \in 1 .. n, k - 1 \in T PROVE k \in T
  <2>1. ASSUME NEW t \in SUBSET (1 .. k) PROVE \E m : Largest(m, Folded(base, seq, t))
    <3>1. t \ {k} \in SUBSET (1 .. k - 1)
      OBVIOUS
    <3>2. PICK m : Largest(m, Folded(base, seq, t \ {k}))
      BY <1>1, <1>3, <3>1
    <3>3. CASE k \notin t
      <4>1. t \ {k} = t
        BY <3>3
      <4>2. QED
        BY <3>2, <4>1
    <3>4. CASE k \in t
      <4>1. Folded(base, seq, t) = Folded(base, seq, t \ {k}) \cup {seq[k]}
        BY <3>4 DEF Folded
      <4>2. Folded(base, seq, t \ {k}) \subseteq Int /\ seq[k] \in Int
        BY <1>0, <3>1 DEF Folded
      <4>3. QED
        <5>1. PICK S : S = Folded(base, seq, t \ {k})
          OBVIOUS
        <5>2. Largest(ReduceTwo(m, seq[k]), S \cup {seq[k]})
          BY <3>2, <4>2, <5>1, ReduceLargest
        <5>3. QED
          BY <4>1, <5>1, <5>2
    <3>5. QED
      BY <3>3, <3>4
  <2>2. QED
    BY <1>1, <2>1
<1>4. n \in T
  <2>1. \A k \in 1 .. n : k - 1 \in T => k \in T
    BY <1>3
  <2>2. \A k \in 0 .. n : k \in T
    BY <1>2, <2>1, UpTo
  <2>3. QED
    BY <2>2
<1>5. QED
  BY <1>0, <1>1, <1>4

\* FoldLeft is a function that satisfies the equation, at all positions.
LEMMA FoldIsSolution ==
  ASSUME NEW base \in Int, NEW seq \in Seq(Int)
  PROVE  \E g : FoldEquation(g, base, seq) /\ FoldLeft(ReduceTwo, base, seq) = g[DOMAIN seq]
<1>0. PICK n \in Nat : n = Len(seq) /\ DOMAIN seq = 1 .. n
  OBVIOUS
<1>1. PICK h : h = [s \in SUBSET DOMAIN seq |-> CHOOSE m : Largest(m, Folded(base, seq, s))]
  OBVIOUS
<1>2. ASSUME NEW s \in SUBSET DOMAIN seq
      PROVE  Largest(h[s], Folded(base, seq, s)) /\ Folded(base, seq, s) \subseteq Int
  <2>1. \E m : Largest(m, Folded(base, seq, s))
    BY FoldedHasLargest
  <2>2. Largest(CHOOSE m : Largest(m, Folded(base, seq, s)), Folded(base, seq, s))
    BY <2>1
  <2>3. Folded(base, seq, s) \subseteq Int
    BY <1>0 DEF Folded
  <2>4. QED
    BY <1>1, <2>2, <2>3
<1>3. ASSUME NEW s \in SUBSET DOMAIN seq
      PROVE  h[s] = IF s = {} THEN base ELSE ReduceTwo(h[s \ {Max(s)}], seq[Max(s)])
  <2>1. CASE s = {}
    <3>1. Largest(base, Folded(base, seq, s))
      BY <2>1 DEF Largest, Folded
    <3>2. h[s] = base
      BY <1>2, <3>1, LargestIsUnique
    <3>3. QED
      BY <2>1, <3>2
  <2>2. CASE s # {}
    <3>1. PICK k : k = Max(s)
      OBVIOUS
    <3>2. k \in s
      BY <1>0, <2>2, <3>1, LastPosition
    <3>3. s \ {k} \in SUBSET DOMAIN seq /\ seq[k] \in Int
      BY <1>0, <3>2
    <3>4. Folded(base, seq, s) = Folded(base, seq, s \ {k}) \cup {seq[k]}
      BY <3>2 DEF Folded
    <3>5. Largest(ReduceTwo(h[s \ {k}], seq[k]), Folded(base, seq, s))
      <4>1. PICK S : S = Folded(base, seq, s \ {k})
        OBVIOUS
      <4>2. Largest(ReduceTwo(h[s \ {k}], seq[k]), S \cup {seq[k]})
        BY <1>2, <3>3, <4>1, ReduceLargest
      <4>3. QED
        BY <3>4, <4>1, <4>2
    <3>6. h[s] = ReduceTwo(h[s \ {k}], seq[k])
      BY <1>2, <3>5, LargestIsUnique
    <3>7. QED
      BY <2>2, <3>1, <3>6
  <2>3. QED
    BY <2>1, <2>2
<1>4. FoldEquation(h, base, seq)
  BY <1>1, <1>3 DEF FoldEquation
<1>5. FoldEquation(CHOOSE g : FoldEquation(g, base, seq), base, seq)
  BY <1>4
<1>6. FoldLeft(ReduceTwo, base, seq) = (CHOOSE g : FoldEquation(g, base, seq))[DOMAIN seq]
  BY Zenon DEF FoldLeft, MapThenFoldSet, FoldEquation
<1>7. QED
  BY <1>5, <1>6

\* Folding ReduceTwo over a file, in whatever order its numbers stand, gives
\* the largest of the numbers and the base.
LEMMA FoldIsLargest ==
  ASSUME NEW base \in Int, NEW seq \in Seq(Int)
  PROVE  Largest(FoldLeft(ReduceTwo, base, seq), {base} \cup ToSet(seq))
<1>0. PICK n \in Nat : n = Len(seq) /\ DOMAIN seq = 1 .. n
  OBVIOUS
<1>1. PICK g : FoldEquation(g, base, seq) /\ FoldLeft(ReduceTwo, base, seq) = g[DOMAIN seq]
  BY FoldIsSolution
<1>2. \A s \in SUBSET DOMAIN seq :
        g[s] = IF s = {} THEN base ELSE ReduceTwo(g[s \ {Max(s)}], seq[Max(s)])
  BY <1>1 DEF FoldEquation
<1>3. PICK T : T = {k \in 0 .. n : Largest(g[1 .. k], Folded(base, seq, 1 .. k))}
  OBVIOUS
<1>4. 0 \in T
  <2>1. 1 .. 0 = {}
    OBVIOUS
  <2>2. g[{}] = base
    BY <1>2
  <2>3. Largest(base, Folded(base, seq, {}))
    BY DEF Largest, Folded
  <2>4. QED
    BY <1>3, <2>1, <2>2, <2>3
<1>5. ASSUME NEW k \in 1 .. n, k - 1 \in T PROVE k \in T
  <2>1. k \in Nat /\ k - 1 \in 0 .. n /\ 1 .. k \subseteq 1 .. n /\ k \in 1 .. k
    BY <1>0
  <2>2. Max(1 .. k) = k
    <3>1. Max(1 .. k) \in 1 .. k /\ \A y \in 1 .. k : y <= Max(1 .. k)
      BY <2>1, LastPosition
    <3>2. QED
      BY <2>1, <3>1
  <2>3. (1 .. k) \ {k} = 1 .. k - 1
    BY <2>1
  <2>4. g[1 .. k] = ReduceTwo(g[1 .. k - 1], seq[k])
    BY <1>0, <1>2, <2>1, <2>2, <2>3
  <2>5. Largest(g[1 .. k - 1], Folded(base, seq, 1 .. k - 1))
    BY <1>3, <1>5, <2>1
  <2>6. Folded(base, seq, 1 .. k - 1) \subseteq Int /\ seq[k] \in Int
    BY <1>0, <2>1 DEF Folded
  <2>7. Folded(base, seq, 1 .. k) = Folded(base, seq, 1 .. k - 1) \cup {seq[k]}
    BY <2>1 DEF Folded
  <2>8. QED
    <3>1. PICK S : S = Folded(base, seq, 1 .. k - 1)
      OBVIOUS
    <3>2. Largest(ReduceTwo(g[1 .. k - 1], seq[k]), S \cup {seq[k]})
      BY <2>5, <2>6, <3>1, ReduceLargest
    <3>3. Largest(g[1 .. k], Folded(base, seq, 1 .. k))
      BY <2>4, <2>7, <3>1, <3>2
    <3>4. QED
      BY <1>3, <3>3
<1>6. n \in T
  <2>1. \A k \in 1 .. n : k - 1 \in T => k \in T
    BY <1>5
  <2>2. \A k \in 0 .. n : k \in T
    BY <1>4, <2>1, UpTo
  <2>3. QED
    BY <2>2
<1>7. Largest(g[DOMAIN seq], Folded(base, seq, 1 .. n))
  BY <1>0, <1>3, <1>6
<1>8. QED
  BY <1>0, <1>1, <1>7 DEF Folded, ToSet

\* What the flattening of the first n files satisfies.
FlattenEquation(g, files, n) ==
  g = [i \in 1 .. n |-> IF i = 1 THEN files[i] ELSE g[i - 1] \o files[i]]

\* The recursion over the files has a solution, which FlattenSeq takes.
LEMMA FlattenIsSolution ==
  ASSUME NEW files, NEW n \in Nat \ {0}, Len(files) = n
  PROVE  \E g : FlattenEquation(g, files, n) /\ FlattenSeq(files) = g[n]
<1>1. PICK T : T = {k \in 0 .. n : \E g : FlattenEquation(g, files, k)}
  OBVIOUS
<1>2. 0 \in T
  <2>1. PICK g : g = [i \in 1 .. 0 |-> 0]
    OBVIOUS
  <2>2. g = [i \in 1 .. 0 |-> IF i = 1 THEN files[i] ELSE g[i - 1] \o files[i]]
    BY <2>1
  <2>3. FlattenEquation(g, files, 0)
    BY <2>2 DEF FlattenEquation
  <2>4. QED
    BY <1>1, <2>3
<1>3. ASSUME NEW k \in 1 .. n, k - 1 \in T PROVE k \in T
  <2>1. PICK g : g = [i \in 1 .. k - 1 |-> IF i = 1 THEN files[i] ELSE g[i - 1] \o files[i]]
    BY <1>1, <1>3 DEF FlattenEquation
  <2>2. PICK last : last = IF k = 1 THEN files[k] ELSE g[k - 1] \o files[k]
    OBVIOUS
  <2>3. PICK h : h = [i \in 1 .. k |-> IF i = k THEN last ELSE g[i]]
    OBVIOUS
  <2>4. ASSUME NEW i \in 1 .. k
        PROVE  h[i] = IF i = 1 THEN files[i] ELSE h[i - 1] \o files[i]
    <3>1. i # 1 => h[i - 1] = g[i - 1]
      BY <2>3
    <3>2. CASE i = k
      BY <2>2, <2>3, <3>1, <3>2
    <3>3. CASE i # k
      <4>1. i \in 1 .. k - 1
        BY <3>3
      <4>2. h[i] = g[i] /\ g[i] = IF i = 1 THEN files[i] ELSE g[i - 1] \o files[i]
        BY <2>1, <2>3, <3>3, <4>1
      <4>3. QED
        BY <3>1, <4>2
    <3>4. QED
      BY <3>2, <3>3
  <2>5. FlattenEquation(h, files, k)
    BY <2>3, <2>4 DEF FlattenEquation
  <2>6. QED
    BY <1>1, <2>5
<1>4. \E g : FlattenEquation(g, files, n)
  <2>1. \A k \in 1 .. n : k - 1 \in T => k \in T
    BY <1>3
  <2>2. \A k \in 0 .. n : k \in T
    BY <1>2, <2>1, UpTo
  <2>3. n \in T
    BY <2>2
  <2>4. QED
    BY <1>1, <2>3
<1>5. FlattenEquation(CHOOSE g : FlattenEquation(g, files, n), files, n)
  BY <1>4
<1>6. FlattenSeq(files) = (CHOOSE g : FlattenEquation(g, files, Len(files)))[Len(files)]
  <2>1. Len(files) # 0
    OBVIOUS
  <2>2. QED
    BY <2>1, Zenon DEF FlattenSeq, FlattenEquation
<1>7. QED
  BY <1>5, <1>6

\* The numbers of two files after each other.
LEMMA ConcatNumbers ==
  ASSUME NEW s \in Seq(Int), NEW t \in Seq(Int)
  PROVE  s \o t \in Seq(Int) /\ ToSet(s \o t) = ToSet(s) \cup ToSet(t)
<1>1. /\ s \o t \in Seq(Int) /\ Len(s \o t) = Len(s) + Len(t) /\ Len(s) \in Nat /\ Len(t) \in Nat
      /\ \A i \in 1 .. Len(s) + Len(t) : (s \o t)[i] = IF i <= Len(s) THEN s[i] ELSE t[i - Len(s)]
  BY ConcatProperties
<1>2. PICK u, m, n : u = s \o t /\ m = Len(s) /\ n = Len(t)
  OBVIOUS
<1>3. /\ m \in Nat /\ n \in Nat
      /\ DOMAIN s = 1 .. m /\ DOMAIN t = 1 .. n /\ DOMAIN u = 1 .. m + n
      /\ \A i \in 1 .. m + n : u[i] = IF i <= m THEN s[i] ELSE t[i - m]
  BY <1>1, <1>2
<1>4. ASSUME NEW i \in 1 .. m + n PROVE u[i] \in ToSet(s) \cup ToSet(t)
  <2>1. CASE i <= m
    <3>1. i \in 1 .. m /\ u[i] = s[i]
      BY <1>3, <2>1
    <3>2. QED
      BY <1>3, <3>1 DEF ToSet
  <2>2. CASE ~(i <= m)
    <3>1. i - m \in 1 .. n /\ u[i] = t[i - m]
      BY <1>3, <2>2
    <3>2. QED
      BY <1>3, <3>1 DEF ToSet
  <2>3. QED
    BY <2>1, <2>2
<1>5. ASSUME NEW i \in 1 .. m PROVE s[i] \in ToSet(u)
  <2>1. i \in 1 .. m + n /\ u[i] = s[i]
    BY <1>3
  <2>2. QED
    BY <1>3, <2>1 DEF ToSet
<1>6. ASSUME NEW i \in 1 .. n PROVE t[i] \in ToSet(u)
  <2>1. i + m \in 1 .. m + n /\ ~(i + m <= m) /\ (i + m) - m = i
    BY <1>3
  <2>2. u[i + m] = t[i]
    BY <1>3, <2>1
  <2>3. QED
    BY <1>3, <2>1, <2>2 DEF ToSet
<1>7. ToSet(u) = ToSet(s) \cup ToSet(t)
  <2>1. /\ ToSet(u) = {u[i] : i \in 1 .. m + n}
        /\ ToSet(s) = {s[i] : i \in 1 .. m} /\ ToSet(t) = {t[i] : i \in 1 .. n}
    BY <1>3 DEF ToSet
  <2>2. ToSet(u) \subseteq ToSet(s) \cup ToSet(t)
    BY <1>4, <2>1
  <2>3. ToSet(s) \subseteq ToSet(u) /\ ToSet(t) \subseteq ToSet(u)
    BY <1>5, <1>6, <2>1
  <2>4. QED
    BY <2>2, <2>3
<1>8. QED
  BY <1>1, <1>2, <1>7

\* All numbers of the first n files.
NumbersUpTo(files, n) == UNION {ToSet(files[j]) : j \in 1 .. n}

\* Flattening keeps all numbers and adds none.
LEMMA FlattenNumbers ==
  ASSUME NEW files \in Seq(Seq(Int)), files # << >>
  PROVE  /\ FlattenSeq(files) \in Seq(Int)
         /\ ToSet(FlattenSeq(files)) = NumbersUpTo(files, Len(files))
<1>1. PICK n \in Nat \ {0} : n = Len(files)
  OBVIOUS
<1>2. \A i \in 1 .. n : files[i] \in Seq(Int)
  BY <1>1
<1>3. PICK g : FlattenEquation(g, files, n) /\ FlattenSeq(files) = g[n]
  BY <1>1, FlattenIsSolution
<1>4. \A i \in 1 .. n : g[i] = IF i = 1 THEN files[i] ELSE g[i - 1] \o files[i]
  BY <1>3 DEF FlattenEquation
<1>5. PICK T : T = {k \in 0 .. n : k = 0 \/ (g[k] \in Seq(Int) /\ ToSet(g[k]) = NumbersUpTo(files, k))}
  OBVIOUS
<1>6. 0 \in T
  BY <1>1, <1>5
<1>7. ASSUME NEW k \in 1 .. n, k - 1 \in T PROVE k \in T
  <2>1. NumbersUpTo(files, k) = NumbersUpTo(files, k - 1) \cup ToSet(files[k])
    <3>1. 1 .. k = (1 .. k - 1) \cup {k}
      OBVIOUS
    <3>2. QED
      BY <3>1 DEF NumbersUpTo
  <2>2. CASE k = 1
    <3>1. NumbersUpTo(files, 0) = {}
      BY DEF NumbersUpTo
    <3>2. g[k] = files[k] /\ files[k] \in Seq(Int)
      BY <1>2, <1>4, <2>2
    <3>3. ToSet(g[k]) = NumbersUpTo(files, k)
      BY <2>1, <2>2, <3>1, <3>2
    <3>4. QED
      BY <1>5, <3>2, <3>3
  <2>3. CASE k # 1
    <3>1. g[k - 1] \in Seq(Int) /\ ToSet(g[k - 1]) = NumbersUpTo(files, k - 1)
      BY <1>5, <1>7, <2>3
    <3>2. g[k] = g[k - 1] \o files[k] /\ files[k] \in Seq(Int)
      BY <1>2, <1>4, <2>3
    <3>3. g[k] \in Seq(Int) /\ ToSet(g[k]) = ToSet(g[k - 1]) \cup ToSet(files[k])
      BY <3>1, <3>2, ConcatNumbers
    <3>4. ToSet(g[k]) = NumbersUpTo(files, k)
      BY <2>1, <3>1, <3>3
    <3>5. QED
      BY <1>5, <3>3, <3>4
  <2>4. QED
    BY <2>2, <2>3
<1>8. n \in T
  <2>1. \A k \in 1 .. n : k - 1 \in T => k \in T
    BY <1>7
  <2>2. \A k \in 0 .. n : k \in T
    BY <1>1, <1>6, <2>1, UpTo
  <2>3. QED
    BY <1>1, <2>2
<1>9. QED
  BY <1>1, <1>3, <1>5, <1>8

\* What mapFunction and BenchmarkTest compute from files that are not empty.
Files == Seq(Int) \ {<< >>}

\* mapFunction sends the largest number of its file.
LEMMA MapFunctionIsLargest ==
  ASSUME NEW file \in Files, NEW num \in MapFunction(file)
  PROVE  Largest(num, ToSet(file)) /\ ToSet(file) \subseteq Int
<1>1. file \in Seq(Int) /\ file # << >> /\ 1 \in 1 .. Len(file)
  BY DEF Files
<1>2. file[1] \in Int /\ file[1] \in ToSet(file)
  BY <1>1 DEF ToSet
<1>3. Largest(FoldLeft(ReduceTwo, file[1], file), {file[1]} \cup ToSet(file))
  BY <1>1, <1>2, FoldIsLargest
<1>4. {file[1]} \cup ToSet(file) = ToSet(file)
  BY <1>2
<1>5. num = FoldLeft(ReduceTwo, file[1], file)
  BY <1>1, Zenon DEF MapFunction
<1>6. ToSet(file) \subseteq Int
  BY <1>1 DEF ToSet
<1>7. QED
  BY <1>3, <1>4, <1>5, <1>6

\* BenchmarkTest computes the largest number of all the files.
LEMMA SerialMaxIsLargest ==
  ASSUME NEW files \in Seq(Files), files # << >>
  PROVE  /\ Largest(SerialMax(files), NumbersUpTo(files, Len(files)))
         /\ NumbersUpTo(files, Len(files)) \subseteq Int
<1>1. files \in Seq(Seq(Int)) /\ 1 \in 1 .. Len(files) /\ files[1] \in Files
  BY DEF Files
<1>2. PICK all, base, S : /\ all = FlattenSeq(files) /\ base = files[1][1]
                          /\ S = NumbersUpTo(files, Len(files))
  OBVIOUS
<1>3. all \in Seq(Int) /\ ToSet(all) = S
  BY <1>1, <1>2, FlattenNumbers
<1>4. base \in Int /\ base \in ToSet(files[1]) /\ files[1] # << >>
  BY <1>1, <1>2 DEF Files, ToSet
<1>5. base \in S
  BY <1>1, <1>2, <1>4 DEF NumbersUpTo
<1>6. Largest(FoldLeft(ReduceTwo, base, all), {base} \cup ToSet(all))
  BY <1>3, <1>4, FoldIsLargest
<1>7. {base} \cup ToSet(all) = S
  BY <1>3, <1>5
<1>8. SerialMax(files) = FoldLeft(ReduceTwo, base, all)
  BY <1>2, <1>4, Zenon DEF SerialMax
<1>9. S \subseteq Int
  BY <1>3 DEF ToSet
<1>10. QED
  BY <1>2, <1>6, <1>7, <1>8, <1>9

-----------------------------------------------------------------------------
(* The right answer                                                        *)

\* The tasks that are queued or run, each with its connection and its file,
\* and the results that have not been taken.
OpenTasks ==
  {<<t.conn, t.file>> : t \in ToSet(taskQueue)}
    \cup {<<worker[p].conn, worker[p].file>> : p \in {q \in Pool : worker[q].step = "run"}}

Results == {m \in ToSet(mailbox) : m.what = "CONNECTION"}

\* What the client that has asked computes on its own.
Wanted(c) == SerialMax(asked[c][1])

OwnFile(c, file) == file \in Files /\ \A x \in ToSet(file) : x <= Wanted(c)

NumberTypes ==
  curMaxNum \in [Conns -> Int] /\ result \in [Conns -> Int] /\ answers \in [Conns -> Seq(Int)]

\* Nothing has happened for a client whose request has not been read.
CleanStart ==
  \A c \in Conns :
    /\ object[c] \in {"none", "accepted"} => Unserved(c)
    /\ Unserved(c) => taskCount[c] = 0 /\ firstCome[c] /\ answers[c] = << >> /\ ~writeEvent[c]

\* No number under way exceeds what its client wants.
Bounded ==
  /\ \A c \in Conns : posting = c =>
       todo \in Seq(Files) /\ todo # << >> /\ \A f \in ToSet(todo) : OwnFile(c, f)
  /\ \A t \in OpenTasks : OwnFile(t[1], t[2])
  /\ \A m \in Results : m.num \in Int /\ m.num <= Wanted(m.from)
  /\ \A c \in Conns : ~firstCome[c] => curMaxNum[c] <= Wanted(c)

\* The wanted number is somewhere: in a file to be posted, in an open task, in
\* a result, or it is the maximum so far.
Kept(c) ==
  \/ posting = c /\ \E f \in ToSet(todo) : Wanted(c) \in ToSet(f)
  \/ \E t \in OpenTasks : t[1] = c /\ Wanted(c) \in ToSet(t[2])
  \/ \E m \in Results : m.from = c /\ m.num = Wanted(c)
  \/ ~firstCome[c] /\ curMaxNum[c] = Wanted(c)

NothingLost == \A c \in Conns : ~Unserved(c) /\ map[fdOf[c]] = c => Kept(c)

\* Nothing is answered while tasks are counted, and then what is wanted.
Sent ==
  \A c \in Conns :
    /\ taskCount[c] > 0 \/ posting = c => answers[c] = << >> /\ ~writeEvent[c]
    /\ writeEvent[c] => result[c] = Wanted(c) /\ answers[c] = << >>
    /\ answers[c] # << >> => answers[c] = << Wanted(c) >>

AnswerInv == NumberTypes /\ CleanStart /\ Bounded /\ NothingLost /\ Sent

ServerInv == OnceInv /\ Counted /\ RestTypes /\ FlagTypes

\* What is in a queue after a put ...
LEMMA PutToSet ==
  ASSUME NEW s, IsSeq(s), NEW m
  PROVE  ToSet(Append(s, m)) = ToSet(s) \cup {m}
<1>1. PICK S : s \in Seq(S)
  BY DEF IsSeq
<1>2. s \in Seq(S \cup {m})
  BY <1>1
<1>3. PICK n \in Nat : n = Len(s) /\ DOMAIN s = 1 .. n
  BY <1>2
<1>4. PICK u : u = Append(s, m)
  OBVIOUS
<1>5. DOMAIN u = 1 .. n + 1 /\ u[n + 1] = m /\ \A i \in 1 .. n : u[i] = s[i]
  BY <1>2, <1>3, <1>4
<1>6. QED
  BY <1>3, <1>4, <1>5 DEF ToSet

\* ... and before a get.
LEMMA GetToSet ==
  ASSUME NEW s, IsSeq(s), s # << >>
  PROVE  ToSet(s) = {Head(s)} \cup ToSet(Tail(s))
<1>1. PICK S : s \in Seq(S)
  BY DEF IsSeq
<1>2. PICK n \in Nat : n = Len(s) /\ DOMAIN s = 1 .. n /\ n >= 1
  BY <1>1
<1>3. PICK u : u = Tail(s)
  OBVIOUS
<1>4. DOMAIN u = 1 .. n - 1 /\ Head(s) = s[1] /\ \A i \in 1 .. n - 1 : u[i] = s[i + 1]
  BY <1>1, <1>2, <1>3
<1>5. \A i \in 1 .. n : i = 1 \/ (i - 1 \in 1 .. n - 1 /\ s[i] = u[i - 1])
  BY <1>2, <1>4
<1>6. \A i \in 1 .. n - 1 : i + 1 \in 1 .. n /\ 1 \in 1 .. n
  BY <1>2
<1>7. ToSet(s) \subseteq {Head(s)} \cup ToSet(u)
  BY <1>2, <1>4, <1>5 DEF ToSet
<1>8. {Head(s)} \cup ToSet(u) \subseteq ToSet(s)
  BY <1>2, <1>4, <1>6 DEF ToSet
<1>9. QED
  BY <1>3, <1>7, <1>8

\* Whatever is in a queue stands at a position of it.
LEMMA ToSetPosition ==
  ASSUME NEW s, IsSeq(s), NEW m \in ToSet(s)
  PROVE  \E i \in 1 .. Len(s) : s[i] = m
<1>1. PICK S : s \in Seq(S)
  BY DEF IsSeq
<1>2. QED
  BY <1>1 DEF ToSet

\* Tasks and results belong to clients.
LEMMA OpenTaskOwner ==
  ASSUME CrossInv, NEW t \in OpenTasks
  PROVE  /\ t[1] \in Conns
         /\ \/ \E i \in 1 .. Len(taskQueue) : taskQueue[i].conn = t[1]
            \/ \E p \in Pool : worker[p].conn = t[1] /\ worker[p].step = "run"
<1>1. CASE \E e \in ToSet(taskQueue) : t = <<e.conn, e.file>>
  <2>1. PICK e \in ToSet(taskQueue) : t = <<e.conn, e.file>>
    BY <1>1
  <2>2. PICK i \in 1 .. Len(taskQueue) : taskQueue[i] = e
    BY ToSetPosition DEF CrossInv, Shape
  <2>3. taskQueue[i].conn \in Conns
    BY DEF CrossInv, TasksHold
  <2>4. QED
    BY <2>1, <2>2, <2>3
<1>2. CASE \E p \in Pool : worker[p].step = "run" /\ t = <<worker[p].conn, worker[p].file>>
  <2>1. PICK p \in Pool : worker[p].step = "run" /\ t = <<worker[p].conn, worker[p].file>>
    BY <1>2
  <2>2. worker[p].conn \in Conns
    BY <2>1 DEF CrossInv, TasksHold
  <2>3. QED
    BY <2>1, <2>2
<1>3. QED
  BY <1>1, <1>2 DEF OpenTasks

\* See OpenTaskOwner.
LEMMA ResultOwner ==
  ASSUME CrossInv, NEW m \in Results
  PROVE  m.from \in Conns /\ \E i \in ResultsOf(m.from) : mailbox[i] = m
<1>1. m \in ToSet(mailbox) /\ m.what = "CONNECTION"
  BY DEF Results
<1>2. PICK i \in 1 .. Len(mailbox) : mailbox[i] = m
  BY <1>1, ToSetPosition DEF CrossInv, Shape
<1>3. QED
  BY <1>1, <1>2 DEF CrossInv, Senders, ResultsOf

\* A result in the mailbox is still counted.
LEMMA ResultIsCounted ==
  ASSUME CrossInv, Counted, NEW m \in Results
  PROVE  taskCount[m.from] >= 1
<1>1. PICK c \in Conns : c = m.from
  BY ResultOwner
<1>2. ResultsOf(c) # {}
  BY <1>1, ResultOwner
<1>3. IsFiniteSet(ResultsOf(c))
  BY ResultsFinite
<1>4. Cardinality(ResultsOf(c)) \in Nat /\ Cardinality(ResultsOf(c)) # 0
  BY <1>2, <1>3, FS_CardinalityType, FS_EmptySet
<1>5. Cardinality(RunningOf(c)) \in Nat /\ Cardinality(QueuedOf(c)) \in Nat /\ taskCount[c] \in Nat
  BY RunningFinite, QueuedFinite DEF Counted
<1>6. Cardinality(QueuedOf(c)) + Cardinality(RunningOf(c)) + Cardinality(ResultsOf(c)) <= taskCount[c]
  BY DEF Counted
<1>7. QED
  BY <1>1, <1>4, <1>5, <1>6

\* A client whose request has not been read has nothing under way.
LEMMA UnservedHasNothing ==
  ASSUME ServerInv, CleanStart, NEW c \in Conns, Unserved(c)
  PROVE  /\ posting # c
         /\ \A t \in OpenTasks : t[1] # c
         /\ \A m \in Results : m.from # c
<1>1. CrossInv /\ FreshInMap /\ Counted
  BY DEF ServerInv, OnceInv
<1>2. ASSUME NEW t \in OpenTasks PROVE t[1] # c
  BY <1>1, OpenTaskOwner DEF FreshInMap
<1>3. ASSUME NEW m \in Results PROVE m.from # c
  <2>1. taskCount[m.from] >= 1
    BY <1>1, ResultIsCounted
  <2>2. taskCount[c] = 0
    BY DEF CleanStart
  <2>3. QED
    BY <2>1, <2>2
<1>4. QED
  BY <1>1, <1>2, <1>3 DEF FreshInMap

\* The last result that a connection waits for: no task of it is open, and no
\* other result of it is under way.
LEMMA LastResult ==
  ASSUME CrossInv, Counted, NEW c \in Conns, taskCount[c] = 1,
         mailbox # << >>, Head(mailbox).what = "CONNECTION", Head(mailbox).from = c
  PROVE  /\ \A t \in OpenTasks : t[1] # c
         /\ \A m \in Results : m.from = c => m = Head(mailbox)
<1>1. Head(mailbox) = mailbox[1] /\ 1 \in 1 .. Len(mailbox)
  BY GetSeq DEF CrossInv, Shape
<1>2. 1 \in ResultsOf(c)
  BY <1>1 DEF ResultsOf
<1>3. /\ IsFiniteSet(ResultsOf(c)) /\ Cardinality(ResultsOf(c)) \in Nat
      /\ IsFiniteSet(RunningOf(c)) /\ Cardinality(RunningOf(c)) \in Nat
      /\ IsFiniteSet(QueuedOf(c)) /\ Cardinality(QueuedOf(c)) \in Nat
  BY RunningFinite, QueuedFinite, ResultsFinite
<1>4. Cardinality(QueuedOf(c)) + Cardinality(RunningOf(c)) + Cardinality(ResultsOf(c)) <= 1
  BY DEF Counted
<1>5. Cardinality(ResultsOf(c)) # 0
  BY <1>2, <1>3, FS_EmptySet
<1>6. Cardinality(QueuedOf(c)) = 0 /\ Cardinality(RunningOf(c)) = 0 /\ Cardinality(ResultsOf(c)) = 1
  BY <1>3, <1>4, <1>5
<1>7. QueuedOf(c) = {} /\ RunningOf(c) = {}
  BY <1>3, <1>6, FS_EmptySet
<1>8. ResultsOf(c) = {1}
  BY <1>2, <1>3, <1>6, FS_Singleton
<1>9. ASSUME NEW t \in OpenTasks PROVE t[1] # c
  BY <1>7, OpenTaskOwner DEF QueuedOf, RunningOf
<1>10. ASSUME NEW m \in Results, m.from = c PROVE m = Head(mailbox)
  BY <1>1, <1>8, <1>10, ResultOwner
<1>11. QED
  BY <1>9, <1>10

\* What posting, taking and finishing a task does to the open tasks.
LEMMA PostOpens ==
  ASSUME CrossInv, NEW e, taskQueue' = Append(taskQueue, e), worker' = worker
  PROVE  OpenTasks' = OpenTasks \cup {<<e.conn, e.file>>}
<1>1. ToSet(taskQueue') = ToSet(taskQueue) \cup {e}
  BY PutToSet DEF CrossInv, Shape
<1>2. QED
  BY <1>1 DEF OpenTasks

\* See PostOpens: a task that is taken stays open.
LEMMA TakeKeepsOpen ==
  ASSUME CrossInv, NEW p \in Pool, TakeTask(p)
  PROVE  OpenTasks' = OpenTasks
<1>1. PICK e : e = Head(taskQueue)
  OBVIOUS
<1>2. /\ worker[p].step = "idle" /\ taskQueue # << >> /\ taskQueue' = Tail(taskQueue)
      /\ worker' = [worker EXCEPT ![p] = [conn |-> e.conn, file |-> e.file, step |-> "run"]]
  BY <1>1 DEF TakeTask
<1>3. ToSet(taskQueue) = ToSet(taskQueue') \cup {e}
  BY <1>1, <1>2, GetToSet DEF CrossInv, Shape
<1>4. PICK W, W2 : /\ W = {<<worker[q].conn, worker[q].file>> : q \in {r \in Pool : worker[r].step = "run"}}
                   /\ W2 = {<<worker'[q].conn, worker'[q].file>> : q \in {r \in Pool : worker'[r].step = "run"}}
  OBVIOUS
<1>5. /\ worker'[p].conn = e.conn /\ worker'[p].file = e.file /\ worker'[p].step = "run"
      /\ \A q \in Pool : q # p => worker'[q] = worker[q]
  BY <1>2 DEF CrossInv, Shape
<1>6. W2 = W \cup {<<e.conn, e.file>>}
  <2>1. W2 \subseteq W \cup {<<e.conn, e.file>>}
    BY <1>4, <1>5
  <2>2. W \subseteq W2
    <3>1. ASSUME NEW q \in Pool, worker[q].step = "run" PROVE q # p /\ worker'[q] = worker[q]
      BY <1>2, <1>5, <3>1
    <3>2. QED
      BY <1>4, <3>1
  <2>3. <<e.conn, e.file>> \in W2
    BY <1>4, <1>5
  <2>4. QED
    BY <2>1, <2>2, <2>3
<1>7. PICK Q, Q2 : /\ Q = {<<t.conn, t.file>> : t \in ToSet(taskQueue)}
                   /\ Q2 = {<<t.conn, t.file>> : t \in ToSet(taskQueue')}
  OBVIOUS
<1>8. Q = Q2 \cup {<<e.conn, e.file>>}
  BY <1>3, <1>7
<1>9. OpenTasks = Q \cup W /\ OpenTasks' = Q2 \cup W2
  BY <1>4, <1>7 DEF OpenTasks
<1>10. QED
  BY <1>6, <1>8, <1>9

\* See PostOpens: a task that is finished is open no more.
LEMMA NotifyCloses ==
  ASSUME CrossInv, NEW p \in Pool, NotifyMapDone(p)
  PROVE  /\ <<worker[p].conn, worker[p].file>> \in OpenTasks
         /\ OpenTasks' \subseteq OpenTasks
         /\ OpenTasks \subseteq OpenTasks' \cup {<<worker[p].conn, worker[p].file>>}
<1>1. /\ worker[p].step = "run" /\ taskQueue' = taskQueue
      /\ worker' = [worker EXCEPT ![p].step = "release"]
  BY DEF NotifyMapDone
<1>2. /\ worker'[p].step = "release" /\ \A q \in Pool : q # p => worker'[q] = worker[q]
  BY <1>1 DEF CrossInv, Shape
<1>3. QED
  BY <1>1, <1>2 DEF OpenTasks

\* See PostOpens: clearing runCallback_ closes none.
LEMMA ReleaseKeepsOpen ==
  ASSUME CrossInv, NEW p \in Pool, ReleaseTask(p)
  PROVE  OpenTasks' = OpenTasks
<1>1. /\ worker[p].step = "release" /\ taskQueue' = taskQueue /\ worker' = [worker EXCEPT ![p] = Idle]
  BY DEF ReleaseTask
<1>2. /\ worker'[p].step = "idle" /\ \A q \in Pool : q # p => worker'[q] = worker[q]
  BY <1>1 DEF CrossInv, Shape, Idle
<1>3. \A q \in Pool : worker'[q].step = "run" <=> worker[q].step = "run"
  BY <1>1, <1>2
<1>4. \A q \in Pool : worker[q].step = "run" => worker'[q] = worker[q]
  BY <1>1, <1>2
<1>5. QED
  BY <1>1, <1>3, <1>4 DEF OpenTasks

\* What a put does to the results, and a get.
LEMMA PutResult ==
  ASSUME CrossInv, NEW m, mailbox' = Append(mailbox, m)
  PROVE  Results' = IF m.what = "CONNECTION" THEN Results \cup {m} ELSE Results
<1>1. ToSet(mailbox') = ToSet(mailbox) \cup {m}
  BY PutToSet DEF CrossInv, Shape
<1>2. QED
  BY <1>1 DEF Results

\* See PutResult.
LEMMA GetResult ==
  ASSUME CrossInv, mailbox # << >>, mailbox' = Tail(mailbox)
  PROVE  /\ Results' \subseteq Results
         /\ Results \subseteq Results' \cup {Head(mailbox)}
         /\ Head(mailbox).what # "CONNECTION" => Results' = Results
         /\ Head(mailbox).what = "CONNECTION" => Head(mailbox) \in Results
<1>1. ToSet(mailbox) = {Head(mailbox)} \cup ToSet(mailbox')
  BY GetToSet DEF CrossInv, Shape
<1>2. QED
  BY <1>1 DEF Results

\* A step that touches neither requests, tasks, results nor the reduction:
\* connections come and go, and events are removed.
LEMMA AnswerStays ==
  ASSUME ServerInv, AnswerInv,
         UNCHANGED <<asked, unread, answers, taskCount, firstCome, curMaxNum, result, posting, todo>>,
         OpenTasks' = OpenTasks, Results' = Results,
         \A c \in Conns : writeEvent'[c] => writeEvent[c],
         \A c \in Conns : object'[c] \in {"none", "accepted"} => object[c] \in {"none", "accepted"},
         \A c \in Conns : ~Unserved(c) /\ map'[fdOf'[c]] = c => map[fdOf[c]] = c
  PROVE  AnswerInv'
<1>1. \A c : Wanted(c)' = Wanted(c) /\ (Unserved(c)' <=> Unserved(c))
  BY DEF Wanted, Unserved
<1>2. \A c, f : OwnFile(c, f)' <=> OwnFile(c, f)
  BY <1>1 DEF OwnFile
<1>3. NumberTypes'
  BY DEF AnswerInv, NumberTypes
<1>4. CleanStart'
  BY <1>1 DEF AnswerInv, CleanStart
<1>5. Bounded'
  BY <1>1, <1>2 DEF AnswerInv, Bounded
<1>6. \A c \in Conns : Kept(c) => Kept(c)'
  BY <1>1 DEF Kept
<1>7. NothingLost'
  BY <1>1, <1>6 DEF AnswerInv, NothingLost
<1>8. Sent'
  BY <1>1 DEF AnswerInv, Sent
<1>9. QED
  BY <1>3, <1>4, <1>5, <1>7, <1>8 DEF AnswerInv

\* A client asks; whatever is under way belongs to others.
LEMMA ClientSendsAnswers ==
  ASSUME ServerInv, AnswerInv, MaxRequests = 1,
         NEW c \in Conns, NEW files \in Requests, ClientSends(c, files)
  PROVE  AnswerInv'
<1>0. /\ CrossInv /\ AskedOnce
      /\ NumberTypes /\ CleanStart /\ Bounded /\ NothingLost /\ Sent
  BY DEF ServerInv, OnceInv, AnswerInv
<1>1. asked[c] \in Seq(Requests) /\ Len(asked[c]) < 1
  BY <1>0 DEF AskedOnce, ClientSends
<1>2. Unserved(c)
  BY <1>1 DEF Unserved
<1>3. /\ asked' = [asked EXCEPT ![c] = Append(asked[c], files)]
      /\ unread' = [unread EXCEPT ![c] = Append(unread[c], files)]
      /\ UNCHANGED <<answers, fdOf, object, map, writeEvent, taskCount, firstCome, curMaxNum, result,
                     posting, todo, taskQueue, worker, mailbox>>
  BY DEF ClientSends, ownVars, eventVars, reduceVars, loopVars, poolVars, mainVars
<1>4. Unserved(c)'
  <2>1. unread[c] \in Seq(Requests) /\ unread'[c] = Append(unread[c], files)
    BY <1>0, <1>3 DEF AskedOnce
  <2>2. unread'[c] # << >>
    BY <2>1
  <2>3. QED
    BY <2>2 DEF Unserved
<1>5. \A d \in Conns : d # c => Wanted(d)' = Wanted(d) /\ (Unserved(d)' <=> Unserved(d))
  BY <1>0, <1>3 DEF AskedOnce, Wanted, Unserved
<1>6. \A d \in Conns : \A f : d # c => (OwnFile(d, f)' <=> OwnFile(d, f))
  BY <1>5 DEF OwnFile
<1>7. OpenTasks' = OpenTasks /\ Results' = Results
  BY <1>3 DEF OpenTasks, Results
<1>8. /\ posting # c
      /\ \A t \in OpenTasks : t[1] # c
      /\ \A m \in Results : m.from # c
  BY <1>0, <1>2, UnservedHasNothing
<1>9. /\ \A t \in OpenTasks : t[1] \in Conns
      /\ \A m \in Results : m.from \in Conns
  BY <1>0, OpenTaskOwner, ResultOwner
<1>10. NumberTypes'
  BY <1>0, <1>3 DEF NumberTypes
<1>11. taskCount[c] = 0 /\ firstCome[c] /\ answers[c] = << >> /\ ~writeEvent[c]
  BY <1>0, <1>2 DEF CleanStart
<1>12. CleanStart'
  BY <1>0, <1>3, <1>4, <1>5, <1>11 DEF CleanStart
<1>13. Bounded'
  <2>1. \A d \in Conns : posting = d =>
          todo \in Seq(Files) /\ todo # << >> /\ \A f \in ToSet(todo) : OwnFile(d, f)'
    BY <1>0, <1>6, <1>8 DEF Bounded
  <2>2. \A t \in OpenTasks : OwnFile(t[1], t[2])'
    BY <1>0, <1>6, <1>8, <1>9 DEF Bounded
  <2>3. \A m \in Results : m.num \in Int /\ m.num <= Wanted(m.from)'
    BY <1>0, <1>5, <1>8, <1>9 DEF Bounded
  <2>4. \A d \in Conns : ~firstCome[d] => curMaxNum[d] <= Wanted(d)'
    BY <1>0, <1>5, <1>11 DEF Bounded
  <2>5. QED
    BY <1>3, <1>7, <2>1, <2>2, <2>3, <2>4 DEF Bounded
<1>14. \A d \in Conns : d # c /\ Kept(d) => Kept(d)'
  BY <1>3, <1>5, <1>7 DEF Kept
<1>15. NothingLost'
  BY <1>0, <1>3, <1>4, <1>5, <1>14 DEF NothingLost
<1>16. Sent'
  <2>1. ASSUME NEW d \in Conns
        PROVE  /\ taskCount[d] > 0 \/ posting = d => answers[d] = << >> /\ ~writeEvent[d]
               /\ writeEvent[d] => result[d] = Wanted(d)' /\ answers[d] = << >>
               /\ answers[d] # << >> => answers[d] = << Wanted(d)' >>
    BY <1>0, <1>5, <1>8, <1>11 DEF Sent
  <2>2. QED
    BY <1>3, <2>1 DEF Sent
<1>17. QED
  BY <1>10, <1>12, <1>13, <1>15, <1>16 DEF AnswerInv

\* The request is read: the largest number is in one of its files.
LEMMA RecvRequestAnswers ==
  ASSUME ServerInv, AnswerInv, Requests \subseteq Seq(Files) \ {<< >>},
         NEW c \in Conns, RecvRequest(c)
  PROVE  AnswerInv'
<1>0. /\ CrossInv /\ AskedOnce /\ FreshInMap
      /\ NumberTypes /\ CleanStart /\ Bounded /\ NothingLost /\ Sent
  BY DEF ServerInv, OnceInv, AnswerInv
<1>1. /\ posting = None /\ unread[c] # << >> /\ object[c] = "live"
      /\ unread' = [unread EXCEPT ![c] = Tail(unread[c])]
      /\ posting' = c /\ todo' = Head(unread[c])
      /\ UNCHANGED <<asked, answers, fdOf, object, map, writeEvent, taskCount, firstCome, curMaxNum, result,
                     taskQueue, worker, mailbox>>
  BY DEF RecvRequest, LoopFree, ownVars, reduceVars, poolVars, mainVars
<1>2. unread[c] = asked[c] /\ asked[c] \in Seq(Requests) /\ Len(asked[c]) <= 1
  BY <1>0, <1>1 DEF AskedOnce
<1>3. PICK files : files = asked[c][1]
  OBVIOUS
<1>4. files \in Requests /\ todo' = files /\ Tail(unread[c]) = << >> /\ asked[c] # << >>
  BY <1>1, <1>2, <1>3
<1>5. files \in Seq(Files) /\ files # << >>
  BY <1>4
<1>6. PICK w : w = Wanted(c) /\ Largest(w, NumbersUpTo(files, Len(files)))
  BY <1>3, <1>5, SerialMaxIsLargest DEF Wanted
<1>7. Unserved(c) /\ ~Unserved(c)'
  BY <1>0, <1>1, <1>4 DEF Unserved, AskedOnce
<1>8. /\ \A d : Wanted(d)' = Wanted(d)
      /\ \A d \in Conns : d # c => (Unserved(d)' <=> Unserved(d))
  BY <1>0, <1>1 DEF Wanted, Unserved, AskedOnce
<1>9. \A d, f : OwnFile(d, f)' <=> OwnFile(d, f)
  BY <1>8 DEF OwnFile
<1>10. OpenTasks' = OpenTasks /\ Results' = Results
  BY <1>1 DEF OpenTasks, Results
<1>11. taskCount[c] = 0 /\ firstCome[c] /\ answers[c] = << >> /\ ~writeEvent[c]
  BY <1>0, <1>7 DEF CleanStart
<1>12. \A f \in ToSet(files) : \E j \in 1 .. Len(files) : f = files[j]
  BY <1>5 DEF ToSet
<1>13. \A j \in 1 .. Len(files) : files[j] \in ToSet(files) /\ files[j] \in Files
  BY <1>5 DEF ToSet
<1>14. ASSUME NEW f \in ToSet(files) PROVE OwnFile(c, f)
  <2>1. PICK j \in 1 .. Len(files) : f = files[j]
    BY <1>12
  <2>2. ToSet(f) \subseteq NumbersUpTo(files, Len(files)) /\ f \in Files
    BY <1>13, <2>1 DEF NumbersUpTo
  <2>3. QED
    BY <1>6, <2>2 DEF OwnFile, Largest
<1>15. \E f \in ToSet(files) : w \in ToSet(f)
  <2>1. PICK j \in 1 .. Len(files) : w \in ToSet(files[j])
    BY <1>6 DEF Largest, NumbersUpTo
  <2>2. QED
    BY <1>13, <2>1
<1>16. NumberTypes'
  BY <1>0, <1>1 DEF NumberTypes
<1>17. CleanStart'
  BY <1>0, <1>1, <1>7, <1>8 DEF CleanStart
<1>18. Bounded'
  <2>1. todo' \in Seq(Files) /\ todo' # << >> /\ \A f \in ToSet(todo') : OwnFile(c, f)'
    BY <1>1, <1>4, <1>5, <1>9, <1>14
  <2>2. \A t \in OpenTasks : OwnFile(t[1], t[2])'
    BY <1>0, <1>9 DEF Bounded
  <2>3. QED
    BY <1>0, <1>1, <1>8, <1>10, <2>1, <2>2 DEF Bounded
<1>19. Kept(c)'
  BY <1>1, <1>4, <1>6, <1>8, <1>15 DEF Kept
<1>20. \A d \in Conns : d # c /\ Kept(d) => Kept(d)'
  BY <1>1, <1>8, <1>10, NoneAssumption DEF Kept
<1>21. NothingLost'
  BY <1>0, <1>1, <1>8, <1>19, <1>20 DEF NothingLost
<1>22. Sent'
  BY <1>0, <1>1, <1>8, <1>11 DEF Sent
<1>23. QED
  BY <1>16, <1>17, <1>18, <1>21, <1>22 DEF AnswerInv

\* A file is posted: it is open instead of waiting.
LEMMA PostTaskAnswers ==
  ASSUME ServerInv, AnswerInv, PostTask
  PROVE  AnswerInv'
<1>0. /\ CrossInv /\ FreshInMap /\ Counted /\ taskCount \in [Conns -> Nat]
      /\ NumberTypes /\ CleanStart /\ Bounded /\ NothingLost /\ Sent
  BY DEF ServerInv, OnceInv, RestTypes, AnswerInv
<1>1. PICK c \in Conns : c = posting
  BY <1>0 DEF PostTask, CrossInv, Shape
<1>2. PICK e : e = [conn |-> c, file |-> Head(todo)]
  OBVIOUS
<1>3. /\ taskQueue' = Append(taskQueue, e) /\ todo' = Tail(todo)
      /\ taskCount' = [taskCount EXCEPT ![c] = taskCount[c] + 1]
      /\ \/ Tail(todo) = << >> /\ posting' = None
         \/ Tail(todo) # << >> /\ posting' = posting
      /\ UNCHANGED <<asked, unread, answers, fdOf, object, map, writeEvent, firstCome, curMaxNum, result,
                     worker, mailbox>>
  BY <1>1, <1>2 DEF PostTask, clientVars, ownVars, mainVars
<1>4. todo \in Seq(Files) /\ todo # << >> /\ \A f \in ToSet(todo) : OwnFile(c, f)
  BY <1>0, <1>1 DEF Bounded
<1>5. ToSet(todo) = {Head(todo)} \cup ToSet(todo') /\ todo' \in Seq(Files)
  <2>1. IsSeq(todo)
    BY <1>4 DEF IsSeq
  <2>2. QED
    BY <1>3, <1>4, <2>1, GetToSet
<1>6. OpenTasks' = OpenTasks \cup {<<c, Head(todo)>>} /\ Results' = Results
  <2>1. OpenTasks' = OpenTasks \cup {<<e.conn, e.file>>}
    BY <1>0, <1>3, PostOpens
  <2>2. QED
    BY <1>2, <1>3, <2>1 DEF Results
<1>7. \A d : Wanted(d)' = Wanted(d) /\ (Unserved(d)' <=> Unserved(d))
  BY <1>3 DEF Wanted, Unserved
<1>8. \A d, f : OwnFile(d, f)' <=> OwnFile(d, f)
  BY <1>7 DEF OwnFile
<1>9. ~Unserved(c)
  BY <1>0, <1>1 DEF FreshInMap
<1>10. NumberTypes'
  BY <1>0, <1>3 DEF NumberTypes
<1>11. \A d \in Conns : d # c => taskCount'[d] = taskCount[d]
  BY <1>0, <1>3
<1>12. CleanStart'
  BY <1>0, <1>3, <1>7, <1>9, <1>11 DEF CleanStart
<1>13. Bounded'
  <2>1. \A d \in Conns : posting' = d =>
          todo' \in Seq(Files) /\ todo' # << >> /\ \A f \in ToSet(todo') : OwnFile(d, f)'
    BY <1>1, <1>3, <1>4, <1>5, <1>8, NoneAssumption
  <2>2. OwnFile(c, Head(todo))
    BY <1>4, <1>5
  <2>3. ASSUME NEW t \in OpenTasks' PROVE OwnFile(t[1], t[2])'
    <3>1. CASE t \in OpenTasks
      BY <1>0, <1>8, <3>1 DEF Bounded
    <3>2. CASE t = <<c, Head(todo)>>
      BY <1>8, <2>2, <3>2
    <3>3. QED
      BY <1>6, <3>1, <3>2
  <2>4. QED
    BY <1>0, <1>3, <1>6, <1>7, <2>1, <2>3 DEF Bounded
<1>14. ASSUME NEW d \in Conns, Kept(d) PROVE Kept(d)'
  <2>1. CASE posting = d /\ \E f \in ToSet(todo) : Wanted(d) \in ToSet(f)
    <3>1. PICK f \in ToSet(todo) : Wanted(d) \in ToSet(f)
      BY <2>1
    <3>2. CASE f = Head(todo)
      <4>1. PICK t : t = <<c, Head(todo)>>
        OBVIOUS
      <4>2. t \in OpenTasks' /\ t[1] = d /\ Wanted(d)' \in ToSet(t[2])
        BY <1>1, <1>6, <1>7, <2>1, <3>1, <3>2, <4>1
      <4>3. QED
        BY <4>2 DEF Kept
    <3>3. CASE f \in ToSet(todo')
      <4>1. todo' # << >>
        BY <3>3 DEF ToSet
      <4>2. posting' = d
        BY <1>3, <2>1, <4>1
      <4>3. QED
        BY <1>7, <3>1, <3>3, <4>2 DEF Kept
    <3>4. QED
      BY <1>5, <3>2, <3>3
  <2>2. CASE ~(posting = d /\ \E f \in ToSet(todo) : Wanted(d) \in ToSet(f))
    BY <1>3, <1>6, <1>7, <1>14, <2>2 DEF Kept
  <2>3. QED
    BY <2>1, <2>2
<1>15. NothingLost'
  BY <1>0, <1>3, <1>7, <1>14 DEF NothingLost
<1>16. Sent'
  BY <1>0, <1>1, <1>3, <1>7, <1>11, NoneAssumption DEF Sent
<1>17. QED
  BY <1>10, <1>12, <1>13, <1>15, <1>16 DEF AnswerInv

\* mapFunction sends the largest number of its file, which is the wanted one
\* if the file has it.
LEMMA NotifyMapDoneAnswers ==
  ASSUME ServerInv, AnswerInv, NEW p \in Pool, NotifyMapDone(p)
  PROVE  AnswerInv'
<1>0. /\ CrossInv
      /\ NumberTypes /\ CleanStart /\ Bounded /\ NothingLost /\ Sent
  BY DEF ServerInv, OnceInv, AnswerInv
<1>1. PICK c, file : c = worker[p].conn /\ file = worker[p].file
  OBVIOUS
<1>2. PICK num \in MapFunction(file) :
         mailbox' = Append(mailbox, [what |-> "CONNECTION", fd |-> fdOf[c], num |-> num, from |-> c])
  BY <1>1 DEF NotifyMapDone
<1>3. PICK m : m = [what |-> "CONNECTION", fd |-> fdOf[c], num |-> num, from |-> c]
  OBVIOUS
<1>4. UNCHANGED <<asked, unread, answers, fdOf, object, map, writeEvent, taskCount, firstCome, curMaxNum,
                  result, posting, todo>>
  BY DEF NotifyMapDone, clientVars, ownVars, eventVars, reduceVars, loopVars
<1>5. /\ <<c, file>> \in OpenTasks /\ OpenTasks' \subseteq OpenTasks
      /\ OpenTasks \subseteq OpenTasks' \cup {<<c, file>>}
  BY <1>0, <1>1, NotifyCloses
<1>6. Results' = Results \cup {m} /\ m.num = num /\ m.from = c
  BY <1>0, <1>2, <1>3, PutResult
<1>7. OwnFile(c, file)
  BY <1>0, <1>5 DEF Bounded
<1>8. Largest(num, ToSet(file)) /\ ToSet(file) \subseteq Int
  BY <1>2, <1>7, MapFunctionIsLargest DEF OwnFile
<1>9. num \in Int /\ num <= Wanted(c) /\ (Wanted(c) \in ToSet(file) => num = Wanted(c))
  BY <1>7, <1>8 DEF OwnFile, Largest
<1>10. \A d : Wanted(d)' = Wanted(d) /\ (Unserved(d)' <=> Unserved(d))
  BY <1>4 DEF Wanted, Unserved
<1>11. \A d, f : OwnFile(d, f)' <=> OwnFile(d, f)
  BY <1>10 DEF OwnFile
<1>12. NumberTypes' /\ CleanStart' /\ Sent'
  BY <1>0, <1>4, <1>10 DEF NumberTypes, CleanStart, Sent
<1>13. Bounded'
  <2>1. \A t \in OpenTasks' : OwnFile(t[1], t[2])'
    BY <1>0, <1>5, <1>11 DEF Bounded
  <2>2. \A r \in Results' : r.num \in Int /\ r.num <= Wanted(r.from)
    BY <1>0, <1>6, <1>9 DEF Bounded
  <2>3. \A d \in Conns : posting' = d =>
          todo' \in Seq(Files) /\ todo' # << >> /\ \A f \in ToSet(todo') : OwnFile(d, f)'
    BY <1>0, <1>4, <1>11 DEF Bounded
  <2>4. QED
    BY <1>0, <1>4, <1>10, <2>1, <2>2, <2>3 DEF Bounded
<1>14. ASSUME NEW d \in Conns, Kept(d) PROVE Kept(d)'
  <2>1. CASE \E t \in OpenTasks : t[1] = d /\ Wanted(d) \in ToSet(t[2])
    <3>1. PICK t \in OpenTasks : t[1] = d /\ Wanted(d) \in ToSet(t[2])
      BY <2>1
    <3>2. CASE t \in OpenTasks'
      BY <1>10, <3>1, <3>2 DEF Kept
    <3>3. CASE t = <<c, file>>
      <4>1. m \in Results' /\ m.from = d /\ m.num = Wanted(d)'
        BY <1>6, <1>9, <1>10, <3>1, <3>3
      <4>2. QED
        BY <4>1 DEF Kept
    <3>4. QED
      BY <1>5, <3>2, <3>3
  <2>2. CASE ~(\E t \in OpenTasks : t[1] = d /\ Wanted(d) \in ToSet(t[2]))
    BY <1>4, <1>6, <1>10, <1>14, <2>2 DEF Kept
  <2>3. QED
    BY <2>1, <2>2
<1>15. NothingLost'
  BY <1>0, <1>4, <1>10, <1>14 DEF NothingLost
<1>16. QED
  BY <1>12, <1>13, <1>15 DEF AnswerInv

\* The result is sent once, and is the wanted one.
LEMMA SendResultAnswers ==
  ASSUME ServerInv, AnswerInv, NEW c \in Conns, SendResult(c)
  PROVE  AnswerInv'
<1>0. /\ FlagTypes /\ NumberTypes /\ CleanStart /\ Bounded /\ NothingLost /\ Sent
  BY DEF ServerInv, AnswerInv
<1>1. /\ writeEvent[c] /\ writeEvent' = [writeEvent EXCEPT ![c] = FALSE]
      /\ answers' = IF peer[c] = "connected" THEN [answers EXCEPT ![c] = Append(answers[c], result[c])] ELSE answers
      /\ UNCHANGED <<asked, unread, fdOf, object, map, taskCount, firstCome, curMaxNum, result, posting, todo,
                     taskQueue, worker, mailbox>>
  BY DEF SendResult, ownVars, reduceVars, loopVars, poolVars, mainVars
<1>2. /\ result[c] = Wanted(c) /\ answers[c] = << >> /\ result[c] \in Int
      /\ ~(taskCount[c] > 0 \/ posting = c) /\ ~Unserved(c)
  BY <1>0, <1>1 DEF Sent, CleanStart, NumberTypes
<1>3. \A d : Wanted(d)' = Wanted(d) /\ (Unserved(d)' <=> Unserved(d))
  BY <1>1 DEF Wanted, Unserved
<1>4. \A d, f : OwnFile(d, f)' <=> OwnFile(d, f)
  BY <1>3 DEF OwnFile
<1>5. OpenTasks' = OpenTasks /\ Results' = Results
  BY <1>1 DEF OpenTasks, Results
<1>6. Append(answers[c], result[c]) = << Wanted(c) >> /\ << Wanted(c) >> \in Seq(Int)
  BY <1>2
<1>7. /\ answers' \in [Conns -> Seq(Int)] /\ answers'[c] \in {<< >>, << Wanted(c) >>}
      /\ \A d \in Conns : d # c => answers'[d] = answers[d] /\ writeEvent'[d] = writeEvent[d]
      /\ ~writeEvent'[c]
  BY <1>0, <1>1, <1>2, <1>6 DEF NumberTypes, FlagTypes
<1>8. NumberTypes'
  BY <1>0, <1>1, <1>7 DEF NumberTypes
<1>9. CleanStart'
  BY <1>0, <1>1, <1>2, <1>3, <1>7 DEF CleanStart
<1>10. Bounded'
  BY <1>0, <1>1, <1>3, <1>4, <1>5 DEF Bounded
<1>11. \A d \in Conns : Kept(d) => Kept(d)'
  BY <1>1, <1>3, <1>5 DEF Kept
<1>12. NothingLost'
  BY <1>0, <1>1, <1>3, <1>11 DEF NothingLost
<1>13. Sent'
  <2>1. ASSUME NEW d \in Conns
        PROVE  /\ taskCount[d] > 0 \/ posting = d => answers'[d] = << >> /\ ~writeEvent'[d]
               /\ writeEvent'[d] => result[d] = Wanted(d) /\ answers'[d] = << >>
               /\ answers'[d] # << >> => answers'[d] = << Wanted(d) >>
    BY <1>0, <1>2, <1>7 DEF Sent
  <2>2. QED
    BY <1>1, <1>3, <2>1 DEF Sent
<1>14. QED
  BY <1>8, <1>9, <1>10, <1>12, <1>13 DEF AnswerInv

\* The result of a connection that is not in the map is dropped.
LEMMA DropAnswers ==
  ASSUME ServerInv, AnswerInv, NEW e \in Conns, map[fdOf[e]] # e,
         mailbox # << >>, mailbox' = Tail(mailbox), Head(mailbox).from = e,
         UNCHANGED <<asked, unread, answers, fdOf, object, map, writeEvent, taskCount, firstCome, curMaxNum,
                     result, posting, todo, taskQueue, worker>>
  PROVE  AnswerInv'
<1>0. /\ CrossInv
      /\ NumberTypes /\ CleanStart /\ Bounded /\ NothingLost /\ Sent
  BY DEF ServerInv, OnceInv, AnswerInv
<1>1. /\ Results' \subseteq Results /\ Results \subseteq Results' \cup {Head(mailbox)}
      /\ OpenTasks' = OpenTasks
  BY <1>0, GetResult DEF OpenTasks
<1>2. \A d : Wanted(d)' = Wanted(d) /\ (Unserved(d)' <=> Unserved(d))
  BY DEF Wanted, Unserved
<1>3. \A d, f : OwnFile(d, f)' <=> OwnFile(d, f)
  BY <1>2 DEF OwnFile
<1>4. NumberTypes' /\ CleanStart' /\ Sent'
  BY <1>0, <1>2 DEF NumberTypes, CleanStart, Sent
<1>5. Bounded'
  BY <1>0, <1>1, <1>2, <1>3 DEF Bounded
<1>6. \A d \in Conns : d # e /\ Kept(d) => Kept(d)'
  BY <1>1, <1>2 DEF Kept
<1>7. NothingLost'
  BY <1>0, <1>2, <1>6 DEF NothingLost
<1>8. QED
  BY <1>4, <1>5, <1>7 DEF AnswerInv

\* A result is reduced: it is the wanted number or leaves it where it was, and
\* with the last result the maximum is the wanted number.
LEMMA ReduceAnswers ==
  ASSUME ServerInv, AnswerInv, NEW e \in Conns, map[fdOf[e]] = e, LoopFree,
         mailbox # << >>, mailbox' = Tail(mailbox),
         Head(mailbox).what = "CONNECTION", Head(mailbox).from = e,
         Reduce(e, Head(mailbox).num),
         UNCHANGED <<asked, unread, answers, fdOf, object, map, posting, todo, taskQueue, worker>>
  PROVE  AnswerInv'
<1>0. /\ CrossInv /\ Counted /\ FlagTypes /\ taskCount \in [Conns -> Nat]
      /\ NumberTypes /\ CleanStart /\ Bounded /\ NothingLost /\ Sent
  BY DEF ServerInv, OnceInv, RestTypes, AnswerInv
<1>1. /\ Results' \subseteq Results /\ Results \subseteq Results' \cup {Head(mailbox)}
      /\ Head(mailbox) \in Results /\ OpenTasks' = OpenTasks
  BY <1>0, GetResult DEF OpenTasks
<1>2. PICK num \in Int : num = Head(mailbox).num /\ num <= Wanted(e)
  BY <1>0, <1>1 DEF Bounded
<1>3. PICK m : m = IF firstCome[e] THEN num ELSE ReduceTwo(curMaxNum[e], num)
  OBVIOUS
<1>4. /\ taskCount' = [taskCount EXCEPT ![e] = taskCount[e] - 1]
      /\ firstCome' = [firstCome EXCEPT ![e] = FALSE]
      /\ curMaxNum' = [curMaxNum EXCEPT ![e] = m]
      /\ result' = IF taskCount[e] - 1 = 0 THEN [result EXCEPT ![e] = m] ELSE result
      /\ writeEvent' = IF taskCount[e] - 1 = 0 THEN [writeEvent EXCEPT ![e] = TRUE] ELSE writeEvent
  BY <1>2, <1>3 DEF Reduce
<1>5. taskCount[e] >= 1 /\ taskCount[e] \in Nat
  BY <1>0, <1>1, ResultIsCounted
<1>6. ~Unserved(e) /\ answers[e] = << >> /\ ~writeEvent[e]
  BY <1>0, <1>5 DEF CleanStart, Sent
<1>7. /\ m \in Int /\ m <= Wanted(e)
      /\ num = Wanted(e) => m = Wanted(e)
      /\ ~firstCome[e] /\ curMaxNum[e] = Wanted(e) => m = Wanted(e)
  BY <1>0, <1>2, <1>3 DEF NumberTypes, Bounded, ReduceTwo
<1>8. /\ taskCount'[e] = taskCount[e] - 1 /\ ~firstCome'[e] /\ curMaxNum'[e] = m
      /\ \A d \in Conns : d # e => /\ taskCount'[d] = taskCount[d] /\ firstCome'[d] = firstCome[d]
                                   /\ curMaxNum'[d] = curMaxNum[d] /\ result'[d] = result[d]
                                   /\ writeEvent'[d] = writeEvent[d]
  BY <1>0, <1>4 DEF NumberTypes, FlagTypes
<1>9. \A d : Wanted(d)' = Wanted(d) /\ (Unserved(d)' <=> Unserved(d))
  BY DEF Wanted, Unserved
<1>10. \A d, f : OwnFile(d, f)' <=> OwnFile(d, f)
  BY <1>9 DEF OwnFile
<1>11. NumberTypes'
  BY <1>0, <1>4, <1>7 DEF NumberTypes
<1>12. CleanStart'
  BY <1>0, <1>6, <1>8, <1>9 DEF CleanStart
<1>13. Bounded'
  <2>1. \A d \in Conns : ~firstCome'[d] => curMaxNum'[d] <= Wanted(d)
    BY <1>0, <1>7, <1>8 DEF Bounded
  <2>2. QED
    BY <1>0, <1>1, <1>9, <1>10, <2>1 DEF Bounded
<1>14. Kept(e)
  BY <1>0, <1>6 DEF NothingLost
<1>15. Kept(e)'
  <2>1. posting # e
    BY NoneAssumption DEF LoopFree
  <2>2. CASE \E t \in OpenTasks : t[1] = e /\ Wanted(e) \in ToSet(t[2])
    BY <1>1, <1>9, <2>2 DEF Kept
  <2>3. CASE \E r \in Results : r.from = e /\ r.num = Wanted(e)
    <3>1. PICK r \in Results : r.from = e /\ r.num = Wanted(e)
      BY <2>3
    <3>2. CASE r \in Results'
      BY <1>9, <3>1, <3>2 DEF Kept
    <3>3. CASE r = Head(mailbox)
      BY <1>2, <1>7, <1>8, <1>9, <3>1, <3>3 DEF Kept
    <3>4. QED
      BY <1>1, <3>2, <3>3
  <2>4. CASE ~firstCome[e] /\ curMaxNum[e] = Wanted(e)
    BY <1>7, <1>8, <1>9, <2>4 DEF Kept
  <2>5. QED
    BY <1>14, <2>1, <2>2, <2>3, <2>4 DEF Kept
<1>16. ASSUME NEW d \in Conns, d # e, Kept(d) PROVE Kept(d)'
  BY <1>1, <1>8, <1>9, <1>16 DEF Kept
<1>17. NothingLost'
  BY <1>0, <1>9, <1>15, <1>16 DEF NothingLost
<1>18. ASSUME taskCount[e] = 1 PROVE m = Wanted(e)
  <2>1. /\ \A t \in OpenTasks : t[1] # e
        /\ \A r \in Results : r.from = e => r = Head(mailbox)
    BY <1>0, <1>18, LastResult
  <2>2. posting # e
    BY NoneAssumption DEF LoopFree
  <2>3. QED
    BY <1>2, <1>7, <1>14, <2>1, <2>2 DEF Kept
<1>19. ASSUME NEW d \in Conns
       PROVE  /\ taskCount'[d] > 0 \/ posting = d => answers[d] = << >> /\ ~writeEvent'[d]
              /\ writeEvent'[d] => result'[d] = Wanted(d) /\ answers[d] = << >>
              /\ answers[d] # << >> => answers[d] = << Wanted(d) >>
  <2>1. CASE d # e
    BY <1>0, <1>8, <2>1 DEF Sent
  <2>2. CASE d = e /\ taskCount[e] = 1
    <3>1. result'[e] = Wanted(e) /\ taskCount'[e] = 0
      BY <1>0, <1>4, <1>8, <1>18, <2>2 DEF NumberTypes
    <3>2. posting # e
      BY NoneAssumption DEF LoopFree
    <3>3. QED
      BY <1>6, <2>2, <3>1, <3>2
  <2>3. CASE d = e /\ taskCount[e] # 1
    <3>1. ~writeEvent'[e]
      BY <1>4, <1>5, <1>6, <2>3
    <3>2. QED
      BY <1>6, <2>3, <3>1
  <2>4. QED
    BY <2>1, <2>2, <2>3
<1>20. Sent'
  BY <1>9, <1>19 DEF Sent
<1>21. QED
  BY <1>11, <1>12, <1>13, <1>17, <1>20 DEF AnswerInv

\* onMessage of CONNECTION: reduced for its own connection, or dropped.
LEMMA OnMapDoneAnswers ==
  ASSUME ServerInv, AnswerInv, OnMapDone
  PROVE  AnswerInv'
<1>0. CrossInv
  BY DEF ServerInv, OnceInv
<1>1. PICK e, d : e = Head(mailbox).from /\ d = map[Head(mailbox).fd]
  OBVIOUS
<1>2. /\ LoopFree /\ mailbox # << >> /\ mailbox' = Tail(mailbox) /\ Head(mailbox).what = "CONNECTION"
      /\ UNCHANGED <<asked, unread, answers, fdOf, object, map, posting, todo, taskQueue, worker>>
      /\ \/ d # None /\ Reduce(d, Head(mailbox).num)
         \/ d = None /\ UNCHANGED <<taskCount, firstCome, curMaxNum, result, writeEvent>>
  BY <1>1 DEF OnMapDone, clientVars, ownVars, loopVars, poolVars, reduceVars
<1>3. d \in {None, e}
  BY <1>0, <1>1, <1>2, CrossImplies DEF NoCrossTalk
<1>4. e \in Conns /\ Head(mailbox).fd = fdOf[e]
  <2>1. Head(mailbox) = mailbox[1] /\ 1 \in 1 .. Len(mailbox)
    BY <1>0, <1>2, GetSeq DEF CrossInv, Shape
  <2>2. QED
    BY <1>0, <1>1, <2>1 DEF CrossInv, Senders
<1>5. CASE d = None
  <2>1. map[fdOf[e]] # e
    BY <1>1, <1>4, <1>5, NoneAssumption
  <2>2. QED
    BY <1>1, <1>2, <1>4, <1>5, <2>1, DropAnswers
<1>6. CASE d # None
  <2>1. map[fdOf[e]] = e /\ Reduce(e, Head(mailbox).num)
    BY <1>1, <1>2, <1>3, <1>4, <1>6
  <2>2. QED
    BY <1>1, <1>2, <1>4, <2>1, ReduceAnswers
<1>7. QED
  BY <1>5, <1>6

\* Connections that come and go leave the answers alone.
LEMMA OwnershipAnswers ==
  ASSUME ServerInv, AnswerInv,
         \/ \E c \in Conns, fd \in Fds : Accept(c, fd)
         \/ OnNewConnect
         \/ \E c \in Conns : object[c] = "live" /\ \E fired : Destroy(c, fired)
  PROVE  AnswerInv'
<1>0. CrossInv /\ CleanStart /\ FlagTypes
  BY DEF ServerInv, OnceInv, AnswerInv
<1>1. ASSUME NEW c \in Conns, NEW fd \in Fds, Accept(c, fd) PROVE AnswerInv'
  <2>1. /\ UNCHANGED <<asked, unread, answers, taskCount, firstCome, curMaxNum, result, posting, todo,
                       map, writeEvent, taskQueue, worker, mailbox>>
        /\ fdOf' = [fdOf EXCEPT ![c] = fd] /\ object' = [object EXCEPT ![c] = "accepted"]
    BY <1>1 DEF Accept, eventVars, reduceVars, loopVars, poolVars
  <2>2. object[c] = "none" /\ Unserved(c)
    BY <1>0, <1>1 DEF Accept, CrossInv, Stages, CleanStart
  <2>3. \A d \in Conns : d # c => fdOf'[d] = fdOf[d] /\ object'[d] = object[d]
    BY <1>0, <2>1 DEF CrossInv, Shape
  <2>4. OpenTasks' = OpenTasks /\ Results' = Results
    BY <2>1 DEF OpenTasks, Results
  <2>5. QED
    BY <2>1, <2>2, <2>3, <2>4, AnswerStays
<1>2. CASE OnNewConnect
  <2>1. PICK c : c = Head(mailbox).from
    OBVIOUS
  <2>2. /\ mailbox # << >> /\ Head(mailbox).what = "NEW_CONNECT" /\ mailbox' = Tail(mailbox)
        /\ UNCHANGED <<asked, unread, answers, taskCount, firstCome, curMaxNum, result, posting, todo,
                       fdOf, writeEvent, taskQueue, worker>>
        /\ map' = [map EXCEPT ![fdOf[c]] = IF map[fdOf[c]] = None THEN c ELSE map[fdOf[c]]]
        /\ object' = [object EXCEPT ![c] = IF map[fdOf[c]] = None THEN "live" ELSE "freed"]
    BY <1>2, <2>1 DEF OnNewConnect, clientVars, reduceVars, loopVars, poolVars
  <2>3. Head(mailbox) = mailbox[1] /\ 1 \in 1 .. Len(mailbox)
    BY <1>0, <2>2, GetSeq DEF CrossInv, Shape
  <2>4. c \in Conns /\ object[c] = "accepted"
    BY <1>0, <2>1, <2>2, <2>3 DEF CrossInv, Senders, NewConnects
  <2>5. Unserved(c)
    BY <1>0, <2>4 DEF CleanStart
  <2>6. OpenTasks' = OpenTasks /\ Results' = Results
    BY <1>0, <2>2, GetResult DEF OpenTasks
  <2>7. \A d \in Conns : object'[d] \in {"none", "accepted"} => object[d] \in {"none", "accepted"}
    BY <1>0, <2>2, <2>4 DEF CrossInv, Shape
  <2>8. ASSUME NEW d \in Conns, ~Unserved(d), map'[fdOf'[d]] = d PROVE map[fdOf[d]] = d
    <3>1. d # c /\ fdOf[d] \in Fds
      <4>1. object[d] # "none"
        BY <1>0, <2>8 DEF CleanStart
      <4>2. QED
        BY <1>0, <2>5, <2>8, <4>1 DEF CrossInv, Stages
    <3>2. QED
      BY <1>0, <2>2, <2>8, <3>1 DEF CrossInv, Shape
  <2>9. QED
    BY <2>2, <2>6, <2>7, <2>8, AnswerStays
<1>3. ASSUME NEW c \in Conns, object[c] = "live", NEW fired, Destroy(c, fired) PROVE AnswerInv'
  <2>1. /\ UNCHANGED <<asked, unread, answers, taskCount, firstCome, curMaxNum, result, posting, todo,
                       fdOf, taskQueue, worker, mailbox>>
        /\ map' = [map EXCEPT ![fdOf[c]] = None]
        /\ \E x : object' = [object EXCEPT ![c] = x] /\ x \in {object[c], "freed"}
        /\ \E b \in BOOLEAN : writeEvent' = [writeEvent EXCEPT ![c] = writeEvent[c] /\ b]
    <3>1. UNCHANGED <<asked, unread, answers, taskCount, firstCome, curMaxNum, result, posting, todo,
                      fdOf, taskQueue, worker, mailbox>>
      BY <1>3 DEF Destroy, clientVars, reduceVars, loopVars, poolVars, mainVars
    <3>2. /\ map' = [map EXCEPT ![fdOf[c]] = None]
          /\ object' = [object EXCEPT ![c] = IF HeldByTask(c, Pool) THEN object[c] ELSE "freed"]
      BY <1>3 DEF Destroy
    <3>3. PICK b \in BOOLEAN : b = (HeldByTask(c, Pool) /\ fired # "write")
      OBVIOUS
    <3>4. writeEvent' = [writeEvent EXCEPT ![c] = writeEvent[c] /\ b]
      BY <1>3, <3>3, Zenon DEF Destroy
    <3>5. QED
      BY <3>1, <3>2, <3>4
  <2>2. OpenTasks' = OpenTasks /\ Results' = Results
    BY <2>1 DEF OpenTasks, Results
  <2>3. \A d \in Conns : object'[d] \in {"none", "accepted"} => object[d] \in {"none", "accepted"}
    BY <1>0, <1>3, <2>1 DEF CrossInv, Shape
  <2>4. \A d \in Conns : writeEvent'[d] => writeEvent[d]
    BY <1>0, <2>1 DEF FlagTypes
  <2>5. ASSUME NEW d \in Conns, ~Unserved(d), map'[fdOf'[d]] = d PROVE map[fdOf[d]] = d
    <3>1. fdOf[d] \in Fds
      <4>1. object[d] # "none"
        BY <1>0, <2>5 DEF CleanStart
      <4>2. QED
        BY <1>0, <4>1 DEF CrossInv, Stages
    <3>2. QED
      BY <1>0, <2>1, <2>5, <3>1, NoneAssumption DEF CrossInv, Shape
  <2>6. QED
    BY <2>1, <2>2, <2>3, <2>4, <2>5, AnswerStays
<1>4. QED
  BY <1>1, <1>2, <1>3

\* A pool thread takes a task, or gives its reference up.
LEMMA PoolAnswers ==
  ASSUME ServerInv, AnswerInv, NEW p \in Pool, TakeTask(p) \/ ReleaseTask(p)
  PROVE  AnswerInv'
<1>0. CrossInv /\ FlagTypes
  BY DEF ServerInv, OnceInv
<1>1. CASE TakeTask(p)
  <2>1. UNCHANGED <<asked, unread, answers, taskCount, firstCome, curMaxNum, result, posting, todo,
                    fdOf, object, map, writeEvent, mailbox>>
    BY <1>1 DEF TakeTask, clientVars, ownVars, eventVars, reduceVars, loopVars, mainVars
  <2>2. OpenTasks' = OpenTasks /\ Results' = Results
    BY <1>0, <1>1, <2>1, TakeKeepsOpen DEF Results
  <2>3. QED
    BY <2>1, <2>2, AnswerStays
<1>2. CASE ReleaseTask(p)
  <2>1. PICK c : c = worker[p].conn
    OBVIOUS
  <2>2. UNCHANGED <<asked, unread, answers, taskCount, firstCome, curMaxNum, result, posting, todo,
                    fdOf, map, mailbox>>
    BY <1>2 DEF ReleaseTask, clientVars, reduceVars, loopVars, mainVars
  <2>3. PICK last \in BOOLEAN : last = (map[fdOf[c]] # c /\ ~HeldByTask(c, Pool \ {p}))
    OBVIOUS
  <2>4. object' = [object EXCEPT ![c] = IF last THEN "freed" ELSE object[c]]
    BY <1>2, <2>1, <2>3 DEF ReleaseTask
  <2>5. writeEvent' = [writeEvent EXCEPT ![c] = writeEvent[c] /\ ~last]
    BY <1>2, <2>1, <2>3, Zenon DEF ReleaseTask
  <2>6. OpenTasks' = OpenTasks /\ Results' = Results
    BY <1>0, <1>2, <2>2, ReleaseKeepsOpen DEF Results
  <2>7. \A d \in Conns : object'[d] \in {"none", "accepted"} => object[d] \in {"none", "accepted"}
    BY <1>0, <2>4 DEF CrossInv, Shape
  <2>8. \A d \in Conns : writeEvent'[d] => writeEvent[d]
    BY <1>0, <2>5 DEF FlagTypes
  <2>9. QED
    BY <2>2, <2>6, <2>7, <2>8, AnswerStays
<1>3. QED
  BY <1>1, <1>2

\* Main puts a NEW_CONNECT, a client leaves, or nothing happens.
LEMMA OtherAnswers ==
  ASSUME ServerInv, AnswerInv,
         NotifyNewConnect \/ (\E c \in Conns : ClientCloses(c)) \/ UNCHANGED vars
  PROVE  AnswerInv'
<1>0. CrossInv
  BY DEF ServerInv, OnceInv
<1>1. CASE NotifyNewConnect
  <2>1. PICK m : mailbox' = Append(mailbox, m) /\ m.what = "NEW_CONNECT"
    BY <1>1 DEF NotifyNewConnect
  <2>2. UNCHANGED <<asked, unread, answers, taskCount, firstCome, curMaxNum, result, posting, todo,
                    fdOf, object, map, writeEvent, taskQueue, worker>>
    BY <1>1 DEF NotifyNewConnect, clientVars, ownVars, eventVars, reduceVars, loopVars, poolVars
  <2>3. OpenTasks' = OpenTasks /\ Results' = Results
    BY <1>0, <2>1, <2>2, PutResult DEF OpenTasks
  <2>4. QED
    BY <2>2, <2>3, AnswerStays
<1>2. CASE (\E c \in Conns : ClientCloses(c)) \/ UNCHANGED vars
  <2>1. UNCHANGED <<asked, unread, answers, taskCount, firstCome, curMaxNum, result, posting, todo,
                    fdOf, object, map, writeEvent, taskQueue, worker, mailbox>>
    BY <1>2 DEF ClientCloses, vars, clientVars, ownVars, eventVars, reduceVars, loopVars, poolVars, mainVars
  <2>2. OpenTasks' = OpenTasks /\ Results' = Results
    BY <2>1 DEF OpenTasks, Results
  <2>3. QED
    BY <2>1, <2>2, AnswerStays
<1>3. QED
  BY <1>1, <1>2

\* Every step keeps the answers right.
LEMMA AnswerStep ==
  ASSUME ServerInv, AnswerInv, MaxRequests = 1, Requests \subseteq Seq(Files) \ {<< >>}, [Next]_vars
  PROVE  AnswerInv'
<1>1. ASSUME NEW c \in Conns, NEW files \in Requests, ClientSends(c, files) PROVE AnswerInv'
  BY <1>1, ClientSendsAnswers
<1>2. ASSUME NEW c \in Conns, ConnStep(c) PROVE AnswerInv'
  <2>1. CASE RecvRequest(c)
    BY <2>1, RecvRequestAnswers
  <2>2. CASE RecvError(c) \/ SendError(c)
    <3>1. object[c] = "live" /\ \E fired : Destroy(c, fired)
      BY <2>2 DEF RecvError, SendError
    <3>2. QED
      BY <3>1, OwnershipAnswers
  <2>3. CASE SendResult(c)
    BY <2>3, SendResultAnswers
  <2>4. QED
    BY <1>2, <2>1, <2>2, <2>3 DEF ConnStep
<1>3. CASE (\E c \in Conns, fd \in Fds : Accept(c, fd)) \/ OnNewConnect
  BY <1>3, OwnershipAnswers
<1>4. CASE NotifyNewConnect \/ (\E c \in Conns : ClientCloses(c)) \/ UNCHANGED vars
  BY <1>4, OtherAnswers
<1>5. CASE OnMapDone
  BY <1>5, OnMapDoneAnswers
<1>6. CASE PostTask
  BY <1>6, PostTaskAnswers
<1>7. ASSUME NEW p \in Pool, PoolStep(p) PROVE AnswerInv'
  BY <1>7, PoolAnswers, NotifyMapDoneAnswers DEF PoolStep
<1>8. QED
  BY <1>1, <1>2, <1>3, <1>4, <1>5, <1>6, <1>7 DEF Next, MessageStep

\* Nobody has asked.
LEMMA AnswerInit == Init => AnswerInv
<1> SUFFICES ASSUME Init PROVE AnswerInv
  OBVIOUS
<1>1. OpenTasks = {} /\ Results = {}
  BY DEF Init, Idle, OpenTasks, Results, ToSet
<1>2. NumberTypes
  BY DEF Init, NumberTypes
<1>3. \A c \in Conns : Unserved(c)
  BY DEF Init, Unserved
<1>4. CleanStart /\ NothingLost /\ Sent
  BY <1>3, NoneAssumption DEF Init, CleanStart, NothingLost, Sent
<1>5. Bounded
  BY <1>1, NoneAssumption DEF Init, Bounded
<1>6. QED
  BY <1>2, <1>4, <1>5 DEF AnswerInv

\* What the server's invariants say of clients that ask once is kept.
LEMMA ServerStep ==
  ASSUME MaxRequests = 1, ServerInv, [Next]_vars
  PROVE  ServerInv'
<1>1. HandlerOnLiveObject
  BY DEF ServerInv, OnceInv, HandlerInMap, HandlerOnLiveObject
<1>2. OnceInv'
  BY <1>1, CrossStep, AskedOnceStep, FreshStep, HandlerInMapStep DEF ServerInv, OnceInv
<1>3. Counted' /\ RestTypes' /\ FlagTypes'
  BY <1>1, RestStep, FlagStep DEF ServerInv, OnceInv
<1>4. QED
  BY <1>2, <1>3 DEF ServerInv

\* "Several instances at once show that the results agree" (BenchmarkTest.cpp:6):
\* a client that asks once, about files that have numbers, is answered the
\* number it computes itself, for any number of clients, files, pool threads and
\* descriptors and any capacity of the queues.
THEOREM OneRequestAnswers ==
  ASSUME MaxRequests = 1, Requests \subseteq Seq(Files) \ {<< >>}
  PROVE  Spec => []AnswersAreRight
<1>1. Init => ServerInv /\ AnswerInv
  BY OnceInit, RestInit, AnswerInit DEF ServerInv
<1>2. ServerInv /\ AnswerInv /\ [Next]_vars => ServerInv' /\ AnswerInv'
  BY ServerStep, AnswerStep
<1>3. ServerInv /\ AnswerInv => AnswersAreRight
  <2> SUFFICES ASSUME ServerInv, AnswerInv, NEW c \in Conns, NEW i \in 1 .. Len(answers[c])
               PROVE  i <= Len(asked[c]) /\ answers[c][i] = SerialMax(asked[c][i])
    BY DEF AnswersAreRight
  <2>2. answers[c] # << >>
    OBVIOUS
  <2>3. answers[c] = << Wanted(c) >> /\ ~Unserved(c)
    BY <2>2 DEF AnswerInv, Sent, CleanStart
  <2>4. i = 1 /\ answers[c][1] = Wanted(c)
    BY <2>3
  <2>5. asked[c] \in Seq(Requests) /\ asked[c] # << >>
    BY <2>3 DEF ServerInv, OnceInv, AskedOnce, Unserved
  <2>6. QED
    BY <2>4, <2>5 DEF Wanted
<1>4. QED
  BY <1>1, <1>2, <1>3, PTL DEF Spec

-----------------------------------------------------------------------------
(* Loop and pool                                                           *)

\* When the loop waits for a place in the task queue (syncPostTask,
\* MapReduceConnection.cpp:98), a pool thread is idle, gives a reference up, or
\* can put its result into the mailbox.
NoMutualWait ==
  posting # None /\ Len(taskQueue) = TaskQueueCapacity =>
    \E p \in Pool : worker[p].step = "run" => Len(mailbox) < MailboxCapacity

\* A client asks for at most k files, and what it waits for is counted.
LoadInv(k) ==
  /\ \A i \in 1 .. Len(mailbox) : mailbox[i].what \in {"NEW_CONNECT", "CONNECTION"}
  /\ posting # None => IsSeq(todo) /\ todo # << >>
  /\ \A c \in Conns : Unserved(c) => taskCount[c] = 0
  /\ \A c \in Conns : taskCount[c] + (IF posting = c THEN Len(todo) ELSE 0) <= k

\* Four sets, told apart by a number.
Tagged(Q, M, R, T) == ({1} \X Q) \cup ({2} \X M) \cup ({3} \X R) \cup ({4} \X T)

\* A set of pairs with one first component is as large as the other components.
LEMMA TagOne ==
  ASSUME NEW t, NEW S, IsFiniteSet(S)
  PROVE  IsFiniteSet({t} \X S) /\ Cardinality({t} \X S) = Cardinality(S)
<1>1. IsFiniteSet({t}) /\ Cardinality({t}) = 1
  BY FS_Singleton
<1>2. IsFiniteSet({t} \X S) /\ Cardinality({t} \X S) = Cardinality({t}) * Cardinality(S)
  BY <1>1, FS_Product
<1>3. Cardinality(S) \in Nat
  BY FS_CardinalityType
<1>4. QED
  BY <1>1, <1>2, <1>3

\* Disjoint sets are counted separately.
LEMMA DisjointUnion ==
  ASSUME NEW S, NEW T, IsFiniteSet(S), IsFiniteSet(T), S \cap T = {}
  PROVE  IsFiniteSet(S \cup T) /\ Cardinality(S \cup T) = Cardinality(S) + Cardinality(T)
<1>1. Cardinality(S) \in Nat /\ Cardinality(T) \in Nat
  BY FS_CardinalityType
<1>2. QED
  BY <1>1, FS_Union, FS_EmptySet

\* So are the four sets.
LEMMA TaggedCount ==
  ASSUME NEW Q, NEW M, NEW R, NEW T,
         IsFiniteSet(Q), IsFiniteSet(M), IsFiniteSet(R), IsFiniteSet(T)
  PROVE  /\ IsFiniteSet(Tagged(Q, M, R, T))
         /\ Cardinality(Tagged(Q, M, R, T)) =
              Cardinality(Q) + Cardinality(M) + Cardinality(R) + Cardinality(T)
<1>1. PICK q, m, r, t : q = {1} \X Q /\ m = {2} \X M /\ r = {3} \X R /\ t = {4} \X T
  OBVIOUS
<1>2. /\ IsFiniteSet(q) /\ Cardinality(q) = Cardinality(Q)
      /\ IsFiniteSet(m) /\ Cardinality(m) = Cardinality(M)
      /\ IsFiniteSet(r) /\ Cardinality(r) = Cardinality(R)
      /\ IsFiniteSet(t) /\ Cardinality(t) = Cardinality(T)
  BY <1>1, TagOne
<1>3. q \cap m = {} /\ (q \cup m) \cap r = {} /\ (q \cup m \cup r) \cap t = {}
  BY <1>1, SMTT(30)
<1>4. IsFiniteSet(q \cup m) /\ Cardinality(q \cup m) = Cardinality(Q) + Cardinality(M)
  BY <1>2, <1>3, DisjointUnion, SMTT(30)
<1>5. /\ IsFiniteSet(q \cup m \cup r)
      /\ Cardinality(q \cup m \cup r) = Cardinality(Q) + Cardinality(M) + Cardinality(R)
  BY <1>2, <1>3, <1>4, DisjointUnion
<1>6. PICK u : u = q \cup m \cup r
  OBVIOUS
<1>7. IsFiniteSet(u) /\ Cardinality(u) = Cardinality(Q) + Cardinality(M) + Cardinality(R) /\ u \cap t = {}
  BY <1>3, <1>5, <1>6
<1>8. IsFiniteSet(u \cup t) /\ Cardinality(u \cup t) = Cardinality(u) + Cardinality(t)
  BY <1>2, <1>7, DisjointUnion
<1>9. Tagged(Q, M, R, T) = u \cup t
  BY <1>1, <1>6 DEF Tagged
<1>10. QED
  BY <1>2, <1>7, <1>8, <1>9

\* Who has at most k things each have at most k times their number together.
LEMMA SharedCount ==
  ASSUME NEW C, IsFiniteSet(C), NEW k \in Nat, NEW V, NEW owner \in [V -> C],
         \A c \in C : /\ IsFiniteSet({x \in V : owner[x] = c})
                      /\ Cardinality({x \in V : owner[x] = c}) <= k
  PROVE  IsFiniteSet(V) /\ Cardinality(V) <= Cardinality(C) * k
<1> DEFINE Own(c) == {x \in V : owner[x] = c}
           Numbering(c) == CHOOSE f : f \in Injection(Own(c), 1 .. k)
           place == [x \in V |-> <<owner[x], Numbering(owner[x])[x]>>]
<1>1. ASSUME NEW c \in C PROVE \E f : f \in Injection(Own(c), 1 .. k)
  <2>1. PICK n \in Nat : n = Cardinality(Own(c)) /\ n <= k /\ ExistsBijection(1 .. n, Own(c))
    BY FS_CardinalityType
  <2>2. ExistsBijection(Own(c), 1 .. n)
    BY <2>1, Fun_ExistsBijSymmetric
  <2>3. PICK f : f \in Bijection(Own(c), 1 .. n)
    BY <2>2 DEF ExistsBijection
  <2>4. 1 .. n \subseteq 1 .. k
    <3>1. n \in Nat /\ n <= k
      BY <2>1
    <3>2. QED
      BY <3>1
  <2>5. f \in [Own(c) -> 1 .. k] /\ \A a, b \in Own(c) : f[a] = f[b] => a = b
    BY <2>3, <2>4 DEF Bijection, Injection, IsInjective
  <2>6. f \in Injection(Own(c), 1 .. k)
    BY <2>5 DEF Injection, IsInjective
  <2>7. QED
    BY <2>6
<1> HIDE DEF Own
<1>2. \A c \in C : Numbering(c) \in Injection(Own(c), 1 .. k)
  BY <1>1
<1> HIDE DEF Numbering
<1>3. \A x \in V : owner[x] \in C /\ x \in Own(owner[x])
  BY DEF Own
<1>4. \A x \in V : Numbering(owner[x])[x] \in 1 .. k
  BY <1>2, <1>3 DEF Injection
<1>5. place \in [V -> C \X (1 .. k)]
  BY <1>3, <1>4
<1>6. ASSUME NEW x \in V, NEW y \in V, place[x] = place[y] PROVE x = y
  <2>1. PICK c \in C : owner[x] = c /\ owner[y] = c
    BY <1>3, <1>6
  <2>2. Numbering(c)[x] = Numbering(c)[y] /\ x \in Own(c) /\ y \in Own(c)
    BY <1>3, <1>6, <2>1
  <2>3. QED
    BY <1>2, <2>2 DEF Injection, IsInjective
<1>7. place \in Injection(V, C \X (1 .. k))
  BY <1>5, <1>6 DEF Injection, IsInjective
<1>8. IsFiniteSet(1 .. k) /\ Cardinality(1 .. k) = k
  BY FS_Interval
<1>9. IsFiniteSet(C \X (1 .. k)) /\ Cardinality(C \X (1 .. k)) = Cardinality(C) * k
  BY <1>8, FS_Product
<1> HIDE DEF place
<1>10. QED
  BY <1>7, <1>9, FS_Injection

\* Every request is a list of one to k files.
Small(k) == \A r \in Requests : IsSeq(r) /\ r # << >> /\ Len(r) <= k

\* The messages of a client in the mailbox.
MailOf(c) == {i \in 1 .. Len(mailbox) : mailbox[i].from = c}

\* Everything that takes a place: tasks, messages, running threads, and the file
\* the loop is about to post.
Places ==
  Tagged(1 .. Len(taskQueue), 1 .. Len(mailbox), {p \in Pool : worker[p].step = "run"},
         {x \in {posting} : x # None})

PlaceOf(x) ==
  IF x[1] = 1 THEN taskQueue[x[2]].conn ELSE
  IF x[1] = 2 THEN mailbox[x[2]].from ELSE
  IF x[1] = 3 THEN worker[x[2]].conn ELSE x[2]

\* A client has at most k places: its tasks and results are counted, and while
\* its NEW_CONNECT waits it has nothing else.
LEMMA FewPlacesEach ==
  ASSUME CrossInv, HandlerInMap, Counted, NEW k \in Nat \ {0}, LoadInv(k), NEW c \in Conns
  PROVE  /\ IsFiniteSet({x \in Places : PlaceOf(x) = c})
         /\ Cardinality({x \in Places : PlaceOf(x) = c}) <= k
<1>1. PICK T : T = {x \in {posting} : x # None /\ x = c}
  OBVIOUS
<1>2. IsFiniteSet(T) /\ Cardinality(T) = IF posting = c THEN 1 ELSE 0
  <2>1. T = IF posting = c THEN {c} ELSE {}
    BY <1>1, NoneAssumption
  <2>2. QED
    BY <2>1, FS_Singleton, FS_EmptySet
<1>3. Len(mailbox) \in Nat
  BY LenSeq DEF CrossInv, Shape
<1>4. IsFiniteSet(MailOf(c)) /\ Cardinality(MailOf(c)) \in Nat
  <2>1. MailOf(c) \subseteq 1 .. Len(mailbox) /\ IsFiniteSet(1 .. Len(mailbox))
    BY <1>3, FS_Interval DEF MailOf
  <2>2. QED
    BY <2>1, FS_Subset, FS_CardinalityType
<1>5. /\ IsFiniteSet(QueuedOf(c)) /\ Cardinality(QueuedOf(c)) \in Nat
      /\ IsFiniteSet(RunningOf(c)) /\ Cardinality(RunningOf(c)) \in Nat
      /\ IsFiniteSet(ResultsOf(c)) /\ Cardinality(ResultsOf(c)) \in Nat
  BY QueuedFinite, RunningFinite, ResultsFinite
<1>6. {x \in Places : PlaceOf(x) = c} = Tagged(QueuedOf(c), MailOf(c), RunningOf(c), T)
  <2>1. ASSUME NEW x \in Places, PlaceOf(x) = c
        PROVE  x \in Tagged(QueuedOf(c), MailOf(c), RunningOf(c), T)
    BY <1>1, <2>1 DEF Places, PlaceOf, Tagged, QueuedOf, MailOf, RunningOf
  <2>2. ASSUME NEW x \in Tagged(QueuedOf(c), MailOf(c), RunningOf(c), T)
        PROVE  x \in Places /\ PlaceOf(x) = c
    BY <1>1 DEF Places, PlaceOf, Tagged, QueuedOf, MailOf, RunningOf
  <2>3. QED
    BY <2>1, <2>2
<1>7. /\ IsFiniteSet(Tagged(QueuedOf(c), MailOf(c), RunningOf(c), T))
      /\ Cardinality(Tagged(QueuedOf(c), MailOf(c), RunningOf(c), T)) =
           Cardinality(QueuedOf(c)) + Cardinality(MailOf(c)) + Cardinality(RunningOf(c)) + Cardinality(T)
  BY <1>2, <1>4, <1>5, TaggedCount
<1>8. Cardinality(QueuedOf(c)) + Cardinality(MailOf(c)) + Cardinality(RunningOf(c)) + Cardinality(T) <= k
  <2>1. CASE \E i \in MailOf(c) : mailbox[i].what = "NEW_CONNECT"
    <3>1. PICK i \in 1 .. Len(mailbox) : mailbox[i].from = c /\ mailbox[i].what = "NEW_CONNECT"
      BY <2>1 DEF MailOf
    <3>2. object[c] = "accepted"
      BY <3>1 DEF CrossInv, NewConnects
    <3>3. QueuedOf(c) = {} /\ RunningOf(c) = {} /\ posting # c
      <4>1. QueuedOf(c) = {}
        BY <3>2 DEF CrossInv, TasksHold, QueuedOf
      <4>2. RunningOf(c) = {}
        BY <3>2, NoneAssumption DEF CrossInv, TasksHold, RunningOf
      <4>3. posting # c
        BY <3>2, NoneAssumption DEF HandlerInMap
      <4>4. QED
        BY <4>1, <4>2, <4>3
    <3>4. MailOf(c) = {i}
      <4>1. ASSUME NEW j \in MailOf(c) PROVE j = i
        <5>1. j \in 1 .. Len(mailbox) /\ mailbox[j].from = c
          BY DEF MailOf
        <5>2. mailbox[j].what = "NEW_CONNECT"
          BY <3>2, <5>1 DEF LoadInv, CrossInv, MapDones
        <5>3. QED
          BY <3>1, <5>1, <5>2 DEF CrossInv, NewConnects
      <4>2. QED
        BY <3>1, <4>1 DEF MailOf
    <3>5. Cardinality(MailOf(c)) = 1 /\ Cardinality(QueuedOf(c)) = 0 /\ Cardinality(RunningOf(c)) = 0
      BY <3>3, <3>4, FS_Singleton, FS_EmptySet
    <3>6. QED
      BY <1>2, <3>3, <3>5
  <2>2. CASE ~ \E i \in MailOf(c) : mailbox[i].what = "NEW_CONNECT"
    <3>1. MailOf(c) = ResultsOf(c)
      BY <2>2 DEF MailOf, ResultsOf, LoadInv
    <3>2. /\ Cardinality(QueuedOf(c)) + Cardinality(RunningOf(c)) + Cardinality(ResultsOf(c)) <= taskCount[c]
          /\ taskCount[c] \in Nat
      BY DEF Counted
    <3>3. taskCount[c] + Cardinality(T) <= k
      <4>1. CASE posting = c
        <5>1. IsSeq(todo) /\ todo # << >> /\ taskCount[c] + Len(todo) <= k
          BY <4>1, NoneAssumption DEF LoadInv
        <5>2. Len(todo) \in Nat /\ Len(todo) >= 1
          BY <5>1, GetSeq
        <5>3. QED
          BY <1>2, <3>2, <4>1, <5>1, <5>2
      <4>2. CASE posting # c
        <5>1. taskCount[c] + 0 <= k
          BY <4>2 DEF LoadInv
        <5>2. QED
          BY <1>2, <3>2, <4>2, <5>1
      <4>3. QED
        BY <4>1, <4>2
    <3>4. Cardinality(T) \in Nat
      BY <1>2
    <3>5. QED
      BY <1>5, <3>1, <3>2, <3>3, <3>4
  <2>3. QED
    BY <2>1, <2>2
<1>9. QED
  BY <1>6, <1>7, <1>8

\* If everybody waits, all places are taken, and they are more than the clients
\* have.
LEMMA PlacesSuffice ==
  ASSUME CrossInv, HandlerInMap, Counted, RestTypes, NEW k \in Nat \ {0}, LoadInv(k),
         Pool # {}, IsFiniteSet(Conns),
         Cardinality(Conns) * k <= TaskQueueCapacity + MailboxCapacity + Cardinality(Pool)
  PROVE  NoMutualWait
<1> SUFFICES ASSUME posting # None, Len(taskQueue) = TaskQueueCapacity,
                    \A p \in Pool : worker[p].step = "run" /\ ~(Len(mailbox) < MailboxCapacity)
             PROVE  FALSE
  BY DEF NoMutualWait
<1>1. Len(mailbox) = MailboxCapacity
  <2>1. Len(mailbox) \in Nat /\ Len(mailbox) <= MailboxCapacity
    BY LenSeq DEF CrossInv, Shape, RestTypes
  <2>2. ~(Len(mailbox) < MailboxCapacity)
    OBVIOUS
  <2>3. QED
    BY <2>1, <2>2, CapacityAssumption
<1>2. PICK V, R, T : V = Places /\ R = {p \in Pool : worker[p].step = "run"} /\ T = {x \in {posting} : x # None}
  OBVIOUS
<1>3. R = Pool /\ T = {posting}
  BY <1>2
<1>4. /\ IsFiniteSet(1 .. TaskQueueCapacity) /\ Cardinality(1 .. TaskQueueCapacity) = TaskQueueCapacity
      /\ IsFiniteSet(1 .. MailboxCapacity) /\ Cardinality(1 .. MailboxCapacity) = MailboxCapacity
  BY CapacityAssumption, FS_Interval
<1>5. IsFiniteSet(T) /\ Cardinality(T) = 1
  BY <1>3, FS_Singleton
<1>6. IsFiniteSet(V) /\ Cardinality(V) = TaskQueueCapacity + MailboxCapacity + Cardinality(Pool) + 1
  <2>1. V = Tagged(1 .. TaskQueueCapacity, 1 .. MailboxCapacity, Pool, T)
    BY <1>1, <1>2, <1>3 DEF Places
  <2>2. QED
    BY <1>4, <1>5, <2>1, PoolAssumption, TaggedCount
<1>7. PICK owner : owner = [x \in V |-> PlaceOf(x)]
  OBVIOUS
<1>8. owner \in [V -> Conns]
  <2>1. ASSUME NEW x \in V PROVE PlaceOf(x) \in Conns
    <3>1. CASE x \in {1} \X (1 .. Len(taskQueue))
      BY <3>1 DEF PlaceOf, CrossInv, TasksHold
    <3>2. CASE x \in {2} \X (1 .. Len(mailbox))
      BY <3>2 DEF PlaceOf, CrossInv, Senders
    <3>3. CASE x \in {3} \X R
      <4>1. x[1] = 3 /\ x[2] \in Pool /\ worker[x[2]].step = "run"
        BY <1>2, <3>3
      <4>2. worker[x[2]].conn # None /\ worker[x[2]].conn \in Conns
        BY <4>1 DEF CrossInv, TasksHold
      <4>3. QED
        BY <4>1, <4>2 DEF PlaceOf
    <3>4. CASE x \in {4} \X T
      BY <1>3, <3>4 DEF PlaceOf, CrossInv, Shape
    <3>5. QED
      BY <1>2, <3>1, <3>2, <3>3, <3>4 DEF Places, Tagged
  <2>2. QED
    BY <1>7, <2>1
<1>9. ASSUME NEW c \in Conns
      PROVE  IsFiniteSet({x \in V : owner[x] = c}) /\ Cardinality({x \in V : owner[x] = c}) <= k
  <2>1. {x \in V : owner[x] = c} = {x \in Places : PlaceOf(x) = c}
    BY <1>2, <1>7
  <2>2. QED
    BY <2>1, FewPlacesEach
<1>10. Cardinality(V) <= Cardinality(Conns) * k
  BY <1>8, <1>9, SharedCount
<1>11. Cardinality(Pool) \in Nat /\ Cardinality(Conns) * k \in Nat
  <2>1. Cardinality(Conns) \in Nat /\ Cardinality(Pool) \in Nat
    BY PoolAssumption, FS_CardinalityType
  <2>2. QED
    BY <2>1
<1>12. QED
  BY <1>6, <1>10, <1>11, CapacityAssumption

\* Steps that count nothing and move no request.
LEMMA LoadStays ==
  ASSUME NEW k, LoadInv(k), UNCHANGED <<taskCount, posting, todo>>,
         \A c \in Conns : Unserved(c)' => Unserved(c),
         \A i \in 1 .. Len(mailbox') : mailbox'[i].what \in {"NEW_CONNECT", "CONNECTION"}
  PROVE  LoadInv(k)'
BY DEF LoadInv

\* A message of one of the two kinds is put, or the oldest one is taken.
LEMMA KindsStay ==
  ASSUME CrossInv, NEW k, LoadInv(k),
         \/ \E m : m.what \in {"NEW_CONNECT", "CONNECTION"} /\ mailbox' = Append(mailbox, m)
         \/ mailbox # << >> /\ mailbox' = Tail(mailbox)
         \/ mailbox' = mailbox
  PROVE  \A i \in 1 .. Len(mailbox') : mailbox'[i].what \in {"NEW_CONNECT", "CONNECTION"}
<1>1. ASSUME NEW m, m.what \in {"NEW_CONNECT", "CONNECTION"}, mailbox' = Append(mailbox, m),
             NEW i \in 1 .. Len(mailbox')
      PROVE  mailbox'[i].what \in {"NEW_CONNECT", "CONNECTION"}
  <2>1. /\ Len(mailbox) \in Nat /\ Len(mailbox') = Len(mailbox) + 1
        /\ \A j \in 1 .. Len(mailbox) : mailbox'[j] = mailbox[j]
        /\ mailbox'[Len(mailbox) + 1] = m
    BY <1>1, PutSeq DEF CrossInv, Shape
  <2>2. i \in 1 .. Len(mailbox) \/ i = Len(mailbox) + 1
    BY <2>1
  <2>3. QED
    BY <1>1, <2>1, <2>2 DEF LoadInv
<1>2. ASSUME mailbox # << >>, mailbox' = Tail(mailbox), NEW i \in 1 .. Len(mailbox')
      PROVE  mailbox'[i].what \in {"NEW_CONNECT", "CONNECTION"}
  <2>1. /\ Len(mailbox) \in Nat /\ Len(mailbox') = Len(mailbox) - 1
        /\ \A j \in 1 .. Len(mailbox) - 1 : mailbox'[j] = mailbox[j + 1]
    BY <1>2, GetSeq DEF CrossInv, Shape
  <2>2. i \in 1 .. Len(mailbox) - 1 /\ i + 1 \in 1 .. Len(mailbox)
    BY <2>1
  <2>3. QED
    BY <2>1, <2>2 DEF LoadInv
<1>3. QED
  BY <1>1, <1>2 DEF LoadInv

\* A request is read: its client has nothing under way.
LEMMA RecvRequestLoads ==
  ASSUME ServerInv, NEW k \in Nat, LoadInv(k), Small(k), NEW c \in Conns, RecvRequest(c)
  PROVE  LoadInv(k)'
<1>0. AskedOnce /\ taskCount \in [Conns -> Nat]
  BY DEF ServerInv, OnceInv, RestTypes
<1>1. /\ posting = None /\ unread[c] # << >> /\ posting' = c /\ todo' = Head(unread[c])
      /\ unread' = [unread EXCEPT ![c] = Tail(unread[c])]
      /\ UNCHANGED <<asked, taskCount, mailbox>>
  BY DEF RecvRequest, LoopFree, reduceVars, mainVars
<1>2. unread[c] \in Seq(Requests) /\ Head(unread[c]) \in Requests
  BY <1>0, <1>1 DEF AskedOnce
<1>3. IsSeq(todo') /\ todo' # << >> /\ Len(todo') <= k
  BY <1>1, <1>2 DEF Small
<1>4. taskCount[c] = 0
  BY <1>1 DEF LoadInv, Unserved
<1>5. \A d \in Conns : Unserved(d)' => Unserved(d)
  BY <1>0, <1>1 DEF Unserved, AskedOnce
<1>6. Len(todo') \in Nat
  BY <1>3, LenSeq
<1>7. \A d \in Conns : taskCount'[d] + (IF posting' = d THEN Len(todo') ELSE 0) <= k
  <2>1. ASSUME NEW d \in Conns PROVE taskCount'[d] + (IF posting' = d THEN Len(todo') ELSE 0) <= k
    <3>1. CASE d = c
      BY <1>1, <1>3, <1>4, <1>6, <3>1
    <3>2. CASE d # c
      <4>1. taskCount[d] + 0 <= k
        BY <1>1, NoneAssumption DEF LoadInv
      <4>2. QED
        BY <1>1, <3>2, <4>1
    <3>3. QED
      BY <3>1, <3>2
  <2>2. QED
    BY <2>1
<1>8. QED
  BY <1>1, <1>3, <1>5, <1>7 DEF LoadInv

\* A file is posted: it is counted instead of waiting.
LEMMA PostTaskLoads ==
  ASSUME ServerInv, NEW k \in Nat, LoadInv(k), PostTask
  PROVE  LoadInv(k)'
<1>0. CrossInv /\ FreshInMap /\ taskCount \in [Conns -> Nat]
  BY DEF ServerInv, OnceInv, RestTypes
<1>1. PICK c \in Conns : c = posting
  BY <1>0 DEF PostTask, CrossInv, Shape
<1>2. /\ taskCount' = [taskCount EXCEPT ![c] = taskCount[c] + 1] /\ todo' = Tail(todo)
      /\ posting' = IF Tail(todo) = << >> THEN None ELSE posting
      /\ UNCHANGED <<asked, unread, mailbox>>
  BY <1>1 DEF PostTask, clientVars, mainVars
<1>3. /\ IsSeq(Tail(todo)) /\ Len(todo) \in Nat /\ Len(Tail(todo)) = Len(todo) - 1 /\ Len(todo) >= 1
  BY <1>1, NoneAssumption, GetSeq DEF LoadInv
<1>4. \A d \in Conns : Unserved(d)' <=> Unserved(d)
  BY <1>2 DEF Unserved
<1>5. ~Unserved(c)
  BY <1>0, <1>1 DEF FreshInMap
<1>6. \A d \in Conns : taskCount'[d] = IF d = c THEN taskCount[d] + 1 ELSE taskCount[d]
  BY <1>0, <1>2
<1>7. \A d \in Conns : Unserved(d)' => taskCount'[d] = 0
  BY <1>4, <1>5, <1>6 DEF LoadInv
<1>8. taskCount[c] + Len(todo) <= k /\ taskCount[c] \in Nat
  BY <1>0, <1>1 DEF LoadInv
<1>9. ASSUME NEW d \in Conns PROVE taskCount'[d] + (IF posting' = d THEN Len(todo') ELSE 0) <= k
  <2>1. CASE d = c
    BY <1>2, <1>3, <1>6, <1>8, <2>1
  <2>2. CASE d # c
    <3>1. taskCount[d] + 0 <= k
      BY <1>1, <2>2 DEF LoadInv
    <3>2. posting' # d
      BY <1>1, <1>2, <2>2, NoneAssumption
    <3>3. QED
      BY <1>6, <2>2, <3>1, <3>2
  <2>3. QED
    BY <2>1, <2>2
<1>10. posting' # None => IsSeq(todo') /\ todo' # << >>
  BY <1>2, <1>3
<1>11. QED
  BY <1>2, <1>7, <1>9, <1>10 DEF LoadInv

\* A result is taken: if it is counted, its client has been served.
LEMMA OnMapDoneLoads ==
  ASSUME ServerInv, NEW k \in Nat, LoadInv(k), OnMapDone
  PROVE  LoadInv(k)'
<1>0. CrossInv /\ Counted /\ taskCount \in [Conns -> Nat]
  BY DEF ServerInv, OnceInv, RestTypes
<1>1. PICK e, d : e = Head(mailbox).from /\ d = map[Head(mailbox).fd]
  OBVIOUS
<1>2. /\ mailbox # << >> /\ mailbox' = Tail(mailbox) /\ Head(mailbox).what = "CONNECTION"
      /\ UNCHANGED <<asked, unread, posting, todo>>
      /\ \/ d # None /\ taskCount' = [taskCount EXCEPT ![d] = taskCount[d] - 1]
         \/ d = None /\ UNCHANGED taskCount
  BY <1>1 DEF OnMapDone, Reduce, clientVars, loopVars, reduceVars
<1>3. d \in {None, e}
  BY <1>0, <1>1, <1>2, CrossImplies DEF NoCrossTalk
<1>4. /\ Head(mailbox) \in Results /\ e \in Conns
  <2>1. Head(mailbox) = mailbox[1] /\ 1 \in 1 .. Len(mailbox)
    BY <1>0, <1>2, GetSeq DEF CrossInv, Shape
  <2>2. QED
    BY <1>0, <1>1, <1>2, <2>1 DEF CrossInv, Senders, Results, ToSet
<1>5. taskCount[e] >= 1 /\ ~Unserved(e)
  <2>1. taskCount[e] >= 1
    BY <1>0, <1>1, <1>4, ResultIsCounted
  <2>2. QED
    BY <2>1, <1>4 DEF LoadInv
<1>6. \A i \in 1 .. Len(mailbox') : mailbox'[i].what \in {"NEW_CONNECT", "CONNECTION"}
  BY <1>0, <1>2, KindsStay
<1>7. \A c \in Conns : Unserved(c)' <=> Unserved(c)
  BY <1>2 DEF Unserved
<1>8. CASE taskCount' = taskCount
  BY <1>2, <1>6, <1>7, <1>8, LoadStays
<1>9. CASE taskCount' = [taskCount EXCEPT ![e] = taskCount[e] - 1]
  <2>1. \A c \in Conns : taskCount'[c] = IF c = e THEN taskCount[c] - 1 ELSE taskCount[c]
    BY <1>0, <1>9
  <2>2. \A c \in Conns : Unserved(c)' => taskCount'[c] = 0
    BY <1>5, <1>7, <2>1 DEF LoadInv
  <2>3. ASSUME NEW c \in Conns PROVE taskCount'[c] + (IF posting' = c THEN Len(todo') ELSE 0) <= k
    <3>1. PICK n : n = (IF posting = c THEN Len(todo) ELSE 0) /\ n \in Nat
      <4>1. posting = c => Len(todo) \in Nat
        BY LenSeq, NoneAssumption DEF LoadInv
      <4>2. QED
        BY <4>1
    <3>2. taskCount[c] + n <= k /\ taskCount[c] \in Nat
      BY <1>0, <3>1 DEF LoadInv
    <3>3. taskCount'[c] + n <= k
      BY <2>1, <3>1, <3>2
    <3>4. QED
      BY <1>2, <3>1, <3>3
  <2>4. QED
    BY <1>2, <1>6, <2>2, <2>3 DEF LoadInv
<1>10. QED
  BY <1>2, <1>3, <1>8, <1>9

\* Every step keeps the count.
LEMMA LoadStep ==
  ASSUME ServerInv, NEW k \in Nat, LoadInv(k), Small(k), MaxRequests = 1, [Next]_vars
  PROVE  LoadInv(k)'
<1>0. CrossInv /\ AskedOnce
  BY DEF ServerInv, OnceInv
<1>a. ASSUME UNCHANGED <<asked, unread, taskCount, posting, todo>>,
             \/ \E m : m.what \in {"NEW_CONNECT", "CONNECTION"} /\ mailbox' = Append(mailbox, m)
             \/ mailbox # << >> /\ mailbox' = Tail(mailbox)
             \/ mailbox' = mailbox
      PROVE  LoadInv(k)'
  <2>1. \A c \in Conns : Unserved(c)' => Unserved(c)
    BY <1>a DEF Unserved
  <2>2. \A i \in 1 .. Len(mailbox') : mailbox'[i].what \in {"NEW_CONNECT", "CONNECTION"}
    BY <1>0, <1>a, KindsStay
  <2>3. QED
    BY <1>a, <2>1, <2>2, LoadStays
<1>1. ASSUME NEW c \in Conns, NEW files \in Requests, ClientSends(c, files) PROVE LoadInv(k)'
  <2>1. asked[c] \in Seq(Requests) /\ Len(asked[c]) < 1
    BY <1>0, <1>1 DEF AskedOnce, ClientSends
  <2>2. Unserved(c)
    BY <2>1 DEF Unserved
  <2>3. /\ UNCHANGED <<taskCount, posting, todo, mailbox>>
        /\ \A d \in Conns : d # c => asked'[d] = asked[d] /\ unread'[d] = unread[d]
    BY <1>0, <1>1 DEF ClientSends, reduceVars, loopVars, mainVars, AskedOnce
  <2>4. \A d \in Conns : Unserved(d)' => Unserved(d)
    BY <2>2, <2>3 DEF Unserved
  <2>5. \A i \in 1 .. Len(mailbox') : mailbox'[i].what \in {"NEW_CONNECT", "CONNECTION"}
    BY <2>3 DEF LoadInv
  <2>6. QED
    BY <2>3, <2>4, <2>5, LoadStays
<1>2. ASSUME NEW c \in Conns, \/ ClientCloses(c) \/ (\E fd \in Fds : Accept(c, fd))
                              \/ RecvError(c) \/ SendResult(c) \/ SendError(c)
      PROVE  LoadInv(k)'
  BY <1>2, <1>a DEF ClientCloses, Accept, RecvError, SendResult, SendError, Destroy, clientVars,
                    reduceVars, loopVars, mainVars
<1>3. CASE UNCHANGED vars
  BY <1>3, <1>a DEF vars, clientVars, reduceVars, loopVars, mainVars
<1>4. CASE NotifyNewConnect
  <2>1. PICK m : m.what = "NEW_CONNECT" /\ mailbox' = Append(mailbox, m)
    BY <1>4 DEF NotifyNewConnect
  <2>2. QED
    BY <1>4, <1>a, <2>1 DEF NotifyNewConnect, clientVars, reduceVars, loopVars
<1>5. CASE OnNewConnect
  BY <1>5, <1>a DEF OnNewConnect, clientVars, reduceVars, loopVars
<1>6. ASSUME NEW p \in Pool, TakeTask(p) \/ ReleaseTask(p) PROVE LoadInv(k)'
  BY <1>6, <1>a DEF TakeTask, ReleaseTask, clientVars, reduceVars, loopVars, mainVars
<1>7. ASSUME NEW p \in Pool, NotifyMapDone(p) PROVE LoadInv(k)'
  <2>1. PICK m : m.what = "CONNECTION" /\ mailbox' = Append(mailbox, m)
    BY <1>7 DEF NotifyMapDone
  <2>2. QED
    BY <1>7, <1>a, <2>1 DEF NotifyMapDone, clientVars, reduceVars, loopVars
<1>8. QED
  BY <1>1, <1>2, <1>3, <1>4, <1>5, <1>6, <1>7, RecvRequestLoads, PostTaskLoads, OnMapDoneLoads
     DEF Next, ConnStep, MessageStep, PoolStep

\* With one request of at most k files per client, loop and pool never wait for
\* each other while queue, mailbox and threads have a place for every file: no
\* deadlock behind syncPostTask (MapReduceConnection.cpp:98), for any clients,
\* files, threads and capacities.  With one place less there is one (run
\* map_reduce_full: four files, three places).
THEOREM OneRequestNoMutualWait ==
  ASSUME MaxRequests = 1, NEW k \in Nat \ {0}, Small(k), Pool # {}, IsFiniteSet(Conns),
         Cardinality(Conns) * k <= TaskQueueCapacity + MailboxCapacity + Cardinality(Pool)
  PROVE  Spec => []NoMutualWait
<1>1. Init => ServerInv /\ LoadInv(k)
  <2> SUFFICES ASSUME Init PROVE ServerInv /\ LoadInv(k)
    OBVIOUS
  <2>1. ServerInv
    BY OnceInit, RestInit DEF ServerInv
  <2>2. Len(mailbox) = 0
    BY EmptyQueue DEF Init
  <2>3. LoadInv(k)
    BY <2>2, NoneAssumption DEF Init, LoadInv
  <2>4. QED
    BY <2>1, <2>3
<1>2. ServerInv /\ LoadInv(k) /\ [Next]_vars => ServerInv' /\ LoadInv(k)'
  BY ServerStep, LoadStep
<1>3. ServerInv /\ LoadInv(k) => NoMutualWait
  BY PlacesSuffice DEF ServerInv, OnceInv
<1>4. QED
  BY <1>1, <1>2, <1>3, PTL DEF Spec
=============================================================================
