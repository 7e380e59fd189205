--------------------------- MODULE TcpServerProofs ---------------------------
(***************************************************************************)
(* Proofs about TcpServer, for every number of services, of pool threads,  *)
(* of clients and of descriptors, and every capacity of the queues.        *)
(***************************************************************************)
EXTENDS TcpServer, FiniteSetTheorems, FunctionTheorems, SequenceTheorems, TLAPS

OpenStates == {"accepted", "served", "closing"}

\* Two open connections never have one descriptor.
DistinctFds ==
  \A c, d \in Clients :
    client[c] \in OpenStates /\ client[d] \in OpenStates /\ fdOf[c] = fdOf[d] => c = d

\* A client on its way to a worker, in main's hand or in a mailbox, is
\* accepted and in one place only.
HandedOverOnce ==
  /\ mainPc \in {"put", "write"} => inHand \in Clients
  /\ mainPc = "put" =>
       /\ client[inHand] = "accepted"
       /\ \A i \in Services : \A k \in 1 .. Len(mailbox[i]) : mailbox[i][k] # inHand
  /\ \A i \in Services : \A k \in 1 .. Len(mailbox[i]) : client[mailbox[i][k]] = "accepted"
  /\ \A i, j \in Services : \A k \in 1 .. Len(mailbox[i]), l \in 1 .. Len(mailbox[j]) :
       mailbox[i][k] = mailbox[j][l] => i = j /\ k = l

\* The maps hold served clients under their descriptors.
MapsHoldServed ==
  \A i \in Services, fd \in Fds :
    connectionMap[i][fd] # NoClient =>
      client[connectionMap[i][fd]] = "served" /\ fdOf[connectionMap[i][fd]] = fd

\* A connection being destroyed has left the maps and is destroyed by one worker.
ClosedOnce ==
  /\ \A i \in Services : svcPc[i] = "close" =>
       closing[i] \in Clients /\ client[closing[i]] = "closing"
  /\ \A i, j \in Services :
       svcPc[i] = "close" /\ svcPc[j] = "close" /\ closing[i] = closing[j] => i = j

OwnInv ==
  DistinctFds /\ HandedOverOnce /\ MapsHoldServed /\ ClosedOnce /\ UniqueOwner /\ NeverDropped

\* The place of a service in a round: main begins with service 1.
Place(i) == IF i = 0 THEN NetWorkServiceNum ELSE i

\* The services that have had their connection of this round.
Turn(i) == IF Place(i) < Place(cur) \/ (i = cur /\ mainPc # "put") THEN 1 ELSE 0

\* Those are one ahead of the others.
RoundRobin == \A i, j \in Services : given[i] - given[j] = Turn(i) - Turn(j)
-----------------------------------------------------------------------------
(* Types                                                                   *)

\* The server before start() is well formed, and main has nobody in hand.
LEMMA TypeInit == Init => TypeOK /\ (mainPc = "put" => inHand \in Clients)
<1> SUFFICES ASSUME Init
             PROVE  TypeOK /\ mainPc # "put"
  OBVIOUS
<1>1. 0 \in Services
  BY NumAssumption DEF Services
<1>2. (CHOOSE fd \in Fds : TRUE) \in Fds
  BY FdsAssumption
<1>3. fdOf \in [Clients -> Fds]
  BY <1>2 DEF Init
<1>4. QED
  BY <1>1, <1>3, NumAssumption DEF Init, TypeOK, Services, Free, Unborn

\* Every step of main, the pool, the workers and the clients keeps the types;
\* what main puts into a mailbox is a client because it has accepted one.
LEMMA TypeStep ==
  TypeOK /\ (mainPc = "put" => inHand \in Clients) /\ [Next]_vars
    => TypeOK' /\ (mainPc = "put" => inHand \in Clients)'
<1> SUFFICES ASSUME TypeOK, mainPc = "put" => inHand \in Clients, [Next]_vars
             PROVE  TypeOK' /\ (mainPc' = "put" => inHand' \in Clients)
  OBVIOUS
<1>0. /\ NetWorkServiceNum \in Nat \ {0} /\ Services = 0 .. NetWorkServiceNum - 1
      /\ index \in Services
  BY NumAssumption DEF Services, TypeOK
<1>a. ASSUME index' \in {0, index} \/ (index + 1 # NetWorkServiceNum /\ index' = index + 1)
      PROVE  index' \in Services
  BY <1>0, <1>a
<1> USE DEF TypeOK
<1>1. CASE StartThread
  BY <1>1 DEF StartThread, svcVars, netVars, acceptVars
<1>2. CASE PostService
  <2>1. taskQueue' \in Seq(Services) /\ Len(taskQueue') <= TaskQueueCapacity
    BY <1>2, NumAssumption DEF PostService
  <2>2. index' \in Services
    BY <1>2, <1>a DEF PostService
  <2>3. QED
    BY <1>2, <2>1, <2>2 DEF PostService, netVars, acceptVars
<1>3. CASE WaitWorker
  <2>1. index' \in Services
    BY <1>3, <1>a DEF WaitWorker
  <2>2. QED
    BY <1>3, <2>1 DEF WaitWorker, poolVars, svcVars, netVars, acceptVars
<1>4. ASSUME NEW c \in Clients, NEW fd \in Fds, Accept(c, fd)
      PROVE  TypeOK' /\ (mainPc' = "put" => inHand' \in Clients)
  <2>1. cur' \in Services
    BY <1>4, <1>0 DEF Accept, NextServiceIndex
  <2>2. QED
    BY <1>4, <2>1 DEF Accept, poolVars, svcVars
<1>5. CASE NotifyPut
  <2>1. mailbox' \in [Services -> Seq(Clients)]
    BY <1>5 DEF NotifyPut
  <2>2. \A i \in Services : Len(mailbox'[i]) <= MailboxCapacity
    BY <1>5, NumAssumption DEF NotifyPut
  <2>3. QED
    BY <1>5, <2>1, <2>2 DEF NotifyPut, poolVars, netVars
<1>6. CASE NotifyWrite
  BY <1>6 DEF NotifyWrite, poolVars, netVars
<1>7. ASSUME NEW p \in Threads, TakeTask(p)
      PROVE  TypeOK' /\ (mainPc' = "put" => inHand' \in Clients)
  <2>1. Head(taskQueue) \in Services /\ taskQueue' \in Seq(Services)
        /\ Len(taskQueue') <= TaskQueueCapacity
    BY <1>7, HeadTailProperties, NumAssumption DEF TakeTask
  <2>2. QED
    BY <1>7, <2>1 DEF TakeTask, netVars, acceptVars
<1>8. ASSUME NEW i \in Services, OpenEventFd(i) \/ Regist(i) \/ OnStart(i)
      PROVE  TypeOK' /\ (mainPc' = "put" => inHand' \in Clients)
  BY <1>8 DEF OpenEventFd, Regist, OnStart, Move, poolVars, netVars, acceptVars
<1>9. ASSUME NEW i \in Services, OnNewConnect(i)
      PROVE  TypeOK' /\ (mainPc' = "put" => inHand' \in Clients)
  <2>1. /\ Head(mailbox[i]) \in Clients /\ Tail(mailbox[i]) \in Seq(Clients)
        /\ Len(Tail(mailbox[i])) = Len(mailbox[i]) - 1 /\ Len(mailbox[i]) \in Nat
    BY <1>9, HeadTailProperties DEF OnNewConnect
  <2>2. /\ mailbox' \in [Services -> Seq(Clients)]
        /\ \A j \in Services : Len(mailbox'[j]) <= MailboxCapacity
    <3>1. mailbox' = [mailbox EXCEPT ![i] = Tail(mailbox[i])]
      BY <1>9 DEF OnNewConnect
    <3>2. mailbox' \in [Services -> Seq(Clients)]
      BY <2>1, <3>1
    <3>3. \A j \in Services : mailbox'[j] = IF j = i THEN Tail(mailbox[i]) ELSE mailbox[j]
      BY <3>1
    <3>4. \A j \in Services : Len(mailbox'[j]) <= MailboxCapacity
      <4>1. \A j \in Services : Len(mailbox[j]) <= MailboxCapacity
        BY DEF TypeOK
      <4>2. Len(Tail(mailbox[i])) <= MailboxCapacity
        BY <2>1, <4>1, NumAssumption
      <4>3. QED
        BY <3>3, <4>1, <4>2
    <3>5. QED
      BY <3>2, <3>4
  <2>3. token' \in [Services -> Nat]
    BY <1>9 DEF OnNewConnect
  <2>4. connectionMap' \in [Services -> [Fds -> Clients \cup {NoClient}]]
    BY <1>9, <2>1, SMTT(30) DEF OnNewConnect
  <2>5. QED
    BY <1>9, <2>2, <2>3, <2>4 DEF OnNewConnect, poolVars, acceptVars
<1>10. ASSUME NEW i \in Services, NEW fd \in Fds, RemoveConnection(i, fd)
       PROVE  TypeOK' /\ (mainPc' = "put" => inHand' \in Clients)
  BY <1>10, SMTT(30) DEF RemoveConnection, Move, poolVars, acceptVars
<1>11. ASSUME NEW i \in Services, DestroyStream(i)
       PROVE  TypeOK' /\ (mainPc' = "put" => inHand' \in Clients)
  BY <1>11 DEF DestroyStream, Move, poolVars, acceptVars
<1>12. ASSUME NEW c \in Clients, Connect(c)
       PROVE  TypeOK' /\ (mainPc' = "put" => inHand' \in Clients)
  BY <1>12 DEF Connect, poolVars, svcVars, acceptVars
<1>13. CASE UNCHANGED vars
  BY <1>13 DEF vars, poolVars, svcVars, netVars, acceptVars
<1>14. QED
  BY <1>1, <1>2, <1>3, <1>4, <1>5, <1>6, <1>7, <1>8, <1>9, <1>10, <1>11, <1>12, <1>13
     DEF Next, MainStep, ServiceStep

\* The states of the server are well formed: curServiceIndex_ names a service
\* and the queues keep their limits.
THEOREM ServerTypeCorrect == Spec => []TypeOK
BY TypeInit, TypeStep, PTL DEF Spec

-----------------------------------------------------------------------------
(* Ownership of descriptors                                                *)

\* Nobody owns anything before start().
LEMMA OwnInit == Init => OwnInv
BY NumAssumption
   DEF Init, OwnInv, DistinctFds, HandedOverOnce, MapsHoldServed, ClosedOnce, UniqueOwner,
       NeverDropped, OpenStates

\* Steps that leave clients, descriptors, mailboxes and maps alone and neither
\* begin nor end the destruction of a connection.
LEMMA OwnIdle ==
  ASSUME TypeOK, OwnInv,
         UNCHANGED <<client, fdOf, mailbox, connectionMap, closing>>,
         mainPc' \in {"put", "write"} => mainPc' = mainPc /\ inHand' = inHand,
         \A i \in Services : svcPc'[i] = "close" => svcPc[i] = "close"
  PROVE  OwnInv'
BY DEF OwnInv, DistinctFds, HandedOverOnce, MapsHoldServed, ClosedOnce, UniqueOwner, NeverDropped

\* Accept: the descriptor is one that no open connection has.
LEMMA OwnAccept ==
  ASSUME TypeOK, OwnInv, NEW c \in Clients, NEW fd \in Fds, Accept(c, fd)
  PROVE  OwnInv'
<1>1. /\ client[c] = "connecting"
      /\ client' = [client EXCEPT ![c] = "accepted"]
      /\ fdOf' = [fdOf EXCEPT ![c] = fd]
      /\ inHand' = c /\ mainPc' = "put"
      /\ UNCHANGED <<mailbox, connectionMap, closing, svcPc>>
      /\ \A d \in Clients : client[d] \in OpenStates => fdOf[d] # fd
  BY DEF Accept, Open, OpenStates, svcVars
<1>2. \A d \in Clients \ {c} : client'[d] = client[d] /\ fdOf'[d] = fdOf[d]
  BY <1>1 DEF TypeOK
<1>3. client'[c] = "accepted" /\ fdOf'[c] = fd
  BY <1>1 DEF TypeOK
<1>4. DistinctFds'
  BY <1>1, <1>2, <1>3 DEF OwnInv, DistinctFds
<1>5. \A i \in Services : \A k \in 1 .. Len(mailbox[i]) :
        mailbox[i][k] \in Clients /\ mailbox[i][k] # c
  BY <1>1 DEF TypeOK, OwnInv, HandedOverOnce
<1>6. HandedOverOnce'
  BY <1>1, <1>2, <1>3, <1>5 DEF OwnInv, HandedOverOnce
<1>7. MapsHoldServed'
  BY <1>1, <1>2 DEF TypeOK, OwnInv, MapsHoldServed
<1>8. ClosedOnce'
  BY <1>1, <1>2 DEF OwnInv, ClosedOnce
<1>9. UniqueOwner' /\ NeverDropped'
  BY <1>1, <1>2, <1>3 DEF OwnInv, UniqueOwner, NeverDropped
<1>10. QED
  BY <1>4, <1>6, <1>7, <1>8, <1>9 DEF OwnInv

\* notifyMsg: the client moves from main's hand to the end of one mailbox.
LEMMA OwnPut ==
  ASSUME TypeOK, OwnInv, NotifyPut
  PROVE  OwnInv'
<1>1. /\ mainPc = "put" /\ mainPc' = "write" /\ inHand' = inHand /\ inHand \in Clients
      /\ mailbox' = [mailbox EXCEPT ![cur] = Append(mailbox[cur], inHand)]
      /\ UNCHANGED <<client, fdOf, connectionMap, closing, svcPc>>
      /\ cur \in Services
  BY DEF NotifyPut, netVars, OwnInv, HandedOverOnce, TypeOK
<1>2. \A i \in Services : mailbox[i] \in Seq(Clients) /\ Len(mailbox[i]) \in Nat
  BY DEF TypeOK
<1>3. /\ Len(mailbox'[cur]) = Len(mailbox[cur]) + 1
      /\ mailbox'[cur][Len(mailbox[cur]) + 1] = inHand
      /\ \A k \in 1 .. Len(mailbox[cur]) : mailbox'[cur][k] = mailbox[cur][k]
      /\ \A i \in Services \ {cur} : mailbox'[i] = mailbox[i]
  BY <1>1, <1>2 DEF TypeOK
<1>4. \A i \in Services : \A k \in 1 .. Len(mailbox[i]) : mailbox[i][k] # inHand
  BY <1>1 DEF OwnInv, HandedOverOnce
<1>5. \A i \in Services : \A k \in 1 .. Len(mailbox'[i]) :
        \/ k \in 1 .. Len(mailbox[i]) /\ mailbox'[i][k] = mailbox[i][k] /\ mailbox'[i][k] # inHand
        \/ i = cur /\ k = Len(mailbox[i]) + 1 /\ mailbox'[i][k] = inHand
  BY <1>1, <1>2, <1>3, <1>4
<1>6. \A i \in Services : \A k \in 1 .. Len(mailbox'[i]) : client[mailbox'[i][k]] = "accepted"
  BY <1>1, <1>5 DEF OwnInv, HandedOverOnce
<1>7. \A i, j \in Services : \A k \in 1 .. Len(mailbox'[i]), l \in 1 .. Len(mailbox'[j]) :
        mailbox'[i][k] = mailbox'[j][l] => i = j /\ k = l
  BY <1>5 DEF OwnInv, HandedOverOnce
<1>8. HandedOverOnce'
  BY <1>1, <1>6, <1>7 DEF HandedOverOnce
<1>9. DistinctFds' /\ MapsHoldServed' /\ ClosedOnce' /\ UniqueOwner' /\ NeverDropped'
  BY <1>1 DEF OwnInv, DistinctFds, MapsHoldServed, ClosedOnce, UniqueOwner, NeverDropped
<1>10. QED
  BY <1>8, <1>9 DEF OwnInv

\* onMessage: every map's place for this descriptor is free, as whoever has it
\* is served, open and so the same client; the new entry is the only one.
LEMMA OwnNewConnect ==
  ASSUME TypeOK, OwnInv, NEW i \in Services, OnNewConnect(i)
  PROVE  OwnInv'
<1> DEFINE c == Head(mailbox[i])
           Old(j, k) == IF j = i THEN k + 1 ELSE k
<1>1. /\ mailbox[i] \in Seq(Clients) /\ mailbox[i] # << >>
      /\ mailbox' = [mailbox EXCEPT ![i] = Tail(mailbox[i])]
      /\ UNCHANGED <<mainPc, svcPc, closing, fdOf, inHand>>
  BY DEF OnNewConnect, TypeOK, acceptVars
<1>2. /\ Len(mailbox[i]) \in Nat \ {0} /\ c = mailbox[i][1] /\ c \in Clients
      /\ Len(Tail(mailbox[i])) = Len(mailbox[i]) - 1
      /\ \A k \in 1 .. Len(mailbox[i]) - 1 : Tail(mailbox[i])[k] = mailbox[i][k + 1]
  BY <1>1, HeadTailProperties, LenProperties
<1>3. client[c] = "accepted"
  BY <1>2 DEF OwnInv, HandedOverOnce
<1>4. \A j \in Services : connectionMap[j][fdOf[c]] = NoClient
  BY <1>2, <1>3 DEF TypeOK, OwnInv, MapsHoldServed, DistinctFds, OpenStates
<1>5. /\ connectionMap' = [connectionMap EXCEPT ![i][fdOf[c]] = c]
      /\ client' = [client EXCEPT ![c] = "served"]
  BY <1>4 DEF OnNewConnect
<1>6. /\ client'[c] = "served" /\ \A d \in Clients \ {c} : client'[d] = client[d]
      /\ fdOf[c] \in Fds
  BY <1>2, <1>5 DEF TypeOK
<1>7. \A j \in Services, fd \in Fds :
        connectionMap'[j][fd] = IF j = i /\ fd = fdOf[c] THEN c ELSE connectionMap[j][fd]
  BY <1>5, <1>6 DEF TypeOK
<1>8. \A j \in Services : mailbox'[j] = IF j = i THEN Tail(mailbox[i]) ELSE mailbox[j]
  BY <1>1 DEF TypeOK
<1>9. \A j \in Services : Len(mailbox[j]) \in Nat
  BY DEF TypeOK
<1>10. ASSUME NEW j \in Services, NEW k \in 1 .. Len(mailbox'[j])
       PROVE  /\ Old(j, k) \in 1 .. Len(mailbox[j])
              /\ mailbox'[j][k] = mailbox[j][Old(j, k)]
              /\ mailbox[j][Old(j, k)] # c
              /\ mailbox[j][Old(j, k)] \in Clients
  <2>1. Old(j, k) \in 1 .. Len(mailbox[j]) /\ (j = i => Old(j, k) # 1)
    <3>1. CASE j = i
      <4>1. k \in 1 .. Len(mailbox[i]) - 1 /\ Len(mailbox[i]) \in Nat
        BY <1>2, <1>8, <3>1
      <4>2. QED
        BY <3>1, <4>1
    <3>2. CASE j # i
      BY <1>8, <3>2
    <3>3. QED
      BY <3>1, <3>2
  <2>2. mailbox'[j][k] = mailbox[j][Old(j, k)]
    BY <1>2, <1>8
  <2>3. mailbox[j][Old(j, k)] # c
    <3>1. 1 \in 1 .. Len(mailbox[i])
      BY <1>2
    <3>2. mailbox[j][Old(j, k)] = mailbox[i][1] => j = i /\ Old(j, k) = 1
      BY <2>1, <3>1, SMTT(30) DEF OwnInv, HandedOverOnce
    <3>3. QED
      BY <1>2, <2>1, <3>2
  <2>4. mailbox[j][Old(j, k)] \in Clients
    <3>1. mailbox[j] \in Seq(Clients)
      BY DEF TypeOK
    <3>2. QED
      BY <2>1, <3>1
  <2>5. QED
    BY <2>1, <2>2, <2>3, <2>4
<1>11. ASSUME NEW j \in Services, NEW k \in 1 .. Len(mailbox'[j])
       PROVE  client'[mailbox'[j][k]] = "accepted"
  <2>1. client[mailbox[j][Old(j, k)]] = "accepted"
    BY <1>10 DEF OwnInv, HandedOverOnce
  <2>2. QED
    BY <1>6, <1>10, <2>1
<1>12. mainPc = "put" =>
         /\ inHand # c /\ client'[inHand] = "accepted"
         /\ \A j \in Services : \A k \in 1 .. Len(mailbox'[j]) : mailbox'[j][k] # inHand
  BY <1>2, <1>6, <1>10 DEF OwnInv, HandedOverOnce
<1>13. ASSUME NEW j \in Services, NEW m \in Services,
              NEW k \in 1 .. Len(mailbox'[j]), NEW l \in 1 .. Len(mailbox'[m]),
              mailbox'[j][k] = mailbox'[m][l]
       PROVE  j = m /\ k = l
  <2>1. mailbox[j][Old(j, k)] = mailbox[m][Old(m, l)]
    BY <1>10, <1>13
  <2>2. j = m /\ Old(j, k) = Old(m, l)
    BY <1>10, <2>1 DEF OwnInv, HandedOverOnce
  <2>3. k \in Int /\ l \in Int
    OBVIOUS
  <2>4. QED
    BY <2>2, <2>3
<1>14. HandedOverOnce'
  <2>1. mainPc \in {"put", "write"} => inHand \in Clients
    BY DEF OwnInv, HandedOverOnce
  <2>2. QED
    BY <1>1, <1>11, <1>12, <1>13, <2>1, ZenonT(40) DEF HandedOverOnce
<1>15. DistinctFds'
  BY <1>1, <1>3, <1>6 DEF OwnInv, DistinctFds, OpenStates
<1>16. MapsHoldServed'
  <2> SUFFICES ASSUME NEW j \in Services, NEW fd \in Fds, connectionMap'[j][fd] # NoClient
               PROVE  /\ client'[connectionMap'[j][fd]] = "served"
                      /\ fdOf[connectionMap'[j][fd]] = fd
    BY <1>1 DEF MapsHoldServed
  <2>1. CASE j = i /\ fd = fdOf[c]
    BY <1>6, <1>7, <2>1
  <2>2. CASE ~(j = i /\ fd = fdOf[c])
    <3>1. connectionMap'[j][fd] = connectionMap[j][fd] /\ connectionMap[j][fd] \in Clients
      BY <1>7, <2>2 DEF TypeOK
    <3>2. client[connectionMap[j][fd]] = "served" /\ fdOf[connectionMap[j][fd]] = fd
      BY <3>1 DEF OwnInv, MapsHoldServed
    <3>3. QED
      BY <1>6, <3>1, <3>2
  <2>3. QED
    BY <2>1, <2>2
<1>17. ClosedOnce'
  BY <1>1, <1>3, <1>6 DEF OwnInv, ClosedOnce
<1>18. UniqueOwner'
  BY <1>4, <1>7 DEF OwnInv, UniqueOwner
<1>19. NeverDropped'
  BY <1>6 DEF OwnInv, NeverDropped
<1>20. QED
  BY <1>14, <1>15, <1>16, <1>17, <1>18, <1>19 DEF OwnInv

\* destroy: the client leaves the only map that has it.
LEMMA OwnRemove ==
  ASSUME TypeOK, OwnInv, NEW i \in Services, NEW fd \in Fds, RemoveConnection(i, fd)
  PROVE  OwnInv'
<1> DEFINE c == connectionMap[i][fd]
<1>1. /\ c # NoClient /\ svcPc[i] = "loop"
      /\ svcPc' = [svcPc EXCEPT ![i] = "close"]
      /\ closing' = [closing EXCEPT ![i] = c]
      /\ client' = [client EXCEPT ![c] = "closing"]
      /\ connectionMap' = [connectionMap EXCEPT ![i][fd] = NoClient]
      /\ UNCHANGED <<mainPc, inHand, mailbox, fdOf>>
  BY DEF RemoveConnection, Move, acceptVars
<1>2. c \in Clients /\ client[c] = "served" /\ fdOf[c] = fd
  BY <1>1 DEF TypeOK, OwnInv, MapsHoldServed
<1>3. client'[c] = "closing" /\ \A d \in Clients \ {c} : client'[d] = client[d]
  BY <1>1, <1>2 DEF TypeOK
<1>4. \A j \in Services, f \in Fds :
        connectionMap'[j][f] = IF j = i /\ f = fd THEN NoClient ELSE connectionMap[j][f]
  BY <1>1 DEF TypeOK
<1>5. \A j \in Services, f \in Fds : connectionMap'[j][f] # c
  BY <1>1, <1>2, <1>4, NoClientAssumption DEF OwnInv, MapsHoldServed, UniqueOwner
<1>6. \A j \in Services :
        /\ svcPc'[j] = IF j = i THEN "close" ELSE svcPc[j]
        /\ closing'[j] = IF j = i THEN c ELSE closing[j]
  BY <1>1 DEF TypeOK
<1>7. DistinctFds'
  BY <1>1, <1>2, <1>3 DEF OwnInv, DistinctFds, OpenStates
<1>8. HandedOverOnce'
  <2>1. \A j \in Services : \A k \in 1 .. Len(mailbox[j]) :
          mailbox[j][k] \in Clients /\ mailbox[j][k] # c
    <3>1. \A j \in Services : mailbox[j] \in Seq(Clients)
      BY DEF TypeOK
    <3>2. \A j \in Services : \A k \in 1 .. Len(mailbox[j]) : mailbox[j][k] \in Clients
      BY <3>1
    <3>3. QED
      BY <1>2, <3>2 DEF OwnInv, HandedOverOnce
  <2>2. mainPc = "put" => inHand \in Clients /\ inHand # c
    BY <1>2 DEF OwnInv, HandedOverOnce
  <2>3. QED
    BY <1>1, <1>3, <2>1, <2>2 DEF OwnInv, HandedOverOnce
<1>9. MapsHoldServed'
  BY <1>1, <1>3, <1>4, <1>5 DEF TypeOK, OwnInv, MapsHoldServed
<1>10. ClosedOnce'
  BY <1>2, <1>3, <1>6 DEF OwnInv, ClosedOnce
<1>11. UniqueOwner' /\ NeverDropped'
  BY <1>3, <1>4 DEF OwnInv, UniqueOwner, NeverDropped
<1>12. QED
  BY <1>7, <1>8, <1>9, <1>10, <1>11 DEF OwnInv

\* ~Stream: only now the descriptor may be given out again.
LEMMA OwnDestroy ==
  ASSUME TypeOK, OwnInv, NEW i \in Services, DestroyStream(i)
  PROVE  OwnInv'
<1> DEFINE c == closing[i]
<1>1. /\ svcPc[i] = "close"
      /\ svcPc' = [svcPc EXCEPT ![i] = "loop"]
      /\ closing' = [closing EXCEPT ![i] = NoClient]
      /\ client' = [client EXCEPT ![c] = "gone"]
      /\ UNCHANGED <<mainPc, inHand, mailbox, connectionMap, fdOf>>
  BY DEF DestroyStream, Move, acceptVars
<1>2. c \in Clients /\ client[c] = "closing"
  BY <1>1 DEF OwnInv, ClosedOnce
<1>3. client'[c] = "gone" /\ \A d \in Clients \ {c} : client'[d] = client[d]
  BY <1>1, <1>2 DEF TypeOK
<1>4. \A j \in Services : svcPc'[j] = "close" =>
        j # i /\ svcPc[j] = "close" /\ closing'[j] = closing[j] /\ closing[j] # c
  BY <1>1 DEF TypeOK, OwnInv, ClosedOnce
<1>5. DistinctFds'
  BY <1>1, <1>2, <1>3 DEF OwnInv, DistinctFds, OpenStates
<1>6. HandedOverOnce'
  <2>1. \A j \in Services : \A k \in 1 .. Len(mailbox[j]) :
          mailbox[j][k] \in Clients /\ mailbox[j][k] # c
    <3>1. \A j \in Services : mailbox[j] \in Seq(Clients)
      BY DEF TypeOK
    <3>2. \A j \in Services : \A k \in 1 .. Len(mailbox[j]) : mailbox[j][k] \in Clients
      BY <3>1
    <3>3. QED
      BY <1>2, <3>2 DEF OwnInv, HandedOverOnce
  <2>2. mainPc = "put" => inHand \in Clients /\ inHand # c
    BY <1>2 DEF OwnInv, HandedOverOnce
  <2>3. QED
    BY <1>1, <1>3, <2>1, <2>2 DEF OwnInv, HandedOverOnce
<1>7. MapsHoldServed'
  BY <1>1, <1>2, <1>3 DEF TypeOK, OwnInv, MapsHoldServed
<1>8. ClosedOnce'
  BY <1>3, <1>4 DEF OwnInv, ClosedOnce
<1>9. UniqueOwner' /\ NeverDropped'
  BY <1>1, <1>3 DEF OwnInv, UniqueOwner, NeverDropped
<1>10. QED
  BY <1>5, <1>6, <1>7, <1>8, <1>9 DEF OwnInv

\* A client that connects has no descriptor yet.
LEMMA OwnConnect ==
  ASSUME TypeOK, OwnInv, NEW c \in Clients, Connect(c)
  PROVE  OwnInv'
<1>1. /\ client[c] = "away"
      /\ client' = [client EXCEPT ![c] = "connecting"]
      /\ UNCHANGED <<mainPc, inHand, mailbox, connectionMap, closing, svcPc, fdOf>>
  BY DEF Connect, svcVars, acceptVars
<1>2. client'[c] = "connecting" /\ \A d \in Clients \ {c} : client'[d] = client[d]
  BY <1>1 DEF TypeOK
<1>3. DistinctFds'
  BY <1>1, <1>2 DEF OwnInv, DistinctFds, OpenStates
<1>4. HandedOverOnce'
  <2>1. \A j \in Services : \A k \in 1 .. Len(mailbox[j]) :
          mailbox[j][k] \in Clients /\ mailbox[j][k] # c
    BY <1>1 DEF TypeOK, OwnInv, HandedOverOnce
  <2>2. mainPc = "put" => inHand \in Clients /\ inHand # c
    BY <1>1 DEF OwnInv, HandedOverOnce
  <2>3. QED
    BY <1>1, <1>2, <2>1, <2>2 DEF OwnInv, HandedOverOnce
<1>5. MapsHoldServed'
  BY <1>1, <1>2 DEF TypeOK, OwnInv, MapsHoldServed
<1>6. ClosedOnce'
  BY <1>1, <1>2 DEF OwnInv, ClosedOnce
<1>7. UniqueOwner' /\ NeverDropped'
  BY <1>1, <1>2 DEF OwnInv, UniqueOwner, NeverDropped
<1>8. QED
  BY <1>3, <1>4, <1>5, <1>6, <1>7 DEF OwnInv

\* The ownership invariant holds in every state.
LEMMA OwnInvariant == Spec => []OwnInv
<1>1. TypeOK /\ OwnInv /\ [Next]_vars => OwnInv'
  <2> SUFFICES ASSUME TypeOK, OwnInv, [Next]_vars
               PROVE  OwnInv'
    OBVIOUS
  <2>1. CASE StartThread
    BY <2>1, OwnIdle DEF StartThread, svcVars, netVars, acceptVars
  <2>2. CASE PostService
    <3>1. \A i \in Services : svcPc'[i] = "close" => svcPc[i] = "close"
      BY <2>2 DEF PostService, TypeOK
    <3>2. QED
      BY <2>2, <3>1, OwnIdle DEF PostService, netVars, acceptVars
  <2>3. CASE WaitWorker
    BY <2>3, OwnIdle DEF WaitWorker, svcVars, netVars, acceptVars
  <2>4. CASE NotifyWrite
    BY <2>4, OwnIdle DEF NotifyWrite, netVars
  <2>5. ASSUME NEW p \in Threads, TakeTask(p)
        PROVE  OwnInv'
    <3>1. \A i \in Services : svcPc'[i] = "close" => svcPc[i] = "close"
      BY <2>5 DEF TakeTask, TypeOK
    <3>2. QED
      BY <2>5, <3>1, OwnIdle DEF TakeTask, netVars, acceptVars
  <2>6. ASSUME NEW i \in Services, OpenEventFd(i) \/ Regist(i) \/ OnStart(i)
        PROVE  OwnInv'
    <3>1. \A j \in Services : svcPc'[j] = "close" => svcPc[j] = "close"
      BY <2>6 DEF OpenEventFd, Regist, OnStart, Move, TypeOK
    <3>2. QED
      BY <2>6, <3>1, OwnIdle DEF OpenEventFd, Regist, OnStart, netVars, acceptVars
  <2>7. CASE UNCHANGED vars
    BY <2>7, OwnIdle DEF vars, svcVars, netVars, acceptVars
  <2>8. QED
    BY <2>1, <2>2, <2>3, <2>4, <2>5, <2>6, <2>7,
       OwnAccept, OwnPut, OwnNewConnect, OwnRemove, OwnDestroy, OwnConnect
       DEF Next, MainStep, ServiceStep
<1>2. QED
  BY <1>1, OwnInit, ServerTypeCorrect, PTL DEF Spec

\* A descriptor belongs to at most one connection of one worker, however the
\* kernel gives the numbers of closed descriptors out again.
THEOREM OwnersAreUnique == Spec => []UniqueOwner
<1>1. OwnInv => UniqueOwner
  BY DEF OwnInv
<1>2. QED
  BY <1>1, OwnInvariant, PTL

\* No client is dropped because its descriptor is still in a map.
THEOREM NobodyIsDropped == Spec => []NeverDropped
<1>1. OwnInv => NeverDropped
  BY DEF OwnInv
<1>2. QED
  BY <1>1, OwnInvariant, PTL

-----------------------------------------------------------------------------
(* Round robin                                                             *)

\* Nobody has been given a connection, which is a complete round.
LEMMA RoundInit == Init => RoundRobin
BY NumAssumption DEF Init, RoundRobin, Turn, Place, Services

\* The index moves by one place and the service it names gets one connection.
LEMMA RoundStep == TypeOK /\ RoundRobin /\ [Next]_vars => RoundRobin'
<1> SUFFICES ASSUME TypeOK, RoundRobin, [Next]_vars
             PROVE  RoundRobin'
  OBVIOUS
<1>0. /\ NetWorkServiceNum \in Nat \ {0} /\ Services = 0 .. NetWorkServiceNum - 1
      /\ cur \in Services /\ \A i \in Services : given[i] \in Nat
  BY NumAssumption DEF TypeOK, Services
<1>1. ASSUME UNCHANGED <<cur, given>>, mainPc' = "put" <=> mainPc = "put"
      PROVE  RoundRobin'
  BY <1>1 DEF RoundRobin, Turn, Place
<1>2. ASSUME NEW c \in Clients, NEW fd \in Fds, Accept(c, fd)
      PROVE  RoundRobin'
  <2>1. /\ mainPc = "loop" /\ mainPc' = "put" /\ given' = given
        /\ cur' = IF cur + 1 = NetWorkServiceNum THEN 0 ELSE cur + 1
    BY <1>2 DEF Accept, NextServiceIndex
  <2>2. CASE cur = 0
    <3>1. \A i \in Services : Turn(i) = 1
      BY <1>0, <2>1, <2>2 DEF Turn, Place
    <3>2. \A i \in Services : Turn(i)' = 0
      BY <1>0, <2>1, <2>2 DEF Turn, Place
    <3>3. QED
      BY <2>1, <3>1, <3>2 DEF RoundRobin
  <2>3. CASE cur # 0
    <3>1. \A i \in Services : Turn(i)' = Turn(i)
      BY <1>0, <2>1, <2>3 DEF Turn, Place
    <3>2. QED
      BY <2>1, <3>1 DEF RoundRobin
  <2>4. QED
    BY <2>2, <2>3
<1>3. CASE NotifyPut
  <2>1. /\ mainPc = "put" /\ mainPc' = "write" /\ cur' = cur
        /\ given' = [given EXCEPT ![cur] = given[cur] + 1]
    BY <1>3 DEF NotifyPut
  <2>2. \A i \in Services : given'[i] = given[i] + (IF i = cur THEN 1 ELSE 0)
    BY <1>0, <2>1, SMTT(30) DEF TypeOK
  <2>3. \A i \in Services : /\ Turn(i)' = Turn(i) + (IF i = cur THEN 1 ELSE 0)
                            /\ Turn(i) \in Int
    BY <1>0, <2>1 DEF Turn, Place
  <2>4. ASSUME NEW i \in Services, NEW j \in Services
        PROVE  given'[i] - given'[j] = Turn(i)' - Turn(j)'
    <3>1. given[i] - given[j] = Turn(i) - Turn(j)
      BY DEF RoundRobin
    <3> HIDE DEF Turn
    <3>2. given[i] \in Int /\ given[j] \in Int /\ Turn(i) \in Int /\ Turn(j) \in Int
      BY <1>0, <2>3
    <3>3. QED
      BY <2>2, <2>3, <3>1, <3>2
  <2>5. QED
    BY <2>4 DEF RoundRobin
<1>4. CASE StartThread \/ PostService \/ WaitWorker
  BY <1>1, <1>4 DEF StartThread, PostService, WaitWorker, acceptVars
<1>5. CASE NotifyWrite
  BY <1>1, <1>5 DEF NotifyWrite
<1>6. ASSUME NEW p \in Threads, TakeTask(p)
      PROVE  RoundRobin'
  BY <1>1, <1>6 DEF TakeTask, acceptVars
<1>7. ASSUME NEW i \in Services, ServiceStep(i)
      PROVE  RoundRobin'
  BY <1>1, <1>7
     DEF ServiceStep, OpenEventFd, Regist, OnStart, OnNewConnect, DestroyStream, acceptVars
<1>8. ASSUME NEW i \in Services, NEW fd \in Fds, RemoveConnection(i, fd)
      PROVE  RoundRobin'
  BY <1>1, <1>8 DEF RemoveConnection, acceptVars
<1>9. ASSUME NEW c \in Clients, Connect(c)
      PROVE  RoundRobin'
  BY <1>1, <1>9 DEF Connect, acceptVars
<1>10. CASE UNCHANGED vars
  BY <1>1, <1>10 DEF vars, acceptVars
<1>11. QED
  BY <1>2, <1>3, <1>4, <1>5, <1>6, <1>7, <1>8, <1>9, <1>10 DEF Next, MainStep

\* _nextServiceIndex shares the connections out evenly among any number of
\* workers, at every moment.
THEOREM SharesAreBalanced == Spec => []Balanced
<1>1. TypeOK /\ RoundRobin => Balanced
  <2> SUFFICES ASSUME RoundRobin, NEW i \in Services, NEW j \in Services
               PROVE  given[i] - given[j] \in -1 .. 1
    BY DEF Balanced
  <2>1. given[i] - given[j] = Turn(i) - Turn(j)
    BY DEF RoundRobin
  <2>2. Turn(i) \in {0, 1} /\ Turn(j) \in {0, 1}
    BY DEF Turn
  <2>3. QED
    BY <2>1, <2>2
<1>2. QED
  BY <1>1, RoundInit, RoundStep, ServerTypeCorrect, PTL DEF Spec

-----------------------------------------------------------------------------
(* Start-up                                                                *)

\* Main has got through start().
Accepting == mainPc \in {"loop", "put", "write"}

\* A service in the task queue is there once, and nobody has started it.
QueuedWaits ==
  /\ \A k \in 1 .. Len(taskQueue) : svcPc[taskQueue[k]] = "posted"
  /\ \A k, l \in 1 .. Len(taskQueue) : taskQueue[k] = taskQueue[l] => k = l

\* How far main has come with the services, and with the threads.
Progress ==
  /\ mainPc = "startThreadPool" => index = 0
  /\ mainPc \in {"startThreadPool", "startNetWorkService"} =>
       \A i \in Services : i >= index => svcPc[i] = "none"
  /\ mainPc = "waitWorkers" => \A i \in Services : i < index => Registered(i)
  /\ Accepting => \A i \in Services : Registered(i)
  /\ mainPc # "startThreadPool" => \A p \in Threads : thread[p] # Unborn

\* A service that has been started runs on one thread.
OneThreadEach ==
  /\ \A p \in Threads : thread[p] \in Services => svcPc[thread[p]] \notin {"none", "posted"}
  /\ \A p, q \in Threads : thread[p] \in Services /\ thread[p] = thread[q] => p = q

StartInv == QueuedWaits /\ Progress /\ OneThreadEach

\* A service that waits in the task queue finds a thread that has nothing to
\* do: allNum counts a thread for each service (TcpServer.cpp:32), and services
\* never give theirs back.
ThreadForEveryService == taskQueue # << >> => \E p \in Threads : thread[p] = Free

\* Before start() nothing is queued and nothing runs.
LEMMA StartInit == Init => StartInv
<1> SUFFICES ASSUME Init PROVE StartInv
  OBVIOUS
<1>1. Len(taskQueue) = 0
  BY DEF Init
<1>2. QueuedWaits
  BY <1>1 DEF QueuedWaits
<1>3. Progress
  BY DEF Init, Progress, Accepting
<1>4. OneThreadEach
  BY DEF Init, OneThreadEach, Unborn, Services
<1>5. QED
  BY <1>2, <1>3, <1>4 DEF StartInv

\* Steps that leave queue and threads alone and change a service only from one
\* state of its loop to another, or on its way to it.
LEMMA StartIdle ==
  ASSUME TypeOK, StartInv, UNCHANGED <<index, thread, taskQueue>>,
         mainPc' = mainPc \/ {mainPc, mainPc'} \subseteq {"loop", "put", "write"},
         \A j \in Services :
           svcPc'[j] # svcPc[j] =>
             svcPc[j] \notin {"none", "posted"} /\ svcPc'[j] \notin {"none", "posted"},
         \A j \in Services :
           svcPc[j] \in {"onStart", "loop", "close"} => svcPc'[j] \in {"onStart", "loop", "close"}
  PROVE  StartInv'
<1>1. QueuedWaits'
  <2>1. \A k \in 1 .. Len(taskQueue) : taskQueue[k] \in Services
    BY DEF TypeOK
  <2>2. QED
    BY <2>1 DEF QueuedWaits, StartInv
<1>2. Progress'
  BY DEF Progress, StartInv, Accepting, Registered
<1>3. OneThreadEach'
  BY DEF OneThreadEach, StartInv
<1>4. QED
  BY <1>1, <1>2, <1>3 DEF StartInv

\* The last thread has been created when all the others have.
LEMMA StartThreadStarts ==
  ASSUME TypeOK, StartInv, StartThread
  PROVE  StartInv'
<1>1. PICK p \in Threads :
        /\ thread[p] = Unborn
        /\ \A q \in Threads : q < p => thread[q] # Unborn
        /\ thread' = [thread EXCEPT ![p] = Free]
        /\ mainPc' = IF p = AllNum THEN "startNetWorkService" ELSE mainPc
  BY DEF StartThread
<1>2. UNCHANGED <<index, taskQueue, svcPc>> /\ mainPc = "startThreadPool"
  BY DEF StartThread, svcVars
<1>3. thread \in [Threads -> Services \cup {Free, Unborn}]
  BY DEF TypeOK
<1>4. Free # Unborn /\ Free \notin Services
  BY NumAssumption DEF Free, Unborn, Services
<1>5. QueuedWaits'
  BY <1>2 DEF QueuedWaits, StartInv
<1>6. Progress'
  <2>1. ASSUME mainPc' # "startThreadPool", NEW q \in Threads PROVE thread'[q] # Unborn
    <3>1. p = AllNum
      BY <1>1, <1>2, <2>1
    <3>2. q = p \/ q < p
      BY <3>1, NumAssumption DEF Threads, AllNum
    <3>3. QED
      BY <1>1, <1>3, <1>4, <3>2
  <2>2. mainPc' \in {"startThreadPool", "startNetWorkService"}
    BY <1>1, <1>2
  <2>3. QED
    BY <1>2, <2>1, <2>2 DEF Progress, StartInv, Accepting
<1>7. OneThreadEach'
  BY <1>1, <1>2, <1>3, <1>4 DEF OneThreadEach, StartInv
<1>8. QED
  BY <1>5, <1>6, <1>7 DEF StartInv

\* A service is posted once, in its turn.
LEMMA PostServiceStarts ==
  ASSUME TypeOK, StartInv, PostService
  PROVE  StartInv'
<1>1. /\ mainPc = "startNetWorkService" /\ index \in Services
      /\ svcPc' = [svcPc EXCEPT ![index] = "posted"]
      /\ taskQueue' = Append(taskQueue, index) /\ UNCHANGED thread
  BY DEF PostService, TypeOK
<1>2. svcPc[index] = "none"
  BY <1>1, NumAssumption DEF StartInv, Progress, Services
<1>3. \A j \in Services : svcPc'[j] = IF j = index THEN "posted" ELSE svcPc[j]
  BY <1>1 DEF TypeOK
<1>4. /\ Len(taskQueue') = Len(taskQueue) + 1 /\ Len(taskQueue) \in Nat
      /\ \A k \in 1 .. Len(taskQueue) : taskQueue'[k] = taskQueue[k] /\ taskQueue[k] \in Services
      /\ taskQueue'[Len(taskQueue) + 1] = index
  BY <1>1 DEF TypeOK
<1>5. \A k \in 1 .. Len(taskQueue) : taskQueue[k] # index
  BY <1>2 DEF StartInv, QueuedWaits
<1>6. QueuedWaits'
  <2>1. ASSUME NEW k \in 1 .. Len(taskQueue') PROVE svcPc'[taskQueue'[k]] = "posted"
    BY <1>1, <1>3, <1>4 DEF StartInv, QueuedWaits
  <2>2. ASSUME NEW k \in 1 .. Len(taskQueue'), NEW l \in 1 .. Len(taskQueue'),
               taskQueue'[k] = taskQueue'[l]
        PROVE  k = l
    BY <1>4, <1>5, <2>2 DEF StartInv, QueuedWaits
  <2>3. QED
    BY <2>1, <2>2 DEF QueuedWaits
<1>7. Progress'
  <2>1. CASE index + 1 = NetWorkServiceNum
    <3>1. mainPc' = "waitWorkers" /\ index' = 0
      BY <2>1 DEF PostService
    <3>2. QED
      BY <1>1, <3>1 DEF Progress, StartInv, Accepting, Services
  <2>2. CASE index + 1 # NetWorkServiceNum
    <3>1. mainPc' = mainPc /\ index' = index + 1
      BY <2>2 DEF PostService
    <3>2. ASSUME NEW i \in Services, i >= index + 1 PROVE svcPc'[i] = "none"
      BY <1>1, <1>3, <3>2, NumAssumption DEF StartInv, Progress, Services
    <3>3. QED
      BY <1>1, <3>1, <3>2 DEF Progress, StartInv, Accepting
  <2>3. QED
    BY <2>1, <2>2
<1>8. OneThreadEach'
  BY <1>1, <1>2, <1>3 DEF OneThreadEach, StartInv
<1>9. QED
  BY <1>6, <1>7, <1>8 DEF StartInv

\* Main passes a worker that is registered.
LEMMA WaitWorkerStarts ==
  ASSUME TypeOK, StartInv, WaitWorker
  PROVE  StartInv'
<1>1. /\ mainPc = "waitWorkers" /\ index \in Services /\ Registered(index)
      /\ UNCHANGED <<thread, taskQueue, svcPc>>
  BY DEF WaitWorker, TypeOK, poolVars, svcVars
<1>2. \A i \in Services : i <= index => Registered(i)
  BY <1>1, NumAssumption DEF StartInv, Progress, Services
<1>3. \A i \in Services : Registered(i)' <=> Registered(i)
  BY <1>1 DEF Registered
<1>4. Progress'
  <2>1. CASE index + 1 = NetWorkServiceNum
    <3>1. mainPc' = "loop"
      BY <2>1 DEF WaitWorker
    <3>2. \A i \in Services : i <= index
      BY <1>1, <2>1, NumAssumption DEF Services
    <3>3. QED
      BY <1>1, <1>2, <1>3, <3>1, <3>2 DEF Progress, StartInv, Accepting
  <2>2. CASE index + 1 # NetWorkServiceNum
    <3>1. mainPc' = mainPc /\ index' = index + 1
      BY <2>2 DEF WaitWorker
    <3>2. \A i \in Services : i < index + 1 => i <= index
      BY <1>1 DEF Services
    <3>3. QED
      BY <1>1, <1>2, <1>3, <3>1, <3>2 DEF Progress, StartInv, Accepting
  <2>3. QED
    BY <2>1, <2>2
<1>5. QueuedWaits' /\ OneThreadEach'
  BY <1>1 DEF QueuedWaits, OneThreadEach, StartInv
<1>6. QED
  BY <1>4, <1>5 DEF StartInv

\* A thread takes the oldest service, which nobody else runs.
LEMMA TakeTaskStarts ==
  ASSUME TypeOK, StartInv, NEW p \in Threads, TakeTask(p)
  PROVE  StartInv'
<1> DEFINE i == Head(taskQueue)
<1>1. /\ i \in Services /\ i = taskQueue[1] /\ Len(taskQueue) \in Nat \ {0}
      /\ Len(Tail(taskQueue)) = Len(taskQueue) - 1
      /\ \A k \in 1 .. Len(taskQueue) - 1 : Tail(taskQueue)[k] = taskQueue[k + 1]
      /\ \A k \in 1 .. Len(taskQueue) : taskQueue[k] \in Services
  BY HeadTailProperties DEF TakeTask, TypeOK
<1>2. /\ thread[p] = Free /\ thread' = [thread EXCEPT ![p] = i]
      /\ taskQueue' = Tail(taskQueue)
      /\ svcPc' = [svcPc EXCEPT ![i] = "start"]
      /\ UNCHANGED <<mainPc, index>>
  BY DEF TakeTask
<1>3. svcPc[i] = "posted"
  BY <1>1 DEF StartInv, QueuedWaits
<1> HIDE DEF i
<1>4. \A j \in Services : svcPc'[j] = IF j = i THEN "start" ELSE svcPc[j]
  BY <1>2 DEF TypeOK
<1>5. \A q \in Threads : thread'[q] = IF q = p THEN i ELSE thread[q]
  BY <1>2 DEF TypeOK
<1>6. QueuedWaits'
  <2>1. ASSUME NEW k \in 1 .. Len(taskQueue')
        PROVE  taskQueue'[k] = taskQueue[k + 1] /\ taskQueue[k + 1] # i /\ taskQueue[k + 1] \in Services
               /\ k + 1 \in 1 .. Len(taskQueue)
    BY <1>1, <1>2 DEF StartInv, QueuedWaits
  <2>2. ASSUME NEW k \in 1 .. Len(taskQueue') PROVE svcPc'[taskQueue'[k]] = "posted"
    BY <1>4, <2>1 DEF StartInv, QueuedWaits
  <2>3. ASSUME NEW k \in 1 .. Len(taskQueue'), NEW l \in 1 .. Len(taskQueue'),
               taskQueue'[k] = taskQueue'[l]
        PROVE  k = l
    <3>1. k + 1 = l + 1
      BY <2>1, <2>3 DEF StartInv, QueuedWaits
    <3>2. k \in Int /\ l \in Int
      OBVIOUS
    <3>3. QED
      BY <3>1, <3>2
  <2>4. QED
    BY <2>2, <2>3 DEF QueuedWaits
<1>7. Progress'
  <2>1. mainPc \notin {"startThreadPool"} \/ i >= index
    BY <1>1 DEF StartInv, Progress, Services
  <2>2. \A j \in Services : Registered(j) => Registered(j)'
    BY <1>3, <1>4 DEF Registered
  <2>3. \A j \in Services : svcPc[j] = "none" => svcPc'[j] = "none"
    BY <1>3, <1>4
  <2>4. \A q \in Threads : thread[q] # Unborn => thread'[q] # Unborn
    BY <1>1, <1>5 DEF Services, Unborn
  <2>5. QED
    BY <1>2, <2>2, <2>3, <2>4 DEF Progress, StartInv, Accepting
<1>8. OneThreadEach'
  BY <1>1, <1>3, <1>4, <1>5 DEF OneThreadEach, StartInv
<1>9. QED
  BY <1>6, <1>7, <1>8 DEF StartInv

\* Every step keeps the order of the start-up.
LEMMA StartStep == TypeOK /\ StartInv /\ [Next]_vars => StartInv'
<1> SUFFICES ASSUME TypeOK, StartInv, [Next]_vars PROVE StartInv'
  OBVIOUS
<1>1. ASSUME NEW c \in Clients, NEW fd \in Fds, Accept(c, fd) PROVE StartInv'
  BY <1>1, StartIdle DEF Accept, poolVars, svcVars
<1>2. CASE NotifyPut
  BY <1>2, StartIdle DEF NotifyPut, poolVars
<1>3. CASE NotifyWrite
  BY <1>3, StartIdle DEF NotifyWrite, poolVars
<1>4. ASSUME NEW i \in Services,
             OpenEventFd(i) \/ Regist(i) \/ OnStart(i) \/ DestroyStream(i)
               \/ \E fd \in Fds : RemoveConnection(i, fd)
      PROVE  StartInv'
  <2>1. UNCHANGED <<mainPc, index, thread, taskQueue>>
    BY <1>4 DEF OpenEventFd, Regist, OnStart, DestroyStream, RemoveConnection, poolVars
  <2>2. ASSUME NEW from \in {"start", "regist", "onStart", "loop", "close"},
               NEW to \in {"regist", "onStart", "loop", "close"},
               Move(i, from, to), to = "regist" => from = "start"
        PROVE  StartInv'
    <3>1. svcPc[i] = from /\ \A j \in Services : svcPc'[j] = IF j = i THEN to ELSE svcPc[j]
      BY <2>2 DEF Move, TypeOK
    <3>2. \A j \in Services :
            svcPc[j] \in {"onStart", "loop", "close"} => svcPc'[j] \in {"onStart", "loop", "close"}
      BY <2>2, <3>1
    <3>3. \A j \in Services : svcPc'[j] # svcPc[j] =>
             svcPc[j] \notin {"none", "posted"} /\ svcPc'[j] \notin {"none", "posted"}
      BY <2>2, <3>1
    <3>4. QED
      BY <2>1, <3>2, <3>3, StartIdle
  <2>3. \/ Move(i, "start", "regist") \/ Move(i, "regist", "onStart")
        \/ Move(i, "onStart", "loop") \/ Move(i, "loop", "close") \/ Move(i, "close", "loop")
    BY <1>4 DEF OpenEventFd, Regist, OnStart, DestroyStream, RemoveConnection
  <2>4. QED
    BY <2>2, <2>3
<1>5. ASSUME NEW i \in Services, OnNewConnect(i) PROVE StartInv'
  <2>1. UNCHANGED <<mainPc, index, thread, taskQueue, svcPc>>
    BY <1>5 DEF OnNewConnect, poolVars
  <2>2. QED
    BY <2>1, StartIdle
<1>6. ASSUME NEW c \in Clients, Connect(c) PROVE StartInv'
  BY <1>6, StartIdle DEF Connect, poolVars, svcVars
<1>7. CASE UNCHANGED vars
  <2>1. UNCHANGED <<mainPc, index, thread, taskQueue, svcPc>>
    BY <1>7 DEF vars, poolVars, svcVars
  <2>2. QED
    BY <2>1, StartIdle
<1>8. QED
  BY <1>1, <1>2, <1>3, <1>4, <1>5, <1>6, <1>7, StartThreadStarts, PostServiceStarts,
     WaitWorkerStarts, TakeTaskStarts DEF Next, MainStep, ServiceStep

\* The start-up invariant holds in every state.
LEMMA StartInvariant == Spec => []StartInv
BY StartInit, StartStep, ServerTypeCorrect, PTL DEF Spec

\* The pool is large enough: start() cannot hang because a service waits for a
\* thread that another service never gives back.
THEOREM PoolIsLargeEnough == Spec => []ThreadForEveryService
<1>1. TypeOK /\ StartInv => ThreadForEveryService
  <2> SUFFICES ASSUME TypeOK, StartInv, taskQueue # << >>,
                      \A p \in Threads : thread[p] # Free
               PROVE  FALSE
    BY DEF ThreadForEveryService
  <2>1. /\ taskQueue[1] \in Services /\ svcPc[taskQueue[1]] = "posted"
    BY SMTT(30) DEF TypeOK, StartInv, QueuedWaits
  <2>2. mainPc # "startThreadPool"
    BY <2>1 DEF StartInv, Progress, Services
  <2> DEFINE others == Services \ {taskQueue[1]}
  <2>3. \A p \in Threads : thread[p] \in others
    BY <2>1, <2>2, SMTT(30) DEF StartInv, Progress, OneThreadEach, TypeOK
  <2>4. thread \in Injection(Threads, others)
    <3>1. DOMAIN thread = Threads /\ thread = [p \in Threads |-> thread[p]]
      BY DEF TypeOK
    <3>2. thread \in [Threads -> others]
      BY <2>3, <3>1
    <3>3. \A p, q \in Threads : thread[p] = thread[q] => p = q
      BY <2>3 DEF StartInv, OneThreadEach
    <3>4. QED
      BY <3>2, <3>3 DEF Injection, IsInjective
  <2>5. IsFiniteSet(Services) /\ Cardinality(Services) = NetWorkServiceNum
    BY FS_Interval, NumAssumption DEF Services
  <2>6. IsFiniteSet(others) /\ Cardinality(others) = NetWorkServiceNum - 1
    BY <2>1, <2>5, FS_RemoveElement
  <2>7. Cardinality(Threads) = ThreadPoolNum + NetWorkServiceNum
    BY FS_Interval, NumAssumption DEF Threads, AllNum
  <2> HIDE DEF others
  <2>8. Cardinality(Threads) <= Cardinality(others)
    BY <2>4, <2>6, FS_Injection
  <2>9. QED
    BY <2>6, <2>7, <2>8, NumAssumption
<1>2. QED
  BY <1>1, StartInvariant, ServerTypeCorrect, PTL

-----------------------------------------------------------------------------
(* Accepted clients                                                        *)

\* The tokens of a service that are written or that main is about to write.
Announced(i) == token[i] + (IF mainPc = "write" /\ cur = i THEN 1 ELSE 0)

\* Every message of a mailbox has its token.
MailIsAnnounced == \A i \in Services : Len(mailbox[i]) = Announced(i)

\* A client on its way to a worker.
Waiting(c) ==
  \/ mainPc = "put" /\ inHand = c
  \/ \E i \in Services : \E k \in 1 .. Len(mailbox[i]) : mailbox[i][k] = c

\* Whoever has a descriptor is known to somebody: main or a mailbox, the map of
\* a worker, or the worker that is destroying its connection.
NobodyForgotten ==
  \A c \in Clients :
    /\ client[c] = "accepted" => Waiting(c)
    /\ client[c] = "served" => \E i \in Services : connectionMap[i][fdOf[c]] = c
    /\ client[c] = "closing" => \E i \in Services : svcPc[i] = "close" /\ closing[i] = c

\* Before start() there are neither messages nor clients.
LEMMA MailInit == Init => MailIsAnnounced /\ NobodyForgotten
BY DEF Init, MailIsAnnounced, Announced, NobodyForgotten

\* Messages and tokens: a put makes main write a token, the token finds an
\* eventfd because the service is registered, and a handler takes one of each.
LEMMA MailStep == TypeOK /\ StartInv /\ MailIsAnnounced /\ [Next]_vars => MailIsAnnounced'
<1> SUFFICES ASSUME TypeOK, StartInv, MailIsAnnounced, [Next]_vars PROVE MailIsAnnounced'
  OBVIOUS
<1>a. ASSUME UNCHANGED <<mailbox, token>>, mainPc' # "write", mainPc # "write"
      PROVE  MailIsAnnounced'
  BY <1>a DEF MailIsAnnounced, Announced
<1>b. ASSUME UNCHANGED <<mailbox, token, mainPc, cur>>
      PROVE  MailIsAnnounced'
  BY <1>b DEF MailIsAnnounced, Announced
<1>1. CASE StartThread
  BY <1>1, <1>a DEF StartThread, svcVars
<1>2. CASE PostService
  BY <1>2, <1>a DEF PostService
<1>3. CASE WaitWorker
  BY <1>3, <1>a DEF WaitWorker, svcVars
<1>4. ASSUME NEW c \in Clients, NEW fd \in Fds, Accept(c, fd) PROVE MailIsAnnounced'
  BY <1>4, <1>a DEF Accept, svcVars
<1>5. CASE NotifyPut
  <2>1. /\ mailbox' = [mailbox EXCEPT ![cur] = Append(mailbox[cur], inHand)]
        /\ UNCHANGED <<token, cur>> /\ mainPc = "put" /\ mainPc' = "write"
    BY <1>5 DEF NotifyPut
  <2>2. cur \in Services /\ token \in [Services -> Nat] /\ mailbox \in [Services -> Seq(Clients)]
    BY DEF TypeOK
  <2>3. \A i \in Services : Len(mailbox'[i]) = IF i = cur THEN Len(mailbox[i]) + 1 ELSE Len(mailbox[i])
    BY <2>1, <2>2
  <2>4. QED
    BY <2>1, <2>2, <2>3 DEF MailIsAnnounced, Announced
<1>6. CASE NotifyWrite
  <2>1. cur \in Services /\ token \in [Services -> Nat]
    BY DEF TypeOK
  <2>2. svcPc[cur] \notin {"none", "posted", "start"}
    BY <1>6, <2>1 DEF NotifyWrite, StartInv, Progress, Accepting, Registered
  <2>3. /\ token' = [token EXCEPT ![cur] = token[cur] + 1]
        /\ UNCHANGED <<mailbox, cur>> /\ mainPc = "write" /\ mainPc' = "loop"
    BY <1>6, <2>2 DEF NotifyWrite
  <2>4. QED
    BY <2>1, <2>3 DEF MailIsAnnounced, Announced
<1>7. ASSUME NEW p \in Threads, TakeTask(p) PROVE MailIsAnnounced'
  BY <1>7, <1>b DEF TakeTask, acceptVars
<1>8. ASSUME NEW i \in Services, OpenEventFd(i) \/ Regist(i) \/ OnStart(i) \/ DestroyStream(i)
      PROVE  MailIsAnnounced'
  BY <1>8, <1>b DEF OpenEventFd, Regist, OnStart, DestroyStream, acceptVars
<1>9. ASSUME NEW i \in Services, OnNewConnect(i) PROVE MailIsAnnounced'
  <2>1. /\ token' = [token EXCEPT ![i] = token[i] - 1] /\ mailbox' = [mailbox EXCEPT ![i] = Tail(mailbox[i])]
        /\ mailbox[i] # << >> /\ UNCHANGED <<mainPc, cur>>
    BY <1>9 DEF OnNewConnect, acceptVars
  <2>2. token \in [Services -> Nat] /\ mailbox \in [Services -> Seq(Clients)]
    BY DEF TypeOK
  <2>3. Len(Tail(mailbox[i])) = Len(mailbox[i]) - 1 /\ Len(mailbox[i]) \in Nat
    BY <2>1, <2>2, HeadTailProperties
  <2>4. \A j \in Services : Len(mailbox'[j]) = IF j = i THEN Len(mailbox[j]) - 1 ELSE Len(mailbox[j])
    BY <2>1, <2>2, <2>3
  <2>5. QED
    BY <2>1, <2>2, <2>4 DEF MailIsAnnounced, Announced
<1>10. ASSUME NEW i \in Services, NEW fd \in Fds, RemoveConnection(i, fd) PROVE MailIsAnnounced'
  BY <1>10, <1>b DEF RemoveConnection, acceptVars
<1>11. ASSUME NEW c \in Clients, Connect(c) PROVE MailIsAnnounced'
  BY <1>11, <1>b DEF Connect, svcVars, acceptVars
<1>12. CASE UNCHANGED vars
  BY <1>12, <1>b DEF vars, svcVars, acceptVars
<1>13. QED
  BY <1>1, <1>2, <1>3, <1>4, <1>5, <1>6, <1>7, <1>8, <1>9, <1>10, <1>11, <1>12
     DEF Next, MainStep, ServiceStep

\* Steps that move no client.
LEMMA ForgottenIdle ==
  ASSUME TypeOK, NobodyForgotten,
         UNCHANGED <<client, fdOf, mailbox, connectionMap, closing>>,
         mainPc = "put" => mainPc' = "put" /\ inHand' = inHand,
         \A i \in Services : svcPc[i] = "close" => svcPc'[i] = "close"
  PROVE  NobodyForgotten'
BY DEF NobodyForgotten, Waiting

\* Accept: the client is in main's hand.
LEMMA ForgottenAccept ==
  ASSUME TypeOK, NobodyForgotten, OwnInv, NEW c \in Clients, NEW fd \in Fds, Accept(c, fd)
  PROVE  NobodyForgotten'
<1>1. /\ mainPc = "loop" /\ mainPc' = "put" /\ inHand' = c
      /\ client' = [client EXCEPT ![c] = "accepted"] /\ fdOf' = [fdOf EXCEPT ![c] = fd]
      /\ UNCHANGED <<svcPc, mailbox, connectionMap, closing>>
  BY DEF Accept, svcVars
<1>2. \A d \in Clients : /\ client'[d] = IF d = c THEN "accepted" ELSE client[d]
                         /\ fdOf'[d] = IF d = c THEN fd ELSE fdOf[d]
  BY <1>1 DEF TypeOK
<1>3. QED
  BY <1>1, <1>2 DEF NobodyForgotten, Waiting

\* The client in hand enters a mailbox, in which the others stay.
LEMMA ForgottenPut ==
  ASSUME TypeOK, NobodyForgotten, NotifyPut
  PROVE  NobodyForgotten'
<1>1. /\ mainPc = "put" /\ mailbox' = [mailbox EXCEPT ![cur] = Append(mailbox[cur], inHand)]
      /\ UNCHANGED <<svcPc, connectionMap, closing, client, fdOf>>
  BY DEF NotifyPut, netVars
<1>2. cur \in Services /\ mailbox \in [Services -> Seq(Clients)] /\ mailbox[cur] \in Seq(Clients)
  BY DEF TypeOK
<1>3. /\ mailbox'[cur] = Append(mailbox[cur], inHand)
      /\ \A i \in Services : i # cur => mailbox'[i] = mailbox[i]
  BY <1>1, <1>2
<1>4. ASSUME NEW c \in Clients, Waiting(c) PROVE Waiting(c)'
  <2>1. CASE inHand = c
    <3>1. Len(mailbox[cur]) + 1 \in 1 .. Len(mailbox'[cur]) /\ mailbox'[cur][Len(mailbox[cur]) + 1] = c
      BY <1>2, <1>3, <2>1
    <3>2. QED
      BY <1>2, <3>1 DEF Waiting
  <2>2. CASE inHand # c
    <3>0. PICK i \in Services : \E k \in 1 .. Len(mailbox[i]) : mailbox[i][k] = c
      BY <1>4, <2>2 DEF Waiting
    <3>1. PICK k \in 1 .. Len(mailbox[i]) : mailbox[i][k] = c
      BY <3>0
    <3>2. k \in 1 .. Len(mailbox'[i]) /\ mailbox'[i][k] = c
      <4>1. CASE i = cur
        BY <1>2, <1>3, <3>1, <4>1
      <4>2. CASE i # cur
        BY <1>3, <3>1, <4>2
      <4>3. QED
        BY <4>1, <4>2
    <3>3. QED
      BY <3>2 DEF Waiting
  <2>3. QED
    BY <2>1, <2>2
<1>5. QED
  BY <1>1, <1>4 DEF NobodyForgotten

\* The oldest client of a mailbox enters the map, because its descriptor is
\* free there.
LEMMA ForgottenNewConnect ==
  ASSUME TypeOK, NobodyForgotten, OwnInv, OwnInv', NEW i \in Services, OnNewConnect(i)
  PROVE  NobodyForgotten'
<1> DEFINE c == Head(mailbox[i])
<1>1. /\ mailbox[i] # << >> /\ mailbox' = [mailbox EXCEPT ![i] = Tail(mailbox[i])]
      /\ connectionMap' = IF connectionMap[i][fdOf[c]] = NoClient
                            THEN [connectionMap EXCEPT ![i][fdOf[c]] = c] ELSE connectionMap
      /\ client' = [client EXCEPT ![c] = IF connectionMap[i][fdOf[c]] = NoClient
                                           THEN "served" ELSE "dropped"]
      /\ UNCHANGED <<mainPc, inHand, svcPc, closing, fdOf>>
  BY DEF OnNewConnect, acceptVars
<1>2. mailbox[i] \in Seq(Clients) /\ client \in [Clients -> {"away", "connecting", "accepted", "served", "dropped", "closing", "gone"}]
  BY DEF TypeOK
<1>3. /\ c \in Clients /\ c = mailbox[i][1] /\ Len(mailbox[i]) \in Nat
      /\ Len(Tail(mailbox[i])) = Len(mailbox[i]) - 1
      /\ \A k \in 1 .. Len(mailbox[i]) - 1 : Tail(mailbox[i])[k] = mailbox[i][k + 1]
  BY <1>1, <1>2, HeadTailProperties
<1> HIDE DEF c
<1>4. connectionMap[i][fdOf[c]] = NoClient
  <2>1. client'[c] # "dropped"
    BY <1>3 DEF OwnInv, NeverDropped
  <2>2. QED
    BY <1>1, <1>2, <1>3, <2>1
<1>5. \A d \in Clients : client'[d] = IF d = c THEN "served" ELSE client[d]
  BY <1>1, <1>2, <1>4
<1>6. fdOf[c] \in Fds /\ connectionMap \in [Services -> [Fds -> Clients \cup {NoClient}]]
  BY <1>3 DEF TypeOK
<1>7. \A j \in Services, fd \in Fds :
        connectionMap'[j][fd] = IF j = i /\ fd = fdOf[c] THEN c ELSE connectionMap[j][fd]
  BY <1>1, <1>4, <1>6
<1>8. \A j \in Services : mailbox'[j] = IF j = i THEN Tail(mailbox[i]) ELSE mailbox[j]
  BY <1>1 DEF TypeOK
<1>9. ASSUME NEW d \in Clients, client'[d] = "accepted" PROVE Waiting(d)'
  <2>1. d # c /\ Waiting(d)
    BY <1>5, <1>9 DEF NobodyForgotten
  <2>2. CASE mainPc = "put" /\ inHand = d
    BY <1>1, <2>2 DEF Waiting
  <2>3. CASE \E j \in Services : \E k \in 1 .. Len(mailbox[j]) : mailbox[j][k] = d
    <3>0. PICK j \in Services : \E k \in 1 .. Len(mailbox[j]) : mailbox[j][k] = d
      BY <2>3
    <3>1. PICK k \in 1 .. Len(mailbox[j]) : mailbox[j][k] = d
      BY <3>0
    <3>2. CASE j # i
      BY <1>8, <3>1, <3>2 DEF Waiting
    <3>3. CASE j = i
      <4>1. k # 1 /\ k \in 1 .. Len(mailbox[i]) /\ mailbox[i][k] = d
        BY <1>3, <2>1, <3>1, <3>3
      <4>2. k - 1 \in 1 .. Len(mailbox[i]) - 1 /\ (k - 1) + 1 = k
        BY <1>3, <4>1
      <4>3. k - 1 \in 1 .. Len(mailbox'[i]) /\ mailbox'[i][k - 1] = d
        BY <1>3, <1>8, <4>1, <4>2
      <4>4. QED
        BY <4>3 DEF Waiting
    <3>4. QED
      BY <3>2, <3>3
  <2>4. QED
    BY <2>1, <2>2, <2>3 DEF Waiting
<1>10. ASSUME NEW d \in Clients, client'[d] = "served"
       PROVE  \E j \in Services : connectionMap'[j][fdOf'[d]] = d
  <2>1. CASE d = c
    BY <1>1, <1>6, <1>7, <2>1
  <2>2. CASE d # c
    <3>1. PICK j \in Services : connectionMap[j][fdOf[d]] = d
      BY <1>5, <1>10, <2>2 DEF NobodyForgotten
    <3>2. d # NoClient /\ fdOf[d] \in Fds
      BY NoClientAssumption DEF TypeOK
    <3>3. connectionMap'[j][fdOf[d]] = d
      BY <1>4, <1>7, <3>1, <3>2
    <3>4. QED
      BY <1>1, <3>3
  <2>3. QED
    BY <2>1, <2>2
<1>11. ASSUME NEW d \in Clients, client'[d] = "closing"
       PROVE  \E j \in Services : svcPc'[j] = "close" /\ closing'[j] = d
  BY <1>1, <1>5, <1>11 DEF NobodyForgotten
<1>12. QED
  BY <1>9, <1>10, <1>11 DEF NobodyForgotten

\* What leaves the map is in the hands of the worker that destroys it.
LEMMA ForgottenRemove ==
  ASSUME TypeOK, NobodyForgotten, OwnInv, NEW i \in Services, NEW fd \in Fds,
         RemoveConnection(i, fd)
  PROVE  NobodyForgotten'
<1> DEFINE c == connectionMap[i][fd]
<1>1. /\ svcPc[i] = "loop" /\ svcPc' = [svcPc EXCEPT ![i] = "close"] /\ c # NoClient
      /\ closing' = [closing EXCEPT ![i] = c] /\ client' = [client EXCEPT ![c] = "closing"]
      /\ connectionMap' = [connectionMap EXCEPT ![i][fd] = NoClient]
      /\ UNCHANGED <<mainPc, inHand, mailbox, fdOf>>
  BY DEF RemoveConnection, Move, acceptVars
<1>2. c \in Clients
  BY <1>1 DEF TypeOK
<1> HIDE DEF c
<1>3. /\ \A d \in Clients : client'[d] = IF d = c THEN "closing" ELSE client[d]
      /\ \A j \in Services : svcPc'[j] = IF j = i THEN "close" ELSE svcPc[j]
      /\ \A j \in Services : closing'[j] = IF j = i THEN c ELSE closing[j]
  <2>1. /\ DOMAIN client = Clients /\ DOMAIN svcPc = Services /\ DOMAIN closing = Services
    BY DEF TypeOK
  <2>2. \A d \in Clients : client'[d] = IF d = c THEN "closing" ELSE client[d]
    BY <1>1, <1>2, <2>1
  <2>3. \A j \in Services : svcPc'[j] = IF j = i THEN "close" ELSE svcPc[j]
    BY <1>1, <2>1
  <2>4. \A j \in Services : closing'[j] = IF j = i THEN c ELSE closing[j]
    BY <1>1, <2>1
  <2>5. QED
    BY <2>2, <2>3, <2>4
<1>4. \A j \in Services, g \in Fds :
        connectionMap'[j][g] = IF j = i /\ g = fd THEN NoClient ELSE connectionMap[j][g]
  BY <1>1 DEF TypeOK
<1>5. \A d \in Clients : Waiting(d) => Waiting(d)'
  BY <1>1 DEF Waiting
<1>6. ASSUME NEW d \in Clients, client'[d] = "served"
      PROVE  \E j \in Services : connectionMap'[j][fdOf'[d]] = d
  <2>1. d # c
    BY <1>3, <1>6
  <2>2. PICK j \in Services : connectionMap[j][fdOf[d]] = d
    BY <1>3, <1>6, <2>1 DEF NobodyForgotten
  <2>3. fdOf[d] \in Fds
    BY DEF TypeOK
  <2>4. connectionMap'[j][fdOf[d]] = d
    BY <1>4, <2>1, <2>2, <2>3 DEF c
  <2>5. QED
    BY <1>1, <2>4
<1>7. ASSUME NEW d \in Clients, client'[d] = "closing"
      PROVE  \E j \in Services : svcPc'[j] = "close" /\ closing'[j] = d
  <2>1. CASE d = c
    <3>1. svcPc'[i] = "close" /\ closing'[i] = d
      BY <1>3, <2>1
    <3>2. QED
      BY <3>1
  <2>2. CASE d # c
    <3>1. PICK j \in Services : svcPc[j] = "close" /\ closing[j] = d
      BY <1>3, <1>7, <2>2 DEF NobodyForgotten
    <3>2. QED
      BY <1>1, <1>3, <3>1
  <2>3. QED
    BY <2>1, <2>2
<1>8. QED
  BY <1>3, <1>5, <1>6, <1>7 DEF NobodyForgotten

\* ... and is gone when it has closed the descriptor.
LEMMA ForgottenDestroy ==
  ASSUME TypeOK, NobodyForgotten, OwnInv, NEW i \in Services, DestroyStream(i)
  PROVE  NobodyForgotten'
<1>1. /\ svcPc[i] = "close" /\ svcPc' = [svcPc EXCEPT ![i] = "loop"]
      /\ client' = [client EXCEPT ![closing[i]] = "gone"]
      /\ closing' = [closing EXCEPT ![i] = NoClient]
      /\ UNCHANGED <<mainPc, inHand, mailbox, fdOf, connectionMap>>
  BY DEF DestroyStream, Move, acceptVars
<1>2. closing[i] \in Clients
  BY <1>1 DEF OwnInv, ClosedOnce
<1>3. /\ \A d \in Clients : client'[d] = IF d = closing[i] THEN "gone" ELSE client[d]
      /\ \A j \in Services : j # i => svcPc'[j] = svcPc[j] /\ closing'[j] = closing[j]
  BY <1>1, <1>2 DEF TypeOK
<1>4. \A d \in Clients : Waiting(d) => Waiting(d)'
  BY <1>1 DEF Waiting
<1>5. ASSUME NEW d \in Clients, client'[d] = "closing"
      PROVE  \E j \in Services : svcPc'[j] = "close" /\ closing'[j] = d
  <2>1. PICK j \in Services : svcPc[j] = "close" /\ closing[j] = d
    BY <1>3, <1>5 DEF NobodyForgotten
  <2>2. j # i
    BY <1>3, <1>5, <2>1
  <2>3. QED
    BY <1>3, <2>1, <2>2
<1>6. QED
  BY <1>1, <1>3, <1>4, <1>5 DEF NobodyForgotten

\* Every step keeps track of every client.
LEMMA ForgottenStep ==
  TypeOK /\ StartInv /\ OwnInv /\ OwnInv' /\ NobodyForgotten /\ [Next]_vars => NobodyForgotten'
<1> SUFFICES ASSUME TypeOK, StartInv, OwnInv, OwnInv', NobodyForgotten, [Next]_vars
             PROVE  NobodyForgotten'
  OBVIOUS
<1>1. CASE StartThread
  BY <1>1, ForgottenIdle DEF StartThread, svcVars, netVars
<1>2. CASE PostService
  <2>1. \A i \in Services : svcPc[i] = "close" => svcPc'[i] = "close"
    <3>1. svcPc[index] = "none" /\ svcPc' = [svcPc EXCEPT ![index] = "posted"]
      BY <1>2, NumAssumption DEF PostService, StartInv, Progress, TypeOK, Services
    <3>2. QED
      BY <3>1 DEF TypeOK
  <2>2. QED
    BY <1>2, <2>1, ForgottenIdle DEF PostService, netVars
<1>3. CASE WaitWorker
  BY <1>3, ForgottenIdle DEF WaitWorker, svcVars, netVars
<1>4. CASE NotifyWrite
  BY <1>4, ForgottenIdle DEF NotifyWrite, netVars
<1>5. ASSUME NEW p \in Threads, TakeTask(p) PROVE NobodyForgotten'
  <2>1. Head(taskQueue) = taskQueue[1] /\ 1 \in 1 .. Len(taskQueue)
    BY <1>5 DEF TakeTask, TypeOK
  <2>2. svcPc[Head(taskQueue)] = "posted"
    BY <2>1 DEF StartInv, QueuedWaits
  <2>3. \A j \in Services : svcPc[j] = "close" => svcPc'[j] = "close"
    BY <1>5, <2>2 DEF TakeTask, TypeOK
  <2>4. QED
    BY <1>5, <2>3, ForgottenIdle DEF TakeTask, netVars, acceptVars
<1>6. ASSUME NEW i \in Services, OpenEventFd(i) \/ Regist(i) \/ OnStart(i)
      PROVE  NobodyForgotten'
  <2>1. \A j \in Services : svcPc[j] = "close" => svcPc'[j] = "close"
    BY <1>6 DEF OpenEventFd, Regist, OnStart, Move, TypeOK
  <2>2. QED
    BY <1>6, <2>1, ForgottenIdle DEF OpenEventFd, Regist, OnStart, netVars, acceptVars
<1>7. ASSUME NEW c \in Clients, Connect(c) PROVE NobodyForgotten'
  <2>1. /\ UNCHANGED <<mainPc, inHand, mailbox, connectionMap, closing, svcPc, fdOf>>
        /\ \A d \in Clients : client'[d] = client[d] \/ client'[d] = "connecting"
    BY <1>7 DEF Connect, svcVars, acceptVars, TypeOK
  <2>2. QED
    BY <2>1 DEF NobodyForgotten, Waiting
<1>8. CASE UNCHANGED vars
  BY <1>8, ForgottenIdle DEF vars, svcVars, netVars, acceptVars
<1>9. QED
  BY <1>1, <1>2, <1>3, <1>4, <1>5, <1>6, <1>7, <1>8, ForgottenAccept, ForgottenPut,
     ForgottenNewConnect, ForgottenRemove, ForgottenDestroy
     DEF Next, MainStep, ServiceStep

\* Main waits for the workers so that no first connection is lost
\* (TcpServer.cpp:43): every accepted client is in main's hand or in a mailbox
\* that has as many tokens as messages, a served one is in a map, and one that
\* is being closed has a worker that closes it.
THEOREM NobodyIsForgotten == Spec => [](MailIsAnnounced /\ NobodyForgotten)
<1>1. TypeOK /\ StartInv /\ OwnInv /\ OwnInv' /\ MailIsAnnounced /\ NobodyForgotten /\ [Next]_vars
        => (MailIsAnnounced /\ NobodyForgotten)'
  BY MailStep, ForgottenStep
<1>2. QED
  BY <1>1, MailInit, ServerTypeCorrect, StartInvariant, OwnInvariant, PTL DEF Spec
=============================================================================
