------------------------ MODULE SimulateServerProofs ------------------------
(***************************************************************************)
(* Proofs about SimulateServer, for any number of clients, messages,       *)
(* workers and descriptors, and whatever fails.                            *)
(***************************************************************************)
EXTENDS SimulateServer, FiniteSetTheorems, SequenceTheorems, WellFoundedInduction, TLAPS

\* An event that can fire exists, and calls client c, who is there.
Serves(e, c) == e.added => e.made /\ c # NoClient /\ e.callback = c

\* A client is new until its Connector is created, which may have a socket.
NotYet ==
  \A c \in Clients :
    /\ c > next => phase[c] = "new"
    /\ c = next => phase[c] \in {"new", "opened"}

InHandPhase == inHand # NoClient => phase[inHand] = "inHand"

ConnectEvents ==
  \A fd \in Fds : connectTable[fd].added =>
    /\ connectTable[fd].callback \in Clients
    /\ phase[connectTable[fd].callback] = "connecting"
    /\ fdOf[connectTable[fd].callback] = fd

WorkerEvents ==
  \A w \in Workers, fd \in Fds :
    Serves(readTable[w][fd], map[w][fd]) /\ Serves(writeTable[w][fd], map[w][fd])

\* A connection is live, on its own descriptor, and in one map only.
MapOwners ==
  \A w \in Workers, fd \in Fds : map[w][fd] # NoClient =>
    /\ phase[map[w][fd]] = "live" /\ fdOf[map[w][fd]] = fd
    /\ \A v \in Workers : map[v][fd] # NoClient => v = w

\* A client is in one mailbox only, and once.
Mailboxes ==
  \A w \in Workers : \A i \in 1 .. Len(mailbox[w]) :
    /\ phase[mailbox[w][i]] = "queued"
    /\ \A v \in Workers : \A j \in 1 .. Len(mailbox[v]) :
         mailbox[w][i] = mailbox[v][j] => w = v /\ i = j

\* A worker inside startReadOrWriteInService works on a connection of its map.
HandlerAt ==
  \A w \in Workers : pc[w] \in {"first", "stamp", "recv"} =>
    at[w] \in Clients /\ fdOf[at[w]] \in Fds /\ map[w][fdOf[at[w]]] = at[w]

\* The phases in which a client has an open socket, whoever holds it.
OwnerPhases == {"opened", "connecting", "forgotten", "inHand", "queued", "live"}
Owners == {c \in Clients : phase[c] \in OwnerPhases}

FdOwners ==
  /\ openFds = {fdOf[c] : c \in Owners}
  /\ \A c, d \in Owners : fdOf[c] = fdOf[d] => c = d

OwnInv ==
  /\ NotYet /\ InHandPhase
  /\ ConnectEvents /\ WorkerEvents /\ MapOwners /\ Mailboxes /\ HandlerAt
  /\ FdOwners

-----------------------------------------------------------------------------
(* The event table and the kernel's descriptors                            *)

\* What each operation of the reactor does to one entry of its table.
LEMMA EventOps ==
  ASSUME NEW e \in Events, NEW c \in Clients \cup {NoClient}
  PROVE  /\ AddEventHandler(e, c) \in Events
         /\ c # NoClient => Serves(AddEventHandler(e, c), c)
         /\ AddEventHandler(e, c).callback = c
         /\ Fired(e) \in Events /\ ~Fired(e).added
         /\ RemoveEventHandler(e) \in Events
         /\ (e.added => e.made) => ~RemoveEventHandler(e).added
         /\ AddFails(e) \subseteq Events
         /\ \A new \in AddFails(e) : new.added => e.added
<1>1. /\ AddEventHandler(e, c) \in Events /\ AddEventHandler(e, c).callback = c
      /\ AddEventHandler(e, c).made = TRUE
  BY DEF AddEventHandler, Events
<1>2. Fired(e) \in Events /\ ~Fired(e).added
  BY DEF Fired, Events, NoClient
<1>3. CASE e.made
  <2>1. RemoveEventHandler(e) = [e EXCEPT !.made = FALSE, !.added = FALSE]
    BY <1>3 DEF RemoveEventHandler
  <2>2. RemoveEventHandler(e) \in Events /\ ~RemoveEventHandler(e).added
    BY <2>1 DEF Events
  <2>3. QED
    BY <1>1, <1>2, <2>2 DEF Events, AddFails, Serves
<1>4. CASE ~e.made
  <2>1. RemoveEventHandler(e) = e
    BY <1>4 DEF RemoveEventHandler
  <2>2. QED
    BY <1>1, <1>2, <1>4, <2>1 DEF Events, AddFails, Serves
<1>5. QED
  BY <1>3, <1>4

\* A nonempty set of natural numbers has a least element.
LEMMA LeastNatural ==
  ASSUME NEW T, T \subseteq Nat, T # {}
  PROVE  \E x \in T : \A y \in T : x <= y
<1>1. IsWellFoundedOn(OpToRel(<, Nat), Nat)
  BY NatLessThanWellFounded
<1>2. PICK x \in T : \A y \in T : ~ (<<y, x>> \in OpToRel(<, Nat))
  BY <1>1, WFMin
<1>3. \A y \in T : ~ (y < x)
  BY <1>2 DEF OpToRel
<1>4. QED
  BY <1>3

\* The kernel can give out a descriptor unless all are in use.
LEMMA LowestIsFree ==
  ASSUME FreeFds # {}
  PROVE  LowestFree \in Fds /\ LowestFree \notin openFds
<1>1. FreeFds \subseteq Nat
  BY SimulateAssumption DEF FreeFds, Fds
<1>2. \E x \in FreeFds : \A y \in FreeFds : x <= y
  BY <1>1, LeastNatural
<1>3. LowestFree \in FreeFds
  BY <1>2 DEF LowestFree
<1>4. QED
  BY <1>3 DEF FreeFds

\* A client that stays on its way keeps its descriptor.
LEMMA OwnerStays ==
  ASSUME TypeOK, FdOwners, NEW c \in Clients, NEW ph,
         phase[c] \in OwnerPhases <=> ph \in OwnerPhases,
         phase' = [phase EXCEPT ![c] = ph], fdOf' = fdOf, openFds' = openFds
  PROVE  FdOwners'
<1>1. Owners' = Owners
  BY DEF Owners, OwnerPhases, TypeOK
<1>2. QED
  BY <1>1 DEF FdOwners

\* A client that comes gets a descriptor of its own.
LEMMA OwnerComes ==
  ASSUME TypeOK, FdOwners, NEW c \in Clients, c \notin Owners, NEW ph \in OwnerPhases,
         NEW fd \in Fds, fd \notin openFds,
         phase' = [phase EXCEPT ![c] = ph], fdOf' = [fdOf EXCEPT ![c] = fd],
         openFds' = openFds \cup {fd}
  PROVE  FdOwners'
<1>1. Owners' = Owners \cup {c}
  BY DEF Owners, OwnerPhases, TypeOK
<1>2. fdOf'[c] = fd /\ \A d \in Owners : fdOf'[d] = fdOf[d] /\ fdOf[d] \in openFds
  BY DEF FdOwners, Owners, TypeOK
<1>3. openFds' = {fdOf'[d] : d \in Owners'}
  BY <1>1, <1>2 DEF FdOwners
<1>4. ASSUME NEW d \in Owners', NEW e \in Owners', fdOf'[d] = fdOf'[e]
      PROVE  d = e
  BY <1>1, <1>2, <1>4 DEF FdOwners
<1>5. QED
  BY <1>3, <1>4 DEF FdOwners

\* A client that goes takes its descriptor along, and no other.
LEMMA OwnerGoes ==
  ASSUME TypeOK, FdOwners, NEW c \in Owners, NEW ph, ph \notin OwnerPhases,
         phase' = [phase EXCEPT ![c] = ph], fdOf' = fdOf, openFds' = openFds \ {fdOf[c]}
  PROVE  FdOwners'
<1>1. Owners' = Owners \ {c}
  BY DEF Owners, OwnerPhases, TypeOK
<1>2. openFds' = {fdOf[d] : d \in Owners \ {c}}
  BY DEF FdOwners
<1>3. QED
  BY <1>1, <1>2 DEF FdOwners

\* The descriptor of a client that is on its way is in use.
LEMMA OwnerHasFd ==
  ASSUME TypeOK, FdOwners, NEW c \in Clients, phase[c] \in OwnerPhases
  PROVE  c \in Owners /\ fdOf[c] \in Fds /\ fdOf[c] \in openFds
BY DEF FdOwners, Owners, OwnerPhases, TypeOK

-----------------------------------------------------------------------------
(* Who owns what                                                           *)

\* A client on its way to a worker finds its place in every map free.
LEMMA PlaceIsFree ==
  ASSUME TypeOK, MapOwners, FdOwners, NEW c \in Clients,
         phase[c] \in OwnerPhases, phase[c] # "live", NEW v \in Workers
  PROVE  fdOf[c] \in Fds /\ map[v][fdOf[c]] = NoClient
<1>1. c \in Owners /\ fdOf[c] \in Fds
  BY OwnerHasFd
<1>2. PICK fd \in Fds : fd = fdOf[c]
  BY <1>1
<1>3. ASSUME map[v][fd] # NoClient
      PROVE  FALSE
  <2>1. PICK d \in Clients : d = map[v][fd]
    BY <1>3 DEF TypeOK
  <2>2. phase[d] = "live" /\ fdOf[d] = fd
    BY <1>3, <2>1 DEF MapOwners
  <2>3. d \in Owners
    BY <2>2 DEF Owners, OwnerPhases
  <2>4. QED
    BY <1>1, <1>2, <2>2, <2>3 DEF FdOwners
<1>4. QED
  BY <1>1, <1>2, <1>3

\* The owner of an occupied place.
LEMMA PlaceOwner ==
  ASSUME TypeOK, MapOwners, NEW w \in Workers, NEW fd \in Fds, map[w][fd] # NoClient
  PROVE  /\ map[w][fd] \in Clients /\ map[w][fd] \in Owners
         /\ phase[map[w][fd]] = "live" /\ fdOf[map[w][fd]] = fd
<1>1. map[w][fd] \in Clients
  BY DEF TypeOK
<1>2. phase[map[w][fd]] = "live" /\ fdOf[map[w][fd]] = fd
  BY DEF MapOwners
<1>3. QED
  BY <1>1, <1>2 DEF Owners, OwnerPhases

\* An event that fires calls the owner of its descriptor.
LEMMA FiresForOwner ==
  ASSUME TypeOK, OwnInv, NEW w \in Workers, NEW fd \in Fds
  PROVE  /\ readTable[w][fd].added =>
              map[w][fd] # NoClient /\ readTable[w][fd].callback = map[w][fd]
         /\ writeTable[w][fd].added =>
              map[w][fd] # NoClient /\ writeTable[w][fd].callback = map[w][fd]
BY DEF OwnInv, WorkerEvents, Serves

ownVars == <<next, inHand, connectTable, phase, fdOf, openFds, mailbox, map>>

\* A handler that only rearms the events of a connection.
LEMMA RearmKeepsOwners ==
  ASSUME TypeOK, OwnInv, NEW w \in Workers, NEW fd \in Fds,
         NEW rd, Serves(rd, map[w][fd]), NEW wr, Serves(wr, map[w][fd]),
         readTable' = [readTable EXCEPT ![w][fd] = rd],
         writeTable' = [writeTable EXCEPT ![w][fd] = wr],
         UNCHANGED ownVars, HandlerAt'
  PROVE  OwnInv'
<1>1. NotYet' /\ InHandPhase' /\ ConnectEvents' /\ MapOwners' /\ Mailboxes'
  BY DEF OwnInv, ownVars, NotYet, InHandPhase, ConnectEvents, MapOwners, Mailboxes
<1>2. FdOwners'
  BY DEF OwnInv, ownVars, FdOwners, Owners
<1>3. ASSUME NEW v \in Workers, NEW g \in Fds
      PROVE  Serves(readTable'[v][g], map[v][g]) /\ Serves(writeTable'[v][g], map[v][g])
  <2>1. CASE v = w /\ g = fd
    <3>1. readTable'[v][g] = rd /\ writeTable'[v][g] = wr
      BY <2>1 DEF TypeOK
    <3>2. QED
      BY <2>1, <3>1
  <2>2. CASE ~(v = w /\ g = fd)
    <3>1. readTable'[v][g] = readTable[v][g] /\ writeTable'[v][g] = writeTable[v][g]
      BY <2>2 DEF TypeOK
    <3>2. QED
      BY <3>1 DEF OwnInv, WorkerEvents
  <2>3. QED
    BY <2>1, <2>2
<1>4. WorkerEvents'
  BY <1>3 DEF ownVars, WorkerEvents, Serves
<1>5. QED
  BY <1>1, <1>2, <1>4 DEF OwnInv

\* The constants, as the proofs need them.
LEMMA Sizes ==
  /\ ClientNum \in Nat \ {0} /\ WorkerNum \in Nat \ {0} /\ FdNum \in Nat \ {0}
  /\ Clients \subseteq Nat /\ 0 \notin Fds /\ NoClient \notin Clients
BY SimulateAssumption DEF Clients, Fds, NoClient

\* A step of a client that is under way does not touch the new ones.
LEMMA NextStays ==
  ASSUME TypeOK, OwnInv, NEW c \in Clients, phase[c] \notin {"new", "opened"}, NEW ph,
         phase' = [phase EXCEPT ![c] = ph], next' = next
  PROVE  NotYet'
BY DEF OwnInv, NotYet, TypeOK

\* _destroy takes a connection out of everything that knows it.
LEMMA DestroyKeepsOwners ==
  ASSUME TypeOK, OwnInv, NEW w \in Workers, NEW fd \in Fds, map[w][fd] # NoClient,
         NEW rd \in Events, rd.added => rd.made, NEW wr \in Events, wr.added => wr.made,
         Destroy(w, fd, rd, wr),
         UNCHANGED <<next, inHand, connectTable, fdOf, mailbox>>,
         pc'[w] \notin {"first", "stamp", "recv"},
         \A v \in Workers \ {w} : pc'[v] = pc[v] /\ at'[v] = at[v]
  PROVE  OwnInv'
<1>1. PICK c \in Clients : c = map[w][fd] /\ c \in Owners /\ phase[c] = "live" /\ fdOf[c] = fd
  BY PlaceOwner DEF OwnInv
<1>2. /\ map' = [map EXCEPT ![w][fd] = NoClient]
      /\ openFds' = openFds \ {fd}
      /\ phase' = [phase EXCEPT ![c] = "gone"]
      /\ readTable' = [readTable EXCEPT ![w][fd] = RemoveEventHandler(rd)]
      /\ writeTable' = [writeTable EXCEPT ![w][fd] = RemoveEventHandler(wr)]
  BY <1>1 DEF Destroy
<1>3. /\ \A d \in Clients : d # c => phase'[d] = phase[d]
      /\ phase'[c] = "gone"
      /\ map'[w][fd] = NoClient
      /\ \A v \in Workers, g \in Fds : ~(v = w /\ g = fd) =>
           /\ map'[v][g] = map[v][g]
           /\ readTable'[v][g] = readTable[v][g] /\ writeTable'[v][g] = writeTable[v][g]
  BY <1>2 DEF TypeOK
<1>4. FdOwners'
  BY <1>1, <1>2, OwnerGoes DEF OwnInv, OwnerPhases
<1>5. NotYet' /\ InHandPhase'
  <2>1. NotYet'
    BY <1>1, <1>2, NextStays
  <2>2. InHandPhase'
    BY <1>1, <1>3 DEF OwnInv, InHandPhase, TypeOK
  <2>3. QED
    BY <2>1, <2>2
<1>6. ConnectEvents'
  BY <1>1, <1>3 DEF OwnInv, ConnectEvents
<1>7. Mailboxes'
  <2>1. mailbox' = mailbox /\ Mailboxes
    BY DEF OwnInv
  <2>2. ASSUME NEW v \in Workers, NEW i \in 1 .. Len(mailbox[v])
        PROVE  phase'[mailbox[v][i]] = "queued"
    <3>1. mailbox[v][i] \in Clients
      BY DEF TypeOK
    <3>2. phase[mailbox[v][i]] = "queued"
      BY <2>1 DEF Mailboxes
    <3>3. QED
      BY <1>1, <1>3, <3>1, <3>2
  <2>3. QED
    BY <2>1, <2>2 DEF Mailboxes
<1>8. MapOwners'
  <2> SUFFICES ASSUME NEW v \in Workers, NEW g \in Fds, map'[v][g] # NoClient
               PROVE  /\ phase'[map'[v][g]] = "live" /\ fdOf'[map'[v][g]] = g
                      /\ \A u \in Workers : map'[u][g] # NoClient => u = v
    BY DEF MapOwners
  <2>1. ~(v = w /\ g = fd) /\ map'[v][g] = map[v][g]
    BY <1>3
  <2>2. /\ map[v][g] \in Clients /\ phase[map[v][g]] = "live" /\ fdOf[map[v][g]] = g
        /\ \A u \in Workers : map[u][g] # NoClient => u = v
    BY <2>1, PlaceOwner DEF OwnInv, MapOwners
  <2>3. map[v][g] # c
    BY <1>1, <2>1, <2>2
  <2>4. \A u \in Workers : map'[u][g] # NoClient => map[u][g] # NoClient
    BY <1>3
  <2>5. QED
    BY <1>3, <2>1, <2>2, <2>3, <2>4
<1>9. WorkerEvents'
  <2> SUFFICES ASSUME NEW v \in Workers, NEW g \in Fds
               PROVE  Serves(readTable'[v][g], map'[v][g]) /\ Serves(writeTable'[v][g], map'[v][g])
    BY DEF WorkerEvents, Serves
  <2>1. CASE v = w /\ g = fd
    <3>1. readTable'[v][g] = RemoveEventHandler(rd) /\ writeTable'[v][g] = RemoveEventHandler(wr)
      BY <1>2, <2>1 DEF TypeOK
    <3>2. ~RemoveEventHandler(rd).added /\ ~RemoveEventHandler(wr).added
      BY EventOps
    <3>3. QED
      BY <3>1, <3>2 DEF Serves
  <2>2. CASE ~(v = w /\ g = fd)
    BY <1>3, <2>2 DEF OwnInv, WorkerEvents
  <2>3. QED
    BY <2>1, <2>2
<1>10. HandlerAt'
  <2> SUFFICES ASSUME NEW v \in Workers, pc'[v] \in {"first", "stamp", "recv"}
               PROVE  at'[v] \in Clients /\ fdOf'[at'[v]] \in Fds /\ map'[v][fdOf'[at'[v]]] = at'[v]
    BY DEF HandlerAt
  <2>1. v # w /\ pc[v] \in {"first", "stamp", "recv"} /\ at'[v] = at[v]
    OBVIOUS
  <2>2. at[v] \in Clients /\ fdOf[at[v]] \in Fds /\ map[v][fdOf[at[v]]] = at[v]
    BY <2>1 DEF OwnInv, HandlerAt
  <2>3. map' = [map EXCEPT ![w] = [@ EXCEPT ![fd] = NoClient]]
    BY <1>2
  <2>4. map'[v] = map[v]
    BY <2>1, <2>3 DEF TypeOK
  <2>5. QED
    BY <2>1, <2>2, <2>4
<1>11. QED
  BY <1>4, <1>5, <1>6, <1>7, <1>8, <1>9, <1>10 DEF OwnInv

\* One client's phase changes and perhaps its descriptor: whoever is elsewhere
\* does not notice.
LEMMA OthersStay ==
  ASSUME TypeOK, OwnInv, NEW c \in Clients, NEW ph,
         phase' = [phase EXCEPT ![c] = ph],
         \A d \in Clients : d # c => fdOf'[d] = fdOf[d]
  PROVE  /\ phase[c] # "live" /\ UNCHANGED <<map, readTable, writeTable, pc, at>> =>
              MapOwners' /\ WorkerEvents' /\ HandlerAt'
         /\ phase[c] # "queued" /\ UNCHANGED mailbox => Mailboxes'
         /\ phase[c] # "connecting" /\ UNCHANGED connectTable => ConnectEvents'
<1>1. phase'[c] = ph /\ \A d \in Clients : d # c => phase'[d] = phase[d]
  BY DEF TypeOK
<1>2. ASSUME phase[c] # "live", UNCHANGED <<map, readTable, writeTable, pc, at>>
      PROVE  MapOwners' /\ WorkerEvents' /\ HandlerAt'
  <2>1. ASSUME NEW w \in Workers, NEW fd \in Fds, map[w][fd] # NoClient
        PROVE  /\ map[w][fd] # c /\ phase'[map[w][fd]] = "live" /\ fdOf'[map[w][fd]] = fd
               /\ \A v \in Workers : map[v][fd] # NoClient => v = w
    <3>1. map[w][fd] \in Clients /\ phase[map[w][fd]] = "live" /\ fdOf[map[w][fd]] = fd
      BY <2>1, PlaceOwner DEF OwnInv
    <3>2. QED
      BY <1>1, <1>2, <2>1, <3>1 DEF OwnInv, MapOwners
  <2>2. MapOwners'
    BY <1>2, <2>1 DEF MapOwners
  <2>3. WorkerEvents'
    BY <1>2 DEF OwnInv, WorkerEvents, Serves
  <2>4. ASSUME NEW w \in Workers, pc[w] \in {"first", "stamp", "recv"}
        PROVE  at[w] \in Clients /\ fdOf'[at[w]] \in Fds /\ map[w][fdOf'[at[w]]] = at[w]
    <3>1. at[w] \in Clients /\ fdOf[at[w]] \in Fds /\ map[w][fdOf[at[w]]] = at[w]
      BY <2>4 DEF OwnInv, HandlerAt
    <3>2. at[w] # c
      <4>1. at[w] # NoClient
        BY <3>1, SimulateAssumption DEF Clients, NoClient
      <4>2. QED
        BY <2>1, <3>1, <4>1
    <3>3. QED
      BY <3>1, <3>2
  <2>5. HandlerAt'
    BY <1>2, <2>4 DEF HandlerAt
  <2>6. QED
    BY <2>2, <2>3, <2>5
<1>3. ASSUME phase[c] # "queued", UNCHANGED mailbox
      PROVE  Mailboxes'
  <2>1. ASSUME NEW w \in Workers, NEW i \in 1 .. Len(mailbox[w])
        PROVE  phase'[mailbox[w][i]] = "queued"
    <3>1. mailbox[w][i] \in Clients
      BY DEF TypeOK
    <3>2. phase[mailbox[w][i]] = "queued"
      BY DEF OwnInv, Mailboxes
    <3>3. QED
      BY <1>1, <1>3, <3>1, <3>2
  <2>2. QED
    BY <1>3, <2>1 DEF OwnInv, Mailboxes
<1>4. ASSUME phase[c] # "connecting", UNCHANGED connectTable
      PROVE  ConnectEvents'
  BY <1>1, <1>4 DEF OwnInv, ConnectEvents
<1>5. QED
  BY <1>2, <1>3, <1>4

-----------------------------------------------------------------------------
(* The steps of main                                                       *)

\* Whoever is in a mailbox is a client that waits there.
LEMMA MailEntry ==
  ASSUME TypeOK, OwnInv, NEW w \in Workers, NEW i \in 1 .. Len(mailbox[w])
  PROVE  mailbox[w][i] \in Clients /\ phase[mailbox[w][i]] = "queued"
<1>1. mailbox[w] \in Seq(Clients)
  BY DEF TypeOK
<1>2. mailbox[w][i] \in Clients
  BY <1>1
<1>3. phase[mailbox[w][i]] = "queued"
  BY DEF OwnInv, Mailboxes
<1>4. QED
  BY <1>2, <1>3

\* Main creates a client that has not come further than its socket.
LEMMA NextIsNew ==
  ASSUME TypeOK, OwnInv, Creating
  PROVE  next \in Clients /\ phase[next] \in {"new", "opened"} /\ inHand = NoClient
<1>1. next \in Clients
  BY Sizes DEF TypeOK, Creating, Clients
<1>2. phase[next] \in {"new", "opened"}
  BY <1>1, Sizes DEF OwnInv, NotYet
<1>3. QED
  BY <1>1, <1>2 DEF Creating

\* Clients that are created later stay new when main is done with next.
LEMMA NextMoves ==
  ASSUME TypeOK, OwnInv, Creating, NEW ph, phase' = [phase EXCEPT ![next] = ph], next' = next + 1
  PROVE  NotYet'
<1>1. ASSUME NEW c \in Clients, c > next
      PROVE  phase'[c] = "new"
  <2>1. c # next
    BY <1>1, Sizes DEF TypeOK
  <2>2. QED
    BY <1>1, <2>1 DEF OwnInv, NotYet, TypeOK
<1>2. \A c \in Clients : c > next' \/ c = next' => c > next
  BY Sizes DEF TypeOK
<1>3. QED
  BY <1>1, <1>2 DEF NotYet

\* A socket is made for a new client.
LEMMA SocketKeepsOwners ==
  ASSUME TypeOK, OwnInv, Socket
  PROVE  OwnInv'
<1>1. next \in Clients /\ phase[next] = "new" /\ inHand = NoClient
  BY NextIsNew DEF Socket
<1>2. PICK fd : fd = LowestFree
  OBVIOUS
<1>3. fd \in Fds /\ fd \notin openFds
  BY <1>2, LowestIsFree DEF Socket
<1>4. /\ fdOf' = [fdOf EXCEPT ![next] = fd] /\ openFds' = openFds \cup {fd}
      /\ phase' = [phase EXCEPT ![next] = "opened"]
      /\ UNCHANGED <<next, inHand, connectTable, mailbox, map, readTable, writeTable, pc, at>>
  BY <1>2 DEF Socket, mainVars, tableVars
<1>5. \A d \in Clients : d # next => fdOf'[d] = fdOf[d]
  BY <1>4 DEF TypeOK
<1>6. MapOwners' /\ WorkerEvents' /\ HandlerAt' /\ Mailboxes' /\ ConnectEvents'
  BY <1>1, <1>4, <1>5, OthersStay
<1>7. FdOwners'
  <2>1. next \notin Owners /\ "opened" \in OwnerPhases
    BY <1>1 DEF Owners, OwnerPhases
  <2>2. QED
    BY <1>1, <1>3, <1>4, <2>1, OwnerComes DEF OwnInv
<1>8. NotYet'
  BY <1>1, <1>4 DEF OwnInv, NotYet, TypeOK
<1>9. InHandPhase'
  BY <1>1, <1>4 DEF InHandPhase
<1>10. QED
  BY <1>6, <1>7, <1>8, <1>9 DEF OwnInv

\* Without a socket a client has nothing to leave behind.
LEMMA SocketFailsKeepsOwners ==
  ASSUME TypeOK, OwnInv, SocketFails
  PROVE  OwnInv'
<1>1. next \in Clients /\ phase[next] = "new" /\ inHand = NoClient /\ Creating
  BY NextIsNew DEF SocketFails
<1>2. /\ phase' = [phase EXCEPT ![next] = "failed"] /\ next' = next + 1
      /\ UNCHANGED <<inHand, connectTable, fdOf, openFds, mailbox, map, readTable, writeTable, pc, at>>
  BY DEF SocketFails, fdVars, tableVars
<1>3. MapOwners' /\ WorkerEvents' /\ HandlerAt' /\ Mailboxes' /\ ConnectEvents'
  BY <1>1, <1>2, OthersStay
<1>4. FdOwners'
  <2>1. phase[next] \in OwnerPhases <=> "failed" \in OwnerPhases
    BY <1>1 DEF OwnerPhases
  <2>2. QED
    BY <1>1, <1>2, <2>1, OwnerStays DEF OwnInv
<1>5. NotYet'
  BY <1>1, <1>2, NextMoves
<1>6. InHandPhase'
  BY <1>1, <1>2 DEF InHandPhase
<1>7. QED
  BY <1>3, <1>4, <1>5, <1>6 DEF OwnInv

\* The end of asyncConnect moves one client on and touches no worker.
LEMMA AfterSocketKeepsOwners ==
  ASSUME TypeOK, OwnInv, AfterSocket, NEW ph, phase' = [phase EXCEPT ![next] = ph],
         UNCHANGED <<fdOf, mailbox, map, readTable, writeTable, pc, at>>
  PROVE  /\ next \in Clients /\ phase[next] = "opened" /\ inHand = NoClient
         /\ MapOwners' /\ WorkerEvents' /\ HandlerAt' /\ Mailboxes' /\ NotYet'
         /\ UNCHANGED connectTable => ConnectEvents'
         /\ ph \in OwnerPhases /\ UNCHANGED openFds => FdOwners'
<1>1. /\ next \in Clients /\ phase[next] = "opened" /\ inHand = NoClient
      /\ Creating /\ next' = next + 1
  BY NextIsNew DEF AfterSocket
<1>2. /\ MapOwners' /\ WorkerEvents' /\ HandlerAt' /\ Mailboxes'
      /\ UNCHANGED connectTable => ConnectEvents'
  BY <1>1, OthersStay
<1>3. NotYet'
  BY <1>1, NextMoves
<1>4. ASSUME ph \in OwnerPhases, UNCHANGED openFds
      PROVE  FdOwners'
  <2>1. phase[next] \in OwnerPhases <=> ph \in OwnerPhases
    BY <1>1, <1>4 DEF OwnerPhases
  <2>2. QED
    BY <1>1, <1>4, <2>1, OwnerStays DEF OwnInv
<1>5. QED
  BY <1>1, <1>2, <1>3, <1>4

\* A connect that fails at once takes its socket along.
LEMMA ConnectFailsKeepsOwners ==
  ASSUME TypeOK, OwnInv, ConnectFails
  PROVE  OwnInv'
<1>1. /\ AfterSocket /\ phase' = [phase EXCEPT ![next] = "failed"]
      /\ openFds' = openFds \ {fdOf[next]}
      /\ UNCHANGED <<inHand, connectTable, fdOf, mailbox, map, readTable, writeTable, pc, at>>
  BY DEF ConnectFails, CloseFailed, tableVars
<1>2. /\ next \in Clients /\ phase[next] = "opened" /\ inHand = NoClient
      /\ MapOwners' /\ WorkerEvents' /\ HandlerAt' /\ Mailboxes' /\ NotYet' /\ ConnectEvents'
  BY <1>1, AfterSocketKeepsOwners
<1>3. FdOwners'
  <2>1. next \in Owners /\ "failed" \notin OwnerPhases
    BY <1>2 DEF Owners, OwnerPhases
  <2>2. QED
    BY <1>1, <2>1, OwnerGoes DEF OwnInv
<1>4. InHandPhase'
  BY <1>1, <1>2 DEF InHandPhase
<1>5. QED
  BY <1>2, <1>3, <1>4 DEF OwnInv

\* A connect that succeeds at once hands its client over.
LEMMA ConnectedAtOnceKeepsOwners ==
  ASSUME TypeOK, OwnInv, ConnectedAtOnce
  PROVE  OwnInv'
<1>1. /\ AfterSocket /\ phase' = [phase EXCEPT ![next] = "inHand"] /\ inHand' = next
      /\ UNCHANGED <<connectTable, fdOf, openFds, mailbox, map, readTable, writeTable, pc, at>>
  BY DEF ConnectedAtOnce, OnConnected, fdVars, tableVars
<1>2. "inHand" \in OwnerPhases
  BY DEF OwnerPhases
<1>3. /\ next \in Clients
      /\ MapOwners' /\ WorkerEvents' /\ HandlerAt' /\ Mailboxes'
      /\ FdOwners' /\ NotYet' /\ ConnectEvents'
  BY <1>1, <1>2, AfterSocketKeepsOwners
<1>4. InHandPhase'
  BY <1>1, <1>3 DEF InHandPhase, TypeOK
<1>5. QED
  BY <1>3, <1>4 DEF OwnInv

\* Whoever is being created has a descriptor that nobody waits on.
LEMMA NoConnectEventYet ==
  ASSUME TypeOK, OwnInv, NEW c \in Clients, phase[c] \in OwnerPhases, phase[c] # "connecting"
  PROVE  fdOf[c] \in Fds /\ connectTable[fdOf[c]] \in Events /\ ~connectTable[fdOf[c]].added
<1>1. c \in Owners /\ fdOf[c] \in Fds
  BY OwnerHasFd DEF OwnInv
<1>2. connectTable[fdOf[c]] \in Events
  BY <1>1 DEF TypeOK
<1>3. ASSUME connectTable[fdOf[c]].added
      PROVE  FALSE
  <2>1. PICK d \in Clients : phase[d] = "connecting" /\ fdOf[d] = fdOf[c]
    BY <1>1, <1>3 DEF OwnInv, ConnectEvents
  <2>2. d \in Owners
    BY <2>1 DEF Owners, OwnerPhases
  <2>3. QED
    BY <1>1, <2>1, <2>2 DEF OwnInv, FdOwners
<1>4. QED
  BY <1>1, <1>2, <1>3

\* What ConnectPending does to the descriptor's entry.
LEMMA PendingEvent ==
  ASSUME TypeOK, OwnInv, NEW ok \in BOOLEAN, ConnectPending(ok)
  PROVE  \E fd \in Fds, new \in Events :
           /\ fd = fdOf[next] /\ connectTable' = [connectTable EXCEPT ![fd] = new]
           /\ ok => new.added /\ new.callback = next
           /\ ~ok => ~new.added
<1>1. next \in Clients /\ phase[next] = "opened"
  BY NextIsNew DEF ConnectPending, AfterSocket
<1>2. PICK fd : fd = fdOf[next]
  OBVIOUS
<1>3. fd \in Fds /\ connectTable[fd] \in Events /\ ~connectTable[fd].added
  BY <1>1, <1>2, NoConnectEventYet DEF OwnerPhases
<1>4. PICK new \in IF ok THEN {WaitConnected(connectTable[fd], next)} ELSE AddFails(connectTable[fd]) :
         connectTable' = [connectTable EXCEPT ![fd] = new]
  BY <1>2 DEF ConnectPending
<1>5. CASE ok
  <2>1. new = AddEventHandler(connectTable[fd], next)
    BY <1>4, <1>5 DEF WaitConnected
  <2>2. new \in Events /\ new.callback = next
    BY <1>1, <1>3, <2>1, EventOps
  <2>3. new.added = TRUE
    BY <1>3, <2>1 DEF AddEventHandler, Events
  <2>4. QED
    BY <1>2, <1>3, <1>4, <1>5, <2>2, <2>3
<1>6. CASE ~ok
  <2>1. new \in AddFails(connectTable[fd])
    BY <1>4, <1>6
  <2>2. new \in Events /\ ~new.added
    BY <1>1, <1>3, <2>1, EventOps
  <2>3. QED
    BY <1>2, <1>3, <1>4, <1>6, <2>2
<1>7. QED
  BY <1>5, <1>6

\* The event is added to a descriptor that nobody waits on.
LEMMA ConnectPendingKeepsOwners ==
  ASSUME TypeOK, OwnInv, NEW ok \in BOOLEAN, ConnectPending(ok)
  PROVE  OwnInv'
<1>1. PICK ph \in {"connecting", "forgotten"} :
        phase' = [phase EXCEPT ![next] = ph] /\ (ok => ph = "connecting")
  BY DEF ConnectPending
<1>2. AfterSocket /\ UNCHANGED <<inHand, fdOf, openFds, mailbox, map, readTable, writeTable, pc, at>>
  BY DEF ConnectPending, fdVars, tableVars
<1>3. ph \in OwnerPhases
  BY <1>1 DEF OwnerPhases
<1>4. /\ next \in Clients /\ phase[next] = "opened" /\ inHand = NoClient
      /\ MapOwners' /\ WorkerEvents' /\ HandlerAt' /\ Mailboxes'
      /\ FdOwners' /\ NotYet'
  BY <1>1, <1>2, <1>3, AfterSocketKeepsOwners
<1>5. InHandPhase'
  BY <1>2, <1>4 DEF InHandPhase
<1>6. PICK fd \in Fds, new \in Events :
           /\ fd = fdOf[next] /\ connectTable' = [connectTable EXCEPT ![fd] = new]
           /\ ok => new.added /\ new.callback = next
           /\ ~ok => ~new.added
  BY PendingEvent
<1>7. ASSUME NEW g \in Fds, connectTable'[g].added
      PROVE  /\ connectTable'[g].callback \in Clients
             /\ phase'[connectTable'[g].callback] = "connecting"
             /\ fdOf'[connectTable'[g].callback] = g
  <2>1. CASE g = fd
    <3>1. connectTable'[g] = new
      BY <1>6, <2>1 DEF TypeOK
    <3>2. ok /\ connectTable'[g].callback = next
      BY <1>6, <1>7, <3>1
    <3>3. phase'[next] = "connecting"
      BY <1>1, <1>4, <3>2 DEF TypeOK
    <3>4. QED
      BY <1>2, <1>4, <1>6, <2>1, <3>2, <3>3
  <2>2. CASE g # fd
    <3>1. connectTable'[g] = connectTable[g]
      BY <1>6, <2>2 DEF TypeOK
    <3>2. PICK d \in Clients : d = connectTable[g].callback /\ phase[d] = "connecting" /\ fdOf[d] = g
      BY <1>7, <3>1 DEF OwnInv, ConnectEvents
    <3>3. phase'[d] = "connecting"
      BY <1>1, <1>4, <3>2 DEF TypeOK
    <3>4. QED
      BY <1>2, <3>1, <3>2, <3>3
  <2>3. QED
    BY <2>1, <2>2
<1>8. ConnectEvents'
  BY <1>7 DEF ConnectEvents
<1>9. QED
  BY <1>4, <1>5, <1>8 DEF OwnInv

\* The client in hand goes to the end of one mailbox.
LEMMA NotifyKeepsOwners ==
  ASSUME TypeOK, OwnInv, NotifyNewConnect
  PROVE  OwnInv'
<1>1. PICK c \in Clients : c = inHand
  BY DEF NotifyNewConnect, TypeOK
<1>2. PICK w \in Workers : w = cur
  BY DEF TypeOK
<1>3. /\ mailbox' = [mailbox EXCEPT ![w] = Append(mailbox[w], c)]
      /\ phase' = [phase EXCEPT ![c] = "queued"] /\ inHand' = NoClient
      /\ UNCHANGED <<next, connectTable, fdOf, openFds, map, readTable, writeTable, pc, at>>
  BY <1>1, <1>2 DEF NotifyNewConnect, fdVars, tableVars
<1>4. phase[c] = "inHand"
  BY <1>1 DEF NotifyNewConnect, OwnInv, InHandPhase
<1>5. MapOwners' /\ WorkerEvents' /\ HandlerAt' /\ ConnectEvents'
  BY <1>3, <1>4, OthersStay
<1>6. FdOwners'
  <2>1. phase[c] \in OwnerPhases <=> "queued" \in OwnerPhases
    BY <1>4 DEF OwnerPhases
  <2>2. QED
    BY <1>3, <2>1, OwnerStays DEF OwnInv
<1>7. NotYet'
  BY <1>3, <1>4, NextStays
<1>8. InHandPhase'
  BY <1>3 DEF InHandPhase
<1>9. PICK n \in Nat : n = Len(mailbox[w])
  BY DEF TypeOK
<1>10. /\ Len(mailbox'[w]) = n + 1 /\ mailbox'[w][n + 1] = c
       /\ \A i \in 1 .. n : mailbox'[w][i] = mailbox[w][i]
       /\ \A v \in Workers : v # w => mailbox'[v] = mailbox[v]
  BY <1>3, <1>9 DEF TypeOK
<1>11. ASSUME NEW v \in Workers, NEW i \in 1 .. Len(mailbox'[v])
       PROVE  \/ v = w /\ i = n + 1 /\ mailbox'[v][i] = c
              \/ i \in 1 .. Len(mailbox[v]) /\ mailbox'[v][i] = mailbox[v][i]
  BY <1>9, <1>10
<1>12. ASSUME NEW v \in Workers, NEW i \in 1 .. Len(mailbox[v])
       PROVE  mailbox[v][i] # c /\ phase'[mailbox[v][i]] = "queued"
  <2>1. mailbox[v][i] \in Clients /\ phase[mailbox[v][i]] = "queued"
    BY MailEntry
  <2>2. QED
    BY <1>3, <1>4, <2>1 DEF TypeOK
<1>13. phase'[c] = "queued"
  BY <1>3 DEF TypeOK
<1>14. ASSUME NEW v \in Workers, NEW i \in 1 .. Len(mailbox'[v]),
              NEW u \in Workers, NEW j \in 1 .. Len(mailbox'[u]),
              mailbox'[v][i] = mailbox'[u][j]
       PROVE  v = u /\ i = j
  <2>1. CASE i \in 1 .. Len(mailbox[v]) /\ mailbox'[v][i] = mailbox[v][i]
    <3>1. j \in 1 .. Len(mailbox[u]) /\ mailbox'[u][j] = mailbox[u][j]
      BY <1>11, <1>12, <1>14, <2>1, ZenonT(40)
    <3>2. mailbox[v][i] = mailbox[u][j]
      BY <1>14, <2>1, <3>1
    <3>3. Mailboxes
      BY DEF OwnInv
    <3>4. QED
      BY <2>1, <3>1, <3>2, <3>3 DEF Mailboxes
  <2>2. CASE v = w /\ i = n + 1 /\ mailbox'[v][i] = c
    <3>1. u = w /\ j = n + 1
      BY <1>11, <1>12, <1>14, <2>2
    <3>2. QED
      BY <2>2, <3>1
  <2>3. QED
    BY <1>11, <2>1, <2>2
<1>15. Mailboxes'
  BY <1>11, <1>12, <1>13, <1>14 DEF Mailboxes
<1>16. QED
  BY <1>5, <1>6, <1>7, <1>8, <1>15 DEF OwnInv

\* A connect has ended: the client is in main's hand, or gone with its socket.
LEMMA OnConnectEventKeepsOwners ==
  ASSUME TypeOK, OwnInv, NEW fd \in Fds, NEW ok \in BOOLEAN, OnConnectEvent(fd, ok)
  PROVE  OwnInv'
<1>1. PICK c \in Clients : /\ c = connectTable[fd].callback
                           /\ phase[c] = "connecting" /\ fdOf[c] = fd
  BY DEF OnConnectEvent, OwnInv, ConnectEvents
<1>2. PICK ph \in {"inHand", "failed"} : phase' = [phase EXCEPT ![c] = ph]
  BY <1>1 DEF OnConnectEvent
<1>3. /\ inHand = NoClient /\ connectTable' = [connectTable EXCEPT ![fd] = Fired(connectTable[fd])]
      /\ UNCHANGED <<next, fdOf, mailbox, map, readTable, writeTable, pc, at>>
  BY DEF OnConnectEvent, MainLoop, tableVars
<1>4. MapOwners' /\ WorkerEvents' /\ HandlerAt' /\ Mailboxes'
  BY <1>1, <1>2, <1>3, OthersStay
<1>5. NotYet'
  BY <1>1, <1>2, <1>3, NextStays
<1>6. ConnectEvents'
  <2> SUFFICES ASSUME NEW g \in Fds, connectTable'[g].added
               PROVE  /\ connectTable'[g].callback \in Clients
                      /\ phase'[connectTable'[g].callback] = "connecting"
                      /\ fdOf'[connectTable'[g].callback] = g
    BY DEF ConnectEvents
  <2>1. connectTable'[fd] = Fired(connectTable[fd]) /\ connectTable[fd] \in Events
    BY <1>3 DEF TypeOK
  <2>2. ~connectTable'[fd].added
    BY <1>1, <2>1, EventOps
  <2>3. g # fd /\ connectTable'[g] = connectTable[g]
    BY <1>3, <2>2 DEF TypeOK
  <2>4. PICK d \in Clients : d = connectTable[g].callback /\ phase[d] = "connecting" /\ fdOf[d] = g
    BY <2>3 DEF OwnInv, ConnectEvents
  <2>5. d # c
    BY <1>1, <2>3, <2>4
  <2>6. QED
    BY <1>2, <1>3, <2>3, <2>4, <2>5 DEF TypeOK
<1>7. CASE ok
  <2>1. phase' = [phase EXCEPT ![c] = "inHand"] /\ inHand' = c /\ openFds' = openFds
    BY <1>1, <1>7 DEF OnConnectEvent, OnConnected
  <2>2. InHandPhase'
    BY <2>1 DEF InHandPhase, TypeOK
  <2>3. phase[c] \in OwnerPhases <=> "inHand" \in OwnerPhases
    BY <1>1 DEF OwnerPhases
  <2>4. FdOwners'
    BY <1>3, <2>1, <2>3, OwnerStays DEF OwnInv
  <2>5. QED
    BY <1>4, <1>5, <1>6, <2>2, <2>4 DEF OwnInv
<1>8. CASE ~ok
  <2>1. phase' = [phase EXCEPT ![c] = "failed"] /\ inHand' = inHand /\ openFds' = openFds \ {fdOf[c]}
    BY <1>1, <1>8 DEF OnConnectEvent, CloseFailed
  <2>2. InHandPhase'
    BY <1>3, <2>1 DEF InHandPhase
  <2>3. c \in Owners /\ "failed" \notin OwnerPhases
    BY <1>1 DEF Owners, OwnerPhases
  <2>4. FdOwners'
    BY <1>3, <2>1, <2>3, OwnerGoes DEF OwnInv
  <2>5. QED
    BY <1>4, <1>5, <1>6, <2>2, <2>4 DEF OwnInv
<1>9. QED
  BY <1>7, <1>8

-----------------------------------------------------------------------------
(* The steps of a worker                                                   *)

\* A mailbox is read from its head.
LEMMA TakeKeepsMailboxes ==
  ASSUME TypeOK, OwnInv, NEW w \in Workers, mailbox[w] # << >>,
         mailbox' = [mailbox EXCEPT ![w] = Tail(mailbox[w])],
         NEW ph, phase' = [phase EXCEPT ![Head(mailbox[w])] = ph]
  PROVE  Mailboxes'
<1>0. PICK mb : mb = mailbox'
  OBVIOUS
<1>1. PICK c : c = Head(mailbox[w])
  OBVIOUS
<1>2. PICK n \in Nat : n = Len(mailbox[w])
  BY DEF TypeOK
<1>3. /\ n >= 1 /\ mailbox[w][1] = c /\ c \in Clients
      /\ Len(mb[w]) = n - 1
      /\ \A i \in 1 .. n - 1 : mb[w][i] = mailbox[w][i + 1]
      /\ \A v \in Workers : v # w => mb[v] = mailbox[v]
  <2>1. mailbox[w] \in Seq(Clients)
    BY DEF TypeOK
  <2>2. /\ Len(Tail(mailbox[w])) = n - 1
        /\ \A i \in 1 .. n - 1 : Tail(mailbox[w])[i] = mailbox[w][i + 1]
        /\ n >= 1 /\ mailbox[w][1] = c /\ c \in Clients
    BY <1>1, <1>2, <2>1
  <2>3. mb[w] = Tail(mailbox[w]) /\ \A v \in Workers : v # w => mb[v] = mailbox[v]
    BY <1>0 DEF TypeOK
  <2>4. QED
    BY <2>2, <2>3
<1>4. Mailboxes
  BY DEF OwnInv
<1>5. ASSUME NEW v \in Workers, NEW i \in 1 .. Len(mb[v])
      PROVE  \E k \in 1 .. Len(mailbox[v]) :
               /\ mb[v][i] = mailbox[v][k] /\ (v = w => k = i + 1) /\ (v # w => k = i)
  <2>1. CASE v = w
    <3>1. i \in 1 .. n - 1 /\ i + 1 \in 1 .. n
      BY <1>3, <2>1
    <3>2. QED
      BY <1>2, <1>3, <2>1, <3>1
  <2>2. CASE v # w
    BY <1>3, <2>2
  <2>3. QED
    BY <2>1, <2>2
<1>6. ASSUME NEW v \in Workers, NEW i \in 1 .. Len(mb[v])
      PROVE  phase'[mb[v][i]] = "queued"
  <2>1. PICK k \in 1 .. Len(mailbox[v]) :
           mb[v][i] = mailbox[v][k] /\ (v = w => k = i + 1) /\ (v # w => k = i)
    BY <1>5
  <2>2. mailbox[v][k] \in Clients /\ phase[mailbox[v][k]] = "queued"
    BY <1>4 DEF Mailboxes, TypeOK
  <2>3. mailbox[v][k] # mailbox[w][1]
    <3>1. 1 \in 1 .. Len(mailbox[w])
      BY <1>2, <1>3
    <3>2. ~(v = w /\ k = 1)
      BY <2>1
    <3>3. QED
      BY <1>4, <3>1, <3>2 DEF Mailboxes
  <2>4. QED
    BY <1>1, <1>3, <2>1, <2>2, <2>3 DEF TypeOK
<1>7. ASSUME NEW v \in Workers, NEW i \in 1 .. Len(mb[v]),
             NEW u \in Workers, NEW j \in 1 .. Len(mb[u]),
             mb[v][i] = mb[u][j]
      PROVE  v = u /\ i = j
  <2>1. PICK k \in 1 .. Len(mailbox[v]) :
           mb[v][i] = mailbox[v][k] /\ (v = w => k = i + 1) /\ (v # w => k = i)
    BY <1>5
  <2>2. PICK l \in 1 .. Len(mailbox[u]) :
           mb[u][j] = mailbox[u][l] /\ (u = w => l = j + 1) /\ (u # w => l = j)
    BY <1>5
  <2>3. mailbox[v][k] = mailbox[u][l]
    BY <1>7, <2>1, <2>2
  <2>4. v = u /\ k = l
    BY <1>4, <2>3 DEF Mailboxes
  <2>5. QED
    BY <2>1, <2>2, <2>4
<1> DEFINE Once(m, p) == \A v \in Workers : \A i \in 1 .. Len(m[v]) :
             /\ p[m[v][i]] = "queued"
             /\ \A u \in Workers : \A j \in 1 .. Len(m[u]) : m[v][i] = m[u][j] => v = u /\ i = j
<1>8. Once(mb, phase')
  BY <1>6, <1>7, Zenon
<1> HIDE DEF Once
<1>9. Once(mailbox', phase')
  BY <1>0, <1>8
<1>10. QED
  BY <1>9, Zenon DEF Once, Mailboxes

\* onConnection finds the place in the map free and nothing left in the tables.
LEMMA OnNewConnectKeepsOwners ==
  ASSUME TypeOK, OwnInv, NEW w \in Workers, NEW ok \in BOOLEAN, OnNewConnect(w, ok)
  PROVE  OwnInv'
<1>1. PICK c \in Clients : c = Head(mailbox[w]) /\ phase[c] = "queued"
  <2>1. mailbox[w] \in Seq(Clients) /\ mailbox[w] # << >>
    BY DEF OnNewConnect, TypeOK
  <2>2. Head(mailbox[w]) \in Clients /\ Head(mailbox[w]) = mailbox[w][1] /\ 1 \in 1 .. Len(mailbox[w])
    BY <2>1
  <2>3. QED
    BY <2>2 DEF OwnInv, Mailboxes
<1>2. PICK fd : fd = fdOf[c]
  OBVIOUS
<1>3. fd \in Fds /\ c \in Owners /\ \A v \in Workers : map[v][fd] = NoClient
  <2>1. phase[c] \in OwnerPhases /\ phase[c] # "live"
    BY <1>1 DEF OwnerPhases
  <2>2. c \in Owners /\ fd \in Fds
    BY <1>2, <2>1, OwnerHasFd DEF OwnInv
  <2>3. \A v \in Workers : map[v][fd] = NoClient
    BY <1>2, <2>1, PlaceIsFree DEF OwnInv
  <2>4. QED
    BY <2>2, <2>3
<1>4. /\ mailbox[w] # << >> /\ mailbox' = [mailbox EXCEPT ![w] = Tail(mailbox[w])]
      /\ UNCHANGED <<next, inHand, connectTable, fdOf>> /\ pc[w] = "loop"
  BY DEF OnNewConnect, mainVars
<1>5. PICK ph \in {"live", "gone"} : /\ phase' = [phase EXCEPT ![c] = ph]
                                     /\ ph = IF ok THEN "live" ELSE "gone"
  BY <1>1 DEF OnNewConnect
<1>6. Mailboxes'
  BY <1>1, <1>4, <1>5, TakeKeepsMailboxes
<1>7. ConnectEvents'
  BY <1>1, <1>4, <1>5, OthersStay
<1>8. NotYet'
  BY <1>1, <1>4, <1>5, NextStays
<1>9. InHandPhase'
  <2>1. ASSUME inHand # NoClient
        PROVE  phase'[inHand] = "inHand"
    <3>1. inHand \in Clients /\ phase[inHand] = "inHand"
      BY <2>1 DEF OwnInv, InHandPhase, TypeOK
    <3>2. QED
      BY <1>1, <1>5, <3>1 DEF TypeOK
  <2>2. QED
    BY <1>4, <2>1 DEF InHandPhase
<1>10. CASE ~ok
  <2>1. /\ phase' = [phase EXCEPT ![c] = "gone"] /\ openFds' = openFds \ {fdOf[c]}
        /\ UNCHANGED <<map, readTable, writeTable, pc, at>>
    BY <1>1, <1>10 DEF OnNewConnect
  <2>2. MapOwners' /\ WorkerEvents' /\ HandlerAt'
    BY <1>1, <1>4, <2>1, OthersStay
  <2>3. "gone" \notin OwnerPhases
    BY DEF OwnerPhases
  <2>4. FdOwners'
    BY <1>3, <1>4, <2>1, <2>3, OwnerGoes DEF OwnInv
  <2>5. QED
    BY <1>6, <1>7, <1>8, <1>9, <2>2, <2>4 DEF OwnInv
<1>11. CASE ok
  <2>1. /\ phase' = [phase EXCEPT ![c] = "live"] /\ UNCHANGED <<readTable, openFds>>
        /\ map' = [map EXCEPT ![w][fd] = c]
        /\ writeTable' = [writeTable EXCEPT ![w][fd] = AddEventHandler(writeTable[w][fd], c)]
        /\ at' = [at EXCEPT ![w] = c]
        /\ \A v \in Workers : v # w => pc'[v] = pc[v]
    BY <1>1, <1>2, <1>11 DEF OnNewConnect, TypeOK
  <2>2. FdOwners'
    <3>1. phase[c] \in OwnerPhases <=> "live" \in OwnerPhases
      BY <1>1 DEF OwnerPhases
    <3>2. QED
      BY <1>4, <2>1, <3>1, OwnerStays DEF OwnInv
  <2>3. /\ map'[w][fd] = c
        /\ \A v \in Workers, g \in Fds : ~(v = w /\ g = fd) =>
             map'[v][g] = map[v][g] /\ writeTable'[v][g] = writeTable[v][g]
        /\ writeTable'[w][fd] = AddEventHandler(writeTable[w][fd], c)
    BY <1>3, <2>1 DEF TypeOK
  <2>4. phase'[c] = "live" /\ \A d \in Clients : d # c => phase'[d] = phase[d]
    BY <2>1 DEF TypeOK
  <2>5. MapOwners'
    <3> SUFFICES ASSUME NEW v \in Workers, NEW g \in Fds, map'[v][g] # NoClient
                 PROVE  /\ phase'[map'[v][g]] = "live" /\ fdOf[map'[v][g]] = g
                        /\ \A u \in Workers : map'[u][g] # NoClient => u = v
      BY <1>4 DEF MapOwners
    <3>1. CASE g = fd
      <4>1. v = w /\ \A u \in Workers : map'[u][g] # NoClient => u = w
        BY <1>3, <2>3, <3>1
      <4>2. QED
        BY <1>2, <2>3, <2>4, <3>1, <4>1
    <3>2. CASE g # fd
      <4>1. map'[v][g] = map[v][g] /\ \A u \in Workers : map'[u][g] = map[u][g]
        BY <2>3, <3>2
      <4>2. map[v][g] \in Clients /\ phase[map[v][g]] = "live" /\ fdOf[map[v][g]] = g
        BY <4>1, PlaceOwner DEF OwnInv
      <4>3. \A u \in Workers : map[u][g] # NoClient => u = v
        BY <4>1 DEF OwnInv, MapOwners
      <4>4. QED
        BY <2>4, <4>1, <4>2, <4>3
    <3>3. QED
      BY <3>1, <3>2
  <2>6. WorkerEvents'
    <3> SUFFICES ASSUME NEW v \in Workers, NEW g \in Fds
                 PROVE  Serves(readTable[v][g], map'[v][g]) /\ Serves(writeTable'[v][g], map'[v][g])
      BY <2>1 DEF WorkerEvents, Serves
    <3>1. Serves(readTable[v][g], map[v][g]) /\ Serves(writeTable[v][g], map[v][g])
      BY DEF OwnInv, WorkerEvents
    <3>2. CASE v = w /\ g = fd
      <4>1. ~readTable[v][g].added
        BY <1>3, <3>1, <3>2 DEF Serves
      <4>2. writeTable[w][fd] \in Events /\ c # NoClient
        BY <1>3, Sizes DEF TypeOK
      <4>3. Serves(AddEventHandler(writeTable[w][fd], c), c)
        BY <4>2, EventOps
      <4>4. QED
        BY <2>3, <3>2, <4>1, <4>3 DEF Serves
    <3>3. CASE ~(v = w /\ g = fd)
      BY <2>3, <3>1, <3>3
    <3>4. QED
      BY <3>2, <3>3
  <2>7. HandlerAt'
    <3> SUFFICES ASSUME NEW v \in Workers, pc'[v] \in {"first", "stamp", "recv"}
                 PROVE  at'[v] \in Clients /\ fdOf[at'[v]] \in Fds /\ map'[v][fdOf[at'[v]]] = at'[v]
      BY <1>4 DEF HandlerAt
    <3>1. CASE v = w
      <4>1. at'[v] = c
        BY <2>1, <3>1 DEF TypeOK
      <4>2. QED
        BY <1>2, <1>3, <2>3, <3>1, <4>1
    <3>2. CASE v # w
      <4>1. pc'[v] = pc[v] /\ at'[v] = at[v]
        BY <2>1, <3>2 DEF TypeOK
      <4>2. at[v] \in Clients /\ fdOf[at[v]] \in Fds /\ map[v][fdOf[at[v]]] = at[v]
        BY <4>1 DEF OwnInv, HandlerAt
      <4>3. QED
        BY <2>3, <3>2, <4>1, <4>2
    <3>3. QED
      BY <3>1, <3>2
  <2>8. QED
    BY <1>6, <1>7, <1>8, <1>9, <2>2, <2>5, <2>6, <2>7 DEF OwnInv
<1>12. QED
  BY <1>10, <1>11

\* The entries of a worker's tables, as DestroyKeepsOwners needs them.
LEMMA Entries ==
  ASSUME TypeOK, OwnInv, NEW w \in Workers, NEW fd \in Fds
  PROVE  /\ readTable[w][fd] \in Events /\ writeTable[w][fd] \in Events
         /\ readTable[w][fd].added => readTable[w][fd].made
         /\ writeTable[w][fd].added => writeTable[w][fd].made
         /\ Serves(readTable[w][fd], map[w][fd]) /\ Serves(writeTable[w][fd], map[w][fd])
         /\ Fired(readTable[w][fd]) \in Events /\ Fired(writeTable[w][fd]) \in Events
         /\ ~Fired(readTable[w][fd]).added /\ ~Fired(writeTable[w][fd]).added
         /\ readTable = [readTable EXCEPT ![w][fd] = readTable[w][fd]]
         /\ writeTable = [writeTable EXCEPT ![w][fd] = writeTable[w][fd]]
<1>1. readTable[w][fd] \in Events /\ writeTable[w][fd] \in Events
  BY DEF TypeOK
<1>2. Serves(readTable[w][fd], map[w][fd]) /\ Serves(writeTable[w][fd], map[w][fd])
  BY DEF OwnInv, WorkerEvents
<1>3. /\ Fired(readTable[w][fd]) \in Events /\ Fired(writeTable[w][fd]) \in Events
      /\ ~Fired(readTable[w][fd]).added /\ ~Fired(writeTable[w][fd]).added
  BY <1>1, EventOps
<1>4. /\ readTable = [readTable EXCEPT ![w][fd] = readTable[w][fd]]
      /\ writeTable = [writeTable EXCEPT ![w][fd] = writeTable[w][fd]]
  BY DEF TypeOK
<1>5. QED
  BY <1>1, <1>2, <1>3, <1>4 DEF Serves

\* A step that leaves maps and tables alone.
LEMMA TablesStay ==
  ASSUME TypeOK, OwnInv, UNCHANGED ownVars, UNCHANGED <<readTable, writeTable>>, HandlerAt'
  PROVE  OwnInv'
<1>1. NotYet' /\ InHandPhase' /\ ConnectEvents' /\ MapOwners' /\ Mailboxes'
  BY DEF OwnInv, ownVars, NotYet, InHandPhase, ConnectEvents, MapOwners, Mailboxes
<1>2. FdOwners' /\ WorkerEvents'
  BY DEF OwnInv, ownVars, FdOwners, Owners, WorkerEvents, Serves
<1>3. QED
  BY <1>1, <1>2 DEF OwnInv

\* A worker goes on inside its handler, or leaves it.
LEMMA HandlerMoves ==
  ASSUME TypeOK, OwnInv, UNCHANGED <<fdOf, map>>, NEW w \in Workers,
         \A v \in Workers : v # w => pc'[v] = pc[v] /\ at'[v] = at[v],
         \/ pc'[w] \notin {"first", "stamp", "recv"}
         \/ pc[w] \in {"first", "stamp", "recv"} /\ at'[w] = at[w]
  PROVE  HandlerAt'
<1> SUFFICES ASSUME NEW v \in Workers, pc'[v] \in {"first", "stamp", "recv"}
             PROVE  at'[v] \in Clients /\ fdOf[at'[v]] \in Fds /\ map[v][fdOf[at'[v]]] = at'[v]
  BY DEF HandlerAt
<1>1. pc[v] \in {"first", "stamp", "recv"} /\ at'[v] = at[v]
  OBVIOUS
<1>2. QED
  BY <1>1 DEF OwnInv, HandlerAt

\* The handler's look at bConnectedFirstSend_ moves nothing but the handler.
LEMMA FirstSendKeepsOwners ==
  ASSUME TypeOK, OwnInv, NEW w \in Workers, ClearFirst(w) \/ Stamp(w)
  PROVE  OwnInv'
<1>1. UNCHANGED ownVars /\ UNCHANGED <<readTable, writeTable, at>>
  BY DEF ClearFirst, Stamp, mainVars, fdVars, tableVars, ownVars
<1>2. pc[w] \in {"first", "stamp"} /\ \A v \in Workers : v # w => pc'[v] = pc[v]
  BY DEF ClearFirst, Stamp, TypeOK
<1>3. HandlerAt'
  BY <1>1, <1>2, HandlerMoves DEF ownVars
<1>4. QED
  BY <1>1, <1>3, TablesStay

\* The first receive: the event calls the connection of the handler, or the
\* connection is destroyed.
LEMMA BeginRecvKeepsOwners ==
  ASSUME TypeOK, OwnInv, NEW w \in Workers, NEW ok \in BOOLEAN, BeginRecv(w, ok)
  PROVE  OwnInv'
<1>1. PICK c \in Clients : c = at[w] /\ fdOf[c] \in Fds /\ map[w][fdOf[c]] = c
  BY DEF BeginRecv, OwnInv, HandlerAt
<1>2. PICK fd \in Fds : fd = fdOf[c]
  BY <1>1
<1>3. map[w][fd] = c /\ c # NoClient
  BY <1>1, <1>2, Sizes
<1>4. /\ pc'[w] = "loop" /\ \A v \in Workers : v # w => pc'[v] = pc[v] /\ at'[v] = at[v]
      /\ UNCHANGED <<next, inHand, connectTable, fdOf, mailbox>>
  BY DEF BeginRecv, mainVars, TypeOK
<1>5. CASE ok
  <2>1. /\ readTable' = [readTable EXCEPT ![w][fd] = AddEventHandler(readTable[w][fd], c)]
        /\ UNCHANGED <<map, writeTable, openFds, phase>>
    BY <1>1, <1>2, <1>5 DEF BeginRecv
  <2>2. Serves(AddEventHandler(readTable[w][fd], c), map[w][fd])
    BY <1>3, Entries, EventOps
  <2>3. HandlerAt'
    BY <1>4, <2>1, HandlerMoves
  <2>4. Serves(writeTable[w][fd], map[w][fd]) /\ writeTable' = [writeTable EXCEPT ![w][fd] = writeTable[w][fd]]
    BY <2>1, Entries
  <2>5. UNCHANGED ownVars
    BY <1>4, <2>1 DEF ownVars
  <2>6. QED
    BY <2>1, <2>2, <2>3, <2>4, <2>5, RearmKeepsOwners
<1>6. CASE ~ok
  <2>1. Destroy(w, fd, readTable[w][fd], writeTable[w][fd])
    BY <1>1, <1>2, <1>6 DEF BeginRecv
  <2>2. pc'[w] \notin {"first", "stamp", "recv"}
    BY <1>4
  <2>3. QED
    BY <1>3, <1>4, <2>1, <2>2, Entries, DestroyKeepsOwners
<1>7. QED
  BY <1>5, <1>6

\* The read event of client c's descriptor fd becomes one that serves c.
ReadServes(w, fd, c) ==
  \E rd \in Events : Serves(rd, c) /\ readTable' = [readTable EXCEPT ![w][fd] = rd]

\* asyncRecvBytes inside a handler: the event calls the same connection again,
\* or stays off.
LEMMA RecvAgainServes ==
  ASSUME TypeOK, OwnInv, NEW w \in Workers, NEW fd \in Fds, NEW ok \in BOOLEAN,
         NEW c \in Clients, c = map[w][fd], RecvAgain(w, fd, c, ok)
  PROVE  ReadServes(w, fd, c)
<1>1. PICK e \in Events : e = Fired(readTable[w][fd]) /\ ~e.added
  BY Entries
<1>2. PICK rd \in IF ok THEN {AddEventHandler(e, c)} ELSE AddFails(e) :
         readTable' = [readTable EXCEPT ![w][fd] = rd]
  BY <1>1 DEF RecvAgain
<1>3. c # NoClient
  BY Sizes
<1>4. rd \in Events /\ Serves(rd, c)
  <2>1. CASE ok
    BY <1>2, <1>3, <2>1, EventOps
  <2>2. CASE ~ok
    <3>1. rd \in AddFails(e) /\ ~e.added
      BY <1>1, <1>2, <2>2
    <3>2. rd \in Events /\ ~rd.added
      BY <3>1, EventOps
    <3>3. QED
      BY <3>2 DEF Serves
  <2>3. QED
    BY <2>1, <2>2
<1>5. QED
  BY <1>2, <1>4 DEF ReadServes

\* A receive callback runs for the owner, and re-arms or destroys it.
LEMMA ReadStepKeepsOwners ==
  ASSUME TypeOK, OwnInv, NEW w \in Workers, NEW fd \in Fds, ReadStep(w, fd)
  PROVE  OwnInv'
<1>1. pc[w] = "loop" /\ readTable[w][fd].added
  BY DEF ReadStep, RecvError, RecvHead, RecvBody, ReadFires
<1>2. PICK c \in Clients : c = map[w][fd] /\ c = readTable[w][fd].callback /\ c # NoClient
  <2>1. map[w][fd] # NoClient /\ readTable[w][fd].callback = map[w][fd]
    BY <1>1, FiresForOwner
  <2>2. QED
    BY <2>1 DEF TypeOK
<1>3. UNCHANGED <<next, inHand, connectTable, fdOf, mailbox>>
  BY DEF ReadStep, RecvError, RecvHead, RecvBody, mainVars, fdVars
<1>4. ASSUME UNCHANGED <<phase, openFds, map, writeTable, pc, at>>, NEW rd, Serves(rd, c),
             readTable' = [readTable EXCEPT ![w][fd] = rd]
      PROVE  OwnInv'
  <2>1. HandlerAt'
    BY <1>1, <1>3, <1>4, HandlerMoves
  <2>2. Serves(writeTable[w][fd], map[w][fd]) /\ writeTable' = [writeTable EXCEPT ![w][fd] = writeTable[w][fd]]
    BY <1>4, Entries
  <2>3. UNCHANGED ownVars
    BY <1>3, <1>4 DEF ownVars
  <2>4. QED
    BY <1>2, <1>4, <2>1, <2>2, <2>3, RearmKeepsOwners
<1>5. ASSUME Destroy(w, fd, Fired(readTable[w][fd]), writeTable[w][fd]),
             pc'[w] \in {"loop", "exit"}, \A v \in Workers : v # w => pc'[v] = pc[v] /\ at'[v] = at[v]
      PROVE  OwnInv'
  <2>1. pc'[w] \notin {"first", "stamp", "recv"} /\ map[w][fd] # NoClient
    BY <1>2, <1>5
  <2>2. QED
    BY <1>3, <1>5, <2>1, Entries, DestroyKeepsOwners
<1>6. CASE RecvError(w, fd)
  <2>1. Destroy(w, fd, Fired(readTable[w][fd]), writeTable[w][fd]) /\ UNCHANGED <<pc, at>>
    BY <1>6 DEF RecvError
  <2>2. QED
    BY <1>1, <1>5, <2>1
<1>7. ASSUME NEW ok \in BOOLEAN, RecvHead(w, fd, ok)
      PROVE  OwnInv'
  <2>1. RecvAgain(w, fd, c, ok) /\ UNCHANGED <<phase, openFds, map, writeTable, pc, at>>
    BY <1>2, <1>7 DEF RecvHead, fdVars
  <2>2. PICK rd \in Events : Serves(rd, c) /\ readTable' = [readTable EXCEPT ![w][fd] = rd]
    <3>1. c = map[w][fd] /\ RecvAgain(w, fd, c, ok)
      BY <1>2, <2>1
    <3>2. ReadServes(w, fd, c)
      BY <3>1, RecvAgainServes
    <3>3. QED
      BY <3>2 DEF ReadServes
  <2>3. QED
    BY <1>4, <2>1, <2>2
<1>8. ASSUME NEW ok \in BOOLEAN, RecvBody(w, fd, ok)
      PROVE  OwnInv'
  <2>1. CASE AllEchoes(echoCount + 1)
    <3>1. /\ Destroy(w, fd, Fired(readTable[w][fd]), writeTable[w][fd])
          /\ pc' = [pc EXCEPT ![w] = "exit"] /\ at' = [at EXCEPT ![w] = c]
      BY <1>2, <1>8, <2>1 DEF RecvBody
    <3>2. pc'[w] \in {"loop", "exit"} /\ \A v \in Workers : v # w => pc'[v] = pc[v] /\ at'[v] = at[v]
      BY <3>1 DEF TypeOK
    <3>3. QED
      BY <1>5, <3>1, <3>2
  <2>2. CASE ~AllEchoes(echoCount + 1)
    <3>1. /\ UNCHANGED <<phase, openFds, map, writeTable, pc, at>>
          /\ \/ readTable' = [readTable EXCEPT ![w][fd] = Fired(readTable[w][fd])]
             \/ RecvAgain(w, fd, c, ok)
      BY <1>2, <1>8, <2>2 DEF RecvBody
    <3>2. CASE RecvAgain(w, fd, c, ok)
      <4>1. PICK rd \in Events : Serves(rd, c) /\ readTable' = [readTable EXCEPT ![w][fd] = rd]
        <5>1. c = map[w][fd]
          BY <1>2
        <5>2. ReadServes(w, fd, c)
          BY <1>8, <3>2, <5>1, RecvAgainServes
        <5>3. QED
          BY <5>2 DEF ReadServes
      <4>2. QED
        BY <1>4, <3>1, <4>1
    <3>3. CASE readTable' = [readTable EXCEPT ![w][fd] = Fired(readTable[w][fd])]
      <4>1. Serves(Fired(readTable[w][fd]), c)
        BY Entries DEF Serves
      <4>2. QED
        BY <1>4, <3>1, <3>3, <4>1
    <3>4. QED
      BY <3>1, <3>2, <3>3
  <2>3. QED
    BY <2>1, <2>2
<1>9. QED
  BY <1>6, <1>7, <1>8 DEF ReadStep

\* A send callback runs for the owner, and re-arms or destroys it.
LEMMA WriteStepKeepsOwners ==
  ASSUME TypeOK, OwnInv, NEW w \in Workers, NEW fd \in Fds, WriteStep(w, fd)
  PROVE  OwnInv'
<1>1. pc[w] = "loop" /\ writeTable[w][fd].added
  BY DEF WriteStep, SendError, SendComplete, WriteFires
<1>2. PICK c \in Clients : c = map[w][fd] /\ c = writeTable[w][fd].callback /\ c # NoClient
  <2>1. map[w][fd] # NoClient /\ writeTable[w][fd].callback = map[w][fd]
    BY <1>1, FiresForOwner
  <2>2. QED
    BY <2>1 DEF TypeOK
<1>3. UNCHANGED <<next, inHand, connectTable, fdOf, mailbox, pc, at>>
  BY DEF WriteStep, SendError, SendComplete, mainVars, fdVars
<1>4. ASSUME UNCHANGED <<phase, openFds, map, readTable>>, NEW wr, Serves(wr, c),
             writeTable' = [writeTable EXCEPT ![w][fd] = wr]
      PROVE  OwnInv'
  <2>1. HandlerAt'
    BY <1>1, <1>3, <1>4, HandlerMoves
  <2>2. PICK rd \in Events : rd = readTable[w][fd] /\ Serves(rd, c)
    <3>1. readTable[w][fd] \in Events /\ Serves(readTable[w][fd], map[w][fd])
      BY Entries
    <3>2. Serves(readTable[w][fd], c)
      BY <1>2, <3>1
    <3>3. QED
      BY <3>1, <3>2
  <2>3. readTable' = [readTable EXCEPT ![w][fd] = rd]
    BY <1>4, <2>2, Entries
  <2>4. UNCHANGED ownVars
    BY <1>3, <1>4 DEF ownVars
  <2>5. Serves(rd, map[w][fd]) /\ Serves(wr, map[w][fd])
    BY <1>2, <1>4, <2>2
  <2>6. writeTable' = [writeTable EXCEPT ![w][fd] = wr]
    BY <1>4
  <2>7. QED
    BY <2>1, <2>3, <2>4, <2>5, <2>6, RearmKeepsOwners
<1>5. ASSUME Destroy(w, fd, readTable[w][fd], Fired(writeTable[w][fd]))
      PROVE  OwnInv'
  <2>1. pc'[w] \notin {"first", "stamp", "recv"} /\ map[w][fd] # NoClient
    BY <1>1, <1>2, <1>3
  <2>2. QED
    BY <1>3, <1>5, <2>1, Entries, DestroyKeepsOwners
<1>6. CASE SendError(w, fd)
  BY <1>5, <1>6 DEF SendError
<1>7. ASSUME NEW ok \in BOOLEAN, SendComplete(w, fd, ok)
      PROVE  OwnInv'
  <2>1. PICK e \in Events : e = Fired(writeTable[w][fd]) /\ ~e.added
    BY Entries
  <2>2. \/ UNCHANGED <<phase, openFds, map, readTable>> /\ writeTable' = [writeTable EXCEPT ![w][fd] = e]
        \/ /\ UNCHANGED <<phase, openFds, map, readTable>>
           /\ writeTable' = [writeTable EXCEPT ![w][fd] = AddEventHandler(e, c)]
        \/ Destroy(w, fd, readTable[w][fd], Fired(writeTable[w][fd]))
    BY <1>2, <1>7, <2>1 DEF SendComplete
  <2>3. Serves(e, c) /\ Serves(AddEventHandler(e, c), c)
    BY <1>2, <2>1, EventOps DEF Serves
  <2>4. QED
    BY <1>4, <1>5, <2>2, <2>3
<1>8. QED
  BY <1>6, <1>7 DEF WriteStep

\* Who owns what is kept by every step.
LEMMA OwnersStep == TypeOK /\ OwnInv /\ [Next]_vars => OwnInv'
<1> SUFFICES ASSUME TypeOK, OwnInv, [Next]_vars PROVE OwnInv'
  OBVIOUS
<1>1. CASE MainStep
  BY <1>1, NotifyKeepsOwners, SocketKeepsOwners, SocketFailsKeepsOwners, ConnectFailsKeepsOwners, ConnectedAtOnceKeepsOwners,
     ConnectPendingKeepsOwners, OnConnectEventKeepsOwners DEF MainStep
<1>2. ASSUME UNCHANGED ownVars, UNCHANGED <<readTable, writeTable, pc, at>>
      PROVE  OwnInv'
  <2>1. HandlerAt'
    BY <1>2 DEF OwnInv, HandlerAt, ownVars
  <2>2. QED
    BY <1>2, <2>1, TablesStay
<1>3. ASSUME NEW w \in Workers, HandlerStep(w)
      PROVE  OwnInv'
  <2>1. CASE Exit(w)
    BY <1>2, <2>1 DEF Exit, mainVars, fdVars, tableVars, ownVars
  <2>2. QED
    BY <1>3, <2>1, FirstSendKeepsOwners, OnNewConnectKeepsOwners, BeginRecvKeepsOwners DEF HandlerStep
<1>4. ASSUME NEW c \in Clients, EchoBack(c) \/ PeerFails(c)
      PROVE  OwnInv'
  BY <1>2, <1>4 DEF EchoBack, PeerFails, mainVars, fdVars, tableVars, ownVars
<1>5. CASE UNCHANGED vars
  BY <1>2, <1>5 DEF vars, mainVars, fdVars, tableVars, ownVars
<1>6. QED
  BY <1>1, <1>3, <1>4, <1>5, ReadStepKeepsOwners, WriteStepKeepsOwners DEF Next

\* Nobody owns anything when the process starts.
LEMMA OwnersInit == Init => OwnInv
<1> SUFFICES ASSUME Init PROVE OwnInv
  OBVIOUS
<1>1. \A c \in Clients : phase[c] = "new"
  BY DEF Init
<1>2. Owners = {}
  BY <1>1 DEF Owners, OwnerPhases
<1>3. FdOwners
  BY <1>2 DEF FdOwners, Init
<1>4. \A w \in Workers, fd \in Fds :
        /\ ~readTable[w][fd].added /\ ~writeTable[w][fd].added /\ ~connectTable[fd].added
        /\ map[w][fd] = NoClient
  BY DEF Init, NoEvent
<1>5. \A fd \in Fds : ~connectTable[fd].added
  BY DEF Init, NoEvent
<1>6. ConnectEvents /\ WorkerEvents /\ MapOwners
  BY <1>4, <1>5 DEF ConnectEvents, WorkerEvents, MapOwners, Serves
<1>7. Mailboxes
  <2>1. \A w \in Workers : Len(mailbox[w]) = 0
    BY DEF Init
  <2>2. QED
    BY <2>1 DEF Mailboxes
<1>8. NotYet /\ InHandPhase /\ HandlerAt
  <2>1. NotYet
    BY <1>1 DEF NotYet
  <2>2. QED
    BY <2>1 DEF Init, InHandPhase, HandlerAt
<1>9. QED
  BY <1>3, <1>6, <1>7, <1>8 DEF OwnInv

-----------------------------------------------------------------------------
(* Types.  They rest on OwnInv: a callback is a client because the event   *)
(* that calls it has an owner.                                             *)

MainTypes ==
  /\ next \in 1 .. ClientNum + 1
  /\ inHand \in Clients \cup {NoClient} /\ cur \in Workers
  /\ connectTable \in [Fds -> Events]

FdTypes ==
  /\ phase \in [Clients -> Phases]
  /\ fdOf \in [Clients -> Fds \cup {0}] /\ openFds \subseteq Fds
  /\ faults \subseteq Clients

TableTypes ==
  /\ map \in [Workers -> [Fds -> Clients \cup {NoClient}]]
  /\ readTable \in [Workers -> [Fds -> Events]]
  /\ writeTable \in [Workers -> [Fds -> Events]]

WorkerTypes ==
  /\ mailbox \in [Workers -> Seq(Clients)]
  /\ pc \in [Workers -> {"loop", "first", "stamp", "recv", "exit"}]
  /\ at \in [Workers -> Clients \cup {NoClient}]

CountTypes ==
  /\ stat \in [Clients -> {"RECV_HEAD", "RECV_BODY"}]
  /\ selfEcho \in [Clients -> Nat] /\ echoCount \in Nat
  /\ up \in [Clients -> Nat] /\ down \in [Clients -> Nat]

FlagTypes ==
  /\ firstSend \in BOOLEAN /\ stamped \in BOOLEAN /\ exited \in BOOLEAN
  /\ peerOpen \in [Clients -> BOOLEAN]

\* The parts of the type invariant.
LEMMA TypeParts ==
  TypeOK <=> MainTypes /\ FdTypes /\ TableTypes /\ WorkerTypes /\ CountTypes /\ FlagTypes
BY DEF TypeOK, MainTypes, FdTypes, TableTypes, WorkerTypes, CountTypes, FlagTypes

\* The initial state has its types.
LEMMA SimTypeInit == Init => TypeOK
<1> SUFFICES ASSUME Init PROVE TypeOK
  OBVIOUS
<1>1. NoEvent \in Events
  BY DEF NoEvent, Events, NoClient
<1>2. MainTypes
  BY <1>1, SimulateAssumption DEF Init, MainTypes, Workers, Clients
<1>3. FdTypes
  BY DEF Init, FdTypes, Phases
<1>4. TableTypes
  BY <1>1 DEF Init, TableTypes
<1>5. WorkerTypes
  BY DEF Init, WorkerTypes
<1>6. CountTypes
  BY DEF Init, CountTypes
<1>7. FlagTypes
  BY DEF Init, FlagTypes
<1>8. QED
  BY <1>2, <1>3, <1>4, <1>5, <1>6, <1>7, TypeParts

\* The flags are only ever written with constants.
LEMMA FlagTypesStep == FlagTypes /\ [Next]_vars => FlagTypes'
<1> SUFFICES ASSUME FlagTypes, [Next]_vars PROVE FlagTypes'
  OBVIOUS
<1> USE DEF FlagTypes
<1>1. ASSUME UNCHANGED <<firstSend, stamped, exited, peerOpen>> PROVE FlagTypes'
  BY <1>1
<1>2. CASE MainStep
  BY <1>1, <1>2 DEF MainStep, NotifyNewConnect, Socket, SocketFails, ConnectFails, ConnectedAtOnce,
    ConnectPending,
    OnConnectEvent, countVars, netVars
<1>3. ASSUME NEW w \in Workers, HandlerStep(w) PROVE FlagTypes'
  <2>1. CASE ClearFirst(w)
    BY <2>1 DEF ClearFirst, netVars
  <2>2. CASE Stamp(w)
    BY <2>2 DEF Stamp, netVars
  <2>3. CASE Exit(w)
    BY <2>3 DEF Exit, netVars, countVars
  <2>4. ASSUME NEW ok \in BOOLEAN, OnNewConnect(w, ok) \/ BeginRecv(w, ok) PROVE FlagTypes'
    BY <1>1, <2>4 DEF OnNewConnect, BeginRecv, countVars, netVars
  <2>5. QED
    BY <1>3, <2>1, <2>2, <2>3, <2>4 DEF HandlerStep
<1>4. ASSUME NEW w \in Workers, NEW fd \in Fds, ReadStep(w, fd) \/ WriteStep(w, fd) PROVE FlagTypes'
  BY <1>1, <1>4, ZenonT(40) DEF ReadStep, WriteStep, RecvError, RecvHead, RecvBody, SendError,
    SendComplete, countVars, netVars
<1>5. ASSUME NEW c \in Clients, EchoBack(c) \/ PeerFails(c) PROVE FlagTypes'
  <2>1. CASE EchoBack(c)
    BY <1>1, <2>1 DEF EchoBack, countVars
  <2>2. CASE PeerFails(c)
    BY <2>2 DEF PeerFails, countVars
  <2>3. QED
    BY <1>5, <2>1, <2>2
<1>6. CASE UNCHANGED vars
  BY <1>1, <1>6 DEF vars, countVars, netVars
<1>7. QED
  BY <1>2, <1>3, <1>4, <1>5, <1>6 DEF Next

\* A failure happens to a client.
LEMMA OutcomeTypes ==
  ASSUME TypeOK, NEW c \in Clients, NEW ok, Outcome(c, ok)
  PROVE  faults' \subseteq Clients
BY DEF TypeOK, Outcome

\* _destroy ends a client's connection.
LEMMA DestroyTypes ==
  ASSUME TypeOK, NEW w \in Workers, NEW fd \in Fds, map[w][fd] \in Clients,
         NEW rd \in Events, NEW wr \in Events, Destroy(w, fd, rd, wr)
  PROVE  /\ TableTypes'
         /\ phase' \in [Clients -> Phases] /\ openFds' \subseteq Fds
<1>1. RemoveEventHandler(rd) \in Events /\ RemoveEventHandler(wr) \in Events
  BY EventOps
<1>2. map' \in [Workers -> [Fds -> Clients \cup {NoClient}]]
  BY DEF TypeOK, Destroy
<1>3. /\ readTable' \in [Workers -> [Fds -> Events]]
      /\ writeTable' \in [Workers -> [Fds -> Events]]
  BY <1>1 DEF TypeOK, Destroy
<1>4. phase' \in [Clients -> Phases] /\ openFds' \subseteq Fds
  BY DEF TypeOK, Destroy, Phases
<1>5. QED
  BY <1>2, <1>3, <1>4 DEF TableTypes

\* Main's steps.
LEMMA MainTypesStep ==
  ASSUME TypeOK, OwnInv, MainStep
  PROVE  MainTypes' /\ FdTypes' /\ TableTypes' /\ WorkerTypes' /\ CountTypes'
<1>1. TableTypes' /\ CountTypes'
  BY TypeParts DEF MainStep, NotifyNewConnect, Socket, SocketFails, ConnectFails, ConnectedAtOnce,
    ConnectPending,
    OnConnectEvent, TableTypes, CountTypes, tableVars, connVars, countVars, netVars
<1>2. NextServiceIndex \in Workers
  BY SimulateAssumption DEF TypeOK, NextServiceIndex, Workers
<1>3. ASSUME Creating PROVE next \in Clients /\ next + 1 \in 1 .. ClientNum + 1
  BY <1>3, SimulateAssumption DEF Creating, TypeOK, Clients
<1>4. ASSUME AfterSocket PROVE next \in Clients /\ next' \in 1 .. ClientNum + 1
  BY <1>3, <1>4 DEF AfterSocket
<1>5. CASE NotifyNewConnect
  <2>1. inHand \in Clients /\ cur \in Workers /\ mailbox[cur] \in Seq(Clients)
    BY <1>5 DEF NotifyNewConnect, TypeOK
  <2>2. Append(mailbox[cur], inHand) \in Seq(Clients)
    BY <2>1
  <2>3. WorkerTypes'
    BY <1>5, <2>1, <2>2 DEF NotifyNewConnect, TypeOK, WorkerTypes
  <2>4. MainTypes' /\ FdTypes'
    BY <1>5, <2>1 DEF NotifyNewConnect, TypeOK, MainTypes, FdTypes, fdVars, Phases
  <2>5. QED
    BY <1>1, <2>3, <2>4
<1>6. CASE SocketFails
  <2>1. next \in Clients /\ next + 1 \in 1 .. ClientNum + 1
    BY <1>3, <1>6 DEF SocketFails
  <2>2. QED
    BY <1>1, <1>6, <2>1 DEF SocketFails, TypeOK, MainTypes, FdTypes, WorkerTypes, fdVars, Phases
<1>7. CASE Socket
  <2>1. next \in Clients /\ LowestFree \in Fds
    BY <1>3, <1>7, LowestIsFree DEF Socket
  <2>2. FdTypes'
    BY <1>7, <2>1 DEF Socket, TypeOK, FdTypes, Phases
  <2>3. MainTypes' /\ WorkerTypes'
    BY <1>7 DEF Socket, TypeOK, MainTypes, WorkerTypes, mainVars
  <2>4. QED
    BY <1>1, <2>2, <2>3
<1>8. CASE ConnectFails
  <2>1. MainTypes' /\ WorkerTypes'
    BY <1>4, <1>8 DEF ConnectFails, TypeOK, MainTypes, WorkerTypes
  <2>2. FdTypes'
    BY <1>4, <1>8 DEF ConnectFails, CloseFailed, TypeOK, FdTypes, Phases
  <2>3. QED
    BY <1>1, <2>1, <2>2
<1>9. CASE ConnectedAtOnce
  <2>1. WorkerTypes' /\ MainTypes'
    BY <1>2, <1>4, <1>9 DEF ConnectedAtOnce, OnConnected, TypeOK, MainTypes, WorkerTypes
  <2>2. FdTypes'
    BY <1>4, <1>9 DEF ConnectedAtOnce, TypeOK, FdTypes, fdVars, Phases
  <2>3. QED
    BY <1>1, <2>1, <2>2
<1>10. ASSUME NEW ok \in BOOLEAN, ConnectPending(ok)
       PROVE  MainTypes' /\ FdTypes' /\ WorkerTypes'
  <2>1. next \in Clients /\ next' \in 1 .. ClientNum + 1
    BY <1>4, <1>10 DEF ConnectPending
  <2>2. connectTable' \in [Fds -> Events]
    <3>1. PICK fd \in Fds, new \in Events : connectTable' = [connectTable EXCEPT ![fd] = new]
      BY <1>10, PendingEvent
    <3>2. QED
      BY <3>1 DEF TypeOK
  <2>3. MainTypes' /\ WorkerTypes'
    BY <1>10, <2>1, <2>2 DEF ConnectPending, TypeOK, MainTypes, WorkerTypes
  <2>4. faults' \subseteq Clients
    BY <1>10, <2>1, OutcomeTypes DEF ConnectPending
  <2>5. FdTypes'
    BY <1>10, <2>1, <2>4 DEF ConnectPending, TypeOK, FdTypes, fdVars, Phases
  <2>6. QED
    BY <2>3, <2>5
<1>11. ASSUME NEW fd \in Fds, NEW ok \in BOOLEAN, OnConnectEvent(fd, ok)
       PROVE  MainTypes' /\ FdTypes' /\ WorkerTypes'
  <2>1. PICK c \in Clients : c = connectTable[fd].callback
    BY <1>11 DEF OnConnectEvent, OwnInv, ConnectEvents
  <2>2. connectTable[fd] \in Events
    BY DEF TypeOK
  <2>3. Fired(connectTable[fd]) \in Events
    BY <2>1, <2>2, EventOps
  <2>4. faults' \subseteq Clients
    BY <1>11, <2>1, OutcomeTypes DEF OnConnectEvent
  <2>5. WorkerTypes'
    BY <1>11 DEF OnConnectEvent, TypeOK, WorkerTypes
  <2>6. CASE ok
    <3>1. MainTypes'
      BY <1>2, <1>11, <2>1, <2>3, <2>6 DEF OnConnectEvent, OnConnected, TypeOK, MainTypes
    <3>2. FdTypes'
      BY <1>11, <2>1, <2>4, <2>6 DEF OnConnectEvent, TypeOK, FdTypes, Phases
    <3>3. QED
      BY <2>5, <3>1, <3>2
  <2>7. CASE ~ok
    <3>1. MainTypes'
      BY <1>11, <2>3, <2>7 DEF OnConnectEvent, TypeOK, MainTypes
    <3>2. FdTypes'
      BY <1>11, <2>1, <2>4, <2>7 DEF OnConnectEvent, CloseFailed, TypeOK, FdTypes, Phases
    <3>3. QED
      BY <2>5, <3>1, <3>2
  <2>8. QED
    BY <2>6, <2>7
<1>12. QED
  BY <1>1, <1>5, <1>6, <1>7, <1>8, <1>9, <1>10, <1>11 DEF MainStep

\* The steps of a worker's handler.
LEMMA HandlerTypesStep ==
  ASSUME TypeOK, OwnInv, NEW w \in Workers, HandlerStep(w)
  PROVE  MainTypes' /\ FdTypes' /\ TableTypes' /\ WorkerTypes' /\ CountTypes'
<1>1. MainTypes' /\ CountTypes'
  BY TypeParts DEF HandlerStep, ClearFirst, Stamp, Exit, OnNewConnect, BeginRecv, MainTypes, CountTypes,
    mainVars, connVars, countVars, netVars
<1>2. CASE ClearFirst(w) \/ Stamp(w) \/ Exit(w)
  <2>1. FdTypes' /\ TableTypes'
    BY <1>2, TypeParts DEF ClearFirst, Stamp, Exit, FdTypes, TableTypes, fdVars, tableVars
  <2>2. WorkerTypes'
    BY <1>2 DEF ClearFirst, Stamp, Exit, TypeOK, WorkerTypes
  <2>3. QED
    BY <1>1, <2>1, <2>2
<1>3. ASSUME NEW ok \in BOOLEAN, OnNewConnect(w, ok)
      PROVE  FdTypes' /\ TableTypes' /\ WorkerTypes'
  <2>1. mailbox[w] \in Seq(Clients) /\ mailbox[w] # << >>
    BY <1>3 DEF OnNewConnect, TypeOK
  <2>2. PICK c \in Clients : c = Head(mailbox[w])
    BY <2>1
  <2>3. Tail(mailbox[w]) \in Seq(Clients)
    BY <2>1
  <2>4. PICK fd \in Fds : fd = fdOf[c]
    <3>1. 1 \in 1 .. Len(mailbox[w]) /\ c = mailbox[w][1]
      BY <2>1, <2>2
    <3>2. phase[c] = "queued"
      BY <3>1 DEF OwnInv, Mailboxes
    <3>3. c \in Owners
      BY <3>2 DEF Owners, OwnerPhases
    <3>4. QED
      BY <3>3 DEF OwnInv, FdOwners, TypeOK
  <2>5. faults' \subseteq Clients
    BY <1>3, <2>2, OutcomeTypes DEF OnNewConnect
  <2>6. writeTable[w][fd] \in Events
    BY DEF TypeOK
  <2>7. AddEventHandler(writeTable[w][fd], c) \in Events
    BY <2>6, EventOps
  <2>8. FdTypes'
    <3>1. openFds' \subseteq openFds /\ fdOf' = fdOf
      BY <1>3 DEF OnNewConnect
    <3>2. phase' \in [Clients -> Phases]
      <4>1. \/ phase' = [phase EXCEPT ![c] = "live"]
            \/ phase' = [phase EXCEPT ![c] = "gone"]
        BY <1>3, <2>2 DEF OnNewConnect
      <4>2. QED
        BY <2>2, <4>1 DEF TypeOK, Phases
    <3>3. QED
      BY <2>5, <3>1, <3>2 DEF TypeOK, FdTypes
  <2>9. WorkerTypes'
    <3>1. mailbox' = [mailbox EXCEPT ![w] = Tail(mailbox[w])]
      BY <1>3 DEF OnNewConnect
    <3>2. mailbox' \in [Workers -> Seq(Clients)]
      BY <2>3, <3>1 DEF TypeOK
    <3>3. \/ pc' = pc /\ at' = at
          \/ /\ pc' = [pc EXCEPT ![w] = IF firstSend THEN "first" ELSE "recv"]
             /\ at' = [at EXCEPT ![w] = c]
      BY <1>3, <2>2 DEF OnNewConnect
    <3>4. /\ pc \in [Workers -> {"loop", "first", "stamp", "recv", "exit"}]
          /\ at \in [Workers -> Clients \cup {NoClient}]
      BY DEF TypeOK
    <3>5. /\ pc' \in [Workers -> {"loop", "first", "stamp", "recv", "exit"}]
          /\ at' \in [Workers -> Clients \cup {NoClient}]
      BY <2>2, <3>3, <3>4
    <3>6. QED
      BY <3>2, <3>5 DEF WorkerTypes
  <2>10. TableTypes'
    <3>1. CASE ok
      <4>1. /\ map' = [map EXCEPT ![w][fd] = c] /\ readTable' = readTable
            /\ writeTable' = [writeTable EXCEPT ![w][fd] = AddEventHandler(writeTable[w][fd], c)]
        BY <1>3, <2>2, <2>4, <3>1 DEF OnNewConnect, TypeOK
      <4>2. QED
        BY <2>7, <4>1 DEF TypeOK, TableTypes
    <3>2. CASE ~ok
      BY <1>3, <3>2 DEF OnNewConnect, TypeOK, TableTypes
    <3>3. QED
      BY <3>1, <3>2
  <2>11. QED
    BY <2>8, <2>9, <2>10
<1>4. ASSUME NEW ok \in BOOLEAN, BeginRecv(w, ok)
      PROVE  FdTypes' /\ TableTypes' /\ WorkerTypes'
  <2>1. PICK c \in Clients, fd \in Fds : c = at[w] /\ fd = fdOf[c] /\ map[w][fd] = c
    BY <1>4 DEF BeginRecv, OwnInv, HandlerAt
  <2>2. faults' \subseteq Clients /\ fdOf' = fdOf
    BY <1>4, <2>1, OutcomeTypes DEF BeginRecv
  <2>3. readTable[w][fd] \in Events /\ writeTable[w][fd] \in Events
    BY DEF TypeOK
  <2>4. WorkerTypes'
    BY <1>4 DEF BeginRecv, TypeOK, WorkerTypes
  <2>5. CASE ok
    <3>1. AddEventHandler(readTable[w][fd], c) \in Events
      BY <2>3, EventOps
    <3>2. /\ readTable' = [readTable EXCEPT ![w][fd] = AddEventHandler(readTable[w][fd], c)]
          /\ UNCHANGED <<map, writeTable, openFds, phase>>
      BY <1>4, <2>1, <2>5 DEF BeginRecv, TypeOK
    <3>3. TableTypes'
      BY <3>1, <3>2 DEF TypeOK, TableTypes
    <3>4. QED
      BY <2>2, <2>4, <3>2, <3>3 DEF TypeOK, FdTypes
  <2>6. CASE ~ok
    <3>1. Destroy(w, fd, readTable[w][fd], writeTable[w][fd])
      BY <1>4, <2>1, <2>6 DEF BeginRecv
    <3>2. TableTypes' /\ phase' \in [Clients -> Phases] /\ openFds' \subseteq Fds
      BY <2>1, <2>3, <3>1, DestroyTypes
    <3>3. QED
      BY <2>2, <2>4, <3>2 DEF TypeOK, FdTypes
  <2>7. QED
    BY <2>5, <2>6
<1>5. QED
  BY <1>1, <1>2, <1>3, <1>4 DEF HandlerStep

\* A receive callback.
LEMMA ReadTypesStep ==
  ASSUME TypeOK, OwnInv, NEW w \in Workers, NEW fd \in Fds, ReadStep(w, fd)
  PROVE  MainTypes' /\ FdTypes' /\ TableTypes' /\ WorkerTypes' /\ CountTypes'
<1>1. readTable[w][fd].added
  BY DEF ReadStep, RecvError, RecvHead, RecvBody, ReadFires
<1>2. PICK c \in Clients : c = map[w][fd] /\ c = readTable[w][fd].callback
  <2>1. map[w][fd] # NoClient /\ readTable[w][fd].callback = map[w][fd]
    BY <1>1, FiresForOwner
  <2>2. QED
    BY <2>1 DEF TypeOK
<1>3. /\ writeTable[w][fd] \in Events /\ Fired(readTable[w][fd]) \in Events
      /\ AddEventHandler(Fired(readTable[w][fd]), c) \in Events
      /\ AddFails(Fired(readTable[w][fd])) \subseteq Events
  <2>1. writeTable[w][fd] \in Events /\ Fired(readTable[w][fd]) \in Events
    BY Entries
  <2>2. QED
    BY <2>1, EventOps
<1>4. MainTypes' /\ UNCHANGED <<fdOf, mailbox, up>>
  BY TypeParts DEF ReadStep, RecvError, RecvHead, RecvBody, MainTypes, mainVars, fdVars, netVars
<1>5. ASSUME NEW ok \in BOOLEAN, RecvAgain(w, fd, c, ok)
      PROVE  readTable' \in [Workers -> [Fds -> Events]] /\ faults' \subseteq Clients
  <2>1. PICK new \in Events : readTable' = [readTable EXCEPT ![w][fd] = new]
    BY <1>3, <1>5 DEF RecvAgain
  <2>2. faults' \subseteq Clients
    BY <1>5, OutcomeTypes DEF RecvAgain
  <2>3. QED
    BY <2>1, <2>2 DEF TypeOK
<1>6. ASSUME Destroy(w, fd, Fired(readTable[w][fd]), writeTable[w][fd])
      PROVE  TableTypes' /\ phase' \in [Clients -> Phases] /\ openFds' \subseteq Fds
  BY <1>2, <1>3, <1>6, DestroyTypes
<1>7. CASE RecvError(w, fd)
  <2>1. CountTypes' /\ WorkerTypes'
    BY <1>7 DEF RecvError, TypeOK, CountTypes, WorkerTypes, connVars, countVars, netVars
  <2>2. TableTypes' /\ FdTypes'
    BY <1>6, <1>7 DEF RecvError, TypeOK, FdTypes
  <2>3. QED
    BY <1>4, <2>1, <2>2
<1>8. down[c] > 0 => down[c] - 1 \in Nat
  BY DEF TypeOK
<1>9. ASSUME NEW ok \in BOOLEAN, RecvHead(w, fd, ok)
      PROVE  FdTypes' /\ TableTypes' /\ WorkerTypes' /\ CountTypes'
  <2>1. RecvAgain(w, fd, c, ok) /\ UNCHANGED <<phase, fdOf, openFds, mailbox, map, writeTable, pc, at>>
    BY <1>2, <1>9 DEF RecvHead, fdVars
  <2>2. FdTypes' /\ TableTypes' /\ WorkerTypes'
    BY <1>5, <2>1 DEF TypeOK, FdTypes, TableTypes, WorkerTypes
  <2>3. CountTypes'
    BY <1>2, <1>8, <1>9 DEF RecvHead, TypeOK, CountTypes, countVars
  <2>4. QED
    BY <2>2, <2>3
<1>10. ASSUME NEW ok \in BOOLEAN, RecvBody(w, fd, ok)
       PROVE  FdTypes' /\ TableTypes' /\ WorkerTypes' /\ CountTypes'
  <2>1. /\ down' \in [Clients -> Nat] /\ echoCount' \in Nat
    BY <1>2, <1>8, <1>10, SMTT(30) DEF RecvBody, TypeOK
  <2>2. CASE AllEchoes(echoCount + 1)
    <3>1. /\ Destroy(w, fd, Fired(readTable[w][fd]), writeTable[w][fd])
          /\ pc' = [pc EXCEPT ![w] = "exit"] /\ at' = [at EXCEPT ![w] = c]
          /\ UNCHANGED <<stat, selfEcho, faults>>
      BY <1>2, <1>10, <2>2 DEF RecvBody
    <3>2. TableTypes' /\ FdTypes'
      BY <1>4, <1>6, <3>1 DEF TypeOK, FdTypes
    <3>3. WorkerTypes' /\ CountTypes'
      BY <1>4, <2>1, <3>1 DEF TypeOK, WorkerTypes, CountTypes
    <3>4. QED
      BY <3>2, <3>3
  <2>3. CASE ~AllEchoes(echoCount + 1)
    <3>1. selfEcho' \in [Clients -> Nat] /\ stat' \in [Clients -> {"RECV_HEAD", "RECV_BODY"}]
      <4>1. /\ selfEcho' = [selfEcho EXCEPT ![c] = selfEcho[c] + 1]
            /\ stat' = stat \/ stat' = [stat EXCEPT ![c] = "RECV_HEAD"]
        BY <1>2, <1>10, <2>3 DEF RecvBody
      <4>2. selfEcho[c] + 1 \in Nat
        BY DEF TypeOK
      <4>3. selfEcho' \in [Clients -> Nat]
        BY <4>1, <4>2 DEF TypeOK
      <4>4. stat' \in [Clients -> {"RECV_HEAD", "RECV_BODY"}]
        BY <4>1 DEF TypeOK
      <4>5. QED
        BY <4>3, <4>4
    <3>2. UNCHANGED <<phase, openFds, map, writeTable, pc, at>>
      BY <1>10, <2>3 DEF RecvBody
    <3>3. CASE AllOwnEchoes(selfEcho[c] + 1)
      <4>1. readTable' = [readTable EXCEPT ![w][fd] = Fired(readTable[w][fd])] /\ faults' = faults
        BY <1>2, <1>10, <2>3, <3>3 DEF RecvBody, TypeOK
      <4>2. readTable' \in [Workers -> [Fds -> Events]]
        BY <1>3, <4>1 DEF TypeOK
      <4>3. QED
        BY <1>4, <2>1, <3>1, <3>2, <4>1, <4>2 DEF TypeOK, FdTypes, TableTypes, WorkerTypes, CountTypes
    <3>4. CASE ~AllOwnEchoes(selfEcho[c] + 1)
      <4>1. RecvAgain(w, fd, c, ok)
        BY <1>2, <1>10, <2>3, <3>4 DEF RecvBody
      <4>2. readTable' \in [Workers -> [Fds -> Events]] /\ faults' \subseteq Clients
        BY <1>5, <4>1
      <4>3. QED
        BY <1>4, <2>1, <3>1, <3>2, <4>2 DEF TypeOK, FdTypes, TableTypes, WorkerTypes, CountTypes
    <3>5. QED
      BY <3>3, <3>4
  <2>4. QED
    BY <2>2, <2>3
<1>11. QED
  BY <1>4, <1>7, <1>9, <1>10, SMTT(30) DEF ReadStep

\* A send callback.
LEMMA WriteTypesStep ==
  ASSUME TypeOK, OwnInv, NEW w \in Workers, NEW fd \in Fds, WriteStep(w, fd)
  PROVE  MainTypes' /\ FdTypes' /\ TableTypes' /\ WorkerTypes' /\ CountTypes'
<1>1. writeTable[w][fd].added
  BY DEF WriteStep, SendError, SendComplete, WriteFires
<1>2. PICK c \in Clients : c = map[w][fd] /\ c = writeTable[w][fd].callback
  <2>1. map[w][fd] # NoClient /\ writeTable[w][fd].callback = map[w][fd]
    BY <1>1, FiresForOwner
  <2>2. QED
    BY <2>1 DEF TypeOK
<1>3. /\ readTable[w][fd] \in Events /\ Fired(writeTable[w][fd]) \in Events
      /\ AddEventHandler(Fired(writeTable[w][fd]), c) \in Events
  <2>1. readTable[w][fd] \in Events /\ Fired(writeTable[w][fd]) \in Events
    BY Entries
  <2>2. QED
    BY <2>1, EventOps
<1>4. MainTypes' /\ WorkerTypes' /\ UNCHANGED <<fdOf, stat, selfEcho, echoCount, down>>
  BY TypeParts DEF WriteStep, SendError, SendComplete, MainTypes, WorkerTypes, mainVars, connVars,
    countVars, netVars
<1>5. ASSUME Destroy(w, fd, readTable[w][fd], Fired(writeTable[w][fd]))
      PROVE  TableTypes' /\ phase' \in [Clients -> Phases] /\ openFds' \subseteq Fds
  BY <1>2, <1>3, <1>5, DestroyTypes
<1>6. CASE SendError(w, fd)
  <2>1. CountTypes'
    BY <1>4, <1>6 DEF SendError, TypeOK, CountTypes, netVars
  <2>2. TableTypes' /\ FdTypes'
    BY <1>4, <1>5, <1>6 DEF SendError, TypeOK, FdTypes
  <2>3. QED
    BY <1>4, <2>1, <2>2
<1>7. ASSUME NEW ok \in BOOLEAN, SendComplete(w, fd, ok)
      PROVE  FdTypes' /\ TableTypes' /\ CountTypes'
  <2>1. faults' \subseteq Clients
    BY <1>2, <1>7, OutcomeTypes DEF SendComplete
  <2>2. CountTypes'
    <3>1. up' = [up EXCEPT ![c] = up[c] + 1]
      BY <1>2, <1>7 DEF SendComplete
    <3>2. QED
      BY <1>4, <3>1 DEF TypeOK, CountTypes
  <2>3. PICK e \in Events : e = Fired(writeTable[w][fd])
    BY <1>3
  <2>4. \/ UNCHANGED <<phase, openFds, map, readTable>> /\ writeTable' = [writeTable EXCEPT ![w][fd] = e]
        \/ /\ UNCHANGED <<phase, openFds, map, readTable>>
           /\ writeTable' = [writeTable EXCEPT ![w][fd] = AddEventHandler(e, c)]
        \/ Destroy(w, fd, readTable[w][fd], Fired(writeTable[w][fd]))
    BY <1>2, <1>7, <2>3 DEF SendComplete
  <2>5. ASSUME UNCHANGED <<phase, openFds, map, readTable>>, NEW wr \in Events,
               writeTable' = [writeTable EXCEPT ![w][fd] = wr]
        PROVE  FdTypes' /\ TableTypes'
    BY <1>4, <2>1, <2>5 DEF TypeOK, FdTypes, TableTypes
  <2>6. CASE Destroy(w, fd, readTable[w][fd], Fired(writeTable[w][fd]))
    BY <1>4, <1>5, <2>1, <2>2, <2>6 DEF TypeOK, FdTypes
  <2>7. AddEventHandler(e, c) \in Events
    BY <1>3, <2>3
  <2>8. QED
    BY <2>2, <2>3, <2>4, <2>5, <2>6, <2>7
<1>8. QED
  BY <1>4, <1>6, <1>7 DEF WriteStep

\* Every step keeps the types.
LEMMA SimTypeStep == TypeOK /\ OwnInv /\ [Next]_vars => TypeOK'
<1> SUFFICES ASSUME TypeOK, OwnInv, [Next]_vars PROVE TypeOK'
  OBVIOUS
<1>1. FlagTypes'
  BY FlagTypesStep, TypeParts
<1>2. MainTypes' /\ FdTypes' /\ TableTypes' /\ WorkerTypes' /\ CountTypes'
  <2>1. ASSUME NEW c \in Clients, EchoBack(c) \/ PeerFails(c)
        PROVE  MainTypes' /\ FdTypes' /\ TableTypes' /\ WorkerTypes' /\ CountTypes'
    <3>1. MainTypes' /\ TableTypes' /\ WorkerTypes'
      BY <2>1, TypeParts DEF EchoBack, PeerFails, MainTypes, TableTypes, WorkerTypes, mainVars, tableVars
    <3>2. FdTypes'
      BY <2>1 DEF EchoBack, PeerFails, TypeOK, FdTypes, fdVars
    <3>3. CountTypes'
      <4>1. CASE EchoBack(c)
        <5>1. up[c] - 1 \in Nat /\ down[c] + 2 \in Nat
          BY <4>1 DEF EchoBack, TypeOK
        <5>2. QED
          BY <4>1, <5>1 DEF EchoBack, TypeOK, CountTypes, connVars, countVars
      <4>2. CASE PeerFails(c)
        BY <4>2 DEF PeerFails, TypeOK, CountTypes, connVars, countVars
      <4>3. QED
        BY <2>1, <4>1, <4>2
    <3>4. QED
      BY <3>1, <3>2, <3>3
  <2>2. CASE UNCHANGED vars
    BY <2>2, TypeParts DEF vars, MainTypes, FdTypes, TableTypes, WorkerTypes, CountTypes,
      mainVars, fdVars, tableVars, connVars, countVars, netVars
  <2>3. QED
    BY <2>1, <2>2, MainTypesStep, HandlerTypesStep, ReadTypesStep, WriteTypesStep DEF Next
<1>3. QED
  BY <1>1, <1>2 DEF TypeOK, MainTypes, FdTypes, TableTypes, WorkerTypes, CountTypes, FlagTypes

-----------------------------------------------------------------------------
(* The theorems                                                            *)

\* Types and owners together are inductive.
LEMMA Owned == Spec => [](TypeOK /\ OwnInv)
<1>1. Init => TypeOK /\ OwnInv
  BY SimTypeInit, OwnersInit
<1>2. (TypeOK /\ OwnInv) /\ [Next]_vars => (TypeOK /\ OwnInv)'
  BY SimTypeStep, OwnersStep
<1>3. QED
  BY <1>1, <1>2, PTL DEF Spec

\* The type invariant holds: whatever the kernel reports, main and the workers
\* call clients that exist, on descriptors that exist.
THEOREM SimulateTypeCorrect == Spec => []TypeOK
BY Owned, PTL

\* A callback's raw this is never stale: an event that can fire calls the
\* object that owns the descriptor now, though descriptors are given out again
\* and removed events keep their callback; and a connection taken from a
\* mailbox finds its place in the map free.
THEOREM EventsOwned == Spec => []EventsHaveOwners
<1>1. TypeOK /\ OwnInv => EventsHaveOwners
  <2> SUFFICES ASSUME TypeOK, OwnInv PROVE EventsHaveOwners
    OBVIOUS
  <2>1. \A fd \in Fds : connectTable[fd].added =>
          \E c \in Clients : connectTable[fd].callback = c /\ phase[c] = "connecting" /\ fdOf[c] = fd
    BY DEF OwnInv, ConnectEvents
  <2>2. \A w \in Workers, fd \in Fds :
          readTable[w][fd].added \/ writeTable[w][fd].added => map[w][fd] # NoClient
    BY FiresForOwner
  <2>3. \A w \in Workers, fd \in Fds : map[w][fd] # NoClient =>
          /\ phase[map[w][fd]] = "live" /\ fdOf[map[w][fd]] = fd
          /\ readTable[w][fd].added => readTable[w][fd].callback = map[w][fd]
          /\ writeTable[w][fd].added => writeTable[w][fd].callback = map[w][fd]
    BY FiresForOwner DEF OwnInv, MapOwners
  <2>4. ASSUME NEW w \in Workers, NEW i \in 1 .. Len(mailbox[w]), NEW v \in Workers
        PROVE  map[v][fdOf[mailbox[w][i]]] = NoClient
    <3>1. PICK c \in Clients : c = mailbox[w][i] /\ phase[c] = "queued"
      BY MailEntry
    <3>2. phase[c] \in OwnerPhases /\ phase[c] # "live"
      BY <3>1 DEF OwnerPhases
    <3>3. QED
      BY <3>1, <3>2, PlaceIsFree DEF OwnInv
  <2>5. QED
    BY <2>1, <2>2, <2>3, <2>4 DEF EventsHaveOwners
<1>2. QED
  BY <1>1, Owned, PTL

-----------------------------------------------------------------------------
(* Who holds a socket.  The phase of a client says where its socket should *)
(* be; HeldInv says that main or a worker really has it there.             *)

QueuedAt(c, w) == \E i \in 1 .. Len(mailbox[w]) : mailbox[w][i] = c

Held(c) ==
  /\ phase[c] = "opened" => c = next
  /\ phase[c] = "connecting" => connectTable[fdOf[c]].added /\ connectTable[fdOf[c]].callback = c
  /\ phase[c] = "inHand" => inHand = c
  /\ phase[c] = "queued" => \E w \in Workers : QueuedAt(c, w)
  /\ phase[c] = "live" => \E w \in Workers : map[w][fdOf[c]] = c

HeldInv == \A c \in Clients : Held(c)

\* A step moves client c on: the others are held where they were.
LEMMA OthersStayHeld ==
  ASSUME TypeOK, HeldInv, NEW c \in Clients, NEW ph, phase' = [phase EXCEPT ![c] = ph],
         \A d \in Clients : d # c => fdOf'[d] = fdOf[d],
         next' = next \/ next = c,
         inHand' = inHand \/ inHand \in {NoClient, c},
         \A d \in Clients : d # c /\ phase[d] = "connecting" =>
           connectTable'[fdOf[d]] = connectTable[fdOf[d]],
         \A d \in Clients, w \in Workers : d # c /\ QueuedAt(d, w) => QueuedAt(d, w)',
         \A d \in Clients, w \in Workers : d # c /\ phase[d] = "live" /\ map[w][fdOf[d]] = d =>
           map'[w][fdOf[d]] = d,
         Held(c)'
  PROVE  HeldInv'
<1>1. ASSUME NEW d \in Clients, d # c
      PROVE  Held(d)'
  <2>1. phase'[d] = phase[d] /\ fdOf'[d] = fdOf[d] /\ Held(d)
    BY <1>1 DEF TypeOK, HeldInv
  <2>2. d # NoClient
    BY Sizes
  <2>3. phase[d] = "opened" => d = next'
    BY <1>1, <2>1 DEF Held
  <2>4. phase[d] = "connecting" => connectTable'[fdOf[d]].added /\ connectTable'[fdOf[d]].callback = d
    BY <1>1, <2>1 DEF Held
  <2>5. phase[d] = "inHand" => inHand' = d
    BY <1>1, <2>1, <2>2 DEF Held
  <2>6. phase[d] = "queued" => \E w \in Workers : QueuedAt(d, w)'
    BY <1>1, <2>1 DEF Held
  <2>7. phase[d] = "live" => \E w \in Workers : map'[w][fdOf[d]] = d
    BY <1>1, <2>1 DEF Held
  <2>8. QED
    BY <2>1, <2>3, <2>4, <2>5, <2>6, <2>7 DEF Held
<1>2. QED
  BY <1>1 DEF HeldInv

\* A client that is done needs nobody to hold it.
LEMMA DoneIsHeld ==
  ASSUME TypeOK, NEW c \in Clients, NEW ph \in {"failed", "gone", "forgotten"},
         phase' = [phase EXCEPT ![c] = ph]
  PROVE  Held(c)'
<1>1. phase'[c] = ph
  BY DEF TypeOK
<1>2. QED
  BY <1>1 DEF Held

\* The steps that create a client.
LEMMA CreatingKeepsHeld ==
  ASSUME TypeOK, OwnInv, HeldInv,
         Socket \/ SocketFails \/ ConnectFails \/ ConnectedAtOnce \/ \E ok \in BOOLEAN : ConnectPending(ok)
  PROVE  HeldInv'
<1>1. next \in Clients /\ inHand = NoClient /\ phase[next] \in {"new", "opened"}
  BY NextIsNew DEF Socket, SocketFails, ConnectFails, ConnectedAtOnce, ConnectPending, AfterSocket
<1>2. UNCHANGED <<mailbox, map>>
  BY DEF Socket, SocketFails, ConnectFails, ConnectedAtOnce, ConnectPending, tableVars
<1>3. \A d \in Clients, w \in Workers : QueuedAt(d, w) => QueuedAt(d, w)'
  BY <1>2 DEF QueuedAt
<1>4. CASE Socket
  <2>1. /\ phase' = [phase EXCEPT ![next] = "opened"] /\ UNCHANGED <<next, connectTable>>
        /\ \A d \in Clients : d # next => fdOf'[d] = fdOf[d]
    BY <1>4 DEF Socket, mainVars, TypeOK
  <2>2. PICK c \in Clients : c = next
    BY <1>1
  <2>3. phase'[c] = "opened" /\ c = next'
    BY <2>1, <2>2 DEF TypeOK
  <2>4. Held(c)'
    BY <2>3 DEF Held
  <2>5. QED
    BY <1>1, <1>2, <1>3, <2>1, <2>2, <2>4, OthersStayHeld
<1>5. CASE SocketFails \/ ConnectFails
  <2>1. phase' = [phase EXCEPT ![next] = "failed"] /\ UNCHANGED <<fdOf, connectTable>>
    BY <1>5 DEF SocketFails, ConnectFails, fdVars
  <2>2. PICK c \in Clients : c = next
    BY <1>1
  <2>3. Held(c)'
    BY <2>1, <2>2, DoneIsHeld
  <2>4. QED
    BY <1>1, <1>2, <1>3, <2>1, <2>2, <2>3, OthersStayHeld
<1>6. CASE ConnectedAtOnce
  <2>1. /\ phase' = [phase EXCEPT ![next] = "inHand"] /\ inHand' = next
        /\ UNCHANGED <<fdOf, connectTable>>
    BY <1>6 DEF ConnectedAtOnce, OnConnected, fdVars
  <2>2. PICK c \in Clients : c = next
    BY <1>1
  <2>3. phase'[c] = "inHand" /\ inHand' = c
    BY <2>1, <2>2 DEF TypeOK
  <2>4. Held(c)'
    BY <2>3 DEF Held
  <2>5. QED
    BY <1>1, <1>2, <1>3, <2>1, <2>2, <2>4, OthersStayHeld
<1>7. ASSUME NEW ok \in BOOLEAN, ConnectPending(ok)
      PROVE  HeldInv'
  <2>1. PICK c \in Clients : c = next /\ phase[c] = "opened"
    BY <1>1, <1>7 DEF ConnectPending, AfterSocket
  <2>2. PICK fd \in Fds, new \in Events :
           /\ fd = fdOf[next] /\ connectTable' = [connectTable EXCEPT ![fd] = new]
           /\ ok => new.added /\ new.callback = next
           /\ ~ok => ~new.added
    BY <1>7, PendingEvent
  <2>3. /\ phase' = [phase EXCEPT ![c] = IF ok THEN "connecting" ELSE "forgotten"]
        /\ UNCHANGED <<fdOf, inHand>>
    BY <1>7, <2>1 DEF ConnectPending, fdVars
  <2>4. Held(c)'
    <3>1. CASE ok
      <4>1. phase'[c] = "connecting" /\ connectTable'[fdOf[c]] = new
        BY <2>1, <2>2, <2>3, <3>1 DEF TypeOK
      <4>2. QED
        BY <2>1, <2>2, <2>3, <3>1, <4>1 DEF Held
    <3>2. CASE ~ok
      BY <2>3, <3>2, DoneIsHeld
    <3>3. QED
      BY <3>1, <3>2
  <2>5. ASSUME NEW d \in Clients, d # c, phase[d] = "connecting"
        PROVE  connectTable'[fdOf[d]] = connectTable[fdOf[d]]
    <3>1. c \in Owners /\ d \in Owners
      BY <2>1, <2>5 DEF Owners, OwnerPhases
    <3>2. fdOf[d] # fd
      BY <2>1, <2>2, <2>5, <3>1 DEF OwnInv, FdOwners
    <3>3. QED
      BY <2>2, <3>2 DEF TypeOK
  <2>6. QED
    BY <1>1, <1>2, <1>3, <2>1, <2>3, <2>4, <2>5, OthersStayHeld
<1>8. QED
  BY <1>4, <1>5, <1>6, <1>7

\* The client in hand is in a mailbox afterwards.
LEMMA NotifyKeepsHeld ==
  ASSUME TypeOK, OwnInv, HeldInv, NotifyNewConnect
  PROVE  HeldInv'
<1>1. PICK c \in Clients : c = inHand
  BY DEF NotifyNewConnect, TypeOK
<1>2. PICK w \in Workers : w = cur
  BY DEF TypeOK
<1>3. /\ mailbox' = [mailbox EXCEPT ![w] = Append(mailbox[w], c)]
      /\ phase' = [phase EXCEPT ![c] = "queued"]
      /\ UNCHANGED <<next, connectTable, fdOf, map>>
  BY <1>1, <1>2 DEF NotifyNewConnect, fdVars, tableVars
<1>4. PICK n \in Nat : n = Len(mailbox[w])
  BY DEF TypeOK
<1>5. /\ Len(mailbox'[w]) = n + 1 /\ mailbox'[w][n + 1] = c
      /\ \A i \in 1 .. n : mailbox'[w][i] = mailbox[w][i]
      /\ \A v \in Workers : v # w => mailbox'[v] = mailbox[v]
  BY <1>3, <1>4 DEF TypeOK
<1>6. ASSUME NEW d \in Clients, NEW v \in Workers, QueuedAt(d, v)
      PROVE  QueuedAt(d, v)'
  <2>1. PICK i \in 1 .. Len(mailbox[v]) : mailbox[v][i] = d
    BY <1>6 DEF QueuedAt
  <2>2. i \in 1 .. Len(mailbox'[v]) /\ mailbox'[v][i] = d
    BY <1>4, <1>5, <2>1
  <2>3. QED
    BY <2>2 DEF QueuedAt
<1>7. Held(c)'
  <2>1. QueuedAt(c, w)'
    <3>1. n + 1 \in 1 .. Len(mailbox'[w])
      BY <1>5
    <3>2. QED
      BY <1>5, <3>1 DEF QueuedAt
  <2>2. phase'[c] = "queued"
    BY <1>3 DEF TypeOK
  <2>3. QED
    BY <2>1, <2>2 DEF Held
<1>8. QED
  BY <1>1, <1>3, <1>6, <1>7, OthersStayHeld

\* A connect event passes its client on, and no other.
LEMMA OnConnectEventKeepsHeld ==
  ASSUME TypeOK, OwnInv, HeldInv, NEW fd \in Fds, NEW ok \in BOOLEAN, OnConnectEvent(fd, ok)
  PROVE  HeldInv'
<1>1. PICK c \in Clients : /\ c = connectTable[fd].callback
                           /\ phase[c] = "connecting" /\ fdOf[c] = fd
  BY DEF OnConnectEvent, OwnInv, ConnectEvents
<1>2. /\ inHand = NoClient /\ connectTable' = [connectTable EXCEPT ![fd] = Fired(connectTable[fd])]
      /\ UNCHANGED <<next, fdOf, mailbox, map>>
  BY DEF OnConnectEvent, MainLoop, tableVars
<1>3. PICK ph \in {"inHand", "failed"} :
        phase' = [phase EXCEPT ![c] = ph] /\ (ph = "inHand" => inHand' = c)
  BY <1>1 DEF OnConnectEvent, OnConnected
<1>4. Held(c)'
  <2>1. phase'[c] = ph
    BY <1>3 DEF TypeOK
  <2>2. QED
    BY <1>3, <2>1 DEF Held
<1>5. ASSUME NEW d \in Clients, d # c, phase[d] = "connecting"
      PROVE  connectTable'[fdOf[d]] = connectTable[fdOf[d]]
  <2>1. c \in Owners /\ d \in Owners
    BY <1>1, <1>5 DEF Owners, OwnerPhases
  <2>2. fdOf[d] # fd
    BY <1>1, <1>5, <2>1 DEF OwnInv, FdOwners
  <2>3. QED
    BY <1>2, <2>2 DEF TypeOK
<1>6. \A d \in Clients, w \in Workers : QueuedAt(d, w) => QueuedAt(d, w)'
  BY <1>2 DEF QueuedAt
<1>7. QED
  BY <1>2, <1>3, <1>4, <1>5, <1>6, OthersStayHeld

\* The head of a mailbox goes to its place in the map, which is free, or is
\* closed.
LEMMA OnNewConnectKeepsHeld ==
  ASSUME TypeOK, OwnInv, HeldInv, NEW w \in Workers, NEW ok \in BOOLEAN, OnNewConnect(w, ok)
  PROVE  HeldInv'
<1>1. mailbox[w] \in Seq(Clients) /\ mailbox[w] # << >>
  BY DEF OnNewConnect, TypeOK
<1>2. PICK c \in Clients : c = Head(mailbox[w]) /\ c = mailbox[w][1] /\ phase[c] = "queued"
  <2>1. Head(mailbox[w]) \in Clients /\ Head(mailbox[w]) = mailbox[w][1] /\ 1 \in 1 .. Len(mailbox[w])
    BY <1>1
  <2>2. QED
    BY <2>1 DEF OwnInv, Mailboxes
<1>3. PICK fd \in Fds : fd = fdOf[c] /\ \A v \in Workers : map[v][fd] = NoClient
  <2>1. phase[c] \in OwnerPhases /\ phase[c] # "live"
    BY <1>2 DEF OwnerPhases
  <2>2. fdOf[c] \in Fds
    BY <2>1, OwnerHasFd DEF OwnInv
  <2>3. \A v \in Workers : map[v][fdOf[c]] = NoClient
    BY <2>1, PlaceIsFree DEF OwnInv
  <2>4. QED
    BY <2>2, <2>3
<1>4. /\ mailbox' = [mailbox EXCEPT ![w] = Tail(mailbox[w])]
      /\ UNCHANGED <<next, inHand, connectTable, fdOf>>
  BY DEF OnNewConnect, mainVars
<1>5. PICK n \in Nat : n = Len(mailbox[w])
  BY <1>1
<1>6. /\ Len(mailbox'[w]) = n - 1 /\ \A i \in 1 .. n - 1 : mailbox'[w][i] = mailbox[w][i + 1]
      /\ \A v \in Workers : v # w => mailbox'[v] = mailbox[v]
  <2>1. Len(Tail(mailbox[w])) = n - 1 /\ \A i \in 1 .. n - 1 : Tail(mailbox[w])[i] = mailbox[w][i + 1]
    BY <1>1, <1>5
  <2>2. mailbox'[w] = Tail(mailbox[w]) /\ \A v \in Workers : v # w => mailbox'[v] = mailbox[v]
    BY <1>4 DEF TypeOK
  <2>3. QED
    BY <2>1, <2>2
<1>7. ASSUME NEW d \in Clients, NEW v \in Workers, d # c, QueuedAt(d, v)
      PROVE  QueuedAt(d, v)'
  <2>1. PICK i \in 1 .. Len(mailbox[v]) : mailbox[v][i] = d
    BY <1>7 DEF QueuedAt
  <2>2. CASE v = w
    <3>1. i # 1
      BY <1>2, <1>7, <2>1, <2>2
    <3>2. PICK j \in 1 .. n - 1 : i = j + 1
      <4>1. i \in 1 .. n
        BY <1>5, <2>2
      <4>2. i - 1 \in 1 .. n - 1 /\ i = (i - 1) + 1
        BY <3>1, <4>1
      <4>3. QED
        BY <4>2
    <3>3. j \in 1 .. Len(mailbox'[v]) /\ mailbox'[v][j] = d
      BY <1>6, <2>1, <2>2, <3>2
    <3>4. QED
      BY <3>3 DEF QueuedAt
  <2>3. CASE v # w
    <3>1. mailbox'[v] = mailbox[v]
      BY <1>6, <2>3
    <3>2. QED
      BY <1>7, <3>1 DEF QueuedAt
  <2>4. QED
    BY <2>2, <2>3
<1>8. CASE ~ok
  <2>1. phase' = [phase EXCEPT ![c] = "gone"] /\ UNCHANGED map
    BY <1>2, <1>8 DEF OnNewConnect
  <2>2. Held(c)'
    BY <2>1, DoneIsHeld
  <2>3. QED
    BY <1>4, <1>7, <2>1, <2>2, OthersStayHeld
<1>9. CASE ok
  <2>1. phase' = [phase EXCEPT ![c] = "live"] /\ map' = [map EXCEPT ![w][fd] = c]
    BY <1>2, <1>3, <1>9 DEF OnNewConnect
  <2>2. /\ map'[w][fd] = c
        /\ \A v \in Workers, g \in Fds : ~(v = w /\ g = fd) => map'[v][g] = map[v][g]
    BY <2>1 DEF TypeOK
  <2>3. Held(c)'
    <3>1. phase'[c] = "live"
      BY <2>1 DEF TypeOK
    <3>2. map'[w][fdOf'[c]] = c
      BY <1>3, <1>4, <2>2
    <3>3. QED
      BY <3>1, <3>2 DEF Held
  <2>4. ASSUME NEW d \in Clients, NEW v \in Workers, d # c, phase[d] = "live", map[v][fdOf[d]] = d
        PROVE  map'[v][fdOf[d]] = d
    <3>1. fdOf[d] \in Fds
      BY <2>4, OwnerHasFd DEF OwnInv, OwnerPhases
    <3>2. fdOf[d] # fd
      BY <1>3, <2>4, Sizes
    <3>3. QED
      BY <2>2, <2>4, <3>1, <3>2
  <2>5. QED
    BY <1>4, <1>7, <2>1, <2>3, <2>4, OthersStayHeld
<1>10. QED
  BY <1>8, <1>9

\* _destroy ends the client at one place of one map.
LEMMA DestroyKeepsHeld ==
  ASSUME TypeOK, OwnInv, HeldInv, NEW w \in Workers, NEW fd \in Fds, map[w][fd] # NoClient,
         NEW rd, NEW wr, Destroy(w, fd, rd, wr),
         UNCHANGED <<next, inHand, connectTable, fdOf, mailbox>>
  PROVE  HeldInv'
<1>1. PICK c \in Clients : c = map[w][fd] /\ fdOf[c] = fd
  BY PlaceOwner DEF OwnInv
<1>2. phase' = [phase EXCEPT ![c] = "gone"] /\ map' = [map EXCEPT ![w][fd] = NoClient]
  BY <1>1 DEF Destroy
<1>3. \A v \in Workers, g \in Fds : ~(v = w /\ g = fd) => map'[v][g] = map[v][g]
  BY <1>2 DEF TypeOK
<1>4. Held(c)'
  BY <1>2, DoneIsHeld
<1>5. ASSUME NEW d \in Clients, NEW v \in Workers, d # c, phase[d] = "live", map[v][fdOf[d]] = d
      PROVE  map'[v][fdOf[d]] = d
  <2>1. fdOf[d] \in Fds
    BY <1>5, OwnerHasFd DEF OwnInv, OwnerPhases
  <2>2. QED
    BY <1>1, <1>3, <1>5, <2>1
<1>6. \A d \in Clients, v \in Workers : QueuedAt(d, v) => QueuedAt(d, v)'
  BY DEF QueuedAt
<1>7. QED
  BY <1>2, <1>4, <1>5, <1>6, OthersStayHeld

\* Every step keeps every client held.
LEMMA HeldStep == TypeOK /\ OwnInv /\ HeldInv /\ [Next]_vars => HeldInv'
<1> SUFFICES ASSUME TypeOK, OwnInv, HeldInv, [Next]_vars PROVE HeldInv'
  OBVIOUS
<1>1. CASE MainStep
  BY <1>1, CreatingKeepsHeld, NotifyKeepsHeld, OnConnectEventKeepsHeld DEF MainStep
<1>2. ASSUME UNCHANGED ownVars
      PROVE  HeldInv'
  BY <1>2 DEF HeldInv, Held, QueuedAt, ownVars
<1>3. ASSUME NEW w \in Workers, HandlerStep(w)
      PROVE  HeldInv'
  <2>1. CASE ClearFirst(w) \/ Stamp(w) \/ Exit(w)
    BY <1>2, <2>1 DEF ClearFirst, Stamp, Exit, mainVars, fdVars, tableVars, ownVars
  <2>2. ASSUME NEW ok \in BOOLEAN, BeginRecv(w, ok)
        PROVE  HeldInv'
    <3>1. PICK fd \in Fds : fd = fdOf[at[w]] /\ map[w][fd] # NoClient
      BY <2>2, Sizes DEF BeginRecv, OwnInv, HandlerAt
    <3>2. UNCHANGED <<next, inHand, connectTable, fdOf, mailbox>>
      BY <2>2 DEF BeginRecv, mainVars
    <3>3. \/ UNCHANGED <<map, openFds, phase>>
          \/ Destroy(w, fd, readTable[w][fd], writeTable[w][fd])
      BY <2>2, <3>1 DEF BeginRecv
    <3>4. QED
      BY <1>2, <3>1, <3>2, <3>3, DestroyKeepsHeld DEF ownVars
  <2>3. QED
    BY <1>3, <2>1, <2>2, OnNewConnectKeepsHeld DEF HandlerStep
<1>4. ASSUME NEW w \in Workers, NEW fd \in Fds, ReadStep(w, fd)
      PROVE  HeldInv'
  <2>1. map[w][fd] # NoClient
    BY <1>4, FiresForOwner DEF ReadStep, RecvError, RecvHead, RecvBody, ReadFires
  <2>2. UNCHANGED <<next, inHand, connectTable, fdOf, mailbox>>
    BY <1>4 DEF ReadStep, RecvError, RecvHead, RecvBody, mainVars, fdVars
  <2>3. \/ UNCHANGED <<map, openFds, phase>>
        \/ Destroy(w, fd, Fired(readTable[w][fd]), writeTable[w][fd])
    BY <1>4 DEF ReadStep, RecvError, RecvHead, RecvBody, fdVars
  <2>4. QED
    BY <1>2, <2>1, <2>2, <2>3, DestroyKeepsHeld, SMTT(30) DEF ownVars
<1>5. ASSUME NEW w \in Workers, NEW fd \in Fds, WriteStep(w, fd)
      PROVE  HeldInv'
  <2>1. map[w][fd] # NoClient
    BY <1>5, FiresForOwner DEF WriteStep, SendError, SendComplete, WriteFires
  <2>2. UNCHANGED <<next, inHand, connectTable, fdOf, mailbox>>
    BY <1>5 DEF WriteStep, SendError, SendComplete, mainVars
  <2>3. \/ UNCHANGED <<map, openFds, phase>>
        \/ Destroy(w, fd, readTable[w][fd], Fired(writeTable[w][fd]))
    BY <1>5 DEF WriteStep, SendError, SendComplete
  <2>4. QED
    BY <1>2, <2>1, <2>2, <2>3, DestroyKeepsHeld, SMTT(30) DEF ownVars
<1>6. ASSUME NEW c \in Clients, EchoBack(c) \/ PeerFails(c)
      PROVE  HeldInv'
  BY <1>2, <1>6 DEF EchoBack, PeerFails, mainVars, fdVars, tableVars, ownVars
<1>7. CASE UNCHANGED vars
  BY <1>2, <1>7 DEF vars, mainVars, fdVars, tableVars, ownVars
<1>8. QED
  BY <1>1, <1>3, <1>4, <1>5, <1>6, <1>7 DEF Next

\* Who is held, by main or a worker, is a client with a socket that is not
\* forgotten; and who has a socket is held or forgotten.
LEMMA HoldersAreOwners ==
  ASSUME TypeOK, OwnInv, HeldInv
  PROVE  Owners = Holders \cup Forgotten /\ Holders \cap Forgotten = {}
<1>1. ASSUME NEW c \in Clients, HeldByMain(c) \/ \E w \in Workers : HeldByWorker(c, w)
      PROVE  phase[c] \in OwnerPhases \ {"forgotten"}
  <2>1. c # NoClient
    BY Sizes
  <2>2. CASE HeldByMain(c)
    <3>1. phase[c] \in {"opened", "connecting", "inHand"}
      BY <2>1, <2>2 DEF HeldByMain, OwnInv, ConnectEvents, InHandPhase
    <3>2. QED
      BY <3>1 DEF OwnerPhases
  <2>3. ASSUME NEW w \in Workers, HeldByWorker(c, w)
        PROVE  phase[c] \in OwnerPhases \ {"forgotten"}
    <3>1. phase[c] \in {"queued", "live"}
      BY <2>1, <2>3 DEF HeldByWorker, OwnInv, Mailboxes, MapOwners
    <3>2. QED
      BY <3>1 DEF OwnerPhases
  <2>4. QED
    BY <1>1, <2>2, <2>3
<1>2. ASSUME NEW c \in Clients, phase[c] \in OwnerPhases, phase[c] # "forgotten"
      PROVE  HeldByMain(c) \/ \E w \in Workers : HeldByWorker(c, w)
  <2>1. Held(c) /\ fdOf[c] \in Fds
    BY <1>2, OwnerHasFd DEF HeldInv, OwnInv
  <2>2. CASE phase[c] \in {"opened", "connecting", "inHand"}
    <3>1. HeldByMain(c)
      BY <2>1, <2>2 DEF Held, HeldByMain
    <3>2. QED
      BY <3>1
  <2>3. CASE phase[c] = "queued"
    <3>1. \E w \in Workers : QueuedAt(c, w)
      BY <2>1, <2>3 DEF Held
    <3>2. QED
      BY <3>1 DEF QueuedAt, HeldByWorker
  <2>4. CASE phase[c] = "live"
    <3>1. PICK w \in Workers : map[w][fdOf[c]] = c
      BY <2>1, <2>4 DEF Held
    <3>2. HeldByWorker(c, w)
      BY <2>1, <3>1 DEF HeldByWorker
    <3>3. QED
      BY <3>2
  <2>5. QED
    BY <1>2, <2>2, <2>3, <2>4 DEF OwnerPhases
<1>3. "forgotten" \in OwnerPhases
  BY DEF OwnerPhases
<1>4. QED
  BY <1>1, <1>2, <1>3 DEF Owners, Holders, Forgotten

\* An open socket belongs to one client and is held by asyncConnect, by an
\* event of main's loop that can fire, by the hand-over, by a mailbox or by a
\* map; no path closes it under its owner.  The one exception is the client
\* whose addEventHandler failed in asyncConnect (Connector.cpp:97): its socket
\* stays open and nobody holds it.  This holds for any number of clients,
\* workers, descriptors and failures.
THEOREM DescriptorsKept == Spec => []NoDescriptorLost
<1>1. Init => HeldInv
  <2>1. ASSUME Init PROVE \A c \in Clients : phase[c] = "new"
    BY <2>1 DEF Init
  <2>2. QED
    BY <2>1 DEF HeldInv, Held
<1>2. TypeOK /\ OwnInv /\ HeldInv => NoDescriptorLost
  <2> SUFFICES ASSUME TypeOK, OwnInv, HeldInv PROVE NoDescriptorLost
    OBVIOUS
  <2>1. Owners = Holders \cup Forgotten /\ Holders \cap Forgotten = {}
    BY HoldersAreOwners
  <2>2. FdOwners
    BY DEF OwnInv
  <2>3. QED
    BY <2>1, <2>2 DEF FdOwners, NoDescriptorLost
<1>3. QED
  BY <1>1, <1>2, HeldStep, Owned, PTL DEF Spec

-----------------------------------------------------------------------------
(* The count of the echoes                                                 *)

\* The echoes counted so far: <<c, n>> is the n-th echo of client c.
Echoes == {e \in Clients \X (1 .. MsgNum) : e[2] <= selfEcho[e[1]]}

InHandler == {"first", "stamp", "recv"}
Settled == {"live", "gone"}

\* Only a connection gets echoes, and never more than MsgNum.
EchoBounds ==
  \A c \in Clients : selfEcho[c] <= MsgNum /\ (phase[c] \notin Settled => selfEcho[c] = 0)

\* Who still receives has echoes to come.
EchoesLeft ==
  \A w \in Workers, fd \in Fds :
    readTable[w][fd].added => selfEcho[map[w][fd]] < MsgNum /\ ~firstSend

\* Inside startReadOrWriteInService no echo has come.
HandlerFresh == \A w \in Workers : pc[w] \in InHandler => selfEcho[at[w]] = 0

\* Whoever clears bConnectedFirstSend_ is about to take the time.
FirstSends ==
  /\ \A w \in Workers : pc[w] \in {"stamp", "recv", "exit"} => ~firstSend
  /\ firstSend \/ stamped \/ \E w \in Workers : pc[w] = "stamp"

EchoCounted == (\A w \in Workers : pc[w] # "exit") => echoCount = Cardinality(Echoes)

\* The last echo is counted before its connection is destroyed.
ExitOwner == \A w \in Workers : pc[w] = "exit" => at[w] \in Clients /\ phase[at[w]] = "gone"

EchoInv ==
  /\ EchoBounds /\ EchoesLeft /\ HandlerFresh /\ FirstSends
  /\ EchoCounted /\ ExitOwner /\ ExitMeansAll

\* No client goes back from being a connection, or from being gone.
PhasesForward ==
  \A c \in Clients :
    /\ phase[c] = "gone" => phase'[c] = "gone"
    /\ phase[c] \in Settled => phase'[c] \in Settled

\* A step moves one client on.
LEMMA MoveForward ==
  ASSUME TypeOK, NEW c \in Clients, NEW ph, phase' = [phase EXCEPT ![c] = ph],
         phase[c] \notin Settled \/ ph = "gone"
  PROVE  PhasesForward
<1>1. phase'[c] = ph /\ \A d \in Clients : d # c => phase'[d] = phase[d]
  BY DEF TypeOK
<1>2. QED
  BY <1>1 DEF PhasesForward, Settled

\* A step that counts no echo and ends no process keeps the count.
LEMMA QuietKeepsEchoes ==
  ASSUME EchoInv, PhasesForward, UNCHANGED <<selfEcho, echoCount>>,
         EchoesLeft', HandlerFresh', FirstSends',
         \A w \in Workers : pc'[w] = "exit" <=> pc[w] = "exit",
         \A w \in Workers : pc[w] = "exit" => at'[w] = at[w]
  PROVE  EchoInv'
<1>1. EchoBounds'
  BY DEF EchoInv, EchoBounds, PhasesForward
<1>2. EchoCounted'
  BY DEF EchoInv, EchoCounted, Echoes
<1>3. ExitOwner'
  BY DEF EchoInv, ExitOwner, PhasesForward
<1>4. ExitMeansAll'
  <2> SUFFICES ASSUME NEW w \in Workers, pc'[w] = "exit"
               PROVE  /\ \A c \in Clients : selfEcho[c] = IF c = at'[w] THEN MsgNum - 1 ELSE MsgNum
                      /\ \A v \in Workers : pc'[v] = "exit" => v = w
    BY DEF ExitMeansAll
  <2>1. pc[w] = "exit" /\ at'[w] = at[w]
    OBVIOUS
  <2>2. QED
    BY <2>1 DEF EchoInv, ExitMeansAll
<1>5. QED
  BY <1>1, <1>2, <1>3, <1>4 DEF EchoInv

\* Which read events a step may leave on.
ReadsStay ==
  \A w \in Workers, fd \in Fds :
    readTable'[w][fd].added => readTable[w][fd].added /\ map'[w][fd] = map[w][fd]

\* A step outside the handlers that only takes events off.
LEMMA LoopKeepsEchoes ==
  ASSUME EchoInv, PhasesForward, ReadsStay, UNCHANGED <<selfEcho, countVars, pc, at>>
  PROVE  EchoInv'
<1>1. EchoesLeft'
  BY DEF EchoInv, EchoesLeft, ReadsStay, countVars
<1>2. HandlerFresh' /\ FirstSends'
  BY DEF EchoInv, HandlerFresh, FirstSends, countVars
<1>3. QED
  BY <1>1, <1>2, QuietKeepsEchoes DEF countVars

\* The steps of main.
LEMMA MainKeepsEchoes ==
  ASSUME TypeOK, OwnInv, EchoInv, MainStep
  PROVE  EchoInv'
<1>1. UNCHANGED <<map, readTable, selfEcho, countVars, pc, at>>
  BY DEF MainStep, NotifyNewConnect, Socket, SocketFails, ConnectFails, ConnectedAtOnce,
    ConnectPending, OnConnectEvent,
     tableVars, connVars, countVars
<1>2. PhasesForward
  <2>1. CASE NotifyNewConnect
    <3>1. inHand \in Clients /\ phase[inHand] = "inHand" /\ phase' = [phase EXCEPT ![inHand] = "queued"]
      BY <2>1 DEF NotifyNewConnect, OwnInv, InHandPhase, TypeOK
    <3>2. QED
      BY <3>1, MoveForward DEF Settled
  <2>2. ASSUME Creating, NEW ph, phase' = [phase EXCEPT ![next] = ph]
        PROVE  PhasesForward
    BY <2>2, NextIsNew, MoveForward DEF Settled
  <2>3. CASE Socket \/ SocketFails
    BY <2>2, <2>3 DEF Socket, SocketFails
  <2>4. CASE ConnectFails \/ ConnectedAtOnce
    BY <2>2, <2>4 DEF ConnectFails, ConnectedAtOnce, AfterSocket
  <2>5. CASE \E ok \in BOOLEAN : ConnectPending(ok)
    BY <2>2, <2>5 DEF ConnectPending, AfterSocket
  <2>6. ASSUME NEW fd \in Fds, NEW ok \in BOOLEAN, OnConnectEvent(fd, ok)
        PROVE  PhasesForward
    <3>1. connectTable[fd].added
      BY <2>6 DEF OnConnectEvent
    <3>2. PICK c \in Clients : c = connectTable[fd].callback /\ phase[c] = "connecting"
      BY <3>1 DEF OwnInv, ConnectEvents
    <3>3. \/ phase' = [phase EXCEPT ![c] = "inHand"]
          \/ phase' = [phase EXCEPT ![c] = "failed"]
      BY <2>6, <3>2 DEF OnConnectEvent
    <3>4. QED
      BY <3>2, <3>3, MoveForward DEF Settled
  <2>7. QED
    BY <2>1, <2>3, <2>4, <2>5, <2>6 DEF MainStep
<1>3. ReadsStay
  BY <1>1 DEF ReadsStay
<1>4. QED
  BY <1>1, <1>2, <1>3, LoopKeepsEchoes

\* The handler's look at bConnectedFirstSend_: the flag is cleared, then the
\* time is taken.
LEMMA FirstSendKeepsEchoes ==
  ASSUME TypeOK, EchoInv, NEW w \in Workers, ClearFirst(w) \/ Stamp(w)
  PROVE  EchoInv'
<1>1. UNCHANGED <<phase, map, readTable, selfEcho, echoCount, at>>
  BY DEF ClearFirst, Stamp, tableVars, connVars
<1>2. PhasesForward
  BY <1>1 DEF PhasesForward
<1>3. /\ pc[w] \in {"first", "stamp"} /\ pc'[w] \in {"stamp", "recv"}
      /\ \A v \in Workers : v # w => pc'[v] = pc[v]
  BY DEF ClearFirst, Stamp, TypeOK
<1>4. HandlerFresh'
  <2> SUFFICES ASSUME NEW v \in Workers, pc'[v] \in InHandler
               PROVE  selfEcho[at[v]] = 0
    BY <1>1 DEF HandlerFresh
  <2>1. pc[v] \in InHandler
    BY <1>3 DEF InHandler
  <2>2. QED
    BY <2>1 DEF EchoInv, HandlerFresh
<1>5. ~firstSend'
  BY DEF ClearFirst, Stamp, EchoInv, FirstSends
<1>6. EchoesLeft'
  BY <1>1, <1>5 DEF EchoInv, EchoesLeft
<1>7. stamped' \/ pc'[w] = "stamp"
  BY DEF ClearFirst, Stamp, TypeOK
<1>8. FirstSends'
  BY <1>5, <1>7 DEF FirstSends
<1>9. \A v \in Workers : pc'[v] = "exit" <=> pc[v] = "exit"
  BY <1>3
<1>10. QED
  BY <1>1, <1>2, <1>4, <1>6, <1>8, <1>9, QuietKeepsEchoes

\* _destroy takes the events of one connection off.
LEMMA DestroyStays ==
  ASSUME TypeOK, OwnInv, NEW w \in Workers, NEW fd \in Fds, map[w][fd] # NoClient,
         NEW rd \in Events, rd.added => rd.made, NEW wr, Destroy(w, fd, rd, wr)
  PROVE  PhasesForward /\ ReadsStay
<1>1. PICK c \in Clients : c = map[w][fd]
  BY DEF TypeOK
<1>2. phase' = [phase EXCEPT ![c] = "gone"]
  BY <1>1 DEF Destroy
<1>3. PhasesForward
  BY <1>2, MoveForward
<1>4. ASSUME NEW v \in Workers, NEW g \in Fds, readTable'[v][g].added
      PROVE  readTable[v][g].added /\ map'[v][g] = map[v][g]
  <2>1. CASE v = w /\ g = fd
    <3>1. readTable'[v][g] = RemoveEventHandler(rd)
      BY <2>1 DEF Destroy, TypeOK
    <3>2. ~RemoveEventHandler(rd).added
      BY EventOps
    <3>3. QED
      BY <1>4, <3>1, <3>2
  <2>2. CASE ~(v = w /\ g = fd)
    <3>1. readTable'[v][g] = readTable[v][g] /\ map'[v][g] = map[v][g]
      BY <2>2 DEF Destroy, TypeOK
    <3>2. QED
      BY <1>4, <3>1
  <2>3. QED
    BY <2>1, <2>2
<1>5. QED
  BY <1>3, <1>4 DEF ReadsStay

\* A new connection has no echo yet, and no read event.
LEMMA OnNewConnectKeepsEchoes ==
  ASSUME TypeOK, OwnInv, EchoInv, NEW w \in Workers, NEW ok \in BOOLEAN, OnNewConnect(w, ok)
  PROVE  EchoInv'
<1>1. PICK c \in Clients : c = Head(mailbox[w]) /\ phase[c] = "queued"
  <2>1. mailbox[w] \in Seq(Clients) /\ mailbox[w] # << >>
    BY DEF OnNewConnect, TypeOK
  <2>2. 1 \in 1 .. Len(mailbox[w]) /\ Head(mailbox[w]) = mailbox[w][1] /\ mailbox[w][1] \in Clients
    BY <2>1
  <2>3. phase[mailbox[w][1]] = "queued"
    BY <2>2 DEF OwnInv, Mailboxes
  <2>4. QED
    BY <2>2, <2>3
<1>2. PICK fd \in Fds : fd = fdOf[c] /\ map[w][fd] = NoClient
  <2>1. phase[c] \in OwnerPhases /\ phase[c] # "live"
    BY <1>1 DEF OwnerPhases
  <2>2. QED
    BY <2>1, PlaceIsFree DEF OwnInv
<1>3. pc[w] = "loop" /\ UNCHANGED <<readTable, selfEcho, countVars>>
  BY DEF OnNewConnect, connVars
<1>4. PhasesForward
  <2>1. \/ phase' = [phase EXCEPT ![c] = "live"]
        \/ phase' = [phase EXCEPT ![c] = "gone"]
    BY <1>1 DEF OnNewConnect
  <2>2. QED
    BY <1>1, <2>1, MoveForward DEF Settled
<1>5. CASE ok
  <2>1. /\ map' = [map EXCEPT ![w][fd] = c]
        /\ pc' = [pc EXCEPT ![w] = IF firstSend THEN "first" ELSE "recv"]
        /\ at' = [at EXCEPT ![w] = c]
    BY <1>1, <1>2, <1>5 DEF OnNewConnect
  <2>2. /\ pc'[w] = (IF firstSend THEN "first" ELSE "recv") /\ at'[w] = c
        /\ \A v \in Workers : v # w => pc'[v] = pc[v] /\ at'[v] = at[v]
    BY <2>1 DEF TypeOK
  <2>3. ASSUME NEW v \in Workers, NEW g \in Fds, readTable[v][g].added
        PROVE  map'[v][g] = map[v][g]
    <3>1. map[v][g] # NoClient
      BY <2>3, FiresForOwner
    <3>2. ~(v = w /\ g = fd)
      BY <1>2, <3>1
    <3>3. QED
      BY <2>1, <3>2 DEF TypeOK
  <2>4. EchoesLeft'
    BY <1>3, <2>3 DEF EchoInv, EchoesLeft, countVars
  <2>5. HandlerFresh'
    <3>1. selfEcho[c] = 0
      BY <1>1 DEF EchoInv, EchoBounds, Settled
    <3>2. QED
      BY <1>3, <2>2, <3>1 DEF EchoInv, HandlerFresh
  <2>6. FirstSends'
    <3>1. firstSend' = firstSend /\ stamped' = stamped
      BY <1>3 DEF countVars
    <3>2. \A v \in Workers : pc'[v] \in {"stamp", "recv", "exit"} => ~firstSend
      BY <2>2 DEF EchoInv, FirstSends
    <3>3. \A v \in Workers : pc[v] = "stamp" => pc'[v] = "stamp"
      BY <1>3, <2>2
    <3>4. QED
      BY <3>1, <3>2, <3>3 DEF EchoInv, FirstSends
  <2>7. \A v \in Workers : (pc'[v] = "exit" <=> pc[v] = "exit") /\ (pc[v] = "exit" => at'[v] = at[v])
    BY <1>3, <2>2
  <2>8. QED
    BY <1>3, <1>4, <2>4, <2>5, <2>6, <2>7, QuietKeepsEchoes DEF countVars
<1>6. CASE ~ok
  <2>1. UNCHANGED <<map, pc, at>>
    BY <1>6 DEF OnNewConnect
  <2>2. ReadsStay
    BY <1>3, <2>1 DEF ReadsStay
  <2>3. QED
    BY <1>3, <1>4, <2>1, <2>2, LoopKeepsEchoes
<1>7. QED
  BY <1>5, <1>6

\* The first receive: all echoes of this connection are to come.
LEMMA BeginRecvKeepsEchoes ==
  ASSUME TypeOK, OwnInv, EchoInv, NEW w \in Workers, NEW ok \in BOOLEAN, BeginRecv(w, ok)
  PROVE  EchoInv'
<1>1. PICK c \in Clients : c = at[w] /\ fdOf[c] \in Fds /\ map[w][fdOf[c]] = c
  BY DEF BeginRecv, OwnInv, HandlerAt
<1>2. PICK fd \in Fds : fd = fdOf[c]
  BY <1>1
<1>3. map[w][fd] = c /\ map[w][fd] # NoClient
  BY <1>1, <1>2, Sizes
<1>4. /\ pc[w] = "recv" /\ pc'[w] = "loop"
      /\ \A v \in Workers : v # w => pc'[v] = pc[v] /\ at'[v] = at[v]
      /\ UNCHANGED <<selfEcho, countVars>>
  BY DEF BeginRecv, connVars, TypeOK
<1>5. HandlerFresh'
  BY <1>4 DEF EchoInv, HandlerFresh, InHandler
<1>6. FirstSends'
  <2>1. firstSend' = firstSend /\ stamped' = stamped
    BY <1>4 DEF countVars
  <2>2. \A v \in Workers : pc'[v] \in {"stamp", "recv", "exit"} => pc[v] \in {"stamp", "recv", "exit"}
    BY <1>4
  <2>3. \A v \in Workers : pc[v] = "stamp" => pc'[v] = "stamp"
    BY <1>4
  <2>4. QED
    BY <2>1, <2>2, <2>3 DEF EchoInv, FirstSends
<1>7. \A v \in Workers : (pc'[v] = "exit" <=> pc[v] = "exit") /\ (pc[v] = "exit" => at'[v] = at[v])
  BY <1>4
<1>8. CASE ok
  <2>1. /\ readTable' = [readTable EXCEPT ![w][fd] = AddEventHandler(readTable[w][fd], c)]
        /\ UNCHANGED <<map, phase>>
    BY <1>1, <1>2, <1>8 DEF BeginRecv
  <2>2. PhasesForward
    BY <2>1 DEF PhasesForward
  <2>3. selfEcho[c] < MsgNum /\ ~firstSend
    <3>1. selfEcho[c] = 0 /\ ~firstSend
      BY <1>1, <1>4 DEF EchoInv, HandlerFresh, FirstSends, InHandler
    <3>2. QED
      BY <3>1, SimulateAssumption
  <2>4. \A v \in Workers, g \in Fds : ~(v = w /\ g = fd) => readTable'[v][g] = readTable[v][g]
    BY <2>1 DEF TypeOK
  <2>5. EchoesLeft'
    BY <1>3, <1>4, <2>1, <2>3, <2>4 DEF EchoInv, EchoesLeft, countVars
  <2>6. QED
    BY <1>4, <1>5, <1>6, <1>7, <2>2, <2>5, QuietKeepsEchoes DEF countVars
<1>9. CASE ~ok
  <2>1. Destroy(w, fd, readTable[w][fd], writeTable[w][fd])
    BY <1>1, <1>2, <1>9 DEF BeginRecv
  <2>2. PhasesForward /\ ReadsStay
    BY <1>3, <2>1, Entries, DestroyStays
  <2>3. EchoesLeft'
    BY <1>4, <2>2 DEF EchoInv, EchoesLeft, ReadsStay, countVars
  <2>4. QED
    BY <1>4, <1>5, <1>6, <1>7, <2>2, <2>3, QuietKeepsEchoes DEF countVars
<1>10. QED
  BY <1>8, <1>9

\* A read event that fires belongs to a connection with echoes to come.
LEMMA ReadOwner ==
  ASSUME TypeOK, OwnInv, EchoInv, NEW w \in Workers, NEW fd \in Fds, ReadFires(w, fd)
  PROVE  /\ map[w][fd] \in Clients /\ map[w][fd] # NoClient
         /\ readTable[w][fd].callback = map[w][fd]
         /\ phase[map[w][fd]] = "live" /\ fdOf[map[w][fd]] = fd
         /\ selfEcho[map[w][fd]] < MsgNum /\ ~firstSend
<1>1. readTable[w][fd].added
  BY DEF ReadFires
<1>2. map[w][fd] # NoClient /\ readTable[w][fd].callback = map[w][fd]
  BY <1>1, FiresForOwner
<1>3. map[w][fd] \in Clients /\ phase[map[w][fd]] = "live" /\ fdOf[map[w][fd]] = fd
  BY <1>2, PlaceOwner DEF OwnInv
<1>4. QED
  BY <1>1, <1>2, <1>3 DEF EchoInv, EchoesLeft

\* Nobody receives any more once a worker is about to end the process.
LEMMA NoReadAfterExit ==
  ASSUME TypeOK, OwnInv, EchoInv, NEW w \in Workers, NEW fd \in Fds, ReadFires(w, fd),
         NEW v \in Workers
  PROVE  pc[v] # "exit"
<1> SUFFICES ASSUME pc[v] = "exit" PROVE FALSE
  OBVIOUS
<1>1. PICK c \in Clients : c = map[w][fd] /\ phase[c] = "live" /\ selfEcho[c] < MsgNum
  BY ReadOwner
<1>2. c # at[v]
  BY <1>1 DEF EchoInv, ExitOwner
<1>3. selfEcho[c] = MsgNum
  BY <1>2 DEF EchoInv, ExitMeansAll
<1>4. QED
  BY <1>1, <1>3, SimulateAssumption

\* Setting the read event of an occupied place, for a client with echoes left.
LEMMA RearmStays ==
  ASSUME TypeOK, NEW w \in Workers, NEW fd \in Fds, NEW rd, readTable[w][fd].added,
         readTable' = [readTable EXCEPT ![w][fd] = rd], map' = map
  PROVE  ReadsStay
<1>1. \A v \in Workers, g \in Fds : ~(v = w /\ g = fd) => readTable'[v][g] = readTable[v][g]
  BY DEF TypeOK
<1>2. QED
  BY <1>1 DEF ReadsStay

\* A head, the end of a connection, or a message sent: no echo is counted.
LEMMA TransferKeepsEchoes ==
  ASSUME TypeOK, OwnInv, EchoInv, NEW w \in Workers, NEW fd \in Fds,
         \/ RecvError(w, fd) \/ WriteStep(w, fd)
         \/ \E ok \in BOOLEAN : RecvHead(w, fd, ok)
  PROVE  EchoInv'
<1>1. UNCHANGED <<selfEcho, countVars, pc, at>>
  BY DEF RecvError, WriteStep, SendError, SendComplete, RecvHead, connVars
<1>2. PhasesForward /\ ReadsStay
  <2>1. CASE RecvError(w, fd)
    <3>1. ReadFires(w, fd) /\ Destroy(w, fd, Fired(readTable[w][fd]), writeTable[w][fd])
      BY <2>1 DEF RecvError
    <3>2. map[w][fd] # NoClient
      BY <3>1, ReadOwner
    <3>3. QED
      BY <3>1, <3>2, Entries, DestroyStays
  <2>2. ASSUME NEW ok \in BOOLEAN, RecvHead(w, fd, ok)
        PROVE  PhasesForward /\ ReadsStay
    <3>1. ReadFires(w, fd) /\ UNCHANGED <<phase, map>> /\ RecvAgain(w, fd, readTable[w][fd].callback, ok)
      BY <2>2 DEF RecvHead
    <3>2. PICK rd : readTable' = [readTable EXCEPT ![w][fd] = rd]
      BY <3>1 DEF RecvAgain
    <3>3. ReadsStay
      BY <3>1, <3>2, RearmStays DEF ReadFires
    <3>4. QED
      BY <3>1, <3>3 DEF PhasesForward
  <2>3. CASE WriteStep(w, fd)
    <3>1. WriteFires(w, fd)
      BY <2>3 DEF WriteStep, SendError, SendComplete
    <3>2. map[w][fd] # NoClient
      BY <3>1, FiresForOwner DEF WriteFires
    <3>3. \/ UNCHANGED <<phase, map, readTable>>
          \/ Destroy(w, fd, readTable[w][fd], Fired(writeTable[w][fd]))
      BY <2>3 DEF WriteStep, SendError, SendComplete
    <3>4. CASE UNCHANGED <<phase, map, readTable>>
      BY <3>4 DEF PhasesForward, ReadsStay
    <3>5. CASE Destroy(w, fd, readTable[w][fd], Fired(writeTable[w][fd]))
      BY <3>2, <3>5, Entries, DestroyStays
    <3>6. QED
      BY <3>3, <3>4, <3>5
  <2>4. QED
    BY <2>1, <2>2, <2>3
<1>3. QED
  BY <1>1, <1>2, LoopKeepsEchoes

\* There are MsgNum * ClientNum echoes in all.
LEMMA AllTheEchoes ==
  /\ IsFiniteSet(Clients \X (1 .. MsgNum))
  /\ Cardinality(Clients \X (1 .. MsgNum)) = MsgNum * ClientNum
<1>1. /\ IsFiniteSet(Clients) /\ Cardinality(Clients) = ClientNum
      /\ IsFiniteSet(1 .. MsgNum) /\ Cardinality(1 .. MsgNum) = MsgNum
  BY SimulateAssumption, FS_Interval DEF Clients
<1>2. /\ IsFiniteSet(Clients \X (1 .. MsgNum))
      /\ Cardinality(Clients \X (1 .. MsgNum)) = Cardinality(Clients) * Cardinality(1 .. MsgNum)
  BY <1>1, FS_Product
<1>3. ClientNum * MsgNum = MsgNum * ClientNum
  BY SimulateAssumption
<1>4. QED
  BY <1>1, <1>2, <1>3

\* One more echo of c is one more in all; if it is the last of all, every other
\* client has got its echoes, and c all but this one.
LEMMA OneMoreEcho ==
  ASSUME TypeOK, NEW c \in Clients, selfEcho[c] < MsgNum,
         \A d \in Clients : selfEcho[d] <= MsgNum
  PROVE  /\ IsFiniteSet(Echoes)
         /\ Cardinality(Echoes \cup {<<c, selfEcho[c] + 1>>}) = Cardinality(Echoes) + 1
         /\ Cardinality(Echoes) + 1 >= MsgNum * ClientNum =>
              \A d \in Clients : selfEcho[d] = IF d = c THEN MsgNum - 1 ELSE MsgNum
<1> DEFINE All == Clients \X (1 .. MsgNum)
           p == <<c, selfEcho[c] + 1>>
<1>1. MsgNum \in Nat /\ MsgNum # 0 /\ \A d \in Clients : selfEcho[d] \in Nat
  BY SimulateAssumption DEF TypeOK
<1>2. Echoes \subseteq All
  BY DEF Echoes
<1>3. IsFiniteSet(Echoes) /\ Cardinality(Echoes) \in Nat
  BY <1>2, AllTheEchoes, FS_Subset, FS_CardinalityType
<1>4. p \in All /\ p \notin Echoes
  BY <1>1 DEF Echoes
<1>5. Cardinality(Echoes \cup {p}) = Cardinality(Echoes) + 1
  BY <1>3, <1>4, FS_AddElement
<1>6. ASSUME Cardinality(Echoes) + 1 >= MsgNum * ClientNum, NEW d \in Clients
      PROVE  selfEcho[d] = IF d = c THEN MsgNum - 1 ELSE MsgNum
  <2>1. Echoes \cup {p} \in SUBSET All
    BY <1>2, <1>4
  <2>2. Cardinality(Echoes \cup {p}) <= Cardinality(All)
    BY <2>1, AllTheEchoes, FS_Subset
  <2>3. Cardinality(All) = MsgNum * ClientNum /\ MsgNum * ClientNum \in Nat
    BY AllTheEchoes, SimulateAssumption
  <2>4. Cardinality(All) = Cardinality(Echoes \cup {p})
    BY <1>3, <1>5, <1>6, <2>2, <2>3
  <2>5. All = Echoes \cup {p}
    BY <2>1, <2>4, AllTheEchoes, FS_Subset
  <2>6. <<d, MsgNum>> \in All
    BY <1>1
  <2>7. CASE d # c
    <3>1. <<d, MsgNum>> \in Echoes
      BY <2>5, <2>6, <2>7
    <3>2. MsgNum <= selfEcho[d]
      BY <3>1 DEF Echoes
    <3>3. QED
      BY <1>1, <2>7, <3>2
  <2>8. CASE d = c
    <3>1. <<c, MsgNum>> \notin Echoes
      BY <1>1 DEF Echoes
    <3>2. <<c, MsgNum>> = p
      BY <2>5, <2>6, <2>8, <3>1
    <3>3. QED
      BY <1>1, <2>8, <3>2
  <2>9. QED
    BY <2>7, <2>8
<1>7. QED
  BY <1>3, <1>5, <1>6

\* A connection is in one place only.
LEMMA OnePlace ==
  ASSUME TypeOK, OwnInv, NEW w \in Workers, NEW fd \in Fds, NEW v \in Workers, NEW g \in Fds,
         NEW c \in Clients, map[w][fd] = c, map[v][g] = c
  PROVE  v = w /\ g = fd
<1>1. c # NoClient
  BY Sizes
<1>2. fdOf[c] = fd /\ fdOf[c] = g
  BY <1>1 DEF OwnInv, MapOwners
<1>3. v = w
  BY <1>1, <1>2 DEF OwnInv, MapOwners
<1>4. QED
  BY <1>2, <1>3

\* The last echo of all: the worker that counts it is the only one to exit.
LEMMA LastEcho ==
  ASSUME TypeOK, OwnInv, EchoInv, NEW w \in Workers, NEW fd \in Fds, NEW ok \in BOOLEAN,
         RecvBody(w, fd, ok), AllEchoes(echoCount + 1)
  PROVE  EchoInv'
<1>1. ReadFires(w, fd)
  BY DEF RecvBody
<1>2. PICK c \in Clients :
        /\ c = map[w][fd] /\ c = readTable[w][fd].callback /\ c # NoClient
        /\ selfEcho[c] < MsgNum /\ ~firstSend
  BY <1>1, ReadOwner
<1>3. \A v \in Workers : pc[v] # "exit"
  BY <1>1, NoReadAfterExit
<1>4. /\ Destroy(w, fd, Fired(readTable[w][fd]), writeTable[w][fd])
      /\ pc' = [pc EXCEPT ![w] = "exit"] /\ at' = [at EXCEPT ![w] = c]
      /\ UNCHANGED <<selfEcho, firstSend, stamped>>
  BY <1>2 DEF RecvBody
<1>5. /\ pc'[w] = "exit" /\ at'[w] = c
      /\ \A v \in Workers : v # w => pc'[v] = pc[v] /\ at'[v] = at[v]
  BY <1>4 DEF TypeOK
<1>6. PhasesForward /\ ReadsStay
  BY <1>2, <1>4, Entries, DestroyStays
<1>7. EchoBounds' /\ EchoesLeft'
  <2>1. EchoBounds'
    BY <1>4, <1>6 DEF EchoInv, EchoBounds, PhasesForward
  <2>2. EchoesLeft'
    BY <1>4, <1>6 DEF EchoInv, EchoesLeft, ReadsStay
  <2>3. QED
    BY <2>1, <2>2
<1>8. HandlerFresh'
  BY <1>4, <1>5 DEF EchoInv, HandlerFresh, InHandler
<1>9. FirstSends'
  <2>1. pc[w] = "loop"
    BY <1>1 DEF ReadFires
  <2>2. \A v \in Workers : pc[v] = "stamp" => pc'[v] = "stamp"
    BY <1>5, <2>1
  <2>3. ~firstSend'
    BY <1>2, <1>4
  <2>4. QED
    BY <1>4, <2>2, <2>3 DEF EchoInv, FirstSends
<1>10. EchoCounted'
  BY <1>5 DEF EchoCounted
<1>11. ExitOwner'
  <2>1. phase'[c] = "gone"
    BY <1>2, <1>4 DEF Destroy, TypeOK
  <2>2. QED
    BY <1>3, <1>5, <2>1 DEF ExitOwner
<1>12. ExitMeansAll'
  <2>1. echoCount = Cardinality(Echoes) /\ echoCount + 1 >= MsgNum * ClientNum
    BY <1>3 DEF EchoInv, EchoCounted, AllEchoes
  <2>2. \A d \in Clients : selfEcho[d] <= MsgNum
    BY DEF EchoInv, EchoBounds
  <2>3. \A d \in Clients : selfEcho[d] = IF d = c THEN MsgNum - 1 ELSE MsgNum
    BY <1>2, <2>1, <2>2, OneMoreEcho
  <2>4. \A v \in Workers : pc'[v] = "exit" => v = w
    BY <1>3, <1>5
  <2>5. QED
    BY <1>4, <1>5, <2>3, <2>4 DEF ExitMeansAll
<1>13. QED
  BY <1>7, <1>8, <1>9, <1>10, <1>11, <1>12 DEF EchoInv

\* Any other echo is counted once, for its own client.
LEMMA NextEcho ==
  ASSUME TypeOK, OwnInv, EchoInv, NEW w \in Workers, NEW fd \in Fds, NEW ok \in BOOLEAN,
         RecvBody(w, fd, ok), ~AllEchoes(echoCount + 1)
  PROVE  EchoInv'
<1>1. ReadFires(w, fd)
  BY DEF RecvBody
<1>2. PICK c \in Clients :
        /\ c = map[w][fd] /\ c = readTable[w][fd].callback /\ c # NoClient
        /\ phase[c] = "live" /\ selfEcho[c] < MsgNum /\ ~firstSend
  BY <1>1, ReadOwner
<1>3. \A v \in Workers : pc[v] # "exit"
  BY <1>1, NoReadAfterExit
<1>4. /\ selfEcho' = [selfEcho EXCEPT ![c] = selfEcho[c] + 1]
      /\ echoCount' = echoCount + 1
      /\ UNCHANGED <<phase, map, pc, at, firstSend, stamped>>
  BY <1>2 DEF RecvBody
<1>5. /\ selfEcho'[c] = selfEcho[c] + 1 /\ selfEcho[c] \in Nat /\ MsgNum \in Nat
      /\ \A d \in Clients : d # c => selfEcho'[d] = selfEcho[d]
  BY <1>4, SimulateAssumption DEF TypeOK
<1>6. EchoBounds'
  BY <1>2, <1>4, <1>5 DEF EchoInv, EchoBounds, Settled
<1>7. /\ \A v \in Workers, g \in Fds : ~(v = w /\ g = fd) => readTable'[v][g] = readTable[v][g]
      /\ readTable'[w][fd].added => selfEcho[c] + 1 # MsgNum
  <2>1. CASE AllOwnEchoes(selfEcho[c] + 1)
    <3>1. readTable' = [readTable EXCEPT ![w][fd] = Fired(readTable[w][fd])]
      BY <1>2, <2>1 DEF RecvBody
    <3>2. ~Fired(readTable[w][fd]).added
      BY Entries
    <3>3. readTable'[w][fd] = Fired(readTable[w][fd])
      BY <3>1 DEF TypeOK
    <3>4. \A v \in Workers, g \in Fds : ~(v = w /\ g = fd) => readTable'[v][g] = readTable[v][g]
      BY <3>1 DEF TypeOK
    <3>5. QED
      BY <3>2, <3>3, <3>4
  <2>2. CASE ~AllOwnEchoes(selfEcho[c] + 1)
    <3>1. RecvAgain(w, fd, c, ok)
      BY <1>2, <2>2 DEF RecvBody
    <3>2. PICK rd : readTable' = [readTable EXCEPT ![w][fd] = rd]
      BY <3>1 DEF RecvAgain
    <3>3. \A v \in Workers, g \in Fds : ~(v = w /\ g = fd) => readTable'[v][g] = readTable[v][g]
      BY <3>2 DEF TypeOK
    <3>4. QED
      BY <2>2, <3>3 DEF AllOwnEchoes
  <2>3. QED
    BY <2>1, <2>2
<1>8. EchoesLeft'
  <2> SUFFICES ASSUME NEW v \in Workers, NEW g \in Fds, readTable'[v][g].added
               PROVE  selfEcho'[map[v][g]] < MsgNum
    BY <1>2, <1>4 DEF EchoesLeft
  <2>1. CASE v = w /\ g = fd
    <3>1. selfEcho[c] + 1 # MsgNum
      BY <1>7, <2>1
    <3>2. selfEcho'[c] < MsgNum
      BY <1>2, <1>5, <3>1
    <3>3. QED
      BY <1>2, <2>1, <3>2
  <2>2. CASE ~(v = w /\ g = fd)
    <3>1. readTable[v][g].added
      BY <1>7, <2>2
    <3>2. map[v][g] # NoClient
      BY <3>1, FiresForOwner
    <3>3. PICK d \in Clients : d = map[v][g]
      BY <3>2 DEF TypeOK
    <3>4. d # c
      <4> SUFFICES ASSUME d = c PROVE FALSE
        OBVIOUS
      <4>1. map[w][fd] = c /\ map[v][g] = c
        BY <1>2, <3>3
      <4>2. QED
        BY <2>2, <4>1, OnePlace
    <3>5. selfEcho[d] < MsgNum
      BY <3>1, <3>3 DEF EchoInv, EchoesLeft
    <3>6. QED
      BY <1>5, <3>3, <3>4, <3>5
  <2>3. QED
    BY <2>1, <2>2
<1>9. HandlerFresh'
  <2> SUFFICES ASSUME NEW v \in Workers, pc[v] \in InHandler
               PROVE  selfEcho'[at[v]] = 0
    BY <1>4 DEF HandlerFresh
  <2>1. PICK d \in Clients : d = at[v] /\ fdOf[d] \in Fds /\ map[v][fdOf[d]] = d
    BY DEF OwnInv, HandlerAt, InHandler
  <2>2. v # w
    BY <1>1 DEF ReadFires, InHandler
  <2>3. d # c
    <3> SUFFICES ASSUME d = c PROVE FALSE
      OBVIOUS
    <3>1. PICK g \in Fds : g = fdOf[d]
      BY <2>1
    <3>2. map[w][fd] = c /\ map[v][g] = c
      BY <1>2, <2>1, <3>1
    <3>3. QED
      BY <2>2, <3>2, OnePlace
  <2>4. selfEcho[d] = 0
    BY <2>1 DEF EchoInv, HandlerFresh
  <2>5. QED
    BY <1>5, <2>1, <2>3, <2>4
<1>10. FirstSends' /\ ExitOwner' /\ ExitMeansAll'
  <2>1. FirstSends'
    BY <1>4 DEF EchoInv, FirstSends
  <2>2. ExitOwner' /\ ExitMeansAll'
    BY <1>3, <1>4 DEF ExitOwner, ExitMeansAll
  <2>3. QED
    BY <2>1, <2>2
<1>11. EchoCounted'
  <2>1. Echoes' = Echoes \cup {<<c, selfEcho[c] + 1>>}
    <3>1. ASSUME NEW d \in Clients, NEW n \in 1 .. MsgNum
          PROVE  n <= selfEcho'[d] <=> (n <= selfEcho[d] \/ (d = c /\ n = selfEcho[c] + 1))
      <4>1. PICK k \in Nat : k = selfEcho[c]
        BY <1>5
      <4>2. n \in Nat /\ selfEcho'[c] = k + 1 /\ (n <= k + 1 <=> (n <= k \/ n = k + 1))
        BY <1>5, <4>1
      <4>3. CASE d = c
        BY <4>1, <4>2, <4>3
      <4>4. CASE d # c
        BY <1>5, <4>4
      <4>5. QED
        BY <4>3, <4>4
    <3>2. selfEcho[c] + 1 \in 1 .. MsgNum
      BY <1>2, <1>5
    <3>3. ASSUME NEW e \in Echoes'
          PROVE  e \in Echoes \cup {<<c, selfEcho[c] + 1>>}
      BY <3>1, <3>3 DEF Echoes
    <3>4. ASSUME NEW e \in Echoes \cup {<<c, selfEcho[c] + 1>>}
          PROVE  e \in Echoes'
      BY <3>1, <3>2, <3>4 DEF Echoes
    <3>5. QED
      BY <3>3, <3>4
  <2>2. echoCount = Cardinality(Echoes)
    BY <1>3 DEF EchoInv, EchoCounted
  <2>3. \A d \in Clients : selfEcho[d] <= MsgNum
    BY DEF EchoInv, EchoBounds
  <2>4. Cardinality(Echoes') = Cardinality(Echoes) + 1
    BY <1>2, <2>1, <2>3, OneMoreEcho
  <2>5. QED
    BY <1>4, <2>2, <2>4 DEF EchoCounted
<1>12. QED
  BY <1>6, <1>8, <1>9, <1>10, <1>11 DEF EchoInv

\* No echo has come and nobody has looked at the flag when the process starts.
LEMMA EchoesInit == Init => EchoInv
<1> SUFFICES ASSUME Init PROVE EchoInv
  OBVIOUS
<1>1. \A c \in Clients : selfEcho[c] = 0
  BY DEF Init
<1>2. \A w \in Workers : pc[w] = "loop"
  BY DEF Init
<1>3. EchoBounds
  BY <1>1, SimulateAssumption DEF EchoBounds
<1>4. EchoesLeft
  BY DEF Init, EchoesLeft, NoEvent
<1>5. HandlerFresh /\ FirstSends /\ ExitOwner /\ ExitMeansAll
  BY <1>2 DEF Init, HandlerFresh, InHandler, FirstSends, ExitOwner, ExitMeansAll
<1>6. Echoes = {}
  BY <1>1 DEF Echoes
<1>7. EchoCounted
  BY <1>6, FS_EmptySet DEF Init, EchoCounted
<1>8. QED
  BY <1>3, <1>4, <1>5, <1>7 DEF EchoInv

\* The count is kept by every step.
LEMMA EchoesStep == TypeOK /\ OwnInv /\ EchoInv /\ [Next]_vars => EchoInv'
<1> SUFFICES ASSUME TypeOK, OwnInv, EchoInv, [Next]_vars PROVE EchoInv'
  OBVIOUS
<1>1. ASSUME UNCHANGED <<phase, map, readTable, selfEcho, countVars, pc, at>>
      PROVE  EchoInv'
  <2>1. PhasesForward /\ ReadsStay
    BY <1>1 DEF PhasesForward, ReadsStay
  <2>2. QED
    BY <1>1, <2>1, LoopKeepsEchoes
<1>2. CASE MainStep
  BY <1>2, MainKeepsEchoes
<1>3. ASSUME NEW w \in Workers, HandlerStep(w)
      PROVE  EchoInv'
  <2>1. CASE Exit(w)
    BY <1>1, <2>1 DEF Exit, tableVars, connVars
  <2>2. QED
    BY <1>3, <2>1, FirstSendKeepsEchoes, OnNewConnectKeepsEchoes, BeginRecvKeepsEchoes DEF HandlerStep
<1>4. ASSUME NEW w \in Workers, NEW fd \in Fds, ReadStep(w, fd) \/ WriteStep(w, fd)
      PROVE  EchoInv'
  BY <1>4, TransferKeepsEchoes, LastEcho, NextEcho DEF ReadStep
<1>5. ASSUME NEW c \in Clients, EchoBack(c) \/ PeerFails(c)
      PROVE  EchoInv'
  BY <1>1, <1>5 DEF EchoBack, PeerFails, tableVars, connVars
<1>6. CASE UNCHANGED vars
  BY <1>1, <1>6 DEF vars, tableVars, connVars
<1>7. QED
  BY <1>2, <1>3, <1>4, <1>5, <1>6 DEF Next

\* The count with types and owners.
LEMMA Counting == Spec => [](TypeOK /\ OwnInv /\ EchoInv)
<1>1. Init => EchoInv
  BY EchoesInit
<1>2. TypeOK /\ OwnInv /\ EchoInv /\ [Next]_vars => EchoInv'
  BY EchoesStep
<1>3. QED
  BY <1>1, <1>2, Owned, PTL DEF Spec

\* "All ... echo received" is true whenever it is said: the worker that counts
\* the last echo is alone, and every client has got all its echoes, for any
\* number of clients, messages and workers and whatever failed before.
THEOREM ExitAfterAll == Spec => []ExitMeansAll
<1>1. EchoInv => ExitMeansAll
  BY DEF EchoInv
<1>2. QED
  BY <1>1, Counting, PTL

\* The start time that the duration is computed from has been written and is
\* not about to be overwritten, although several workers race for the flag.
THEOREM DurationAlwaysDefined == Spec => []DurationIsDefined
<1>1. TypeOK /\ OwnInv /\ EchoInv => DurationIsDefined
  <2> SUFFICES ASSUME TypeOK, OwnInv, EchoInv, NEW w \in Workers, pc[w] = "exit"
               PROVE  stamped /\ \A v \in Workers : pc[v] \notin {"first", "stamp"}
    BY DEF DurationIsDefined
  <2>1. ASSUME NEW v \in Workers, pc[v] \in {"first", "stamp"}
        PROVE  FALSE
    <3>1. PICK d \in Clients : d = at[v] /\ fdOf[d] \in Fds /\ map[v][fdOf[d]] = d
      BY <2>1 DEF OwnInv, HandlerAt
    <3>2. PICK fd \in Fds : fd = fdOf[d]
      BY <3>1
    <3>3. map[v][fd] = d /\ d # NoClient
      BY <3>1, <3>2, Sizes
    <3>4. phase[d] = "live"
      BY <3>3 DEF OwnInv, MapOwners
    <3>5. d # at[w]
      BY <3>4 DEF EchoInv, ExitOwner
    <3>6. selfEcho[d] = MsgNum
      BY <3>5 DEF EchoInv, ExitMeansAll
    <3>7. selfEcho[d] = 0
      BY <2>1, <3>1 DEF EchoInv, HandlerFresh, InHandler
    <3>8. QED
      BY <3>6, <3>7, SimulateAssumption
  <2>2. stamped
    BY <2>1 DEF EchoInv, FirstSends
  <2>3. QED
    BY <2>1, <2>2
<1>2. QED
  BY <1>1, Counting, PTL
=============================================================================
