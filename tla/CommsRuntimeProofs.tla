------------------------- MODULE CommsRuntimeProofs -------------------------
(***************************************************************************)
(* Proofs about CommsRuntime for any number of peers, of threads inside    *)
(* discover_links(), of descriptors and of handlers.                       *)
(***************************************************************************)
EXTENDS CommsRuntime, SequenceTheorems, TLAPS

(* The variables an action leaves alone, unfolded once for every leaf.     *)
USE DEF vars, scanVars, history

(* The invariant the proofs carry: types; what the locals of a scan hold   *)
(* where, without which the key of a visited candidate has no type; and    *)
(* that start() spawns the discovery thread once.                          *)
SpawnPhases == {"start", "spawn_udp", "spawn_bt", "spawn_disc"}
Unspawned   == phase \in SpawnPhases => pc[Disc] = "unborn"
TypeInv     == TypeOK /\ ScanLocals /\ Unspawned

LEMMA InitType == Init => TypeInv
<1> SUFFICES ASSUME Init PROVE TypeInv
  OBVIOUS
<1>1. pc \in [Threads -> ScanPoints \cup DiscPoints \cup CallPoints]
  BY DEF Init, DiscPoints, CallPoints
<1>2. callbacks \in [Slots -> Handlers \cup {NoHandler}] /\ server \in [Servers -> {"unborn"}]
  BY DEF Init
<1>2a. links \in Seq(Link) /\ dropped \in Seq(Link)
  BY DEF Init
<1>2b. todo \in [Threads -> SUBSET Candidates] /\ cand \in [Threads -> Candidates \cup {NoCandidate}]
  BY DEF Init
<1>2c. attempt \in [Threads -> BOOLEAN] /\ snap \in [Threads -> Handlers \cup {NoHandler}]
  BY DEF Init
<1>2d. hand \in [Threads -> Fds \cup {NoFd}] /\ given \in [Callers -> SUBSET Keys]
  BY DEF Init
<1>3. TypeOK
  BY <1>1, <1>2, <1>2a, <1>2b, <1>2c, <1>2d DEF Init, TypeOK, Phases
<1>4. ScanLocals
  BY DEF Init, ScanLocals, VisitPoints
<1>4a. Unspawned
  BY DEF Init, Unspawned, Threads
<1>5. QED
  BY <1>3, <1>4, <1>4a DEF TypeInv

(* Every step of a scanning thread keeps them. *)
LEMMA ScanType ==
    ASSUME NEW t \in Threads, TypeInv, Scan(t)
    PROVE  TypeInv'
<1> USE ConstantsAssumption DEF TypeInv, TypeOK, ScanLocals, Unspawned, SpawnPhases, ScanPoints, DiscPoints, CallPoints, VisitPoints, Candidates
<1>1. CASE ScanBluetooth(t)
  BY <1>1 DEF ScanBluetooth
<1>2. CASE ScanWifi(t)
  BY <1>2 DEF ScanWifi
<1>3. CASE ConsiderDevice(t)
  BY <1>3 DEF ConsiderDevice, Slots, DeviceSlot
<1>4. CASE CallDevice(t)
  BY <1>4 DEF CallDevice
<1>5. CASE DeviceReturns(t)
  BY <1>5 DEF DeviceReturns
<1>6. CASE SkipDevice(t)
  BY <1>6 DEF SkipDevice, NextCandidate
<1>7. CASE OpenSocket(t)
  BY <1>7 DEF OpenSocket
<1>8. CASE HandshakeFails(t)
  BY <1>8 DEF HandshakeFails, NextCandidate
<1>9. CASE HandshakeSucceeds(t)
  BY <1>9 DEF HandshakeSucceeds
<1>10. CASE DiscardLink(t)
  BY <1>10 DEF DiscardLink, NextCandidate
<1>11. CASE PublishLink(t)
  BY <1>11 DEF PublishLink, Link, Radios, RadioOf, Slots
<1>12. CASE CallLink(t)
  BY <1>12 DEF CallLink
<1>13. CASE LinkReturns(t)
  BY <1>13 DEF LinkReturns, NextCandidate
<1>14. QED
  BY <1>1, <1>2, <1>3, <1>4, <1>5, <1>6, <1>7, <1>8, <1>9, <1>10, <1>11, <1>12, <1>13 DEF Scan

LEMMA DiscoveryType ==
    ASSUME TypeInv, Discovery
    PROVE  TypeInv'
<1>1. CASE Scan(Disc)
  BY <1>1, ScanType DEF Threads
<1>2. CASE LoopTest \/ DiscEndsScan \/ WaitTest \/ Park \/ WaitTimesOut
  BY <1>2 DEF LoopTest, DiscEndsScan, WaitTest, Park, WaitTimesOut, TypeInv, TypeOK,
              ScanLocals, Unspawned, SpawnPhases, ScanPoints, DiscPoints, VisitPoints, Threads
<1>3. QED
  BY <1>1, <1>2 DEF Discovery

LEMMA ApplicationType ==
    ASSUME NEW c \in Callers, TypeInv, BeginDiscover(c) \/ Caller(c)
    PROVE  TypeInv'
<1> c \in Threads
  BY DEF Threads
<1>1. CASE Scan(c)
  BY <1>1, ScanType
<1>2. CASE BeginDiscover(c)
  BY <1>2, ConstantsAssumption
     DEF BeginDiscover, TypeInv, TypeOK, ScanLocals, Unspawned, ScanPoints, VisitPoints
<1>2a. CASE CallerEndsScan(c)
  BY <1>2a, ConstantsAssumption
     DEF CallerEndsScan, TypeInv, TypeOK, ScanLocals, Unspawned, CallPoints, VisitPoints
<1>3. CASE Collect(c)
  <2>1. ASSUME NEW wanted PROVE FirstLinks(wanted) \subseteq Keys
    <3>1. ASSUME NEW k \in FirstLinks(wanted) PROVE k \in LinkKeys
      <4>1. PICK i \in DOMAIN links : k = links[i].key
        BY <3>1 DEF FirstLinks
      <4>2. QED
        BY <4>1 DEF LinkKeys
    <3>2. LinkKeys \subseteq Keys
      <4>1. \A i \in DOMAIN links : links[i] \in Link
        BY DEF TypeInv, TypeOK
      <4>2. QED
        BY <4>1 DEF LinkKeys, Link
    <3>3. QED
      BY <3>1, <3>2
  <2>2. QED
    BY <1>3, <2>1, ConstantsAssumption
       DEF Collect, TypeInv, TypeOK, ScanLocals, Unspawned, CallPoints, VisitPoints
<1>4. QED
  BY <1>1, <1>2, <1>2a, <1>3 DEF Caller

LEMMA ControlType ==
    ASSUME TypeInv, Starting \/ Stop \/ Stopping
    PROVE  TypeInv'
<1> USE DEF TypeInv, TypeOK, ScanLocals, Unspawned, SpawnPhases, Phases, VisitPoints
<1>1. CASE Start \/ SpawnThrows
  <2>1. running' \in BOOLEAN
    BY <1>1, Zenon DEF Start, SpawnThrows
  <2>2. QED
    BY <1>1, <2>1 DEF Start, SpawnThrows
<1>1a. CASE SpawnServer
  BY <1>1a DEF SpawnServer
<1>1b. CASE SpawnDiscovery
  BY <1>1b DEF SpawnDiscovery, DiscPoints, Threads
<1>2. CASE Stop
  BY <1>2 DEF Stop
<1>3. CASE Notify
  BY <1>3 DEF Notify, DiscPoints, Threads
<1>3a. CASE Join
  BY <1>3a DEF Join
<1>4. CASE Drain
  BY <1>4 DEF Drain
<1>5. CASE SnapshotDrop
  BY <1>5 DEF SnapshotDrop, Slots
<1>6. CASE CallDropped
  <2>1. Head(dropped) \in Link /\ Tail(dropped) \in Seq(Link)
    BY <1>6, HeadTailProperties DEF CallDropped
  <2>2. Head(dropped).key \in Keys
    BY <2>1 DEF Link
  <2>3. QED
    BY <1>6, <2>1, <2>2 DEF CallDropped
<1>6a. CASE DroppedReturns
  BY <1>6a DEF DroppedReturns
<1>6b. CASE StopReturns
  BY <1>6b DEF StopReturns
<1>7. QED
  BY <1>1, <1>1a, <1>1b, <1>2, <1>3, <1>3a, <1>4, <1>5, <1>6, <1>6a, <1>6b DEF Starting, Stopping

LEMMA NextType ==
    ASSUME TypeInv, [Next]_vars
    PROVE  TypeInv'
<1>1. CASE Discovery
  BY <1>1, DiscoveryType
<1>2. CASE \E c \in Callers : BeginDiscover(c) \/ Caller(c)
  BY <1>2, ApplicationType
<1>3. CASE \E slot \in AppSlots : \/ UnregisterCallback(slot)
                                  \/ \E h \in Handlers : RegisterCallback(slot, h)
  <2>1. PICK slot \in Slots, h \in Handlers \cup {NoHandler} : SetCallback(slot, h)
    BY <1>3, ConstantsAssumption DEF UnregisterCallback, RegisterCallback
  <2>2. QED
    BY <2>1 DEF SetCallback, TypeInv, TypeOK, ScanLocals, Unspawned
<1>4. CASE \E s \in Servers : ServerFails(s)
  BY <1>4 DEF ServerFails, TypeInv, TypeOK, ScanLocals, Unspawned
<1>5. CASE Starting \/ Stop \/ Stopping
  BY <1>5, ControlType
<1>6. CASE Finished \/ UNCHANGED vars
  BY <1>6 DEF Finished, TypeInv, TypeOK, ScanLocals, Unspawned
<1>7. QED
  BY <1>1, <1>2, <1>3, <1>4, <1>5, <1>6 DEF Next

(* Every variable of the runtime keeps to its type: in particular a socket *)
(* is stored in a link, and a key reported to a callback, only while a     *)
(* thread really holds one.                                                *)
THEOREM TypeCorrect == Spec => []TypeOK
<1>1. Init => TypeInv
  BY InitType
<1>2. TypeInv /\ [Next]_vars => TypeInv'
  BY NextType
<1>3. TypeInv => TypeOK
  BY DEF TypeInv
<1>4. QED
  BY <1>1, <1>2, <1>3, PTL DEF Spec
-----------------------------------------------------------------------------
(* The table and the sockets.  Five actions change them; every other step  *)
(* of Next leaves them as they are.                                        *)
Core == <<keys, links, hand, open>>

LEMMA OnlyFiveChangeCore ==
    ASSUME Next
    PROVE  \/ \E t \in Threads : \/ OpenSocket(t) \/ HandshakeFails(t)
                                 \/ DiscardLink(t) \/ PublishLink(t)
           \/ Drain
           \/ UNCHANGED Core
<1> USE DEF Core
<1>1. ASSUME NEW t \in Threads, Scan(t)
      PROVE  \/ OpenSocket(t) \/ HandshakeFails(t) \/ DiscardLink(t) \/ PublishLink(t)
             \/ UNCHANGED Core
  BY <1>1 DEF Scan, ScanBluetooth, ScanWifi, ConsiderDevice, CallDevice, DeviceReturns,
              SkipDevice, HandshakeSucceeds, CallLink, LinkReturns
<1>2. CASE Discovery
  BY <1>1, <1>2 DEF Discovery, Threads, LoopTest, DiscEndsScan, WaitTest, Park, WaitTimesOut
<1>3. CASE \E c \in Callers : BeginDiscover(c) \/ Caller(c)
  BY <1>1, <1>3 DEF Caller, Threads, BeginDiscover, CallerEndsScan, Collect
<1>4. CASE \E slot \in AppSlots : \/ UnregisterCallback(slot)
                                  \/ \E h \in Handlers : RegisterCallback(slot, h)
  BY <1>4 DEF UnregisterCallback, RegisterCallback, SetCallback
<1>5. CASE \E s \in Servers : ServerFails(s)
  BY <1>5 DEF ServerFails
<1>6. CASE Starting \/ Stop
  BY <1>6 DEF Starting, Stop, Start, SpawnServer, SpawnDiscovery, SpawnThrows
<1>7. CASE Stopping
  BY <1>7 DEF Stopping, Notify, Join, SnapshotDrop, CallDropped, DroppedReturns, StopReturns
<1>8. CASE Finished
  BY <1>8 DEF Finished
<1>9. QED
  BY <1>2, <1>3, <1>4, <1>5, <1>6, <1>7, <1>8 DEF Next

TableInv == LinkTable /\ SocketOwnership

(* The sockets held by handshakes after one of them let go of its own. *)
LEMMA LetGo ==
    ASSUME NEW t \in Threads, TypeInv, SocketOwnership, hand[t] # NoFd,
           hand' = [hand EXCEPT ![t] = NoFd]
    PROVE  {hand'[u] : u \in Threads} \ {NoFd} = ({hand[u] : u \in Threads} \ {NoFd}) \ {hand[t]}
BY DEF TypeInv, TypeOK, SocketOwnership

LEMMA LinkFdsType ==
    ASSUME TypeInv
    PROVE  LinkFds \subseteq Fds /\ NoFd \notin LinkFds
<1>1. \A i \in DOMAIN links : links[i] \in Link
  BY DEF TypeInv, TypeOK
<1>2. QED
  BY <1>1, ConstantsAssumption DEF LinkFds, Link

LEMMA TableKept ==
    ASSUME TypeInv, TableInv, UNCHANGED Core
    PROVE  TableInv'
BY DEF TableInv, Core, LinkTable, SocketOwnership, LinkKeys, LinkFds

LEMMA TableOpen ==
    ASSUME NEW t \in Threads, TypeInv, TableInv, OpenSocket(t)
    PROVE  TableInv'
<1>1. PICK fd \in Fds \ open : open' = open \cup {fd} /\ hand' = [hand EXCEPT ![t] = fd]
  BY DEF OpenSocket
<1>2. hand[t] = NoFd /\ fd # NoFd
  BY ConstantsAssumption DEF OpenSocket, TypeInv, ScanLocals
<1>3. LinkTable' /\ LinkFds' = LinkFds
  BY DEF OpenSocket, TableInv, LinkTable, LinkKeys, LinkFds
<1>4. {hand'[u] : u \in Threads} \ {NoFd} = ({hand[u] : u \in Threads} \ {NoFd}) \cup {fd}
  BY <1>1, <1>2 DEF TypeInv, TypeOK
<1>5. SocketOwnership'
  BY <1>1, <1>2, <1>3, <1>4 DEF TableInv, SocketOwnership, TypeInv, TypeOK
<1>6. QED
  BY <1>3, <1>5 DEF TableInv

LEMMA TableClose ==
    ASSUME NEW t \in Threads, TypeInv, TableInv, HandshakeFails(t) \/ DiscardLink(t)
    PROVE  TableInv'
<1>1. open' = open \ {hand[t]} /\ hand' = [hand EXCEPT ![t] = NoFd] /\ hand[t] # NoFd
  BY DEF HandshakeFails, DiscardLink, TypeInv, ScanLocals
<1>2. LinkTable' /\ LinkFds' = LinkFds
  BY DEF HandshakeFails, DiscardLink, TableInv, LinkTable, LinkKeys, LinkFds
<1>3. {hand'[u] : u \in Threads} \ {NoFd} = ({hand[u] : u \in Threads} \ {NoFd}) \ {hand[t]}
  BY <1>1, LetGo DEF TableInv
<1>4. SocketOwnership'
  <2>1. open' = LinkFds' \cup ({hand'[u] : u \in Threads} \ {NoFd})
    BY <1>1, <1>2, <1>3 DEF TableInv, SocketOwnership
  <2>2. \A u \in Threads : hand'[u] = IF u = t THEN NoFd ELSE hand[u]
    BY <1>1 DEF TypeInv, TypeOK
  <2>3. QED
    BY <1>2, <2>1, <2>2, LinkFdsType DEF TableInv, SocketOwnership
<1>5. QED
  BY <1>2, <1>4 DEF TableInv

LEMMA TablePublish ==
    ASSUME NEW t \in Threads, TypeInv, TableInv, PublishLink(t)
    PROVE  TableInv'
<1> DEFINE link == [key |-> KeyOf[cand[t]], radio |-> RadioOf(cand[t]), fd |-> hand[t]]
<1>1. /\ links' = Append(links, link) /\ keys' = keys \cup {link.key}
      /\ link.key \notin keys /\ open' = open
      /\ link.fd = hand[t] /\ hand' = [hand EXCEPT ![t] = NoFd]
  BY DEF PublishLink
<1>2. hand[t] # NoFd /\ hand[t] \in Fds
  BY DEF PublishLink, TypeInv, TypeOK, ScanLocals
<1>3. links \in Seq(Link) /\ link \in Link
  BY <1>2, ConstantsAssumption
     DEF PublishLink, TypeInv, TypeOK, ScanLocals, VisitPoints, Link, Radios, RadioOf
<1>4. /\ DOMAIN links = 1 .. Len(links) /\ Len(links) \in Nat
      /\ DOMAIN links' = 1 .. (Len(links) + 1)
      /\ links'[Len(links) + 1] = link
      /\ \A i \in DOMAIN links : links'[i] = links[i]
  <2>1. Append(links, link) \in Seq(Link) /\ Len(Append(links, link)) = Len(links) + 1
    BY <1>3, AppendProperties
  <2>2. /\ Append(links, link)[Len(links) + 1] = link
        /\ \A i \in 1 .. Len(links) : Append(links, link)[i] = links[i]
    BY <1>3, AppendProperties
  <2>3. DOMAIN links = 1 .. Len(links) /\ Len(links) \in Nat
    BY <1>3
  <2>4. QED
    BY <1>1, <2>1, <2>2, <2>3
<1> HIDE DEF link
<1>5. LinkKeys' = LinkKeys \cup {link.key} /\ LinkFds' = LinkFds \cup {link.fd}
  BY <1>4 DEF LinkKeys, LinkFds
<1>6. \A i \in DOMAIN links : links[i].key # link.key /\ links[i].fd # link.fd
  BY <1>1 DEF TableInv, LinkTable, SocketOwnership, LinkKeys, LinkFds
<1>7. LinkTable'
  BY <1>1, <1>4, <1>5, <1>6 DEF TableInv, LinkTable
<1>8. {hand'[u] : u \in Threads} \ {NoFd} = ({hand[u] : u \in Threads} \ {NoFd}) \ {hand[t]}
  BY <1>1, <1>2, LetGo DEF TableInv
<1>9. \A u \in Threads : hand'[u] = IF u = t THEN NoFd ELSE hand[u]
  BY <1>1 DEF TypeInv, TypeOK
<1>10. SocketOwnership'
  <2>1. hand[t] \in {hand[u] : u \in Threads} \ {NoFd}
    BY <1>2
  <2>2. open' = LinkFds' \cup ({hand'[u] : u \in Threads} \ {NoFd})
    BY <1>1, <1>5, <1>8, <2>1 DEF TableInv, SocketOwnership
  <2>3. QED
    BY <1>1, <1>2, <1>5, <1>9, <2>2, LinkFdsType DEF TableInv, SocketOwnership
<1>11. QED
  BY <1>7, <1>10 DEF TableInv

LEMMA TableDrain ==
    ASSUME TypeInv, TableInv, Drain
    PROVE  TableInv'
<1>1. links' = << >> /\ keys' = {} /\ open' = open \ LinkFds /\ hand' = hand
  BY DEF Drain
<1>2. LinkKeys' = {} /\ LinkFds' = {} /\ DOMAIN links' = {}
  BY <1>1 DEF LinkKeys, LinkFds
<1>3. LinkTable'
  BY <1>1, <1>2 DEF LinkTable
<1>3a. ({hand[t] : t \in Threads} \ {NoFd}) \cap LinkFds = {}
  BY DEF TableInv, SocketOwnership
<1>4. SocketOwnership'
  BY <1>1, <1>2, <1>3a DEF TableInv, SocketOwnership
<1>5. QED
  BY <1>3, <1>4 DEF TableInv

LEMMA NextTable ==
    ASSUME TypeInv, TableInv, [Next]_vars
    PROVE  TableInv'
<1>1. CASE Next
  BY <1>1, OnlyFiveChangeCore, TableKept, TableOpen, TableClose, TablePublish, TableDrain
<1>2. CASE UNCHANGED vars
  BY <1>2, TableKept DEF Core
<1>3. QED
  BY <1>1, <1>2

LEMMA InitTable == Init => TableInv
BY ConstantsAssumption DEF Init, TableInv, LinkTable, SocketOwnership, LinkKeys, LinkFds

(* A peer has one link, a link a socket of its own, and the table and the  *)
(* set of its keys agree, whatever number of threads scan and publish.     *)
THEOREM TableCorrect == Spec => []LinkTable
<1>1. Init => TypeInv /\ TableInv
  BY InitType, InitTable
<1>2. TypeInv /\ TableInv /\ [Next]_vars => TypeInv' /\ TableInv'
  BY NextType, NextTable
<1>3. TableInv => LinkTable
  BY DEF TableInv
<1>4. QED
  BY <1>1, <1>2, <1>3, PTL DEF Spec

(* No socket leaks, none is closed twice, none has two owners.             *)
THEOREM SocketsCorrect == Spec => []SocketOwnership
<1>1. Init => TypeInv /\ TableInv
  BY InitType, InitTable
<1>2. TypeInv /\ TableInv /\ [Next]_vars => TypeInv' /\ TableInv'
  BY NextType, NextTable
<1>3. TableInv => SocketOwnership
  BY DEF TableInv
<1>4. QED
  BY <1>1, <1>2, <1>3, PTL DEF Spec
=============================================================================
