----------------------- MODULE CommsRuntimeStopProofs -----------------------
(***************************************************************************)
(* Proofs about what stop() leaves behind, and about what the application  *)
(* is told: that CommsRuntime implements LinkDirectory.  All but the first *)
(* are about an application that has no call in progress when it destroys  *)
(* its last handle, as CallersReturnFirst says.                            *)
(***************************************************************************)
EXTENDS CommsRuntimeProofs

USE DEF vars, scanVars, history

(* The phases after the join of each thread, and after the drain. *)
Emptied   == {"snapshot", "drops", "in_drop", "stopped"}
Joined    == Emptied \cup {"drain"}
BtJoined  == Joined \cup {"join_disc"}
UdpJoined == BtJoined \cup {"join_bt"}

(* A thread that was joined is over, whether it was ever started or not.   *)
JoinedOver ==
    /\ phase \in UdpJoined => server["udp"] # "serving"
    /\ phase \in BtJoined => server["bt"] # "serving"
    /\ phase \in Joined => pc[Disc] \in {"unborn", "exited"}

(* No application thread is inside the object before it is up or after.    *)
CallersIdle == CallersReturnFirst /\ phase # "up" => \A c \in Callers : pc[c] = "idle"

StopInv == JoinedOver /\ CallersIdle

LEMMA InitStop == Init => StopInv
BY ConstantsAssumption
   DEF Init, StopInv, JoinedOver, CallersIdle, Emptied, Joined, BtJoined, UdpJoined, Threads

LEMMA ScanStop ==
    ASSUME NEW t \in Threads, TypeInv, StopInv, Scan(t)
    PROVE  StopInv'
<1> DEFINE Resting == {"unborn", "exited", "idle"}
<1>1. /\ pc[t] \notin Resting /\ UNCHANGED <<phase, server>>
      /\ \A u \in Threads : u # t => pc'[u] = pc[u]
  BY DEF Scan, ScanBluetooth, ScanWifi, ConsiderDevice, CallDevice, DeviceReturns, SkipDevice,
         OpenSocket, HandshakeFails, HandshakeSucceeds, DiscardLink, PublishLink, CallLink,
         LinkReturns, NextCandidate, TypeInv, TypeOK
<1>2. CASE t = Disc
  BY <1>1, <1>2, ConstantsAssumption DEF StopInv, JoinedOver, CallersIdle, Threads
<1>3. CASE t # Disc
  BY <1>1, <1>3, ConstantsAssumption DEF StopInv, JoinedOver, CallersIdle, Threads
<1>4. QED
  BY <1>2, <1>3

LEMMA ThreadStop ==
    ASSUME TypeInv, StopInv,
           \/ Discovery
           \/ \E c \in Callers : BeginDiscover(c) \/ Caller(c)
           \/ \E s \in Servers : ServerFails(s)
    PROVE  StopInv'
<1>1. /\ pc \in [Threads -> ScanPoints \cup DiscPoints \cup CallPoints]
      /\ server \in [Servers -> {"unborn", "serving", "exited"}]
  BY DEF TypeInv, TypeOK
<1>2. ASSUME NEW t \in Threads, Scan(t) PROVE StopInv'
  BY <1>2, ScanStop
<1> USE ConstantsAssumption
        DEF StopInv, JoinedOver, CallersIdle, Emptied, Joined, BtJoined, UdpJoined, Threads
<1>3. CASE LoopTest \/ DiscEndsScan \/ WaitTest \/ Park \/ WaitTimesOut
  BY <1>1, <1>3 DEF LoopTest, DiscEndsScan, WaitTest, Park, WaitTimesOut
<1>4. ASSUME NEW c \in Callers, BeginDiscover(c) \/ CallerEndsScan(c) \/ Collect(c)
      PROVE  StopInv'
  BY <1>1, <1>4 DEF BeginDiscover, Reachable, CallerEndsScan, Collect
<1>5. ASSUME NEW s \in Servers, ServerFails(s) PROVE StopInv'
  BY <1>1, <1>5 DEF ServerFails, Servers
<1>6. QED
  BY <1>2, <1>3, <1>4, <1>5 DEF Discovery, Caller

LEMMA ControlStop ==
    ASSUME TypeInv, StopInv, Starting \/ Stop \/ Stopping
    PROVE  StopInv'
<1>1. /\ pc \in [Threads -> ScanPoints \cup DiscPoints \cup CallPoints]
      /\ server \in [Servers -> {"unborn", "serving", "exited"}]
  BY DEF TypeInv, TypeOK
<1> USE ConstantsAssumption
        DEF StopInv, JoinedOver, CallersIdle, Emptied, Joined, BtJoined, UdpJoined, Threads, Servers
<1>2. CASE Start \/ SpawnServer \/ SpawnThrows \/ SpawnDiscovery
  BY <1>1, <1>2 DEF Start, SpawnServer, SpawnDiscovery, SpawnThrows
<1>3. CASE Stop
  BY <1>1, <1>3 DEF Stop
<1>4. CASE Notify
  BY <1>1, <1>4 DEF Notify
<1>5. CASE Join
  BY <1>1, <1>5 DEF Join
<1>6. CASE Drain \/ SnapshotDrop \/ CallDropped \/ DroppedReturns \/ StopReturns
  BY <1>1, <1>6 DEF Drain, SnapshotDrop, CallDropped, DroppedReturns, StopReturns
<1>7. QED
  BY <1>2, <1>3, <1>4, <1>5, <1>6 DEF Starting, Stopping

LEMMA NextStop ==
    ASSUME TypeInv, StopInv, [Next]_vars
    PROVE  StopInv'
<1>1. CASE \/ \E slot \in AppSlots : \/ UnregisterCallback(slot)
                                     \/ \E h \in Handlers : RegisterCallback(slot, h)
           \/ Finished \/ UNCHANGED vars
  BY <1>1 DEF UnregisterCallback, RegisterCallback, SetCallback, Finished,
              StopInv, JoinedOver, CallersIdle
<1>2. QED
  BY <1>1, ThreadStop, ControlStop DEF Next

(* stop() returns with both servers and the discovery thread over, also    *)
(* when start() failed half-way.                                           *)
THEOREM ThreadsJoinedCorrect == Spec => []ThreadsJoined
<1>1. Init => TypeInv /\ StopInv
  BY InitType, InitStop
<1>2. TypeInv /\ StopInv /\ [Next]_vars => TypeInv' /\ StopInv'
  BY NextType, NextStop
<1>3. StopInv => ThreadsJoined
  BY DEF StopInv, JoinedOver, ThreadsJoined, Emptied, Joined, BtJoined, UdpJoined, Servers
<1>4. QED
  BY <1>1, <1>2, <1>3, PTL DEF Spec
-----------------------------------------------------------------------------
(* With the callers gone, everybody rests from the joins on.               *)
Resting == {"unborn", "exited", "idle"}

LEMMA AllRest ==
    ASSUME CallersReturnFirst, StopInv, phase \in Joined
    PROVE  \A t \in Threads : pc[t] \in Resting
BY DEF StopInv, JoinedOver, CallersIdle, Emptied, Joined, Resting, Threads

(* The table stays empty, and the addresses given out are of its nodes or  *)
(* of those that are reported dropped.                                     *)
PointerInv ==
    /\ phase \in Emptied => links = << >>
    /\ phase \notin Emptied => dropped = << >>
    /\ LivePointers

LEMMA InitPointer == Init => PointerInv
BY ConstantsAssumption DEF Init, PointerInv, LivePointers, Emptied, Threads

LEMMA ScanPointer ==
    ASSUME CallersReturnFirst, NEW t \in Threads, TypeInv, StopInv, PointerInv, Scan(t)
    PROVE  PointerInv'
<1>1. pc[t] \notin Resting
  BY DEF Resting, Scan, ScanBluetooth, ScanWifi, ConsiderDevice, CallDevice, DeviceReturns,
         SkipDevice, OpenSocket, HandshakeFails, HandshakeSucceeds, DiscardLink, PublishLink,
         CallLink, LinkReturns
<1>2. phase \notin Emptied
  BY <1>1, AllRest DEF Joined
<1>3. /\ UNCHANGED <<phase, given, dropped, dropSnap, gone>> /\ keys \subseteq keys'
      /\ \A u \in Threads : u # t => pc'[u] = pc[u] /\ cand'[u] = cand[u]
  BY DEF Scan, ScanBluetooth, ScanWifi, ConsiderDevice, CallDevice, DeviceReturns, SkipDevice,
         OpenSocket, HandshakeFails, HandshakeSucceeds, DiscardLink, PublishLink, CallLink,
         LinkReturns, NextCandidate, TypeInv, TypeOK
<1>4. pc'[t] \in {"link_cb", "in_link_cb"} => KeyOf[cand'[t]] \in keys'
  <2>1. CASE PublishLink(t)
    BY <2>1 DEF PublishLink
  <2>2. CASE CallLink(t)
    BY <2>2 DEF CallLink, PointerInv, LivePointers
  <2>3. CASE ~PublishLink(t) /\ ~CallLink(t)
    BY <2>3 DEF Scan, ScanBluetooth, ScanWifi, ConsiderDevice, CallDevice, DeviceReturns,
         SkipDevice, OpenSocket, HandshakeFails, HandshakeSucceeds, DiscardLink, LinkReturns,
         NextCandidate, TypeInv, TypeOK
  <2>4. QED
    BY <2>1, <2>2, <2>3
<1>5. LivePointers'
  BY <1>2, <1>3, <1>4 DEF PointerInv, LivePointers, Emptied
<1>6. QED
  BY <1>2, <1>3, <1>5 DEF PointerInv

LEMMA ThreadPointer ==
    ASSUME CallersReturnFirst, TypeInv, StopInv, TableInv, PointerInv,
           Discovery \/ \E c \in Callers : BeginDiscover(c) \/ Caller(c)
    PROVE  PointerInv'
<1>1. pc \in [Threads -> ScanPoints \cup DiscPoints \cup CallPoints]
      /\ given \in [Callers -> SUBSET Keys]
  BY DEF TypeInv, TypeOK
<1>2. ASSUME NEW t \in Threads, Scan(t) PROVE PointerInv'
  BY <1>2, ScanPointer
<1>3. CASE LoopTest \/ DiscEndsScan \/ WaitTest \/ Park \/ WaitTimesOut
  BY <1>1, <1>3 DEF LoopTest, DiscEndsScan, WaitTest, Park, WaitTimesOut,
                    PointerInv, LivePointers, Emptied, Threads
<1>4. ASSUME NEW c \in Callers, BeginDiscover(c) \/ CallerEndsScan(c) PROVE PointerInv'
  BY <1>1, <1>4 DEF BeginDiscover, CallerEndsScan, PointerInv, LivePointers, Emptied, Threads
<1>5. ASSUME NEW c \in Callers, Collect(c) PROVE PointerInv'
  <2>1. PICK wanted : given' = [given EXCEPT ![c] = FirstLinks(wanted)]
    BY <1>5 DEF Collect
  <2>2. FirstLinks(wanted) \subseteq keys
    BY DEF FirstLinks, TableInv, LinkTable, LinkKeys
  <2>3. \A d \in Callers : given'[d] = IF d = c THEN FirstLinks(wanted) ELSE given[d]
    BY <1>1, <2>1
  <2>4. /\ UNCHANGED <<phase, links, keys, cand, dropped, dropSnap, gone>>
        /\ \A t \in Threads : pc'[t] \in {"link_cb", "in_link_cb"} => pc'[t] = pc[t]
    BY <1>1, <1>5 DEF Collect
  <2>5. QED
    BY <2>2, <2>3, <2>4 DEF PointerInv, LivePointers, Emptied
<1>6. QED
  BY <1>2, <1>3, <1>4, <1>5 DEF Discovery, Caller, Threads

LEMMA ControlPointer ==
    ASSUME CallersReturnFirst, TypeInv, StopInv, TableInv, PointerInv,
           Starting \/ Stop \/ Stopping
    PROVE  PointerInv'
<1>1. /\ pc \in [Threads -> ScanPoints \cup DiscPoints \cup CallPoints]
      /\ dropped \in Seq(Link)
  BY DEF TypeInv, TypeOK
<1> USE DEF PointerInv, LivePointers, Emptied
<1>2. CASE Start \/ SpawnServer \/ SpawnDiscovery \/ SpawnThrows \/ Stop
  BY <1>1, <1>2 DEF Start, SpawnServer, SpawnDiscovery, SpawnThrows, Stop
<1>3. CASE Notify \/ Join
  BY <1>1, <1>3 DEF Notify, Join
<1>4. CASE Drain
  <2>1. \A t \in Threads : pc[t] \in Resting
    BY <1>4, AllRest DEF Drain, Joined
  <2>2. keys = {dropped'[i].key : i \in DOMAIN dropped'}
    BY <1>4 DEF Drain, TableInv, LinkTable, LinkKeys
  <2>3. /\ phase = "drain" /\ phase' = "snapshot" /\ links' = << >>
        /\ UNCHANGED <<pc, cand, given, gone>>
    BY <1>4 DEF Drain
  <2>4. QED
    <3>1. {dropped[i].key : i \in DOMAIN dropped} = {}
      BY <2>3
    <3>2. \A c \in Callers : given[c] \subseteq keys \cup gone
      BY <2>3, <3>1
    <3>3. QED
      BY <2>1, <2>2, <2>3, <3>2 DEF Resting
<1>5. CASE CallDropped
  <2>1. /\ phase = "drops" /\ phase' = "in_drop" /\ dropped # << >>
        /\ gone' = gone \cup {Head(dropped).key} /\ dropped' = Tail(dropped)
        /\ UNCHANGED <<pc, cand, given, keys, links>>
    BY <1>5 DEF CallDropped
  <2>2. \A i \in DOMAIN dropped :
            dropped[i] = Head(dropped) \/ \E j \in DOMAIN dropped' : dropped'[j] = dropped[i]
    <3> SUFFICES ASSUME NEW i \in DOMAIN dropped, i # 1
                 PROVE  \E j \in DOMAIN dropped' : dropped'[j] = dropped[i]
      BY <1>1, <2>1
    <3>1. i - 1 \in DOMAIN dropped' /\ dropped'[i - 1] = dropped[i]
      BY <1>1, <2>1
    <3>2. QED
      BY <3>1
  <2>3. {dropped[i].key : i \in DOMAIN dropped} \cup gone
           \subseteq {dropped'[i].key : i \in DOMAIN dropped'} \cup gone'
    BY <2>1, <2>2
  <2>4. QED
    BY <2>1, <2>3
<1>6. CASE SnapshotDrop \/ DroppedReturns
  BY <1>6 DEF SnapshotDrop, DroppedReturns
<1>7. CASE StopReturns
  BY <1>7 DEF StopReturns
<1>8. QED
  BY <1>2, <1>3, <1>4, <1>5, <1>6, <1>7 DEF Starting, Stopping

LEMMA NextPointer ==
    ASSUME CallersReturnFirst, TypeInv, StopInv, TableInv, PointerInv, [Next]_vars
    PROVE  PointerInv'
<1>1. CASE \/ \E slot \in AppSlots : \/ UnregisterCallback(slot)
                                     \/ \E h \in Handlers : RegisterCallback(slot, h)
           \/ \E s \in Servers : ServerFails(s)
           \/ Finished \/ UNCHANGED vars
  <2>1. UNCHANGED <<phase, pc, cand, given, keys, links, dropped, dropSnap, gone>>
    BY <1>1 DEF UnregisterCallback, RegisterCallback, SetCallback, ServerFails, Finished
  <2>2. QED
    BY <2>1 DEF PointerInv, LivePointers
<1>2. QED
  BY <1>1, ThreadPointer, ControlPointer DEF Next

RuntimeInv == TypeInv /\ TableInv /\ StopInv /\ PointerInv

LEMMA RuntimeInductive ==
    ASSUME CallersReturnFirst
    PROVE  Spec => []RuntimeInv
<1>1. Init => RuntimeInv
  BY InitType, InitTable, InitStop, InitPointer DEF RuntimeInv
<1>2. RuntimeInv /\ [Next]_vars => RuntimeInv'
  BY NextType, NextTable, NextStop, NextPointer DEF RuntimeInv
<1>3. QED
  BY <1>1, <1>2, PTL DEF Spec

(* A callback's link is in the list until the callback has returned, and   *)
(* the application learns of every link whose address discover_links()     *)
(* gave it that stop() removes it, if it wants to: for any number of       *)
(* callers and links.                                                      *)
THEOREM PointersLive ==
    ASSUME CallersReturnFirst
    PROVE  Spec => []LivePointers
<1>1. RuntimeInv => LivePointers
  BY DEF RuntimeInv, PointerInv
<1>2. QED
  BY <1>1, RuntimeInductive, PTL

(* After stop() has emptied the table there is no link, no open socket and *)
(* no thread that could make one.                                          *)
THEOREM DrainIsFinal ==
    ASSUME CallersReturnFirst
    PROVE  Spec => []NothingAfterDrain
<1>1. ASSUME RuntimeInv, phase \in Emptied
      PROVE  links = << >> /\ open = {} /\ \A t \in Threads : pc[t] \in Resting
  <2>1. links = << >> /\ LinkFds = {}
    BY <1>1 DEF RuntimeInv, PointerInv, LinkFds
  <2>2. \A t \in Threads : pc[t] \in Resting
    BY <1>1, AllRest DEF RuntimeInv, Joined
  <2>3. \A t \in Threads : hand[t] = NoFd
    BY <1>1, <2>2 DEF RuntimeInv, TypeInv, ScanLocals, Resting
  <2>4. QED
    BY <1>1, <2>1, <2>2, <2>3 DEF RuntimeInv, TableInv, SocketOwnership
<1>2. RuntimeInv => NothingAfterDrain
  BY <1>1 DEF NothingAfterDrain, Emptied, Resting
<1>3. QED
  BY <1>2, RuntimeInductive, PTL
-----------------------------------------------------------------------------
(* A device about to be reported is in the seen set and was not reported,  *)
(* and no two threads are about to report the same one.                    *)
Meeting ==
    /\ met \subseteq seen
    /\ \A t \in Threads : pc[t] = "device_cb" => KeyOf[cand[t]] \in seen \ met
    /\ \A t, u \in Threads :
          t # u /\ pc[t] = "device_cb" /\ pc[u] = "device_cb" => KeyOf[cand[t]] # KeyOf[cand[u]]

(* The same for links about to be announced, all of which are in the table. *)
Telling ==
    /\ phase \notin Emptied => told \subseteq keys
    /\ \A t \in Threads : pc[t] = "link_cb" => KeyOf[cand[t]] \notin told
    /\ \A t, u \in Threads :
          t # u /\ pc[t] = "link_cb" /\ pc[u] = "link_cb" => KeyOf[cand[t]] # KeyOf[cand[u]]

(* The links still to be reported dropped are different ones, and were not *)
(* reported.                                                               *)
Dropping ==
    /\ phase \notin Emptied => gone = {}
    /\ \A i \in DOMAIN dropped : dropped[i].key \notin gone
    /\ \A i, j \in DOMAIN dropped : i # j => dropped[i].key # dropped[j].key

DirectoryInv == Meeting /\ Telling /\ Dropping

LEMMA InitDirectory == Init => DirectoryInv
BY ConstantsAssumption DEF Init, DirectoryInv, Meeting, Telling, Dropping, Threads
-----------------------------------------------------------------------------
LEMMA ScanMeeting ==
    ASSUME NEW t \in Threads, TypeInv, Meeting, Scan(t)
    PROVE  Meeting'
<1>1. /\ pc \in [Threads -> ScanPoints \cup DiscPoints \cup CallPoints]
      /\ cand \in [Threads -> Candidates \cup {NoCandidate}]
      /\ snap \in [Threads -> Handlers \cup {NoHandler}]
  BY DEF TypeInv, TypeOK
<1>2. CASE ConsiderDevice(t)
  <2>1. PICK c \in todo[t] :
           /\ cand' = [cand EXCEPT ![t] = c] /\ seen' = seen \cup {KeyOf[c]}
           /\ \/ pc' = [pc EXCEPT ![t] = "decide"]
              \/ pc' = [pc EXCEPT ![t] = "device_cb"] /\ KeyOf[c] \notin seen
    BY <1>2 DEF ConsiderDevice
  <2>2. met' = met
    BY <1>2 DEF ConsiderDevice
  <2>3. QED
    BY <1>1, <2>1, <2>2 DEF Meeting
<1>3. CASE CallDevice(t)
  BY <1>1, <1>3 DEF CallDevice, Meeting
<1>4. CASE ~ConsiderDevice(t) /\ ~CallDevice(t)
  <2>1. UNCHANGED <<met, seen>>
    BY <1>4 DEF Scan, ScanBluetooth, ScanWifi, DeviceReturns, SkipDevice, OpenSocket,
                HandshakeFails, HandshakeSucceeds, DiscardLink, PublishLink, CallLink, LinkReturns
  <2>2. \A u \in Threads : pc'[u] = "device_cb" => pc[u] = "device_cb" /\ cand'[u] = cand[u]
    BY <1>1, <1>4
       DEF Scan, ScanBluetooth, ScanWifi, DeviceReturns, SkipDevice, OpenSocket, NextCandidate,
           HandshakeFails, HandshakeSucceeds, DiscardLink, PublishLink, CallLink, LinkReturns
  <2>3. QED
    BY <2>1, <2>2 DEF Meeting
<1>5. QED
  BY <1>2, <1>3, <1>4

LEMMA ScanTelling ==
    ASSUME NEW t \in Threads, TypeInv, Telling, LivePointers, phase \notin Emptied, Scan(t)
    PROVE  Telling'
<1>1. /\ pc \in [Threads -> ScanPoints \cup DiscPoints \cup CallPoints]
      /\ cand \in [Threads -> Candidates \cup {NoCandidate}]
  BY DEF TypeInv, TypeOK
<1>2. phase' = phase
  BY DEF Scan, ScanBluetooth, ScanWifi, ConsiderDevice, CallDevice, DeviceReturns, SkipDevice,
         OpenSocket, HandshakeFails, HandshakeSucceeds, DiscardLink, PublishLink, CallLink,
         LinkReturns
<1>3. CASE PublishLink(t)
  BY <1>1, <1>2, <1>3 DEF PublishLink, Telling, LivePointers
<1>4. CASE CallLink(t)
  BY <1>1, <1>2, <1>4 DEF CallLink, Telling, LivePointers
<1>5. CASE ~PublishLink(t) /\ ~CallLink(t)
  <2>1. UNCHANGED <<told, keys>>
    BY <1>5 DEF Scan, ScanBluetooth, ScanWifi, ConsiderDevice, CallDevice, DeviceReturns,
                SkipDevice, OpenSocket, HandshakeFails, HandshakeSucceeds, DiscardLink, LinkReturns
  <2>2. \A u \in Threads : pc'[u] = "link_cb" => pc[u] = "link_cb" /\ cand'[u] = cand[u]
    BY <1>1, <1>5
       DEF Scan, ScanBluetooth, ScanWifi, ConsiderDevice, CallDevice, DeviceReturns, SkipDevice,
           OpenSocket, NextCandidate, HandshakeFails, HandshakeSucceeds, DiscardLink, LinkReturns
  <2>3. QED
    BY <1>2, <2>1, <2>2 DEF Telling
<1>6. QED
  BY <1>3, <1>4, <1>5

(* A scanning thread is before the drain. *)
LEMMA ScanBefore ==
    ASSUME CallersReturnFirst, NEW t \in Threads, StopInv, Scan(t)
    PROVE  phase \notin Joined
<1>1. pc[t] \notin Resting
  BY DEF Resting, Scan, ScanBluetooth, ScanWifi, ConsiderDevice, CallDevice, DeviceReturns,
         SkipDevice, OpenSocket, HandshakeFails, HandshakeSucceeds, DiscardLink, PublishLink,
         CallLink, LinkReturns
<1>2. QED
  BY <1>1, AllRest

LEMMA ScanDirectory ==
    ASSUME CallersReturnFirst, NEW t \in Threads, RuntimeInv, DirectoryInv, Scan(t)
    PROVE  DirectoryInv'
<1>1. phase \notin Emptied
  BY ScanBefore DEF RuntimeInv, Joined
<1>2. Meeting' /\ Telling'
  BY <1>1, ScanMeeting, ScanTelling DEF RuntimeInv, PointerInv, DirectoryInv
<1>3. UNCHANGED <<phase, dropped, gone>>
  BY DEF Scan, ScanBluetooth, ScanWifi, ConsiderDevice, CallDevice, DeviceReturns, SkipDevice,
         OpenSocket, HandshakeFails, HandshakeSucceeds, DiscardLink, PublishLink, CallLink,
         LinkReturns
<1>4. QED
  BY <1>2, <1>3 DEF DirectoryInv, Dropping
-----------------------------------------------------------------------------
(* Every other step of a thread, and every step of start() and stop() but  *)
(* the drain and the reports, leaves alone what the directory is about.    *)
Told == <<keys, seen, met, told, gone, dropped, cand>>

Aside == /\ UNCHANGED Told
         /\ phase' \in Emptied <=> phase \in Emptied
         /\ \A t \in Threads : pc'[t] \in {"device_cb", "link_cb"} => pc'[t] = pc[t]

LEMMA OtherThreads ==
    ASSUME TypeInv,
           \/ LoopTest \/ DiscEndsScan \/ WaitTest \/ Park \/ WaitTimesOut
           \/ \E c \in Callers : BeginDiscover(c) \/ CallerEndsScan(c) \/ Collect(c)
    PROVE  Aside
<1>1. pc \in [Threads -> ScanPoints \cup DiscPoints \cup CallPoints]
  BY DEF TypeInv, TypeOK
<1> USE DEF Aside, Told
<1>2. CASE LoopTest \/ DiscEndsScan \/ WaitTest \/ Park \/ WaitTimesOut
  BY <1>1, <1>2 DEF LoopTest, DiscEndsScan, WaitTest, Park, WaitTimesOut
<1>3. ASSUME NEW c \in Callers, BeginDiscover(c) \/ CallerEndsScan(c) \/ Collect(c) PROVE Aside
  BY <1>1, <1>3 DEF BeginDiscover, CallerEndsScan, Collect
<1>4. QED
  BY <1>2, <1>3

LEMMA OtherControl ==
    ASSUME TypeInv,
           \/ \E slot \in AppSlots : \/ UnregisterCallback(slot)
                                     \/ \E h \in Handlers : RegisterCallback(slot, h)
           \/ \E s \in Servers : ServerFails(s)
           \/ Starting \/ Stop \/ Notify \/ Join \/ SnapshotDrop \/ DroppedReturns
           \/ Finished \/ UNCHANGED vars
    PROVE  Aside
<1>1. pc \in [Threads -> ScanPoints \cup DiscPoints \cup CallPoints]
  BY DEF TypeInv, TypeOK
<1> USE DEF Aside, Told, Emptied
<1>2. CASE \/ \E slot \in AppSlots : \/ UnregisterCallback(slot)
                                     \/ \E h \in Handlers : RegisterCallback(slot, h)
           \/ \E s \in Servers : ServerFails(s)
           \/ Finished \/ UNCHANGED vars
  BY <1>2 DEF UnregisterCallback, RegisterCallback, SetCallback, ServerFails, Finished
<1>3. CASE Starting \/ Stop
  BY <1>1, <1>3 DEF Starting, Start, SpawnServer, SpawnDiscovery, SpawnThrows, Stop
<1>4. CASE Notify \/ Join \/ SnapshotDrop \/ DroppedReturns
  BY <1>1, <1>4 DEF Notify, Join, SnapshotDrop, DroppedReturns
<1>5. QED
  BY <1>2, <1>3, <1>4

LEMMA AsideDirectory ==
    ASSUME DirectoryInv, Aside
    PROVE  DirectoryInv'
<1> USE DEF DirectoryInv, Aside, Told
<1>1. Meeting'
  BY DEF Meeting
<1>2. Telling'
  BY DEF Telling
<1>3. Dropping'
  BY DEF Dropping
<1>4. QED
  BY <1>1, <1>2, <1>3

LEMMA DrainDirectory ==
    ASSUME CallersReturnFirst, RuntimeInv, DirectoryInv, Drain
    PROVE  DirectoryInv'
<1>1. UNCHANGED <<scanVars, seen, met, told, gone>> /\ phase' = "snapshot" /\ phase = "drain"
      /\ dropped' = links
  BY DEF Drain
<1>2. Meeting' /\ Telling'
  BY <1>1 DEF DirectoryInv, Meeting, Telling, Emptied
<1>3. Dropping'
  BY <1>1 DEF DirectoryInv, Dropping, RuntimeInv, TableInv, LinkTable, Emptied
<1>4. QED
  BY <1>2, <1>3 DEF DirectoryInv

(* What Tail() leaves of the links to report. *)
LEMMA TailKeys ==
    ASSUME TypeInv, Dropping, dropped # << >>
    PROVE  /\ Head(dropped).key \in Keys /\ Head(dropped).key \notin gone
           /\ \E i \in DOMAIN dropped : Head(dropped).key = dropped[i].key
           /\ {Tail(dropped)[i].key : i \in DOMAIN Tail(dropped)} =
                  {dropped[i].key : i \in DOMAIN dropped} \ {Head(dropped).key}
           /\ \A i, j \in DOMAIN Tail(dropped) : i # j => Tail(dropped)[i].key # Tail(dropped)[j].key
<1>1. /\ Head(dropped) \in Link /\ Tail(dropped) \in Seq(Link) /\ Len(Tail(dropped)) = Len(dropped) - 1
      /\ \A i \in 1 .. Len(Tail(dropped)) : Tail(dropped)[i] = dropped[i + 1]
  BY HeadTailProperties DEF TypeInv, TypeOK
<1>2. /\ dropped \in Seq(Link) /\ Len(dropped) \in Nat /\ Len(dropped) # 0
      /\ Head(dropped) = dropped[1]
  BY DEF TypeInv, TypeOK
<1>3. DOMAIN dropped = 1 .. Len(dropped) /\ DOMAIN Tail(dropped) = 1 .. (Len(dropped) - 1)
  BY <1>1, <1>2
<1>4. 1 \in DOMAIN dropped
  BY <1>2, <1>3
<1>5. \A i \in DOMAIN Tail(dropped) : /\ i + 1 \in DOMAIN dropped /\ i + 1 # 1
                                      /\ Tail(dropped)[i] = dropped[i + 1]
  BY <1>1, <1>2, <1>3
<1>6. \A i \in DOMAIN dropped : i = 1 \/ (/\ i - 1 \in DOMAIN Tail(dropped)
                                          /\ Tail(dropped)[i - 1] = dropped[i])
  BY <1>1, <1>2, <1>3
<1>7. {Tail(dropped)[i].key : i \in DOMAIN Tail(dropped)} =
          {dropped[i].key : i \in DOMAIN dropped} \ {Head(dropped).key}
  <2>1. ASSUME NEW i \in DOMAIN Tail(dropped)
        PROVE  Tail(dropped)[i].key \in {dropped[j].key : j \in DOMAIN dropped} \ {Head(dropped).key}
    BY <1>2, <1>4, <1>5 DEF Dropping
  <2>2. ASSUME NEW i \in DOMAIN dropped, dropped[i].key # Head(dropped).key
        PROVE  dropped[i].key \in {Tail(dropped)[j].key : j \in DOMAIN Tail(dropped)}
    <3>1. i - 1 \in DOMAIN Tail(dropped) /\ Tail(dropped)[i - 1] = dropped[i]
      BY <1>2, <1>6, <2>2
    <3>2. QED
      BY <3>1
  <2>3. QED
    BY <2>1, <2>2
<1>8. \A i, j \in DOMAIN Tail(dropped) : i # j => i + 1 # j + 1
  BY <1>3
<1>9. \A i, j \in DOMAIN Tail(dropped) : i # j => Tail(dropped)[i].key # Tail(dropped)[j].key
  BY <1>5, <1>8 DEF Dropping
<1>10. Head(dropped).key \in Keys
  BY <1>1 DEF Link
<1>11. QED
  BY <1>2, <1>4, <1>7, <1>9, <1>10 DEF Dropping

LEMMA ReportDirectory ==
    ASSUME RuntimeInv, DirectoryInv, CallDropped \/ StopReturns
    PROVE  DirectoryInv'
<1>1. UNCHANGED <<scanVars, seen, keys, met, told>> /\ phase \in Emptied /\ phase' \in Emptied
  BY DEF CallDropped, StopReturns, Emptied
<1>2. Meeting' /\ Telling'
  BY <1>1 DEF DirectoryInv, Meeting, Telling
<1>3. CASE CallDropped
  <2>1. /\ dropped # << >> /\ dropped' = Tail(dropped)
        /\ gone' = gone \cup {Head(dropped).key}
    BY <1>3 DEF CallDropped
  <2>2. ASSUME NEW i \in DOMAIN dropped' PROVE dropped'[i].key \notin gone'
    <3>1. dropped'[i].key \in {dropped[j].key : j \in DOMAIN dropped} \ {Head(dropped).key}
      BY <2>1, TailKeys DEF RuntimeInv, DirectoryInv
    <3>2. QED
      BY <2>1, <3>1 DEF DirectoryInv, Dropping
  <2>3. \A i, j \in DOMAIN dropped' : i # j => dropped'[i].key # dropped'[j].key
    BY <2>1, TailKeys DEF RuntimeInv, DirectoryInv
  <2>4. QED
    BY <1>1, <1>2, <2>2, <2>3 DEF DirectoryInv, Dropping
<1>4. CASE StopReturns
  <2>1. dropped' = << >> /\ DOMAIN dropped' = {}
    BY <1>4 DEF StopReturns
  <2>2. QED
    BY <1>1, <1>2, <2>1 DEF DirectoryInv, Dropping
<1>5. QED
  BY <1>3, <1>4

LEMMA NextDirectory ==
    ASSUME CallersReturnFirst, RuntimeInv, DirectoryInv, [Next]_vars
    PROVE  DirectoryInv'
<1>1. TypeInv
  BY DEF RuntimeInv
<1>2. ASSUME NEW t \in Threads, Scan(t) PROVE DirectoryInv'
  BY <1>2, ScanDirectory
<1>3. QED
  BY <1>1, <1>2, OtherThreads, OtherControl, AsideDirectory, DrainDirectory, ReportDirectory
     DEF Next, Discovery, Caller, Stopping, Threads
-----------------------------------------------------------------------------
(* The steps of the directory. *)
LEMMA AsideMaps ==
    ASSUME Aside
    PROVE  UNCHANGED Directory!vars
<1>1. UNCHANGED <<keys, met, told, gone, dropped>>
  BY DEF Aside, Told
<1>2. {dropped[i].key : i \in DOMAIN dropped}' = {dropped[i].key : i \in DOMAIN dropped}
  BY <1>1
<1>3. (phase \in {"snapshot", "drops", "in_drop", "stopped"})'
          = (phase \in {"snapshot", "drops", "in_drop", "stopped"})
  <2>1. CASE phase \in Emptied
    BY <2>1 DEF Aside, Emptied
  <2>2. CASE phase \notin Emptied
    BY <2>2 DEF Aside, Emptied
  <2>3. QED
    BY <2>1, <2>2
<1>4. QED
  BY <1>1, <1>2, <1>3 DEF Directory!vars

LEMMA ScanMaps ==
    ASSUME CallersReturnFirst, NEW t \in Threads, RuntimeInv, DirectoryInv, Scan(t)
    PROVE  [Directory!Next]_(Directory!vars)
<1>1. phase \notin {"snapshot", "drops", "in_drop", "stopped"} /\ phase' = phase
      /\ dropped' = dropped /\ gone' = gone
  <2>1. phase \notin Emptied
    BY ScanBefore DEF RuntimeInv, Joined
  <2>2. QED
    BY <2>1 DEF Emptied, Scan, ScanBluetooth, ScanWifi, ConsiderDevice, CallDevice, DeviceReturns,
                SkipDevice, OpenSocket, HandshakeFails, HandshakeSucceeds, DiscardLink,
                PublishLink, CallLink, LinkReturns
<1>2. {dropped[i].key : i \in DOMAIN dropped}' = {dropped[i].key : i \in DOMAIN dropped}
  BY <1>1
<1>3. pc[t] \in VisitPoints => KeyOf[cand[t]] \in Keys
  BY ConstantsAssumption DEF RuntimeInv, TypeInv, TypeOK, ScanLocals
<1>4. CASE CallDevice(t)
  <2>1. Directory!Meet(KeyOf[cand[t]])
    BY <1>1, <1>2, <1>4 DEF CallDevice, DirectoryInv, Meeting, Directory!Meet
  <2>2. QED
    BY <1>3, <1>4, <2>1 DEF CallDevice, VisitPoints, Directory!Next
<1>5. CASE PublishLink(t)
  <2>1. Directory!Publish(KeyOf[cand[t]])
    BY <1>1, <1>2, <1>5 DEF PublishLink, Directory!Publish
  <2>2. QED
    BY <1>3, <1>5, <2>1 DEF PublishLink, VisitPoints, Directory!Next
<1>6. CASE CallLink(t)
  <2>1. Directory!Announce(KeyOf[cand[t]])
    BY <1>1, <1>2, <1>6 DEF CallLink, DirectoryInv, Telling, RuntimeInv, PointerInv, LivePointers,
                            Directory!Announce
  <2>2. QED
    BY <1>3, <1>6, <2>1 DEF CallLink, VisitPoints, Directory!Next
<1>7. CASE ~CallDevice(t) /\ ~PublishLink(t) /\ ~CallLink(t)
  <2>1. UNCHANGED <<keys, met, told>>
    BY <1>7 DEF Scan, ScanBluetooth, ScanWifi, ConsiderDevice, DeviceReturns, SkipDevice,
                OpenSocket, HandshakeFails, HandshakeSucceeds, DiscardLink, LinkReturns
  <2>2. QED
    BY <1>1, <1>2, <2>1 DEF Directory!vars
<1>8. QED
  BY <1>4, <1>5, <1>6, <1>7

LEMMA DrainMaps ==
    ASSUME RuntimeInv, Drain
    PROVE  Directory!Next
<1>1. /\ phase = "drain" /\ phase' = "snapshot" /\ keys' = {} /\ dropped' = links
      /\ UNCHANGED <<met, told, gone>>
  BY DEF Drain
<1>2. {dropped[i].key : i \in DOMAIN dropped}' = keys
  BY <1>1 DEF RuntimeInv, TableInv, LinkTable, LinkKeys
<1>3. Directory!Close
  BY <1>1, <1>2 DEF Directory!Close
<1>4. QED
  BY <1>3 DEF Directory!Next

LEMMA ReportMaps ==
    ASSUME RuntimeInv, DirectoryInv, CallDropped \/ StopReturns
    PROVE  Directory!Next
<1>1. /\ UNCHANGED <<keys, met, told>>
      /\ phase \in {"snapshot", "drops", "in_drop", "stopped"}
      /\ phase' \in {"snapshot", "drops", "in_drop", "stopped"}
  BY DEF CallDropped, StopReturns
<1>2. CASE CallDropped
  <2>1. /\ dropped # << >> /\ dropped' = Tail(dropped)
        /\ gone' = gone \cup {Head(dropped).key}
    BY <1>2 DEF CallDropped
  <2>2. PICK k \in Keys : k = Head(dropped).key
    BY <2>1, TailKeys DEF RuntimeInv, DirectoryInv
  <2>3. /\ k \in {dropped[i].key : i \in DOMAIN dropped} \ gone
        /\ {dropped[i].key : i \in DOMAIN dropped}' = {dropped[i].key : i \in DOMAIN dropped} \ {k}
    BY <2>1, <2>2, TailKeys DEF RuntimeInv, DirectoryInv
  <2>4. Directory!Retract(k)
    BY <1>1, <2>1, <2>2, <2>3 DEF Directory!Retract
  <2>5. QED
    BY <2>4 DEF Directory!Next
<1>3. CASE StopReturns
  <2>1. dropped' = << >> /\ DOMAIN dropped' = {} /\ gone' = gone
    BY <1>3 DEF StopReturns
  <2>2. {dropped[i].key : i \in DOMAIN dropped}' = {}
    BY <2>1
  <2>3. Directory!Forget
    BY <1>1, <2>1, <2>2 DEF Directory!Forget
  <2>4. QED
    BY <2>3 DEF Directory!Next
<1>4. QED
  BY <1>2, <1>3

LEMMA NextMaps ==
    ASSUME CallersReturnFirst, RuntimeInv, DirectoryInv, [Next]_vars
    PROVE  [Directory!Next]_(Directory!vars)
<1>1. TypeInv
  BY DEF RuntimeInv
<1>2. ASSUME NEW t \in Threads, Scan(t) PROVE [Directory!Next]_(Directory!vars)
  BY <1>2, ScanMaps
<1>3. QED
  BY <1>1, <1>2, OtherThreads, OtherControl, AsideMaps, DrainMaps, ReportMaps
     DEF Next, Discovery, Caller, Stopping, Threads

(* The application sees a directory of links: each link published once,    *)
(* announced at most once and while it is there, and retracted at most     *)
(* once, after stop() emptied the table.                                   *)
THEOREM DirectoryImplemented ==
    ASSUME CallersReturnFirst
    PROVE  Spec => ImplementsDirectory
<1>1. Init => Directory!Init
  BY DEF Init, Directory!Init
<1>2. Init => DirectoryInv
  BY InitDirectory
<1>3. RuntimeInv /\ DirectoryInv /\ [Next]_vars => DirectoryInv' /\ [Directory!Next]_(Directory!vars)
  BY NextDirectory, NextMaps
<1>4. QED
  BY <1>1, <1>2, <1>3, RuntimeInductive, PTL DEF Spec, ImplementsDirectory, Directory!Spec
=============================================================================
