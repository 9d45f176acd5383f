-------------------------- MODULE HandshakesProofs --------------------------
(***************************************************************************)
(* Proofs about the two handshakes of a runtime, for any number of peers,  *)
(* connections and ports, and any length of the server's queue.            *)
(***************************************************************************)
EXTENDS Handshakes, SequenceTheorems, TLAPS

USE DEF handshakeVars, l2capVars, udpVars

(* Bluetooth: who has which connection.  The server has one while it is    *)
(* between accept() and close(), a client while it is not idle, and no two *)
(* clients have the same.                                                  *)
Holding ==
    /\ cur # None <=> spc \in {"recv", "send", "close"}
    /\ \A c \in Clients : /\ pc[c] = "idle" <=> conn[c] = None
                          /\ conn[c] # None => near[conn[c]] = "open"
                          /\ \A d \in Clients : c # d /\ conn[c] # None => conn[c] # conn[d]

(* A reply under way on a connection was sent on it. *)
RepliesSent == \A k \in Conns : "reply" \in data[k] => k \in answered

L2capInv == TypeOK /\ Holding /\ ServerEnds /\ RepliesSent /\ PublishedWasAnswered

(* Wi-Fi: a reply under way goes to a socket that the server heard from.   *)
RepliesHeard == \A c \in WifiPeers, p \in Ports : Udp!Reply(c, p) \in net => <<c, p>> \in heard

UdpInv == Udp!TypeOK /\ RepliesHeard /\ PublishedWasHeard

IInv == radio \in {"bluetooth", "wifi"} /\ L2capInv /\ UdpInv
-----------------------------------------------------------------------------
(* What accept() and connect() do to the connections in the queue.         *)
LEMMA QueueGrows ==
    ASSUME NEW q \in Seq(Conns), NEW k \in Conns, k \notin ToSet(q), IsInjective(q)
    PROVE  /\ Append(q, k) \in Seq(Conns) /\ Len(Append(q, k)) = Len(q) + 1
           /\ ToSet(Append(q, k)) = ToSet(q) \cup {k}
           /\ IsInjective(Append(q, k))
<1>1. /\ Append(q, k) \in Seq(Conns) /\ Len(Append(q, k)) = Len(q) + 1
      /\ \A i \in 1 .. Len(q) : Append(q, k)[i] = q[i]
      /\ Append(q, k)[Len(q) + 1] = k
  BY AppendProperties
<1>2. DOMAIN Append(q, k) = 1 .. (Len(q) + 1) /\ DOMAIN q = 1 .. Len(q) /\ Len(q) \in Nat
  BY <1>1
<1>3. DOMAIN Append(q, k) = DOMAIN q \cup {Len(q) + 1}
  BY <1>2
<1>4. ToSet(Append(q, k)) = ToSet(q) \cup {k}
  BY <1>1, <1>2, <1>3 DEF ToSet
<1>5. IsInjective(Append(q, k))
  BY <1>1, <1>2, <1>3 DEF ToSet, IsInjective
<1>6. QED
  BY <1>1, <1>4, <1>5

LEMMA QueueShrinks ==
    ASSUME NEW q \in Seq(Conns), q # << >>, IsInjective(q)
    PROVE  /\ Head(q) \in Conns /\ Tail(q) \in Seq(Conns) /\ Len(Tail(q)) < Len(q)
           /\ Head(q) \in ToSet(q)
           /\ ToSet(Tail(q)) = ToSet(q) \ {Head(q)}
           /\ IsInjective(Tail(q))
<1>1. /\ Head(q) \in Conns /\ Tail(q) \in Seq(Conns) /\ Len(Tail(q)) = Len(q) - 1
      /\ \A i \in 1 .. Len(Tail(q)) : Tail(q)[i] = q[i + 1]
  BY HeadTailProperties
<1>2. Len(q) \in Nat /\ Len(q) # 0 /\ Head(q) = q[1]
  OBVIOUS
<1>3. DOMAIN q = 1 .. Len(q) /\ DOMAIN Tail(q) = 1 .. (Len(q) - 1)
  BY <1>1, <1>2
<1>4. \A i \in DOMAIN q : i = 1 \/ (i - 1 \in DOMAIN Tail(q) /\ Tail(q)[i - 1] = q[i])
  BY <1>1, <1>2, <1>3
<1>5. \A i \in DOMAIN Tail(q) : i + 1 \in DOMAIN q /\ i + 1 # 1 /\ Tail(q)[i] = q[i + 1]
  BY <1>1, <1>2, <1>3
<1>6. 1 \in DOMAIN q
  BY <1>2, <1>3
<1>7. ToSet(Tail(q)) = ToSet(q) \ {Head(q)}
  <2>1. ASSUME NEW k \in ToSet(Tail(q)) PROVE k \in ToSet(q) \ {Head(q)}
    <3>1. PICK i \in DOMAIN Tail(q) : k = Tail(q)[i]
      BY DEF ToSet
    <3>2. QED
      BY <1>2, <1>5, <1>6, <3>1 DEF ToSet, IsInjective
  <2>2. ASSUME NEW k \in ToSet(q) \ {Head(q)} PROVE k \in ToSet(Tail(q))
    <3>1. PICK i \in DOMAIN q : k = q[i]
      BY DEF ToSet
    <3>2. QED
      BY <1>2, <1>4, <3>1 DEF ToSet
  <2>3. QED
    BY <2>1, <2>2
<1>8. IsInjective(Tail(q))
  <2>1. ASSUME NEW i \in DOMAIN Tail(q), NEW j \in DOMAIN Tail(q), Tail(q)[i] = Tail(q)[j]
        PROVE  i = j
    <3>1. i + 1 = j + 1
      BY <1>5, <2>1 DEF IsInjective
    <3>2. QED
      BY <1>3, <3>1
  <2>2. QED
    BY <2>1 DEF IsInjective
<1>9. Head(q) \in ToSet(q)
  BY <1>2, <1>6 DEF ToSet
<1>10. Len(Tail(q)) < Len(q)
  BY <1>1, <1>2
<1>11. QED
  BY <1>1, <1>7, <1>8, <1>9, <1>10
-----------------------------------------------------------------------------
LEMMA InitInv == HandshakesInit => IInv
<1> SUFFICES ASSUME HandshakesInit PROVE IInv
  OBVIOUS
<1>1. queue = << >> /\ queue \in Seq(Conns) /\ Len(queue) = 0 /\ DOMAIN queue = {}
  BY DEF HandshakesInit, Init
<1>2. L2capInv
  BY <1>1, L2capAssumption
     DEF HandshakesInit, Init, L2capInv, TypeOK, Holding, ServerEnds, RepliesSent,
         PublishedWasAnswered, ToSet, IsInjective
<1>3. UdpInv
  BY HandshakesAssumption
     DEF HandshakesInit, Udp!Init, UdpInv, Udp!TypeOK, RepliesHeard, PublishedWasHeard,
         Udp!PublishedWasHeard
<1>4. QED
  BY <1>2, <1>3 DEF HandshakesInit, IInv

(* A client's steps. *)
LEMMA ConnectInv ==
    ASSUME L2capInv, NEW c \in Clients, Connect(c)
    PROVE  L2capInv'
<1> USE L2capAssumption DEF L2capInv, TypeOK, Holding, ServerEnds
<1>1. PICK k \in Conns :
         /\ near[k] = "closed" /\ far[k] = "closed"
         /\ conn' = [conn EXCEPT ![c] = k]
         /\ near' = [near EXCEPT ![k] = "open"]
         /\ far' = [far EXCEPT ![k] = "queued"]
         /\ data' = [data EXCEPT ![k] = {}]
         /\ queue' = Append(queue, k)
         /\ answered' = answered \ {k}
  BY DEF Connect
<1>2. k \notin ToSet(queue)
  BY <1>1
<1>3. /\ queue' \in Seq(Conns) /\ Len(queue') = Len(queue) + 1
      /\ ToSet(queue') = ToSet(queue) \cup {k} /\ IsInjective(queue')
  BY <1>1, <1>2, QueueGrows
<1>4. Len(queue') <= Backlog
  BY <1>3 DEF Connect
<1>5. TypeOK'
  BY <1>1, <1>3, <1>4 DEF Connect
<1>6. \A d \in Clients : conn[d] # k
  BY <1>1
<1>7. Holding'
  BY <1>1, <1>6 DEF Connect
<1>8. ServerEnds'
  BY <1>1, <1>3 DEF Connect
<1>9. RepliesSent' /\ PublishedWasAnswered'
  BY <1>1, <1>6 DEF Connect, RepliesSent, PublishedWasAnswered
<1>10. QED
  BY <1>5, <1>7, <1>8, <1>9

LEMMA ClientInv ==
    ASSUME L2capInv, NEW c \in Clients, SendHello(c) \/ ReceiveReply(c) \/ GiveUp(c)
    PROVE  L2capInv'
<1> USE L2capAssumption DEF L2capInv, TypeOK, Holding
<1>1. conn[c] \in Conns
  BY DEF SendHello, ReceiveReply, GiveUp
<1>2. ServerEnds'
  BY DEF SendHello, ReceiveReply, GiveUp, ServerEnds
<1>3. CASE SendHello(c)
  BY <1>1, <1>2, <1>3 DEF SendHello, RepliesSent, PublishedWasAnswered
<1>4. CASE ReceiveReply(c)
  BY <1>1, <1>2, <1>4 DEF ReceiveReply, RepliesSent, PublishedWasAnswered
<1>5. CASE GiveUp(c)
  BY <1>1, <1>2, <1>5 DEF GiveUp, RepliesSent, PublishedWasAnswered
<1>6. QED
  BY <1>3, <1>4, <1>5

(* The server's steps. *)
LEMMA ServerInv ==
    ASSUME L2capInv, Server
    PROVE  L2capInv'
<1> USE L2capAssumption DEF L2capInv, TypeOK, Holding
<1>1. CASE Accept
  <2>1. /\ Head(queue) \in Conns /\ Tail(queue) \in Seq(Conns) /\ Len(Tail(queue)) < Len(queue)
        /\ Head(queue) \in ToSet(queue) /\ ToSet(Tail(queue)) = ToSet(queue) \ {Head(queue)}
        /\ IsInjective(Tail(queue))
    BY <1>1, QueueShrinks DEF Accept, ServerEnds
  <2>2. Len(Tail(queue)) <= Backlog
    BY <2>1
  <2>3. cur = None /\ queue' = Tail(queue) /\ cur' = Head(queue)
    BY <1>1 DEF Accept
  <2>4. ServerEnds'
    BY <1>1, <2>1, <2>3 DEF Accept, ServerEnds
  <2>5. QED
    BY <1>1, <2>1, <2>2, <2>3, <2>4 DEF Accept, RepliesSent, PublishedWasAnswered
<1>2. CASE ReceiveHello
  BY <1>2 DEF ReceiveHello, ServerEnds, RepliesSent, PublishedWasAnswered
<1>3. CASE ReceiveNothing
  BY <1>3 DEF ReceiveNothing, ServerEnds, RepliesSent, PublishedWasAnswered
<1>4. CASE SendReply
  BY <1>4 DEF SendReply, ServerEnds, RepliesSent, PublishedWasAnswered
<1>5. CASE CloseClient
  BY <1>5 DEF CloseClient, ServerEnds, RepliesSent, PublishedWasAnswered
<1>6. QED
  BY <1>1, <1>2, <1>3, <1>4, <1>5 DEF Server

LEMMA LeaveInv ==
    ASSUME L2capInv, StopServer \/ LeaveLoop
    PROVE  L2capInv'
<1> USE L2capAssumption DEF L2capInv, TypeOK, Holding
<1>1. CASE StopServer
  BY <1>1 DEF StopServer, ServerEnds, RepliesSent, PublishedWasAnswered
<1>2. CASE LeaveLoop
  <2>1. queue' = << >> /\ queue' \in Seq(Conns) /\ Len(queue') = 0 /\ DOMAIN queue' = {}
    BY <1>2 DEF LeaveLoop
  <2>2. ToSet(queue') = {} /\ IsInjective(queue')
    BY <2>1 DEF ToSet, IsInjective
  <2>3. ServerEnds'
    BY <1>2, <2>2 DEF LeaveLoop, ServerEnds
  <2>4. QED
    BY <1>2, <2>1, <2>3 DEF LeaveLoop, RepliesSent, PublishedWasAnswered
<1>3. QED
  BY <1>1, <1>2
-----------------------------------------------------------------------------
(* A step of the Wi-Fi handshake: only the server makes replies, and it    *)
(* makes them for the socket it has just heard from.                       *)
LEMMA UdpStepInv ==
    ASSUME UdpInv, Udp!Next
    PROVE  UdpInv'
<1> USE HandshakesAssumption
        DEF UdpInv, Udp!TypeOK, RepliesHeard, PublishedWasHeard, Udp!PublishedWasHeard,
            Udp!Datagrams, Udp!Hello, Udp!Reply
<1>1. ASSUME NEW c \in WifiPeers, Udp!Attempt(c) PROVE UdpInv'
  BY <1>1 DEF Udp!Attempt
<1>2. ASSUME NEW c \in WifiPeers, Udp!ReceiveReply(c) PROVE UdpInv'
  BY <1>2 DEF Udp!ReceiveReply
<1>3. ASSUME NEW c \in WifiPeers, Udp!TimesOut(c) PROVE UdpInv'
  BY <1>3 DEF Udp!TimesOut
<1>4. ASSUME NEW c \in WifiPeers, NEW p \in Ports, Udp!ServerReplies(c, p) PROVE UdpInv'
  BY <1>4 DEF Udp!ServerReplies
<1>5. CASE Udp!StopServer \/ Udp!ServerLeaves \/ Udp!Lose
  BY <1>5 DEF Udp!StopServer, Udp!ServerLeaves, Udp!Lose
<1>6. QED
  BY <1>1, <1>2, <1>3, <1>4, <1>5 DEF Udp!Next

(* running is the one variable the two share. *)
LEMMA StepInv == IInv /\ [HandshakesNext]_handshakeVars => IInv'
<1> SUFFICES ASSUME IInv, [HandshakesNext]_handshakeVars PROVE IInv'
  OBVIOUS
<1> USE DEF IInv
<1>1. ASSUME UNCHANGED udpVars, running' \in BOOLEAN PROVE UdpInv'
  BY <1>1 DEF UdpInv, Udp!TypeOK, RepliesHeard, PublishedWasHeard, Udp!PublishedWasHeard
<1>2. ASSUME UNCHANGED l2capVars, running' \in BOOLEAN PROVE L2capInv'
  BY <1>2 DEF L2capInv, TypeOK, Holding, ServerEnds, RepliesSent, PublishedWasAnswered
<1>3. CASE OnBluetooth(Next)
  <2>1. L2capInv'
    BY <1>3, ConnectInv, ClientInv, ServerInv, LeaveInv DEF OnBluetooth, Next
  <2>2. UdpInv'
    BY <1>1, <1>3, <2>1 DEF OnBluetooth, L2capInv, TypeOK
  <2>3. QED
    BY <1>3, <2>1, <2>2 DEF OnBluetooth
<1>4. CASE OnWifi(Udp!Next)
  <2>1. UdpInv'
    BY <1>4, UdpStepInv DEF OnWifi
  <2>2. L2capInv'
    BY <1>2, <1>4, <2>1 DEF OnWifi, UdpInv, Udp!TypeOK
  <2>3. QED
    BY <1>4, <2>1, <2>2 DEF OnWifi
<1>5. CASE UNCHANGED handshakeVars
  BY <1>1, <1>2, <1>5 DEF L2capInv, TypeOK
<1>6. QED
  BY <1>3, <1>4, <1>5 DEF HandshakesNext

LEMMA Inductive == HandshakesSpec => []IInv
  BY InitInv, StepInv, PTL DEF HandshakesSpec
-----------------------------------------------------------------------------
(* The attempts and the servers of both handshakes keep their types.       *)
THEOREM TypeCorrect == HandshakesSpec => []HandshakesTypeOK
<1>1. IInv => HandshakesTypeOK
  BY DEF IInv, L2capInv, UdpInv, HandshakesTypeOK
<1>2. QED
  BY <1>1, Inductive, PTL

(* attempt_wifi_handshake() makes no link but on a reply to a socket that  *)
(* udp_server_loop() received from, whatever the network does.             *)
THEOREM WifiHeard == HandshakesSpec => []PublishedWasHeard
<1>1. IInv => PublishedWasHeard
  BY DEF IInv, UdpInv
<1>2. QED
  BY <1>1, Inductive, PTL

(* attempt_bluetooth_handshake() makes no link but on a connection that    *)
(* bluetooth_server_loop() replied on, whatever earlier attempts left.     *)
THEOREM BluetoothAnswered == HandshakesSpec => []PublishedWasAnswered
<1>1. IInv => PublishedWasAnswered
  BY DEF IInv, L2capInv
<1>2. QED
  BY <1>1, Inductive, PTL

(* bluetooth_server_loop() holds the connection it serves and those in its *)
(* queue, each once, and no other, up to and after its end.                *)
THEOREM ServerHoldsNoMore == HandshakesSpec => []ServerEnds
<1>1. IInv => ServerEnds
  BY DEF IInv, L2capInv
<1>2. QED
  BY <1>1, Inductive, PTL
=============================================================================
