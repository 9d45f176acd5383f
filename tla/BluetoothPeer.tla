---------------------------- MODULE BluetoothPeer ----------------------------
(***************************************************************************)
(* BluetoothAdapter: both devices send a request to the other's            *)
(* BRATISLAVA_PORT in a thread of conn(), while the device of the lower    *)
(* address listens and the other one connects.                             *)
(***************************************************************************)
EXTENDS PeerSockets

CONSTANT Hash   \* the first two bytes of the SHA-256 of each device's address

ASSUME BluetoothAssumption == Hash \in [Adapters -> Nat]

PORT_RANGE_START == 4098

(* Mutant: the port is not made odd. *)
GenerateEvenPort(mac) == PORT_RANGE_START + (Hash[mac] % 128) * 2

(* The hash is mapped to the range and made odd. *)
GenerateUniquePort(mac) == PORT_RANGE_START + (Hash[mac] % 128) * 2 + 1

BtLocalPort(a)  == GenerateUniquePort(Peer(a))
BtRemotePort(a) == GenerateUniquePort(a)
BtIsListener(a) == Peer(a) > a

(* BluetoothAdapter(): three sockets and the two addresses. *)
BluetoothAdapter(a) ==
    [pc |-> "idle", late |-> FALSE, held |-> Free,
     sockfd |-> DataFd, fds |-> [n \in Fds |-> IF n <= 3 THEN Fresh ELSE Free],
     connected |-> FALSE, registered |-> FALSE, rpc |-> "none",
     io |-> "none", timed |-> FALSE,
     dpc |-> "none", stale |-> FALSE, overlap |-> FALSE,
     local |-> BtLocalPort(a), remote |-> BtRemotePort(a)]

(* conn() starts the thread that sends the request.                        *)
BtConn(a) ==
    LET s == ad[a] IN
      /\ radio = "bluetooth" /\ MayConnect(s)
      /\ Becomes(a, [s EXCEPT !.connected = FALSE, !.rpc = "loop",
                              !.pc = IF BtIsListener(a) THEN "bind" ELSE "loop"])

BtRequestThread(a) == radio = "bluetooth" /\ SendConnectionRequest(a)

BtMain(a) == radio = "bluetooth" /\ (ConnectToPeer(a) \/ ListenForPeer(a) \/ Conclude(a))

BtExpire(a)  == radio = "bluetooth" /\ Expire(a)
BtDisconn(a) == radio = "bluetooth" /\ (Disconn(a) \/ InterruptClose(a) \/ InterruptCreate(a))
BtDestroy(a) == radio = "bluetooth" /\ (DestroyLocks(a) \/ Destroy(a))
BtSend(a)    == radio = "bluetooth" /\ Send(a)
BtRecv(a)    == radio = "bluetooth" /\ Recv(a)
=============================================================================
