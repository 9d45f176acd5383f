------------------------------ MODULE WifiPeer ------------------------------
(***************************************************************************)
(* WifiAdapter: the device that is an access point listens on the port it  *)
(* was given for the other one; the other asks the access point's service  *)
(* on BRATISLAVA_PORT for that port and connects to it.  The code of       *)
(* connecting, listening and requesting is a copy of BluetoothAdapter's.   *)
(***************************************************************************)
EXTENDS PeerSockets

CONSTANTS
    LinkPort,   \* the port the service gives the two devices
    NoPort      \* htons(-1)

WifiDeviceType(a) == IF a = 1 THEN "router" ELSE "adapter"

(* WifiAdapter(): no address is known yet. *)
WifiAdapter(a) ==
    [pc |-> "idle", late |-> FALSE, held |-> Free,
     sockfd |-> DataFd, fds |-> [n \in Fds |-> IF n <= 3 THEN Fresh ELSE Free],
     connected |-> FALSE, registered |-> FALSE, rpc |-> "none",
     io |-> "none", timed |-> FALSE,
     dpc |-> "none", stale |-> FALSE, overlap |-> FALSE,
     local |-> NoPort, remote |-> NoPort]

(* The registry gives the router its port; until it does, there is none.   *)
WifiLocalPort == IF given THEN LinkPort ELSE NoPort

(* conn(): the router takes its port from the registry and listens, the    *)
(* adapter sends a request first.                                          *)
WifiConn(a) ==
    LET s == ad[a] IN
      /\ radio = "wifi" /\ MayConnect(s)
      /\ Becomes(a, IF WifiDeviceType(a) = "router"
                    THEN [s EXCEPT !.connected = FALSE, !.pc = "bind",
                                   !.local = WifiLocalPort]
                    ELSE [s EXCEPT !.connected = FALSE, !.pc = "request", !.rpc = "loop"])

WifiSendConnectionRequest(a) == radio = "wifi" /\ SendConnectionRequest(a)

(* No gateway is found, or the request failed: conn() returns at once.     *)
WifiRequestFails(a) ==
    /\ radio = "wifi" /\ ad[a].pc = "request" /\ ad[a].rpc \in {"loop", "failed"}
    /\ Becomes(a, [ad[a] EXCEPT !.pc = "join", !.rpc = "none"])

SetupRemoteAddr(s, port) == [s EXCEPT !.remote = port]

(* The address, the SSID and the port's low byte go to the service, and    *)
(* the port of the link comes back, or the exchange fails.                 *)
WifiExchange(a) ==
    LET s == ad[a] IN
      /\ radio = "wifi" /\ s.pc = "request" /\ s.rpc = "done"
      /\ \/ /\ ad' = [ad EXCEPT ![a] = [SetupRemoteAddr(s, LinkPort) EXCEPT !.pc = "loop", !.rpc = "none"]]
            /\ given' = TRUE
            /\ UNCHANGED <<radio, queue>>
         \/ Becomes(a, [s EXCEPT !.pc = "join", !.rpc = "none"])

WifiConnectToPeer(a) == radio = "wifi" /\ ConnectToPeer(a)
WifiListenForPeer(a) == radio = "wifi" /\ ListenForPeer(a)
WifiExpire(a)        == radio = "wifi" /\ Expire(a)
WifiConclude(a)      == radio = "wifi" /\ Conclude(a)
WifiDisconn(a)       == radio = "wifi" /\ (Disconn(a) \/ InterruptClose(a) \/ InterruptCreate(a))
WifiDestroy(a)       == radio = "wifi" /\ (DestroyLocks(a) \/ Destroy(a))
WifiSend(a)          == radio = "wifi" /\ Send(a)
WifiRecv(a)          == radio = "wifi" /\ Recv(a)
=============================================================================
