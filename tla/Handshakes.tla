----------------------------- MODULE Handshakes -----------------------------
(***************************************************************************)
(* The two handshakes of one runtime.  try_handshake() takes a candidate   *)
(* to the one of its radio, and start() gives each radio its server; both  *)
(* servers leave their loops when running_ is cleared.  They share nothing *)
(* else, so a behaviour is about the one radio it starts with.             *)
(***************************************************************************)
EXTENDS L2capHandshake

CONSTANTS WifiPeers, Ports, NoPort

ASSUME HandshakesAssumption == NoPort \notin Ports

VARIABLES
    radio,                          \* "bluetooth" or "wifi"
    upc, uport, net, serving, heard \* the variables of UdpHandshake

Udp == INSTANCE UdpHandshake WITH Clients <- WifiPeers, pc <- upc, port <- uport

udpVars       == <<upc, uport, net, serving, heard>>
l2capVars     == <<pc, conn, near, far, data, queue, spc, cur, answered>>
handshakeVars == <<radio, running, udpVars, l2capVars>>

HandshakesTypeOK == radio \in {"bluetooth", "wifi"} /\ TypeOK /\ Udp!TypeOK

HandshakesInit == radio \in {"bluetooth", "wifi"} /\ Init /\ Udp!Init
-----------------------------------------------------------------------------
OnBluetooth(step) == radio = "bluetooth" /\ step /\ UNCHANGED <<radio, udpVars>>
OnWifi(step)      == radio = "wifi" /\ step /\ UNCHANGED <<radio, l2capVars>>

HandshakesNext == OnBluetooth(Next) \/ OnWifi(Udp!Next)

(* The server threads run, and their timeouts and those of the attempts    *)
(* pass.  Discovery tries again every 5 s, and a network that is used      *)
(* again and again now and then delivers in both directions.               *)
HandshakesFairness ==
    /\ WF_handshakeVars(OnBluetooth(Server))
    /\ WF_handshakeVars(OnBluetooth(~running /\ LeaveLoop))
    /\ WF_handshakeVars(OnWifi(~running /\ Udp!ServerLeaves))
    /\ \A c \in Clients : WF_handshakeVars(OnBluetooth(pc[c] = "waiting" /\ GiveUp(c)))
    /\ \A c \in WifiPeers :
         /\ WF_handshakeVars(OnWifi(Udp!Attempt(c)))
         /\ WF_handshakeVars(OnWifi(Udp!TimesOut(c)))
         /\ SF_handshakeVars(OnWifi(Udp!ReceiveReply(c)))
         /\ \A p \in Ports : SF_handshakeVars(OnWifi(Udp!ServerReplies(c, p)))

HandshakesSpec == HandshakesInit /\ [][HandshakesNext]_handshakeVars /\ HandshakesFairness
-----------------------------------------------------------------------------
(* The properties of UdpHandshake, for the Wi-Fi peers: a link is          *)
(* published only if the server heard its very socket ...                  *)
PublishedWasHeard == Udp!PublishedWasHeard

(* ... every attempt ends, whatever the network does to it ...             *)
AttemptEnds == \A c \in WifiPeers : upc[c] = "waiting" ~> upc[c] # "waiting"

(* ... and if the server never leaves its loop, neither stopped nor by an  *)
(* error of recvmsg(), and once the network is quick enough for the 3 s,   *)
(* every peer gets its link, whatever came before.                         *)
EventuallyPublished ==
    (radio = "wifi" /\ []serving /\ <>[][\A c \in WifiPeers : ~Udp!Hasty(c)]_handshakeVars)
        => \A c \in WifiPeers : <>(upc[c] = "published")

(* Clearing running_ ends either server, whoever is talking to it.         *)
ServersStop == ~running ~> IF radio = "wifi" THEN ~serving ELSE spc = "exited"
=============================================================================
