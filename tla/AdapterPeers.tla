---------------------------- MODULE AdapterPeers ----------------------------
(***************************************************************************)
(* The two adapters of a Bluetooth or of a Wi-Fi link, each used by a      *)
(* thread that connects and disconnects and by one that destroys it.       *)
(***************************************************************************)
EXTENDS BluetoothPeer, WifiPeer

(* A PSM is odd. *)
LinkPorts == {p \in 4099 .. 4353 : p % 2 = 1} \cup {LinkPort, NoPort}

Sockets == {Free, Fresh, Served} \cup (Ends \X Conns) \cup {Bound(p) : p \in LinkPorts}

PeersTypeOK ==
    /\ radio \in {"bluetooth", "wifi"}
    /\ ad \in [Adapters ->
         [pc : {"idle", "request", "bind", "accept", "loop", "connecting", "join"},
          late : BOOLEAN, held : Sockets,
          sockfd : Fds \cup {0}, fds : [Fds -> Sockets],
          connected : BOOLEAN, registered : BOOLEAN,
          rpc : {"none", "loop", "ready", "done", "failed"},
          io : {"none", "timed", "endless"}, timed : BOOLEAN,
          dpc : {"none", "closed", "created", "locked", "gone"}, stale : BOOLEAN, overlap : BOOLEAN,
          local : LinkPorts, remote : LinkPorts]]
    /\ given \in BOOLEAN
    /\ queue \in Seq(Conns) /\ IsInjective(queue)

Init ==
    /\ radio \in {"bluetooth", "wifi"}
    /\ ad = [a \in Adapters |-> IF radio = "bluetooth" THEN BluetoothAdapter(a)
                                                       ELSE WifiAdapter(a)]
    /\ given = FALSE
    /\ queue = << >>

(* The thread inside conn(). *)
Main(a) ==
    \/ BtMain(a)
    \/ WifiRequestFails(a) \/ WifiExchange(a)
    \/ WifiConnectToPeer(a) \/ WifiListenForPeer(a) \/ WifiConclude(a)

Request(a) == BtRequestThread(a) \/ WifiSendConnectionRequest(a)

Deadline(a) == BtExpire(a) \/ WifiExpire(a)

Next ==
    \/ \E a \in Adapters :
         \/ BtConn(a) \/ WifiConn(a) \/ Main(a) \/ Request(a) \/ Deadline(a)
         \/ BtDisconn(a) \/ BtDestroy(a) \/ WifiDisconn(a) \/ WifiDestroy(a)
         \/ BtSend(a) \/ BtRecv(a) \/ WifiSend(a) \/ WifiRecv(a) \/ MessageEnds(a)
    \/ \E a \in Adapters, k \in Conns : Establish(a, k) \/ Refuse(a, k)

(* A thread inside conn(), send() or recv() goes on, unless it waits for   *)
(* the peer in a socket that has no timeout.                               *)
Call(a) == Main(a) \/ Request(a) \/ (ad[a].io = "timed" /\ MessageEnds(a))

(* Threads run and deadlines pass.  Nobody has to call, and the network    *)
(* owes nothing.                                                           *)
Spec ==
    /\ Init /\ [][Next]_vars
    /\ \A a \in Adapters :
         /\ WF_vars(Call(a)) /\ WF_vars(Deadline(a))
         /\ WF_vars(InterruptCreate(a) \/ DestroyLocks(a) \/ Destroy(a))
-----------------------------------------------------------------------------
(* The adapter is used as its class is meant to: nobody destroys it, and   *)
(* no request timed out between its two looks at the clock.                *)
Undisturbed(s) == s.dpc = "none" /\ ~s.stale

(* When conn() has returned 0, sockfd_ is one end of a connection that was *)
(* made, and the other device has or had the other end: never a new socket *)
(* or one on its way, whatever earlier attempts left behind.               *)
ConnectedIsMade ==
    \A a \in Adapters :
      LET s == ad[a] IN
        (s.registered /\ s.pc = "idle" /\ Undisturbed(s)) =>
            Object(s, s.sockfd)[1] \in {"near", "far"}

(* The three descriptors are three open sockets, over any number of        *)
(* connections, failures and disconnections.                               *)
DescriptorsDistinct ==
    \A a \in Adapters :
      LET s == ad[a] IN
        Undisturbed(s) => /\ Object(s, s.sockfd) # Free
                          /\ s.fds[RequestFd] # Free /\ s.fds[ListenFd] # Free
                          /\ s.sockfd \notin {RequestFd, ListenFd}

(* An adapter leaks one descriptor at most, however often it connects and  *)
(* however interrupt() meets conn(): accept() succeeds once.               *)
Leaked(s) == {n \in Fds : s.fds[n] # Free /\ (s.dpc = "gone" \/
                                              n \notin {s.sockfd, RequestFd, ListenFd})}
LeakBounded == \A a \in Adapters : Cardinality(Leaked(ad[a])) <= 1

(* An adapter that is destroyed while no conn() is running leaves no       *)
(* connection open for the peer to wait on.                                *)
DestroyedHoldsNothing ==
    \A a \in Adapters :
      LET s == ad[a] IN
        (s.dpc = "gone" /\ ~s.overlap) =>
            \A o \in Objects(s) : o[1] \notin Ends

(* Every conn(), recv() and bratislavaDestroy() returns, though the peer   *)
(* never comes or says anything, the request is not answered or the socket *)
(* is closed under the call: interrupt() wakes nobody, so that the last of *)
(* the three waits for the timeouts of the others.                         *)
CallsReturn ==
    \A a \in Adapters :
        /\ []<>(ad[a].pc = "idle")
        /\ []<>(ad[a].io = "none")
        /\ []<>(ad[a].dpc \in {"none", "gone"})
=============================================================================
