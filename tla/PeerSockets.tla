----------------------------- MODULE PeerSockets -----------------------------
(***************************************************************************)
(* The adapters of one link, one on each of its two devices, and the       *)
(* kernel's sockets below them.  BluetoothAdapter and WifiAdapter connect, *)
(* listen, request and close in the same way; what they share is here,     *)
(* read off BluetoothAdapter.cc, and WifiPeer names the Wi-Fi counterpart. *)
(***************************************************************************)
EXTENDS Naturals, Sequences, SequencesExt, FiniteSets

CONSTANTS
    Conns,  \* the connections there are at once (bound)
    Fds     \* the descriptors an adapter and what it leaked can have (bound)

ASSUME PeerSocketsAssumption ==
    Conns \subseteq Nat /\ Fds \subseteq Nat \ {0} /\ 1 .. 5 \subseteq Fds

VARIABLES
    radio,  \* "bluetooth" or "wifi": which adapter bratislavaSocket() made
    ad,     \* the adapter of each device, and its descriptors
    given,  \* the router was given its local port for the link (Wi-Fi)
    queue   \* connections that accept() has not returned yet

vars     == <<radio, ad, given, queue>>
Adapters == {1, 2}
Peer(a)  == 3 - a

(* What a descriptor names: nothing, a new socket, one that is connected   *)
(* to BRATISLAVA_PORT or listens on a port; the connecting end of a        *)
(* connection that is under way, made or refused, or the accepted end.     *)
Free       == <<"free", 0>>
Fresh      == <<"fresh", 0>>
Served     == <<"served", 0>>
Bound(p)   == <<"bound", p>>
Syn(k)     == <<"syn", k>>
Near(k)    == <<"near", k>>
Refused(k) == <<"refused", k>>
Far(k)     == <<"far", k>>

Lowest(S) == CHOOSE n \in S : \A m \in S : n <= m

Ends         == {"syn", "near", "refused", "far"}
Object(s, n) == IF n = 0 THEN Free ELSE s.fds[n]    \* 0 stands for -1
Objects(s)   == {s.fds[n] : n \in Fds} \cup {s.held}
Used         == ToSet(queue) \cup
                    {o[2] : o \in {e \in Objects(ad[1]) \cup Objects(ad[2]) : e[1] \in Ends}}

(* bratislavaConn() gets the socket's lock and finds it not connected.     *)
MayConnect(s) == /\ s.pc = "idle" /\ s.io = "none"
                 /\ ~s.registered /\ s.dpc \notin {"locked", "gone"}

(* Object o of s is o2 from now on. *)
Turn(s, o, o2) == [s EXCEPT !.held = IF @ = o THEN o2 ELSE @,
                            !.fds = [n \in Fds |-> IF @[n] = o THEN o2 ELSE @[n]]]

(* close().  A connect(), send() or recv() in progress holds on to its     *)
(* socket, and is not woken.                                               *)
Close(s, n) ==
    IF n = 0 THEN s
    ELSE [s EXCEPT !.fds[n] = Free,
                   !.held = IF (s.pc = "connecting" \/ s.io # "none") /\ n = s.sockfd
                            THEN s.fds[n] ELSE @]

(* socket() and accept(): the lowest descriptor that is free. *)
Open(s, o) == LET n == Lowest({m \in Fds : s.fds[m] = Free})
              IN  [fd |-> n, s |-> [s EXCEPT !.fds[n] = o]]

(* The kernel takes a PSM that is odd and whose upper byte is even; every  *)
(* TCP port will do.                                                       *)
Valid(port) == radio = "bluetooth" => port % 2 = 1 /\ (port \div 256) % 2 = 0
-----------------------------------------------------------------------------
CloseSocket(s)  == [Close(s, s.sockfd) EXCEPT !.sockfd = 0]
CreateSocket(s) == LET new == Open(s, Fresh) IN [new.s EXCEPT !.sockfd = new.fd]

(* sockfd_request_ and sockfd_listen_ are given a socket once.  The        *)
(* Bluetooth adapter opens sockfd_ first, the Wi-Fi adapter last.          *)
RequestFd == IF radio = "bluetooth" THEN 2 ELSE 1
ListenFd  == IF radio = "bluetooth" THEN 3 ELSE 2
DataFd    == IF radio = "bluetooth" THEN 1 ELSE 3

(* A call that waits on a socket of a has waited for the remaining time.   *)
TimesOut(a) == ad[a].late

(* A step of the adapter of a alone. *)
Becomes(a, s) == ad' = [ad EXCEPT ![a] = s] /\ UNCHANGED <<radio, given, queue>>

(* The deadline of a conn() passes while one of its threads looks at it.   *)
Expire(a) ==
    /\ ad[a].pc \notin {"idle", "join"} \/ ad[a].rpc \in {"loop", "ready"}
    /\ ~ad[a].late /\ Becomes(a, [ad[a] EXCEPT !.late = TRUE])

(* The kernel makes a connection under way if its port is listened on and  *)
(* the queue has room, or gives up on it.                                  *)
Establish(a, k) ==
    /\ Syn(k) \in Objects(ad[a]) /\ Bound(ad[a].remote) \in Objects(ad[Peer(a)])
    /\ Len(queue) < (IF radio = "bluetooth" THEN 1 ELSE 10)
    /\ queue' = Append(queue, k)
    /\ ad' = [ad EXCEPT ![a] = Turn(@, Syn(k), Near(k))]
    /\ UNCHANGED <<radio, given>>

Refuse(a, k) == Syn(k) \in Objects(ad[a]) /\ Becomes(a, Turn(ad[a], Syn(k), Refused(k)))
-----------------------------------------------------------------------------
(* ConnectToPeer() or ListenForPeer() returns to conn(), with or without   *)
(* connected_.                                                             *)
Return(s)    == [s EXCEPT !.pc = "join", !.held = Free]
Connected(s) == [Return(s) EXCEPT !.connected = TRUE]

(* The connect() failed.  After some errors the loop goes on, unless this  *)
(* was the last of MAX_RETRIES or time is up; how many there were is left  *)
(* open.                                                                   *)
Failed(s, o) == {Return(s)} \cup IF s.late THEN {}
                                 ELSE {[Turn(s, o, Fresh) EXCEPT !.pc = "loop", !.held = Free]}

(* Mutant: a connect() that does not finish in time is taken for done.     *)
OutcomesHopeful(s, o) ==
    CASE o[1] = "near"    -> {Connected(s)}
      [] o[1] = "refused" -> Failed(s, o)
      [] o[1] = "syn"     -> {Connected(s)}

(* What a connect() of socket o comes to when it returns. *)
Outcomes(s, o) ==
    CASE o[1] = "near"    -> {Connected(s)}
      [] o[1] = "refused" -> Failed(s, o)
      [] o[1] = "syn"     -> {Return(s)}

(* WaitForSocket() says that a socket can be connected; -1 and a socket     *)
(* whose earlier connect() is under way never can.                         *)
Writable(o) == o # Free /\ o[1] # "syn"

(* WaitForSocket() and connect() of sockfd_, unless time is up.  A closed  *)
(* descriptor is reported at once.  A socket that an earlier, timed-out    *)
(* connect() has connected by now reports EISCONN over Bluetooth, upon     *)
(* which connected_ stays false; over Wi-Fi the second connect() succeeds. *)
ConnectStart(a) ==
    LET s == ad[a]
        o == Object(s, s.sockfd)
    IN  /\ s.pc = "loop"
        /\ \/ TimesOut(a) /\ Becomes(a, Return(s))
           \/ /\ ~s.late /\ o = Fresh /\ (Conns \subseteq Used \/ ~Valid(s.remote))
              /\ Becomes(a, Return(s))
           \/ /\ ~s.late /\ o = Fresh /\ ~(Conns \subseteq Used) /\ Valid(s.remote)
              /\ Becomes(a, [s EXCEPT !.pc = "connecting",
                                      !.fds[s.sockfd] = Syn(Lowest(Conns \ Used))])
           \/ /\ ~s.late /\ o[1] \in {"near", "refused"}
              /\ \E r \in IF radio = "bluetooth" /\ o[1] = "near" THEN {Return(s)}
                                                                  ELSE Outcomes(s, o) :
                   Becomes(a, r)
           \/ /\ ~s.late /\ s.sockfd # 0 /\ o[1] \in {"free", "served", "far"}
              /\ Becomes(a, Return(s))

ConnectEnds(a) ==
    LET s == ad[a]
        o == IF s.held # Free THEN s.held ELSE Object(s, s.sockfd)
    IN  /\ s.pc = "connecting"
        /\ o[1] \in {"near", "refused"} \/ (o[1] = "syn" /\ TimesOut(a))
        /\ \E r \in Outcomes(s, o) : Becomes(a, r)

ConnectToPeer(a) == ConnectStart(a) \/ ConnectEnds(a)
-----------------------------------------------------------------------------
(* Mutant: the result of bind() is ignored. *)
BindUnchecked(a) ==
    LET s == ad[a] IN
      /\ s.pc = "bind"
      /\ \/ s.late /\ Becomes(a, Return(s))
         \/ ~s.late /\ Becomes(a, [s EXCEPT !.pc = "accept", !.fds[ListenFd] = Bound(s.local)])

(* bind() and listen() of sockfd_listen_, which is bound once: a second    *)
(* bind() fails.  It also fails when somebody else has the port.           *)
Bind(a) ==
    LET s == ad[a] IN
      /\ s.pc = "bind"
      /\ \/ Becomes(a, Return(s))
         \/ /\ ~s.late /\ s.fds[ListenFd] = Fresh /\ Valid(s.local)
            /\ Becomes(a, [s EXCEPT !.pc = "accept", !.fds[ListenFd] = Bound(s.local)])

(* accept() returns the oldest connection; sockfd_ is overwritten.         *)
Accept(a) ==
    /\ ad[a].pc = "accept" /\ queue # << >>
    /\ LET new == Open(ad[a], Far(Head(queue)))
       IN  ad' = [ad EXCEPT ![a] = [Connected(new.s) EXCEPT !.sockfd = new.fd,
                                              !.overlap = new.s.dpc = "closed"]]
    /\ queue' = Tail(queue)
    /\ UNCHANGED <<radio, given>>

(* Mutant: the path of a failed accept() closes the listening socket.      *)
AcceptFailsClosing(a) ==
    /\ ad[a].pc = "accept" /\ queue = << >> /\ TimesOut(a)
    /\ Becomes(a, Close(Return(ad[a]), ListenFd))

(* accept() times out; close(-1) closes nothing. *)
AcceptFails(a) ==
    /\ ad[a].pc = "accept" /\ queue = << >> /\ TimesOut(a)
    /\ Becomes(a, Return(ad[a]))

ListenForPeer(a) == Bind(a) \/ Accept(a) \/ AcceptFails(a)
-----------------------------------------------------------------------------
(* SendConnectionRequest() returns; the thread that calls it over Bluetooth *)
(* drops the result.                                                       *)
Answer(result) == IF radio = "bluetooth" THEN "none" ELSE result

(* SendConnectionRequest(): the loop's test, the deadline, WaitForSocket(). *)
RequestWait(a) ==
    LET s == ad[a]
        o == Object(s, RequestFd)
    IN  /\ s.rpc = "loop"
        /\ \/ s.connected /\ Becomes(a, [s EXCEPT !.rpc = Answer("done")])
           \/ TimesOut(a) /\ Becomes(a, [s EXCEPT !.rpc = Answer("failed")])
           \/ ~s.late /\ Writable(o) /\ Becomes(a, [s EXCEPT !.rpc = "ready"])
           \/ ~s.late /\ o = Free /\ Becomes(a, [s EXCEPT !.rpc = Answer("failed")])

(* ... and connect() to BRATISLAVA_PORT of the peer or the access point,   *)
(* served by others: it succeeds, has succeeded before, is tried again, or *)
(* fails.  When time is up between the two, sockfd_request_ is closed and  *)
(* keeps its number.                                                       *)
RequestConnect(a) ==
    LET s == ad[a]
        o == Object(s, RequestFd)
    IN  /\ s.rpc = "ready"
        /\ \/ s.late /\ Becomes(a, [Close(s, RequestFd) EXCEPT !.rpc = Answer("failed"),
                                                               !.stale = TRUE])
           \/ ~s.late /\ o = Fresh /\ Becomes(a, [s EXCEPT !.rpc = Answer("done"),
                                                           !.fds[RequestFd] = Served])
           \/ ~s.late /\ o \notin {Fresh, Free} /\ Becomes(a, [s EXCEPT !.rpc = Answer("done")])
           \/ /\ ~s.late
              /\ \E next \in {"loop", Answer("failed")} : Becomes(a, [s EXCEPT !.rpc = next])

SendConnectionRequest(a) == RequestWait(a) \/ RequestConnect(a)
-----------------------------------------------------------------------------
(* Mutant: recv_timeout_ is not given to the socket. *)
ConfigureNothing(s) == s

ConfigureSocketForComms(s) == [s EXCEPT !.timed = TRUE]

(* conn() ends: Connect() of the registry and the timeout of recv() if     *)
(* connected_.                                                             *)
Conclude(a) ==
    LET s == ad[a]
        t == IF s.connected THEN ConfigureSocketForComms(s) ELSE s
    IN  /\ s.pc = "join" /\ s.rpc \notin {"loop", "ready"}
        /\ Becomes(a, [t EXCEPT !.pc = "idle", !.registered = s.connected, !.late = FALSE,
                                !.rpc = "none"])

(* bratislavaSend() and bratislavaRecv() go on to the adapter.             *)
InUse(s) == s.pc = "idle" /\ s.io = "none" /\ s.registered /\ s.dpc \notin {"locked", "gone"}

(* send() and recv() wait on sockfd_, if it has a connection; recv() does  *)
(* for recv_timeout_, which is not 0, when that is set.                    *)
Send(a) ==
    LET s == ad[a] IN
      /\ InUse(s) /\ Object(s, s.sockfd)[1] \in {"near", "far"}
      /\ Becomes(a, [s EXCEPT !.io = "timed"])

Recv(a) ==
    LET s == ad[a] IN
      /\ InUse(s) /\ Object(s, s.sockfd)[1] \in {"near", "far"}
      /\ Becomes(a, [s EXCEPT !.io = IF s.timed THEN "timed" ELSE "endless"])

(* There is room or a message, the peer has closed, or time is up: none of *)
(* it changes the adapter, which counts as connected until disconn().      *)
MessageEnds(a) == ad[a].io # "none" /\ Becomes(a, [ad[a] EXCEPT !.io = "none", !.held = Free])

(* bratislavaDisconnect() after Disconnect() of the registry, which finds  *)
(* the configuration whether or not it is connected.  It shares the        *)
(* socket's lock with send() and recv().                                   *)
Disconn(a) ==
    LET s == ad[a] IN
      /\ s.pc = "idle" /\ s.dpc \in {"none", "created"}
      /\ Becomes(a, [CreateSocket(CloseSocket(s)) EXCEPT !.connected = FALSE,
                                                         !.registered = FALSE,
                                                         !.timed = FALSE])

(* bratislavaDestroy(): interrupt(), which is disconn(), waits for nobody. *)
(* One of the two devices destroys its adapter (bound).                    *)
InterruptClose(a) ==
    LET s == ad[a] IN
      /\ s.dpc = "none" /\ ad[Peer(a)].dpc = "none"
      /\ Becomes(a, [CloseSocket(s) EXCEPT !.connected = FALSE, !.dpc = "closed"])

InterruptCreate(a) ==
    LET s == ad[a] IN
      /\ s.dpc = "closed"
      /\ Becomes(a, [CreateSocket(s) EXCEPT !.dpc = "created", !.timed = FALSE])

(* It has g_bsock_deletion_mutex: no call begins any more ...              *)
DestroyLocks(a) == ad[a].dpc = "created" /\ Becomes(a, [ad[a] EXCEPT !.dpc = "locked"])

(* Mutant: the destructor leaves sockfd_ to disconn().                     *)
DestroyKeepsSocket(a) ==
    LET s == ad[a] IN
      /\ s.dpc = "locked" /\ s.pc = "idle" /\ s.io = "none"
      /\ ad' = [ad EXCEPT ![a] = [Close(Close(s, RequestFd), ListenFd)
                                   EXCEPT !.dpc = "gone", !.registered = FALSE]]
      /\ queue' = IF s.fds[ListenFd][1] = "bound" THEN << >> ELSE queue
      /\ UNCHANGED <<radio, given>>

(* ... and, once those that hold the socket's lock are over, deletes the   *)
(* adapter.  Closing the listening socket resets what is in its queue. *)
Destroy(a) ==
    LET s == ad[a] IN
      /\ s.dpc = "locked" /\ s.pc = "idle" /\ s.io = "none"
      /\ ad' = [ad EXCEPT ![a] = [CloseSocket(Close(Close(s, RequestFd), ListenFd))
                                   EXCEPT !.dpc = "gone", !.registered = FALSE]]
      /\ queue' = IF s.fds[ListenFd][1] = "bound" THEN << >> ELSE queue
      /\ UNCHANGED <<radio, given>>
=============================================================================
