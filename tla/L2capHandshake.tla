--------------------------- MODULE L2capHandshake ---------------------------
(***************************************************************************)
(* The Bluetooth handshake: attempt_bluetooth_handshake() of scanning      *)
(* peers against one bluetooth_server_loop(), which serves one connection  *)
(* after the other from the queue listen() made.  A connection has two     *)
(* ends; it is used again for a new attempt when both are closed.          *)
(***************************************************************************)
EXTENDS Naturals, Sequences, SequencesExt

CONSTANTS
    Clients,    \* peers, and strangers that connect and stay silent
    Conns,      \* the L2CAP connections there are at once (bound)
    None,
    Backlog     \* listen(server_fd, 4)

ASSUME L2capAssumption == None \notin Clients \cup Conns /\ Backlog \in Nat \ {0}

VARIABLES
    pc,         \* "idle", "connected", "waiting" in recv(), or "published"
    conn,       \* the connection of a client's socket
    near, far,  \* the client's and the server's end of each connection
    data,       \* what was sent on a connection and not received
    queue,      \* the connections accept() has not returned yet
    spc,        \* where the server thread is
    cur,        \* its client_fd
    running,    \* running_ of the serving runtime
    answered    \* the connections a reply was sent on (history)

vars == <<pc, conn, near, far, data, queue, spc, cur, running, answered>>

TypeOK ==
    /\ pc \in [Clients -> {"idle", "connected", "waiting", "published"}]
    /\ conn \in [Clients -> Conns \cup {None}]
    /\ near \in [Conns -> {"closed", "open"}]
    /\ far \in [Conns -> {"closed", "queued", "open"}]
    /\ data \in [Conns -> SUBSET {"hello", "reply"}]
    /\ queue \in Seq(Conns) /\ Len(queue) <= Backlog
    /\ spc \in {"accept", "recv", "send", "close", "exited"}
    /\ cur \in Conns \cup {None}
    /\ running \in BOOLEAN
    /\ answered \subseteq Conns

Init ==
    /\ pc = [c \in Clients |-> "idle"]
    /\ conn = [c \in Clients |-> None]
    /\ near = [k \in Conns |-> "closed"]
    /\ far = [k \in Conns |-> "closed"]
    /\ data = [k \in Conns |-> {}]
    /\ queue = << >>
    /\ spc = "accept" /\ cur = None
    /\ running = TRUE
    /\ answered = {}

(* The server's listening socket is open. *)
Listening == spc # "exited"
-----------------------------------------------------------------------------
(* The client: socket() and connect(), which needs room in the queue ... *)
Connect(c) ==
    /\ pc[c] = "idle" /\ Listening /\ Len(queue) < Backlog
    /\ \E k \in Conns :
         /\ near[k] = "closed" /\ far[k] = "closed"
         /\ conn' = [conn EXCEPT ![c] = k]
         /\ near' = [near EXCEPT ![k] = "open"]
         /\ far' = [far EXCEPT ![k] = "queued"]
         /\ data' = [data EXCEPT ![k] = {}]
         /\ queue' = Append(queue, k)
         /\ answered' = answered \ {k}
    /\ pc' = [pc EXCEPT ![c] = "connected"]
    /\ UNCHANGED <<spc, cur, running>>

(* ... send() of the hello ... *)
SendHello(c) ==
    /\ pc[c] = "connected" /\ far[conn[c]] # "closed"
    /\ data' = [data EXCEPT ![conn[c]] = @ \cup {"hello"}]
    /\ pc' = [pc EXCEPT ![c] = "waiting"]
    /\ UNCHANGED <<conn, near, far, queue, spc, cur, running, answered>>

(* Mutant: recv() returning nothing because the peer closed is a success. *)
ReceiveAnything(c) ==
    /\ pc[c] = "waiting"
    /\ "reply" \in data[conn[c]] \/ far[conn[c]] = "closed"
    /\ data' = [data EXCEPT ![conn[c]] = @ \ {"reply"}]
    /\ pc' = [pc EXCEPT ![c] = "published"]
    /\ UNCHANGED <<conn, near, far, queue, spc, cur, running, answered>>

(* ... and recv() of the reply, upon which the link is published. *)
ReceiveReply(c) ==
    /\ pc[c] = "waiting" /\ "reply" \in data[conn[c]]
    /\ data' = [data EXCEPT ![conn[c]] = @ \ {"reply"}]
    /\ pc' = [pc EXCEPT ![c] = "published"]
    /\ UNCHANGED <<conn, near, far, queue, spc, cur, running, answered>>

(* send() fails, recv() fails, times out after 3 s or meets the end of the *)
(* connection: the socket is closed.  A stranger may leave whenever it likes. *)
GiveUp(c) ==
    /\ pc[c] \in {"connected", "waiting"}
    /\ near' = [near EXCEPT ![conn[c]] = "closed"]
    /\ conn' = [conn EXCEPT ![c] = None]
    /\ pc' = [pc EXCEPT ![c] = "idle"]
    /\ UNCHANGED <<far, data, queue, spc, cur, running, answered>>
-----------------------------------------------------------------------------
(* The server: accept() returns the oldest connection. *)
Accept ==
    /\ spc = "accept" /\ running /\ queue # << >>
    /\ cur' = Head(queue)
    /\ queue' = Tail(queue)
    /\ far' = [far EXCEPT ![Head(queue)] = "open"]
    /\ spc' = "recv"
    /\ UNCHANGED <<pc, conn, near, data, running, answered>>

ReceiveHello ==
    /\ spc = "recv" /\ "hello" \in data[cur]
    /\ data' = [data EXCEPT ![cur] = @ \ {"hello"}]
    /\ spc' = "send"
    /\ UNCHANGED <<pc, conn, near, far, queue, cur, running, answered>>

(* Mutant: no receive timeout is set on client_fd. *)
ReceiveForever == spc = "recv" /\ near[cur] = "closed" /\ spc' = "close"
                  /\ UNCHANGED <<pc, conn, near, far, data, queue, cur, running, answered>>

(* Nothing arrives for 3 s, or the client is gone. *)
ReceiveNothing ==
    /\ spc = "recv"
    /\ "hello" \notin data[cur] \/ near[cur] = "closed"
    /\ spc' = "close"
    /\ UNCHANGED <<pc, conn, near, far, data, queue, cur, running, answered>>

(* send() of the reply; its result is ignored. *)
SendReply ==
    /\ spc = "send"
    /\ data' = [data EXCEPT ![cur] = IF near[cur] = "open" THEN @ \cup {"reply"} ELSE @]
    /\ answered' = answered \cup {cur}
    /\ spc' = "close"
    /\ UNCHANGED <<pc, conn, near, far, queue, cur, running>>

(* Mutant: client_fd is kept open for a link, and forgotten. *)
KeepClient ==
    /\ spc = "close"
    /\ cur' = None
    /\ spc' = "accept"
    /\ UNCHANGED <<pc, conn, near, far, data, queue, running, answered>>

(* close(client_fd), replied to or not. *)
CloseClient ==
    /\ spc = "close"
    /\ far' = [far EXCEPT ![cur] = "closed"]
    /\ cur' = None
    /\ spc' = "accept"
    /\ UNCHANGED <<pc, conn, near, data, queue, running, answered>>

StopServer ==
    /\ running
    /\ running' = FALSE
    /\ UNCHANGED <<pc, conn, near, far, data, queue, spc, cur, answered>>

(* Mutant: the loop does not test running_, only an error leaves it. *)
LeaveOnError ==
    /\ spc = "accept" /\ running
    /\ far' = [k \in Conns |-> IF k \in ToSet(queue) THEN "closed" ELSE far[k]]
    /\ queue' = << >>
    /\ spc' = "exited"
    /\ UNCHANGED <<pc, conn, near, data, cur, running, answered>>

(* The loop's test fails, or accept() fails with something but a timeout:  *)
(* close(server_fd) drops the connections still in its queue.              *)
LeaveLoop ==
    /\ spc = "accept"
    /\ far' = [k \in Conns |-> IF k \in ToSet(queue) THEN "closed" ELSE far[k]]
    /\ queue' = << >>
    /\ spc' = "exited"
    /\ UNCHANGED <<pc, conn, near, data, cur, running, answered>>
-----------------------------------------------------------------------------
Server == Accept \/ ReceiveHello \/ ReceiveNothing \/ SendReply \/ CloseClient

Next ==
    \/ \E c \in Clients : Connect(c) \/ SendHello(c) \/ ReceiveReply(c) \/ GiveUp(c)
    \/ Server \/ StopServer \/ LeaveLoop

(* The server thread runs and its 3 s and 500 ms pass; so do a client's 3 s.  *)
Fairness ==
    /\ WF_vars(Server) /\ WF_vars(~running /\ LeaveLoop)
    /\ \A c \in Clients : WF_vars(pc[c] = "waiting" /\ GiveUp(c))

Spec == Init /\ [][Next]_vars /\ Fairness
-----------------------------------------------------------------------------
(* A link is published only for a connection the server replied on: what   *)
(* an earlier attempt left in the server's queue answers no later one.     *)
PublishedWasAnswered ==
    \A c \in Clients : pc[c] = "published" => conn[c] \in answered

(* The server holds one connection at most, the one it serves, and every   *)
(* other one is in the queue once or closed: none leaks, whatever client   *)
(* gave up meanwhile and whenever the loop is left.                        *)
ServerEnds ==
    /\ \A k \in Conns : /\ far[k] = "open" <=> cur = k
                        /\ far[k] = "queued" <=> k \in ToSet(queue)
    /\ IsInjective(queue)

(* A silent client holds the server for a while only.                      *)
ServerReturns == spc = "recv" ~> spc \in {"accept", "exited"}

(* README.md:51: the runtime "publishes a BratislavaLink with an           *)
(* established socket fd when the handshake completes": when the handshake *)
(* is over on both sides the server's end of it is still open.             *)
PublishedIsEstablished ==
    \A c \in Clients : pc[c] = "published" => far[conn[c]] # "closed"
=============================================================================
