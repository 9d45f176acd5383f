---------------------------- MODULE UdpHandshake ----------------------------
(***************************************************************************)
(* The Wi-Fi handshake: attempt_wifi_handshake() of scanning peers against *)
(* one udp_server_loop(), over a network that loses, duplicates, delays    *)
(* and reorders datagrams.  Every attempt has a socket of its own, but a   *)
(* port is used again after close(), so a late reply may meet a later      *)
(* attempt.  The server answers whatever arrives and keeps no state.       *)
(***************************************************************************)
CONSTANTS
    Clients,    \* the peers that talk to the server
    Ports,      \* the ephemeral ports of a client
    NoPort      \* not one of them

VARIABLES
    pc,       \* "idle", "waiting" in recv(), or "published"
    port,     \* the local port of the client's socket
    net,      \* the datagrams under way
    serving,  \* the server is in its loop
    running,  \* running_ of the serving runtime
    heard     \* the client sockets the server ever received from (history)

vars == <<pc, port, net, serving, running, heard>>

Datagrams   == [kind : {"hello", "reply"}, client : Clients, port : Ports]
Hello(c, p) == [kind |-> "hello", client |-> c, port |-> p]
Reply(c, p) == [kind |-> "reply", client |-> c, port |-> p]

TypeOK ==
    /\ pc \in [Clients -> {"idle", "waiting", "published"}]
    /\ port \in [Clients -> Ports \cup {NoPort}]
    /\ \A c \in Clients : port[c] = NoPort <=> pc[c] = "idle"
    /\ net \subseteq Datagrams
    /\ serving \in BOOLEAN /\ running \in BOOLEAN
    /\ heard \subseteq Clients \X Ports

Init ==
    /\ pc = [c \in Clients |-> "idle"]
    /\ port = [c \in Clients |-> NoPort]
    /\ net = {} /\ heard = {}
    /\ serving = TRUE /\ running = TRUE
-----------------------------------------------------------------------------
(* socket(), connect() and send() of the hello. *)
Attempt(c) ==
    /\ pc[c] = "idle"
    /\ \E p \in Ports :
         /\ port' = [port EXCEPT ![c] = p]
         /\ net' = net \cup {Hello(c, p)}
    /\ pc' = [pc EXCEPT ![c] = "waiting"]
    /\ UNCHANGED <<serving, running, heard>>

(* recv() returns a datagram sent to this socket; it has the reply prefix, *)
(* and the link is published.  The network may keep a copy.                *)
ReceiveReply(c) ==
    /\ pc[c] = "waiting"
    /\ Reply(c, port[c]) \in net
    /\ net' \in {net, net \ {Reply(c, port[c])}}
    /\ pc' = [pc EXCEPT ![c] = "published"]
    /\ UNCHANGED <<port, serving, running, heard>>

(* Mutant: the socket has no receive timeout. *)
TimesOutNever(c) == pc[c] = "waiting" /\ FALSE /\ UNCHANGED vars

(* Mutant: a failure path keeps the socket. *)
TimesOutOpen(c) ==
    /\ pc[c] = "waiting"
    /\ pc' = [pc EXCEPT ![c] = "idle"]
    /\ UNCHANGED <<port, net, serving, running, heard>>

(* recv() times out after 3 s or reports an error, and the socket is closed. *)
TimesOut(c) ==
    /\ pc[c] = "waiting"
    /\ pc' = [pc EXCEPT ![c] = "idle"]
    /\ port' = [port EXCEPT ![c] = NoPort]
    /\ UNCHANGED <<net, serving, running, heard>>
-----------------------------------------------------------------------------
(* Mutant: the reply does not go to the source of the datagram. *)
ServerMisdirects(c, p) ==
    /\ serving /\ Hello(c, p) \in net
    /\ \E q \in Ports : net' = (net \ {Hello(c, p)}) \cup {Reply(c, q)}
    /\ heard' = heard \cup {<<c, p>>}
    /\ UNCHANGED <<pc, port, serving, running>>

(* Mutant: a peer that was answered once is not answered again. *)
ServerRepliesOnce(c, p) ==
    /\ serving /\ Hello(c, p) \in net
    /\ net' = (net \ {Hello(c, p)}) \cup (IF <<c, p>> \in heard THEN {} ELSE {Reply(c, p)})
    /\ heard' = heard \cup {<<c, p>>}
    /\ UNCHANGED <<pc, port, serving, running>>

(* recvmsg() returns a datagram and sendto() answers its source. *)
ServerReplies(c, p) ==
    /\ serving /\ Hello(c, p) \in net
    /\ net' \in {net \cup {Reply(c, p)}, (net \ {Hello(c, p)}) \cup {Reply(c, p)}}
    /\ heard' = heard \cup {<<c, p>>}
    /\ UNCHANGED <<pc, port, serving, running>>

StopServer ==
    /\ running
    /\ running' = FALSE
    /\ UNCHANGED <<pc, port, net, serving, heard>>

(* The loop's test, at the latest after the poll timeout of 500 ms, or an   *)
(* error of recvmsg() other than that timeout.                             *)
ServerLeaves ==
    /\ serving
    /\ serving' = FALSE
    /\ UNCHANGED <<pc, port, net, running, heard>>

(* A datagram is lost, or reaches a port that is not open. *)
Lose ==
    /\ \E m \in net : net' = net \ {m}
    /\ UNCHANGED <<pc, port, serving, running, heard>>
-----------------------------------------------------------------------------
Next ==
    \/ \E c \in Clients : \/ Attempt(c) \/ ReceiveReply(c) \/ TimesOut(c)
                          \/ \E p \in Ports : ServerReplies(c, p)
    \/ StopServer \/ ServerLeaves \/ Lose

Spec == Init /\ [][Next]_vars
-----------------------------------------------------------------------------
(* A link is published only if the server heard its very socket, in this   *)
(* attempt or, the port being used again, in an earlier one of the peer:   *)
(* no loss, delay or copy makes a link out of somebody else's handshake.   *)
PublishedWasHeard == \A c \in Clients : pc[c] = "published" => <<c, port[c]>> \in heard

(* The client's 3 s are over though its hello or the reply is under way. *)
Hasty(c) == /\ TimesOut(c)
            /\ {Hello(c, port[c]), Reply(c, port[c])} \cap net # {}
=============================================================================
