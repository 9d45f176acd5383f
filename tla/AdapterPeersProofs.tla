------------------------- MODULE AdapterPeersProofs -------------------------
(***************************************************************************)
(* Proofs about AdapterPeers, for any number of connections, hashes and    *)
(* ports, and any number of descriptors from five up.  In both adapters    *)
(* device 1 is the one that listens.                                       *)
(***************************************************************************)
EXTENDS AdapterPeers, FiniteSetTheorems, SequenceTheorems, WellFoundedInduction, TLAPS

USE DEF vars

AdapterType ==
    [pc : {"idle", "request", "bind", "accept", "loop", "connecting", "join"},
     late : BOOLEAN, held : Sockets,
     sockfd : Fds \cup {0}, fds : [Fds -> Sockets],
     connected : BOOLEAN, registered : BOOLEAN,
     rpc : {"none", "loop", "ready", "done", "failed"},
     io : {"none", "timed", "endless"}, timed : BOOLEAN,
     dpc : {"none", "closed", "created", "locked", "gone"}, stale : BOOLEAN, overlap : BOOLEAN,
     local : LinkPorts, remote : LinkPorts]

(* Where the threads of conn(), of send() and recv(), and of               *)
(* bratislavaDestroy() can be together.                                    *)
Control(a, s) ==
    /\ a = 1 => s.pc \notin {"request", "loop", "connecting"}
    /\ a = 2 => s.pc \notin {"bind", "accept"}
    /\ s.pc # "idle" => s.io = "none"
    /\ s.held # Free => s.pc = "connecting" \/ s.io # "none"
    /\ s.dpc = "gone" => s.pc = "idle" /\ s.io = "none"

(* The listening socket stays until the destructor, and sockfd_ until      *)
(* interrupt().                                                            *)
Descriptors(s) ==
    /\ IF s.dpc = "gone"
          THEN s.sockfd = 0 /\ s.fds[RequestFd] = Free /\ s.fds[ListenFd] = Free
          ELSE s.fds[ListenFd][1] \in {"fresh", "bound"} /\ s.sockfd # ListenFd
    /\ s.sockfd = 0 => s.dpc \in {"closed", "gone"}
    /\ s.pc = "accept" => s.fds[ListenFd][1] = "bound"

(* accept() has returned a connection, and cannot do so again.             *)
Accepted(s) == s.fds[ListenFd] # Fresh /\ s.pc # "accept"

(* What the adapter is while it is used as its class is meant to.          *)
Intended(s) ==
    Undisturbed(s) =>
        /\ s.sockfd \notin {RequestFd, ListenFd}
        /\ s.fds[s.sockfd] # Free /\ s.fds[RequestFd] # Free
        /\ s.pc # "idle" => s.held = Free
        /\ s.registered => s.connected
        /\ s.connected => s.fds[s.sockfd][1] \in {"near", "far"}

(* A second descriptor can be lost in no way: only an accept() loses one.  *)
Leaks(s) ==
    /\ \A m, n \in Leaked(s) : m = n
    /\ Leaked(s) # {} => Accepted(s) /\ (s.dpc = "closed" => s.sockfd = 0)
    /\ s.dpc = "closed" /\ s.sockfd # 0 => Accepted(s) /\ s.overlap

(* The ends of connections: device 1 has accepted ends and device 2 has    *)
(* connecting ones, in sockfd_ unless accept() met interrupt().            *)
EndsOf(a) == IF a = 1 THEN {"far"} ELSE {"syn", "near", "refused"}
Connections(a, s) ==
    /\ \A n \in Fds : s.fds[n][1] \in Ends =>
          s.fds[n][1] \in EndsOf(a) /\ (n = s.sockfd \/ s.overlap)
    /\ s.held[1] \in Ends => s.held[1] \in EndsOf(a)
    /\ \A o \in Objects(s) : o[1] = "far" => s.dpc = "gone" \/ Accepted(s)

AdapterInv(a, s) ==
    /\ s \in AdapterType
    /\ Control(a, s) /\ Descriptors(s) /\ Intended(s) /\ Leaks(s) /\ Connections(a, s)

(* A connection in the queue is not under way any more.                    *)
QueueInv ==
    /\ queue \in Seq(Conns) /\ IsInjective(queue)
    /\ \A k \in ToSet(queue) : Syn(k) \notin Objects(ad[2])

IInv ==
    /\ radio \in {"bluetooth", "wifi"} /\ given \in BOOLEAN
    /\ ad \in [Adapters -> AdapterType]
    /\ \A a \in Adapters : AdapterInv(a, ad[a])
    /\ QueueInv

(* The connections that a step of an adapter from s to r begins.           *)
Begun(s, r) == {o \in Objects(r) : o[1] = "syn"} \ Objects(s)

(* A step of one adapter, which begins no connection that is in the queue. *)
Solo(a) ==
    \E r \in AdapterType : /\ ad' = [ad EXCEPT ![a] = r] /\ AdapterInv(a, r)
                           /\ UNCHANGED <<radio, queue>> /\ given' \in {given, TRUE}
                           /\ \A o \in Begun(ad[a], r) : o[2] \notin ToSet(queue)
-----------------------------------------------------------------------------
(* socket() and accept() have a descriptor to return, and the kernel a     *)
(* connection.                                                             *)
LEMMA LowestIn ==
    ASSUME NEW S \in SUBSET Nat, S # {}
    PROVE  Lowest(S) \in S
<1>1. PICK R : IsWellFoundedOn(R, Nat) /\ \A x, y \in Nat : y < x => <<y, x>> \in R
  <2> DEFINE Q == OpToRel(<, Nat)
  <2>1. IsWellFoundedOn(Q, Nat)
    BY NatLessThanWellFounded
  <2>2. \A x, y \in Nat : y < x => <<y, x>> \in Q
    BY DEF OpToRel
  <2> HIDE DEF Q
  <2>3. QED
    BY <2>1, <2>2
<1>2. PICK x \in S : \A y \in S : ~ (<<y, x>> \in R)
  BY <1>1, WFMin
<1>3. ASSUME NEW y \in S
      PROVE  x <= y
  <2>1. x \in Nat /\ y \in Nat
    OBVIOUS
  <2>2. ~(y < x)
    <3>1. ~(<<y, x>> \in R)
      BY <1>2
    <3>2. y < x => <<y, x>> \in R
      BY <1>1, <2>1
    <3>3. QED
      BY <3>1, <3>2
  <2>3. QED
    BY <2>1, <2>2
<1>4. QED
  BY <1>3 DEF Lowest

LEMMA Objects1 ==
    /\ {Free, Fresh, Served} \subseteq Sockets
    /\ \A p \in LinkPorts : Bound(p) \in Sockets /\ Bound(p)[1] = "bound"
    /\ \A k \in Conns : /\ {Syn(k), Near(k), Refused(k), Far(k)} \subseteq Sockets
                        /\ Syn(k)[1] = "syn" /\ Near(k)[1] = "near"
                        /\ Refused(k)[1] = "refused" /\ Far(k)[1] = "far"
    /\ Free[1] = "free" /\ Fresh[1] = "fresh" /\ Served[1] = "served"
    /\ \A o \in Sockets : /\ o[1] = "free" => o = Free
                          /\ o[1] = "fresh" => o = Fresh
                          /\ o[1] \in Ends => o[2] \in Conns
                          /\ o[1] \in Ends \cup {"free", "fresh", "served", "bound"}
                          /\ o[1] = "syn" => o = Syn(o[2])
BY DEF Sockets, Ends, Free, Fresh, Served, Bound, Syn, Near, Refused, Far

LEMMA Numbers ==
    ASSUME radio \in {"bluetooth", "wifi"}
    PROVE  /\ {RequestFd, ListenFd, DataFd} \subseteq Fds /\ 0 \notin Fds
           /\ RequestFd # ListenFd /\ RequestFd # DataFd /\ ListenFd # DataFd
           /\ RequestFd \in 1 .. 3 /\ ListenFd \in 1 .. 3 /\ DataFd \in 1 .. 3
BY PeerSocketsAssumption DEF RequestFd, ListenFd, DataFd

LEMMA CloseFacts ==
    ASSUME NEW s \in AdapterType, NEW n \in Fds \cup {0}, radio \in {"bluetooth", "wifi"}
    PROVE  /\ Close(s, n) \in AdapterType
           /\ Close(s, n) = [s EXCEPT !.fds = Close(s, n).fds, !.held = Close(s, n).held]
           /\ \A m \in Fds : Close(s, n).fds[m] = IF m = n THEN Free ELSE s.fds[m]
           /\ \/ Close(s, n).held = s.held
              \/ /\ n \in Fds /\ n = s.sockfd /\ Close(s, n).held = s.fds[n]
                 /\ s.pc = "connecting" \/ s.io # "none"
<1>1. CASE n = 0
  <2>1. Close(s, n) = s
    BY <1>1 DEF Close
  <2>2. s = [s EXCEPT !.fds = s.fds, !.held = s.held]
    BY DEF AdapterType
  <2>3. QED
    BY <1>1, <2>1, <2>2, Numbers
<1>2. CASE n # 0
  BY <1>2, Objects1 DEF Close, AdapterType
<1>3. QED
  BY <1>1, <1>2

LEMMA OpenFacts ==
    ASSUME NEW s \in AdapterType, NEW o \in Sockets, \E n \in Fds : s.fds[n] = Free
    PROVE  /\ Open(s, o).fd \in Fds /\ s.fds[Open(s, o).fd] = Free
           /\ Open(s, o).s = [s EXCEPT !.fds[Open(s, o).fd] = o]
           /\ Open(s, o).s \in AdapterType
<1> DEFINE S == {m \in Fds : s.fds[m] = Free}
<1>1. S \in SUBSET Nat /\ S # {}
  BY PeerSocketsAssumption
<1>2. Lowest(S) \in S
  BY <1>1, LowestIn
<1>3. QED
  BY <1>2 DEF Open, AdapterType

(* Of the first five descriptors, four at most are in use.                 *)
LEMMA SomeFree ==
    ASSUME NEW s \in AdapterType, radio \in {"bluetooth", "wifi"}, Leaks(s)
    PROVE  \E n \in Fds : s.fds[n] = Free
<1> SUFFICES ASSUME \A n \in Fds : s.fds[n] # Free PROVE FALSE
  OBVIOUS
<1>1. \A n \in 1 .. 5 : n \in {s.sockfd, RequestFd, ListenFd} \/ n \in Leaked(s)
  BY PeerSocketsAssumption DEF Leaked
<1>2. \A m, n \in Leaked(s) : m = n
  BY DEF Leaks
<1>3. QED
  BY <1>1, <1>2
-----------------------------------------------------------------------------
(* A step of a call that leaves the descriptors alone. *)
LEMMA CallMoves ==
    ASSUME radio \in {"bluetooth", "wifi"}, NEW a \in Adapters,
           NEW s, AdapterInv(a, s), NEW r \in AdapterType,
           r.fds = s.fds, r.sockfd = s.sockfd, r.overlap = s.overlap, r.stale = s.stale,
           r.dpc = s.dpc \/ (s.dpc = "created" /\ r.dpc = "locked"),
           r.held \in {s.held, Free}, Control(a, r),
           r.pc = "accept" => s.pc = "accept",
           Undisturbed(s) => /\ r.pc # "idle" => r.held = Free
                             /\ r.registered => r.connected
                             /\ r.connected => s.fds[s.sockfd][1] \in {"near", "far"}
    PROVE  AdapterInv(a, r) /\ Begun(s, r) = {}
<1> USE DEF AdapterInv
<1>1. Descriptors(r)
  BY DEF Descriptors
<1>2. Intended(r)
  BY DEF Intended, Undisturbed
<1>3. Leaked(r) = Leaked(s) /\ (Accepted(s) => Accepted(r))
  BY DEF Leaked, Accepted
<1>4. Leaks(r)
  BY <1>3 DEF Leaks
<1>5. Connections(a, r)
  <2>1. Objects(r) \subseteq Objects(s) \cup {Free} /\ Free[1] = "free"
    BY DEF Objects, Free
  <2>2. \A o \in Objects(r) : o[1] = "far" => r.dpc = "gone" \/ Accepted(r)
    BY <1>3, <2>1 DEF Connections
  <2>3. QED
    BY <2>1, <2>2 DEF Connections, Ends
<1>6. Begun(s, r) = {}
  BY DEF Begun, Objects, Free
<1>7. QED
  BY <1>1, <1>2, <1>4, <1>5, <1>6

(* A connection under way is made or refused, or its socket is used again. *)
LEMMA TurnInv ==
    ASSUME radio \in {"bluetooth", "wifi"}, NEW a \in Adapters,
           NEW s, AdapterInv(a, s), NEW o \in Sockets, NEW o2 \in Sockets,
           o[1] \in {"syn", "refused"}, o2[1] \in {"near", "refused", "fresh"}
    PROVE  AdapterInv(a, Turn(s, o, o2)) /\ Begun(s, Turn(s, o, o2)) = {}
<1> DEFINE r == Turn(s, o, o2)
<1>1. s \in AdapterType
  BY DEF AdapterInv
<1>2. /\ r \in AdapterType
      /\ r.pc = s.pc /\ r.io = s.io /\ r.dpc = s.dpc /\ r.sockfd = s.sockfd
      /\ r.stale = s.stale /\ r.overlap = s.overlap
      /\ r.connected = s.connected /\ r.registered = s.registered
  BY <1>1 DEF Turn, AdapterType
<1>3. /\ \A m \in Fds : r.fds[m] = IF s.fds[m] = o THEN o2 ELSE s.fds[m]
      /\ r.held = IF s.held = o THEN o2 ELSE s.held
  BY <1>1 DEF Turn, AdapterType
<1>4. /\ o # Free /\ o2 # Free /\ Free[1] = "free" /\ Fresh[1] = "fresh"
      /\ \A x \in Sockets : x[1] = "fresh" => x = Fresh
  BY Objects1
<1>5. \A m \in Fds : r.fds[m] = Free <=> s.fds[m] = Free
  BY <1>3, <1>4
<1>6. \A m \in Fds : s.fds[m][1] \in {"fresh", "bound", "served", "near", "far", "free"}
                        => r.fds[m] = s.fds[m]
  BY <1>3
<1> HIDE DEF r
<1>7. Control(a, r)
  BY <1>2, <1>3, <1>4 DEF AdapterInv, Control
<1>8. Descriptors(r)
  BY <1>2, <1>4, <1>6, Numbers DEF AdapterInv, Descriptors
<1>9. Intended(r)
  <2> SUFFICES ASSUME Undisturbed(s)
               PROVE  /\ r.sockfd \notin {RequestFd, ListenFd}
                      /\ r.fds[r.sockfd] # Free /\ r.fds[RequestFd] # Free
                      /\ r.pc # "idle" => r.held = Free
                      /\ r.registered => r.connected
                      /\ r.connected => r.fds[r.sockfd][1] \in {"near", "far"}
    BY <1>2 DEF Intended, Undisturbed
  <2>1. s.sockfd \in Fds
    BY <1>1 DEF AdapterInv, Descriptors, Undisturbed, AdapterType
  <2>2. QED
    BY <1>2, <1>3, <1>4, <1>5, <1>6, <2>1, Numbers DEF AdapterInv, Intended
<1>10. Leaked(r) = Leaked(s) /\ (Accepted(s) <=> Accepted(r))
  <2>1. Leaked(r) = Leaked(s)
    BY <1>2, <1>5 DEF Leaked
  <2>2. r.fds[ListenFd] = Fresh <=> s.fds[ListenFd] = Fresh
    BY <1>3, <1>4, <1>6, Numbers DEF AdapterInv, Descriptors
  <2>3. QED
    BY <1>2, <2>1, <2>2 DEF Accepted
<1>11. Leaks(r)
  BY <1>2, <1>10 DEF AdapterInv, Leaks
<1>12. Connections(a, r)
  <2>1. \A n \in Fds : r.fds[n][1] \in Ends =>
            r.fds[n][1] \in EndsOf(a) /\ (n = r.sockfd \/ r.overlap)
    BY <1>2, <1>3 DEF AdapterInv, Connections, Ends, EndsOf
  <2>2. r.held[1] \in Ends => r.held[1] \in EndsOf(a)
    BY <1>3 DEF AdapterInv, Connections, Ends, EndsOf
  <2>3. \A x \in Objects(r) : x[1] = "far" => x \in Objects(s)
    BY <1>3 DEF Objects
  <2>4. QED
    BY <1>2, <1>10, <2>1, <2>2, <2>3 DEF AdapterInv, Connections
<1>13. Begun(s, r) = {}
  BY <1>3 DEF Begun, Objects
<1>14. QED
  BY <1>2, <1>7, <1>8, <1>9, <1>11, <1>12, <1>13 DEF AdapterInv, r

(* connect() returns, with or without the connection. *)
LEMMA OutcomesInv ==
    ASSUME radio \in {"bluetooth", "wifi"}, NEW a \in Adapters,
           NEW s, AdapterInv(a, s), NEW o \in Sockets, s.pc \in {"loop", "connecting"},
           o[1] \in {"syn", "near", "refused"},
           Undisturbed(s) => s.held = Free /\ o = s.fds[s.sockfd],
           NEW r \in Outcomes(s, o) \cup {Return(s)}
    PROVE  AdapterInv(a, r) /\ Begun(s, r) = {}
<1>1. s \in AdapterType /\ a = 2 /\ s.io = "none" /\ s.dpc # "gone"
  BY DEF AdapterInv, Control, Adapters
<1>2. Undisturbed(s) /\ o[1] = "near" => s.fds[s.sockfd][1] \in {"near", "far"}
  OBVIOUS
<1>3. CASE r = Return(s)
  <2>1. /\ r \in AdapterType /\ r.fds = s.fds /\ r.sockfd = s.sockfd
        /\ r.overlap = s.overlap /\ r.stale = s.stale /\ r.dpc = s.dpc
        /\ r.held = Free /\ r.pc = "join" /\ r.io = s.io
        /\ r.registered = s.registered /\ r.connected = s.connected
    BY <1>1, <1>3, Objects1 DEF Return, AdapterType
  <2>2. Control(a, r)
    BY <1>1, <2>1 DEF Control
  <2>3. Undisturbed(s) => /\ r.registered => r.connected
                          /\ r.connected => s.fds[s.sockfd][1] \in {"near", "far"}
    BY <2>1 DEF AdapterInv, Intended
  <2>4. QED
    BY <2>1, <2>2, <2>3, CallMoves
<1>4. CASE r = Connected(s) /\ o[1] = "near"
  <2>1. /\ r \in AdapterType /\ r.fds = s.fds /\ r.sockfd = s.sockfd
        /\ r.overlap = s.overlap /\ r.stale = s.stale /\ r.dpc = s.dpc
        /\ r.held = Free /\ r.pc = "join" /\ r.io = s.io /\ r.connected
    BY <1>1, <1>4, Objects1 DEF Connected, Return, AdapterType
  <2>2. Control(a, r)
    BY <1>1, <2>1 DEF Control
  <2>3. QED
    BY <1>2, <1>4, <2>1, <2>2, CallMoves
<1>5. CASE r = [Turn(s, o, Fresh) EXCEPT !.pc = "loop", !.held = Free] /\ o[1] = "refused"
  <2> DEFINE u == Turn(s, o, Fresh)
  <2>1. AdapterInv(a, u) /\ Begun(s, u) = {}
    BY <1>5, TurnInv, Objects1
  <2>2. /\ u \in AdapterType /\ u.pc = s.pc /\ u.dpc = s.dpc /\ u.io = s.io
    BY <1>1, Objects1 DEF Turn, AdapterType
  <2> HIDE DEF u
  <2>3. AdapterInv(a, r) /\ Begun(u, r) = {}
    <3>1. /\ r \in AdapterType /\ r.fds = u.fds /\ r.sockfd = u.sockfd
          /\ r.overlap = u.overlap /\ r.stale = u.stale /\ r.dpc = u.dpc
          /\ r.held = Free /\ r.pc = "loop" /\ r.io = u.io
          /\ r.registered = u.registered /\ r.connected = u.connected
      BY <1>5, <2>2, Objects1 DEF u, AdapterType
    <3>2. Control(a, r)
      BY <1>1, <2>2, <3>1 DEF Control
    <3>3. Undisturbed(u) => /\ r.registered => r.connected
                            /\ r.connected => u.fds[u.sockfd][1] \in {"near", "far"}
      BY <2>1, <3>1 DEF AdapterInv, Intended
    <3>4. QED
      BY <2>1, <3>1, <3>2, <3>3, CallMoves
  <2>4. QED
    BY <2>1, <2>3 DEF Begun
<1>6. QED
  BY <1>3, <1>4, <1>5 DEF Outcomes, Failed

(* The call gives up. *)
LEMMA ReturnInv ==
    ASSUME radio \in {"bluetooth", "wifi"}, NEW a \in Adapters,
           NEW s, AdapterInv(a, s), s.pc # "idle"
    PROVE  AdapterInv(a, Return(s)) /\ Begun(s, Return(s)) = {}
<1> DEFINE r == Return(s)
<1>1. s \in AdapterType /\ s.io = "none" /\ s.dpc # "gone"
  BY DEF AdapterInv, Control
<1>2. /\ r \in AdapterType /\ r.fds = s.fds /\ r.sockfd = s.sockfd
      /\ r.overlap = s.overlap /\ r.stale = s.stale /\ r.dpc = s.dpc
      /\ r.held = Free /\ r.pc = "join" /\ r.io = s.io
      /\ r.registered = s.registered /\ r.connected = s.connected
  BY <1>1, Objects1 DEF Return, AdapterType
<1> HIDE DEF r
<1>3. Control(a, r)
  BY <1>1, <1>2 DEF Control
<1>4. Undisturbed(s) => /\ r.registered => r.connected
                        /\ r.connected => s.fds[s.sockfd][1] \in {"near", "far"}
  BY <1>2 DEF AdapterInv, Intended
<1>5. AdapterInv(a, r) /\ Begun(s, r) = {}
  BY <1>2, <1>3, <1>4, CallMoves
<1>6. QED
  BY <1>5 DEF r

(* connect() of a socket that is not connected begins a connection. *)
LEMMA SynInv ==
    ASSUME radio \in {"bluetooth", "wifi"}, NEW a \in Adapters,
           NEW s, AdapterInv(a, s), s.pc = "loop",
           s.sockfd \in Fds, s.fds[s.sockfd] = Fresh, NEW k \in Conns
    PROVE  LET r == [s EXCEPT !.pc = "connecting", !.fds[s.sockfd] = Syn(k)]
           IN  AdapterInv(a, r) /\ Begun(s, r) \subseteq {Syn(k)}
<1> DEFINE r == [s EXCEPT !.pc = "connecting", !.fds[s.sockfd] = Syn(k)]
<1>1. s \in AdapterType /\ a = 2 /\ s.io = "none" /\ s.dpc # "gone"
  BY DEF AdapterInv, Control, Adapters
<1>2. /\ Syn(k) \in Sockets /\ Syn(k)[1] = "syn" /\ Syn(k) # Free /\ Syn(k) # Fresh
      /\ Free[1] = "free" /\ Fresh[1] = "fresh" /\ Fresh # Free
  BY Objects1
<1>3. /\ r \in AdapterType /\ r.sockfd = s.sockfd
      /\ r.overlap = s.overlap /\ r.stale = s.stale /\ r.dpc = s.dpc
      /\ r.held = s.held /\ r.pc = "connecting" /\ r.io = s.io
      /\ r.registered = s.registered /\ r.connected = s.connected
  BY <1>1, <1>2 DEF AdapterType
<1>4. \A m \in Fds : r.fds[m] = IF m = s.sockfd THEN Syn(k) ELSE s.fds[m]
  BY <1>1 DEF AdapterType
<1> HIDE DEF r
<1>5. s.sockfd # ListenFd /\ ListenFd \in Fds /\ RequestFd \in Fds
  BY <1>1, Numbers DEF AdapterInv, Descriptors
<1>6. r.fds[ListenFd] = s.fds[ListenFd]
  BY <1>4, <1>5
<1>7. Control(a, r)
  BY <1>1, <1>3 DEF AdapterInv, Control
<1>8. Descriptors(r)
  BY <1>1, <1>3, <1>6 DEF AdapterInv, Descriptors
<1>9. Intended(r)
  BY <1>2, <1>3, <1>4, <1>5 DEF AdapterInv, Intended, Undisturbed
<1>10. Leaked(r) = Leaked(s) /\ (Accepted(s) <=> Accepted(r))
  BY <1>1, <1>2, <1>3, <1>4, <1>6 DEF Leaked, Accepted
<1>11. Leaks(r)
  BY <1>3, <1>10 DEF AdapterInv, Leaks
<1>12. Connections(a, r)
  <2>1. \A n \in Fds : r.fds[n][1] \in Ends =>
            r.fds[n][1] \in EndsOf(a) /\ (n = r.sockfd \/ r.overlap)
    BY <1>1, <1>2, <1>3, <1>4 DEF AdapterInv, Connections, EndsOf
  <2>2. r.held[1] \in Ends => r.held[1] \in EndsOf(a)
    BY <1>3 DEF AdapterInv, Connections
  <2>3. \A x \in Objects(r) : x[1] = "far" => x \in Objects(s)
    BY <1>2, <1>3, <1>4 DEF Objects
  <2>4. QED
    BY <1>3, <1>10, <2>1, <2>2, <2>3 DEF AdapterInv, Connections
<1>13. Begun(s, r) \subseteq {Syn(k)}
  BY <1>3, <1>4 DEF Begun, Objects
<1>14. AdapterInv(a, r)
  BY <1>3, <1>7, <1>8, <1>9, <1>11, <1>12 DEF AdapterInv
<1>15. QED
  BY <1>13, <1>14 DEF r
-----------------------------------------------------------------------------
LEMMA Alone ==
    ASSUME NEW a \in Adapters, NEW r, Becomes(a, r), AdapterInv(a, r), Begun(ad[a], r) = {}
    PROVE  Solo(a)
BY DEF Solo, AdapterInv, Becomes

LEMMA ConnectStep ==
    ASSUME IInv, NEW a \in Adapters, ConnectToPeer(a)
    PROVE  Solo(a)
<1> DEFINE s == ad[a]
<1>1. /\ radio \in {"bluetooth", "wifi"} /\ s \in AdapterType /\ AdapterInv(a, s)
      /\ queue \in Seq(Conns)
  BY DEF IInv, QueueInv
<1>2. ASSUME s.pc # "idle", Becomes(a, Return(s))
      PROVE  Solo(a)
  BY <1>1, <1>2, ReturnInv, Alone
<1>3. ASSUME NEW o \in Sockets, s.pc \in {"loop", "connecting"},
             o[1] \in {"syn", "near", "refused"},
             Undisturbed(s) => s.held = Free /\ o = s.fds[s.sockfd],
             NEW r \in Outcomes(s, o) \cup {Return(s)}, Becomes(a, r)
      PROVE  Solo(a)
  BY <1>1, <1>3, OutcomesInv, Alone
<1>4. Object(s, s.sockfd) \in Sockets /\ (s.sockfd # 0 => Object(s, s.sockfd) = s.fds[s.sockfd])
  BY <1>1, Objects1 DEF Object, AdapterType
<1>5. s.pc # "idle" /\ Undisturbed(s) => s.held = Free
  BY <1>1 DEF AdapterInv, Intended
<1>6. Undisturbed(s) => s.sockfd # 0
  BY <1>1 DEF AdapterInv, Descriptors, Undisturbed
<1>7. CASE ConnectStart(a)
  <2> DEFINE o == Object(s, s.sockfd)
  <2> SUFFICES ASSUME s.pc = "loop"
               PROVE  Solo(a)
    BY <1>7 DEF ConnectStart
  <2>1. CASE Becomes(a, Return(s))
    BY <1>2, <2>1
  <2>2. CASE /\ o = Fresh /\ ~(Conns \subseteq Used)
             /\ Becomes(a, [s EXCEPT !.pc = "connecting",
                                     !.fds[s.sockfd] = Syn(Lowest(Conns \ Used))])
    <3> DEFINE k == Lowest(Conns \ Used)
               r == [s EXCEPT !.pc = "connecting", !.fds[s.sockfd] = Syn(k)]
    <3>1. k \in Conns /\ k \notin Used
      BY <2>2, LowestIn, PeerSocketsAssumption
    <3>2. s.sockfd \in Fds /\ s.fds[s.sockfd] = Fresh
      BY <1>1, <1>4, <2>2, Objects1 DEF Object, AdapterType
    <3>3. Becomes(a, r)
      BY <2>2
    <3> HIDE DEF k
    <3>4. AdapterInv(a, r) /\ Begun(s, r) \subseteq {Syn(k)}
      BY <1>1, <3>1, <3>2, SynInv
    <3>5. k \notin ToSet(queue) /\ Syn(k)[2] = k
      BY <3>1 DEF Used, Syn
    <3>6. r \in AdapterType
      BY <3>4 DEF AdapterInv
    <3> HIDE DEF r
    <3>7. QED
      BY <3>3, <3>4, <3>5, <3>6 DEF Solo, Becomes
  <2>3. ASSUME o[1] \in {"near", "refused"}, NEW r \in Outcomes(s, o) \cup {Return(s)}, Becomes(a, r)
        PROVE  Solo(a)
    BY <1>3, <1>4, <1>5, <1>6, <2>3
  <2>4. QED
    BY <1>7, <2>1, <2>2, <2>3 DEF ConnectStart
<1>8. CASE ConnectEnds(a)
  <2> DEFINE o == IF s.held # Free THEN s.held ELSE Object(s, s.sockfd)
  <2>1. s.pc = "connecting" /\ \E r \in Outcomes(s, o) : Becomes(a, r)
    BY <1>8 DEF ConnectEnds
  <2>2. o \in Sockets
    BY <1>1, <1>4 DEF AdapterType
  <2>3. Undisturbed(s) => s.held = Free /\ o = s.fds[s.sockfd]
    BY <1>4, <1>5, <1>6, <2>1
  <2>4. o[1] \in {"syn", "near", "refused"}
    BY <1>8 DEF ConnectEnds
  <2>5. QED
    BY <1>3, <2>1, <2>2, <2>3, <2>4
<1>9. QED
  BY <1>7, <1>8 DEF ConnectToPeer

(* bind() succeeds once. *)
LEMMA BindStep ==
    ASSUME IInv, NEW a \in Adapters, Bind(a)
    PROVE  Solo(a)
<1> DEFINE s == ad[a]
<1>1. /\ radio \in {"bluetooth", "wifi"} /\ s \in AdapterType /\ AdapterInv(a, s)
  BY DEF IInv
<1>2. s.pc = "bind" /\ a = 1 /\ s.io = "none" /\ s.dpc # "gone"
  BY <1>1 DEF Bind, AdapterInv, Control, Adapters
<1>3. CASE Becomes(a, Return(s))
  BY <1>1, <1>2, <1>3, ReturnInv, Alone
<1>4. CASE /\ s.fds[ListenFd] = Fresh
           /\ Becomes(a, [s EXCEPT !.pc = "accept", !.fds[ListenFd] = Bound(s.local)])
  <2> DEFINE r == [s EXCEPT !.pc = "accept", !.fds[ListenFd] = Bound(s.local)]
             o == Bound(s.local)
  <2>1. /\ o \in Sockets /\ o[1] = "bound" /\ o # Free /\ o # Fresh
        /\ Free[1] = "free" /\ Fresh[1] = "fresh" /\ Fresh # Free
    BY <1>1, Objects1 DEF AdapterType
  <2> HIDE DEF o
  <2>2. /\ r \in AdapterType /\ r.sockfd = s.sockfd
        /\ r.overlap = s.overlap /\ r.stale = s.stale /\ r.dpc = s.dpc
        /\ r.held = s.held /\ r.pc = "accept" /\ r.io = s.io
        /\ r.registered = s.registered /\ r.connected = s.connected
    BY <1>1, <2>1 DEF AdapterType, o
  <2>3. ListenFd \in Fds /\ RequestFd \in Fds /\ ListenFd # RequestFd /\ 0 \notin Fds
    BY <1>1, Numbers
  <2>4. \A m \in Fds : r.fds[m] = IF m = ListenFd THEN o ELSE s.fds[m]
    BY <1>1, <2>3 DEF AdapterType, o
  <2>5. Becomes(a, r)
    BY <1>4
  <2> HIDE DEF r
  <2>6. Control(a, r)
    BY <1>1, <1>2, <2>2 DEF AdapterInv, Control
  <2>7. Descriptors(r)
    BY <1>1, <1>2, <2>1, <2>2, <2>3, <2>4 DEF AdapterInv, Descriptors
  <2>8. Intended(r)
    <3>1. Undisturbed(s) => s.sockfd \in Fds /\ s.sockfd # ListenFd
      BY <1>1 DEF AdapterInv, Descriptors, Undisturbed, AdapterType
    <3>2. QED
      BY <1>1, <1>2, <2>1, <2>2, <2>3, <2>4, <3>1 DEF AdapterInv, Intended, Undisturbed
  <2>9. Leaked(r) = Leaked(s)
    BY <1>1, <1>4, <2>1, <2>2, <2>4 DEF Leaked
  <2>10. ~Accepted(s)
    BY <1>4 DEF Accepted
  <2>11. Leaks(r)
    BY <1>1, <2>2, <2>9, <2>10 DEF AdapterInv, Leaks
  <2>12. Connections(a, r)
    <3>1. \A n \in Fds : r.fds[n][1] \in Ends =>
              r.fds[n][1] \in EndsOf(a) /\ (n = r.sockfd \/ r.overlap)
      BY <1>1, <2>1, <2>2, <2>4 DEF AdapterInv, Connections, Ends
    <3>2. r.held[1] \in Ends => r.held[1] \in EndsOf(a)
      BY <1>1, <2>2 DEF AdapterInv, Connections
    <3>3. \A x \in Objects(r) : x[1] = "far" => x \in Objects(s)
      BY <2>1, <2>2, <2>4 DEF Objects
    <3>4. QED
      BY <1>1, <2>2, <2>10, <3>1, <3>2, <3>3 DEF AdapterInv, Connections
  <2>13. Begun(s, r) = {}
    BY <2>1, <2>2, <2>4 DEF Begun, Objects
  <2>14. QED
    BY <2>2, <2>5, <2>6, <2>7, <2>8, <2>11, <2>12, <2>13, Alone DEF AdapterInv
<1>5. QED
  BY <1>3, <1>4 DEF Bind

LEMMA AcceptFailsStep ==
    ASSUME IInv, NEW a \in Adapters, AcceptFails(a)
    PROVE  Solo(a)
BY ReturnInv, Alone DEF IInv, AcceptFails
-----------------------------------------------------------------------------
(* SendConnectionRequest() looks at its socket, ... *)
LEMMA RpcStep ==
    ASSUME IInv, NEW a \in Adapters, NEW q \in {"none", "loop", "ready", "done", "failed"},
           Becomes(a, [ad[a] EXCEPT !.rpc = q])
    PROVE  Solo(a)
<1> DEFINE s == ad[a]
           r == [s EXCEPT !.rpc = q]
<1>1. /\ radio \in {"bluetooth", "wifi"} /\ s \in AdapterType /\ AdapterInv(a, s)
  BY DEF IInv
<1>2. /\ r \in AdapterType /\ r.fds = s.fds /\ r.sockfd = s.sockfd
      /\ r.overlap = s.overlap /\ r.stale = s.stale /\ r.dpc = s.dpc
      /\ r.held = s.held /\ r.pc = s.pc /\ r.io = s.io
      /\ r.registered = s.registered /\ r.connected = s.connected
  BY <1>1 DEF AdapterType
<1>3. Becomes(a, r)
  OBVIOUS
<1> HIDE DEF r
<1>4. Control(a, r)
  BY <1>1, <1>2 DEF AdapterInv, Control
<1>5. Undisturbed(s) => /\ r.pc # "idle" => r.held = Free
                        /\ r.registered => r.connected
                        /\ r.connected => s.fds[s.sockfd][1] \in {"near", "far"}
  BY <1>1, <1>2 DEF AdapterInv, Intended
<1>6. AdapterInv(a, r) /\ Begun(s, r) = {}
  BY <1>1, <1>2, <1>4, <1>5, CallMoves
<1>7. QED
  BY <1>3, <1>6, Alone

LEMMA AnswerIn ==
    ASSUME NEW q
    PROVE  Answer(q) \in {"none", q}
BY DEF Answer

LEMMA RequestWaitStep ==
    ASSUME IInv, NEW a \in Adapters, RequestWait(a)
    PROVE  Solo(a)
<1>1. Answer("done") \in {"none", "done"} /\ Answer("failed") \in {"none", "failed"}
  BY AnswerIn
<1>2. QED
  BY <1>1, RpcStep DEF RequestWait

(* ... and connects it, closes it and forgets that it did, or goes on.     *)
LEMMA ServedInv ==
    ASSUME radio \in {"bluetooth", "wifi"}, NEW a \in Adapters, NEW s, AdapterInv(a, s),
           s.fds[RequestFd] = Fresh, NEW q \in {"none", "done"}
    PROVE  LET r == [s EXCEPT !.rpc = q, !.fds[RequestFd] = Served]
           IN  AdapterInv(a, r) /\ Begun(s, r) = {}
<1> DEFINE r == [s EXCEPT !.rpc = q, !.fds[RequestFd] = Served]
<1>1. s \in AdapterType
  BY DEF AdapterInv
<1>2. /\ Served \in Sockets /\ Served[1] = "served" /\ Served # Free /\ Served # Fresh
      /\ Free[1] = "free" /\ Fresh[1] = "fresh" /\ Fresh # Free
  BY Objects1
<1>3. ListenFd \in Fds /\ RequestFd \in Fds /\ ListenFd # RequestFd /\ 0 \notin Fds
  BY <1>1, Numbers
<1>4. /\ r \in AdapterType /\ r.sockfd = s.sockfd
      /\ r.overlap = s.overlap /\ r.stale = s.stale /\ r.dpc = s.dpc
      /\ r.held = s.held /\ r.pc = s.pc /\ r.io = s.io
      /\ r.registered = s.registered /\ r.connected = s.connected
  BY <1>1, <1>2 DEF AdapterType
<1>5. \A m \in Fds : r.fds[m] = IF m = RequestFd THEN Served ELSE s.fds[m]
  BY <1>1, <1>3 DEF AdapterType
<1> HIDE DEF r
<1>6. Control(a, r)
  BY <1>4 DEF AdapterInv, Control
<1>7. Descriptors(r)
  BY <1>2, <1>3, <1>4, <1>5 DEF AdapterInv, Descriptors
<1>8. Intended(r)
  <2>1. Undisturbed(s) => s.sockfd \in Fds /\ s.sockfd # RequestFd
    BY <1>1 DEF AdapterInv, Descriptors, Intended, Undisturbed, AdapterType
  <2>2. QED
    BY <1>2, <1>3, <1>4, <1>5, <2>1 DEF AdapterInv, Intended, Undisturbed
<1>9. Leaked(r) = Leaked(s) /\ (Accepted(s) <=> Accepted(r))
  BY <1>2, <1>3, <1>4, <1>5 DEF Leaked, Accepted
<1>10. Leaks(r)
  BY <1>4, <1>9 DEF AdapterInv, Leaks
<1>11. Connections(a, r)
  <2>1. \A n \in Fds : r.fds[n][1] \in Ends =>
            r.fds[n][1] \in EndsOf(a) /\ (n = r.sockfd \/ r.overlap)
    BY <1>2, <1>4, <1>5 DEF AdapterInv, Connections, Ends
  <2>2. r.held[1] \in Ends => r.held[1] \in EndsOf(a)
    BY <1>4 DEF AdapterInv, Connections
  <2>3. \A x \in Objects(r) : x[1] = "far" => x \in Objects(s)
    BY <1>2, <1>4, <1>5 DEF Objects
  <2>4. QED
    BY <1>4, <1>9, <2>1, <2>2, <2>3 DEF AdapterInv, Connections
<1>12. Begun(s, r) = {}
  BY <1>2, <1>4, <1>5 DEF Begun, Objects
<1>13. QED
  BY <1>4, <1>6, <1>7, <1>8, <1>10, <1>11, <1>12 DEF AdapterInv, r

LEMMA StaleInv ==
    ASSUME radio \in {"bluetooth", "wifi"}, NEW a \in Adapters, NEW s, AdapterInv(a, s),
           NEW q \in {"none", "failed"}
    PROVE  LET r == [Close(s, RequestFd) EXCEPT !.rpc = q, !.stale = TRUE]
           IN  AdapterInv(a, r) /\ Begun(s, r) = {}
<1> DEFINE c == Close(s, RequestFd)
           r == [c EXCEPT !.rpc = q, !.stale = TRUE]
<1>1. s \in AdapterType
  BY DEF AdapterInv
<1>2. ListenFd \in Fds /\ RequestFd \in Fds /\ ListenFd # RequestFd /\ 0 \notin Fds
  BY <1>1, Numbers
<1>3. /\ c \in AdapterType
      /\ c = [s EXCEPT !.fds = c.fds, !.held = c.held]
      /\ \A m \in Fds : c.fds[m] = IF m = RequestFd THEN Free ELSE s.fds[m]
      /\ \/ c.held = s.held
         \/ c.held = s.fds[RequestFd] /\ (s.pc = "connecting" \/ s.io # "none")
  BY <1>1, <1>2, CloseFacts
<1> HIDE DEF c
<1>4. /\ r \in AdapterType /\ r.sockfd = s.sockfd
      /\ r.overlap = s.overlap /\ r.stale = TRUE /\ r.dpc = s.dpc
      /\ r.held = c.held /\ r.pc = s.pc /\ r.io = s.io
  <2>1. c.sockfd = s.sockfd /\ c.overlap = s.overlap /\ c.dpc = s.dpc
        /\ c.pc = s.pc /\ c.io = s.io
    BY <1>1, <1>3 DEF AdapterType
  <2>2. /\ r \in AdapterType /\ r.sockfd = c.sockfd
        /\ r.overlap = c.overlap /\ r.stale = TRUE /\ r.dpc = c.dpc
        /\ r.held = c.held /\ r.pc = c.pc /\ r.io = c.io
    BY <1>3 DEF AdapterType
  <2>3. QED
    BY <2>1, <2>2
<1>5. \A m \in Fds : r.fds[m] = IF m = RequestFd THEN Free ELSE s.fds[m]
  BY <1>3 DEF AdapterType
<1> HIDE DEF r
<1>6. Control(a, r)
  BY <1>3, <1>4 DEF AdapterInv, Control
<1>7. Descriptors(r)
  BY <1>2, <1>4, <1>5 DEF AdapterInv, Descriptors
<1>8. Intended(r)
  BY <1>4 DEF Intended, Undisturbed
<1>9. Leaked(r) \subseteq Leaked(s) /\ (Accepted(s) <=> Accepted(r))
  BY <1>2, <1>4, <1>5 DEF Leaked, Accepted
<1>10. Leaks(r)
  BY <1>4, <1>9 DEF AdapterInv, Leaks
<1>11. /\ \A x \in Objects(r) : x \in Objects(s) \cup {Free}
       /\ Free[1] = "free"
  BY <1>2, <1>3, <1>4, <1>5 DEF Objects, Free
<1>12. Connections(a, r)
  <2>1. \A n \in Fds : r.fds[n][1] \in Ends =>
            r.fds[n][1] \in EndsOf(a) /\ (n = r.sockfd \/ r.overlap)
    BY <1>4, <1>5, <1>11 DEF AdapterInv, Connections, Ends
  <2>2. r.held[1] \in Ends => r.held[1] \in EndsOf(a)
    BY <1>2, <1>3, <1>4 DEF AdapterInv, Connections
  <2>3. QED
    BY <1>4, <1>9, <1>11, <2>1, <2>2 DEF AdapterInv, Connections
<1>13. Begun(s, r) = {}
  BY <1>11 DEF Begun
<1>14. QED
  BY <1>4, <1>6, <1>7, <1>8, <1>10, <1>12, <1>13 DEF AdapterInv, r, c

LEMMA RequestConnectStep ==
    ASSUME IInv, NEW a \in Adapters, RequestConnect(a)
    PROVE  Solo(a)
<1> DEFINE s == ad[a]
<1>1. /\ radio \in {"bluetooth", "wifi"} /\ s \in AdapterType /\ AdapterInv(a, s)
  BY DEF IInv
<1>2. Answer("done") \in {"none", "done"} /\ Answer("failed") \in {"none", "failed"}
  BY AnswerIn
<1>3. CASE Becomes(a, [Close(s, RequestFd) EXCEPT !.rpc = Answer("failed"), !.stale = TRUE])
  BY <1>1, <1>2, <1>3, StaleInv, Alone
<1>4. CASE /\ Object(s, RequestFd) = Fresh
           /\ Becomes(a, [s EXCEPT !.rpc = Answer("done"), !.fds[RequestFd] = Served])
  <2>1. s.fds[RequestFd] = Fresh
    BY <1>1, <1>4, Numbers DEF Object
  <2>2. QED
    BY <1>1, <1>2, <1>4, <2>1, ServedInv, Alone
<1>5. ASSUME NEW q \in {"loop", Answer("done"), Answer("failed")}, Becomes(a, [s EXCEPT !.rpc = q])
      PROVE  Solo(a)
  BY <1>2, <1>5, RpcStep
<1>6. QED
  BY <1>3, <1>4, <1>5 DEF RequestConnect
-----------------------------------------------------------------------------
LEMMA ExpireStep ==
    ASSUME IInv, NEW a \in Adapters, Expire(a)
    PROVE  Solo(a)
<1> DEFINE s == ad[a]
           r == [s EXCEPT !.late = TRUE]
<1>1. /\ radio \in {"bluetooth", "wifi"} /\ s \in AdapterType /\ AdapterInv(a, s)
  BY DEF IInv
<1>2. /\ r \in AdapterType /\ r.fds = s.fds /\ r.sockfd = s.sockfd
      /\ r.overlap = s.overlap /\ r.stale = s.stale /\ r.dpc = s.dpc
      /\ r.held = s.held /\ r.pc = s.pc /\ r.io = s.io
      /\ r.registered = s.registered /\ r.connected = s.connected
  BY <1>1 DEF AdapterType
<1>3. Becomes(a, r)
  BY DEF Expire
<1> HIDE DEF r
<1>4. Control(a, r)
  BY <1>1, <1>2 DEF AdapterInv, Control
<1>5. Undisturbed(s) => /\ r.pc # "idle" => r.held = Free
                        /\ r.registered => r.connected
                        /\ r.connected => s.fds[s.sockfd][1] \in {"near", "far"}
  BY <1>1, <1>2 DEF AdapterInv, Intended
<1>6. AdapterInv(a, r) /\ Begun(s, r) = {}
  BY <1>1, <1>2, <1>4, <1>5, CallMoves
<1>7. QED
  BY <1>3, <1>6, Alone

LEMMA ConcludeStep ==
    ASSUME IInv, NEW a \in Adapters, Conclude(a)
    PROVE  Solo(a)
<1> DEFINE s == ad[a]
           t == IF s.connected THEN ConfigureSocketForComms(s) ELSE s
           r == [t EXCEPT !.pc = "idle", !.registered = s.connected, !.late = FALSE,
                          !.rpc = "none"]
<1>1. /\ radio \in {"bluetooth", "wifi"} /\ s \in AdapterType /\ AdapterInv(a, s)
      /\ s.pc = "join" /\ Becomes(a, r)
  BY DEF IInv, Conclude
<1>2. PICK b \in BOOLEAN : t = [s EXCEPT !.timed = b]
  <2>1. s = [s EXCEPT !.timed = s.timed] /\ s.timed \in BOOLEAN
    BY <1>1 DEF AdapterType
  <2>2. QED
    BY <2>1 DEF ConfigureSocketForComms
<1> HIDE DEF t
<1>3. /\ r \in AdapterType /\ r.fds = s.fds /\ r.sockfd = s.sockfd
      /\ r.overlap = s.overlap /\ r.stale = s.stale /\ r.dpc = s.dpc
      /\ r.held = s.held /\ r.pc = "idle" /\ r.io = s.io
      /\ r.registered = s.connected /\ r.connected = s.connected
  <2>1. /\ t \in AdapterType /\ t.fds = s.fds /\ t.sockfd = s.sockfd
        /\ t.overlap = s.overlap /\ t.stale = s.stale /\ t.dpc = s.dpc
        /\ t.held = s.held /\ t.io = s.io /\ t.connected = s.connected
    BY <1>1, <1>2 DEF AdapterType
  <2>2. PICK v \in BOOLEAN : v = s.connected
    BY <1>1 DEF AdapterType
  <2>3. r = [t EXCEPT !.pc = "idle", !.registered = v, !.late = FALSE, !.rpc = "none"]
    BY <2>2
  <2> HIDE DEF r
  <2>4. /\ r \in AdapterType /\ r.fds = t.fds /\ r.sockfd = t.sockfd
        /\ r.overlap = t.overlap /\ r.stale = t.stale /\ r.dpc = t.dpc
        /\ r.held = t.held /\ r.pc = "idle" /\ r.io = t.io
        /\ r.registered = v /\ r.connected = t.connected
    BY <2>1, <2>3 DEF AdapterType
  <2>5. QED
    BY <2>1, <2>2, <2>4
<1> HIDE DEF r
<1>4. Control(a, r)
  BY <1>1, <1>3 DEF AdapterInv, Control
<1>5. Undisturbed(s) => /\ r.pc # "idle" => r.held = Free
                        /\ r.registered => r.connected
                        /\ r.connected => s.fds[s.sockfd][1] \in {"near", "far"}
  BY <1>1, <1>3 DEF AdapterInv, Intended
<1>6. AdapterInv(a, r) /\ Begun(s, r) = {}
  BY <1>1, <1>3, <1>4, <1>5, CallMoves
<1>7. QED
  BY <1>1, <1>6, Alone

(* send() and recv() change nothing but themselves. *)
LEMMA MessageStep ==
    ASSUME IInv, NEW a \in Adapters, Send(a) \/ Recv(a) \/ MessageEnds(a)
    PROVE  Solo(a)
<1> DEFINE s == ad[a]
<1>1. /\ radio \in {"bluetooth", "wifi"} /\ s \in AdapterType /\ AdapterInv(a, s)
  BY DEF IInv
<1>2. PICK q \in {"none", "timed", "endless"}, h \in {s.held, Free} :
        /\ Becomes(a, [s EXCEPT !.io = q, !.held = h])
        /\ q # "none" => s.pc = "idle" /\ s.dpc # "gone"
        /\ q = "none" => h = Free
        /\ q # "none" => h = s.held
  <2>1. CASE Send(a)
    <3>1. [s EXCEPT !.io = "timed"] = [s EXCEPT !.io = "timed", !.held = s.held]
      BY <1>1 DEF AdapterType
    <3>2. QED
      BY <2>1, <3>1 DEF Send, InUse
  <2>2. CASE Recv(a)
    <3> DEFINE q == IF s.timed THEN "timed" ELSE "endless"
    <3>1. [s EXCEPT !.io = q] = [s EXCEPT !.io = q, !.held = s.held]
      BY <1>1 DEF AdapterType
    <3>2. Becomes(a, [s EXCEPT !.io = q]) /\ s.pc = "idle" /\ s.dpc # "gone"
      BY <2>2 DEF Recv, InUse
    <3>3. q \in {"timed", "endless"}
      OBVIOUS
    <3> HIDE DEF q
    <3>4. QED
      BY <3>1, <3>2, <3>3
  <2>3. CASE MessageEnds(a)
    BY <2>3 DEF MessageEnds
  <2>4. QED
    BY <2>1, <2>2, <2>3
<1> DEFINE r == [s EXCEPT !.io = q, !.held = h]
<1>3. /\ r \in AdapterType /\ r.fds = s.fds /\ r.sockfd = s.sockfd
      /\ r.overlap = s.overlap /\ r.stale = s.stale /\ r.dpc = s.dpc
      /\ r.held = h /\ r.pc = s.pc /\ r.io = q
      /\ r.registered = s.registered /\ r.connected = s.connected
  BY <1>1, Objects1 DEF AdapterType
<1>4. Becomes(a, r)
  BY <1>2
<1> HIDE DEF r
<1>5. Control(a, r)
  BY <1>1, <1>2, <1>3 DEF AdapterInv, Control
<1>6. Undisturbed(s) => /\ r.pc # "idle" => r.held = Free
                        /\ r.registered => r.connected
                        /\ r.connected => s.fds[s.sockfd][1] \in {"near", "far"}
  BY <1>1, <1>3 DEF AdapterInv, Intended
<1>7. AdapterInv(a, r) /\ Begun(s, r) = {}
  BY <1>1, <1>2, <1>3, <1>5, <1>6, CallMoves
<1>8. QED
  BY <1>4, <1>7, Alone

(* conn() begins. *)
LEMMA ConnStep ==
    ASSUME IInv, NEW a \in Adapters, BtConn(a) \/ WifiConn(a)
    PROVE  Solo(a)
<1> DEFINE s == ad[a]
<1>1. /\ radio \in {"bluetooth", "wifi"} /\ s \in AdapterType /\ AdapterInv(a, s)
      /\ given \in BOOLEAN
  BY DEF IInv
<1>2. /\ s.pc = "idle" /\ s.io = "none" /\ ~s.registered /\ s.dpc # "gone"
      /\ s.held = Free
  BY <1>1 DEF BtConn, WifiConn, MayConnect, AdapterInv, Control
<1>3. PICK q \in {"bind", "loop", "request"}, m \in {s.rpc, "loop"}, p \in LinkPorts :
        /\ Becomes(a, [s EXCEPT !.connected = FALSE, !.pc = q, !.rpc = m, !.local = p])
        /\ a = 1 <=> q = "bind"
  <2>1. CASE BtConn(a)
    <3>1. BtIsListener(a) <=> a = 1
      BY DEF BtIsListener, Peer, Adapters
    <3> DEFINE q == IF BtIsListener(a) THEN "bind" ELSE "loop"
    <3>2. [s EXCEPT !.connected = FALSE, !.rpc = "loop", !.pc = q] =
          [s EXCEPT !.connected = FALSE, !.pc = q, !.rpc = "loop", !.local = s.local]
      BY <1>1 DEF AdapterType
    <3>3. Becomes(a, [s EXCEPT !.connected = FALSE, !.rpc = "loop", !.pc = q])
      BY <2>1 DEF BtConn
    <3>4. q \in {"bind", "loop"} /\ (a = 1 <=> q = "bind") /\ s.local \in LinkPorts
      BY <1>1, <3>1 DEF AdapterType
    <3> HIDE DEF q
    <3>5. QED
      BY <3>2, <3>3, <3>4
  <2>2. CASE WifiConn(a) /\ a = 1
    <3>1. WifiDeviceType(a) = "router" /\ WifiLocalPort \in LinkPorts
      BY <2>2 DEF WifiDeviceType, WifiLocalPort, LinkPorts
    <3>2. Becomes(a, [s EXCEPT !.connected = FALSE, !.pc = "bind", !.local = WifiLocalPort])
      BY <2>2, <3>1 DEF WifiConn
    <3>3. [s EXCEPT !.connected = FALSE, !.pc = "bind", !.local = WifiLocalPort] =
          [s EXCEPT !.connected = FALSE, !.pc = "bind", !.rpc = s.rpc, !.local = WifiLocalPort]
      BY <1>1 DEF AdapterType
    <3>4. QED
      BY <2>2, <3>1, <3>2, <3>3
  <2>3. CASE WifiConn(a) /\ a # 1
    <3>1. WifiDeviceType(a) = "adapter"
      BY <2>3 DEF WifiDeviceType
    <3>2. Becomes(a, [s EXCEPT !.connected = FALSE, !.pc = "request", !.rpc = "loop"])
      BY <2>3, <3>1 DEF WifiConn
    <3>3. [s EXCEPT !.connected = FALSE, !.pc = "request", !.rpc = "loop"] =
          [s EXCEPT !.connected = FALSE, !.pc = "request", !.rpc = "loop", !.local = s.local]
      BY <1>1 DEF AdapterType
    <3>4. s.local \in LinkPorts
      BY <1>1 DEF AdapterType
    <3>5. QED
      BY <2>3, <3>2, <3>3, <3>4
  <2>4. QED
    BY <2>1, <2>2, <2>3
<1> DEFINE r == [s EXCEPT !.connected = FALSE, !.pc = q, !.rpc = m, !.local = p]
<1>4. /\ r \in AdapterType /\ r.fds = s.fds /\ r.sockfd = s.sockfd
      /\ r.overlap = s.overlap /\ r.stale = s.stale /\ r.dpc = s.dpc
      /\ r.held = s.held /\ r.pc = q /\ r.io = s.io
      /\ r.registered = s.registered /\ r.connected = FALSE
  BY <1>1 DEF AdapterType
<1>5. Becomes(a, r)
  BY <1>3
<1> HIDE DEF r
<1>6. Control(a, r)
  BY <1>2, <1>3, <1>4 DEF Control, Adapters
<1>7. AdapterInv(a, r) /\ Begun(s, r) = {}
  BY <1>1, <1>2, <1>4, <1>6, CallMoves
<1>8. QED
  BY <1>5, <1>7, Alone

(* The request of a Wi-Fi adapter fails, or the access point answers.      *)
LEMMA WifiRequestStep ==
    ASSUME IInv, NEW a \in Adapters, WifiRequestFails(a) \/ WifiExchange(a)
    PROVE  Solo(a)
<1> DEFINE s == ad[a]
<1>1. /\ radio \in {"bluetooth", "wifi"} /\ s \in AdapterType /\ AdapterInv(a, s)
      /\ s.pc = "request"
  BY DEF IInv, WifiRequestFails, WifiExchange
<1>2. a = 2 /\ s.io = "none" /\ s.dpc # "gone" /\ s.held = Free
  BY <1>1 DEF AdapterInv, Control, Adapters
<1>3. PICK q \in {"join", "loop"}, p \in LinkPorts :
        /\ ad' = [ad EXCEPT ![a] = [s EXCEPT !.pc = q, !.rpc = "none", !.remote = p]]
        /\ UNCHANGED <<radio, queue>> /\ given' \in {given, TRUE}
  <2>1. CASE Becomes(a, [s EXCEPT !.pc = "join", !.rpc = "none"])
    <3>1. /\ [s EXCEPT !.pc = "join", !.rpc = "none"] =
             [s EXCEPT !.pc = "join", !.rpc = "none", !.remote = s.remote]
          /\ s.remote \in LinkPorts
      BY <1>1 DEF AdapterType
    <3>2. QED
      BY <2>1, <3>1 DEF Becomes
  <2>2. CASE /\ ad' = [ad EXCEPT ![a] = [SetupRemoteAddr(s, LinkPort)
                                          EXCEPT !.pc = "loop", !.rpc = "none"]]
             /\ given' = TRUE
             /\ UNCHANGED <<radio, queue>>
    <3>1. [SetupRemoteAddr(s, LinkPort) EXCEPT !.pc = "loop", !.rpc = "none"] =
          [s EXCEPT !.pc = "loop", !.rpc = "none", !.remote = LinkPort]
      BY <1>1 DEF AdapterType, SetupRemoteAddr
    <3>2. LinkPort \in LinkPorts
      BY DEF LinkPorts
    <3>3. QED
      BY <2>2, <3>1, <3>2
  <2>3. QED
    BY <2>1, <2>2 DEF WifiRequestFails, WifiExchange
<1> DEFINE r == [s EXCEPT !.pc = q, !.rpc = "none", !.remote = p]
<1>4. /\ r \in AdapterType /\ r.fds = s.fds /\ r.sockfd = s.sockfd
      /\ r.overlap = s.overlap /\ r.stale = s.stale /\ r.dpc = s.dpc
      /\ r.held = s.held /\ r.pc = q /\ r.io = s.io
      /\ r.registered = s.registered /\ r.connected = s.connected
  BY <1>1 DEF AdapterType
<1>5. ad' = [ad EXCEPT ![a] = r]
  BY <1>3
<1> HIDE DEF r
<1>6. Control(a, r)
  BY <1>2, <1>4 DEF Control
<1>7. Undisturbed(s) => /\ r.pc # "idle" => r.held = Free
                        /\ r.registered => r.connected
                        /\ r.connected => s.fds[s.sockfd][1] \in {"near", "far"}
  BY <1>1, <1>2, <1>4 DEF AdapterInv, Intended
<1>8. AdapterInv(a, r) /\ Begun(s, r) = {}
  BY <1>1, <1>2, <1>4, <1>6, <1>7, CallMoves
<1>9. QED
  BY <1>3, <1>4, <1>5, <1>8 DEF Solo

(* bratislavaDestroy() takes the lock. *)
LEMMA DestroyLocksStep ==
    ASSUME IInv, NEW a \in Adapters, DestroyLocks(a)
    PROVE  Solo(a)
<1> DEFINE s == ad[a]
           r == [s EXCEPT !.dpc = "locked"]
<1>1. /\ radio \in {"bluetooth", "wifi"} /\ s \in AdapterType /\ AdapterInv(a, s)
      /\ s.dpc = "created" /\ Becomes(a, r)
  BY DEF IInv, DestroyLocks
<1>2. /\ r \in AdapterType /\ r.fds = s.fds /\ r.sockfd = s.sockfd
      /\ r.overlap = s.overlap /\ r.stale = s.stale /\ r.dpc = "locked"
      /\ r.held = s.held /\ r.pc = s.pc /\ r.io = s.io
  BY <1>1 DEF AdapterType
<1> HIDE DEF r
<1>3. Control(a, r)
  BY <1>1, <1>2 DEF AdapterInv, Control
<1>4. AdapterInv(a, r) /\ Begun(s, r) = {}
  BY <1>1, <1>2, <1>3, CallMoves DEF Undisturbed
<1>5. QED
  BY <1>1, <1>4, Alone
-----------------------------------------------------------------------------
LEMMA CloseSocketFacts ==
    ASSUME NEW s \in AdapterType, radio \in {"bluetooth", "wifi"}
    PROVE  LET c == CloseSocket(s)
           IN  /\ c \in AdapterType
               /\ c = [s EXCEPT !.fds = c.fds, !.held = c.held, !.sockfd = 0]
               /\ \A m \in Fds : c.fds[m] = IF m = s.sockfd THEN Free ELSE s.fds[m]
               /\ \/ c.held = s.held
                  \/ /\ s.sockfd \in Fds /\ c.held = s.fds[s.sockfd]
                     /\ s.pc = "connecting" \/ s.io # "none"
<1> DEFINE d == Close(s, s.sockfd)
           c == CloseSocket(s)
<1>1. s.sockfd \in Fds \cup {0}
  BY DEF AdapterType
<1>2. /\ d \in AdapterType
      /\ d = [s EXCEPT !.fds = d.fds, !.held = d.held]
      /\ \A m \in Fds : d.fds[m] = IF m = s.sockfd THEN Free ELSE s.fds[m]
      /\ \/ d.held = s.held
         \/ /\ s.sockfd \in Fds /\ d.held = s.fds[s.sockfd]
            /\ s.pc = "connecting" \/ s.io # "none"
  BY <1>1, CloseFacts
<1>3. c = [d EXCEPT !.sockfd = 0]
  BY DEF CloseSocket
<1> HIDE DEF d, c
<1>4. c \in AdapterType /\ c.fds = d.fds /\ c.held = d.held
  BY <1>2, <1>3 DEF AdapterType
<1>5. c = [s EXCEPT !.fds = c.fds, !.held = c.held, !.sockfd = 0]
  BY <1>2, <1>3, <1>4 DEF AdapterType
<1>6. QED
  BY <1>2, <1>4, <1>5 DEF c

LEMMA CreateSocketFacts ==
    ASSUME NEW s \in AdapterType, \E n \in Fds : s.fds[n] = Free
    PROVE  LET c == CreateSocket(s)
           IN  /\ c \in AdapterType /\ c.sockfd \in Fds /\ s.fds[c.sockfd] = Free
               /\ c = [s EXCEPT !.fds = c.fds, !.sockfd = c.sockfd]
               /\ \A m \in Fds : c.fds[m] = IF m = c.sockfd THEN Fresh ELSE s.fds[m]
<1> DEFINE n == Open(s, Fresh).fd
           c == CreateSocket(s)
<1>1. n \in Fds /\ s.fds[n] = Free /\ Open(s, Fresh).s = [s EXCEPT !.fds[n] = Fresh]
  BY OpenFacts, Objects1
<1>2. c = [[s EXCEPT !.fds[n] = Fresh] EXCEPT !.sockfd = n]
  BY <1>1 DEF CreateSocket
<1> HIDE DEF n, c
<1>3. c = [s EXCEPT !.fds = c.fds, !.sockfd = c.sockfd] /\ c.sockfd = n
  BY <1>2 DEF AdapterType
<1>4. c \in AdapterType
  BY <1>1, <1>2, Objects1 DEF AdapterType
<1>5. \A m \in Fds : c.fds[m] = IF m = n THEN Fresh ELSE s.fds[m]
  BY <1>1, <1>2 DEF AdapterType
<1>6. QED
  BY <1>1, <1>3, <1>4, <1>5 DEF c

(* interrupt() closes sockfd_ ... *)
LEMMA InterruptCloseStep ==
    ASSUME IInv, NEW a \in Adapters, InterruptClose(a)
    PROVE  Solo(a)
<1> DEFINE s == ad[a]
           c == CloseSocket(s)
           r == [c EXCEPT !.connected = FALSE, !.dpc = "closed"]
<1>1. /\ radio \in {"bluetooth", "wifi"} /\ s \in AdapterType /\ AdapterInv(a, s)
      /\ s.dpc = "none" /\ Becomes(a, r)
  BY DEF IInv, InterruptClose
<1>2. /\ c \in AdapterType
      /\ c = [s EXCEPT !.fds = c.fds, !.held = c.held, !.sockfd = 0]
      /\ \A m \in Fds : c.fds[m] = IF m = s.sockfd THEN Free ELSE s.fds[m]
      /\ \/ c.held = s.held
         \/ /\ s.sockfd \in Fds /\ c.held = s.fds[s.sockfd]
            /\ s.pc = "connecting" \/ s.io # "none"
  BY <1>1, CloseSocketFacts
<1> HIDE DEF c
<1>3. /\ r \in AdapterType /\ r.sockfd = 0 /\ r.fds = c.fds /\ r.held = c.held
      /\ r.overlap = s.overlap /\ r.dpc = "closed"
      /\ r.pc = s.pc /\ r.io = s.io
  BY <1>1, <1>2 DEF AdapterType
<1> HIDE DEF r
<1>4. ListenFd \in Fds /\ RequestFd \in Fds /\ 0 \notin Fds /\ ListenFd # s.sockfd
  BY <1>1, Numbers DEF AdapterInv, Descriptors
<1>5. r.fds[ListenFd] = s.fds[ListenFd]
  BY <1>2, <1>3, <1>4
<1>6. Control(a, r)
  BY <1>1, <1>2, <1>3 DEF AdapterInv, Control
<1>7. Descriptors(r)
  BY <1>1, <1>3, <1>4, <1>5 DEF AdapterInv, Descriptors
<1>8. Intended(r)
  BY <1>3 DEF Intended, Undisturbed
<1>9. Leaked(r) \subseteq Leaked(s) /\ (Accepted(s) <=> Accepted(r))
  BY <1>1, <1>2, <1>3, <1>5 DEF Leaked, Accepted
<1>10. Leaks(r)
  BY <1>1, <1>3, <1>9 DEF AdapterInv, Leaks
<1>11. /\ \A x \in Objects(r) : x \in Objects(s) \cup {Free}
       /\ Free[1] = "free"
  BY <1>2, <1>3 DEF Objects, Free
<1>12. Connections(a, r)
  <2>1. \A n \in Fds : r.fds[n][1] \in Ends =>
            r.fds[n][1] \in EndsOf(a) /\ (n = r.sockfd \/ r.overlap)
    BY <1>1, <1>2, <1>3, <1>11 DEF AdapterInv, Connections, Ends
  <2>2. r.held[1] \in Ends => r.held[1] \in EndsOf(a)
    BY <1>1, <1>2, <1>3 DEF AdapterInv, Connections
  <2>3. QED
    BY <1>1, <1>3, <1>9, <1>11, <2>1, <2>2 DEF AdapterInv, Connections
<1>13. Begun(s, r) = {}
  BY <1>11 DEF Begun
<1>14. AdapterInv(a, r)
  BY <1>3, <1>6, <1>7, <1>8, <1>10, <1>12 DEF AdapterInv
<1>15. QED
  BY <1>1, <1>13, <1>14, Alone

(* ... and opens it again; accept() may have come between the two.         *)
LEMMA InterruptCreateStep ==
    ASSUME IInv, NEW a \in Adapters, InterruptCreate(a)
    PROVE  Solo(a)
<1> DEFINE s == ad[a]
           c == CreateSocket(s)
           r == [c EXCEPT !.dpc = "created", !.timed = FALSE]
<1>1. /\ radio \in {"bluetooth", "wifi"} /\ s \in AdapterType /\ AdapterInv(a, s)
      /\ s.dpc = "closed" /\ Becomes(a, r)
  BY DEF IInv, InterruptCreate
<1>2. \E n \in Fds : s.fds[n] = Free
  BY <1>1, SomeFree DEF AdapterInv
<1>3. /\ c \in AdapterType /\ c.sockfd \in Fds /\ s.fds[c.sockfd] = Free
      /\ c = [s EXCEPT !.fds = c.fds, !.sockfd = c.sockfd]
      /\ \A m \in Fds : c.fds[m] = IF m = c.sockfd THEN Fresh ELSE s.fds[m]
  BY <1>1, <1>2, CreateSocketFacts
<1> HIDE DEF c
<1>4. /\ r \in AdapterType /\ r.sockfd = c.sockfd /\ r.fds = c.fds /\ r.held = s.held
      /\ r.overlap = s.overlap /\ r.dpc = "created"
      /\ r.pc = s.pc /\ r.io = s.io
  BY <1>1, <1>3 DEF AdapterType
<1> HIDE DEF r
<1>5. /\ ListenFd \in Fds /\ RequestFd \in Fds /\ 0 \notin Fds
      /\ Free[1] = "free" /\ Fresh[1] = "fresh" /\ Fresh # Free
  BY <1>1, Numbers, Objects1
<1>6. r.fds[ListenFd] = s.fds[ListenFd] /\ r.sockfd # ListenFd
  BY <1>1, <1>3, <1>4, <1>5 DEF AdapterInv, Descriptors
<1>7. Control(a, r)
  BY <1>1, <1>4 DEF AdapterInv, Control
<1>8. Descriptors(r)
  BY <1>1, <1>3, <1>4, <1>5, <1>6 DEF AdapterInv, Descriptors
<1>9. Intended(r)
  BY <1>4 DEF Intended, Undisturbed
<1>10. Leaked(r) \subseteq Leaked(s) \cup {s.sockfd} /\ (Accepted(s) <=> Accepted(r))
  BY <1>1, <1>3, <1>4, <1>6 DEF Leaked, Accepted
<1>11. Leaks(r)
  <2>1. CASE s.sockfd = 0
    <3>1. Leaked(r) \subseteq Leaked(s)
      BY <1>5, <1>10, <2>1 DEF Leaked
    <3>2. QED
      BY <1>1, <1>4, <1>10, <3>1 DEF AdapterInv, Leaks
  <2>2. CASE s.sockfd # 0
    <3>1. Leaked(s) = {} /\ Accepted(s)
      BY <1>1, <2>2 DEF AdapterInv, Leaks
    <3>2. QED
      BY <1>4, <1>10, <3>1 DEF Leaks
  <2>3. QED
    BY <2>1, <2>2
<1>12. \A x \in Objects(r) : x \in Objects(s) \cup {Fresh}
  BY <1>3, <1>4 DEF Objects
<1>13. Connections(a, r)
  <2>1. s.sockfd # 0 => s.overlap
    BY <1>1 DEF AdapterInv, Leaks
  <2>2. \A n \in Fds : r.fds[n][1] \in Ends =>
            r.fds[n][1] \in EndsOf(a) /\ (n = r.sockfd \/ r.overlap)
    BY <1>1, <1>3, <1>4, <1>5, <2>1 DEF AdapterInv, Connections, Ends
  <2>3. r.held[1] \in Ends => r.held[1] \in EndsOf(a)
    BY <1>1, <1>4 DEF AdapterInv, Connections
  <2>4. QED
    BY <1>1, <1>4, <1>5, <1>10, <1>12, <2>2, <2>3 DEF AdapterInv, Connections
<1>14. Begun(s, r) = {}
  BY <1>5, <1>12 DEF Begun
<1>15. AdapterInv(a, r)
  BY <1>4, <1>7, <1>8, <1>9, <1>11, <1>13 DEF AdapterInv
<1>16. QED
  BY <1>1, <1>14, <1>15, Alone

LEMMA DisconnStep ==
    ASSUME IInv, NEW a \in Adapters, Disconn(a)
    PROVE  Solo(a)
<1> DEFINE s == ad[a]
           c == CloseSocket(s)
           d == CreateSocket(c)
           r == [d EXCEPT !.connected = FALSE, !.registered = FALSE, !.timed = FALSE]
<1>1. /\ radio \in {"bluetooth", "wifi"} /\ s \in AdapterType /\ AdapterInv(a, s)
      /\ s.pc = "idle" /\ s.dpc \in {"none", "created"} /\ Becomes(a, r)
  BY DEF IInv, Disconn
<1>2. s.sockfd \in Fds
  BY <1>1 DEF AdapterInv, Descriptors, AdapterType
<1>3. /\ c \in AdapterType
      /\ c = [s EXCEPT !.fds = c.fds, !.held = c.held, !.sockfd = 0]
      /\ \A m \in Fds : c.fds[m] = IF m = s.sockfd THEN Free ELSE s.fds[m]
      /\ c.held = s.held \/ (c.held = s.fds[s.sockfd] /\ s.io # "none")
  BY <1>1, CloseSocketFacts
<1> HIDE DEF c
<1>4. \E n \in Fds : c.fds[n] = Free
  BY <1>2, <1>3
<1>5. /\ d \in AdapterType /\ d.sockfd \in Fds /\ c.fds[d.sockfd] = Free
      /\ d = [c EXCEPT !.fds = d.fds, !.sockfd = d.sockfd]
      /\ \A m \in Fds : d.fds[m] = IF m = d.sockfd THEN Fresh ELSE c.fds[m]
  BY <1>3, <1>4, CreateSocketFacts
<1> HIDE DEF d
<1>6. /\ r \in AdapterType /\ r.sockfd = d.sockfd /\ r.fds = d.fds /\ r.held = c.held
      /\ r.overlap = s.overlap /\ r.dpc = s.dpc /\ r.stale = s.stale
      /\ r.pc = s.pc /\ r.io = s.io /\ r.connected = FALSE /\ r.registered = FALSE
  <2>1. /\ c.overlap = s.overlap /\ c.dpc = s.dpc /\ c.stale = s.stale
        /\ c.pc = s.pc /\ c.io = s.io
    BY <1>1, <1>3 DEF AdapterType
  <2>2. /\ d.overlap = c.overlap /\ d.dpc = c.dpc /\ d.stale = c.stale
        /\ d.pc = c.pc /\ d.io = c.io /\ d.held = c.held
    BY <1>3, <1>5 DEF AdapterType
  <2>3. /\ r \in AdapterType /\ r.sockfd = d.sockfd /\ r.fds = d.fds /\ r.held = d.held
        /\ r.overlap = d.overlap /\ r.dpc = d.dpc /\ r.stale = d.stale
        /\ r.pc = d.pc /\ r.io = d.io /\ r.connected = FALSE /\ r.registered = FALSE
    BY <1>5 DEF AdapterType
  <2>4. QED
    BY <2>1, <2>2, <2>3
<1> HIDE DEF r
<1>7. /\ ListenFd \in Fds /\ RequestFd \in Fds /\ 0 \notin Fds /\ RequestFd # ListenFd
      /\ Free[1] = "free" /\ Fresh[1] = "fresh" /\ Fresh # Free
  BY <1>1, Numbers, Objects1
<1>8. \A m \in Fds : r.fds[m] = IF m = r.sockfd THEN Fresh
                                ELSE IF m = s.sockfd THEN Free ELSE s.fds[m]
  BY <1>3, <1>5, <1>6
<1>9. r.sockfd = s.sockfd \/ s.fds[r.sockfd] = Free
  BY <1>3, <1>5, <1>6
<1>10. r.fds[ListenFd] = s.fds[ListenFd] /\ r.sockfd # ListenFd
  BY <1>1, <1>7, <1>8, <1>9 DEF AdapterInv, Descriptors
<1>11. Control(a, r)
  BY <1>1, <1>3, <1>6 DEF AdapterInv, Control
<1>12. Descriptors(r)
  BY <1>1, <1>5, <1>6, <1>7, <1>10 DEF AdapterInv, Descriptors
<1>13. Intended(r)
  <2> SUFFICES ASSUME Undisturbed(s)
               PROVE  /\ r.sockfd \notin {RequestFd, ListenFd}
                      /\ r.fds[r.sockfd] # Free /\ r.fds[RequestFd] # Free
    BY <1>1, <1>6 DEF Intended, Undisturbed
  <2>1. s.sockfd # RequestFd /\ s.fds[RequestFd] # Free
    BY <1>1 DEF AdapterInv, Intended
  <2>2. r.sockfd # RequestFd /\ r.sockfd \in Fds
    BY <1>5, <1>6, <1>9, <2>1
  <2>3. QED
    BY <1>7, <1>8, <1>10, <2>1, <2>2
<1>14. Leaked(r) \subseteq Leaked(s) /\ (Accepted(s) <=> Accepted(r))
  BY <1>1, <1>6, <1>8, <1>10 DEF Leaked, Accepted
<1>15. Leaks(r)
  BY <1>1, <1>6, <1>14 DEF AdapterInv, Leaks
<1>16. \A x \in Objects(r) : x \in Objects(s) \cup {Fresh, Free}
  BY <1>2, <1>3, <1>6, <1>8 DEF Objects
<1>17. Connections(a, r)
  <2>1. \A n \in Fds : r.fds[n][1] \in Ends =>
            r.fds[n][1] \in EndsOf(a) /\ (n = r.sockfd \/ r.overlap)
    BY <1>1, <1>6, <1>7, <1>8 DEF AdapterInv, Connections, Ends
  <2>2. r.held[1] \in Ends => r.held[1] \in EndsOf(a)
    BY <1>1, <1>2, <1>3, <1>6 DEF AdapterInv, Connections
  <2>3. QED
    BY <1>1, <1>6, <1>7, <1>14, <1>16, <2>1, <2>2 DEF AdapterInv, Connections
<1>18. Begun(s, r) = {}
  BY <1>7, <1>16 DEF Begun
<1>19. AdapterInv(a, r)
  BY <1>6, <1>11, <1>12, <1>13, <1>15, <1>17 DEF AdapterInv
<1>20. QED
  BY <1>1, <1>18, <1>19, Alone

LEMMA RefuseStep ==
    ASSUME IInv, NEW a \in Adapters, NEW k \in Conns, Refuse(a, k)
    PROVE  Solo(a)
<1>1. /\ radio \in {"bluetooth", "wifi"} /\ AdapterInv(a, ad[a])
      /\ Becomes(a, Turn(ad[a], Syn(k), Refused(k)))
  BY DEF IInv, Refuse
<1>2. AdapterInv(a, Turn(ad[a], Syn(k), Refused(k))) /\
      Begun(ad[a], Turn(ad[a], Syn(k), Refused(k))) = {}
  BY <1>1, TurnInv, Objects1
<1>3. QED
  BY <1>1, <1>2, Alone
-----------------------------------------------------------------------------
(* The other adapter stays as it is. *)
LEMMA Keep ==
    ASSUME UNCHANGED radio, NEW b \in Adapters, NEW r, AdapterInv(b, r), ad'[b] = r
    PROVE  AdapterInv(b, ad[b])'
<1>1. Control(b, ad[b])'
  BY DEF AdapterInv, Control
<1>2. Descriptors(ad[b])' /\ Intended(ad[b])'
  BY DEF AdapterInv, Descriptors, Intended, Undisturbed, RequestFd, ListenFd
<1>3. Leaked(ad[b])' = Leaked(r) /\ (Accepted(ad[b])' <=> Accepted(r))
  BY DEF Leaked, Accepted, RequestFd, ListenFd
<1>4. Leaks(ad[b])'
  BY <1>3 DEF AdapterInv, Leaks
<1>5. Connections(b, ad[b])'
  BY <1>3 DEF AdapterInv, Connections, Objects
<1>6. QED
  BY <1>1, <1>2, <1>4, <1>5 DEF AdapterInv

LEMMA StepInv ==
    ASSUME IInv, NEW a \in Adapters, NEW r, AdapterInv(a, r), ad' = [ad EXCEPT ![a] = r],
           UNCHANGED radio, given' \in {given, TRUE}, QueueInv'
    PROVE  IInv'
<1>1. ad \in [Adapters -> AdapterType] /\ r \in AdapterType
  BY DEF IInv, AdapterInv
<1>2. ad' \in [Adapters -> AdapterType]
  BY <1>1
<1>3. ASSUME NEW b \in Adapters
      PROVE  AdapterInv(b, ad[b])'
  <2>1. CASE b = a
    BY <1>1, <2>1, Keep
  <2>2. CASE b # a
    <3>1. ad'[b] = ad[b]
      BY <1>1, <2>2
    <3>2. AdapterInv(b, ad[b])
      BY DEF IInv
    <3>3. QED
      BY <3>1, <3>2, Keep
  <2>3. QED
    BY <2>1, <2>2
<1>4. QED
  BY <1>2, <1>3 DEF IInv

LEMMA SoloInv ==
    ASSUME IInv, NEW a \in Adapters, Solo(a)
    PROVE  IInv'
<1>1. PICK r \in AdapterType :
        /\ ad' = [ad EXCEPT ![a] = r] /\ AdapterInv(a, r)
        /\ UNCHANGED <<radio, queue>> /\ given' \in {given, TRUE}
        /\ \A o \in Begun(ad[a], r) : o[2] \notin ToSet(queue)
  BY DEF Solo
<1>2. ad \in [Adapters -> AdapterType] /\ QueueInv /\ 2 \in Adapters
  BY DEF IInv, Adapters
<1>3. ASSUME NEW k \in ToSet(queue), Syn(k) \in Objects(ad'[2])
      PROVE  FALSE
  <2>1. Syn(k) \notin Objects(ad[2])
    BY <1>2 DEF QueueInv
  <2>2. a = 2 /\ ad'[2] = r
    BY <1>1, <1>2, <1>3, <2>1
  <2>3. Syn(k) \in Begun(ad[a], r) /\ Syn(k)[2] = k
    BY <1>3, <2>1, <2>2 DEF Begun, Syn
  <2>4. QED
    BY <1>1, <1>3, <2>3
<1>4. QueueInv'
  BY <1>1, <1>2, <1>3 DEF QueueInv, Objects
<1>5. QED
  BY <1>1, <1>4, StepInv
-----------------------------------------------------------------------------
(* What the kernel and accept() do to the queue. *)
LEMMA QueueAppend ==
    ASSUME NEW q \in Seq(Conns), NEW k \in Conns, k \notin ToSet(q), IsInjective(q)
    PROVE  /\ Append(q, k) \in Seq(Conns) /\ IsInjective(Append(q, k))
           /\ ToSet(Append(q, k)) \subseteq ToSet(q) \cup {k}
<1>1. /\ Append(q, k) \in Seq(Conns) /\ Len(Append(q, k)) = Len(q) + 1
      /\ \A i \in 1 .. Len(q) : Append(q, k)[i] = q[i]
      /\ Append(q, k)[Len(q) + 1] = k
  BY AppendProperties
<1>2. /\ DOMAIN Append(q, k) = DOMAIN q \cup {Len(q) + 1}
      /\ DOMAIN q = 1 .. Len(q) /\ Len(q) \in Nat
  BY <1>1
<1>3. QED
  BY <1>1, <1>2 DEF ToSet, IsInjective

LEMMA QueueTail ==
    ASSUME NEW q \in Seq(Conns), q # << >>, IsInjective(q)
    PROVE  /\ Head(q) \in Conns /\ Tail(q) \in Seq(Conns) /\ IsInjective(Tail(q))
           /\ ToSet(Tail(q)) \subseteq ToSet(q)
<1>1. /\ Head(q) \in Conns /\ Tail(q) \in Seq(Conns) /\ Len(Tail(q)) = Len(q) - 1
      /\ \A i \in 1 .. Len(Tail(q)) : Tail(q)[i] = q[i + 1]
  BY HeadTailProperties
<1>2. Len(q) \in Nat /\ DOMAIN q = 1 .. Len(q) /\ DOMAIN Tail(q) = 1 .. (Len(q) - 1)
  BY <1>1
<1>3. \A i \in DOMAIN Tail(q) : i \in Int /\ i + 1 \in DOMAIN q /\ Tail(q)[i] = q[i + 1]
  BY <1>1, <1>2
<1>4. ToSet(Tail(q)) \subseteq ToSet(q)
  BY <1>3 DEF ToSet
<1>5. ASSUME NEW i \in DOMAIN Tail(q), NEW j \in DOMAIN Tail(q), Tail(q)[i] = Tail(q)[j]
      PROVE  i = j
  <2>1. i + 1 = j + 1
    BY <1>3, <1>5 DEF IsInjective
  <2>2. QED
    BY <1>3, <2>1
<1>6. IsInjective(Tail(q))
  BY <1>5 DEF IsInjective
<1>7. QED
  BY <1>1, <1>4, <1>6

LEMMA EstablishStep ==
    ASSUME IInv, NEW a \in Adapters, NEW k \in Conns, Establish(a, k)
    PROVE  IInv'
<1> DEFINE s == ad[a]
           r == Turn(s, Syn(k), Near(k))
<1>1. /\ radio \in {"bluetooth", "wifi"} /\ s \in AdapterType /\ AdapterInv(a, s) /\ QueueInv
      /\ ad \in [Adapters -> AdapterType]
  BY DEF IInv
<1>2. /\ Syn(k) \in Objects(s) /\ queue' = Append(queue, k)
      /\ ad' = [ad EXCEPT ![a] = r] /\ UNCHANGED <<radio, given>>
  BY DEF Establish
<1>3. AdapterInv(a, r) /\ Begun(s, r) = {}
  BY <1>1, TurnInv, Objects1
<1>4. a = 2
  BY <1>1, <1>2, Objects1 DEF AdapterInv, Connections, Objects, EndsOf, Ends, Adapters
<1>5. \A x \in Objects(r) : x # Syn(k)
  BY <1>1, Objects1 DEF Turn, Objects, AdapterType
<1>6. ad'[2] = r
  BY <1>1, <1>2, <1>4
<1> HIDE DEF r
<1>7. k \notin ToSet(queue)
  BY <1>1, <1>2, <1>4 DEF QueueInv
<1>8. /\ queue' \in Seq(Conns) /\ IsInjective(queue')
      /\ ToSet(queue') \subseteq ToSet(queue) \cup {k}
  BY <1>1, <1>2, <1>7, QueueAppend DEF QueueInv
<1>9. ASSUME NEW j \in ToSet(queue'), Syn(j) \in Objects(r)
      PROVE  FALSE
  <2>1. j # k
    BY <1>5, <1>9
  <2>2. Syn(j) \notin Objects(s)
    BY <1>1, <1>4, <1>8, <1>9, <2>1 DEF QueueInv
  <2>3. Syn(j) \in Begun(s, r)
    BY <1>9, <2>2 DEF Begun, Syn
  <2>4. QED
    BY <1>3, <2>3
<1>10. QueueInv'
  BY <1>6, <1>8, <1>9 DEF QueueInv, Objects
<1>11. QED
  BY <1>2, <1>3, <1>10, StepInv

(* accept() overwrites sockfd_: what it named is leaked, once. *)
LEMMA AcceptStep ==
    ASSUME IInv, NEW a \in Adapters, Accept(a)
    PROVE  IInv'
<1> DEFINE s == ad[a]
           k == Head(queue)
           n == Open(s, Far(k)).fd
           t == Open(s, Far(k)).s
           r == [Connected(t) EXCEPT !.sockfd = n, !.overlap = t.dpc = "closed"]
<1>1. /\ radio \in {"bluetooth", "wifi"} /\ s \in AdapterType /\ AdapterInv(a, s) /\ QueueInv
      /\ ad \in [Adapters -> AdapterType]
  BY DEF IInv
<1>2. /\ s.pc = "accept" /\ queue # << >> /\ queue' = Tail(queue)
      /\ ad' = [ad EXCEPT ![a] = r] /\ UNCHANGED <<radio, given>>
  BY DEF Accept
<1>3. a = 1 /\ s.io = "none" /\ s.dpc # "gone" /\ ~Accepted(s) /\ s.fds[ListenFd][1] = "bound"
  BY <1>1, <1>2 DEF AdapterInv, Control, Descriptors, Accepted, Adapters
<1>4. /\ k \in Conns /\ queue' \in Seq(Conns) /\ IsInjective(queue')
      /\ ToSet(queue') \subseteq ToSet(queue)
  BY <1>1, <1>2, QueueTail DEF QueueInv
<1>5. /\ Far(k) \in Sockets /\ Far(k)[1] = "far" /\ Far(k) # Free
      /\ Free[1] = "free" /\ Fresh[1] = "fresh"
  BY <1>4, Objects1
<1>6. \E m \in Fds : s.fds[m] = Free
  BY <1>1, SomeFree DEF AdapterInv
<1>7. n \in Fds /\ s.fds[n] = Free /\ t = [s EXCEPT !.fds[n] = Far(k)] /\ t \in AdapterType
  BY <1>1, <1>5, <1>6, OpenFacts
<1> HIDE DEF n, t, k
<1>8. /\ r \in AdapterType /\ r.sockfd = n /\ r.held = Free /\ r.pc = "join" /\ r.connected
      /\ r.fds = t.fds /\ r.overlap = (t.dpc = "closed") /\ r.dpc = t.dpc /\ r.stale = t.stale
      /\ r.io = t.io
  <2>1. PICK b \in BOOLEAN : b = (t.dpc = "closed")
    OBVIOUS
  <2> DEFINE e == Connected(t)
  <2>2. /\ e \in AdapterType /\ e.held = Free /\ e.pc = "join" /\ e.connected
        /\ e.fds = t.fds /\ e.dpc = t.dpc /\ e.stale = t.stale /\ e.io = t.io
    <3>1. t \in AdapterType /\ Free \in Sockets
      BY <1>7, Objects1
    <3>2. e = [t EXCEPT !.pc = "join", !.held = Free, !.connected = TRUE]
      BY DEF Connected, Return
    <3> HIDE DEF e
    <3>3. QED
      BY <3>1, <3>2 DEF AdapterType
  <2>3. r = [e EXCEPT !.sockfd = n, !.overlap = b]
    BY <2>1
  <2> HIDE DEF e, r
  <2>4. r \in AdapterType /\ r.sockfd = n /\ r.overlap = b
    BY <1>7, <2>2, <2>3 DEF AdapterType
  <2>5. /\ r.held = e.held /\ r.pc = e.pc /\ r.connected = e.connected /\ r.fds = e.fds
        /\ r.dpc = e.dpc /\ r.stale = e.stale /\ r.io = e.io
    BY <2>2, <2>3 DEF AdapterType
  <2>6. QED
    BY <2>1, <2>2, <2>4, <2>5
<1>9. /\ t.dpc = s.dpc /\ t.stale = s.stale /\ t.io = s.io
      /\ \A m \in Fds : t.fds[m] = IF m = n THEN Far(k) ELSE s.fds[m]
  BY <1>1, <1>7 DEF AdapterType
<1> HIDE DEF r
<1>10. /\ ListenFd \in Fds /\ RequestFd \in Fds /\ 0 \notin Fds
       /\ n # ListenFd /\ r.fds[ListenFd] = s.fds[ListenFd]
  BY <1>1, <1>3, <1>5, <1>7, <1>8, <1>9, Numbers
<1>11. Control(a, r)
  BY <1>3, <1>8, <1>9 DEF Control
<1>12. Descriptors(r)
  BY <1>3, <1>7, <1>8, <1>9, <1>10 DEF Descriptors
<1>13. Intended(r)
  BY <1>1, <1>5, <1>7, <1>8, <1>9, <1>10 DEF AdapterInv, Intended, Undisturbed
<1>14. Accepted(r)
  BY <1>3, <1>5, <1>8, <1>10 DEF Accepted
<1>15. Leaked(r) \subseteq {s.sockfd}
  <2>1. Leaked(s) = {}
    BY <1>1, <1>3 DEF AdapterInv, Leaks
  <2>2. Leaked(r) \subseteq Leaked(s) \cup {s.sockfd}
    BY <1>3, <1>8, <1>9 DEF Leaked
  <2>3. QED
    BY <2>1, <2>2
<1>16. s.dpc = "closed" => s.sockfd = 0
  BY <1>1, <1>3 DEF AdapterInv, Leaks
<1>17. Leaks(r)
  <2>1. s.dpc = "closed" => Leaked(r) = {}
    BY <1>10, <1>15, <1>16 DEF Leaked
  <2>2. QED
    BY <1>8, <1>9, <1>14, <1>15, <2>1 DEF Leaks
<1>18. Connections(a, r)
  <2>1. \A o \in Objects(s) : o[1] # "far"
    BY <1>1, <1>3 DEF AdapterInv, Connections
  <2>2. \A m \in Fds : s.fds[m][1] \notin Ends
    BY <1>1, <1>3, <2>1 DEF AdapterInv, Connections, EndsOf, Objects
  <2>3. QED
    BY <1>3, <1>5, <1>8, <1>9, <1>14, <2>2 DEF Connections, EndsOf, Ends
<1>19. AdapterInv(a, r)
  BY <1>8, <1>11, <1>12, <1>13, <1>17, <1>18 DEF AdapterInv
<1>20. ad'[2] = ad[2]
  BY <1>1, <1>2, <1>3 DEF Adapters
<1>21. QueueInv'
  BY <1>1, <1>4, <1>20 DEF QueueInv, Objects
<1>22. QED
  BY <1>2, <1>19, <1>21, StepInv

(* The destructor closes what the adapter has, whatever that is by then.   *)
LEMMA DestroyStep ==
    ASSUME IInv, NEW a \in Adapters, Destroy(a)
    PROVE  IInv'
<1> DEFINE s == ad[a]
           t == Close(s, RequestFd)
           u == Close(t, ListenFd)
           v == CloseSocket(u)
           r == [v EXCEPT !.dpc = "gone", !.registered = FALSE]
<1>1. /\ radio \in {"bluetooth", "wifi"} /\ s \in AdapterType /\ AdapterInv(a, s) /\ QueueInv
      /\ ad \in [Adapters -> AdapterType]
  BY DEF IInv
<1>2. /\ s.dpc = "locked" /\ s.pc = "idle" /\ s.io = "none"
      /\ ad' = [ad EXCEPT ![a] = r] /\ UNCHANGED <<radio, given>>
      /\ queue' \in {<< >>, queue}
  BY DEF Destroy
<1>3. /\ ListenFd \in Fds /\ RequestFd \in Fds /\ 0 \notin Fds
      /\ Free[1] = "free" /\ Fresh[1] = "fresh"
  BY <1>1, Numbers, Objects1
<1>4. /\ t \in AdapterType /\ t = [s EXCEPT !.fds = t.fds, !.held = t.held]
      /\ \A m \in Fds : t.fds[m] = IF m = RequestFd THEN Free ELSE s.fds[m]
      /\ t.held = s.held
  <2>1. RequestFd \in Fds \cup {0}
    BY <1>3
  <2>2. QED
    BY <1>1, <1>2, <2>1, CloseFacts
<1> HIDE DEF t
<1>5. t.pc = "idle" /\ t.io = "none" /\ t.sockfd = s.sockfd /\ t.overlap = s.overlap
  BY <1>1, <1>2, <1>4 DEF AdapterType
<1>6. /\ u \in AdapterType /\ u = [t EXCEPT !.fds = u.fds, !.held = u.held]
      /\ \A m \in Fds : u.fds[m] = IF m = ListenFd THEN Free ELSE t.fds[m]
      /\ u.held = t.held
  <2>1. ListenFd \in Fds \cup {0} /\ t \in AdapterType /\ radio \in {"bluetooth", "wifi"}
    BY <1>1, <1>3, <1>4
  <2>2. ~(t.pc = "connecting" \/ t.io # "none")
    BY <1>5
  <2>3. QED
    BY <2>1, <2>2, CloseFacts
<1> HIDE DEF u
<1>7. u.pc = "idle" /\ u.io = "none" /\ u.sockfd = t.sockfd /\ u.overlap = t.overlap
  BY <1>4, <1>5, <1>6 DEF AdapterType
<1>8. /\ v \in AdapterType /\ v = [u EXCEPT !.fds = v.fds, !.held = v.held, !.sockfd = 0]
      /\ \A m \in Fds : v.fds[m] = IF m = u.sockfd THEN Free ELSE u.fds[m]
      /\ v.held = u.held
  <2>1. u \in AdapterType /\ radio \in {"bluetooth", "wifi"}
    BY <1>1, <1>6
  <2>2. ~(u.pc = "connecting" \/ u.io # "none")
    BY <1>7
  <2>3. QED
    BY <2>1, <2>2, CloseSocketFacts
<1> HIDE DEF v
<1>9. v.pc = "idle" /\ v.io = "none" /\ v.sockfd = 0 /\ v.overlap = u.overlap
  BY <1>6, <1>7, <1>8 DEF AdapterType
<1>10. /\ r \in AdapterType /\ r.sockfd = 0 /\ r.fds = v.fds /\ r.held = v.held
       /\ r.overlap = v.overlap /\ r.dpc = "gone" /\ r.pc = "idle" /\ r.io = "none"
  BY <1>8, <1>9 DEF AdapterType
<1> HIDE DEF r
<1>11. \A m \in Fds : r.fds[m] = IF m \in {s.sockfd, RequestFd, ListenFd} THEN Free ELSE s.fds[m]
  BY <1>4, <1>5, <1>6, <1>7, <1>8, <1>10
<1>12. r.held = Free /\ r.overlap = s.overlap
  BY <1>1, <1>2, <1>4, <1>5, <1>6, <1>7, <1>8, <1>9, <1>10 DEF AdapterInv, Control
<1>13. Control(a, r)
  BY <1>10, <1>12 DEF Control
<1>14. Descriptors(r)
  BY <1>3, <1>10, <1>11 DEF Descriptors
<1>15. Intended(r)
  BY <1>10 DEF Intended, Undisturbed
<1>16. Leaked(r) \subseteq Leaked(s)
  BY <1>10, <1>11 DEF Leaked
<1>17. Accepted(r)
  BY <1>3, <1>10, <1>11 DEF Accepted
<1>18. Leaks(r)
  BY <1>1, <1>10, <1>16, <1>17 DEF AdapterInv, Leaks
<1>19. Connections(a, r)
  <2>1. \A n \in Fds : r.fds[n][1] \in Ends => r.fds[n] = s.fds[n] /\ n # s.sockfd
    BY <1>3, <1>11 DEF Ends
  <2>2. QED
    BY <1>1, <1>3, <1>10, <1>12, <2>1 DEF AdapterInv, Connections, Ends
<1>20. AdapterInv(a, r)
  BY <1>10, <1>13, <1>14, <1>15, <1>18, <1>19 DEF AdapterInv
<1>21. \A o \in Objects(r) : o \in Objects(s) \cup {Free}
  BY <1>11, <1>12 DEF Objects
<1>22. \A k \in ToSet(queue) : Syn(k) \notin Objects(ad'[2])
  <2>1. ad'[2] = ad[2] \/ (a = 2 /\ ad'[2] = r)
    BY <1>1, <1>2 DEF Adapters
  <2>2. \A k : Syn(k) # Free
    BY DEF Syn, Free
  <2>3. QED
    BY <1>1, <1>21, <2>1, <2>2 DEF QueueInv
<1>23. /\ << >> \in Seq(Conns) /\ IsInjective(<< >>) /\ ToSet(<< >>) = {}
  BY DEF IsInjective, ToSet
<1>24. QueueInv'
  BY <1>1, <1>2, <1>22, <1>23 DEF QueueInv, Objects
<1>25. QED
  BY <1>2, <1>20, <1>24, StepInv
-----------------------------------------------------------------------------
LEMMA Initially ==
    ASSUME Init
    PROVE  IInv
<1>1. radio \in {"bluetooth", "wifi"} /\ given = FALSE /\ queue = << >>
  BY DEF Init
<1>2. /\ {Free, Fresh} \subseteq Sockets /\ Fresh # Free
      /\ Free[1] = "free" /\ Fresh[1] = "fresh"
  BY Objects1
<1>3. ASSUME NEW m \in Adapters
      PROVE  GenerateUniquePort(m) \in LinkPorts
  <2>1. PICK h \in Nat : Hash[m] = h
    BY BluetoothAssumption
  <2>2. PICK x \in 0 .. 127 : h % 128 = x
    OBVIOUS
  <2>3. GenerateUniquePort(m) = 4098 + x * 2 + 1
    BY <2>1, <2>2 DEF GenerateUniquePort, PORT_RANGE_START
  <2>4. (4098 + x * 2 + 1) \in 4099 .. 4353 /\ (4098 + x * 2 + 1) % 2 = 1
    OBVIOUS
  <2>5. QED
    BY <2>3, <2>4 DEF LinkPorts
<1>4. ASSUME NEW a \in Adapters
      PROVE  BtLocalPort(a) \in LinkPorts /\ BtRemotePort(a) \in LinkPorts /\ NoPort \in LinkPorts
  <2>1. Peer(a) \in Adapters
    BY DEF Peer, Adapters
  <2>2. QED
    BY <1>3, <2>1 DEF BtLocalPort, BtRemotePort, LinkPorts
<1>5. ASSUME NEW a \in Adapters
      PROVE  AdapterInv(a, ad[a])
  <2> DEFINE s == ad[a]
             f == [n \in Fds |-> IF n <= 3 THEN Fresh ELSE Free]
  <2>1. f \in [Fds -> Sockets] /\ \A n \in Fds : f[n] = IF n <= 3 THEN Fresh ELSE Free
    BY <1>2
  <2> HIDE DEF f
  <2>2. PICK l \in LinkPorts, m \in LinkPorts :
          s = [pc |-> "idle", late |-> FALSE, held |-> Free,
               sockfd |-> DataFd, fds |-> f,
               connected |-> FALSE, registered |-> FALSE, rpc |-> "none",
               io |-> "none", timed |-> FALSE,
               dpc |-> "none", stale |-> FALSE, overlap |-> FALSE,
               local |-> l, remote |-> m]
    <3>1. s = BluetoothAdapter(a) \/ s = WifiAdapter(a)
      BY DEF Init
    <3>2. QED
      BY <1>4, <3>1 DEF BluetoothAdapter, WifiAdapter, f
  <2>3. /\ {RequestFd, ListenFd, DataFd} \subseteq Fds /\ 0 \notin Fds
        /\ RequestFd # DataFd /\ ListenFd # DataFd /\ Fds \subseteq Nat
        /\ RequestFd <= 3 /\ ListenFd <= 3 /\ DataFd <= 3
        /\ \A n \in 1 .. 3 : n \in {RequestFd, ListenFd, DataFd}
    BY <1>1, PeerSocketsAssumption DEF RequestFd, ListenFd, DataFd
  <2>4. s \in AdapterType
    BY <1>2, <2>1, <2>2, <2>3 DEF AdapterType
  <2>5. \A n \in Fds : s.fds[n] = IF n <= 3 THEN Fresh ELSE Free
    BY <2>1, <2>2
  <2>6. Control(a, s) /\ Descriptors(s) /\ Intended(s)
    BY <1>2, <2>2, <2>3, <2>5 DEF Control, Descriptors, Intended, Undisturbed
  <2>7. Leaked(s) = {}
    <3>1. \A n \in Fds : n <= 3 => n \in 1 .. 3
      BY <2>3, PeerSocketsAssumption
    <3>2. s.dpc = "none" /\ s.sockfd = DataFd
      BY <2>2
    <3>3. QED
      BY <2>3, <2>5, <3>1, <3>2 DEF Leaked
  <2>8. Leaks(s)
    <3>1. s.dpc = "none"
      BY <2>2
    <3>2. QED
      BY <2>7, <3>1 DEF Leaks
  <2>9. Connections(a, s)
    BY <1>2, <2>2, <2>5 DEF Connections, Ends, Objects
  <2>10. QED
    BY <2>4, <2>6, <2>8, <2>9 DEF AdapterInv
<1>6. ad \in [Adapters -> AdapterType]
  <2>1. \A a \in Adapters : ad[a] \in AdapterType
    BY <1>5 DEF AdapterInv
  <2>2. ad = [a \in Adapters |-> ad[a]]
    BY DEF Init
  <2>3. QED
    BY <2>1, <2>2
<1>7. QueueInv
  BY <1>1 DEF QueueInv, IsInjective, ToSet
<1>8. QED
  BY <1>1, <1>5, <1>6, <1>7 DEF IInv

LEMMA NextInv ==
    ASSUME IInv, [Next]_vars
    PROVE  IInv'
<1>1. ASSUME NEW a \in Adapters, BtMain(a) \/ WifiConnectToPeer(a) \/ WifiListenForPeer(a)
                                           \/ WifiConclude(a)
      PROVE  IInv'
  <2>1. CASE ConnectToPeer(a)
    BY <2>1, ConnectStep, SoloInv
  <2>2. CASE Bind(a)
    BY <2>2, BindStep, SoloInv
  <2>3. CASE Accept(a)
    BY <2>3, AcceptStep
  <2>4. CASE AcceptFails(a)
    BY <2>4, AcceptFailsStep, SoloInv
  <2>5. CASE Conclude(a)
    BY <2>5, ConcludeStep, SoloInv
  <2>6. QED
    BY <1>1, <2>1, <2>2, <2>3, <2>4, <2>5
       DEF BtMain, WifiConnectToPeer, WifiListenForPeer, WifiConclude, ListenForPeer
<1>2. ASSUME NEW a \in Adapters, WifiRequestFails(a) \/ WifiExchange(a)
      PROVE  IInv'
  BY <1>2, WifiRequestStep, SoloInv
<1>3. ASSUME NEW a \in Adapters, BtConn(a) \/ WifiConn(a)
      PROVE  IInv'
  BY <1>3, ConnStep, SoloInv
<1>4. ASSUME NEW a \in Adapters, Request(a)
      PROVE  IInv'
  <2>1. RequestWait(a) \/ RequestConnect(a)
    BY <1>4 DEF Request, BtRequestThread, WifiSendConnectionRequest, SendConnectionRequest
  <2>2. QED
    BY <2>1, RequestWaitStep, RequestConnectStep, SoloInv
<1>5. ASSUME NEW a \in Adapters, Deadline(a)
      PROVE  IInv'
  BY <1>5, ExpireStep, SoloInv DEF Deadline, BtExpire, WifiExpire
<1>6. ASSUME NEW a \in Adapters, BtSend(a) \/ BtRecv(a) \/ WifiSend(a) \/ WifiRecv(a)
                                           \/ MessageEnds(a)
      PROVE  IInv'
  BY <1>6, MessageStep, SoloInv DEF BtSend, BtRecv, WifiSend, WifiRecv
<1>7. ASSUME NEW a \in Adapters, BtDisconn(a) \/ WifiDisconn(a)
      PROVE  IInv'
  <2>1. Disconn(a) \/ InterruptClose(a) \/ InterruptCreate(a)
    BY <1>7 DEF BtDisconn, WifiDisconn
  <2>2. QED
    BY <2>1, DisconnStep, InterruptCloseStep, InterruptCreateStep, SoloInv
<1>8. ASSUME NEW a \in Adapters, BtDestroy(a) \/ WifiDestroy(a)
      PROVE  IInv'
  <2>1. DestroyLocks(a) \/ Destroy(a)
    BY <1>8 DEF BtDestroy, WifiDestroy
  <2>2. QED
    BY <2>1, DestroyLocksStep, DestroyStep, SoloInv
<1>9. ASSUME NEW a \in Adapters, NEW k \in Conns, Establish(a, k) \/ Refuse(a, k)
      PROVE  IInv'
  BY <1>9, EstablishStep, RefuseStep, SoloInv
<1>10. ASSUME UNCHANGED vars
       PROVE  IInv'
  <2>1. 1 \in Adapters /\ AdapterInv(1, ad[1]) /\ QueueInv /\ ad' = [ad EXCEPT ![1] = ad[1]]
    BY <1>10 DEF IInv, Adapters
  <2>2. QueueInv'
    BY <1>10, <2>1 DEF QueueInv, Objects
  <2>3. QED
    BY <1>10, <2>1, <2>2, StepInv
<1>11. QED
  BY <1>1, <1>2, <1>3, <1>4, <1>5, <1>6, <1>7, <1>8, <1>9, <1>10 DEF Next, Main

LEMMA Inductive == Spec => []IInv
  BY Initially, NextInv, PTL DEF Spec
-----------------------------------------------------------------------------
(* BluetoothAdapter and WifiAdapter keep their types, over any number of   *)
(* connections.                                                            *)
THEOREM TypeCorrect == Spec => []PeersTypeOK
<1>1. IInv => PeersTypeOK
  BY DEF IInv, AdapterType, QueueInv, PeersTypeOK
<1>2. QED
  BY <1>1, Inductive, PTL

(* conn() of either adapter returns 0 with a connection that the kernel    *)
(* made, whatever its earlier attempts left behind.                        *)
THEOREM ConnectionsMade == Spec => []ConnectedIsMade
<1>1. ASSUME IInv, NEW a \in Adapters, ad[a].registered, Undisturbed(ad[a])
      PROVE  Object(ad[a], ad[a].sockfd)[1] \in {"near", "far"}
  <2>1. ad[a].sockfd # 0
    BY <1>1 DEF IInv, AdapterInv, Descriptors, Undisturbed
  <2>2. ad[a].fds[ad[a].sockfd][1] \in {"near", "far"}
    BY <1>1 DEF IInv, AdapterInv, Intended
  <2>3. QED
    BY <2>1, <2>2 DEF Object
<1>2. IInv => ConnectedIsMade
  BY <1>1 DEF ConnectedIsMade
<1>3. QED
  BY <1>2, Inductive, PTL

(* conn(), disconn() and the request thread keep the three sockets of an   *)
(* adapter open and apart.                                                 *)
THEOREM DescriptorsApart == Spec => []DescriptorsDistinct
<1>1. ASSUME IInv, NEW a \in Adapters, Undisturbed(ad[a])
      PROVE  /\ Object(ad[a], ad[a].sockfd) # Free
             /\ ad[a].fds[RequestFd] # Free /\ ad[a].fds[ListenFd] # Free
             /\ ad[a].sockfd \notin {RequestFd, ListenFd}
  <2>1. ad[a].sockfd # 0 /\ ad[a].fds[ListenFd][1] \in {"fresh", "bound"}
    BY <1>1 DEF IInv, AdapterInv, Descriptors, Undisturbed
  <2>2. /\ ad[a].sockfd \notin {RequestFd, ListenFd}
        /\ ad[a].fds[ad[a].sockfd] # Free /\ ad[a].fds[RequestFd] # Free
    BY <1>1 DEF IInv, AdapterInv, Intended
  <2>3. QED
    BY <2>1, <2>2, Objects1 DEF Object
<1>2. IInv => DescriptorsDistinct
  BY <1>1 DEF DescriptorsDistinct
<1>3. QED
  BY <1>2, Inductive, PTL

(* accept() is the one call that leaks a descriptor, and it does so once,  *)
(* whether or not interrupt() meets it.                                    *)
THEOREM OneLeak == Spec => []LeakBounded
<1>1. ASSUME IInv, NEW a \in Adapters
      PROVE  Cardinality(Leaked(ad[a])) <= 1
  <2>1. \A m, n \in Leaked(ad[a]) : m = n
    BY <1>1 DEF IInv, AdapterInv, Leaks
  <2>2. CASE Leaked(ad[a]) = {}
    BY <2>2, FS_EmptySet
  <2>3. CASE Leaked(ad[a]) # {}
    <3>1. PICK n : Leaked(ad[a]) = {n}
      BY <2>1, <2>3
    <3>2. Cardinality({n}) = 1
      BY FS_Singleton
    <3>3. QED
      BY <3>1, <3>2
  <2>4. QED
    BY <2>2, <2>3
<1>2. IInv => LeakBounded
  BY <1>1 DEF LeakBounded
<1>3. QED
  BY <1>2, Inductive, PTL

(* The destructor leaves no end of a connection open unless accept() got   *)
(* one while interrupt() had closed sockfd_.                               *)
THEOREM DestroyedAtRest == Spec => []DestroyedHoldsNothing
<1>1. ASSUME IInv, NEW a \in Adapters, ad[a].dpc = "gone", ~ad[a].overlap,
             NEW o \in Objects(ad[a])
      PROVE  o[1] \notin Ends
  <2>1. AdapterInv(a, ad[a]) /\ radio \in {"bluetooth", "wifi"}
    BY <1>1 DEF IInv
  <2>2. ad[a].sockfd = 0 /\ 0 \notin Fds /\ ad[a].held = Free /\ Free[1] = "free"
    BY <1>1, <2>1, Numbers, Objects1 DEF AdapterInv, Control, Descriptors
  <2>3. \A n \in Fds : ad[a].fds[n][1] \notin Ends
    BY <1>1, <2>1, <2>2 DEF AdapterInv, Connections
  <2>4. QED
    BY <1>1, <2>2, <2>3 DEF Objects, Ends
<1>2. IInv => DestroyedHoldsNothing
  BY <1>1 DEF DestroyedHoldsNothing
<1>3. QED
  BY <1>2, Inductive, PTL
=============================================================================
