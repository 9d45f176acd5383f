---------------------------- MODULE SocketLocks ----------------------------
(***************************************************************************)
(* The locking of bratislava-socket: the calls of BratislavaSocket.h from  *)
(* several threads on the same sockets.  g_bsock_deletion_mutex pins the   *)
(* objects, each object has a shared mutex of its own that I/O shares and  *)
(* bratislavaConn() and bratislavaDestroy() own, g_bsock_creation_mutex    *)
(* serialises creation and deletion, and the registry's recursive mutex is *)
(* taken inside Add(), Remove() and Exists().  A pointer stays with the    *)
(* application after the object is destroyed, and may name a new object    *)
(* later.  The mutexes inside the registry's other methods are leaves.     *)
(***************************************************************************)
EXTENDS Naturals, FiniteSets

CONSTANTS
    Threads,
    Sockets,    \* the addresses a BratislavaSocket may have
    Ops,        \* the calls the application makes
    None,
    MaxCalls    \* the calls of one thread (bound)

PinnedOps == {"conn", "io", "disconnect"}
AllOps    == PinnedOps \cup {"create", "destroy", "cleanup"}
Locks     == Sockets \cup {"deletion", "creation", "registry"}

ASSUME LocksAssumption ==
    /\ Ops \subseteq AllOps
    /\ None \notin Threads \cup Sockets \cup AllOps
    /\ Sockets \cap {"deletion", "creation", "registry"} = {}
    /\ MaxCalls \in Nat
    /\ IsFiniteSet(Threads) /\ IsFiniteSet(Sockets)

VARIABLES
    pc,         \* where each thread is
    op, sock,   \* the call it is in, and the socket passed
    left,       \* the calls it may still make
    readers,    \* who shares each lock
    writer,     \* who owns it
    known,      \* the pointers the application ever got
    alive,      \* the objects allocated
    registered, \* sockets_
    connected,  \* `connected' of each socket's configuration
    fd          \* changes whenever an adapter closes and recreates sockfd_

vars == <<pc, op, sock, left, readers, writer, known, alive, registered, connected, fd>>
locks == <<readers, writer>>
objects == <<known, alive, registered, connected, fd>>

Points == {"idle", "pin", "check", "claim", "use", "busy", "interrupt", "own_deletion",
           "own_socket", "own_creation", "add", "recheck", "free", "own_registry", "sweep"}

TypeOK ==
    /\ pc \in [Threads -> Points]
    /\ op \in [Threads -> AllOps \cup {None}]
    /\ sock \in [Threads -> Sockets \cup {None}]
    /\ left \in [Threads -> 0..MaxCalls]
    /\ readers \in [Locks -> SUBSET Threads]
    /\ writer \in [Locks -> Threads \cup {None}]
    /\ known \subseteq Sockets /\ alive \subseteq known /\ registered \subseteq alive
    /\ connected \in [Sockets -> BOOLEAN]
    /\ fd \in [Sockets -> {0, 1}]

Init ==
    /\ pc = [t \in Threads |-> "idle"]
    /\ op = [t \in Threads |-> None]
    /\ sock = [t \in Threads |-> None]
    /\ left = [t \in Threads |-> MaxCalls]
    /\ readers = [l \in Locks |-> {}]
    /\ writer = [l \in Locks |-> None]
    /\ known = {} /\ alive = {} /\ registered = {}
    /\ connected = [s \in Sockets |-> FALSE]
    /\ fd = [s \in Sockets |-> 0]
-----------------------------------------------------------------------------
Share(t, l) ==
    /\ writer[l] = None
    /\ readers' = [readers EXCEPT ![l] = @ \cup {t}]
    /\ UNCHANGED writer

Own(t, l) ==
    /\ writer[l] = None /\ readers[l] = {}
    /\ writer' = [writer EXCEPT ![l] = t]
    /\ UNCHANGED readers

Release(t, ls) ==
    /\ readers' = [l \in Locks |-> IF l \in ls THEN readers[l] \ {t} ELSE readers[l]]
    /\ writer' = [l \in Locks |-> IF l \in ls /\ writer[l] = t THEN None ELSE writer[l]]

Goto(t, point) ==
    /\ pc' = [pc EXCEPT ![t] = point]
    /\ UNCHANGED <<op, sock, left>>

(* The call returns: to the application, or to the loop of Cleanup(). *)
Return(t) ==
    /\ pc' = [pc EXCEPT ![t] = IF writer["registry"] = t THEN "sweep" ELSE "idle"]
    /\ op' = [op EXCEPT ![t] = None]
    /\ sock' = [sock EXCEPT ![t] = None]
    /\ UNCHANGED left

(* Mutant: a mutex that is not recursive. *)
RegistryUnowned(t) == writer["registry"] = None

(* Exists(), Add() and Remove() take the recursive mutex for a moment. *)
RegistryFree(t) == writer["registry"] \in {None, t}
-----------------------------------------------------------------------------
(* Cleanup() is about to own the registry, or does. *)
Cleaning == writer["registry"] # None \/ \E t \in Threads : pc[t] = "own_registry"

(* A call begins, with any pointer the application ever got: another       *)
(* thread may be destroying that socket, or have destroyed it.  Not        *)
(* modelled is an application that makes calls during Cleanup(), which no  *)
(* code calls yet, or that runs out of addresses (bound).                  *)
Begin(t, o, s) ==
    /\ pc[t] = "idle" /\ left[t] > 0 /\ o \in Ops
    /\ IF o \in {"create", "cleanup"} THEN s = None ELSE s \in known
    /\ ~Cleaning /\ (o = "cleanup" => \A u \in Threads : pc[u] = "idle")
    /\ o = "create" => Cardinality({u \in Threads : op[u] = "create"})
                          < Cardinality(Sockets \ alive)
    /\ pc' = [pc EXCEPT ![t] = IF o = "cleanup" THEN "own_registry" ELSE "pin"]
    /\ op' = [op EXCEPT ![t] = o]
    /\ sock' = [sock EXCEPT ![t] = s]
    /\ left' = [left EXCEPT ![t] = @ - 1]
    /\ UNCHANGED <<locks, objects>>

(* std::shared_lock on g_bsock_deletion_mutex. *)
Pin(t) ==
    /\ pc[t] = "pin"
    /\ Share(t, "deletion")
    /\ Goto(t, IF op[t] = "create" THEN "own_creation" ELSE "check")
    /\ UNCHANGED objects

(* Mutant: the global lock ends with the check. *)
CheckUnpinned(t) ==
    /\ pc[t] = "check" /\ RegistryFree(t)
    /\ Release(t, {"deletion"})
    /\ IF sock[t] \in registered
          THEN Goto(t, IF op[t] = "destroy" THEN "interrupt" ELSE "claim")
          ELSE Return(t)
    /\ UNCHANGED objects

(* Exists(bsock), or EIDRM. *)
Check(t) ==
    /\ pc[t] = "check" /\ RegistryFree(t)
    /\ IF sock[t] \in registered
          THEN /\ Goto(t, IF op[t] = "destroy" THEN "interrupt" ELSE "claim")
               /\ UNCHANGED locks
          ELSE Return(t) /\ Release(t, {"deletion"})
    /\ UNCHANGED objects

(* pinUniqueIfExists() and pinSharedIfExists(): the per-socket lock is     *)
(* taken before the global one is let go.                                  *)
Claim(t) ==
    LET s == sock[t] IN
    /\ pc[t] = "claim"
    /\ writer[s] = None
    /\ IF op[t] = "conn"
          THEN /\ readers[s] = {}
               /\ writer' = [writer EXCEPT ![s] = t]
               /\ readers' = [readers EXCEPT !["deletion"] = @ \ {t}]
          ELSE /\ readers' = [readers EXCEPT !["deletion"] = @ \ {t}, ![s] = @ \cup {t}]
               /\ UNCHANGED writer
    /\ Goto(t, "use")
    /\ UNCHANGED objects

(* IsConnected(): conn() has nothing to do, send and recv cannot work. *)
TurnBack(t) ==
    /\ pc[t] = "use"
    /\ IF op[t] = "conn" THEN connected[sock[t]] ELSE op[t] = "io" /\ ~connected[sock[t]]
    /\ Return(t) /\ Release(t, {sock[t]})
    /\ UNCHANGED objects

Enter(t) ==
    /\ pc[t] = "use"
    /\ CASE op[t] = "conn" -> ~connected[sock[t]] /\ UNCHANGED connected
         [] op[t] = "io" -> connected[sock[t]] /\ UNCHANGED connected
         [] OTHER -> connected' = [connected EXCEPT ![sock[t]] = FALSE]
    /\ Goto(t, "busy")
    /\ UNCHANGED <<locks, known, alive, registered, fd>>

(* disconn(), also by way of interrupt(): close(sockfd_), and a new one. *)
Reopen(s) == fd' = [fd EXCEPT ![s] = 1 - @]

(* The adapter's conn(), send(), recv() or disconn() returns. *)
Finish(t) ==
    /\ pc[t] = "busy"
    /\ CASE op[t] = "conn" -> \E ok \in BOOLEAN :
                                 connected' = [connected EXCEPT ![sock[t]] = ok] /\ UNCHANGED fd
         [] op[t] = "disconnect" -> Reopen(sock[t]) /\ UNCHANGED connected
         [] OTHER -> UNCHANGED <<connected, fd>>
    /\ Return(t) /\ Release(t, {sock[t]})
    /\ UNCHANGED <<known, alive, registered>>
-----------------------------------------------------------------------------
(* bratislavaDestroy(): the interruption, and the end of its scope. *)
InterruptPinned(t) ==       \* Mutant: the scope is not closed.
    /\ pc[t] = "interrupt"
    /\ Reopen(sock[t])
    /\ Goto(t, "own_deletion")
    /\ UNCHANGED <<locks, known, alive, registered, connected>>

Interrupt(t) ==
    /\ pc[t] = "interrupt"
    /\ Reopen(sock[t])
    /\ Release(t, {"deletion"})
    /\ Goto(t, "own_deletion")
    /\ UNCHANGED <<known, alive, registered, connected>>

OwnDeletion(t) ==
    /\ pc[t] = "own_deletion"
    /\ Own(t, "deletion") /\ Goto(t, "own_socket")
    /\ UNCHANGED objects

(* A thread that lost the race to destroy its socket finds the object      *)
(* freed, or another at its address.  Locking the mutex of a freed object  *)
(* is undefined: the lock is taken as if the mutex were intact, in the     *)
(* step below, or never (CanStep).  What it overwrites is not modelled.    *)
Stray(t) == pc[t] = "own_socket" /\ sock[t] \notin alive

OwnSocket(t) ==
    /\ pc[t] = "own_socket"
    /\ Own(t, sock[t]) /\ Goto(t, "own_creation")
    /\ UNCHANGED objects

OwnCreation(t) ==
    /\ pc[t] = "own_creation"
    /\ Own(t, "creation") /\ Goto(t, IF op[t] = "create" THEN "add" ELSE "recheck")
    /\ UNCHANGED objects

(* Mutant: the socket is deleted and stays in the registry. *)
RecheckUnremoved(t) ==
    /\ pc[t] = "recheck" /\ RegistryFree(t)
    /\ connected' = [connected EXCEPT ![sock[t]] = FALSE]
    /\ Release(t, {sock[t]})
    /\ Goto(t, "free")
    /\ UNCHANGED <<known, alive, registered, fd>>

(* Exists() again, Remove(), the adapter, and the end of per_socket_lock ... *)
Recheck(t) ==
    /\ pc[t] = "recheck" /\ RegistryFree(t)
    /\ IF sock[t] \in registered
          THEN /\ registered' = registered \ {sock[t]}
               /\ connected' = [connected EXCEPT ![sock[t]] = FALSE]
               /\ Release(t, {sock[t]})
               /\ Goto(t, "free")
          ELSE /\ Return(t) /\ Release(t, Locks \ {"registry"})
               /\ UNCHANGED <<registered, connected>>
    /\ UNCHANGED <<known, alive, fd>>

(* ... and the object, before the two global locks. *)
Free(t) ==
    /\ pc[t] = "free"
    /\ alive' = alive \ {sock[t]}
    /\ Return(t) /\ Release(t, {"deletion", "creation"})
    /\ UNCHANGED <<known, registered, connected, fd>>

(* bratislavaSocket(): allocation and Add(), under both global locks. *)
Create(t) ==
    /\ pc[t] = "add" /\ RegistryFree(t)
    /\ \E s \in Sockets \ alive :
         /\ known' = known \cup {s}
         /\ alive' = alive \cup {s}
         /\ registered' = registered \cup {s}
         /\ connected' = [connected EXCEPT ![s] = FALSE]
    /\ Return(t) /\ Release(t, {"deletion", "creation"})
    /\ UNCHANGED fd

(* Cleanup() owns the recursive mutex while it destroys every socket. *)
BeginCleanup(t) ==
    /\ pc[t] = "own_registry"
    /\ Own(t, "registry") /\ Goto(t, "sweep")
    /\ UNCHANGED objects

CleanupNext(t) ==
    /\ pc[t] = "sweep"
    /\ \E s \in registered : sock' = [sock EXCEPT ![t] = s]
    /\ op' = [op EXCEPT ![t] = "destroy"]
    /\ pc' = [pc EXCEPT ![t] = "pin"]
    /\ UNCHANGED <<left, locks, objects>>

EndCleanup(t) ==
    /\ pc[t] = "sweep" /\ registered = {}
    /\ Release(t, {"registry"})
    /\ Goto(t, "idle")
    /\ UNCHANGED objects

Step(t) ==
    \/ Pin(t) \/ Check(t) \/ Claim(t) \/ TurnBack(t) \/ Enter(t) \/ Finish(t)
    \/ Interrupt(t) \/ OwnDeletion(t) \/ OwnSocket(t) \/ OwnCreation(t)
    \/ Recheck(t) \/ Free(t) \/ Create(t)
    \/ BeginCleanup(t) \/ CleanupNext(t) \/ EndCleanup(t)

(* Between calls nothing need happen. *)
Rest == (\A t \in Threads : pc[t] = "idle") /\ UNCHANGED vars

Next == \/ \E t \in Threads : \/ Step(t)
                              \/ \E o \in Ops, s \in Sockets \cup {None} : Begin(t, o, s)
        \/ Rest

Spec == Init /\ [][Next]_vars
-----------------------------------------------------------------------------
(* A thread past the check uses, interrupts, or waits for the mutex of a   *)
(* socket that is still registered, in whatever order other threads        *)
(* destroy it and create new ones; of several that destroy one at once     *)
(* just one deletes it, when it is in the registry no more.  Those that    *)
(* lost are not past the check again, and may be Stray.                    *)
InUseAlive ==
    /\ \A t \in Threads :
          /\ pc[t] \in {"claim", "interrupt", "use", "busy"} => sock[t] \in registered
          /\ pc[t] = "free" => sock[t] \in alive \ registered
    /\ \A t, u \in Threads : pc[t] = "free" /\ pc[u] = "free" => t = u

(* How a thread holds the socket of its call: it has found it and waits    *)
(* for its mutex; it shares or owns the mutex; or it took the socket out   *)
(* of the registry and is about to delete it.  A bratislavaDestroy() that  *)
(* lost the race holds none, although it may take a mutex at its address.  *)
Mode ==
    [t \in Threads |->
        CASE pc[t] \in {"claim", "interrupt"} -> "waits"
          [] pc[t] = "own_socket" /\ sock[t] \in registered -> "waits"
          [] pc[t] \in {"use", "busy"} -> IF op[t] = "conn" THEN "sole" ELSE "shared"
          [] pc[t] \in {"own_creation", "recheck"} /\ op[t] = "destroy"
                /\ sock[t] \in registered -> "sole"
          [] pc[t] = "free" -> "sole"
          [] OTHER -> "none"]
Hold == [t \in Threads |-> IF Mode[t] = "none" THEN None ELSE sock[t]]

(* The mutexes implement a table of sockets: a call that found its socket  *)
(* has it until it lets go, bratislavaConn() and bratislavaDestroy() alone *)
(* and the others together, whatever calls wait for it; and it is removed  *)
(* and freed, once, when no other thread has found it, be its address used *)
(* again and be several threads destroying it.                             *)
Table == INSTANCE SocketTable WITH
    objects <- alive, table <- registered, hold <- Hold, mode <- Mode
ImplementsTable == Table!Spec

(* The threads t waits for: it cannot go on while one of them holds its lock. *)
Waits(t) ==
    CASE pc[t] = "pin" -> {writer["deletion"]} \ {None}
      [] pc[t] = "own_deletion" -> ({writer["deletion"]} \ {None}) \cup readers["deletion"]
      [] pc[t] = "claim" -> ({writer[sock[t]]} \ {None})
                              \cup (IF op[t] = "conn" THEN readers[sock[t]] ELSE {})
      [] pc[t] = "own_socket" -> ({writer[sock[t]]} \ {None}) \cup readers[sock[t]]
      [] pc[t] = "own_creation" -> {writer["creation"]} \ {None}
      [] pc[t] \in {"check", "recheck", "add", "own_registry"} ->
            {writer["registry"]} \ {None, t}
      [] OTHER -> {}

(* BratislavaSocket.cc:328: "Lock order matches pin* and bratislavaSocket() *)
(* so the orderings cannot cycle": no threads wait for one another.        *)
NoLockCycle ==
    \A S \in (SUBSET Threads) \ {{}} : \E t \in S : Waits(t) \cap S = {}

(* What t needs to make its next step, as the guards of its actions say.   *)
CanStep(t) ==
    CASE pc[t] = "pin" -> writer["deletion"] = None
      [] pc[t] \in {"check", "recheck"} -> RegistryFree(t)
      [] pc[t] = "claim" -> /\ writer[sock[t]] = None
                            /\ op[t] = "conn" => readers[sock[t]] = {}
      [] pc[t] = "own_deletion" -> writer["deletion"] = None /\ readers["deletion"] = {}
      [] pc[t] = "own_socket" -> /\ sock[t] \in alive
                                 /\ writer[sock[t]] = None /\ readers[sock[t]] = {}
      [] pc[t] = "own_creation" -> writer["creation"] = None /\ readers["creation"] = {}
      [] pc[t] = "own_registry" -> writer["registry"] = None /\ readers["registry"] = {}
      [] pc[t] = "add" -> RegistryFree(t) /\ Sockets \ alive # {}
      [] OTHER -> pc[t] # "idle"

(* Some thread can go on whenever one is inside a call, unless one is at   *)
(* the mutex of a freed object: bratislavaDestroy() gets its locks once    *)
(* what others began has drained, and the calls that Cleanup() makes find  *)
(* its own mutex free.  Calls being finite, and every step taking a call   *)
(* further, every call returns if no thread is ever Stray.                 *)
CallsEnd ==
    (\E t \in Threads : pc[t] # "idle") => \E t \in Threads : CanStep(t) \/ Stray(t)

(* BratislavaSocket.cc:315: "interrupt() only shuts the socket down (it    *)
(* does NOT close the fd)", for closing it during a recvfrom() or sendto() *)
(* of another thread "is a use-after-close race on the kernel fd".         *)
NoCloseDuringIO ==
    [][\A s \in Sockets : fd'[s] # fd[s] =>
          ~ \E t \in Threads : pc[t] = "busy" /\ op[t] = "io" /\ sock[t] = s]_vars
=============================================================================
