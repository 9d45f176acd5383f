---------------------------- MODULE SocketTable ----------------------------
(***************************************************************************)
(* What bratislava-socket promises the threads that call it, without       *)
(* mutexes: a table of sockets.  A call takes hold of a socket that is in  *)
(* the table; a thread that connects one, or destroys it, has it for       *)
(* itself, and the others share it; it is taken out of the table only by a *)
(* thread that alone holds it, and its memory is freed after that.         *)
(***************************************************************************)
CONSTANTS Threads, Sockets, None

VARIABLES
    objects,   \* the sockets that are allocated
    table,     \* those that calls find
    hold,      \* the socket each thread holds
    mode,      \* how: "waits" for it, has it "shared" or "sole"
    connected  \* the sockets' connected flags

vars == <<objects, table, hold, mode, connected>>

Init ==
    /\ objects = {} /\ table = {}
    /\ hold = [t \in Threads |-> None]
    /\ mode = [t \in Threads |-> "none"]
    /\ connected = [s \in Sockets |-> FALSE]

Holders(s) == {t \in Threads : hold[t] = s}

(* bratislavaSocket() makes one where nothing is allocated. *)
Add(s) ==
    /\ s \notin objects
    /\ objects' = objects \cup {s} /\ table' = table \cup {s}
    /\ connected' = [connected EXCEPT ![s] = FALSE]
    /\ UNCHANGED <<hold, mode>>

(* A call finds its socket, and waits for those that have it. *)
Find(t, s) ==
    /\ mode[t] = "none" /\ s \in table
    /\ hold' = [hold EXCEPT ![t] = s]
    /\ mode' = [mode EXCEPT ![t] = "waits"]
    /\ UNCHANGED <<objects, table, connected>>

Share(t) ==
    /\ mode[t] = "waits"
    /\ \A u \in Holders(hold[t]) : mode[u] # "sole"
    /\ mode' = [mode EXCEPT ![t] = "shared"]
    /\ UNCHANGED <<objects, table, hold, connected>>

Own(t) ==
    /\ mode[t] = "waits"
    /\ \A u \in Holders(hold[t]) : mode[u] = "waits"
    /\ mode' = [mode EXCEPT ![t] = "sole"]
    /\ UNCHANGED <<objects, table, hold, connected>>

(* A thread that shares the socket may disconnect it; only one that has it *)
(* for itself can leave it connected.                                      *)
Disconnect(t) ==
    /\ mode[t] = "shared"
    /\ connected' = [connected EXCEPT ![hold[t]] = FALSE]
    /\ UNCHANGED <<objects, table, hold, mode>>

LetGo(t) ==
    /\ mode[t] # "none" /\ hold[t] \in table
    /\ \E c \in BOOLEAN :
          /\ c # connected[hold[t]] => mode[t] = "sole"
          /\ connected' = [connected EXCEPT ![hold[t]] = c]
    /\ hold' = [hold EXCEPT ![t] = None]
    /\ mode' = [mode EXCEPT ![t] = "none"]
    /\ UNCHANGED <<objects, table>>

(* bratislavaDestroy(): nobody else holds the socket, nor even waits. *)
Remove(t) ==
    /\ mode[t] = "sole" /\ hold[t] \in table
    /\ Holders(hold[t]) = {t}
    /\ table' = table \ {hold[t]}
    /\ connected' = [connected EXCEPT ![hold[t]] = FALSE]
    /\ UNCHANGED <<objects, hold, mode>>

Free(t) ==
    /\ mode[t] = "sole" /\ hold[t] \in objects \ table
    /\ Holders(hold[t]) = {t}
    /\ objects' = objects \ {hold[t]}
    /\ hold' = [hold EXCEPT ![t] = None]
    /\ mode' = [mode EXCEPT ![t] = "none"]
    /\ UNCHANGED <<table, connected>>

Next ==
    \/ \E s \in Sockets : Add(s) \/ \E t \in Threads : Find(t, s)
    \/ \E t \in Threads : \/ Share(t) \/ Own(t) \/ Disconnect(t) \/ LetGo(t)
                          \/ Remove(t) \/ Free(t)

Spec == Init /\ [][Next]_vars
=============================================================================
