--------------------------- MODULE LinkDirectory ---------------------------
(***************************************************************************)
(* What the comms runtime promises its application, without threads,       *)
(* locks or sockets: a directory of Bratislava links, each published at    *)
(* most once in the life of the runtime, announced at most once and only   *)
(* while it is in the directory, and retracted at most once, after the     *)
(* directory was closed, and only if it was in it.  A device is reported   *)
(* to the application at most once as well.                                *)
(***************************************************************************)
CONSTANT Keys            \* "bt|<mac>" and "wifi|<mac>": one per peer and radio

VARIABLES
    dir,        \* the keys of the links in the directory
    closed,     \* the directory was emptied by stop()
    met,        \* the keys reported to a DEVICE_DISCOVERED callback
    told,       \* the keys announced to a LINK_DISCOVERED callback
    leaving,    \* the keys emptied from the directory and not yet retracted
    gone        \* the keys retracted through a LINK_DROPPED callback

vars == <<dir, closed, met, told, leaving, gone>>

Init ==
    /\ dir = {} /\ met = {} /\ told = {} /\ leaving = {} /\ gone = {}
    /\ closed = FALSE

(* A device is seen for the first time and reported. *)
Meet(k) ==
    /\ ~closed
    /\ k \notin met
    /\ met' = met \cup {k}
    /\ UNCHANGED <<dir, closed, told, leaving, gone>>

(* A handshake with the peer succeeded and its link enters the directory. *)
Publish(k) ==
    /\ ~closed
    /\ k \notin dir
    /\ dir' = dir \cup {k}
    /\ UNCHANGED <<closed, met, told, leaving, gone>>

(* The application is told of a link that is in the directory. *)
Announce(k) ==
    /\ k \in dir \ told
    /\ told' = told \cup {k}
    /\ UNCHANGED <<dir, closed, met, leaving, gone>>

(* stop() empties the directory, once. *)
Close ==
    /\ ~closed
    /\ closed' = TRUE
    /\ leaving' = dir
    /\ dir' = {}
    /\ UNCHANGED <<met, told, gone>>

(* The application is told that a link of the closed directory is gone. *)
Retract(k) ==
    /\ k \in leaving \ gone
    /\ leaving' = leaving \ {k}
    /\ gone' = gone \cup {k}
    /\ UNCHANGED <<dir, closed, met, told>>

(* No LINK_DROPPED callback is registered: nobody is told. *)
Forget ==
    /\ closed
    /\ leaving' = {}
    /\ UNCHANGED <<dir, closed, met, told, gone>>

Next ==
    \/ \E k \in Keys : Meet(k) \/ Publish(k) \/ Announce(k) \/ Retract(k)
    \/ Close
    \/ Forget

Spec == Init /\ [][Next]_vars
=============================================================================
