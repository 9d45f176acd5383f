--------------------------- MODULE SharedRuntime ---------------------------
(***************************************************************************)
(* What createInstrumentAPI() and destroyInstrumentAPI() promise, without  *)
(* a counter, a mutex or a pointer that may dangle: all handles that exist *)
(* share one runtime, made for the first of them; the last one ends it; a  *)
(* call is served by the runtime its thread has a handle of until it       *)
(* returns; and no runtime goes away while it works or serves a call.      *)
(***************************************************************************)
EXTENDS Naturals

CONSTANTS Apps, Instances, None, MaxHandles

VARIABLES
    handles,   \* the handles that exist, <<thread, number>> each
    current,   \* the runtime they share
    made,      \* the runtimes ever made
    working,   \* those with a thread, or a port, of their own
    ending,    \* those the last handle left and that are still there
    using      \* the runtime that serves the call of a thread

vars == <<handles, current, made, working, ending, using>>

Init ==
    /\ handles = {} /\ made = {} /\ working = {} /\ ending = {}
    /\ current = None
    /\ using = [a \in Apps |-> None]

(* The first handle comes with a runtime that never was before ... *)
AcquireFirst(h) ==
    /\ handles = {}
    /\ \E i \in Instances \ made :
          /\ current' = i
          /\ made' = made \cup {i} /\ working' = working \cup {i}
    /\ handles' = {h}
    /\ UNCHANGED <<ending, using>>

(* ... or does not come, and the next try makes another one.               *)
AcquireFails ==
    /\ handles = {}
    /\ \E i \in Instances \ made : made' = made \cup {i}
    /\ UNCHANGED <<handles, current, working, ending, using>>

AcquireAnother(h) ==
    /\ handles # {} /\ h \notin handles
    /\ handles' = handles \cup {h}
    /\ UNCHANGED <<current, made, working, ending, using>>

(* A thread gives up a handle, not inside a call; only with the last one   *)
(* does the runtime begin to end, and nothing else than that begins it.    *)
Release(h) ==
    /\ h \in handles /\ using[h[1]] = None
    /\ handles' = handles \ {h}
    /\ IF handles = {h}
       THEN current' = None /\ ending' = ending \cup {current}
       ELSE UNCHANGED <<current, ending>>
    /\ UNCHANGED <<made, working, using>>

(* A runtime works until it is to end, and is gone after that.             *)
Finish(i) ==
    /\ i \in ending \cap working
    /\ working' = working \ {i}
    /\ UNCHANGED <<handles, current, made, ending, using>>

Delete(i) ==
    /\ i \in ending \ working
    /\ \A a \in Apps : using[a] # i
    /\ ending' = ending \ {i}
    /\ UNCHANGED <<handles, current, made, working, using>>

(* A call of a thread that has a handle, from beginning to end.            *)
Enter(a) ==
    /\ using[a] = None /\ \E h \in handles : h[1] = a
    /\ using' = [using EXCEPT ![a] = current]
    /\ UNCHANGED <<handles, current, made, working, ending>>

Leave(a) ==
    /\ using[a] # None
    /\ using' = [using EXCEPT ![a] = None]
    /\ UNCHANGED <<handles, current, made, working, ending>>

Next ==
    \/ \E h \in Apps \X (1 .. MaxHandles) :
          AcquireFirst(h) \/ AcquireAnother(h) \/ Release(h)
    \/ AcquireFails
    \/ \E i \in Instances : Finish(i) \/ Delete(i)
    \/ \E a \in Apps : Enter(a) \/ Leave(a)

Spec == Init /\ [][Next]_vars
=============================================================================
