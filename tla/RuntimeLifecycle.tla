-------------------------- MODULE RuntimeLifecycle --------------------------
(***************************************************************************)
(* The process-wide runtime behind createInstrumentAPI() and               *)
(* destroyInstrumentAPI(): g_runtime, its reference count, and the raw     *)
(* pointers get_runtime() hands out after it unlocked g_runtime_mutex.     *)
(* Application threads own their handles; the last destroy stops the       *)
(* runtime outside the mutex, so the next one may start meanwhile.  Inside *)
(* a runtime only the Bluetooth server and the discovery thread are kept:  *)
(* the one owns PSM 0x1001, the other runs callbacks.                      *)
(***************************************************************************)
EXTENDS Naturals, FiniteSets

CONSTANTS
    Apps,           \* application threads
    Instances,      \* the CommsRuntime objects the process ever makes (bound)
    None,
    MaxHandles,     \* handles a thread holds at once (bound)
    CallbacksCall   \* TRUE: callbacks call the API

ASSUME LifecycleAssumption ==
    /\ IsFiniteSet(Apps) /\ Apps \cap Instances = {}
    /\ None \notin Apps \cup Instances
    /\ MaxHandles \in Nat \ {0}
    /\ CallbacksCall \in BOOLEAN

VARIABLES
    g_runtime, g_runtime_refcount,
    held,       \* the handles each application thread holds
    inst,       \* the life of each CommsRuntime object
    server,     \* its bluetooth_server_thread_
    psm,        \* the object whose server socket is bound to the PSM
    disc,       \* its discovery_thread_
    pc,         \* where each application thread is
    victim,     \* its runtime_to_stop
    ptr         \* the result of get_runtime() in use by a thread or a callback

vars == <<g_runtime, g_runtime_refcount, held, inst, server, psm, disc, pc, victim, ptr>>

TypeOK ==
    /\ g_runtime \in Instances \cup {None}
    /\ g_runtime_refcount \in 0 .. MaxHandles * Cardinality(Apps)
    /\ held \in [Apps -> 0 .. MaxHandles]
    /\ inst \in [Instances -> {"absent", "up", "stopping", "gone"}]
    /\ server \in [Instances -> {"none", "starting", "serving", "exited"}]
    /\ psm \in Instances \cup {None}
    /\ disc \in [Instances -> {"none", "scanning", "in_call", "exited"}]
    /\ pc \in [Apps -> {"idle", "in_call", "stop", "join", "free"}]
    /\ victim \in [Apps -> Instances \cup {None}]
    /\ ptr \in [Apps \cup Instances -> Instances \cup {None}]

Init ==
    /\ g_runtime = None /\ g_runtime_refcount = 0 /\ psm = None
    /\ held = [t \in Apps |-> 0]
    /\ inst = [i \in Instances |-> "absent"]
    /\ server = [i \in Instances |-> "none"]
    /\ disc = [i \in Instances |-> "none"]
    /\ pc = [t \in Apps |-> "idle"]
    /\ victim = [t \in Apps |-> None]
    /\ ptr = [x \in Apps \cup Instances |-> None]
-----------------------------------------------------------------------------
(* comms_runtime_initialize(): one critical section, start() included. *)
CreateFirst(t) ==
    /\ pc[t] = "idle" /\ held[t] < MaxHandles
    /\ g_runtime = None
    /\ \E i \in Instances :
         /\ inst[i] = "absent"
         /\ inst' = [inst EXCEPT ![i] = "up"]
         /\ server' = [server EXCEPT ![i] = "starting"]
         /\ disc' = [disc EXCEPT ![i] = "scanning"]
         /\ g_runtime' = i
    /\ g_runtime_refcount' = g_runtime_refcount + 1
    /\ held' = [held EXCEPT ![t] = @ + 1]
    /\ UNCHANGED <<psm, pc, victim, ptr>>

(* Mutant: only the handle that starts the runtime is counted. *)
CreateAgainUncounted(t) ==
    /\ pc[t] = "idle" /\ held[t] < MaxHandles
    /\ g_runtime # None
    /\ held' = [held EXCEPT ![t] = @ + 1]
    /\ UNCHANGED <<g_runtime, g_runtime_refcount, inst, server, psm, disc, pc, victim, ptr>>

CreateAgain(t) ==
    /\ pc[t] = "idle" /\ held[t] < MaxHandles
    /\ g_runtime # None
    /\ g_runtime_refcount' = g_runtime_refcount + 1
    /\ held' = [held EXCEPT ![t] = @ + 1]
    /\ UNCHANGED <<g_runtime, inst, server, psm, disc, pc, victim, ptr>>

(* Mutant: the count is raised before start() is known to have succeeded. *)
CreateFailsCounted(t) ==
    /\ pc[t] = "idle" /\ g_runtime = None
    /\ \E i \in Instances : inst[i] = "absent" /\ inst' = [inst EXCEPT ![i] = "gone"]
    /\ g_runtime_refcount' = g_runtime_refcount + 1
    /\ UNCHANGED <<g_runtime, held, server, psm, disc, pc, victim, ptr>>

(* start() fails: the object is reset and no handle is returned. *)
CreateFails(t) ==
    /\ pc[t] = "idle" /\ g_runtime = None
    /\ \E i \in Instances : inst[i] = "absent" /\ inst' = [inst EXCEPT ![i] = "gone"]
    /\ UNCHANGED <<g_runtime, g_runtime_refcount, held, server, psm, disc, pc, victim, ptr>>

(* Mutant: every destroy stops the runtime. *)
DestroyUncounted(t) ==
    /\ pc[t] = "idle" /\ held[t] > 0
    /\ held' = [held EXCEPT ![t] = @ - 1]
    /\ g_runtime_refcount' = g_runtime_refcount - 1
    /\ IF g_runtime # None
       THEN /\ victim' = [victim EXCEPT ![t] = g_runtime]
            /\ g_runtime' = None
            /\ pc' = [pc EXCEPT ![t] = "stop"]
       ELSE /\ pc' = [pc EXCEPT ![t] = "free"]
            /\ UNCHANGED <<victim, g_runtime>>
    /\ UNCHANGED <<inst, server, psm, disc, ptr>>

(* Mutant: the runtime is stopped but stays in g_runtime. *)
DestroyKeepsRuntime(t) ==
    /\ pc[t] = "idle" /\ held[t] > 0
    /\ held' = [held EXCEPT ![t] = @ - 1]
    /\ g_runtime_refcount' = g_runtime_refcount - 1
    /\ IF g_runtime_refcount = 1 /\ g_runtime # None
       THEN /\ victim' = [victim EXCEPT ![t] = g_runtime]
            /\ pc' = [pc EXCEPT ![t] = "stop"]
       ELSE /\ pc' = [pc EXCEPT ![t] = "free"]
            /\ UNCHANGED victim
    /\ UNCHANGED <<g_runtime, inst, server, psm, disc, ptr>>

(* comms_runtime_shutdown(): the critical section. *)
Destroy(t) ==
    /\ pc[t] = "idle" /\ held[t] > 0
    /\ held' = [held EXCEPT ![t] = @ - 1]
    /\ g_runtime_refcount' = g_runtime_refcount - 1
    /\ IF g_runtime_refcount = 1 /\ g_runtime # None
       THEN /\ victim' = [victim EXCEPT ![t] = g_runtime]
            /\ g_runtime' = None
            /\ pc' = [pc EXCEPT ![t] = "stop"]
       ELSE /\ pc' = [pc EXCEPT ![t] = "free"]
            /\ UNCHANGED <<victim, g_runtime>>
    /\ UNCHANGED <<inst, server, psm, disc, ptr>>

(* stop(), outside the mutex: running_ is cleared, ... *)
StopVictim(t) ==
    /\ pc[t] = "stop"
    /\ inst' = [inst EXCEPT ![victim[t]] = "stopping"]
    /\ pc' = [pc EXCEPT ![t] = "join"]
    /\ UNCHANGED <<g_runtime, g_runtime_refcount, held, server, psm, disc, victim, ptr>>

(* Mutant: the object is deleted while its threads run. *)
DeleteUnjoined(t) ==
    /\ pc[t] = "join"
    /\ inst' = [inst EXCEPT ![victim[t]] = "gone"]
    /\ victim' = [victim EXCEPT ![t] = None]
    /\ pc' = [pc EXCEPT ![t] = "free"]
    /\ UNCHANGED <<g_runtime, g_runtime_refcount, held, server, psm, disc, ptr>>

(* ... the threads are joined, and runtime_to_stop deletes the object. *)
DeleteVictim(t) ==
    /\ pc[t] = "join"
    /\ server[victim[t]] = "exited" /\ disc[victim[t]] = "exited"
    /\ inst' = [inst EXCEPT ![victim[t]] = "gone"]
    /\ victim' = [victim EXCEPT ![t] = None]
    /\ pc' = [pc EXCEPT ![t] = "free"]
    /\ UNCHANGED <<g_runtime, g_runtime_refcount, held, server, psm, disc, ptr>>

FreeHandle(t) ==
    /\ pc[t] = "free"
    /\ pc' = [pc EXCEPT ![t] = "idle"]
    /\ UNCHANGED <<g_runtime, g_runtime_refcount, held, inst, server, psm, disc, victim, ptr>>

(* register, unregister and discover: get_runtime() and then the object. *)
Call(t) ==
    /\ pc[t] = "idle" /\ held[t] > 0
    /\ ptr' = [ptr EXCEPT ![t] = g_runtime]
    /\ pc' = [pc EXCEPT ![t] = "in_call"]
    /\ UNCHANGED <<g_runtime, g_runtime_refcount, held, inst, server, psm, disc, victim>>

CallReturns(t) ==
    /\ pc[t] = "in_call"
    /\ ptr' = [ptr EXCEPT ![t] = None]
    /\ pc' = [pc EXCEPT ![t] = "idle"]
    /\ UNCHANGED <<g_runtime, g_runtime_refcount, held, inst, server, psm, disc, victim>>
-----------------------------------------------------------------------------
(* bluetooth_server_loop(): bind() fails while another object's server has *)
(* the PSM, and the loop is not entered.                                   *)
ServerBinds(i) ==
    /\ server[i] = "starting"
    /\ IF psm = None
       THEN psm' = i /\ server' = [server EXCEPT ![i] = "serving"]
       ELSE psm' = psm /\ server' = [server EXCEPT ![i] = "exited"]
    /\ UNCHANGED <<g_runtime, g_runtime_refcount, held, inst, disc, pc, victim, ptr>>

(* Mutant: the server loop does not test running_. *)
ServerStays(i) == server[i] = "serving" /\ FALSE /\ UNCHANGED vars

(* The loop's test of running_, and close(server_fd).  An error of accept() *)
(* other than its timeout ends the loop too: L2capHandshake has that.       *)
ServerLeaves(i) ==
    /\ server[i] = "serving" /\ inst[i] = "stopping"
    /\ server' = [server EXCEPT ![i] = "exited"]
    /\ psm' = None
    /\ UNCHANGED <<g_runtime, g_runtime_refcount, held, inst, disc, pc, victim, ptr>>

(* A callback of the discovery thread calls the API ... *)
CallbackCalls(i) ==
    /\ CallbacksCall
    /\ disc[i] = "scanning"
    /\ ptr' = [ptr EXCEPT ![i] = g_runtime]
    /\ disc' = [disc EXCEPT ![i] = "in_call"]
    /\ UNCHANGED <<g_runtime, g_runtime_refcount, held, inst, server, psm, pc, victim>>

CallbackReturns(i) ==
    /\ disc[i] = "in_call"
    /\ ptr' = [ptr EXCEPT ![i] = None]
    /\ disc' = [disc EXCEPT ![i] = "scanning"]
    /\ UNCHANGED <<g_runtime, g_runtime_refcount, held, inst, server, psm, pc, victim>>

(* ... and the thread leaves its loop between two scans. *)
DiscoveryLeaves(i) ==
    /\ disc[i] = "scanning" /\ inst[i] = "stopping"
    /\ disc' = [disc EXCEPT ![i] = "exited"]
    /\ UNCHANGED <<g_runtime, g_runtime_refcount, held, inst, server, psm, pc, victim, ptr>>
-----------------------------------------------------------------------------
DestroySteps(t) == StopVictim(t) \/ DeleteVictim(t) \/ FreeHandle(t)

Next ==
    \/ \E t \in Apps : \/ CreateFirst(t) \/ CreateAgain(t) \/ CreateFails(t)
                       \/ Destroy(t) \/ DestroySteps(t)
                       \/ Call(t) \/ CallReturns(t)
    \/ \E i \in Instances : \/ ServerBinds(i) \/ ServerLeaves(i)
                            \/ CallbackCalls(i) \/ CallbackReturns(i) \/ DiscoveryLeaves(i)

(* Threads run, calls and callbacks return; a scan ends, and the loop's    *)
(* test follows it, which is why leaving is strongly fair.                 *)
Fairness ==
    /\ \A t \in Apps : WF_vars(DestroySteps(t)) /\ WF_vars(CallReturns(t))
    /\ \A i \in Instances : /\ WF_vars(ServerBinds(i)) /\ WF_vars(ServerLeaves(i))
                            /\ WF_vars(CallbackReturns(i)) /\ SF_vars(DiscoveryLeaves(i))

Spec == Init /\ [][Next]_vars /\ Fairness
-----------------------------------------------------------------------------
(* The handles in the application's hands, those of a thread numbered. *)
Handles == {h \in Apps \X (1 .. MaxHandles) : h[2] <= held[h[1]]}

(* The reference count is the number of handles in the application's hands, *)
(* and a runtime exists exactly while there is one.                        *)
RefcountCounts ==
    /\ g_runtime_refcount = Cardinality(Handles)
    /\ g_runtime = None <=> g_runtime_refcount = 0

(* Whoever holds a handle is served by a runtime that nobody is stopping:  *)
(* a stop in progress always concerns an object that get_runtime() no      *)
(* longer returns, and no other thread stops it too.                       *)
HolderServed ==
    /\ \A t \in Apps : held[t] > 0 => g_runtime # None /\ inst[g_runtime] = "up"
    /\ \A t, u \in Apps : /\ victim[t] # None => victim[t] # g_runtime
                          /\ t # u /\ victim[t] # None => victim[t] # victim[u]

(* The raw pointer a thread that holds a handle got from get_runtime() is  *)
(* not dangling, though the mutex was released before it is used: the      *)
(* thread's own handle keeps the object alive.                             *)
NoUseAfterDelete ==
    \A t \in Apps : pc[t] = "in_call" => ptr[t] # None /\ inst[ptr[t]] # "gone"

(* The runtimes ever made, those with a thread or the PSM, and those some  *)
(* destroyInstrumentAPI() is about to stop, stops or waits for.            *)
Made    == {i \in Instances : inst[i] # "absent"}
Working == {i \in Instances : \/ server[i] \in {"starting", "serving"}
                              \/ disc[i] \in {"scanning", "in_call"}
                              \/ psm = i}
Ending  == {victim[t] : t \in Apps} \ {None}
Using   == [t \in Apps |-> ptr[t]]

(* The count, the mutex and the pointers are an implementation of a        *)
(* runtime that is shared by all handles: it ends with the last of them,   *)
(* whatever calls overlap and although the next one may start meanwhile,   *)
(* and is deleted only when it has no thread, no PSM and no call in it.    *)
Sharing == INSTANCE SharedRuntime WITH
    handles <- Handles, current <- g_runtime, made <- Made,
    working <- Working, ending <- Ending, using <- Using
ImplementsSharing == Sharing!Spec

(* destroyInstrumentAPI() returns. *)
DestroyReturns == \A t \in Apps : pc[t] \in {"stop", "join", "free"} ~> pc[t] = "idle"
=============================================================================
