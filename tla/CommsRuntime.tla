---------------------------- MODULE CommsRuntime ----------------------------
(***************************************************************************)
(* One CommsRuntime object of src/src/comms_runtime.cpp, from start() to   *)
(* the end of stop(): the discovery thread and the application threads     *)
(* inside discover_links() run the same scan concurrently, and meet at     *)
(* mutex_, which guards the seen sets, the table of active links and the   *)
(* callback slots.  A step is one critical section of mutex_, one system   *)
(* call that opens or closes a socket, or one call of an application's     *)
(* callback, so every interleaving the mutex allows is a behaviour.        *)
(***************************************************************************)
EXTENDS Naturals, Sequences, FiniteSets

CONSTANTS
    Keys,               \* "bt|<mac>", "wifi|<mac>"
    BtCandidates,       \* what bluetooth_discover_devices_backend() may report
    WifiCandidates,     \* what discover_wifi_candidates() may report: one per
                        \* interface and MAC, so two of them may share a key
    KeyOf,              \* the key the scan makes of a candidate
    Disc,               \* discovery_thread_
    Callers,            \* application threads that call discover_links()
    Fds,                \* the descriptors the process may have open
    Handlers,           \* the functions an application may register
    AppSlots,           \* the callbacks the application registers at all
    NoHandler,          \* nullptr
    NoFd,
    NoCandidate,
    MaxLinks,           \* COMMS_MAX_LINKS
    CallersReturnFirst  \* TRUE: the application has no call in progress when
                        \* it destroys its last handle

Candidates == BtCandidates \cup WifiCandidates
Threads    == {Disc} \cup Callers
Servers    == {"udp", "bt"}
Radios     == {"BLUETOOTH", "WIFI"}
RadioOf(c) == IF c \in BtCandidates THEN "BLUETOOTH" ELSE "WIFI"
Slots      == {"bluetooth_device", "wifi_device", "link_discovered", "link_dropped"}
DeviceSlot(c) == IF c \in BtCandidates THEN "bluetooth_device" ELSE "wifi_device"

ASSUME ConstantsAssumption ==
    /\ KeyOf \in [Candidates -> Keys]
    /\ BtCandidates \cap WifiCandidates = {}
    /\ \A b \in BtCandidates, w \in WifiCandidates : KeyOf[b] # KeyOf[w]
    /\ Disc \notin Callers
    /\ NoHandler \notin Handlers
    /\ AppSlots \subseteq Slots
    /\ NoFd \notin Fds
    /\ NoCandidate \notin Candidates
    /\ MaxLinks \in Nat
    /\ CallersReturnFirst \in BOOLEAN

VARIABLES
    phase,      \* where the controlling thread is in start() and stop()
    running,    \* running_
    server,     \* udp_server_thread_ and bluetooth_server_thread_
    pc,         \* where each scanning thread is
    todo,       \* the candidates of the current scan still to visit
    cand,       \* the candidate being visited
    attempt,    \* should_attempt
    snap,       \* the callback copied under mutex_ and not yet returned from
    hand,       \* the socket of the handshake in progress
    seen,       \* seen_bluetooth_devices_ and seen_wifi_devices_
    keys,       \* active_link_keys_
    links,      \* active_links_, in list order
    callbacks,  \* callbacks_
    open,       \* the handshake sockets the kernel has open
    given,      \* the links whose addresses the last discover_links()
                \* of a caller returned
    dropped,    \* the local `dropped' of stop(): the links still to report
    dropSnap,   \* the local `drop_callback' of stop()
    met, told, gone  \* the keys passed to DEVICE_DISCOVERED, LINK_DISCOVERED
                     \* and LINK_DROPPED callbacks (history)

scanVars == <<pc, todo, cand, attempt, snap, hand>>
history  == <<met, told, gone>>
vars == <<phase, running, server, scanVars, seen, keys, links, callbacks, open,
          given, dropped, dropSnap, history>>

ScanPoints == {"bt_scan", "bt_next", "wifi_next", "device_cb", "in_device_cb",
               "decide", "handshake", "publish", "link_cb", "in_link_cb"}
DiscPoints == {"unborn", "loop", "wait", "parking", "blocked", "exited"}
CallPoints == {"idle", "collect"}
Phases     == {"start", "spawn_udp", "spawn_bt", "spawn_disc", "up", "notify",
               "join_udp", "join_bt", "join_disc", "drain", "snapshot",
               "drops", "in_drop", "stopped"}

Link     == [key : Keys, radio : Radios, fd : Fds]
LinkFds  == {links[i].fd : i \in DOMAIN links}
LinkKeys == {links[i].key : i \in DOMAIN links}

TypeOK ==
    /\ phase \in Phases
    /\ running \in BOOLEAN
    /\ server \in [Servers -> {"unborn", "serving", "exited"}]
    /\ pc \in [Threads -> ScanPoints \cup DiscPoints \cup CallPoints]
    /\ todo \in [Threads -> SUBSET Candidates]
    /\ cand \in [Threads -> Candidates \cup {NoCandidate}]
    /\ attempt \in [Threads -> BOOLEAN]
    /\ snap \in [Threads -> Handlers \cup {NoHandler}]
    /\ hand \in [Threads -> Fds \cup {NoFd}]
    /\ seen \subseteq Keys
    /\ keys \subseteq Keys
    /\ links \in Seq(Link)
    /\ callbacks \in [Slots -> Handlers \cup {NoHandler}]
    /\ open \subseteq Fds
    /\ given \in [Callers -> SUBSET Keys]
    /\ dropped \in Seq(Link)
    /\ dropSnap \in Handlers \cup {NoHandler}
    /\ met \subseteq Keys /\ told \subseteq Keys /\ gone \subseteq Keys

Init ==
    /\ phase = "start"
    /\ running = FALSE
    /\ server = [s \in Servers |-> "unborn"]
    /\ pc = [t \in Threads |-> IF t = Disc THEN "unborn" ELSE "idle"]
    /\ todo = [t \in Threads |-> {}]
    /\ cand = [t \in Threads |-> NoCandidate]
    /\ attempt = [t \in Threads |-> FALSE]
    /\ snap = [t \in Threads |-> NoHandler]
    /\ hand = [t \in Threads |-> NoFd]
    /\ seen = {} /\ keys = {} /\ links = << >> /\ open = {}
    /\ callbacks = [s \in Slots |-> NoHandler]
    /\ given = [c \in Callers |-> {}]
    /\ dropped = << >>
    /\ dropSnap = NoHandler
    /\ met = {} /\ told = {} /\ gone = {}
-----------------------------------------------------------------------------
(* The scan: scan_bluetooth_links() and then scan_wifi_links().            *)

(* The end of the loop body: on to the next candidate of the same radio. *)
NextCandidate(t) ==
    /\ pc' = [pc EXCEPT ![t] = IF cand[t] \in BtCandidates THEN "bt_next" ELSE "wifi_next"]
    /\ cand' = [cand EXCEPT ![t] = NoCandidate]
    /\ attempt' = [attempt EXCEPT ![t] = FALSE]

(* The Bluetooth backend returns; a backend error is a scan of nothing. *)
ScanBluetooth(t) ==
    /\ pc[t] = "bt_scan"
    /\ \E found \in SUBSET BtCandidates : todo' = [todo EXCEPT ![t] = found]
    /\ pc' = [pc EXCEPT ![t] = "bt_next"]
    /\ UNCHANGED <<phase, running, server, cand, attempt, snap, hand, seen, keys,
                   links, callbacks, open, given, dropped, dropSnap, history>>

ScanWifi(t) ==
    /\ pc[t] = "bt_next" /\ todo[t] = {}
    /\ \E found \in SUBSET WifiCandidates : todo' = [todo EXCEPT ![t] = found]
    /\ pc' = [pc EXCEPT ![t] = "wifi_next"]
    /\ UNCHANGED <<phase, running, server, cand, attempt, snap, hand, seen, keys,
                   links, callbacks, open, given, dropped, dropSnap, history>>

(* The first critical section of the loop body: the device is new or not,  *)
(* and its link is already there or not.                                   *)
ConsiderDevice(t) ==
    /\ pc[t] \in {"bt_next", "wifi_next"}
    /\ \E c \in todo[t] :
         /\ todo' = [todo EXCEPT ![t] = @ \ {c}]
         /\ cand' = [cand EXCEPT ![t] = c]
         /\ seen' = seen \cup {KeyOf[c]}
         /\ attempt' = [attempt EXCEPT ![t] = KeyOf[c] \notin keys]
         /\ LET device_callback == IF KeyOf[c] \in seen THEN NoHandler
                                   ELSE callbacks[DeviceSlot(c)]
            IN  /\ snap' = [snap EXCEPT ![t] = device_callback]
                /\ pc' = [pc EXCEPT ![t] =
                            IF device_callback = NoHandler THEN "decide" ELSE "device_cb"]
    /\ UNCHANGED <<phase, running, server, hand, keys, links, callbacks, open,
                   given, dropped, dropSnap, history>>

CallDevice(t) ==
    /\ pc[t] = "device_cb"
    /\ met' = met \cup {KeyOf[cand[t]]}
    /\ pc' = [pc EXCEPT ![t] = "in_device_cb"]
    /\ UNCHANGED <<phase, running, server, todo, cand, attempt, snap, hand, seen, keys,
                   links, callbacks, open, given, dropped, dropSnap, told, gone>>

DeviceReturns(t) ==
    /\ pc[t] = "in_device_cb"
    /\ snap' = [snap EXCEPT ![t] = NoHandler]
    /\ pc' = [pc EXCEPT ![t] = "decide"]
    /\ UNCHANGED <<phase, running, server, todo, cand, attempt, hand, seen, keys,
                   links, callbacks, open, given, dropped, dropSnap, history>>

(* The link is there, or socket() fails. *)
SkipDevice(t) ==
    /\ pc[t] = "decide"
    /\ NextCandidate(t)
    /\ UNCHANGED <<phase, running, server, todo, snap, hand, seen, keys, links,
                   callbacks, open, given, dropped, dropSnap, history>>

OpenSocket(t) ==
    /\ pc[t] = "decide" /\ attempt[t]
    /\ \E fd \in Fds \ open :
         /\ open' = open \cup {fd}
         /\ hand' = [hand EXCEPT ![t] = fd]
    /\ pc' = [pc EXCEPT ![t] = "handshake"]
    /\ UNCHANGED <<phase, running, server, todo, cand, attempt, snap, seen, keys,
                   links, callbacks, given, dropped, dropSnap, history>>

(* The address does not parse, connect, send or recv fails or times out,   *)
(* or the answer is not a reply.                                           *)
HandshakeFails(t) ==
    /\ pc[t] = "handshake"
    /\ open' = open \ {hand[t]}
    /\ hand' = [hand EXCEPT ![t] = NoFd]
    /\ NextCandidate(t)
    /\ UNCHANGED <<phase, running, server, todo, snap, seen, keys, links, callbacks,
                   given, dropped, dropSnap, history>>

(* Mutant: the socket is not stored in the link. *)
HandshakeForgetsSocket(t) ==
    /\ pc[t] = "handshake"
    /\ pc' = [pc EXCEPT ![t] = "publish"]
    /\ hand' = [hand EXCEPT ![t] = NoFd]
    /\ UNCHANGED <<phase, running, server, todo, cand, attempt, snap, seen, keys,
                   links, callbacks, open, given, dropped, dropSnap, history>>

HandshakeSucceeds(t) ==
    /\ pc[t] = "handshake"
    /\ pc' = [pc EXCEPT ![t] = "publish"]
    /\ UNCHANGED <<phase, running, server, todo, cand, attempt, snap, hand, seen, keys,
                   links, callbacks, open, given, dropped, dropSnap, history>>

(* Mutant: the socket of a duplicate is not closed. *)
DiscardLinkLeaking(t) ==
    /\ pc[t] = "publish" /\ KeyOf[cand[t]] \in keys
    /\ hand' = [hand EXCEPT ![t] = NoFd]
    /\ NextCandidate(t)
    /\ UNCHANGED <<phase, running, server, todo, snap, seen, keys, links, callbacks,
                   open, given, dropped, dropSnap, history>>

(* publish_link(): another thread published the peer meanwhile ... *)
DiscardLink(t) ==
    /\ pc[t] = "publish" /\ KeyOf[cand[t]] \in keys
    /\ open' = open \ {hand[t]}
    /\ hand' = [hand EXCEPT ![t] = NoFd]
    /\ NextCandidate(t)
    /\ UNCHANGED <<phase, running, server, todo, snap, seen, keys, links, callbacks,
                   given, dropped, dropSnap, history>>

(* Mutant: publish_link() trusts should_attempt, read before the handshake. *)
PublishLinkUnchecked(t) ==
    /\ pc[t] = "publish" /\ attempt[t]
    /\ keys' = keys \cup {KeyOf[cand[t]]}
    /\ links' = Append(links, [key |-> KeyOf[cand[t]], radio |-> RadioOf(cand[t]),
                               fd |-> hand[t]])
    /\ hand' = [hand EXCEPT ![t] = NoFd]
    /\ snap' = [snap EXCEPT ![t] = callbacks["link_discovered"]]
    /\ pc' = [pc EXCEPT ![t] = "link_cb"]
    /\ UNCHANGED <<phase, running, server, todo, cand, attempt, seen, callbacks, open,
                   given, dropped, dropSnap, history>>

(* ... or the link enters the table, and the callback is copied. *)
PublishLink(t) ==
    /\ pc[t] = "publish" /\ KeyOf[cand[t]] \notin keys
    /\ keys' = keys \cup {KeyOf[cand[t]]}
    /\ links' = Append(links, [key |-> KeyOf[cand[t]], radio |-> RadioOf(cand[t]),
                               fd |-> hand[t]])
    /\ hand' = [hand EXCEPT ![t] = NoFd]
    /\ snap' = [snap EXCEPT ![t] = callbacks["link_discovered"]]
    /\ pc' = [pc EXCEPT ![t] = "link_cb"]
    /\ UNCHANGED <<phase, running, server, todo, cand, attempt, seen, callbacks, open,
                   given, dropped, dropSnap, history>>

CallLink(t) ==
    /\ pc[t] = "link_cb" /\ snap[t] # NoHandler
    /\ told' = told \cup {KeyOf[cand[t]]}
    /\ pc' = [pc EXCEPT ![t] = "in_link_cb"]
    /\ UNCHANGED <<phase, running, server, todo, cand, attempt, snap, hand, seen, keys,
                   links, callbacks, open, given, dropped, dropSnap, met, gone>>

LinkReturns(t) ==
    /\ \/ pc[t] = "link_cb" /\ snap[t] = NoHandler
       \/ pc[t] = "in_link_cb"
    /\ snap' = [snap EXCEPT ![t] = NoHandler]
    /\ NextCandidate(t)
    /\ UNCHANGED <<phase, running, server, todo, hand, seen, keys, links, callbacks,
                   open, given, dropped, dropSnap, history>>

Scan(t) ==
    \/ ScanBluetooth(t) \/ ScanWifi(t) \/ ConsiderDevice(t)
    \/ CallDevice(t) \/ DeviceReturns(t)
    \/ SkipDevice(t) \/ OpenSocket(t) \/ HandshakeFails(t) \/ HandshakeSucceeds(t)
    \/ DiscardLink(t) \/ PublishLink(t) \/ CallLink(t) \/ LinkReturns(t)
-----------------------------------------------------------------------------
(* discovery_loop(): scan, then wait 5 s on discovery_cv_ or until notified. *)
LoopTest ==
    /\ pc[Disc] = "loop"
    /\ pc' = [pc EXCEPT ![Disc] = IF running THEN "bt_scan" ELSE "exited"]
    /\ UNCHANGED <<phase, running, server, todo, cand, attempt, snap, hand, seen, keys,
                   links, callbacks, open, given, dropped, dropSnap, history>>

DiscEndsScan ==
    /\ pc[Disc] = "wifi_next" /\ todo[Disc] = {}
    /\ pc' = [pc EXCEPT ![Disc] = "wait"]
    /\ UNCHANGED <<phase, running, server, todo, cand, attempt, snap, hand, seen, keys,
                   links, callbacks, open, given, dropped, dropSnap, history>>

(* wait_for() evaluates its predicate, and is not waiting yet. *)
WaitTest ==
    /\ pc[Disc] = "wait"
    /\ pc' = [pc EXCEPT ![Disc] = IF running THEN "parking" ELSE "loop"]
    /\ UNCHANGED <<phase, running, server, todo, cand, attempt, snap, hand, seen, keys,
                   links, callbacks, open, given, dropped, dropSnap, history>>

Park ==
    /\ pc[Disc] = "parking"
    /\ pc' = [pc EXCEPT ![Disc] = "blocked"]
    /\ UNCHANGED <<phase, running, server, todo, cand, attempt, snap, hand, seen, keys,
                   links, callbacks, open, given, dropped, dropSnap, history>>

(* Mutant: wait() instead of wait_for(). *)
WaitForever == pc[Disc] = "blocked" /\ FALSE /\ UNCHANGED vars

WaitTimesOut ==
    /\ pc[Disc] = "blocked"
    /\ pc' = [pc EXCEPT ![Disc] = "loop"]
    /\ UNCHANGED <<phase, running, server, todo, cand, attempt, snap, hand, seen, keys,
                   links, callbacks, open, given, dropped, dropSnap, history>>

Discovery ==
    Scan(Disc) \/ LoopTest \/ DiscEndsScan \/ WaitTest \/ Park \/ WaitTimesOut
-----------------------------------------------------------------------------
(* The application: get_runtime() hands its threads the object while it is *)
(* up; a thread that fetched the pointer and was then delayed may still    *)
(* enter the object until stop() returns, unless the application waits.    *)
Reachable == phase = "up" \/ (~CallersReturnFirst /\ phase \notin {"start", "spawn_udp",
                               "spawn_bt", "spawn_disc", "stopped"})

BeginDiscover(c) ==
    /\ pc[c] = "idle" /\ Reachable
    /\ pc' = [pc EXCEPT ![c] = "bt_scan"]
    /\ given' = [given EXCEPT ![c] = {}]
    /\ UNCHANGED <<phase, running, server, todo, cand, attempt, snap, hand, seen, keys,
                   links, callbacks, open, dropped, dropSnap, history>>

CallerEndsScan(c) ==
    /\ pc[c] = "wifi_next" /\ todo[c] = {}
    /\ pc' = [pc EXCEPT ![c] = "collect"]
    /\ UNCHANGED <<phase, running, server, todo, cand, attempt, snap, hand, seen, keys,
                   links, callbacks, open, given, dropped, dropSnap, history>>

(* The first MaxLinks links of the radios asked for, in list order. *)
FirstLinks(wanted) ==
    LET matching(i) == {j \in 1..i : links[j].radio \in wanted}
    IN  {links[i].key : i \in {j \in DOMAIN links : /\ links[j].radio \in wanted
                                                    /\ Cardinality(matching(j)) <= MaxLinks}}

Collect(c) ==
    /\ pc[c] = "collect"
    /\ \E wanted \in {Radios, {"BLUETOOTH"}, {"WIFI"}} :
          given' = [given EXCEPT ![c] = FirstLinks(wanted)]
    /\ pc' = [pc EXCEPT ![c] = "idle"]
    /\ UNCHANGED <<phase, running, server, todo, cand, attempt, snap, hand, seen, keys,
                   links, callbacks, open, dropped, dropSnap, history>>

Caller(c) == phase # "stopped" /\ (Scan(c) \/ CallerEndsScan(c) \/ Collect(c))

(* register_callback() and unregister_callback(): one store under mutex_. *)
SetCallback(slot, h) ==
    /\ Reachable
    /\ callbacks' = [callbacks EXCEPT ![slot] = h]
    /\ UNCHANGED <<phase, running, server, scanVars, seen, keys, links, open, given,
                   dropped, dropSnap, history>>

RegisterCallback(slot, h) == h \in Handlers /\ SetCallback(slot, h)
UnregisterCallback(slot)  == SetCallback(slot, NoHandler)
-----------------------------------------------------------------------------
(* A server thread leaves its loop, or never entered it: socket(), bind()  *)
(* or listen() failed, or a receive failed with something but a timeout.   *)
ServerFails(s) ==
    /\ server[s] = "serving"
    /\ server' = [server EXCEPT ![s] = "exited"]
    /\ UNCHANGED <<phase, running, scanVars, seen, keys, links, callbacks, open, given,
                   dropped, dropSnap, history>>

(* The loop's test, reached after at most one poll timeout and one client. *)
ServerSeesStop(s) == ~running /\ ServerFails(s)
-----------------------------------------------------------------------------
(* The controlling thread: start(). *)
Start ==
    /\ phase = "start"
    /\ running' = TRUE
    /\ phase' = "spawn_udp"
    /\ UNCHANGED <<server, scanVars, seen, keys, links, callbacks, open, given, dropped,
                   dropSnap, history>>

SpawnServer ==
    \E s \in Servers :
        /\ phase = (IF s = "udp" THEN "spawn_udp" ELSE "spawn_bt")
        /\ server' = [server EXCEPT ![s] = "serving"]
        /\ phase' = IF s = "udp" THEN "spawn_bt" ELSE "spawn_disc"
        /\ UNCHANGED <<running, scanVars, seen, keys, links, callbacks, open, given,
                       dropped, dropSnap, history>>

SpawnDiscovery ==
    /\ phase = "spawn_disc"
    /\ pc' = [pc EXCEPT ![Disc] = "loop"]
    /\ phase' = "up"
    /\ UNCHANGED <<running, server, todo, cand, attempt, snap, hand, seen, keys, links,
                   callbacks, open, given, dropped, dropSnap, history>>

(* std::thread throws: running_ is cleared and stop() is called. *)
SpawnThrows ==
    /\ phase \in {"spawn_udp", "spawn_bt", "spawn_disc"}
    /\ running' = FALSE
    /\ phase' = "notify"
    /\ UNCHANGED <<server, scanVars, seen, keys, links, callbacks, open, given, dropped,
                   dropSnap, history>>

(* stop(): running_ is cleared without discovery_mutex_ ... *)
Stop ==
    /\ phase = "up"
    /\ CallersReturnFirst => \A c \in Callers : pc[c] = "idle"
    /\ running' = FALSE
    /\ phase' = "notify"
    /\ UNCHANGED <<server, scanVars, seen, keys, links, callbacks, open, given, dropped,
                   dropSnap, history>>

(* ... and so is the notification, which a thread that is parking misses. *)
Notify ==
    /\ phase = "notify"
    /\ pc' = IF pc[Disc] = "blocked" THEN [pc EXCEPT ![Disc] = "wait"] ELSE pc
    /\ phase' = "join_udp"
    /\ UNCHANGED <<running, server, todo, cand, attempt, snap, hand, seen, keys, links,
                   callbacks, open, given, dropped, dropSnap, history>>

(* Mutant: stop() does not join the discovery thread. *)
JoinServersOnly ==
    /\ \/ phase = "join_udp" /\ server["udp"] # "serving" /\ phase' = "join_bt"
       \/ phase = "join_bt" /\ server["bt"] # "serving" /\ phase' = "drain"
    /\ UNCHANGED <<running, server, scanVars, seen, keys, links, callbacks, open, given,
                   dropped, dropSnap, history>>

(* Mutant: stop() does not join the Bluetooth server. *)
JoinSkipsBluetooth ==
    /\ \/ phase = "join_udp" /\ server["udp"] # "serving" /\ phase' = "join_disc"
       \/ phase = "join_disc" /\ pc[Disc] \in {"unborn", "exited"} /\ phase' = "drain"
    /\ UNCHANGED <<running, server, scanVars, seen, keys, links, callbacks, open, given,
                   dropped, dropSnap, history>>

Join ==
    /\ \/ phase = "join_udp" /\ server["udp"] # "serving" /\ phase' = "join_bt"
       \/ phase = "join_bt" /\ server["bt"] # "serving" /\ phase' = "join_disc"
       \/ phase = "join_disc" /\ pc[Disc] \in {"unborn", "exited"} /\ phase' = "drain"
    /\ UNCHANGED <<running, server, scanVars, seen, keys, links, callbacks, open, given,
                   dropped, dropSnap, history>>

(* Mutant: stop() clears the table before it copies the links. *)
DrainUncopied ==
    /\ phase = "drain"
    /\ open' = open \ LinkFds
    /\ links' = << >> /\ keys' = {} /\ dropped' = << >>
    /\ phase' = "snapshot"
    /\ UNCHANGED <<running, server, scanVars, seen, callbacks, given, dropSnap, history>>

(* Mutant: stop() leaves the sockets to the application. *)
DrainOpen ==
    /\ phase = "drain"
    /\ dropped' = links /\ links' = << >> /\ keys' = {}
    /\ phase' = "snapshot"
    /\ UNCHANGED <<running, server, scanVars, seen, callbacks, open, given, dropSnap, history>>

(* The critical section that copies, closes and clears the active links. *)
Drain ==
    /\ phase = "drain"
    /\ dropped' = links
    /\ open' = open \ LinkFds
    /\ links' = << >>
    /\ keys' = {}
    /\ phase' = "snapshot"
    /\ UNCHANGED <<running, server, scanVars, seen, callbacks, given, dropSnap, history>>

SnapshotDrop ==
    /\ phase = "snapshot"
    /\ dropSnap' = callbacks["link_dropped"]
    /\ phase' = "drops"
    /\ UNCHANGED <<running, server, scanVars, seen, keys, links, callbacks, open, given,
                   dropped, history>>

(* Mutant: the link just reported stays in the list. *)
CallDroppedTwice ==
    /\ phase = "drops" /\ dropSnap # NoHandler /\ dropped # << >>
    /\ gone' = gone \cup {Head(dropped).key}
    /\ phase' = "in_drop"
    /\ UNCHANGED <<running, server, scanVars, seen, keys, links, callbacks, open, given,
                   dropped, dropSnap, met, told>>

CallDropped ==
    /\ phase = "drops" /\ dropSnap # NoHandler /\ dropped # << >>
    /\ gone' = gone \cup {Head(dropped).key}
    /\ dropped' = Tail(dropped)
    /\ phase' = "in_drop"
    /\ UNCHANGED <<running, server, scanVars, seen, keys, links, callbacks, open, given,
                   dropSnap, met, told>>

DroppedReturns ==
    /\ phase = "in_drop"
    /\ phase' = "drops"
    /\ UNCHANGED <<running, server, scanVars, seen, keys, links, callbacks, open, given,
                   dropped, dropSnap, history>>

StopReturns ==
    /\ phase = "drops" /\ (dropSnap = NoHandler \/ dropped = << >>)
    /\ phase' = "stopped"
    /\ dropped' = << >>
    /\ UNCHANGED <<running, server, scanVars, seen, keys, links, callbacks, open, given,
                   dropSnap, history>>

Starting == Start \/ SpawnServer \/ SpawnDiscovery \/ SpawnThrows
Stopping == Notify \/ Join \/ Drain \/ SnapshotDrop \/ CallDropped \/ DroppedReturns
            \/ StopReturns

(* The object is about to be destroyed: nothing else happens to it here. *)
Finished == phase = "stopped" /\ UNCHANGED vars

Next ==
    \/ Discovery
    \/ \E c \in Callers : BeginDiscover(c) \/ Caller(c)
    \/ \E slot \in AppSlots : \/ UnregisterCallback(slot)
                            \/ \E h \in Handlers : RegisterCallback(slot, h)
    \/ \E s \in Servers : ServerFails(s)
    \/ Starting \/ Stop \/ Stopping
    \/ Finished

(* The scheduler runs every thread; sockets time out after 3 s, polls after *)
(* 500 ms and the wait after 5 s; callbacks return.  Nothing makes the     *)
(* application call, register or stop.                                     *)
Fairness ==
    /\ WF_vars(Discovery)
    /\ \A c \in Callers : WF_vars(Caller(c))
    /\ \A s \in Servers : WF_vars(ServerSeesStop(s))
    /\ WF_vars(Starting) /\ WF_vars(Stopping)

Spec == Init /\ [][Next]_vars /\ Fairness
-----------------------------------------------------------------------------
(* The table of links and the set that makes publishing idempotent, two    *)
(* containers updated by hand in publish_link() and stop(), describe the   *)
(* same links whatever threads scan at once: a peer has one link, and a    *)
(* link has a socket of its own.                                           *)
LinkTable ==
    /\ keys = LinkKeys
    /\ \A i, j \in DOMAIN links :
          i # j => links[i].key # links[j].key /\ links[i].fd # links[j].fd

(* Every socket the runtime has open belongs to one handshake in progress  *)
(* or to one link, and those hold no closed socket: the failure paths of   *)
(* the handshake, the duplicate a second scanner brings to publish_link()  *)
(* and the drain of stop() leak nothing and close nothing twice.           *)
SocketOwnership ==
    /\ open = LinkFds \cup ({hand[t] : t \in Threads} \ {NoFd})
    /\ \A t \in Threads : hand[t] \notin LinkFds
    /\ \A t, u \in Threads : t # u /\ hand[t] # NoFd => hand[t] # hand[u]

(* The address that publish_link() passes to the callback after unlocking  *)
(* is of a list node that stop() has not cleared, until the callback has   *)
(* returned.  Those that discover_links() gave the application dangle once *)
(* stop() has cleared the list: all the code does is tell, by a callback,  *)
(* which links are gone.  So each of them is of a link in the list, or of  *)
(* one that stop() is about to report or has reported dropped, unless it   *)
(* found no callback to report to.                                         *)
LivePointers ==
    /\ \A t \in Threads : pc[t] \in {"link_cb", "in_link_cb"} => KeyOf[cand[t]] \in keys
    /\ ~(phase = "stopped" /\ dropSnap = NoHandler) =>
          \A c \in Callers :
              given[c] \subseteq keys \cup {dropped[i].key : i \in DOMAIN dropped} \cup gone

(* What a scanning thread's locals hold at each point: a candidate while   *)
(* one is visited, a socket from socket() until it is published or closed. *)
VisitPoints == {"device_cb", "in_device_cb", "decide", "handshake", "publish",
                "link_cb", "in_link_cb"}
ScanLocals ==
    \A t \in Threads :
        /\ pc[t] \in VisitPoints => cand[t] \in Candidates
        /\ hand[t] # NoFd <=> pc[t] \in {"handshake", "publish"}
        /\ pc[t] = "device_cb" => snap[t] # NoHandler

(* Once stop() has emptied the table nothing enters it again: no thread is *)
(* scanning, and no socket of a handshake or a link is left open.          *)
NothingAfterDrain ==
    phase \in {"snapshot", "drops", "in_drop", "stopped"} =>
        /\ links = << >> /\ open = {}
        /\ \A t \in Threads : pc[t] \in {"unborn", "exited", "idle"}

(* When stop() returns the object is destroyed with its std::thread members, *)
(* none of which may still run: also after a start() that failed half-way.  *)
ThreadsJoined ==
    phase = "stopped" =>
        /\ \A s \in Servers : server[s] # "serving"
        /\ pc[Disc] \in {"unborn", "exited"}

(* What the application sees of the runtime is the directory of links.     *)
Directory == INSTANCE LinkDirectory WITH
    dir     <- keys,
    closed  <- phase \in {"snapshot", "drops", "in_drop", "stopped"},
    leaving <- {dropped[i].key : i \in DOMAIN dropped}
ImplementsDirectory == Directory!Spec

(* stop() returns, though its notification may be missed and each server   *)
(* and the discovery thread finish what they were doing first.             *)
StopCompletes == phase = "notify" ~> phase = "stopped"

(* Every link the application could know of when stop() empties the table  *)
(* is reported dropped, unless no LINK_DROPPED callback is registered when *)
(* stop(), which has let go of mutex_ meanwhile, looks for one.            *)
DropsDelivered ==
    \A k \in Keys :
        (phase = "drain" /\ k \in keys)
            ~> (k \in gone \/ (phase = "snapshot" /\ callbacks["link_dropped"] = NoHandler))

(* interfaces/c/instrument_api.h:63: "Callbacks are fired sequentially and *)
(* run in the same thread as scanning": no two are running at once.        *)
SequentialCallbacks ==
    Cardinality({t \in Threads : pc[t] \in {"in_device_cb", "in_link_cb"}}) <= 1
=============================================================================
