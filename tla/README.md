# sensor-lib: a TLA+ model of the comms runtime and of bratislava-socket

sensor-lib gives an application one C interface (`interfaces/c/instrument_api.h`) to a
device's Bluetooth, Wi-Fi and GPS, and looks for other devices that run the same code, to
make a *Bratislava link* (a connected socket) with each. This directory models the part of
it that runs concurrently and talks to other machines, and the scanners, checks the models
with TLC and proves the most important invariants for every size of system with TLAPS.

## 1. The system

| component | source | state it keeps | operations | what is hard |
|---|---|---|---|---|
| comms runtime | `src/comms_runtime.cpp:243-779` | `running_`, three threads, `callbacks_`, `active_links_`, `active_link_keys_`, the two seen sets | `start`, `stop`, `discover_links`, `register_callback`, `unregister_callback`; the discovery loop and two server loops | several threads scan at once; a mutex that is released around handshakes and callbacks; teardown |
| process-wide runtime | `comms_runtime.cpp:781-856`, `instrument_api.c:693-715` | `g_runtime`, `g_runtime_refcount` | create, destroy, `get_runtime()` | a raw pointer used after unlocking; the old runtime stops while the next one starts |
| Wi-Fi handshake | `comms_runtime.cpp:513-561, 636-708` | one socket per attempt; none in the server | hello, reply, 3 s timeout, retry every 5 s | datagrams lost, duplicated, late; ports used again |
| Bluetooth handshake | `comms_runtime.cpp:563-611, 710-764` | one connection per attempt; the server's accept queue | connect, hello, reply, close | one server for all peers, silent peers, a server that closes what the client keeps |
| socket API | `bratislava-socket/src/BratislavaSocket.cc` | two global mutexes and one per socket | create, conn, send, recv, disconnect, destroy | an object deleted while others use it; lock order; closing a descriptor in use |
| socket registry | `bratislava-socket/src/BratislavaSocketRegistry.cc` | the sockets, two maps to shared configurations, a pool of 257 ports | `Add`, `Remove`, `Connect`, `Disconnect`, `AddLocalPort`, ... | copy, change, write back over two critical sections; ownership of a configuration by two maps |
| Bluetooth adapter | `bratislava-socket/src/adapters/bluetooth/BluetoothAdapter.cc` | three descriptors, `connected_`, two addresses, a deadline per `conn()` | `conn`, `disconn`, `interrupt`, `send`, `recv`, destruction | a connection made after the `connect()` that gave up on it; `interrupt()` meeting `accept()`; a thread blocked in `recv()` that closing does not wake |
| Wi-Fi adapter | `bratislava-socket/src/adapters/wifi/WifiAdapter.cc` | the same, the port of the link | the same, with a request to the access point first | the same; the request may name a port nobody listens on yet |
| Bluetooth scanners | `bluez_scanner.c`, `hci_scanner.c` | a table of at most 150 devices per scan | one scan | the limit, and devices seen twice |
| Wi-Fi scanner | `wifi_scanner_bridge.cpp` | a bounded list per scan | trigger, wait, fetch | stale results, a wait with a limit |
| instrument actions | `instrument_api.c` | none, but the kernel's interface flags and a 4096-byte buffer for gpsd | radio up and down, GPS position, dispatch | read-modify-write of flags, a receive loop without a deadline |

How they interact. `createInstrumentAPI()` makes the process-wide runtime or takes another
reference on it; `start()` makes three threads. The discovery thread, and every application
thread in `discover_links()`, asks the Bluetooth scanner and the ARP table for candidates
and tries the handshake with each, against the server threads of *another* device. What
they find they put, under `mutex_`, into the link table, and report through callbacks
called outside the mutex. The application hands a link to `bratislavaSocket()`, which
makes an adapter that connects on its own; the registry ties links, sockets, ports and
devices together.

What makes each correct:

* runtime: a peer has at most one link; every socket opened is owned by one handshake or
  one link; nobody is told of a link that is not in the table; `stop()` returns, empties
  the table for good, and reports what was in it;
* process-wide runtime: it exists exactly while somebody holds a handle, and is deleted
  when nothing of it runs or is in use;
* handshakes: no link without a reply meant for it; every attempt ends; an attempt that
  failed does not spoil the next; no client can keep the server;
* socket API: no use after deletion, no deadlock, no descriptor closed under its user;
* registry: no call uses a deleted configuration, no port is given to two devices;
* adapters: after a `conn()` that returned 0 the socket is one end of a connection that was
  made; the three descriptors stay three open sockets; leaks are bounded; a destroyed adapter
  leaves no connection open; every call returns;
* scanners and GPS client: the answer is what the whole input says, up to the limit, however
  it was cut into lines and pieces.

## 2. The modules

### LinkDirectory (abstract) and CommsRuntime

`LinkDirectory` is what the application may rely on, without threads, locks and sockets: a
set of links, each published once, announced at most once and only while it is there,
retracted at most once, after the set was closed, and only if it was in it.

`CommsRuntime` is one `CommsRuntime` object from `start()` to the end of `stop()`. One
action is one critical section of `mutex_`, one system call that opens or closes a socket,
or one call of (return from) a callback. `pc[t]` is where thread `t` is in `scan_once()`
(`Disc`, the discovery thread, or a caller of `discover_links()`); `phase` is where the
thread in `start()` or `stop()` is.

| code | module |
|---|---|
| `running_`, `callbacks_`, `active_links_`, `active_link_keys_` | `running`, `callbacks`, `links`, `keys` |
| `seen_bluetooth_devices_`, `seen_wifi_devices_` | `seen` (keys of the two radios differ) |
| locals of a scan: `should_attempt`, the copied callback, `socket_fd` | `attempt`, `snap`, `hand` |
| addresses returned by the last `discover_links()` | `given` |
| locals of `stop()`: `dropped`, `drop_callback` | `dropped`, `dropSnap` |
| descriptors the kernel has open | `open` |

Abstracted: what a scan reports is any subset of the candidates, visited in any order; the
content of the handshakes (they fail or succeed at will here: `UdpHandshake` and
`L2capHandshake` are about them); MAC addresses, names and telemetry. The condition
variable is modelled exactly, its lost wake-up included: `WaitTest` evaluates the
predicate, `Park` blocks, and `Notify` wakes only a thread that is blocked.

`Directory == INSTANCE LinkDirectory WITH dir <- keys, closed <- phase \in {...},
leaving <- keys of dropped`; `ImplementsDirectory == Directory!Spec`.

### SharedRuntime (abstract) and RuntimeLifecycle

`SharedRuntime` is what `createInstrumentAPI()` and `destroyInstrumentAPI()` promise, without a
count, a mutex or a pointer that may dangle: the handles that exist share one runtime, made for
the first and ended by the last of them, which serves every call to its return, and goes away
only when it neither works nor serves a call.

`g_runtime`, its count, and the lives of successive runtimes (`inst`): `absent`, `up`,
`stopping` (outside `g_runtime_mutex`), `gone`. Application threads hold handles and call
the API; a discovery thread's callback may call it as well. Of a runtime's threads only
those are kept that matter from outside: the Bluetooth server, because it owns the PSM
(`psm`) that the next runtime's server needs, and the discovery thread.

`Sharing == INSTANCE SharedRuntime WITH handles <- Handles, current <- g_runtime, ...`: the handles
are those the threads hold, and a runtime is `Ending` from the critical section that takes it out
of `g_runtime` to its deletion. A call from a callback is not among the calls served: its thread
holds no handle, and nothing keeps the runtime it calls.

### UdpHandshake and L2capHandshake

The two protocols, client and server. In the first, a set of datagrams under way that may
be lost or stay after being received (duplicates); a client's port is chosen anew by each
attempt and may repeat. In the second, connections with two ends (`near`, `far`) and an
accept queue; a connection is used again once both its ends are closed.

`Handshakes` has both for one runtime: `try_handshake()` takes a candidate to the handshake
of its radio, `start()` gives each radio its server, and both servers end when `running_` is
cleared. They share no other state, so that each behaviour is about the radio it starts
with (`radio`), which says the same as their product and is far smaller.

### SocketTable (abstract) and SocketLocks

`SocketTable` is what the socket API promises the threads that call it, without mutexes: a call
finds a socket in the table and has it until it lets go, for itself (`bratislavaConn()`,
`bratislavaDestroy()`) or together with others; a socket is taken out of the table, and its memory
freed, only by a thread that alone has found it. That somebody uses a deleted socket cannot be
said in it.

Every lock operation of `BratislavaSocket.cc` is a step: the shared or exclusive
`g_bsock_deletion_mutex`, each socket's own mutex, `g_bsock_creation_mutex`, and the
registry's recursive mutex as taken by `Exists`, `Add`, `Remove` and `Cleanup`. `known` are
the pointers the application ever got, so calls with stale pointers are included, and an
address may be allocated again. `fd` changes whenever an adapter closes and reopens its
descriptor.

`Table == INSTANCE SocketTable WITH objects <- alive, table <- registered, hold <- Hold,
mode <- Mode`, where `Hold` and `Mode` say which socket a thread has found and how it has it: a
thread in `bratislavaDestroy()` lets go of it after the interruption and finds it anew once it
owns `g_bsock_deletion_mutex`.

`CanStep(t)` says what each point of a call needs to go on. A thread that has made its `MaxCalls`
calls makes no other; that all have is the one state to `Rest` in, so that TLC's deadlock check
finds every other state nobody leaves.

Several threads may destroy the same socket, as `examples/cc/socketExample.cc` does and as the
second `Exists` of `bratislavaDestroy()` is there for. That check comes after the socket's mutex
is locked (lines 332, 334): the thread that lost locks the mutex of an object the other has freed,
or of a new one at its address. `Stray` says that a thread is there with a freed object; the lock
is then taken as if the memory were intact, or the thread stays where it is, and what the lock may
overwrite is not modelled. Such a thread has nothing in the table: `Hold` and `Mode` count a
`bratislavaDestroy()` at its locks only while the socket is registered. One precondition is
stated at `Begin`: no other call is in progress when `Cleanup()` (which nothing calls yet) is.

### SocketRegistry

The registry's data under those calls. A method that copies a configuration, changes it
and writes it back takes two steps (`AcquirePort`/`PutPort`, `Get`/`Put`), between which
creation and removal, which do not take `mutex_shared_registry_`, may happen.
`bratislavaSocket()` looks its link up by `linkID`, the configurations are kept by MAC address, and
`make_link_id()` puts a prefix before the address: no socket is ever found, so that `Create` always
makes one, and the sockets of a device share its configuration. Two threads may destroy one socket
here too (`Destroyed`).

The first of several such sockets to be destroyed deletes the configuration of the others, and what
these do next is undefined: a thread whose next step needs a configuration that was deleted
(`Needs`) takes the step `Undefined`, after which nothing is modelled. `orphans` is a history of
the sockets this has happened to, by their device, and the properties are about the time before the
first of them. The run goes on after it, so that its creations, ports and copies are in the model
until somebody uses what was deleted; a configuration still pointed to is not allocated again
(`Fresh`), as undefined behaviour would otherwise pass unseen.

### PeerSockets, BluetoothPeer, WifiPeer and AdapterPeers

The adapters of one link, one on each device, over the kernel's sockets. The two adapter
classes are copies of one another in how they connect, listen, request and close: that is
`PeerSockets`. `BluetoothPeer` and `WifiPeer` have what differs: in Bluetooth the order of the
two addresses says who listens, both devices send a request from a thread of their own, and
the PSMs are made from a hash; in Wi-Fi the access point listens, and the other device asks its
service for the port within `conn()`. `AdapterPeers` composes the two devices. `ad[a]` is the
adapter of device `a`:

| code | module |
|---|---|
| `sockfd_`; `sockfd_request_`, `sockfd_listen_` | `sockfd` (0 for -1); `RequestFd`, `ListenFd`, which are given a socket once |
| what the kernel has behind each descriptor | `fds`: free, fresh, listening, an end of a connection |
| `connected_`; the configuration's `connected` flag | `connected`; `registered` |
| `SO_RCVTIMEO` of `sockfd_` set by `ConfigureSocketForComms()` | `timed` |
| where the thread in `conn()`, its request thread, and the thread in `bratislavaDestroy()` are | `pc`, `rpc`, `dpc` |
| a `send()` or `recv()` in progress, with or without a timeout | `io` |
| the deadline of `conn()` has passed | `late` |
| the socket a blocked call holds on to although its descriptor is closed | `held` |
| the kernel's accept queue; the port the registry has for the link | `queue`; `given` |

Each look at the clock is a choice between `late` and not, and `Expire` may come between any
two, so that every order of deadlines, `connect()`, `accept()` and the peer's steps is covered.
`MAX_RETRIES` is not counted: after a failed `connect()` the loop goes on or ends. The kernel
(`Open`, `Close`, `Establish`, `Refuse`, `Valid`) and the service on `BRATISLAVA_PORT` are
external: modelled from what the adapters do with them.

Two flags mark the histories the properties leave out, each a hazard of its own in
`PROJECT.json`, because in them the code does go wrong: `stale` (a request whose time was up
between `poll()` and `connect()`: its descriptor is closed but keeps its number) and `overlap`
(`accept()` returned between the close and the `socket()` of `interrupt()`).

Bounds: one device at most destroys its adapter; one thread at most is in I/O on a socket.

### InstrumentActions, BluezScan, WifiScan and GpsPoll

`instrumentAction()` dispatches a call and clears `*output_len`; the three modules it
instantiates are one call each of `bluetooth_discover_devices_backend()`,
`wifi_discover_devices_nl80211()` and `gps_get_position()`, and share with it the place in
the call (`pc`), the status and the length. All else a call keeps is on its stack, so one
call at a time is enough. They are sequential, and what is hard in them is the data; each
has a property that says by sets and quantifiers, over the whole input, what the loops
compute step by step:

* `BluezScan`: the table of devices over the lines of two commands, read one by one; a line is
  what `parse_scan_line()` makes of it. `heard` keeps the lines read, and `Listed` asks for the
  devices in the order of their first lines, up to the limit, with the first name any line gave.
* `WifiScan`: `find_ssid_ie()` byte by byte as a recursive function. The reference has no loop:
  the places where elements begin are those that are in every set that has the first place and,
  with the place of a complete element, the one after it.
* `GpsPoll`: the receive buffer as a sequence of bytes of gpsd's lines, which are sent one by one
  (`GpsdSends`) and received in pieces of any size. A byte is abstracted to its place in the
  stream, which is what tells a line that was lost or pieced together from a whole one; the class
  of a report stands in the line's first byte and the newline in its last.

## 3. The runs

| run | question | bounds | result |
|---|---|---|---|
| `comms_runtime` | table, sockets, pointers, teardown, refinement | discovery thread and one caller, one peer per radio, 3 descriptors, 1 handler for three callback slots, no call in progress at the last destroy | holds |
| `comms_runtime_late` | termination and delivery of drops, also with the same MAC through two interfaces and calls still in progress at the destroy | one caller, two Wi-Fi candidates with one key, 2 descriptors | holds |
| `comms_runtime_sequential` | "Callbacks are fired sequentially" | as the first | violated |
| `runtime_lifecycle` | count, pointer, one runtime for all handles (refinement), return of destroy | 2 threads with up to 2 handles, 3 runtimes | holds |
| `handshakes` | Wi-Fi: replies, timeouts, ports used again; Bluetooth: queue, silent clients; both: stopping | Wi-Fi: 1 client, 3 ports; Bluetooth: 2 clients, 3 connections, queue of 2 (29,920 states) | holds |
| `l2cap_handshake_link` | "an established socket fd" | 2 clients, 2 connections | violated |
| `adapter_peers` | what `conn()` returning 0 means, descriptors, leaks, destruction, return of every call | 2 devices of either radio, 2 connections, 5 descriptors each (734,160 states) | holds |
| `socket_locks` | a table of sockets (refinement), lock order, somebody can always go on, also when several destroy one socket | 3 threads with 2 calls each, 2 sockets (100,750 states) | holds |
| `socket_locks_close` | "it does NOT close the fd" | 2 threads, 1 socket | violated |
| `socket_registry` | configurations and ports, with several sockets of a device | 2 threads, 3 sockets, 2 devices, 2 configurations, 2 ports (3,021,321 states) | holds |
| `instrument_actions` | the scans' and the GPS client's answers | outputs of 5 lines together, 3 addresses and 2 names, a table of 2; 2 results of up to 6 bytes of elements, a list of 1; 3 lines of 2, 3 or 6 bytes, a buffer of 6 (223,673 states) | holds |
| `socket_registry_conn` | "0 if a connection ... has been successfully established" | 2 threads, 2 sockets | violated |

Why the bounds are enough. Every race in the runtime is between two threads about one peer: two
scanners (`Disc` and one caller), two candidates and two descriptors are the least with which
publication can collide, and a third descriptor lets a leaked one be missed without blocking the
others. `MaxLinks = 1` with two peers makes `discover_links()` cut its list. In `runtime_lifecycle`
three runtimes let the second be stopped while the third starts. In `handshakes` a queue shorter
than the number of connections makes it fill up, and a port used again lets a late reply meet a
later attempt; the UDP server keeps no state in which two clients could meet. In `adapter_peers`
two connections are the one that a timed-out attempt left under way and the one of the next
attempt, and five descriptors are the three of an adapter, the one it may leak and the one that may
be opened next; the next state relation is defined whenever a descriptor is opened, so none was
lacking. The two hashes give different ports that the kernel takes. In `socket_locks` three threads
can form a wait cycle through all three kinds of lock, and two calls each are enough to destroy,
create at the same address and use a stale pointer, or for all three to destroy one socket. In
`socket_registry` three sockets are two that share a configuration and one of the other device, and
the two ports run out, as AddLocalPort() of a reconnection forgets the port it had. In
`instrument_actions` the table of 2 is full before the third of three devices and before the last
lines that name one of the two, the list of one network is shorter than the dump, six bytes hold
two elements with data, and a line of six bytes does not fit the buffer while shorter ones are cut
and joined in every way. Symmetry is used in runs of safety properties only (`comms_runtime` and
`socket_locks` check refinements, but of specifications without liveness).

### The disagreements

* `SequentialCallbacks`: two scanning threads are in callbacks at once
  (`instrument_api.h:63`).
* `PublishedIsEstablished`: the L2CAP server closes its end after replying, so the socket
  of a published Bluetooth link has no peer (`README.md:51`, `comms_runtime.cpp:760`).
* `NoCloseDuringIO`: `interrupt()` is `disconn()`, which closes and reopens the descriptor
  under threads that use it (`BratislavaSocket.cc:315`).
* `ConnMeansConnected`: two sockets of one device share a configuration, and with it the
  `connected` flag (`BratislavaSocket.h:28`).

Met while reading, and not checked: the repository's README says under *Limitations* that
callback registration is not implemented, although it is. `enrich_device_info()` copies a
name from after `Name:` to the end of what `bluetoothctl info` prints, not to the end of the
line (`bluez_scanner.c:293`); the model has such names as a set of their own (`InfoTexts`).
`parse_scan_line()` passes over the lines of a device that hold `RSSI:`, `TxPower:`,
`ManufacturerData` or `ServiceData` (`bluez_scanner.c:159-164`) and no others, so that another such
line, `Connected: yes`, is taken for its name; the model abstracts a line to the name it gives.
`BluetoothAdapter::GenerateUniquePort()` maps a hash to 128 ports (`PORT_RANGE_SIZE`,
`BluetoothAdapter.cc:604`), the last of which, 0x1101, is past `PORT_RANGE_END` and no PSM the
kernel takes, as its upper byte is odd: one address of 128 cannot be connected to. After a first
`bind()` the listening socket of either adapter cannot be bound again, so that a listening side
that got so far and failed or disconnected never connects again with the same socket.

### Fairness

Threads are scheduled (weak fairness of each thread's steps). Beyond that only what the code's
timeouts give: `recv` on a handshake socket ends within 3 s, `accept`/`recvmsg` within 500 ms,
`wait_for` within 5 s. Callbacks are assumed to return. Nothing makes an application call,
register, destroy or stop. In `RuntimeLifecycle` a discovery thread leaves its loop between scans,
however many callbacks call the API, hence strong fairness. `EventuallyPublished` is about a
network that now and then delivers (strong fairness of the deliveries) and from some time on
delivers within the 3 s, and a server that has not left (premises of the property): an error of
`recvmsg()` other than its timeout ends the UDP server for good. In `AdapterPeers` threads run and
deadlines pass; `recv()` ends by itself only if it has a timeout (`recv_timeout_` is 5 s unless the
application sets it, and is taken not to be 0), and neither the peer, the network nor the service
on `BRATISLAVA_PORT` has to do anything.

### Deadlock

TLC checks for it except where the system may come to rest: when all handles and runtimes
of the bounds are used up (`RuntimeLifecycle`), when the server has left and the clients
are done (`Handshakes` and `L2capHandshake`), and when the adapters are destroyed
(`AdapterPeers`, where `CallsReturn` says that nobody is left inside a call). `SocketLocks` comes
to rest only by its step `Rest`, when every thread has made its `MaxCalls` calls.

## 4. The proofs

For every value of the constants that the assumptions of the component's module allow
(`ConstantsAssumption`, `LifecycleAssumption`, `L2capAssumption`, `HandshakesAssumption`,
`LocksAssumption`, `RegistryAssumption`, `PeerSocketsAssumption`, `BluetoothAssumption`,
`InstrumentAssumption`):
any number of callers, candidates, handlers, handles, clients, connections and ports, any
number of descriptors (for an adapter from five up: three, one leaked and one to open next),
and outputs, dumps, buffers and streams of every length.

| proof module | theorem | what it states |
|---|---|---|
| `CommsRuntimeProofs` | `TypeCorrect`, `TableCorrect`, `SocketsCorrect` | `TypeOK`, `LinkTable`, `SocketOwnership` |
| `CommsRuntimeStopProofs` | `ThreadsJoinedCorrect` | `ThreadsJoined` |
| | `PointersLive`, `DrainIsFinal` | `LivePointers`, `NothingAfterDrain`, if `CallersReturnFirst` |
| | `DirectoryImplemented` | `CommsRuntime` implements `LinkDirectory`, if `CallersReturnFirst` |
| `RuntimeLifecycleProofs` | `TypeCorrect`, `CountCorrect`, `HoldersServed`, `PointersAlive` | `TypeOK`, `RefcountCounts`, `HolderServed`, `NoUseAfterDelete` |
| | `SharingImplemented` | `RuntimeLifecycle` implements `SharedRuntime` |
| `HandshakesProofs` | `TypeCorrect`, `WifiHeard`, `BluetoothAnswered`, `ServerHoldsNoMore` | `HandshakesTypeOK`, `PublishedWasHeard`, `PublishedWasAnswered`, `ServerEnds` |
| `SocketLocksProofs` | `TypeCorrect`, `SocketsAlive`, `LocksOrdered`, `CallsGoOn` | `TypeOK`, `InUseAlive`, `NoLockCycle`, `CallsEnd` |
| | `TableImplemented` | `SocketLocks` implements `SocketTable` |
| `SocketRegistryProofs` | `TypeCorrect`, `ConfigsCorrect`, `PortsCorrect` | `TypeOK`, `ConfigsLive`, `PortsExclusive` |
| `AdapterPeersProofs` | `TypeCorrect`, `ConnectionsMade`, `DescriptorsApart`, `OneLeak`, `DestroyedAtRest` | `PeersTypeOK`, `ConnectedIsMade`, `DescriptorsDistinct`, `LeakBounded`, `DestroyedHoldsNothing` |
| `InstrumentActionsProofs` | `TypeCorrect`, `DevicesListed`, `NetworksListed`, `PositionCorrect` | `TypeOK`, `BluetoothListed`, `WifiListed`, `PositionFound` |

None of these invariants is inductive as it stands.

**The comms runtime** is proved in layers, each inductive relative to the ones below it.

* `TypeInv == TypeOK /\ ScanLocals /\ Unspawned` says where a scanning thread has a candidate
  and a socket, and that the discovery thread has no locals before it exists. It is inductive
  by itself.
* `TableInv == LinkTable /\ SocketOwnership`: that `PublishLink` adds a descriptor no other
  link has needs that every thread's `hand` holds a socket exactly from `socket()` to
  publication, and that no other thread holds it. Lemmas say what `Append` does to `LinkFds`
  and `LinkKeys`.
* `StopInv == JoinedOver /\ CallersIdle`: a server or thread whose join is past is over, and, if
  `CallersReturnFirst`, no caller is in a call outside phase `up`. `ThreadsJoined` follows.
* `PointerInv`: the list stays empty once drained, nothing is to be reported dropped before, and
  `LivePointers`; with `StopInv`, nobody is left in a callback or about to make a link when `Drain`
  empties the table. The addresses that `discover_links()` gave dangle from then on: what the code
  does about them is to report the links dropped, and `LivePointers` says that it reports each of
  them, unless it finds no callback.
* `DirectoryInv == Meeting /\ Telling /\ Dropping`: a device about to be reported is in the seen
  set and was not reported, a link about to be announced is in the table and was not announced,
  no two threads are about to report the same one, and the links still to be reported dropped
  are different ones. With it each step maps to a step of `LinkDirectory` or to a stutter.

`CallersReturnFirst` is what the application owes: no call in progress when it destroys the
last handle. Without it a caller may be in a callback with the address of a link that `stop()`
removes, or make a link after it, which `comms_runtime_late` runs with; that run does not list what
then does not hold.

**The process-wide runtime.** `IInv` is the conjunction of `Types`, `RefcountCounts`, and where the
current runtime (`Current`), the runtimes being stopped (`Victims`), the calls with a pointer
(`Calls`) and the deleted runtimes (`Quiet`) are. The count is the cardinality of the set of
handles held, so that each create and destroy adds or removes one element (`HandleAdded`,
`HandleRemoved`); when the count drops to 0 the handle was the last (`LastHandle`), so that nobody
else holds one, and nobody is in a call on the runtime that is about to be stopped. `Attended`,
that a runtime being stopped has its stopper and that the discovery thread of any other does not
leave, gives the refinement its last fact: a runtime stops working only when it is to end. The
abstract specification has no count, so its step for a destroy is chosen by whether the handle is
the last one, which counting shows to be the same.

**The handshakes.** `L2capInv` adds to the types which connections the server and the queue
hold (`Holding`) and that a reply on a client's connection was sent by the server
(`RepliesSent`); `UdpInv` that every reply in the network, however often duplicated, is for a
socket that was heard (`RepliesHeard`).

**The socket locks.** `Held` says exactly which locks a thread shares or owns at each point of each
call, `Calls` which calls reach the point, `Alone` that `Cleanup()` runs by itself, and `Destroyed`
that a socket a thread may use is registered, and one about to be freed is there and is not. Of
several destroyers the deletion lock lets one past the locks at a time. The step that matters
is the second check of `bratislavaDestroy()`: it owns the deletion lock and the socket's, so by
`Held` no thread is between its check and its use of that socket. For `NoLockCycle` every wait goes
from `pin` or `own_deletion` to later points, or from `claim`, `own_socket` or `own_creation` to
points where nobody waits, so that a cycle has no last thread. `CallsGoOn` needs two more facts:
`Room`, that there is a spare address for every call that is making a socket (a socket is made
where `new` found memory, so `Begin` counts them), and `Between`, that `Cleanup()` does not wait
for its own mutex. Then a call that waits does so for a thread that is further inside a call
(`WaitsInside`), `NoLockCycle` gives one among finitely many threads that waits for no other, and
that one can step (`FreeSteps`).

In the refinement of `SocketTable` every step is one thread's, so that `Hold` and `Mode` change at
that thread only (`OthersHold`). `Held` says that a socket's mutex is free only if no one has the
socket, but for one about to free it, who owns the deletion mutex (`SocketMutex`, `OneDeletes`);
and when a socket is removed or freed nobody else has found it (`OneHolds`). `InUseAlive`, that no
call uses, interrupts or waits for a socket deleted since it found it and that one of several
destroyers deletes it, is a theorem of its own, and no run lists it, as the refinement says more.

**The socket registry.** `CallsInv` holds throughout: the types, `Calls` (at which points a call
is), `Exclusive` (which calls have their socket to themselves; one thread at a time is past the
locks of `bratislavaDestroy()`) and `Held` (a thread between the copy of a configuration and the
writing back owns the registry). The rest holds until a socket is orphaned, and no step takes that
back (`NextOrphans`). `Copied` says that a copy is current but for its `socket`, which a creation
may have written meanwhile: it then names another socket of the same device, so that the copy goes
back to the configuration it came from (`CopyCurrent`). A socket that is removed without an orphan
is the last of its device (`RemovesLast`), so that no copy names it. `OwnConfig` says that two
devices never share a configuration, `NeverUndefined` that no step needs a deleted one, and
`InHand` that a port handed out is not in the pool.

**The adapters.** `AdapterInv` says of one adapter where its threads can be together
(`Control`), that the listening socket is there until the destructor and `sockfd_` until
`interrupt()` (`Descriptors`), that an adapter used as its class is meant to has `connected_`
only with a connection in `sockfd_` (`Intended`), and which ends of connections a device can have
(`Connections`): the listening device accepted ones, the other connecting ones. `Leaks` is why
one descriptor is lost at most: only `accept()` loses one, it needs a `bind()` before it, and the
listening socket is bound once (`Accepted`). When `accept()` comes between the closing and the
opening in `interrupt()`, what the opening overwrites is the accepted socket, and nothing was lost
before. `QueueInv` says that a connection in the queue is not under way any more, so that the
kernel appends it once. Most steps change one adapter and leave the queue alone (`Solo`); lemmas say
what `Close`, `Open`, `CloseSocket` and `CreateSocket` do to the descriptors. That `accept()` and
`socket()` find a descriptor (`SomeFree`) is where the five are needed.

**The scans and the GPS client.** `IInv` has a part for each that relates what was worked out to
what was read, after every line, result and piece, and `Stages`, that of the three only the one
in progress has anything.

* `TableInv`: the table is `InOrder` for the lines read so far, and each of its names is the first
  that these give the device. A line adds at the end the device it is the first line of
  (`OrderGrows`), or leaves the order (`OrderStays`), and gives a name only where there was none
  (`NameGiven`). `DevicesInv` takes this to the output.
* `NetworksInv`: a result's network is where its rank says (`ResultKept`), and its SSID is what
  `FindSsid` makes of its elements. That this is the reference's (`SsidFound`) is not shown by
  induction over the bytes, but by a least place: a function that satisfies the equation of the
  loop is unique (`WalkUnique`: take the greatest place where two differ; the loop goes up from
  there), and what the reference says of the elements from each place on satisfies it
  (`SsidAtUnfold`).
* `GpsInv`: the buffer is the interval of the stream after the last line received completely
  (`Unfinished`), and `sawPoll` and `position` are what the complete lines say (`Noted`). In a
  piece the newlines are the ends of exactly the lines it completes, each of them is cut out whole
  (`LineBegins`, `MatchesAt`), and what is kept is again such an interval (`RestBegins`).

Every invariant and action property of the passing runs is a theorem, under the conditions in the
table, and so are the three refinements. Only model-checked is liveness (`StopCompletes`,
`DropsDelivered`, `DestroyReturns`, `AttemptEnds`, `EventuallyPublished`, `ServerReturns`,
`ServersStop`, `CallsReturn`), which needs `ENABLED`, and so is out of the prover's reach; and the
violations.

## 5. Plan

Done: all modules of section 2 and the proofs of section 4. What would come next: the HCI
scanner beside the BlueZ one; and `interrupt()` in the middle of a `disconn()`.

## 6. Not modelled, and why

* A callback that destroys the last handle: `stop()` would join its own thread, which ends
  the process.
* `destroyInstrumentAPI(NULL)` and destroying a handle twice: the count is then not the
  number of handles, by the caller's doing.
* The registry's list of links, `AddIP`, `AddRemotePort`: nothing reads or calls them
  together with the rest.
* The simulation build (`SIM_BUILD`): its adapters are not in the repository.
* The content of datagrams, names, telemetry and logging.
* In the adapters: the content of messages, the queries of NetworkManager and of the HCI
  address (their failure is in the model where it makes `conn()` fail), a `socket()` that fails,
  an `interrupt()` in the middle of a `disconn()`, and what follows once `recv_timeout_` is 0.
* Setting radios up and down and the queries of adapters and interfaces: a system call
  each, on state that belongs to the kernel.
* The HCI scanner, which takes the BlueZ scanner's place in some builds.
* Tests and examples, which are the applications the models' application actions stand
  for.

## 7. Running

    tlc -workers 2 -config CommsRuntime.cfg MCCommsRuntime.tla
    tlapm CommsRuntimeProofs.tla
    tlapm CommsRuntimeStopProofs.tla

Each `X.cfg` belongs to the module `MCY` that `PROJECT.json` names with it. Operators
marked *Mutant* in a module are plausible mistakes in the code next to them; the property
named in `PROJECT.json` fails when one takes the place of the operator that follows it.
