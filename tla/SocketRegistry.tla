--------------------------- MODULE SocketRegistry ---------------------------
(***************************************************************************)
(* BratislavaSocketRegistry: the sockets, one configuration per device,    *)
(* and the pool of local ports, under the calls of BratislavaSocket.cc.    *)
(* Most methods copy a configuration, change the copy and write it back,   *)
(* in two critical sections of mutex_shared_config_ inside one of          *)
(* mutex_shared_registry_; creating and removing a configuration takes the *)
(* first of the two mutexes only.  What the locks of SocketLocks exclude   *)
(* (a destroyed socket in use, two conn() on one) is excluded here by the  *)
(* guards of the calls.                                                    *)
(*                                                                         *)
(* bratislavaSocket() looks a socket up by the link's ID, and the map is   *)
(* keyed by the device's MAC address: no link that make_link_id() named is *)
(* ever found, every call makes a socket, and the sockets of one device    *)
(* share its configuration until one of them is destroyed and deletes it.  *)
(***************************************************************************)
EXTENDS Naturals, FiniteSets

CONSTANTS
    Threads,
    Sockets,        \* the addresses a BratislavaSocket may have
    Devices,        \* MAC addresses
    Configs,        \* the addresses a BratislavaSocketConfig may have
    Ports,          \* 40000..40256
    Ops,            \* the calls the application makes
    None

ASSUME RegistryAssumption ==
    /\ Ops \subseteq {"create", "conn", "disconnect", "destroy"}
    /\ None \notin Threads \cup Sockets \cup Devices \cup Configs \cup Ports
    /\ None \notin {"conn", "disconnect", "destroy"}

VARIABLES
    pc, op, sock,   \* the call each thread is in, and its socket
    copy,           \* the local `config' of the registry method it is in
    port,           \* the port AcquireLocalPort() gave it
    registry,       \* the owner of mutex_shared_registry_
    registered,     \* sockets_
    device,         \* the device of each socket's link
    sockConfig, deviceConfig,   \* sock_to_config_ and device_id_to_config_
    allocated, config,          \* the configurations that exist; their contents
    free,           \* available_local_ports_
    linked,         \* whether each adapter has an established connection
    orphans         \* history: the sockets that were open when another one
                    \* of their device was destroyed

thread  == <<pc, op, sock, copy, port>>
maps    == <<registered, device, sockConfig, deviceConfig, allocated, orphans>>
vars    == <<thread, registry, maps, config, free, linked>>

Config == [socket : Sockets \cup {None}, device : Devices,
           port : Ports \cup {None}, connected : BOOLEAN]
Points == {"idle", "test", "port", "port_put", "dial", "get", "put", "conn_ok", "disconn",
           "interrupt", "lock", "release", "remove", "undefined"}

TypeOK ==
    /\ pc \in [Threads -> Points]
    /\ op \in [Threads -> {"conn", "disconnect", "destroy", None}]
    /\ sock \in [Threads -> Sockets \cup {None}]
    /\ copy \in [Threads -> Config \cup {None}]
    /\ port \in [Threads -> Ports \cup {None}]
    /\ registry \in Threads \cup {None}
    /\ registered \subseteq Sockets
    /\ device \in [Sockets -> Devices \cup {None}]
    /\ sockConfig \in [Sockets -> Configs \cup {None}]
    /\ deviceConfig \in [Devices -> Configs \cup {None}]
    /\ allocated \subseteq Configs
    /\ config \in [Configs -> Config \cup {None}]
    /\ free \subseteq Ports
    /\ linked \in [Sockets -> BOOLEAN]
    /\ orphans \subseteq Sockets

Init ==
    /\ pc = [t \in Threads |-> "idle"]
    /\ op = [t \in Threads |-> None] /\ sock = [t \in Threads |-> None]
    /\ copy = [t \in Threads |-> None] /\ port = [t \in Threads |-> None]
    /\ registry = None
    /\ registered = {} /\ device = [s \in Sockets |-> None]
    /\ sockConfig = [s \in Sockets |-> None]
    /\ deviceConfig = [d \in Devices |-> None]
    /\ allocated = {} /\ config = [c \in Configs |-> None]
    /\ free = Ports
    /\ linked = [s \in Sockets |-> FALSE]
    /\ orphans = {}
-----------------------------------------------------------------------------
Goto(t, point) == pc' = [pc EXCEPT ![t] = point] /\ UNCHANGED <<op, sock>>
Return(t) ==
    /\ pc' = [pc EXCEPT ![t] = "idle"]
    /\ op' = [op EXCEPT ![t] = None]
    /\ sock' = [sock EXCEPT ![t] = None]

On(s) == {t \in Threads : sock[t] = s}
(* bratislavaDestroy() has its locks: no call starts. *)
Destroying == \E t \in Threads : op[t] = "destroy" /\ pc[t] \notin {"interrupt", "lock"}

ConfigOf(t) == sockConfig[sock[t]]
Locked(t)   == registry \in {None, t}

(* A new configuration: none that exists or that a socket still points to. *)
Fresh(c) == c \in Configs \ allocated /\ \A s \in registered : sockConfig[s] # c

(* bratislavaSocket(): a new socket, with the device's configuration or a  *)
(* new one.  g_bsock_creation_mutex makes this one step for other          *)
(* creations.                                                              *)
Create(s, d) ==
    /\ "create" \in Ops /\ ~Destroying /\ s \notin registered
    /\ registered' = registered \cup {s}
    /\ device' = [device EXCEPT ![s] = d]
    /\ IF deviceConfig[d] # None
          THEN /\ deviceConfig[d] \in allocated
               /\ config' = [config EXCEPT ![deviceConfig[d]] =
                                     [@ EXCEPT !.socket = s, !.device = d]]
               /\ sockConfig' = [sockConfig EXCEPT ![s] = deviceConfig[d]]
               /\ UNCHANGED <<deviceConfig, allocated>>
          ELSE \E c \in Configs : /\ Fresh(c) /\ allocated' = allocated \cup {c}
                 /\ config' = [config EXCEPT ![c] = [socket |-> s, device |-> d,
                                                     port |-> None, connected |-> FALSE]]
                 /\ sockConfig' = [sockConfig EXCEPT ![s] = c]
                 /\ deviceConfig' = [deviceConfig EXCEPT ![d] = c]
    /\ linked' = [linked EXCEPT ![s] = FALSE]
    /\ UNCHANGED <<thread, registry, free, orphans>>

(* CreateConfig(device_id) and RemoveUnusedConfig(device_id). *)
CreateConfig(d) ==
    /\ deviceConfig[d] = None
    /\ \E c \in Configs :
         /\ Fresh(c) /\ allocated' = allocated \cup {c}
         /\ config' = [config EXCEPT ![c] = [socket |-> None, device |-> d,
                                             port |-> None, connected |-> FALSE]]
         /\ deviceConfig' = [deviceConfig EXCEPT ![d] = c]
    /\ UNCHANGED <<thread, registry, registered, device, sockConfig, free, linked, orphans>>

RemoveUnusedConfig(d) ==
    /\ deviceConfig[d] \in allocated /\ config[deviceConfig[d]].socket = None
    /\ allocated' = allocated \ {deviceConfig[d]}
    /\ deviceConfig' = [deviceConfig EXCEPT ![d] = None]
    /\ UNCHANGED <<thread, registry, registered, device, sockConfig, config, free, linked,
                    orphans>>
-----------------------------------------------------------------------------
(* A call on a registered socket: conn() has it alone, disconnect() shares *)
(* it, destroy() interrupts it first and has it alone afterwards; two      *)
(* threads may destroy one socket.                                         *)
Begin(t, o, s) ==
    /\ pc[t] = "idle" /\ o \in Ops \ {"create"} /\ s \in registered /\ ~Destroying
    /\ CASE o = "conn" -> \A u \in On(s) : op[u] = "destroy"
         [] o = "disconnect" -> \A u \in On(s) : op[u] # "conn"
         [] OTHER -> TRUE
    /\ pc' = [pc EXCEPT ![t] = CASE o = "conn" -> "test" [] o = "disconnect" -> "get"
                                 [] OTHER -> "interrupt"]
    /\ op' = [op EXCEPT ![t] = o]
    /\ sock' = [sock EXCEPT ![t] = s]
    /\ UNCHANGED <<copy, port, registry, maps, config, free, linked>>

(* bratislavaConn(): IsConnected(), or the adapter's conn(). *)
Test(t) ==
    /\ pc[t] = "test" /\ registry = None /\ ConfigOf(t) \in allocated
    /\ Goto(t, IF config[ConfigOf(t)].connected THEN "conn_ok" ELSE "port")
    /\ UNCHANGED <<copy, port, registry, maps, config, free, linked>>

(* Mutant: set::begin() is handed out and not erased. *)
AcquirePortKept(t) ==
    LET c == deviceConfig[device[sock[t]]] IN
    /\ pc[t] = "port" /\ registry = None /\ free # {} /\ c \in allocated
    /\ \E p \in free : port' = [port EXCEPT ![t] = p]
    /\ copy' = [copy EXCEPT ![t] = config[c]]
    /\ registry' = t
    /\ Goto(t, "port_put")
    /\ UNCHANGED <<maps, config, free, linked>>

(* AddLocalPort(mac_address): the port leaves the pool, and is lost if the *)
(* device has no configuration; otherwise the configuration is copied.     *)
(* A port the configuration had before is forgotten.                       *)
AcquirePort(t) ==
    LET c == deviceConfig[device[sock[t]]] IN
    /\ pc[t] = "port" /\ registry = None
    /\ \/ /\ free = {}
          /\ Goto(t, "dial") /\ UNCHANGED <<copy, port, registry, free>>
       \/ /\ c = None
          /\ \E p \in free : free' = free \ {p}
          /\ Goto(t, "dial") /\ UNCHANGED <<copy, port, registry>>
       \/ /\ c \in allocated
          /\ \E p \in free : port' = [port EXCEPT ![t] = p] /\ free' = free \ {p}
          /\ copy' = [copy EXCEPT ![t] = config[c]]
          /\ registry' = t
          /\ Goto(t, "port_put")
    /\ UNCHANGED <<maps, config, linked>>

(* UpdateConfigLocked(): the copy replaces the configuration found by the  *)
(* socket in the copy or else by its device, if there still is one.        *)
Target(c) == IF c.socket # None /\ sockConfig[c.socket] # None
                THEN sockConfig[c.socket] ELSE deviceConfig[c.device]
Update(c) ==
    \/ Target(c) = None /\ UNCHANGED config
    \/ Target(c) \in allocated /\ config' = [config EXCEPT ![Target(c)] = c]

PutPort(t) ==
    /\ pc[t] = "port_put"
    /\ Update([copy[t] EXCEPT !.port = port[t]])
    /\ registry' = None
    /\ copy' = [copy EXCEPT ![t] = None] /\ port' = [port EXCEPT ![t] = None]
    /\ Goto(t, "dial")
    /\ UNCHANGED <<maps, free, linked>>

(* The connection is established or not, and Connect(bsock) records it. *)
Dial(t) ==
    /\ pc[t] = "dial"
    /\ \E ok \in BOOLEAN :
         /\ linked' = [linked EXCEPT ![sock[t]] = ok]
         /\ IF ok THEN Goto(t, "get") ELSE Return(t)
    /\ UNCHANGED <<copy, port, registry, maps, config, free>>

(* Connect() and Disconnect(): GetConfig() ... *)
Get(t) ==
    /\ pc[t] = "get" /\ registry = None /\ ConfigOf(t) \in allocated
    /\ copy' = [copy EXCEPT ![t] = config[ConfigOf(t)]]
    /\ registry' = t
    /\ Goto(t, "put")
    /\ UNCHANGED <<port, maps, config, free, linked>>

(* ... and UpdateConfig(). *)
Put(t) ==
    /\ pc[t] = "put"
    /\ Update([copy[t] EXCEPT !.connected = (op[t] = "conn")])
    /\ registry' = None
    /\ copy' = [copy EXCEPT ![t] = None]
    /\ Goto(t, CASE op[t] = "conn" -> "conn_ok" [] op[t] = "disconnect" -> "disconn"
                 [] OTHER -> "remove")
    /\ UNCHANGED <<port, maps, free, linked>>

ConnReturns(t) ==
    /\ pc[t] = "conn_ok"
    /\ Return(t)
    /\ UNCHANGED <<copy, port, registry, maps, config, free, linked>>

Disconn(t) ==
    /\ pc[t] = "disconn"
    /\ linked' = [linked EXCEPT ![sock[t]] = FALSE]
    /\ Return(t)
    /\ UNCHANGED <<copy, port, registry, maps, config, free>>
-----------------------------------------------------------------------------
(* bratislavaDestroy(): the interruption, under a shared lock of           *)
(* g_bsock_deletion_mutex since Begin, then Remove() with that mutex and   *)
(* the socket, once it is not in use any more.                             *)
Interrupt(t) ==
    /\ pc[t] = "interrupt" /\ ~Destroying
    /\ linked' = [linked EXCEPT ![sock[t]] = FALSE]
    /\ Goto(t, "lock")
    /\ UNCHANGED <<copy, port, registry, maps, config, free>>

Lock(t) ==
    /\ pc[t] = "lock" /\ ~Destroying /\ sock[t] \in registered
    /\ \A u \in Threads : pc[u] # "interrupt"
    /\ \A u \in On(sock[t]) : pc[u] = "lock"
    /\ Goto(t, "release")
    /\ UNCHANGED <<copy, port, registry, maps, config, free, linked>>

(* Another thread destroyed it meanwhile: EIDRM. *)
Destroyed(t) ==
    /\ pc[t] = "lock" /\ ~Destroying /\ sock[t] \notin registered
    /\ Return(t)
    /\ UNCHANGED <<copy, port, registry, maps, config, free, linked>>

(* Mutant: a port that was never allocated is released too. *)
ReleasePortUnset(t) ==
    /\ pc[t] = "release" /\ registry = None /\ ConfigOf(t) \in allocated
    /\ free' = free \cup {config[ConfigOf(t)].port}
    /\ Goto(t, "get")
    /\ UNCHANGED <<copy, port, registry, maps, config, linked>>

(* ReleaseLocalPort(bsock), and then Disconnect(bsock). *)
ReleasePort(t) ==
    /\ pc[t] = "release" /\ registry = None /\ ConfigOf(t) \in allocated
    /\ free' = free \cup ({config[ConfigOf(t)].port} \ {None})
    /\ Goto(t, "get")
    /\ UNCHANGED <<copy, port, registry, maps, config, linked>>

(* Mutant: device_id_to_config_ keeps the deleted configuration. *)
RemoveForgetsDevice(t) ==
    /\ pc[t] = "remove" /\ ConfigOf(t) \in allocated
    /\ registered' = registered \ {sock[t]}
    /\ device' = [device EXCEPT ![sock[t]] = None]
    /\ allocated' = allocated \ {ConfigOf(t)}
    /\ sockConfig' = [sockConfig EXCEPT ![sock[t]] = None]
    /\ orphans' = orphans \cup {s \in registered \ {sock[t]} : device[s] = device[sock[t]]}
    /\ Return(t)
    /\ UNCHANGED <<copy, port, registry, deviceConfig, config, free, linked>>

(* RemoveConfig(bsock) and the end of the socket. *)
Remove(t) ==
    /\ pc[t] = "remove" /\ ConfigOf(t) \in allocated
    /\ registered' = registered \ {sock[t]}
    /\ device' = [device EXCEPT ![sock[t]] = None]
    /\ deviceConfig' = [deviceConfig EXCEPT ![config[ConfigOf(t)].device] = None]
    /\ allocated' = allocated \ {ConfigOf(t)}
    /\ sockConfig' = [sockConfig EXCEPT ![sock[t]] = None]
    /\ orphans' = orphans \cup {s \in registered \ {sock[t]} : device[s] = device[sock[t]]}
    /\ Return(t)
    /\ UNCHANGED <<copy, port, registry, config, free, linked>>

(* The configuration that the thread's next step reads or writes. *)
Needs(t) ==
    CASE pc[t] \in {"test", "get", "release", "remove"} -> ConfigOf(t)
      [] pc[t] = "port" /\ free # {} -> deviceConfig[device[sock[t]]]
      [] pc[t] \in {"port_put", "put"} -> Target(copy[t])
      [] OTHER -> None

(* It was deleted: the behaviour is undefined. *)
Undefined(t) ==
    /\ Needs(t) \notin allocated \cup {None}
    /\ pc[t] # "remove" => Locked(t)
    /\ Goto(t, "undefined")
    /\ UNCHANGED <<copy, port, registry, maps, config, free, linked>>

Step(t) ==
    \/ Test(t) \/ AcquirePort(t) \/ PutPort(t) \/ Dial(t) \/ Get(t) \/ Put(t)
    \/ ConnReturns(t) \/ Disconn(t) \/ Interrupt(t) \/ Lock(t) \/ Destroyed(t)
    \/ ReleasePort(t) \/ Remove(t) \/ Undefined(t)

Defined == \A t \in Threads : pc[t] # "undefined"

(* After undefined behaviour nothing is modelled. *)
Next ==
    \/ Defined /\ \E s \in Sockets, d \in Devices : Create(s, d)
    \/ Defined /\ \E d \in Devices : CreateConfig(d) \/ RemoveUnusedConfig(d)
    \/ Defined /\ \E t \in Threads : Step(t) \/ \E o \in Ops, s \in Sockets : Begin(t, o, s)
    \/ ~Defined /\ UNCHANGED vars

Spec == Init /\ [][Next]_vars
-----------------------------------------------------------------------------
(* While no socket of a device was destroyed with another one open, the    *)
(* two maps lead every socket to its device's configuration, which exists: *)
(* no call uses a deleted one.  The configuration's own socket is one of   *)
(* its device as long as there is one, though a copy written back late may *)
(* undo what a creation wrote there; so RemoveUnusedConfig() never deletes *)
(* a configuration in use.                                                 *)
ConfigsLive ==
    orphans = {} =>
      /\ Defined
      /\ \A s \in registered :
            /\ sockConfig[s] \in allocated
            /\ deviceConfig[device[s]] = sockConfig[s]
            /\ config[sockConfig[s]].socket # None
      /\ \A d \in Devices : deviceConfig[d] # None =>
            LET c == config[deviceConfig[d]] IN
            /\ deviceConfig[d] \in allocated /\ c.device = d
            /\ c.socket # None => c.socket \in registered /\ device[c.socket] = d

(* As long, a local port is in the pool, in one thread's hand or with one  *)
(* device: no two devices bind the same one, however often they connect    *)
(* and whichever is being destroyed, once its port is back in the pool.    *)
PortsExclusive ==
    LET dying(d)  == \E t \in Threads : /\ op[t] = "destroy" /\ device[sock[t]] = d
                                         /\ pc[t] \in {"get", "put", "remove"}
        held(d)   == config[deviceConfig[d]].port
        holding   == {d \in Devices : deviceConfig[d] # None /\ ~dying(d) /\ held(d) # None}
    IN  orphans = {} =>
          \A d \in holding :
            /\ held(d) \notin free
            /\ \A e \in holding \ {d} : held(e) # held(d)
            /\ \A t \in Threads : port[t] # held(d)

(* BratislavaSocket.h:28: bratislavaConn() returns "0 if a connection      *)
(* already exists or has been successfully established" on the socket.     *)
ConnMeansConnected ==
    \A t \in Threads : pc[t] = "conn_ok" => linked[sock[t]]
=============================================================================
