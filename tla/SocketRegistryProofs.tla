------------------------ MODULE SocketRegistryProofs ------------------------
(***************************************************************************)
(* Proofs about SocketRegistry.  Its invariants have two parts: what holds *)
(* of every call, and what holds until a socket is destroyed while another *)
(* one of its device is open.                                              *)
(***************************************************************************)
EXTENDS SocketRegistry, TLAPS

USE DEF vars, maps, thread

(* A thread in a call has a socket, registered unless it is destroying it, *)
(* and the call has the points that it can be at.                          *)
Calls ==
    \A t \in Threads :
        /\ pc[t] # "idle" => sock[t] # None
        /\ pc[t] \notin {"idle", "interrupt", "lock", "undefined"} => sock[t] \in registered
        /\ pc[t] = "idle" => op[t] = None /\ sock[t] = None
        /\ pc[t] \in {"test", "port", "port_put", "dial", "conn_ok"} => op[t] = "conn"
        /\ pc[t] = "disconn" => op[t] = "disconnect"
        /\ pc[t] \in {"get", "put"} => op[t] # None
        /\ pc[t] \in {"interrupt", "lock", "release", "remove"} => op[t] = "destroy"

(* One thread at a time is past the locks of bratislavaDestroy(), with the *)
(* socket to itself but for threads waiting to destroy it too; so is a     *)
(* conn().                                                                 *)
Last(t) == op[t] = "destroy" /\ pc[t] \notin {"interrupt", "lock"}
Exclusive ==
    \A t, u \in Threads :
        /\ Last(t) /\ Last(u) => t = u
        /\ t # u /\ pc[t] # "idle" /\ sock[t] = sock[u] =>
             /\ Last(t) /\ pc[t] # "undefined" => pc[u] = "lock"
             /\ op[t] = "conn" => op[u] = "destroy"

(* The read-modify-write of a configuration has the registry and a copy.   *)
Held ==
    \A t \in Threads :
        /\ pc[t] \in {"port_put", "put"} => registry = t /\ copy[t] \in Config
        /\ pc[t] = "port_put" => port[t] # None
        /\ port[t] # None => pc[t] \in {"port_put", "undefined"}

Configured ==
    /\ \A s \in registered : device[s] \in Devices /\ sockConfig[s] # None
    /\ \A s \in Sockets \ registered : sockConfig[s] = None
    /\ \A c \in allocated : config[c] \in Config

(* Until a socket is orphaned: the copy is current but for the socket a    *)
(* creation has written meanwhile, and a port in a thread's hand is not in *)
(* the pool.                                                               *)
Current(t) ==
    /\ copy[t].device = config[ConfigOf(t)].device
    /\ copy[t].port = config[ConfigOf(t)].port
    /\ copy[t].socket \in registered
    /\ device[copy[t].socket] = device[sock[t]]
Copied == orphans = {} => \A t \in Threads : pc[t] \in {"port_put", "put"} => Current(t)
InHand == orphans = {} => \A t \in Threads : port[t] \notin free

CallsInv == TypeOK /\ Calls /\ Exclusive /\ Held /\ Configured
IInv     == CallsInv /\ ConfigsLive /\ Copied /\ InHand /\ PortsExclusive
-----------------------------------------------------------------------------
LEMMA InitInv == Init => IInv
<1> SUFFICES ASSUME Init PROVE IInv
  OBVIOUS
<1> USE RegistryAssumption DEF Init
<1>1. TypeOK
  BY DEF TypeOK, Points
<1>2. Calls /\ Exclusive /\ Held /\ Configured
  BY DEF Calls, Exclusive, Last, Held, Configured
<1>3. ConfigsLive /\ Copied /\ InHand /\ PortsExclusive
  BY DEF ConfigsLive, Defined, Copied, InHand, PortsExclusive
<1>4. QED
  BY <1>1, <1>2, <1>3 DEF IInv, CallsInv

(* A call that met a deleted configuration was about to use one. *)
LEMMA UndefinedPoint ==
    ASSUME NEW t \in Threads, Undefined(t)
    PROVE  /\ pc[t] \in {"test", "port", "port_put", "get", "put", "release", "remove"}
           /\ Goto(t, "undefined")
           /\ UNCHANGED <<copy, port, registry, maps, config, free, linked>>
BY DEF Undefined, Needs

LEMMA NextCalls ==
    ASSUME CallsInv, Next
    PROVE  Calls'
<1> USE RegistryAssumption
        DEF CallsInv, TypeOK, Calls, Exclusive, Last, Points, Goto, Return, On
<1>1. ASSUME NEW t \in Threads, Step(t) PROVE Calls'
  <2>1. CASE Test(t)
    BY <2>1 DEF Test
  <2>2. CASE AcquirePort(t)
    BY <2>2 DEF AcquirePort
  <2>3. CASE PutPort(t)
    BY <2>3 DEF PutPort
  <2>4. CASE Dial(t)
    BY <2>4 DEF Dial
  <2>5. CASE Get(t)
    BY <2>5 DEF Get
  <2>6. CASE Put(t)
    BY <2>6 DEF Put
  <2>7. CASE ConnReturns(t)
    BY <2>7 DEF ConnReturns
  <2>8. CASE Disconn(t)
    BY <2>8 DEF Disconn
  <2>9. CASE Interrupt(t)
    BY <2>9 DEF Interrupt
  <2>10. CASE Lock(t)
    BY <2>10 DEF Lock
  <2>11. CASE Destroyed(t)
    BY <2>11 DEF Destroyed
  <2>12. CASE ReleasePort(t)
    BY <2>12 DEF ReleasePort
  <2>13. CASE Remove(t)
    BY <2>13 DEF Remove
  <2>14. CASE Undefined(t)
    BY <2>14, UndefinedPoint
  <2>15. QED
    BY <1>1, <2>1, <2>2, <2>3, <2>4, <2>5, <2>6, <2>7, <2>8, <2>9, <2>10,
       <2>11, <2>12, <2>13, <2>14 DEF Step
<1>2. ASSUME NEW t \in Threads, NEW o \in Ops, NEW s \in Sockets, Begin(t, o, s) PROVE Calls'
  BY <1>2 DEF Begin
<1>3. ASSUME NEW s \in Sockets, NEW d \in Devices, Create(s, d) PROVE Calls'
  BY <1>3 DEF Create
<1>4. ASSUME NEW d \in Devices, CreateConfig(d) \/ RemoveUnusedConfig(d) PROVE Calls'
  BY <1>4 DEF CreateConfig, RemoveUnusedConfig
<1>5. CASE UNCHANGED vars
  BY <1>5
<1>6. QED
  BY <1>1, <1>2, <1>3, <1>4, <1>5 DEF Next

LEMMA NextExclusive ==
    ASSUME CallsInv, Next
    PROVE  Exclusive'
<1> USE RegistryAssumption
        DEF CallsInv, TypeOK, Calls, Exclusive, Last, Points, Goto, Return, On, Destroying
<1>1. ASSUME NEW t \in Threads, Step(t) PROVE Exclusive'
  <2>1. CASE Test(t)
    BY <2>1 DEF Test
  <2>2. CASE AcquirePort(t)
    BY <2>2 DEF AcquirePort
  <2>3. CASE PutPort(t)
    BY <2>3 DEF PutPort
  <2>4. CASE Dial(t)
    BY <2>4 DEF Dial
  <2>5. CASE Get(t)
    BY <2>5 DEF Get
  <2>6. CASE Put(t)
    BY <2>6 DEF Put
  <2>7. CASE ConnReturns(t)
    BY <2>7 DEF ConnReturns
  <2>8. CASE Disconn(t)
    BY <2>8 DEF Disconn
  <2>9. CASE Interrupt(t)
    BY <2>9 DEF Interrupt
  <2>10. CASE Lock(t)
    BY <2>10 DEF Lock
  <2>11. CASE Destroyed(t)
    BY <2>11 DEF Destroyed
  <2>12. CASE ReleasePort(t)
    BY <2>12 DEF ReleasePort
  <2>13. CASE Remove(t)
    BY <2>13 DEF Remove
  <2>14. CASE Undefined(t)
    BY <2>14, UndefinedPoint
  <2>15. QED
    BY <1>1, <2>1, <2>2, <2>3, <2>4, <2>5, <2>6, <2>7, <2>8, <2>9, <2>10,
       <2>11, <2>12, <2>13, <2>14 DEF Step
<1>2. ASSUME NEW t \in Threads, NEW o \in Ops, NEW s \in Sockets, Begin(t, o, s) PROVE Exclusive'
  BY <1>2 DEF Begin
<1>3. ASSUME NEW s \in Sockets, NEW d \in Devices, Create(s, d) PROVE Exclusive'
  BY <1>3 DEF Create
<1>4. ASSUME NEW d \in Devices, CreateConfig(d) \/ RemoveUnusedConfig(d) PROVE Exclusive'
  BY <1>4 DEF CreateConfig, RemoveUnusedConfig
<1>5. CASE UNCHANGED vars
  BY <1>5
<1>6. QED
  BY <1>1, <1>2, <1>3, <1>4, <1>5 DEF Next

LEMMA NextHeld ==
    ASSUME CallsInv, Next
    PROVE  Held'
<1> USE RegistryAssumption
        DEF CallsInv, TypeOK, Calls, Held, Configured, ConfigOf, Points, Goto, Return
<1>1. ASSUME NEW t \in Threads, Step(t) PROVE Held'
  <2>1. CASE Test(t)
    BY <2>1 DEF Test
  <2>2. CASE AcquirePort(t)
    <3>1. pc[t] = "port" /\ registry = None /\ UNCHANGED <<maps, config>>
      BY <2>2 DEF AcquirePort
    <3>2. CASE UNCHANGED <<copy, port, registry>> /\ Goto(t, "dial")
      BY <3>1, <3>2
    <3>3. ASSUME NEW p \in Ports, NEW c \in allocated, port' = [port EXCEPT ![t] = p],
                 copy' = [copy EXCEPT ![t] = config[c]], registry' = t, Goto(t, "port_put")
          PROVE  Held'
      BY <3>1, <3>3
    <3>4. QED
      BY <2>2, <3>2, <3>3 DEF AcquirePort
  <2>3. CASE PutPort(t)
    BY <2>3 DEF PutPort
  <2>4. CASE Dial(t)
    BY <2>4 DEF Dial
  <2>5. CASE Get(t)
    BY <2>5 DEF Get
  <2>6. CASE Put(t)
    BY <2>6 DEF Put
  <2>7. CASE ConnReturns(t)
    BY <2>7 DEF ConnReturns
  <2>8. CASE Disconn(t)
    BY <2>8 DEF Disconn
  <2>9. CASE Interrupt(t)
    BY <2>9 DEF Interrupt
  <2>10. CASE Lock(t)
    BY <2>10 DEF Lock
  <2>11. CASE Destroyed(t)
    BY <2>11 DEF Destroyed
  <2>12. CASE ReleasePort(t)
    BY <2>12 DEF ReleasePort
  <2>13. CASE Remove(t)
    BY <2>13 DEF Remove
  <2>14. CASE Undefined(t)
    BY <2>14, UndefinedPoint
  <2>15. QED
    BY <1>1, <2>1, <2>2, <2>3, <2>4, <2>5, <2>6, <2>7, <2>8, <2>9, <2>10,
       <2>11, <2>12, <2>13, <2>14 DEF Step
<1>2. ASSUME NEW t \in Threads, NEW o \in Ops, NEW s \in Sockets, Begin(t, o, s) PROVE Held'
  BY <1>2 DEF Begin
<1>3. ASSUME NEW s \in Sockets, NEW d \in Devices, Create(s, d) PROVE Held'
  BY <1>3 DEF Create
<1>4. ASSUME NEW d \in Devices, CreateConfig(d) \/ RemoveUnusedConfig(d) PROVE Held'
  BY <1>4 DEF CreateConfig, RemoveUnusedConfig
<1>5. CASE UNCHANGED vars
  BY <1>5
<1>6. QED
  BY <1>1, <1>2, <1>3, <1>4, <1>5 DEF Next

LEMMA NextType ==
    ASSUME CallsInv, Next
    PROVE  TypeOK'
<1> USE RegistryAssumption
        DEF CallsInv, TypeOK, Calls, Held, Configured, ConfigOf, Points, Goto, Return
<1>1. ASSUME NEW t \in Threads, Step(t) PROVE TypeOK'
  <2>1. CASE Test(t)
    BY <2>1 DEF Test
  <2>2. CASE AcquirePort(t)
    <3>1. \/ UNCHANGED <<copy, port>>
          \/ \E p \in Ports, c \in allocated : /\ copy' = [copy EXCEPT ![t] = config[c]]
                                               /\ port' = [port EXCEPT ![t] = p]
      BY <2>2 DEF AcquirePort
    <3>2. copy' \in [Threads -> Config \cup {None}] /\ port' \in [Threads -> Ports \cup {None}]
      BY <3>1
    <3>3. registry' \in Threads \cup {None} /\ free' \subseteq Ports
      BY <2>2 DEF AcquirePort
    <3>4. UNCHANGED <<maps, config, linked, op, sock>> /\ pc' \in [Threads -> Points]
      BY <2>2 DEF AcquirePort
    <3>5. QED
      BY <3>2, <3>3, <3>4
  <2>3. CASE PutPort(t)
    <3> DEFINE c == [copy[t] EXCEPT !.port = port[t]]
    <3>0. copy[t] \in Config
      BY <2>3 DEF PutPort
    <3>1. copy[t] \in Config /\ c \in Config
      BY <3>0 DEF Config
    <3>2. Update(c)
      BY <2>3 DEF PutPort
    <3> HIDE DEF c
    <3>3. config' \in [Configs -> Config \cup {None}]
      BY <3>1, <3>2 DEF Update
    <3>4. QED
      BY <2>3, <3>3 DEF PutPort
  <2>4. CASE Dial(t)
    BY <2>4 DEF Dial
  <2>5. CASE Get(t)
    BY <2>5 DEF Get
  <2>6. CASE Put(t)
    <3> DEFINE c == [copy[t] EXCEPT !.connected = (op[t] = "conn")]
    <3>0. copy[t] \in Config
      BY <2>6 DEF Put
    <3>1. copy[t] \in Config /\ c \in Config
      BY <3>0 DEF Config
    <3>2. Update(c)
      BY <2>6 DEF Put
    <3> HIDE DEF c
    <3>3. config' \in [Configs -> Config \cup {None}]
      BY <3>1, <3>2 DEF Update
    <3>4. QED
      BY <2>6, <3>3 DEF Put
  <2>7. CASE ConnReturns(t)
    BY <2>7 DEF ConnReturns
  <2>8. CASE Disconn(t)
    BY <2>8 DEF Disconn
  <2>9. CASE Interrupt(t)
    BY <2>9 DEF Interrupt
  <2>10. CASE Lock(t)
    BY <2>10 DEF Lock
  <2>11. CASE Destroyed(t)
    BY <2>11 DEF Destroyed
  <2>12. CASE ReleasePort(t)
    BY <2>12 DEF ReleasePort, Config
  <2>13. CASE Remove(t)
    BY <2>13 DEF Remove
  <2>14. CASE Undefined(t)
    BY <2>14, UndefinedPoint
  <2>15. QED
    BY <1>1, <2>1, <2>2, <2>3, <2>4, <2>5, <2>6, <2>7, <2>8, <2>9, <2>10,
       <2>11, <2>12, <2>13, <2>14 DEF Step
<1>2. ASSUME NEW t \in Threads, NEW o \in Ops, NEW s \in Sockets, Begin(t, o, s) PROVE TypeOK'
  BY <1>2 DEF Begin
<1>3. ASSUME NEW s \in Sockets, NEW d \in Devices, Create(s, d) PROVE TypeOK'
  <2>1. CASE deviceConfig[d] # None
    <3> DEFINE k == deviceConfig[d]
               r == [config[k] EXCEPT !.socket = s, !.device = d]
    <3>1. k \in allocated /\ k \in Configs /\ config[k] \in Config
      BY <1>3, <2>1 DEF Create
    <3>2. r \in Config
      BY <3>1 DEF Config
    <3>3. config' = [config EXCEPT ![k] = r]
      BY <1>3, <2>1, <3>1 DEF Create
    <3> HIDE DEF r
    <3>4. config' \in [Configs -> Config \cup {None}]
      BY <3>1, <3>2, <3>3
    <3>5. QED
      BY <1>3, <2>1, <3>1, <3>4 DEF Create
  <2>2. CASE deviceConfig[d] = None
    <3> DEFINE r == [socket |-> s, device |-> d, port |-> None, connected |-> FALSE]
    <3>1. r \in Config
      BY DEF Config
    <3>2. PICK c \in Configs : /\ allocated' = allocated \cup {c}
                               /\ config' = [config EXCEPT ![c] = r]
                               /\ sockConfig' = [sockConfig EXCEPT ![s] = c]
                               /\ deviceConfig' = [deviceConfig EXCEPT ![d] = c]
      BY <1>3, <2>2 DEF Create
    <3>3. config' \in [Configs -> Config \cup {None}]
      BY <3>1, <3>2
    <3>4. /\ sockConfig' \in [Sockets -> Configs \cup {None}] /\ allocated' \subseteq Configs
          /\ deviceConfig' \in [Devices -> Configs \cup {None}]
      BY <3>2
    <3>5. QED
      BY <1>3, <3>3, <3>4 DEF Create
  <2>3. QED
    BY <2>1, <2>2
<1>4. ASSUME NEW d \in Devices, CreateConfig(d) \/ RemoveUnusedConfig(d) PROVE TypeOK'
  <2>1. CASE CreateConfig(d)
    BY <2>1 DEF CreateConfig, Config
  <2>2. CASE RemoveUnusedConfig(d)
    BY <2>2 DEF RemoveUnusedConfig
  <2>3. QED
    BY <1>4, <2>1, <2>2
<1>5. CASE UNCHANGED vars
  BY <1>5
<1>6. QED
  BY <1>1, <1>2, <1>3, <1>4, <1>5 DEF Next

LEMMA NextConfigured ==
    ASSUME CallsInv, Next
    PROVE  Configured'
<1> USE RegistryAssumption
        DEF CallsInv, TypeOK, Calls, Held, Configured, ConfigOf, Goto, Return, Fresh
<1>1. ASSUME NEW t \in Threads, Step(t) PROVE Configured'
  <2>1. CASE Test(t)
    BY <2>1 DEF Test
  <2>2. CASE AcquirePort(t)
    BY <2>2 DEF AcquirePort
  <2>3. CASE PutPort(t)
    <3> DEFINE c == [copy[t] EXCEPT !.port = port[t]]
    <3>0. copy[t] \in Config
      BY <2>3 DEF PutPort
    <3>1. copy[t] \in Config /\ c \in Config
      BY <3>0 DEF Config
    <3>2. Update(c)
      BY <2>3 DEF PutPort
    <3> HIDE DEF c
    <3>3. \A k \in allocated : config'[k] \in Config
      BY <3>1, <3>2 DEF Update
    <3>4. QED
      BY <2>3, <3>3 DEF PutPort
  <2>4. CASE Dial(t)
    BY <2>4 DEF Dial
  <2>5. CASE Get(t)
    BY <2>5 DEF Get
  <2>6. CASE Put(t)
    <3> DEFINE c == [copy[t] EXCEPT !.connected = (op[t] = "conn")]
    <3>0. copy[t] \in Config
      BY <2>6 DEF Put
    <3>1. copy[t] \in Config /\ c \in Config
      BY <3>0 DEF Config
    <3>2. Update(c)
      BY <2>6 DEF Put
    <3> HIDE DEF c
    <3>3. \A k \in allocated : config'[k] \in Config
      BY <3>1, <3>2 DEF Update
    <3>4. QED
      BY <2>6, <3>3 DEF Put
  <2>7. CASE ConnReturns(t)
    BY <2>7 DEF ConnReturns
  <2>8. CASE Disconn(t)
    BY <2>8 DEF Disconn
  <2>9. CASE Interrupt(t)
    BY <2>9 DEF Interrupt
  <2>10. CASE Lock(t)
    BY <2>10 DEF Lock
  <2>11. CASE Destroyed(t)
    BY <2>11 DEF Destroyed
  <2>12. CASE ReleasePort(t)
    BY <2>12 DEF ReleasePort
  <2>13. CASE Remove(t)
    BY <2>13 DEF Remove
  <2>14. CASE Undefined(t)
    BY <2>14, UndefinedPoint
  <2>15. QED
    BY <1>1, <2>1, <2>2, <2>3, <2>4, <2>5, <2>6, <2>7, <2>8, <2>9, <2>10,
       <2>11, <2>12, <2>13, <2>14 DEF Step
<1>2. ASSUME NEW t \in Threads, NEW o \in Ops, NEW s \in Sockets, Begin(t, o, s) PROVE Configured'
  BY <1>2 DEF Begin
<1>3. ASSUME NEW s \in Sockets, NEW d \in Devices, Create(s, d) PROVE Configured'
  <2>1. CASE deviceConfig[d] # None
    <3> DEFINE k == deviceConfig[d]
               r == [config[k] EXCEPT !.socket = s, !.device = d]
    <3>1. k \in allocated /\ k \in Configs /\ config[k] \in Config
      BY <1>3, <2>1 DEF Create
    <3>2. r \in Config
      BY <3>1 DEF Config
    <3>3. config' = [config EXCEPT ![k] = r]
      BY <1>3, <2>1, <3>1 DEF Create
    <3> HIDE DEF r
    <3>4. \A c \in allocated : config'[c] \in Config
      BY <3>1, <3>2, <3>3
    <3>5. QED
      BY <1>3, <2>1, <3>1, <3>4 DEF Create
  <2>2. CASE deviceConfig[d] = None
    <3> DEFINE r == [socket |-> s, device |-> d, port |-> None, connected |-> FALSE]
    <3>1. r \in Config
      BY DEF Config
    <3>2. PICK c \in Configs : /\ allocated' = allocated \cup {c}
                               /\ config' = [config EXCEPT ![c] = r]
                               /\ sockConfig' = [sockConfig EXCEPT ![s] = c]
                               /\ deviceConfig' = [deviceConfig EXCEPT ![d] = c]
      BY <1>3, <2>2 DEF Create
    <3>3. \A k \in allocated' : config'[k] \in Config
      BY <3>1, <3>2
    <3>4. /\ registered' = registered \cup {s} /\ device' = [device EXCEPT ![s] = d]
      BY <1>3 DEF Create
    <3>5. \A u \in registered' : device'[u] \in Devices /\ sockConfig'[u] # None
      BY <3>2, <3>4
    <3>6. \A u \in Sockets \ registered' : sockConfig'[u] = None
      BY <3>2, <3>4
    <3>7. QED
      BY <3>3, <3>5, <3>6
  <2>3. QED
    BY <2>1, <2>2
<1>4. ASSUME NEW d \in Devices, CreateConfig(d) \/ RemoveUnusedConfig(d) PROVE Configured'
  <2>1. CASE CreateConfig(d)
    BY <2>1 DEF CreateConfig, Config
  <2>2. CASE RemoveUnusedConfig(d)
    BY <2>2 DEF RemoveUnusedConfig
  <2>3. QED
    BY <1>4, <2>1, <2>2
<1>5. CASE UNCHANGED vars
  BY <1>5
<1>6. QED
  BY <1>1, <1>2, <1>3, <1>4, <1>5 DEF Next

-----------------------------------------------------------------------------
(* Before a socket is orphaned, a device's configuration is its own.       *)
LEMMA OwnConfig ==
    ASSUME IInv, orphans = {}
    PROVE  /\ \A s \in registered : /\ device[s] \in Devices
                                    /\ deviceConfig[device[s]] = sockConfig[s]
                                    /\ sockConfig[s] \in allocated
                                    /\ config[sockConfig[s]] \in Config
                                    /\ config[sockConfig[s]].device = device[s]
                                    /\ config[sockConfig[s]].socket \in registered
                                    /\ device[config[sockConfig[s]].socket] = device[s]
           /\ \A d, e \in Devices : deviceConfig[d] # None /\ deviceConfig[d] = deviceConfig[e]
                                       => d = e
           /\ \A d \in Devices : deviceConfig[d] # None => /\ deviceConfig[d] \in allocated
                                                           /\ deviceConfig[d] \in Configs
                                                           /\ config[deviceConfig[d]] \in Config
BY RegistryAssumption DEF IInv, CallsInv, TypeOK, Configured, ConfigsLive

(* The copy a thread is about to write back goes where it came from.       *)
LEMMA CopyCurrent ==
    ASSUME IInv, orphans = {}, NEW t \in Threads, pc[t] \in {"port_put", "put"}
    PROVE  /\ sock[t] \in registered /\ registry = t
           /\ ConfigOf(t) \in allocated /\ ConfigOf(t) \in Configs
           /\ copy[t] \in Config /\ Current(t)
           /\ Target(copy[t]) = ConfigOf(t)
<1> USE RegistryAssumption
        DEF IInv, CallsInv
<1>1. /\ sock[t] \in registered /\ registry = t /\ copy[t] \in Config /\ Current(t)
  BY DEF Calls, Held, Copied
<1>2. /\ ConfigOf(t) \in allocated /\ ConfigOf(t) \in Configs
  BY <1>1, OwnConfig DEF ConfigOf, TypeOK
<1>3. /\ sockConfig[copy[t].socket] = ConfigOf(t) /\ copy[t].socket # None
  BY <1>1, OwnConfig DEF Current, ConfigOf, TypeOK
<1>4. ConfigOf(t) # None
  BY <1>2
<1>5. QED
  BY <1>1, <1>2, <1>3, <1>4 DEF Target

(* What the two writes change of the socket's configuration.               *)
LEMMA Writes ==
    ASSUME IInv, orphans = {}, NEW t \in Threads, Put(t) \/ PutPort(t)
    PROVE  /\ pc[t] \in {"port_put", "put"} /\ UNCHANGED maps
           /\ \A k \in Configs : k # ConfigOf(t) => config'[k] = config[k]
           /\ config'[ConfigOf(t)] \in Config
           /\ config'[ConfigOf(t)].device = config[ConfigOf(t)].device
           /\ config'[ConfigOf(t)].socket \in registered
           /\ device[config'[ConfigOf(t)].socket] = device[sock[t]]
           /\ config'[ConfigOf(t)].port = IF pc[t] = "put" THEN config[ConfigOf(t)].port
                                                           ELSE port[t]
<1> DEFINE k == ConfigOf(t)
<1>1. CASE Put(t)
  <2> DEFINE c == [copy[t] EXCEPT !.connected = (op[t] = "conn")]
  <2>1. pc[t] = "put" /\ Update(c) /\ UNCHANGED maps
    BY <1>1 DEF Put
  <2>2. /\ k \in Configs /\ k \in allocated /\ copy[t] \in Config /\ Current(t)
        /\ Target(copy[t]) = k
    BY <2>1, CopyCurrent
  <2>3. c \in Config
    BY <2>2 DEF Config
  <2>4. c.socket = copy[t].socket /\ c.device = copy[t].device /\ c.port = copy[t].port
    BY <2>2 DEF Config
  <2>5. Target(c) = k
    BY <2>2, <2>4 DEF Target
  <2> HIDE DEF c
  <2>6. k # None
    BY <2>2, RegistryAssumption
  <2>7. config' = [config EXCEPT ![k] = c]
    BY <2>1, <2>5, <2>6 DEF Update
  <2>8. config'[k] = c /\ \A j \in Configs : j # k => config'[j] = config[j]
    BY <2>2, <2>7 DEF IInv, CallsInv, TypeOK
  <2>9. QED
    BY <2>1, <2>2, <2>3, <2>4, <2>8 DEF Current
<1>2. CASE PutPort(t)
  <2> DEFINE c == [copy[t] EXCEPT !.port = port[t]]
  <2>1. pc[t] = "port_put" /\ Update(c) /\ UNCHANGED maps
    BY <1>2 DEF PutPort
  <2>2. /\ k \in Configs /\ k \in allocated /\ copy[t] \in Config /\ Current(t)
        /\ Target(copy[t]) = k
    BY <2>1, CopyCurrent
  <2>3. c \in Config
    BY <2>2 DEF Config, IInv, CallsInv, TypeOK
  <2>4. c.socket = copy[t].socket /\ c.device = copy[t].device /\ c.port = port[t]
    BY <2>2 DEF Config
  <2>5. Target(c) = k
    BY <2>2, <2>4 DEF Target
  <2> HIDE DEF c
  <2>6. k # None
    BY <2>2, RegistryAssumption
  <2>7. config' = [config EXCEPT ![k] = c]
    BY <2>1, <2>5, <2>6 DEF Update
  <2>8. config'[k] = c /\ \A j \in Configs : j # k => config'[j] = config[j]
    BY <2>2, <2>7 DEF IInv, CallsInv, TypeOK
  <2>9. QED
    BY <2>1, <2>2, <2>3, <2>4, <2>8 DEF Current
<1>3. QED
  BY <1>1, <1>2

LEMMA Acquires ==
    ASSUME IInv, orphans = {}, NEW t \in Threads, AcquirePort(t)
    PROVE  /\ pc[t] = "port" /\ registry = None /\ sock[t] \in registered
           /\ UNCHANGED <<op, sock, maps, config>>
           /\ \/ UNCHANGED <<copy, port, registry, free>> /\ pc' = [pc EXCEPT ![t] = "dial"]
              \/ /\ copy' = [copy EXCEPT ![t] = config[ConfigOf(t)]]
                 /\ \E p \in free : port' = [port EXCEPT ![t] = p] /\ free' = free \ {p}
                 /\ registry' = t /\ pc' = [pc EXCEPT ![t] = "port_put"]
<1>1. /\ pc[t] = "port" /\ registry = None /\ UNCHANGED <<op, sock, maps, config>>
  BY DEF AcquirePort, Goto
<1>2. sock[t] \in registered
  BY <1>1 DEF IInv, CallsInv, Calls
<1>3. deviceConfig[device[sock[t]]] = ConfigOf(t) /\ ConfigOf(t) # None
  BY <1>2, OwnConfig, RegistryAssumption DEF ConfigOf, IInv, CallsInv, TypeOK
<1>4. QED
  BY <1>1, <1>2, <1>3 DEF AcquirePort, Goto

(* The socket that a bratislavaDestroy() removes is its device's only one. *)
LEMMA RemovesLast ==
    ASSUME IInv, orphans = {}, orphans' = {}, NEW t \in Threads, Remove(t)
    PROVE  /\ sock[t] \in registered /\ Last(t) /\ pc[t] # "undefined"
           /\ \A s \in registered \ {sock[t]} : device[s] # device[sock[t]]
           /\ config[ConfigOf(t)].device = device[sock[t]]
           /\ deviceConfig[device[sock[t]]] = ConfigOf(t)
BY OwnConfig DEF Remove, Last, IInv, CallsInv, Calls, ConfigOf

LEMMA NeverUndefined ==
    ASSUME IInv, orphans = {}, NEW t \in Threads
    PROVE  ~Undefined(t)
<1> SUFFICES ASSUME Undefined(t) PROVE FALSE
  OBVIOUS
<1>1. sock[t] \in registered
  BY UndefinedPoint DEF IInv, CallsInv, Calls
<1>2. CASE pc[t] \in {"port_put", "put"}
  BY <1>2, CopyCurrent DEF Undefined, Needs
<1>3. CASE pc[t] \in {"test", "get", "release", "remove"}
  BY <1>1, <1>3, OwnConfig DEF Undefined, Needs, ConfigOf
<1>4. CASE pc[t] = "port"
  BY <1>1, <1>4, OwnConfig DEF Undefined, Needs
<1>5. QED
  BY <1>2, <1>3, <1>4, UndefinedPoint

LEMMA NextCopied ==
    ASSUME IInv, orphans = {}, orphans' = {}, Next
    PROVE  Copied'
<1> USE RegistryAssumption
        DEF IInv, CallsInv, TypeOK, Calls, Exclusive, Last, Copied, Current, ConfigOf, Goto, Return
<1>1. ASSUME NEW t \in Threads, Step(t) PROVE Copied'
  <2>1. CASE Test(t)
    BY <2>1 DEF Test
  <2>2. CASE AcquirePort(t)
    <3>1. /\ pc[t] = "port" /\ sock[t] \in registered /\ UNCHANGED <<op, sock, maps, config>>
          /\ \/ UNCHANGED <<copy, port, registry, free>> /\ pc' = [pc EXCEPT ![t] = "dial"]
             \/ copy' = [copy EXCEPT ![t] = config[ConfigOf(t)]]
                /\ pc' = [pc EXCEPT ![t] = "port_put"]
      BY <2>2, Acquires
    <3>2. \A u \in Threads \ {t} : pc'[u] = pc[u] /\ copy'[u] = copy[u]
      BY <3>1
    <3>3. pc'[t] = "port_put" => copy'[t] = config[ConfigOf(t)]
      BY <3>1
    <3>4. pc'[t] # "put"
      BY <3>1
    <3>5. QED
      BY <3>1, <3>2, <3>3, <3>4, OwnConfig
  <2>3. CASE PutPort(t)
    <3>1. \A u \in Threads \ {t} : pc[u] \notin {"port_put", "put"}
      BY <2>3, CopyCurrent DEF Held, PutPort
    <3>2. pc'[t] \notin {"port_put", "put"} /\ \A u \in Threads \ {t} : pc'[u] = pc[u]
      BY <2>3 DEF PutPort
    <3>3. QED
      BY <3>1, <3>2
  <2>4. CASE Dial(t)
    BY <2>4 DEF Dial
  <2>5. CASE Get(t)
    BY <2>5, OwnConfig DEF Get
  <2>6. CASE Put(t)
    <3>1. \A u \in Threads \ {t} : pc[u] \notin {"port_put", "put"}
      BY <2>6, CopyCurrent DEF Held, Put
    <3>2. pc'[t] \notin {"port_put", "put"} /\ \A u \in Threads \ {t} : pc'[u] = pc[u]
      BY <2>6 DEF Put
    <3>3. QED
      BY <3>1, <3>2
  <2>7. CASE ConnReturns(t)
    BY <2>7 DEF ConnReturns
  <2>8. CASE Disconn(t)
    BY <2>8 DEF Disconn
  <2>9. CASE Interrupt(t)
    BY <2>9 DEF Interrupt
  <2>10. CASE Lock(t)
    BY <2>10 DEF Lock
  <2>11. CASE Destroyed(t)
    BY <2>11 DEF Destroyed
  <2>12. CASE ReleasePort(t)
    BY <2>12 DEF ReleasePort
  <2>13. CASE Remove(t)
    <3>1. \A u \in Threads : pc'[u] \in {"port_put", "put"} =>
             /\ u # t /\ pc[u] \in {"port_put", "put"} /\ sock[u] \in registered
             /\ sock[u] # sock[t] /\ copy[u].socket # sock[t] /\ copy[u].socket \in Sockets
      BY <2>13, RemovesLast, CopyCurrent DEF Remove, Current
    <3>2. QED
      BY <2>13, <3>1 DEF Remove
  <2>14. CASE Undefined(t)
    BY <2>14, NeverUndefined
  <2>15. QED
    BY <1>1, <2>1, <2>2, <2>3, <2>4, <2>5, <2>6, <2>7, <2>8, <2>9, <2>10,
       <2>11, <2>12, <2>13, <2>14 DEF Step
<1>2. ASSUME NEW t \in Threads, NEW o \in Ops, NEW s \in Sockets, Begin(t, o, s) PROVE Copied'
  BY <1>2 DEF Begin
<1>3. ASSUME NEW s \in Sockets, NEW d \in Devices, Create(s, d) PROVE Copied'
  <2>1. CASE deviceConfig[d] # None
    <3> DEFINE k == deviceConfig[d]
               r == [config[k] EXCEPT !.socket = s, !.device = d]
    <3>1. k \in allocated /\ k \in Configs /\ config[k] \in Config /\ config[k].device = d
      BY <2>1, OwnConfig DEF ConfigsLive
    <3>2. /\ r \in Config /\ r.socket = s /\ r.device = d /\ r.port = config[k].port
      BY <3>1 DEF Config
    <3>3. config' = [config EXCEPT ![k] = r]
      BY <1>3, <2>1 DEF Create
    <3> HIDE DEF r
    <3>4. config'[k] = r /\ \A c \in Configs : c # k => config'[c] = config[c]
      BY <3>1, <3>3
    <3>5. /\ sockConfig' = [sockConfig EXCEPT ![s] = k] /\ s \notin registered
          /\ registered' = registered \cup {s} /\ device' = [device EXCEPT ![s] = d]
          /\ UNCHANGED <<thread, registry, free, deviceConfig, allocated>>
      BY <1>3, <2>1 DEF Create
    <3>6. \A u \in Threads : pc[u] \in {"port_put", "put"} =>
             /\ sock[u] \in registered /\ ConfigOf(u) \in Configs /\ copy[u].socket # s
             /\ ConfigOf(u) = k => device[sock[u]] = d
      BY <3>1, <3>5, CopyCurrent, OwnConfig DEF Current
    <3>7. \A u \in Threads : pc[u] \in {"port_put", "put"} =>
             /\ config'[ConfigOf(u)].device = config[ConfigOf(u)].device
             /\ config'[ConfigOf(u)].port = config[ConfigOf(u)].port
      BY <3>1, <3>2, <3>4, <3>6
    <3> HIDE DEF k
    <3>8. QED
      BY <3>5, <3>6, <3>7
  <2>2. CASE deviceConfig[d] = None
    <3> DEFINE r == [socket |-> s, device |-> d, port |-> None, connected |-> FALSE]
    <3>1. r \in Config
      BY DEF Config
    <3>2. PICK c \in Configs : /\ Fresh(c) /\ allocated' = allocated \cup {c}
                               /\ config' = [config EXCEPT ![c] = r]
                               /\ sockConfig' = [sockConfig EXCEPT ![s] = c]
                               /\ deviceConfig' = [deviceConfig EXCEPT ![d] = c]
      BY <1>3, <2>2 DEF Create
    <3>3. /\ registered' = registered \cup {s} /\ device' = [device EXCEPT ![s] = d]
          /\ s \notin registered /\ UNCHANGED <<thread, registry, free>>
      BY <1>3 DEF Create
    <3>4. \A e \in Devices : deviceConfig[e] # c
      BY <3>2, OwnConfig DEF Fresh
    <3>5. \A u \in Threads : pc[u] \in {"port_put", "put"} =>
             /\ sock[u] \in registered /\ copy[u].socket # s
             /\ ConfigOf(u) # c /\ ConfigOf(u) \in Configs
      BY <3>2, <3>3, CopyCurrent DEF Current, Fresh
    <3>6. QED
      BY <3>2, <3>3, <3>5
  <2>3. QED
    BY <2>1, <2>2
<1>4. ASSUME NEW d \in Devices, CreateConfig(d) \/ RemoveUnusedConfig(d) PROVE Copied'
  <2>1. CASE CreateConfig(d)
    <3>1. PICK c \in Configs : /\ Fresh(c) /\ \A k \in Configs \ {c} : config'[k] = config[k]
      BY <2>1 DEF CreateConfig
    <3>2. \A u \in Threads : pc[u] \in {"port_put", "put"} => ConfigOf(u) \in Configs \ {c}
      BY <3>1, CopyCurrent DEF Fresh
    <3>3. QED
      BY <2>1, <3>1, <3>2 DEF CreateConfig
  <2>2. CASE RemoveUnusedConfig(d)
    BY <2>2 DEF RemoveUnusedConfig
  <2>3. QED
    BY <1>4, <2>1, <2>2
<1>5. CASE UNCHANGED vars
  BY <1>5
<1>6. QED
  BY <1>1, <1>2, <1>3, <1>4, <1>5 DEF Next

LEMMA NextLive ==
    ASSUME IInv, orphans = {}, orphans' = {}, Next
    PROVE  ConfigsLive'
<1> USE RegistryAssumption
        DEF IInv, CallsInv, TypeOK, ConfigsLive, Defined, ConfigOf, Goto, Return
<1>1. ASSUME NEW t \in Threads, Step(t) PROVE ConfigsLive'
  <2>1. CASE Test(t)
    BY <2>1 DEF Test
  <2>2. CASE AcquirePort(t)
    <3>1. UNCHANGED <<maps, config>> /\ Defined'
      BY <2>2, Acquires
    <3>2. QED
      BY <3>1
  <2>3. CASE PutPort(t)
    <3>1. /\ UNCHANGED maps /\ ConfigOf(t) \in allocated /\ sock[t] \in registered
          /\ \A c \in Configs : c # ConfigOf(t) => config'[c] = config[c]
          /\ config'[ConfigOf(t)].device = config[ConfigOf(t)].device
          /\ config'[ConfigOf(t)].socket \in registered
          /\ device[config'[ConfigOf(t)].socket] = device[sock[t]]
      BY <2>3, Writes, CopyCurrent
    <3>2. Defined'
      BY <2>3 DEF PutPort
    <3>3. \A s \in registered : config'[sockConfig[s]].socket # None
      BY <3>1, OwnConfig
    <3>4. \A d \in Devices : deviceConfig[d] = ConfigOf(t) => d = device[sock[t]]
      BY <3>1, OwnConfig DEF ConfigOf
    <3>5. ASSUME NEW d \in Devices, deviceConfig[d] # None
          PROVE  LET c == config'[deviceConfig[d]] IN
                 /\ deviceConfig[d] \in allocated /\ c.device = d
                 /\ c.socket # None => c.socket \in registered /\ device[c.socket] = d
      <4>1. CASE deviceConfig[d] = ConfigOf(t)
        BY <3>1, <3>4, <3>5, <4>1, OwnConfig
      <4>2. CASE deviceConfig[d] # ConfigOf(t)
        BY <3>1, <3>5, <4>2, OwnConfig
      <4>3. QED
        BY <4>1, <4>2
    <3>6. QED
      BY <3>1, <3>2, <3>3, <3>5, OwnConfig
  <2>4. CASE Dial(t)
    BY <2>4 DEF Dial
  <2>5. CASE Get(t)
    BY <2>5 DEF Get
  <2>6. CASE Put(t)
    <3>1. /\ UNCHANGED maps /\ ConfigOf(t) \in allocated /\ sock[t] \in registered
          /\ \A c \in Configs : c # ConfigOf(t) => config'[c] = config[c]
          /\ config'[ConfigOf(t)].device = config[ConfigOf(t)].device
          /\ config'[ConfigOf(t)].socket \in registered
          /\ device[config'[ConfigOf(t)].socket] = device[sock[t]]
      BY <2>6, Writes, CopyCurrent
    <3>2. Defined'
      BY <2>6 DEF Put
    <3>3. \A s \in registered : config'[sockConfig[s]].socket # None
      BY <3>1, OwnConfig
    <3>4. \A d \in Devices : deviceConfig[d] = ConfigOf(t) => d = device[sock[t]]
      BY <3>1, OwnConfig DEF ConfigOf
    <3>5. ASSUME NEW d \in Devices, deviceConfig[d] # None
          PROVE  LET c == config'[deviceConfig[d]] IN
                 /\ deviceConfig[d] \in allocated /\ c.device = d
                 /\ c.socket # None => c.socket \in registered /\ device[c.socket] = d
      <4>1. CASE deviceConfig[d] = ConfigOf(t)
        BY <3>1, <3>4, <3>5, <4>1, OwnConfig
      <4>2. CASE deviceConfig[d] # ConfigOf(t)
        BY <3>1, <3>5, <4>2, OwnConfig
      <4>3. QED
        BY <4>1, <4>2
    <3>6. QED
      BY <3>1, <3>2, <3>3, <3>5, OwnConfig
  <2>7. CASE ConnReturns(t)
    BY <2>7 DEF ConnReturns
  <2>8. CASE Disconn(t)
    BY <2>8 DEF Disconn
  <2>9. CASE Interrupt(t)
    BY <2>9 DEF Interrupt
  <2>10. CASE Lock(t)
    BY <2>10 DEF Lock
  <2>11. CASE Destroyed(t)
    BY <2>11 DEF Destroyed
  <2>12. CASE ReleasePort(t)
    BY <2>12 DEF ReleasePort
  <2>13. CASE Remove(t)
    <3> DEFINE x == sock[t]
               k == ConfigOf(t)
               e == device[x]
    <3>1. /\ x \in registered /\ \A s \in registered \ {x} : device[s] # e
          /\ config[k].device = e /\ deviceConfig[e] = k
      BY <2>13, RemovesLast
    <3>2. /\ registered' = registered \ {x} /\ device' = [device EXCEPT ![x] = None]
          /\ deviceConfig' = [deviceConfig EXCEPT ![e] = None] /\ allocated' = allocated \ {k}
          /\ sockConfig' = [sockConfig EXCEPT ![x] = None] /\ UNCHANGED config
      BY <2>13, <3>1 DEF Remove
    <3>3. Defined'
      BY <2>13 DEF Remove
    <3> HIDE DEF x, k, e
    <3>4. \A d \in Devices : d # e /\ deviceConfig[d] # None => deviceConfig[d] # k
      BY <3>1, OwnConfig DEF x, e
    <3>5. \A s \in registered' : s \in registered /\ s # x /\ device[s] # e
      BY <3>1, <3>2
    <3>6. \A s \in registered' : /\ sockConfig'[s] \in allocated'
                                 /\ deviceConfig'[device'[s]] = sockConfig'[s]
                                 /\ config'[sockConfig'[s]].socket # None
      BY <3>2, <3>4, <3>5, OwnConfig
    <3>7. ASSUME NEW d \in Devices, deviceConfig'[d] # None
          PROVE  LET c == config'[deviceConfig'[d]] IN
                 /\ deviceConfig'[d] \in allocated' /\ c.device = d
                 /\ c.socket # None => c.socket \in registered' /\ device'[c.socket] = d
      <4>1. d # e /\ deviceConfig'[d] = deviceConfig[d]
        BY <3>2, <3>7
      <4>2. deviceConfig'[d] \in allocated'
        BY <3>2, <3>4, <3>7, <4>1, OwnConfig
      <4>3. /\ config[deviceConfig[d]].device = d
            /\ config[deviceConfig[d]].socket # None =>
                 /\ config[deviceConfig[d]].socket \in registered
                 /\ device[config[deviceConfig[d]].socket] = d
        BY <3>7, <4>1
      <4>4. device[x] = e
        BY DEF x, e
      <4>5. QED
        BY <3>2, <4>1, <4>2, <4>3, <4>4
    <3>8. QED
      BY <3>3, <3>6, <3>7
  <2>14. CASE Undefined(t)
    BY <2>14, NeverUndefined
  <2>15. QED
    BY <1>1, <2>1, <2>2, <2>3, <2>4, <2>5, <2>6, <2>7, <2>8, <2>9, <2>10,
       <2>11, <2>12, <2>13, <2>14 DEF Step
<1>2. ASSUME NEW t \in Threads, NEW o \in Ops, NEW s \in Sockets, Begin(t, o, s) PROVE ConfigsLive'
  BY <1>2 DEF Begin
<1>3. ASSUME NEW s \in Sockets, NEW d \in Devices, Create(s, d) PROVE ConfigsLive'
  <2>1. CASE deviceConfig[d] # None
    <3> DEFINE k == deviceConfig[d]
               r == [config[k] EXCEPT !.socket = s, !.device = d]
    <3>1. k \in allocated /\ k \in Configs /\ config[k] \in Config /\ config[k].device = d
      BY <2>1, OwnConfig DEF ConfigsLive
    <3>2. /\ r \in Config /\ r.socket = s /\ r.device = d /\ r.port = config[k].port
      BY <3>1 DEF Config
    <3>3. config' = [config EXCEPT ![k] = r]
      BY <1>3, <2>1 DEF Create
    <3> HIDE DEF r
    <3>4. config'[k] = r /\ \A c \in Configs : c # k => config'[c] = config[c]
      BY <3>1, <3>3
    <3>5. /\ sockConfig' = [sockConfig EXCEPT ![s] = k] /\ s \notin registered
          /\ registered' = registered \cup {s} /\ device' = [device EXCEPT ![s] = d]
          /\ UNCHANGED <<thread, registry, free, deviceConfig, allocated>>
      BY <1>3, <2>1 DEF Create
    <3>6. Defined'
      BY <3>5
    <3> HIDE DEF k
    <3>7. k = deviceConfig[d] /\ k # None
      BY <2>1 DEF k
    <3>8. \A e \in Devices : e # d /\ deviceConfig[e] # None =>
             config'[deviceConfig[e]] = config[deviceConfig[e]]
      BY <3>4, <3>7, OwnConfig
    <3>9. \A u \in registered' : /\ sockConfig'[u] \in allocated'
                                 /\ deviceConfig'[device'[u]] = sockConfig'[u]
                                 /\ config'[sockConfig'[u]].socket # None
      <4> SUFFICES ASSUME NEW u \in registered'
                   PROVE  /\ sockConfig'[u] \in allocated'
                          /\ deviceConfig'[device'[u]] = sockConfig'[u]
                          /\ config'[sockConfig'[u]].socket # None
        OBVIOUS
      <4>1. CASE u = s
        BY <3>1, <3>2, <3>4, <3>5, <3>7, <4>1
      <4>2. CASE u # s
        BY <3>1, <3>2, <3>4, <3>5, <4>2, OwnConfig
      <4>3. QED
        BY <4>1, <4>2
    <3>10. ASSUME NEW e \in Devices, deviceConfig'[e] # None
           PROVE  LET c == config'[deviceConfig'[e]] IN
                  /\ deviceConfig'[e] \in allocated' /\ c.device = e
                  /\ c.socket # None => c.socket \in registered' /\ device'[c.socket] = e
      <4>1. CASE e = d
        BY <3>1, <3>2, <3>4, <3>5, <3>7, <4>1
      <4>2. CASE e # d
        BY <3>5, <3>8, <3>10, <4>2, OwnConfig
      <4>3. QED
        BY <4>1, <4>2
    <3>11. QED
      BY <3>6, <3>9, <3>10
  <2>2. CASE deviceConfig[d] = None
    <3> DEFINE r == [socket |-> s, device |-> d, port |-> None, connected |-> FALSE]
    <3>1. r \in Config
      BY DEF Config
    <3>2. PICK c \in Configs : /\ Fresh(c) /\ allocated' = allocated \cup {c}
                               /\ config' = [config EXCEPT ![c] = r]
                               /\ sockConfig' = [sockConfig EXCEPT ![s] = c]
                               /\ deviceConfig' = [deviceConfig EXCEPT ![d] = c]
      BY <1>3, <2>2 DEF Create
    <3>3. /\ registered' = registered \cup {s} /\ device' = [device EXCEPT ![s] = d]
          /\ s \notin registered /\ UNCHANGED <<thread, registry, free>>
      BY <1>3 DEF Create
    <3>4. \A e \in Devices : deviceConfig[e] # c
      BY <3>2, OwnConfig DEF Fresh
    <3>5. Defined'
      BY <3>3
    <3>6. /\ config'[c] = r /\ c # None /\ c \notin allocated
          /\ \A k \in Configs : k # c => config'[k] = config[k]
      BY <3>2 DEF Fresh
    <3>7. \A u \in registered : u # s /\ device[u] # d /\ sockConfig[u] # c
      BY <2>2, <3>2, <3>3, OwnConfig DEF Fresh
    <3>8. \A u \in registered' : /\ sockConfig'[u] \in allocated'
                                 /\ deviceConfig'[device'[u]] = sockConfig'[u]
                                 /\ config'[sockConfig'[u]].socket # None
      <4> SUFFICES ASSUME NEW u \in registered'
                   PROVE  /\ sockConfig'[u] \in allocated'
                          /\ deviceConfig'[device'[u]] = sockConfig'[u]
                          /\ config'[sockConfig'[u]].socket # None
        OBVIOUS
      <4>1. CASE u = s
        BY <3>2, <3>3, <3>6, <4>1
      <4>2. CASE u # s
        BY <3>2, <3>3, <3>6, <3>7, <4>2, OwnConfig
      <4>3. QED
        BY <4>1, <4>2
    <3>9. ASSUME NEW e \in Devices, deviceConfig'[e] # None
          PROVE  LET k == config'[deviceConfig'[e]] IN
                 /\ deviceConfig'[e] \in allocated' /\ k.device = e
                 /\ k.socket # None => k.socket \in registered' /\ device'[k.socket] = e
      <4>1. CASE e = d
        BY <3>2, <3>3, <3>6, <4>1
      <4>2. CASE e # d
        BY <3>2, <3>3, <3>4, <3>6, <3>9, <4>2, OwnConfig
      <4>3. QED
        BY <4>1, <4>2
    <3>10. QED
      BY <3>5, <3>8, <3>9
  <2>3. QED
    BY <2>1, <2>2
<1>4. ASSUME NEW d \in Devices, CreateConfig(d) \/ RemoveUnusedConfig(d) PROVE ConfigsLive'
  <2>1. CASE CreateConfig(d)
    <3>1. PICK c \in Configs :
             /\ Fresh(c) /\ allocated' = allocated \cup {c}
             /\ config' = [config EXCEPT ![c] = [socket |-> None, device |-> d,
                                                 port |-> None, connected |-> FALSE]]
             /\ deviceConfig' = [deviceConfig EXCEPT ![d] = c]
      BY <2>1 DEF CreateConfig
    <3>2. /\ \A e \in Devices : deviceConfig[e] # c
          /\ \A s \in registered : sockConfig[s] # c /\ device[s] # d
      BY <2>1, <3>1, OwnConfig DEF Fresh, CreateConfig
    <3>3. UNCHANGED <<thread, registered, device, sockConfig>>
      BY <2>1 DEF CreateConfig
    <3>4. QED
      BY <3>1, <3>2, <3>3, OwnConfig
  <2>2. CASE RemoveUnusedConfig(d)
    <3>1. \A s \in registered : sockConfig[s] # deviceConfig[d]
      BY <2>2 DEF RemoveUnusedConfig
    <3>2. QED
      BY <2>2, <3>1, OwnConfig DEF RemoveUnusedConfig
  <2>3. QED
    BY <1>4, <2>1, <2>2
<1>5. CASE UNCHANGED vars
  BY <1>5
<1>6. QED
  BY <1>1, <1>2, <1>3, <1>4, <1>5 DEF Next

LEMMA NextInHand ==
    ASSUME IInv, orphans = {}, orphans' = {}, Next
    PROVE  InHand'
<1> USE RegistryAssumption
        DEF IInv, CallsInv, TypeOK, ConfigsLive, InHand
<1>1. ASSUME NEW t \in Threads, Step(t) PROVE InHand'
  <2>1. CASE Test(t)
    BY <2>1 DEF Test
  <2>2. CASE AcquirePort(t)
    <3>1. \/ UNCHANGED <<port, free>>
          \/ \E p \in free : port' = [port EXCEPT ![t] = p] /\ free' = free \ {p}
      BY <2>2, Acquires
    <3>2. QED
      BY <3>1
  <2>3. CASE PutPort(t)
    BY <2>3 DEF PutPort
  <2>4. CASE Dial(t)
    BY <2>4 DEF Dial
  <2>5. CASE Get(t)
    BY <2>5 DEF Get
  <2>6. CASE Put(t)
    BY <2>6 DEF Put
  <2>7. CASE ConnReturns(t)
    BY <2>7 DEF ConnReturns
  <2>8. CASE Disconn(t)
    BY <2>8 DEF Disconn
  <2>9. CASE Interrupt(t)
    BY <2>9 DEF Interrupt
  <2>10. CASE Lock(t)
    BY <2>10 DEF Lock
  <2>11. CASE Destroyed(t)
    BY <2>11 DEF Destroyed
  <2>12. CASE ReleasePort(t)
    <3>1. \A u \in Threads : port[u] = None
      BY <2>12 DEF ReleasePort, Held, Defined
    <3>2. QED
      BY <2>12, <3>1 DEF ReleasePort
  <2>13. CASE Remove(t)
    BY <2>13 DEF Remove
  <2>14. CASE Undefined(t)
    BY <2>14, NeverUndefined
  <2>15. QED
    BY <1>1, <2>1, <2>2, <2>3, <2>4, <2>5, <2>6, <2>7, <2>8, <2>9, <2>10,
       <2>11, <2>12, <2>13, <2>14 DEF Step
<1>2. ASSUME NEW t \in Threads, NEW o \in Ops, NEW s \in Sockets, Begin(t, o, s) PROVE InHand'
  BY <1>2 DEF Begin
<1>3. ASSUME NEW s \in Sockets, NEW d \in Devices, Create(s, d) PROVE InHand'
  BY <1>3 DEF Create
<1>4. ASSUME NEW d \in Devices, CreateConfig(d) \/ RemoveUnusedConfig(d) PROVE InHand'
  BY <1>4 DEF CreateConfig, RemoveUnusedConfig
<1>5. CASE UNCHANGED vars
  BY <1>5
<1>6. QED
  BY <1>1, <1>2, <1>3, <1>4, <1>5 DEF Next

(* PortsExclusive, with a name for each of its parts.                      *)
Dying(d)   == \E t \in Threads : /\ op[t] = "destroy" /\ device[sock[t]] = d
                                 /\ pc[t] \in {"get", "put", "remove"}
HeldBy(d)  == config[deviceConfig[d]].port
Holding(d) == deviceConfig[d] # None /\ ~Dying(d) /\ HeldBy(d) # None
Ports1 == \A d \in Devices : Holding(d) =>
            /\ HeldBy(d) \notin free
            /\ \A e \in Devices \ {d} : Holding(e) => HeldBy(e) # HeldBy(d)
            /\ \A t \in Threads : port[t] # HeldBy(d)
LEMMA PortsParts == PortsExclusive <=> (orphans = {} => Ports1)
BY DEF PortsExclusive, Ports1, Holding, HeldBy, Dying

LEMMA NextPorts ==
    ASSUME IInv, orphans = {}, orphans' = {}, Next, Ports1
    PROVE  Ports1'
<1> USE RegistryAssumption
        DEF IInv, CallsInv, TypeOK, Ports1, Holding, Goto, Return
<1>1. ASSUME NEW t \in Threads, Step(t) PROVE Ports1'
  <2>1. CASE Test(t)
    <3>1. UNCHANGED <<maps, config, port, free>>
      BY <2>1 DEF Test
    <3>2. \A d \in Devices : Dying(d) => Dying(d)'
      BY <2>1 DEF Test, Dying, Last
    <3>3. QED
      BY <3>1, <3>2 DEF HeldBy
  <2>2. CASE AcquirePort(t)
    <3>1. /\ pc[t] = "port" /\ UNCHANGED <<maps, config, op, sock>>
          /\ \A u \in Threads \ {t} : pc'[u] = pc[u]
          /\ \/ UNCHANGED <<port, free>>
             \/ \E p \in free : port' = [port EXCEPT ![t] = p] /\ free' = free \ {p}
      BY <2>2, Acquires
    <3>2. \A d \in Devices : Dying(d) => Dying(d)'
      BY <3>1 DEF Dying
    <3>3. QED
      BY <3>1, <3>2 DEF HeldBy
  <2>3. CASE PutPort(t)
    <3>1. /\ UNCHANGED <<maps, free, op, sock>> /\ ConfigOf(t) \in Configs /\ sock[t] \in registered
          /\ \A c \in Configs : c # ConfigOf(t) => config'[c] = config[c]
          /\ config'[ConfigOf(t)].port = port[t] /\ port' = [port EXCEPT ![t] = None]
      BY <2>3, Writes, CopyCurrent DEF PutPort
    <3>2. \A d \in Devices : Dying(d) => Dying(d)'
      BY <2>3 DEF PutPort, Dying
    <3>3. port[t] # None /\ port[t] \notin free /\ \A u \in Threads : port'[u] = None
      BY <2>3, <3>1 DEF PutPort, Held, ConfigsLive, Defined, InHand
    <3>4. \A d \in Devices : deviceConfig[d] # None =>
             HeldBy(d)' = IF d = device[sock[t]] THEN port[t] ELSE HeldBy(d)
      BY <3>1, OwnConfig DEF HeldBy, ConfigOf
    <3>5. \A d \in Devices : Holding(d)' => \/ d = device[sock[t]] /\ HeldBy(d)' = port[t]
                                            \/ /\ d # device[sock[t]] /\ Holding(d)
                                               /\ HeldBy(d)' = HeldBy(d)
      BY <3>1, <3>2, <3>4
    <3>6. \A d \in Devices : Holding(d)' => HeldBy(d)' # None
      OBVIOUS
    <3> HIDE DEF Holding
    <3>7. QED
      BY <3>1, <3>3, <3>5, <3>6
  <2>4. CASE Dial(t)
    <3>1. UNCHANGED <<maps, config, port, free>>
      BY <2>4 DEF Dial
    <3>2. \A d \in Devices : Dying(d) => Dying(d)'
      BY <2>4 DEF Dial, Dying, Last
    <3>3. QED
      BY <3>1, <3>2 DEF HeldBy
  <2>5. CASE Get(t)
    <3>1. UNCHANGED <<maps, config, port, free>>
      BY <2>5 DEF Get
    <3>2. \A d \in Devices : Dying(d) => Dying(d)'
      BY <2>5 DEF Get, Dying, Last
    <3>3. QED
      BY <3>1, <3>2 DEF HeldBy
  <2>6. CASE Put(t)
    <3>1. /\ UNCHANGED <<maps, port, free>> /\ ConfigOf(t) \in Configs
          /\ \A c \in Configs : config'[c].port = config[c].port
      BY <2>6, Writes, CopyCurrent DEF Put
    <3>2. \A d \in Devices : Dying(d) => Dying(d)'
      BY <2>6 DEF Put, Dying, Calls
    <3>3. \A d \in Devices : deviceConfig[d] # None => HeldBy(d)' = HeldBy(d)
      BY <3>1, OwnConfig DEF HeldBy
    <3>4. QED
      BY <3>1, <3>2, <3>3
  <2>7. CASE ConnReturns(t)
    <3>1. UNCHANGED <<maps, config, port, free>>
      BY <2>7 DEF ConnReturns
    <3>2. \A d \in Devices : Dying(d) => Dying(d)'
      BY <2>7 DEF ConnReturns, Dying, Last
    <3>3. QED
      BY <3>1, <3>2 DEF HeldBy
  <2>8. CASE Disconn(t)
    <3>1. UNCHANGED <<maps, config, port, free>>
      BY <2>8 DEF Disconn
    <3>2. \A d \in Devices : Dying(d) => Dying(d)'
      BY <2>8 DEF Disconn, Dying, Last
    <3>3. QED
      BY <3>1, <3>2 DEF HeldBy
  <2>9. CASE Interrupt(t)
    <3>1. UNCHANGED <<maps, config, port, free>>
      BY <2>9 DEF Interrupt
    <3>2. \A d \in Devices : Dying(d) => Dying(d)'
      BY <2>9 DEF Interrupt, Dying, Last
    <3>3. QED
      BY <3>1, <3>2 DEF HeldBy
  <2>10. CASE Lock(t)
    <3>1. UNCHANGED <<maps, config, port, free>>
      BY <2>10 DEF Lock
    <3>2. \A d \in Devices : Dying(d) => Dying(d)'
      BY <2>10 DEF Lock, Dying, Last
    <3>3. QED
      BY <3>1, <3>2 DEF HeldBy
  <2>11. CASE Destroyed(t)
    <3>1. UNCHANGED <<maps, config, port, free>>
      BY <2>11 DEF Destroyed
    <3>2. \A d \in Devices : Dying(d) => Dying(d)'
      BY <2>11 DEF Destroyed, Dying, Last
    <3>3. QED
      BY <3>1, <3>2 DEF HeldBy
  <2>12. CASE ReleasePort(t)
    <3>1. /\ pc[t] = "release" /\ op[t] = "destroy" /\ sock[t] \in registered /\ Last(t)
          /\ UNCHANGED <<maps, config, port>>
          /\ free' = free \cup ({config[ConfigOf(t)].port} \ {None})
          /\ pc' = [pc EXCEPT ![t] = "get"] /\ UNCHANGED <<op, sock>>
      BY <2>12 DEF ReleasePort, Calls, Last
    <3>2. \A u \in Threads \ {t} : ~(op[u] = "destroy" /\ pc[u] \in {"get", "put", "remove"})
      BY <3>1 DEF Exclusive, Last
    <3>3. \A d \in Devices : ~Dying(d)
      BY <3>1, <3>2 DEF Dying
    <3>4. Dying(device[sock[t]])'
      BY <3>1 DEF Dying
    <3>5. HeldBy(device[sock[t]]) = config[ConfigOf(t)].port /\ device[sock[t]] \in Devices
          /\ deviceConfig[device[sock[t]]] # None
      BY <3>1, OwnConfig DEF HeldBy, ConfigOf
    <3>6. \A d \in Devices : Holding(d)' =>
             Holding(d) /\ d # device[sock[t]] /\ HeldBy(d)' = HeldBy(d)
      BY <3>1, <3>3, <3>4 DEF HeldBy
    <3>7. \A d \in Devices : Holding(d)' => HeldBy(d) \notin free'
      BY <3>1, <3>3, <3>5, <3>6
    <3> HIDE DEF Holding
    <3>8. QED
      BY <3>1, <3>6, <3>7
  <2>13. CASE Remove(t)
    <3>1. /\ sock[t] \in registered /\ Last(t) /\ deviceConfig[device[sock[t]]] = ConfigOf(t)
          /\ config[ConfigOf(t)].device = device[sock[t]]
      BY <2>13, RemovesLast
    <3>2. /\ device' = [device EXCEPT ![sock[t]] = None] /\ UNCHANGED <<config, port, free>>
          /\ deviceConfig' = [deviceConfig EXCEPT ![device[sock[t]]] = None]
          /\ \A u \in Threads \ {t} : pc'[u] = pc[u] /\ op'[u] = op[u] /\ sock'[u] = sock[u]
      BY <2>13, <3>1 DEF Remove
    <3>3. \A d \in Devices : deviceConfig'[d] # None =>
             d # device[sock[t]] /\ deviceConfig'[d] = deviceConfig[d]
      BY <3>2
    <3>4. \A u \in Threads \ {t} : ~(op[u] = "destroy" /\ pc[u] \in {"get", "put", "remove"})
      BY <3>1 DEF Exclusive, Last
    <3>5. \A d \in Devices : Dying(d) => d = device[sock[t]]
      BY <3>4 DEF Dying
    <3>6. \A d \in Devices : Holding(d)' => Holding(d) /\ HeldBy(d)' = HeldBy(d)
      BY <3>2, <3>3, <3>5 DEF HeldBy
    <3> HIDE DEF Holding
    <3>7. QED
      BY <3>2, <3>6
  <2>14. CASE Undefined(t)
    BY <2>14, NeverUndefined
  <2>15. QED
    BY <1>1, <2>1, <2>2, <2>3, <2>4, <2>5, <2>6, <2>7, <2>8, <2>9, <2>10,
       <2>11, <2>12, <2>13, <2>14 DEF Step
<1>2. ASSUME NEW t \in Threads, NEW o \in Ops, NEW s \in Sockets, Begin(t, o, s) PROVE Ports1'
  <2>1. /\ UNCHANGED <<maps, config, port, free>>
        /\ \A u \in Threads \ {t} : pc'[u] = pc[u] /\ op'[u] = op[u] /\ sock'[u] = sock[u]
    BY <1>2 DEF Begin
  <2>2. \A d \in Devices : Dying(d) => Dying(d)'
    BY <1>2, <2>1 DEF Begin, Dying
  <2>3. QED
    BY <2>1, <2>2 DEF HeldBy
<1>3. ASSUME NEW s \in Sockets, NEW d \in Devices, Create(s, d) PROVE Ports1'
  <2>1. CASE deviceConfig[d] # None
    <3> DEFINE k == deviceConfig[d]
               r == [config[k] EXCEPT !.socket = s, !.device = d]
    <3>1. k \in allocated /\ k \in Configs /\ config[k] \in Config /\ config[k].device = d
      BY <2>1, OwnConfig DEF ConfigsLive
    <3>2. /\ r \in Config /\ r.socket = s /\ r.device = d /\ r.port = config[k].port
      BY <3>1 DEF Config
    <3>3. config' = [config EXCEPT ![k] = r]
      BY <1>3, <2>1 DEF Create
    <3> HIDE DEF r
    <3>4. config'[k] = r /\ \A c \in Configs : c # k => config'[c] = config[c]
      BY <3>1, <3>3
    <3>5. /\ sockConfig' = [sockConfig EXCEPT ![s] = k] /\ s \notin registered
          /\ registered' = registered \cup {s} /\ device' = [device EXCEPT ![s] = d]
          /\ UNCHANGED <<thread, registry, free, deviceConfig, allocated>>
      BY <1>3, <2>1 DEF Create
    <3>6. \A e \in Devices : deviceConfig[e] # None => HeldBy(e)' = HeldBy(e)
      BY <3>1, <3>2, <3>4, <3>5, OwnConfig DEF HeldBy
    <3>7. \A u \in Threads : op[u] = "destroy" /\ pc[u] \in {"get", "put", "remove"} =>
             sock[u] # s
      BY <3>5 DEF Calls
    <3>8. \A e \in Devices : Dying(e) => Dying(e)'
      BY <3>5, <3>7 DEF Dying
    <3>9. \A e \in Devices : Holding(e)' => Holding(e) /\ HeldBy(e)' = HeldBy(e)
      BY <3>5, <3>6, <3>8
    <3> HIDE DEF Holding
    <3>10. QED
      BY <3>5, <3>9
  <2>2. CASE deviceConfig[d] = None
    <3> DEFINE r == [socket |-> s, device |-> d, port |-> None, connected |-> FALSE]
    <3>1. r \in Config
      BY DEF Config
    <3>2. PICK c \in Configs : /\ Fresh(c) /\ allocated' = allocated \cup {c}
                               /\ config' = [config EXCEPT ![c] = r]
                               /\ sockConfig' = [sockConfig EXCEPT ![s] = c]
                               /\ deviceConfig' = [deviceConfig EXCEPT ![d] = c]
      BY <1>3, <2>2 DEF Create
    <3>3. /\ registered' = registered \cup {s} /\ device' = [device EXCEPT ![s] = d]
          /\ s \notin registered /\ UNCHANGED <<thread, registry, free>>
      BY <1>3 DEF Create
    <3>4. \A e \in Devices : deviceConfig[e] # c
      BY <3>2, OwnConfig DEF Fresh
    <3>5. \A e \in Devices : deviceConfig'[e] # None =>
             \/ HeldBy(e)' = None
             \/ deviceConfig'[e] = deviceConfig[e] /\ HeldBy(e)' = HeldBy(e)
      BY <3>2, <3>4, OwnConfig DEF HeldBy
    <3>6. \A u \in Threads : op[u] = "destroy" /\ pc[u] \in {"get", "put", "remove"} =>
             sock[u] # s
      BY <3>3 DEF Calls
    <3>7. \A e \in Devices : Dying(e) => Dying(e)'
      BY <3>3, <3>6 DEF Dying
    <3>8. \A e \in Devices : Holding(e)' => Holding(e) /\ HeldBy(e)' = HeldBy(e)
      BY <3>5, <3>7
    <3> HIDE DEF Holding
    <3>9. QED
      BY <3>3, <3>8
  <2>3. QED
    BY <2>1, <2>2
<1>4. ASSUME NEW d \in Devices, CreateConfig(d) \/ RemoveUnusedConfig(d) PROVE Ports1'
  <2>1. UNCHANGED <<thread, device, free>>
    BY <1>4 DEF CreateConfig, RemoveUnusedConfig
  <2>2. \A e \in Devices : deviceConfig'[e] # None =>
           \/ HeldBy(e)' = None
           \/ deviceConfig'[e] = deviceConfig[e] /\ HeldBy(e)' = HeldBy(e)
    <3>1. CASE CreateConfig(d)
      <4>0. PICK c \in Configs : /\ Fresh(c) /\ deviceConfig' = [deviceConfig EXCEPT ![d] = c]
                                 /\ config' = [config EXCEPT ![c] = [socket |-> None, device |-> d,
                                                          port |-> None, connected |-> FALSE]]
        BY <3>1 DEF CreateConfig
      <4>1. config'[c].port = None /\ \A k \in Configs \ {c} : config'[k] = config[k]
        BY <4>0
      <4>2. \A e \in Devices : deviceConfig[e] # c
        BY <4>0, OwnConfig DEF Fresh
      <4>3. QED
        BY <4>0, <4>1, <4>2, OwnConfig DEF HeldBy
    <3>2. CASE RemoveUnusedConfig(d)
      BY <3>2 DEF RemoveUnusedConfig, HeldBy
    <3>3. QED
      BY <1>4, <3>1, <3>2
  <2>3. \A e \in Devices : Dying(e) => Dying(e)'
    BY <2>1 DEF Dying
  <2>4. \A e \in Devices : Holding(e)' => Holding(e) /\ HeldBy(e)' = HeldBy(e)
    BY <2>2, <2>3
  <2> HIDE DEF Holding
  <2>5. QED
    BY <2>1, <2>4
<1>5. CASE UNCHANGED vars
  BY <1>5 DEF HeldBy, Dying
<1>6. QED
  BY <1>1, <1>2, <1>3, <1>4, <1>5 DEF Next

LEMMA NextOrphans ==
    ASSUME Next
    PROVE  orphans \subseteq orphans'
<1>1. ASSUME NEW t \in Threads, Step(t) PROVE orphans \subseteq orphans'
  <2>1. CASE Remove(t)
    BY <2>1 DEF Remove
  <2>2. CASE ~Remove(t)
    BY <1>1, <2>2 DEF Step, Test, AcquirePort, PutPort, Dial, Get, Put, ConnReturns, Disconn,
                      Interrupt, Lock, Destroyed, ReleasePort, Undefined
  <2>3. QED
    BY <2>1, <2>2
<1>2. QED
  BY <1>1 DEF Next, Begin, Create, CreateConfig, RemoveUnusedConfig

LEMMA Inductive == Spec => []IInv
<1>1. IInv /\ [Next]_vars => IInv'
  <2>1. CASE Next
    <3> USE <2>1 DEF IInv
    <3>1. ASSUME IInv PROVE CallsInv'
      BY <3>1, NextType, NextCalls, NextExclusive, NextHeld, NextConfigured DEF CallsInv
    <3>2. ASSUME IInv, orphans' # {}
          PROVE  (ConfigsLive /\ Copied /\ InHand /\ PortsExclusive)'
      BY <3>2 DEF ConfigsLive, Copied, InHand, PortsExclusive
    <3>3. ASSUME IInv, orphans' = {}
          PROVE  (ConfigsLive /\ Copied /\ InHand /\ PortsExclusive)'
      <4>1. orphans = {}
        BY <3>3, NextOrphans
      <4>2. Ports1
        BY <3>3, <4>1, PortsParts
      <4>3. Ports1' => PortsExclusive'
        BY DEF PortsExclusive, Ports1, Holding, HeldBy, Dying
      <4>4. QED
        BY <3>3, <4>1, <4>2, <4>3, NextLive, NextCopied, NextInHand, NextPorts
    <3>4. QED
      BY <3>1, <3>2, <3>3
  <2>2. CASE UNCHANGED vars
    BY <2>2 DEF IInv, CallsInv, TypeOK, Calls, Exclusive, Last, Held, Configured, Current, Copied,
                ConfigOf, ConfigsLive, Defined, InHand, PortsExclusive
  <2>3. QED
    BY <2>1, <2>2
<1>2. QED
  BY InitInv, <1>1, PTL DEF Spec
-----------------------------------------------------------------------------
(* The registry's maps, configurations and ports keep their types, also    *)
(* when methods write back copies and sockets of a device share one.       *)
THEOREM TypeCorrect == Spec => []TypeOK
<1>1. IInv => TypeOK
  BY DEF IInv, CallsInv
<1>2. QED
  BY <1>1, Inductive, PTL

(* Until a socket is destroyed with another one of its device open, both   *)
(* maps lead to configurations that exist, no copy written back undoes     *)
(* that, and no call uses a deleted one.                                   *)
THEOREM ConfigsCorrect == Spec => []ConfigsLive
<1>1. IInv => ConfigsLive
  BY DEF IInv
<1>2. QED
  BY <1>1, Inductive, PTL

(* As long, AddLocalPort() and ReleaseLocalPort() never give a port to two *)
(* devices.                                                                *)
THEOREM PortsCorrect == Spec => []PortsExclusive
<1>1. IInv => PortsExclusive
  BY DEF IInv
<1>2. QED
  BY <1>1, Inductive, PTL
=============================================================================
