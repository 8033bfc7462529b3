------------------------- MODULE OutputSocket_proofs -------------------------
(***************************************************************************)
(* Proofs about OutputSocket, for any descriptors, settings and device     *)
(* tables.                                                                 *)
(***************************************************************************)
EXTENDS OutputSocket, TLAPS

USE FdsAssumption, FailuresAssumption, SettingsAssumption, TablesAssumption

-----------------------------------------------------------------------------
(* Types.  TypeOK says of setup what its labels promise; the proof needs   *)
(* the whole record.                                                       *)

Interfaces == [name : STRING, vlan : Nat]
Ips == {s.ip_address : s \in Settings}
Locals == [sock : Fds, addr : {INADDR_ANY} \cup {Octets(ip) : ip \in Ips}]

Openings ==
    [at : {"device", "ttl"}, iface : Interfaces, ip : Ips, multi : BOOLEAN,
     local : Locals, devs : Seq(Devices)]

Setups ==
    {Idle} \cup [at : {"choose"}, name : STRING]
        \cup [at : {"socket"}, iface : Interfaces, ip : Ips, multi : BOOLEAN]
        \cup [at : {"enum"}, iface : Interfaces, ip : Ips, multi : BOOLEAN, local : Locals]
        \cup Openings
        \cup [at : {"hand"}, todo : SUBSET Processors]
        \cup [at : {"close"}]

Types ==
    /\ network_settings \in Settings
    /\ started \in BOOLEAN
    /\ m_connection \in Connections
    /\ given \in [Processors -> [connection : Connections, vlan : {s.vlan : s \in Settings} \cup {0}]]
    /\ setup \in Setups
    /\ file \in [Fds -> {Free, Other} \cup Socket]

LEMMA TypesImplyTypeOK == Types => TypeOK
  <1> SUFFICES ASSUME Types PROVE TypeOK
    OBVIOUS
  <1>1. setup.at \in SetupLabels
    BY DEF Types, Setups, Openings, SetupLabels, Idle
  <1>2. setup.at \in {"enum", "device", "ttl"} => setup.local \in Locals
    BY DEF Types, Setups, Openings, Idle
  <1>3. ASSUME NEW c \in Locals PROVE c \in Connections /\ c.sock # -1
    BY DEF Locals, Connections, Ips
  <1> QED BY <1>1, <1>2, <1>3 DEF Types, TypeOK

LEMMA InitTyped == Init => Types
  <1> SUFFICES ASSUME Init PROVE Types
    OBVIOUS
  <1>1. Zeroed \in Connections
    BY DEF Zeroed, Connections
  <1>2. setup \in Setups
    BY DEF Init, Setups
  <1> QED BY <1>1, <1>2 DEF Init, Types

\* What a call of close() leaves of the files.
LEMMA ClosedTyped ==
  ASSUME NEW fd, file \in [Fds -> {Free, Other} \cup Socket]
  PROVE  Closed(fd) \in [Fds -> {Free, Other} \cup Socket]
  BY DEF Closed

LEMMA LocalsAreConnections == Locals \subseteq Connections
  BY DEF Locals, Connections, Ips

\* The address TryDevice assigns is one of those there are.
LEMMA AddressedTyped ==
  ASSUME Types, setup.at = "device"
  PROVE  Addressed \in Locals /\ Addressed.sock = setup.local.sock
  <1>1. setup.local \in Locals /\ setup.ip \in Ips
    BY DEF Types, Setups, Openings, Idle
  <1> QED BY <1>1, ZenonT(40) DEF Addressed, Locals

LEMMA OpeningsTyped ==
  ASSUME Types, setup.at \in {"device", "ttl"}
  PROVE  setup \in Openings
  BY DEF Types, Setups, Idle, Openings

LEMMA DevicesTyped ==
  ASSUME Types, setup.at = "device", setup.devs # <<>>, NEW local \in Locals
  PROVE  /\ NextDevice(local) => setup' \in Openings /\ setup'.at = "device"
         /\ Opened(local) => setup' \in Openings /\ setup'.at = "ttl"
         /\ NextDevice(local) \/ Opened(local) => setup'.local = local
  <1>1. setup \in Openings
    BY OpeningsTyped
  <1>2. Tail(setup.devs) \in Seq(Devices) /\ <<>> \in Seq(Devices)
    BY <1>1 DEF Openings
  <1>3. ASSUME NextDevice(local)
        PROVE  setup' \in Openings /\ setup'.at = "device" /\ setup'.local = local
    BY <1>1, <1>2, <1>3, ZenonT(40) DEF NextDevice, Openings
  <1>4. ASSUME Opened(local)
        PROVE  setup' \in Openings /\ setup'.at = "ttl" /\ setup'.local = local
    BY <1>1, <1>2, <1>4, ZenonT(40) DEF Opened, Openings
  <1> QED BY <1>3, <1>4

-----------------------------------------------------------------------------
LEMMA TypesInductive == Types /\ [Next]_vars => Types'
  <1> SUFFICES ASSUME Types, [Next]_vars PROVE Types'
    OBVIOUS
  <1> USE DEF Types
  <1>1. ASSUME NEW request \in Settings, set_network_settings_struct(request) PROVE Types'
    BY <1>1 DEF set_network_settings_struct
  <1>2. CASE OtherOpens
    BY <1>2 DEF OtherOpens
  <1>3. CASE OtherCloses
    BY <1>3, ClosedTyped DEF OtherCloses
  <1>4. CASE Start
    <2>1. Zeroed \in Connections
      BY DEF Zeroed, Connections
    <2>2. setup' \in Setups
      BY <1>4 DEF Start, Setups
    <2> QED BY <1>4, <2>1, <2>2 DEF Start
  <1>5. CASE ChooseServer
    <2>1. setup.name \in STRING
      BY <1>5 DEF ChooseServer, Setups, Openings, Idle
    <2>2. network_settings.vlan \in Nat /\ network_settings.ip_address \in Ips
      BY DEF Ips
    <2>3. IsMulticast(network_settings.ip_address) \in BOOLEAN
      BY DEF IsMulticast
    <2>4. setup' \in [at : {"socket"}, iface : Interfaces, ip : Ips, multi : BOOLEAN]
      BY <1>5, <2>1, <2>2, <2>3 DEF ChooseServer, Interfaces
    <2> QED BY <1>5, <2>4 DEF ChooseServer, Setups
  <1>6. CASE Create
    <2>1. CASE Throw
      BY <2>1 DEF Throw, Setups
    <2>2. ASSUME NEW fd \in Fds, LowestFree(fd), file' = [file EXCEPT ![fd] = "unbound"],
                 SocketMade(fd), UNCHANGED <<network_settings, started, m_connection, given>>
          PROVE  Types'
      <3>1. setup \in [at : {"socket"}, iface : Interfaces, ip : Ips, multi : BOOLEAN]
        BY <1>6 DEF Create, Setups, Openings, Idle
      <3>2. [sock |-> fd, addr |-> INADDR_ANY] \in Locals
        BY DEF Locals
      <3>3. setup' \in Setups
        BY <2>2, <3>1, <3>2 DEF SocketMade, Setups
      <3>4. file' \in [Fds -> {Free, Other} \cup Socket]
        BY <2>2 DEF Socket
      <3> QED BY <2>2, <3>3, <3>4
    <2> QED BY <1>6, <2>1, <2>2 DEF Create
  <1>7. CASE Enumerate
    <2>1. CASE Throw
      BY <2>1 DEF Throw, Setups
    <2>2. ASSUME NEW table \in DeviceTables,
                 setup' = [at |-> "device", iface |-> setup.iface, ip |-> setup.ip,
                           multi |-> setup.multi, local |-> setup.local, devs |-> table],
                 UNCHANGED <<network_settings, started, m_connection, given, file>>
          PROVE  Types'
      <3>1. setup \in [at : {"enum"}, iface : Interfaces, ip : Ips, multi : BOOLEAN, local : Locals]
        BY <1>7 DEF Enumerate, Setups, Openings, Idle
      <3>2. setup' \in Openings
        BY <2>2, <3>1 DEF Openings
      <3> QED BY <2>2, <3>2 DEF Setups
    <2> QED BY <1>7, <2>1, <2>2 DEF Enumerate
  <1>8. CASE TryDevice
    <2>1. setup.local \in Locals /\ Addressed \in Locals
      BY <1>8, OpeningsTyped, AddressedTyped DEF TryDevice, Openings
    <2>2. setup' \in Openings
      BY <1>8, <2>1, DevicesTyped DEF TryDevice
    <2>3. file' \in [Fds -> {Free, Other} \cup Socket]
      BY <1>8 DEF TryDevice, Socket
    <2> QED BY <1>8, <2>2, <2>3 DEF TryDevice, Setups
  <1>9. CASE NoDevice
    <2>1. setup.local \in Locals
      BY <1>9, OpeningsTyped DEF NoDevice, Openings
    <2>2. [setup.local EXCEPT !.sock = -1] \in Connections
      BY <2>1, LocalsAreConnections, ZenonT(40) DEF Connections
    <2> QED BY <1>9, <2>2, ClosedTyped DEF NoDevice, Setups
  <1>10. CASE SetTtl
    <2>1. setup.local \in Connections
      BY <1>10, OpeningsTyped, LocalsAreConnections DEF SetTtl, Openings
    <2> QED BY <1>10, <2>1 DEF SetTtl, Throw, Setups
  <1>11. CASE HandOver
    <2>1. setup \in [at : {"hand"}, todo : SUBSET Processors]
      BY <1>11 DEF HandOver, Setups, Openings, Idle
    <2>2. setup' \in [at : {"hand"}, todo : SUBSET Processors]
      BY <1>11, <2>1 DEF HandOver
    <2>3. given' \in [Processors -> [connection : Connections,
                                    vlan : {s.vlan : s \in Settings} \cup {0}]]
      BY <1>11, <2>1 DEF HandOver
    <2> QED BY <1>11, <2>2, <2>3 DEF HandOver, Setups
  <1>12. CASE Started
    BY <1>12 DEF Started, Setups
  <1>13. CASE Stop
    BY <1>13 DEF Stop, Setups
  <1>14. CASE CloseSocket
    <2>1. Zeroed \in Connections
      BY DEF Zeroed, Connections
    <2> QED BY <1>14, <2>1, ClosedTyped DEF CloseSocket, Setups
  <1>15. CASE UNCHANGED vars
    BY <1>15 DEF vars
  <1> QED
    BY <1>1, <1>2, <1>3, <1>4, <1>5, <1>6, <1>7, <1>8, <1>9, <1>10, <1>11, <1>12, <1>13,
       <1>14, <1>15 DEF Next

LEMMA SpecTyped == Spec => []Types
  BY InitTyped, TypesInductive, PTL DEF Spec

\* Every variable keeps its type, and a socket that is worked on is never -1: the failure
\* of socket() is noticed (multicast.cpp:41, unicast.cpp:53).
THEOREM SocketTypeCorrect == Spec => []TypeOK
  BY SpecTyped, TypesImplyTypeOK, PTL

-----------------------------------------------------------------------------
(* Which socket is whose.                                                  *)

Opening == {"choose", "socket", "enum", "device", "ttl"}

\* The standard streams are never closed.
StandardOpen == \A fd \in StandardFds : file[fd] = Other

\* While setupSocket() runs the component has no connection, and the socket is a local.
LocalIsOwn ==
    /\ setup.at \in Opening => ~started /\ m_connection = Zeroed
    /\ setup.at \in {"enum", "device", "ttl"} => setup.local.sock \in Own

\* The connection is an open socket from setupSocket() to stop(), and none otherwise.
ConnectionIsOwn ==
    /\ setup.at = "hand" =>
          /\ ~started
          /\ m_connection.sock \in Own
          /\ \A p \in Processors \ setup.todo : given[p].connection = m_connection
    /\ setup.at = "close" => ~started /\ m_connection.sock \in {0, -1} \cup Own
    /\ setup.at = "idle" /\ ~started => m_connection.sock \in {0, -1}

SockInv == StandardOpen /\ LocalIsOwn /\ ConnectionIsOwn /\ ConnectedWhenStarted

LEMMA InitSock == Init => SockInv
  BY DEF Init, SockInv, StandardOpen, LocalIsOwn, ConnectionIsOwn, ConnectedWhenStarted,
         Opening, Idle, Zeroed

\* A step that leaves the sockets of the component alone keeps its own sockets.
LEMMA OwnKept ==
  ASSUME Types, NEW fd \in Fds, NEW f \in {Free, Other}, file[fd] \notin Socket,
         file' = [file EXCEPT ![fd] = f]
  PROVE  Own' = Own
  BY DEF Types, Own, Socket, Free, Other

LEMMA StandardKept ==
  ASSUME Types, StandardOpen, NEW fd \in Fds, file[fd] # Other, file' = Closed(fd)
  PROVE  StandardOpen'
  BY DEF Types, StandardOpen, Closed

LEMMA SockInductive == Types /\ Types' /\ SockInv /\ [Next]_vars => SockInv'
  <1> SUFFICES ASSUME Types, Types', SockInv, [Next]_vars PROVE SockInv'
    OBVIOUS
  <1> USE DEF SockInv, LocalIsOwn, ConnectionIsOwn, ConnectedWhenStarted, Opening
  <1>1. ASSUME NEW request \in Settings, set_network_settings_struct(request) PROVE SockInv'
    BY <1>1 DEF set_network_settings_struct, StandardOpen, Own
  <1>2. CASE OtherOpens
    <2>1. PICK fd \in Fds : LowestFree(fd) /\ file' = [file EXCEPT ![fd] = Other]
      BY <1>2 DEF OtherOpens
    <2>2. Own' = Own
      BY <2>1, OwnKept DEF LowestFree, Socket, Free
    <2>3. StandardOpen'
      BY <2>1 DEF StandardOpen, Types
    <2> QED BY <1>2, <2>2, <2>3 DEF OtherOpens
  <1>3. CASE OtherCloses
    <2>1. PICK fd \in Fds \ StandardFds : file[fd] = Other /\ file' = Closed(fd)
      BY <1>3 DEF OtherCloses
    <2>2. file' = [file EXCEPT ![fd] = Free]
      BY <2>1 DEF Closed, Types
    <2>3. Own' = Own
      BY <2>1, <2>2, OwnKept DEF Socket, Other
    <2>4. StandardOpen'
      BY <2>1, <2>2 DEF StandardOpen, Types
    <2> QED BY <1>3, <2>3, <2>4 DEF OtherCloses
  <1>4. CASE Start
    BY <1>4 DEF Start, StandardOpen, Own, Idle, Zeroed
  <1>5. CASE ChooseServer
    BY <1>5 DEF ChooseServer, StandardOpen, Own
  <1>6. CASE Throw /\ setup.at \in Opening
    BY <1>6 DEF Throw, StandardOpen, Own, Idle, Zeroed
  <1>7. CASE Create
    <2>1. ASSUME NEW fd \in Fds, LowestFree(fd), file' = [file EXCEPT ![fd] = "unbound"],
                 SocketMade(fd), UNCHANGED <<network_settings, started, m_connection, given>>
          PROVE  SockInv'
      <3>1. fd \in Own' /\ setup'.at = "enum" /\ setup'.local.sock = fd
        BY <2>1 DEF SocketMade, Own, Socket, Types
      <3>2. StandardOpen'
        BY <2>1 DEF LowestFree, StandardOpen, Types, Free, Other
      <3>3. ~started /\ m_connection = Zeroed
        BY <1>7 DEF Create
      <3> QED BY <2>1, <3>1, <3>2, <3>3
    <2> QED BY <1>6, <1>7, <2>1 DEF Create
  <1>8. CASE Enumerate
    BY <1>6, <1>8 DEF Enumerate, StandardOpen, Own
  <1>9. CASE TryDevice
    <2>1. setup.local.sock \in Own /\ ~started /\ m_connection = Zeroed
      BY <1>9 DEF TryDevice
    <2>2. /\ setup'.local.sock = setup.local.sock
          /\ setup'.at \in {"device", "ttl"}
      BY <1>9, DevicesTyped, OpeningsTyped, AddressedTyped DEF TryDevice, Openings
    <2>3. \A fd \in Fds :
             \/ file'[fd] = file[fd]
             \/ file[fd] \in Socket /\ file'[fd] \in Socket
      BY <1>9 DEF TryDevice, Types, Socket
    <2>4. StandardOpen' /\ setup.local.sock \in Own'
      BY <2>1, <2>3 DEF StandardOpen, Own, Socket, Other
    <2> QED BY <1>9, <2>1, <2>2, <2>4 DEF TryDevice
  <1>10. CASE NoDevice
    <2>1. setup.local.sock \in Own
      BY <1>10 DEF NoDevice
    <2>2. StandardOpen'
      BY <1>10, <2>1, StandardKept DEF NoDevice, Own, Socket, Other
    <2>3. m_connection'.sock = -1
      BY <1>10, OpeningsTyped DEF NoDevice, Openings, Locals
    <2> QED BY <1>10, <2>2, <2>3 DEF NoDevice, Idle
  <1>11. CASE SetTtl
    BY <1>6, <1>11 DEF SetTtl, StandardOpen, Own
  <1>12. CASE HandOver
    <2>1. PICK p \in setup.todo :
             /\ given' = [given EXCEPT ![p] = [connection |-> m_connection,
                                               vlan |-> network_settings.vlan]]
             /\ setup' = [setup EXCEPT !.todo = @ \ {p}]
      BY <1>12 DEF HandOver
    <2>2. setup \in [at : {"hand"}, todo : SUBSET Processors]
      BY <1>12 DEF HandOver, Types, Setups, Openings, Idle
    <2>3. setup'.at = "hand" /\ setup'.todo = setup.todo \ {p}
      BY <2>1, <2>2
    <2>4. \A q \in Processors \ setup'.todo : given'[q].connection = m_connection
      BY <1>12, <2>1, <2>2, <2>3 DEF HandOver, Types
    <2> QED BY <1>12, <2>3, <2>4 DEF HandOver, StandardOpen, Own
  <1>13. CASE Started
    BY <1>13 DEF Started, StandardOpen, Own, Idle
  <1>14. CASE Stop
    BY <1>14 DEF Stop, StandardOpen, Own, Idle
  <1>15. CASE CloseSocket
    <2>1. m_connection.sock \in {0, -1} \cup Own
      BY <1>15 DEF CloseSocket
    <2>2. StandardOpen'
      <3>1. CASE m_connection.sock \in Own
        <4>1. m_connection.sock \in Fds /\ file[m_connection.sock] # Other
          BY <3>1 DEF Own, Socket, Other
        <4>2. CASE file' = Closed(m_connection.sock)
          BY <4>1, <4>2, StandardKept DEF SockInv
        <4>3. CASE UNCHANGED file
          BY <4>3 DEF StandardOpen
        <4> QED BY <1>15, <4>2, <4>3 DEF CloseSocket
      <3>2. CASE m_connection.sock \in {0, -1}
        <4>1. -1 \notin Fds
          OBVIOUS
        <4>2. \A fd \in Fds : m_connection.sock # 0 => Closed(m_connection.sock)[fd] = file[fd]
          BY <3>2, <4>1 DEF Closed
        <4> QED BY <1>15, <4>2 DEF CloseSocket, StandardOpen
      <3> QED BY <2>1, <3>1, <3>2
    <2> QED BY <1>15, <2>2 DEF CloseSocket, Idle, Zeroed
  <1>16. CASE UNCHANGED vars
    BY <1>16 DEF vars, StandardOpen, Own
  <1> QED
    BY <1>1, <1>2, <1>3, <1>4, <1>5, <1>7, <1>8, <1>9, <1>10, <1>11, <1>12, <1>13, <1>14,
       <1>15, <1>16 DEF Next

LEMMA SpecSock == Spec => [](Types /\ SockInv)
  <1>1. Init => Types /\ SockInv
    BY InitTyped, InitSock
  <1>2. Types /\ SockInv /\ [Next]_vars => (Types /\ SockInv)'
    BY TypesInductive, SockInductive
  <1> QED BY <1>1, <1>2, PTL DEF Spec

\* A started component and all its processors have the same open socket: start() goes on
\* only with the descriptor of one (SinkSDDS.cpp:332-351).
THEOREM ConnectedWhenStartedHolds == Spec => []ConnectedWhenStarted
  BY SpecSock, PTL DEF SockInv

-----------------------------------------------------------------------------
(* What start() and stop() close and lose.                                 *)

\* 0 and -1 are no sockets of the component.
LEMMA NoSocket == Types /\ SockInv => 0 \notin Own /\ -1 \notin Own
  BY DEF SockInv, StandardOpen, Own, Socket, Other

\* close() is called of the component's own sockets, or of -1.
LEMMA ClosedKeepsOthers ==
  ASSUME Types, NEW fd \in Own \cup {-1}, file' = Closed(fd)
  PROVE  /\ \A e \in Fds : file[e] = Other => file'[e] = Other
         /\ fd \notin Own'
  <1>1. -1 \notin Fds
    OBVIOUS
  <1> QED BY <1>1 DEF Types, Closed, Own, Socket, Other, Free

LEMMA StepKeepsOthers ==
  ASSUME Types, SockInv, [Next]_vars, setup' # setup, NEW e \in Fds, file[e] = Other
  PROVE  file'[e] = Other
  <1>1. ASSUME NEW request \in Settings, set_network_settings_struct(request) PROVE FALSE
    BY <1>1 DEF set_network_settings_struct
  <1>2. CASE OtherOpens \/ OtherCloses
    BY <1>2 DEF OtherOpens, OtherCloses
  <1>3. CASE Start \/ ChooseServer \/ Enumerate \/ SetTtl \/ HandOver \/ Started \/ Stop
    BY <1>3 DEF Start, ChooseServer, Enumerate, SetTtl, Throw, HandOver, Started, Stop
  <1>4. CASE Create
    BY <1>4 DEF Create, Throw, LowestFree, Types, Free, Other
  <1>5. CASE TryDevice
    BY <1>5 DEF TryDevice, Types, Other
  <1>6. CASE NoDevice
    BY <1>6, ClosedKeepsOthers DEF NoDevice, SockInv, LocalIsOwn
  <1>7. CASE CloseSocket
    <2>1. m_connection.sock \in {0, -1} \cup Own
      BY <1>7 DEF CloseSocket, SockInv, ConnectionIsOwn
    <2> QED BY <1>7, <2>1, ClosedKeepsOthers DEF CloseSocket
  <1>8. CASE UNCHANGED vars
    BY <1>8 DEF vars
  <1> QED BY <1>1, <1>2, <1>3, <1>4, <1>5, <1>6, <1>7, <1>8 DEF Next

\* A descriptor that is closed twice would by then be somebody else's: stop() clears the
\* connection when it has closed the socket (SinkSDDS.cpp:374-377).
THEOREM ForeignFilesKeptHolds == Spec => ForeignFilesKept
  <1>1. Types /\ SockInv /\ [Next]_vars
          => [setup' # setup => \A fd \in Fds : file[fd] = Other => file'[fd] = Other]_vars
    BY StepKeepsOthers
  <1> QED BY <1>1, SpecSock, PTL DEF Spec, ForeignFilesKept

\* Whether a socket the component still has is still within reach.
Kept(fd) == fd \in Own' => fd \in Held' \/ (setup.at \in {"enum", "ttl"} /\ setup' = Idle)

LEMMA StepKeepsHeld ==
  ASSUME Types, SockInv, [Next]_vars, NEW fd \in Own \cap Held
  PROVE  Kept(fd)
  <1>1. fd # 0 /\ fd # -1
    BY NoSocket
  <1>2. \/ setup.at \in {"enum", "device", "ttl"} /\ fd = setup.local.sock
        \/ fd = m_connection.sock
    BY DEF Held
  <1>3. setup.at \in Opening => m_connection.sock = 0
    BY DEF SockInv, LocalIsOwn, Zeroed
  <1>4. ASSUME NEW request \in Settings, set_network_settings_struct(request) PROVE Kept(fd)
    BY <1>4 DEF set_network_settings_struct, Kept, Held
  <1>5. CASE OtherOpens \/ OtherCloses
    BY <1>5 DEF OtherOpens, OtherCloses, Kept, Held
  <1>6. CASE Start
    <2>1. m_connection.sock \in {0, -1} /\ setup.at = "idle"
      BY <1>6 DEF Start, SockInv, ConnectionIsOwn, Idle
    <2> QED BY <1>1, <1>2, <2>1
  <1>7. CASE ChooseServer \/ Create
    <2>1. setup.at \in {"choose", "socket"}
      BY <1>7 DEF ChooseServer, Create
    <2> QED BY <1>1, <1>2, <1>3, <2>1 DEF Opening
  <1>8. CASE Enumerate
    BY <1>1, <1>2, <1>3, <1>8 DEF Enumerate, Throw, Kept, Held, Opening
  <1>9. CASE TryDevice
    <2>1. setup'.at \in {"device", "ttl"} /\ setup'.local.sock = setup.local.sock
      BY <1>9, DevicesTyped, OpeningsTyped, AddressedTyped DEF TryDevice, Openings
    <2>2. fd = setup.local.sock
      BY <1>1, <1>2, <1>3, <1>9 DEF TryDevice, Opening
    <2> QED BY <2>1, <2>2 DEF Kept, Held
  <1>10. CASE NoDevice
    <2>1. fd = setup.local.sock
      BY <1>1, <1>2, <1>3, <1>10 DEF NoDevice, Opening
    <2> QED BY <1>10, <2>1, ClosedKeepsOthers DEF NoDevice, Kept
  <1>11. CASE SetTtl
    <2>1. fd = setup.local.sock
      BY <1>1, <1>2, <1>3, <1>11 DEF SetTtl, Opening
    <2> QED BY <1>1, <1>11, <2>1 DEF SetTtl, Throw, Kept, Held
  <1>12. CASE HandOver \/ Started \/ Stop
    <2>1. fd = m_connection.sock /\ UNCHANGED m_connection
      BY <1>2, <1>12 DEF HandOver, Started, Stop, Idle
    <2> QED BY <1>1, <2>1 DEF Kept, Held
  <1>13. CASE CloseSocket
    <2>1. fd = m_connection.sock
      BY <1>2, <1>13 DEF CloseSocket
    <2> QED BY <1>1, <1>13, <2>1, ClosedKeepsOthers DEF CloseSocket, Kept
  <1>14. CASE UNCHANGED vars
    BY <1>14 DEF vars, Kept, Held
  <1> QED
    BY <1>4, <1>5, <1>6, <1>7, <1>8, <1>9, <1>10, <1>11, <1>12, <1>13, <1>14 DEF Next

\* A socket that start() has opened stays within the reach of stop(), or of the call that
\* opened it, until it is closed; an exception in setupSocket() alone loses one.
THEOREM LostOnlyByThrowHolds == Spec => LostOnlyByThrow
  <1>1. Types /\ SockInv /\ [Next]_vars
          => [\A fd \in Own \cap Held :
                fd \in Own' => fd \in Held' \/ (setup.at \in {"enum", "ttl"} /\ setup' = Idle)]_vars
    BY StepKeepsHeld DEF Kept
  <1> QED BY <1>1, SpecSock, PTL DEF Spec, LostOnlyByThrow

=============================================================================
