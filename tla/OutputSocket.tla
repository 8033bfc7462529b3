---------------------------- MODULE OutputSocket ----------------------------
(***************************************************************************)
(* The output socket of the component: network_settings and its setter,    *)
(* setupSocket() with multicast_server() and unicast_server() below it,    *)
(* the hand-over of the connection to the processors, and stop() closing   *)
(* it.  Descriptors belong to the whole process: the lowest free one is    *)
(* allotted, and one that was closed comes back as somebody else's file.   *)
(*                                                                         *)
(* start() is cut at the system calls that may fail and where it reads     *)
(* network_settings again.  What start() and stop() do to the processing   *)
(* threads is the subject of SinkSDDS.                                     *)
(***************************************************************************)
EXTENDS Integers, Sequences, SequencesExt

CONSTANTS
    Fds,           \* bound: the descriptors of the process
    StandardFds,   \* those of the standard streams, open from first to last
    Settings,      \* values of network_settings that are configured
    DeviceTables,  \* what SIOCGIFCONF may return: sequences of devices
    LateFailures,  \* TRUE when a call after socket() and outside the loop over the
                   \* devices may fail: VERIFY_ERR throws there
    SetterRaces    \* TRUE when the setter may run while start() does

Devices ==
    [name : STRING, vlan : Nat, up : BOOLEAN, multicast : BOOLEAN, loopback : BOOLEAN]

\* 0 stands for no socket in the code: it must be a file of the process already.
ASSUME FdsAssumption == Fds \subseteq Nat /\ StandardFds \subseteq Fds /\ 0 \in StandardFds
ASSUME SettingsAssumption ==
    Settings \subseteq [interface : STRING, vlan : Nat, ip_address : Seq(0 .. 255)]
ASSUME TablesAssumption == DeviceTables \subseteq Seq(Devices)
ASSUME FailuresAssumption == LateFailures \in BOOLEAN /\ SetterRaces \in BOOLEAN

VARIABLES
    network_settings,  \* [interface, vlan, ip_address]
    started,           \* the flag of the base class
    m_connection,      \* [sock, addr]
    given,             \* what setConnection() left in each processor: a connection and m_vlan
    setup,             \* how far start() or stop() has got, and its local variables
    file               \* what each descriptor refers to

vars == <<network_settings, started, m_connection, given, setup, file>>

-----------------------------------------------------------------------------
(* Addresses are four octets; no octets is the empty string.               *)

INADDR_ANY == <<0, 0, 0, 0>>
INADDR_NONE == <<255, 255, 255, 255>>

\* What inet_addr() and inet_network() make of an address.
Octets(ip) == IF ip = <<>> THEN INADDR_NONE ELSE ip

Greater(a, b) == \E i \in 1 .. 4 : a[i] > b[i] /\ \A j \in 1 .. (i - 1) : a[j] = b[j]

\* inet_network() yields the number in host order, inet_addr() in network order: on
\* a little-endian host the latter compares the octets from the last to the first.
IsMulticast(ip) ==
    /\ Greater(Octets(ip), <<224, 0, 0, 0>>)
    /\ Greater(<<239, 255, 255, 250>>, Reverse(Octets(ip)))

\* A device is "name" or "name.vlan".  A blank interface takes any device, and with
\* a vlan any device of that vlan.
Matches(iface, d) ==
    \/ iface = [name |-> "", vlan |-> 0]
    \/ d.vlan = iface.vlan /\ (d.name = iface.name \/ iface.name = "")

-----------------------------------------------------------------------------
Processors == {"octet", "short", "float"}
Zeroed == [sock |-> 0, addr |-> INADDR_ANY]

Idle == [at |-> "idle"]
Free == "free"
Other == "other"
Socket == {"unbound", "bound"}
Own == {fd \in Fds : file[fd] \in Socket}
LowestFree(fd) ==
    fd \in Fds /\ file[fd] = Free /\ \A e \in Fds : e < fd => file[e] # Free
Closed(fd) == [f \in Fds |-> IF f = fd THEN Free ELSE file[f]]

Init ==
    /\ network_settings \in Settings
    /\ started = FALSE
    /\ m_connection = Zeroed
    /\ given = [p \in Processors |-> [connection |-> Zeroed, vlan |-> 0]]
    /\ setup = Idle
    /\ file = [fd \in Fds |-> IF fd \in StandardFds THEN Other ELSE Free]

\* Variant: started() is not asked.
set_network_settings_struct_Always(request) ==
    /\ network_settings' = request
    /\ UNCHANGED <<started, m_connection, given, setup, file>>

\* Refused while started() holds.
set_network_settings_struct(request) ==
    /\ ~started
    /\ SetterRaces \/ setup = Idle
    /\ network_settings' = request
    /\ UNCHANGED <<started, m_connection, given, setup, file>>

\* The rest of the process opens and closes files, not the standard streams.
OtherOpens ==
    /\ \E fd \in Fds : LowestFree(fd) /\ file' = [file EXCEPT ![fd] = Other]
    /\ UNCHANGED <<network_settings, started, m_connection, given, setup>>
OtherCloses ==
    /\ \E fd \in Fds \ StandardFds : file[fd] = Other /\ file' = Closed(fd)
    /\ UNCHANGED <<network_settings, started, m_connection, given, setup>>

-----------------------------------------------------------------------------
(* start().                                                                *)

\* Variant: started() is not asked.
Start_Always ==
    /\ setup = Idle
    /\ network_settings.ip_address # <<>>
    /\ m_connection' = Zeroed
    /\ setup' = [at |-> "choose", name |-> network_settings.interface]
    /\ UNCHANGED <<network_settings, started, given, file>>

\* setupSocket() copies the interface, clears m_connection and gives up when there is
\* no address: StartError.
Start ==
    /\ setup = Idle
    /\ ~started
    /\ m_connection' = Zeroed
    /\ \/ /\ network_settings.ip_address # <<>>
          /\ setup' = [at |-> "choose", name |-> network_settings.interface]
       \/ network_settings.ip_address = <<>> /\ UNCHANGED setup
    /\ UNCHANGED <<network_settings, started, given, file>>

\* The vlan is appended to the interface, and the address selects the kind of server.
ChooseServer ==
    /\ setup.at = "choose"
    /\ setup' = [at    |-> "socket",
                 iface |-> [name |-> setup.name, vlan |-> network_settings.vlan],
                 ip    |-> network_settings.ip_address,
                 multi |-> IsMulticast(network_settings.ip_address)]
    /\ UNCHANGED <<network_settings, started, m_connection, given, file>>

\* An exception leaves setupSocket(); start() turns it into a StartError.  Nobody
\* closes the socket.
Throw == setup' = Idle /\ UNCHANGED <<network_settings, started, m_connection, given, file>>

SocketMade(fd) ==
    setup' = [at |-> "enum", iface |-> setup.iface, ip |-> setup.ip, multi |-> setup.multi,
              local |-> [sock |-> fd, addr |-> INADDR_ANY]]

\* Variant: the descriptor is not verified.
Create_Unverified ==
    /\ setup.at = "socket"
    /\ SocketMade(-1)
    /\ UNCHANGED <<network_settings, started, m_connection, given, file>>

Create ==
    /\ setup.at = "socket"
    /\ \/ Throw
       \/ /\ \E fd \in Fds :
                /\ LowestFree(fd)
                /\ file' = [file EXCEPT ![fd] = "unbound"]
                /\ SocketMade(fd)
          /\ UNCHANGED <<network_settings, started, m_connection, given>>

\* SO_REUSEADDR, malloc() and SIOCGIFCONF.
Enumerate ==
    /\ setup.at = "enum"
    /\ \/ LateFailures /\ Throw
       \/ /\ \E table \in DeviceTables :
                setup' = [at |-> "device", iface |-> setup.iface, ip |-> setup.ip,
                          multi |-> setup.multi, local |-> setup.local, devs |-> table]
          /\ UNCHANGED <<network_settings, started, m_connection, given, file>>

NextDevice(local) ==
    setup' = [setup EXCEPT !.devs = Tail(@), !.local = local]

Opened(local) == setup' = [setup EXCEPT !.at = "ttl", !.devs = <<>>, !.local = local]

Usable(d) == d.up /\ (setup.multi => d.multicast /\ ~d.loopback)

\* A blank interface makes a multicast server bind to, and send to, INADDR_ANY.
Addressed ==
    [setup.local EXCEPT !.addr =
        IF setup.multi /\ setup.iface = [name |-> "", vlan |-> 0]
        THEN INADDR_ANY ELSE Octets(setup.ip)]

\* One turn of the loop.  catch(...) goes on with the next device, whatever the failed
\* call left behind: the address, and a bound socket, which cannot be bound again.
TryDevice ==
    /\ setup.at = "device"
    /\ setup.devs # <<>>
    /\ LET d == Head(setup.devs)
           fd == setup.local.sock
           tried == Matches(setup.iface, d) /\ Usable(d)
       IN
       \/ NextDevice(setup.local) /\ UNCHANGED file
       \/ /\ tried /\ ~setup.multi
          /\ Opened(Addressed)
          /\ UNCHANGED file
       \/ /\ tried /\ setup.multi
          /\ NextDevice(Addressed)
          /\ UNCHANGED file
       \/ /\ tried /\ setup.multi /\ file[fd] = "unbound"
          /\ file' = [file EXCEPT ![fd] = "bound"]
          /\ NextDevice(Addressed) \/ Opened(Addressed)
    /\ UNCHANGED <<network_settings, started, m_connection, given>>

\* Variant: start() does not test for the descriptor -1.
NoDevice_Untested ==
    /\ setup.at = "device" /\ setup.devs = <<>>
    /\ file' = Closed(setup.local.sock)
    /\ m_connection' = [setup.local EXCEPT !.sock = -1]
    /\ setup' = [at |-> "hand", todo |-> Processors]
    /\ UNCHANGED <<network_settings, started, given>>

\* No device was accepted: the socket is closed and the descriptor is -1: StartError.
NoDevice ==
    /\ setup.at = "device"
    /\ setup.devs = <<>>
    /\ file' = Closed(setup.local.sock)
    /\ m_connection' = [setup.local EXCEPT !.sock = -1]
    /\ setup' = Idle
    /\ UNCHANGED <<network_settings, started, given>>

\* The time to live, with which multicast_server() and unicast_server() end.
SetTtl ==
    /\ setup.at = "ttl"
    /\ \/ LateFailures /\ Throw
       \/ /\ m_connection' = setup.local
          /\ setup' = [at |-> "hand", todo |-> Processors]
          /\ UNCHANGED <<network_settings, started, given, file>>

\* setConnection(m_connection, network_settings.vlan): octet, short, float.
Order == [octet |-> 1, short |-> 2, float |-> 3]
HandOver ==
    /\ setup.at = "hand"
    /\ \E p \in setup.todo :
          /\ \A q \in setup.todo : Order[p] <= Order[q]
          /\ given' = [given EXCEPT ![p] = [connection |-> m_connection,
                                            vlan |-> network_settings.vlan]]
          /\ setup' = [setup EXCEPT !.todo = @ \ {p}]
    /\ UNCHANGED <<network_settings, started, m_connection, file>>

\* SinkSDDS_base::start(), with which start() ends.
Started ==
    /\ setup.at = "hand"
    /\ setup.todo = {}
    /\ started' = TRUE
    /\ setup' = Idle
    /\ UNCHANGED <<network_settings, m_connection, given, file>>

-----------------------------------------------------------------------------
(* stop(), which the framework may call whether the component is started.  *)

Stop ==
    /\ setup = Idle
    /\ started' = FALSE
    /\ setup' = [at |-> "close"]
    /\ UNCHANGED <<network_settings, m_connection, given, file>>

\* Variant: the connection is not cleared.
CloseSocket_Kept ==
    /\ setup.at = "close"
    /\ file' = IF m_connection.sock # 0 THEN Closed(m_connection.sock) ELSE file
    /\ setup' = Idle
    /\ UNCHANGED <<network_settings, started, m_connection, given>>

\* A descriptor of 0 is taken for none; that of a failed start(), -1, for one.
CloseSocket ==
    /\ setup.at = "close"
    /\ IF m_connection.sock # 0
       THEN file' = Closed(m_connection.sock) /\ m_connection' = Zeroed
       ELSE UNCHANGED <<file, m_connection>>
    /\ setup' = Idle
    /\ UNCHANGED <<network_settings, started, given>>

Next ==
    \/ \E request \in Settings : set_network_settings_struct(request)
    \/ OtherOpens \/ OtherCloses
    \/ Start \/ ChooseServer \/ Create \/ Enumerate \/ TryDevice \/ NoDevice
    \/ SetTtl \/ HandOver \/ Started
    \/ Stop \/ CloseSocket

Spec == Init /\ [][Next]_vars

-----------------------------------------------------------------------------
(* Properties.                                                             *)

Connections == [sock : Fds \cup {-1}, addr : {INADDR_ANY} \cup {Octets(s.ip_address) : s \in Settings}]
SetupLabels == {"idle", "choose", "socket", "enum", "device", "ttl", "hand", "close"}

\* Every variable has a value of its type.
TypeOK ==
    /\ network_settings \in Settings
    /\ started \in BOOLEAN
    /\ m_connection \in Connections
    /\ given \in [Processors -> [connection : Connections, vlan : {s.vlan : s \in Settings} \cup {0}]]
    /\ setup.at \in SetupLabels
    /\ setup.at \in {"enum", "device", "ttl"} => setup.local \in Connections /\ setup.local.sock # -1
    /\ file \in [Fds -> {Free, Other} \cup Socket]

\* The socket setupSocket() is working on, and the one start() has kept.
Held ==
    (IF setup.at \in {"enum", "device", "ttl"} THEN {setup.local.sock} ELSE {})
        \cup (IF m_connection.sock = 0 THEN {} ELSE {m_connection.sock})

\* start() and stop() never close a file of another part of the process, in particular
\* not one that was given the descriptor of a socket closed before.
ForeignFilesKept ==
    [][setup' # setup => \A fd \in Fds : file[fd] = Other => file'[fd] = Other]_vars

\* SinkSDDS.cpp:66, "all cleanup occurs in the stop method": stop() has the descriptor of
\* every socket start() opened, or the call that opened it closes it, through failed starts
\* and restarts.  Only an exception in setupSocket() loses one (multicast.cpp:134).
LostOnlyByThrow ==
    [][\A fd \in Own \cap Held :
          fd \in Own' => fd \in Held' \/ (setup.at \in {"enum", "ttl"} /\ setup' = Idle)]_vars

\* What the processors of a started component send on is the component's open socket,
\* and the same for all three.
ConnectedWhenStarted ==
    started => /\ m_connection.sock \in Own
               /\ \A p \in Processors : given[p].connection = m_connection

\* Where the packets go by settings s: a multicast server on a blank interface sends to
\* INADDR_ANY (multicast.cpp:68-76).
Destination(s) ==
    IF IsMulticast(s.ip_address) /\ s.interface = "" /\ s.vlan = 0
    THEN INADDR_ANY ELSE Octets(s.ip_address)

\* README.md:50: the component is not running when the settings change, so a started
\* component sends, and attaches, by the settings a query of the property returns, whichever
\* devices failed before one was accepted and whatever earlier starts had read.  It takes a
\* setter that does not run while start() does (SetterRaces = FALSE), which the test of
\* started() alone does not ensure (SinkSDDS.cpp:262).
SettingsInEffect ==
    started => \A p \in Processors :
        /\ given[p].vlan = network_settings.vlan
        /\ given[p].connection.addr = Destination(network_settings)

=============================================================================
