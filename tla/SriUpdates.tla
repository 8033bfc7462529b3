----------------------------- MODULE SriUpdates -----------------------------
(***************************************************************************)
(* What the downstream connections are told of the SRI: getDataPointer()   *)
(* assigning m_sri, pushSri() adding its keywords and pushing it to every  *)
(* connection, and newConnectionMade() pushing it to one connection from   *)
(* the thread of the framework that made the connection.  m_sri is not     *)
(* guarded by a lock, and a push is a remote call: what it carries is      *)
(* settled when it is made, and it arrives later.                          *)
(*                                                                         *)
(* A thread gives up its stream when a send fails or a read returns        *)
(* nothing; the stream then stays active without a thread, and the stream  *)
(* on deck may become active beside it.  The races of the hand-over are    *)
(* the subject of SinkSDDS.                                                *)
(***************************************************************************)
EXTENDS Naturals, FiniteSets

CONSTANTS
    Ports,               \* the input ports in use, each with its stream processor
    Conns,               \* the connections downstream components make
    Settings,            \* the settings that are configured: [big, priority]
    MaxSri,              \* bound: SRIs upstream sends, of all streams
    MaxOps               \* bound: start() and stop() calls

ASSUME PortsAssumption == Ports \subseteq {"float", "short", "octet"}
ASSUME SettingsAssumption == Settings \subseteq [big : BOOLEAN, priority : BOOLEAN]
ASSUME MaxSriAssumption == MaxSri \in Nat /\ MaxOps \in Nat

VARIABLES
    started,       \* the flag of the base class
    ctl,           \* the start() or stop() in progress
    ops,           \* start() and stop() calls issued so far
    settings,      \* endian_representation and downstream_give_sri_priority
    m_settings,    \* the processors' copies of both
    sent,          \* SRIs upstream has sent, of all streams
    upstream,      \* the last one of each port, by its number
    changed,       \* is that SRI still to be flagged by a block that is read?
    m_active_stream, m_first_run, m_sri,
    thread,        \* the processing thread of each port
    done,          \* calls of streamsDone() that are due
    connected,     \* the connections of dataSddsOut
    callback,      \* newConnectionMade() for each connection
    unheard,       \* history: connections which came while start() or stop() was
                   \* running, and have been told nothing
    told,          \* every SRI a connection has received
    last           \* the one it received last

control == <<started, ctl, ops, settings, m_settings>>
source == <<sent, upstream, changed>>
downstream == <<connected, callback, unheard>>
received == <<told, last>>
accepted == <<m_active_stream, done>>
vars == <<control, source, accepted, m_first_run, m_sri, thread, downstream, received>>

-----------------------------------------------------------------------------
SettingsType == [big : BOOLEAN, priority : BOOLEAN]

\* An SRI with its keywords: of DATA_REF_STR whether it says "big", of
\* BULKIO_SRI_PRIORITY whether it gives priority.
Keyword == [id : {"DATA_REF_STR", "BULKIO_SRI_PRIORITY"}, value : BOOLEAN]
Sri == [id : 0 .. MaxSri, keywords : SUBSET Keyword]
NoSri == [id |-> 0, keywords |-> {}]
OneValueEach(sri) == \A k, l \in sri.keywords : k.id = l.id => k = l

ThreadLabels == {"none", "read", "push", "deliver", "send"}
Thread == [at : ThreadLabels, msg : Sri, todo : SUBSET Conns]
CallbackLabels == {"none", "check", "visit", "deliver", "done"}
Callback == [at : CallbackLabels, msg : Sri, todo : SUBSET Ports]

NoThread == [at |-> "none", msg |-> NoSri, todo |-> {}]

Init ==
    /\ started = FALSE
    /\ ctl = "idle"
    /\ ops = 0
    /\ settings \in Settings
    /\ m_settings = [big |-> FALSE, priority |-> FALSE]
    /\ sent = 0
    /\ upstream = [p \in Ports |-> NoSri]
    /\ changed = [p \in Ports |-> FALSE]
    /\ m_active_stream = [p \in Ports |-> FALSE]
    /\ m_first_run = [p \in Ports |-> TRUE]
    /\ m_sri = [p \in Ports |-> NoSri]
    /\ thread = [p \in Ports |-> NoThread]
    /\ done = 0
    /\ connected = {}
    /\ callback = [c \in Conns |-> [at |-> "none", msg |-> NoSri, todo |-> {}]]
    /\ unheard = {}
    /\ told = [c \in Conns |-> {}]
    /\ last = [c \in Conns |-> NoSri]

Active == {p \in Ports : m_active_stream[p]}
Running == {p \in Ports : thread[p].at # "none"}
Launch(S) == [p \in Ports |-> IF p \in S THEN [NoThread EXCEPT !.at = "read"] ELSE thread[p]]
Move(p, label) == thread' = [thread EXCEPT ![p].at = label]

\* A connection receives an SRI.
Receives(c, sri) ==
    /\ told' = [told EXCEPT ![c] = @ \cup {sri}]
    /\ last' = [last EXCEPT ![c] = sri]

\* Variant: addOnly.
addModifyKeyword_AddOnly(keywords, id, value) == keywords \cup {[id |-> id, value |-> value]}

addModifyKeyword(keywords, id, value) ==
    {k \in keywords : k.id # id} \cup {[id |-> id, value |-> value]}

\* What pushSri() adds to m_sri before it pushes it.
WithKeywords(sri) ==
    LET prioritized == IF m_settings.priority
                       THEN addModifyKeyword(sri.keywords, "BULKIO_SRI_PRIORITY", TRUE)
                       ELSE sri.keywords
    IN  [sri EXCEPT !.keywords = addModifyKeyword(prioritized, "DATA_REF_STR", m_settings.big)]

-----------------------------------------------------------------------------
(* Upstream, and the streams it opens.                                     *)

\* The SRI of a new stream or a new SRI of the stream, which may have come through a
\* component that has marked the byte order.
UpstreamSends(p) ==
    /\ sent < MaxSri
    /\ sent' = sent + 1
    /\ \E marks \in {{}, {[id |-> "DATA_REF_STR", value |-> TRUE]}} :
          upstream' = [upstream EXCEPT ![p] = [id |-> sent + 1, keywords |-> marks]]

\* setStream() and run(): the listener takes a stream when no processor is active,
\* streamsDone() the one on deck when its own processor is not.
NewStream(p) ==
    /\ ~m_active_stream[p]
    /\ \/ Active = {} /\ UNCHANGED done
       \/ done > 0 /\ done' = done - 1
    /\ UpstreamSends(p)
    /\ changed' = [changed EXCEPT ![p] = FALSE]
    /\ m_active_stream' = [m_active_stream EXCEPT ![p] = TRUE]
    /\ thread' = IF started THEN Launch({p}) ELSE thread
    /\ UNCHANGED <<control, m_first_run, m_sri, downstream, received>>

\* Upstream changes the SRI in the middle of the stream.
ChangeSri(p) ==
    /\ m_active_stream[p]
    /\ UpstreamSends(p)
    /\ changed' = [changed EXCEPT ![p] = TRUE]
    /\ UNCHANGED <<control, accepted, m_first_run, m_sri, thread, downstream, received>>

-----------------------------------------------------------------------------
(* The processing thread of port p.                                        *)

\* getDataPointer() returns a block.
Read(p) ==
    /\ thread[p].at = "read"
    /\ \/ /\ m_first_run[p] \/ changed[p]
          /\ m_sri' = [m_sri EXCEPT ![p] = upstream[p]]
          /\ Move(p, "push")
       \/ /\ ~m_first_run[p] /\ ~changed[p]
          /\ Move(p, "send")
          /\ UNCHANGED m_sri
    /\ changed' = [changed EXCEPT ![p] = FALSE]
    /\ UNCHANGED <<control, sent, upstream, accepted, m_first_run, downstream, received>>

\* pushSri() makes the call that carries m_sri to the connections there are.
Push(p) ==
    /\ thread[p].at = "push"
    /\ m_sri' = [m_sri EXCEPT ![p] = WithKeywords(@)]
    /\ thread' = [thread EXCEPT ![p] = [at |-> "deliver", msg |-> WithKeywords(m_sri[p]),
                                        todo |-> connected]]
    /\ UNCHANGED <<control, source, accepted, m_first_run, downstream, received>>

Deliver(p) ==
    /\ thread[p].at = "deliver"
    /\ \/ \E c \in thread[p].todo :
             /\ Receives(c, thread[p].msg)
             /\ thread' = [thread EXCEPT ![p].todo = @ \ {c}]
       \/ thread[p].todo = {} /\ Move(p, "send") /\ UNCHANGED received
    /\ UNCHANGED <<control, source, accepted, m_first_run, m_sri, downstream>>

Send(p) ==
    /\ thread[p].at = "send"
    /\ m_first_run' = [m_first_run EXCEPT ![p] = FALSE]
    /\ Move(p, "read")
    /\ UNCHANGED <<control, source, accepted, m_sri, downstream, received>>

\* Variant: m_first_run is not set again.
LeaveRun_FirstRunKept(p) ==
    /\ thread' = [thread EXCEPT ![p] = NoThread]
    /\ done' = done + 1
    /\ UNCHANGED <<control, source, m_first_run, m_sri, downstream, received>>

\* What follows the loop of _run().
LeaveRun(p) ==
    /\ m_first_run' = [m_first_run EXCEPT ![p] = TRUE]
    /\ thread' = [thread EXCEPT ![p] = NoThread]
    /\ done' = done + 1
    /\ UNCHANGED <<control, source, m_sri, downstream, received>>

\* sendPacket() fails: the thread ends and its stream stays active.
SendFails(p) ==
    /\ thread[p].at = "send"
    /\ UNCHANGED m_active_stream
    /\ LeaveRun(p)

\* The thread ends because the stream has, which callDetach() makes inactive; or with the
\* stream still active: on a shutdown(), a left-over one too, or when a port that is not
\* open yet, or no longer, makes the read return nothing.
End(p) ==
    /\ thread[p].at = "read"
    /\ \/ m_active_stream' = [m_active_stream EXCEPT ![p] = FALSE]
       \/ UNCHANGED m_active_stream
    /\ LeaveRun(p)

-----------------------------------------------------------------------------
(* start() and stop().                                                     *)

\* sdds_settings, of which the byte order is one, has a setter that asks started();
\* sdds_attach_settings has none.
Configure ==
    /\ settings' \in Settings
    /\ started => settings'.big = settings.big
    /\ UNCHANGED <<started, ctl, ops, m_settings, source, accepted, m_first_run,
                   m_sri, thread, downstream, received>>

\* The settings are copied to the processors, and the active one is run.
Start ==
    /\ ~started /\ ctl = "idle" /\ ops < MaxOps
    /\ ctl' = "start"
    /\ ops' = ops + 1
    /\ m_settings' = settings
    /\ thread' = Launch(Active)
    /\ unheard' = {}
    /\ UNCHANGED <<started, settings, source, accepted, m_first_run, m_sri,
                   connected, callback, received>>

\* setupSocket() failed: the settings have been copied all the same.
StartFails ==
    /\ ~started /\ ctl = "idle"
    /\ m_settings' = settings
    /\ UNCHANGED <<started, ctl, ops, settings, source, accepted, m_first_run, m_sri,
                   thread, downstream, received>>

\* SinkSDDS_base::start()
BaseStart ==
    /\ ctl = "start"
    /\ ctl' = "idle"
    /\ started' = TRUE
    /\ UNCHANGED <<ops, settings, m_settings, source, accepted, m_first_run, m_sri,
                   thread, downstream, received>>

\* SinkSDDS_base::stop()
Stop ==
    /\ started /\ ctl = "idle" /\ ops < MaxOps
    /\ ctl' = "stop"
    /\ ops' = ops + 1
    /\ started' = FALSE
    /\ UNCHANGED <<settings, m_settings, source, accepted, m_first_run, m_sri,
                   thread, downstream, received>>

\* The threads have been joined.
Stopped ==
    /\ ctl = "stop" /\ Running = {}
    /\ ctl' = "idle"
    /\ UNCHANGED <<started, ops, settings, m_settings, source, accepted, m_first_run,
                   m_sri, thread, downstream, received>>

-----------------------------------------------------------------------------
(* dataSddsOut, and newConnectionMade(), which it calls for connection c.  *)

Connect(c) ==
    /\ c \notin connected
    /\ unheard' = IF ctl = "idle" THEN unheard ELSE unheard \cup {c}
    /\ connected' = connected \cup {c}
    /\ callback' = [callback EXCEPT ![c].at = "check"]
    /\ UNCHANGED <<control, source, accepted, m_first_run, m_sri, thread, received>>

\* if (started())
CheckStarted(c) ==
    /\ callback[c].at = "check"
    /\ callback' = [callback EXCEPT ![c] = [at   |-> IF started THEN "visit" ELSE "done",
                                            msg  |-> NoSri,
                                            todo |-> Ports]]
    /\ unheard' = IF started THEN unheard \ {c}
                  ELSE IF ctl = "stop" THEN unheard \cup {c} ELSE unheard
    /\ UNCHANGED <<control, source, accepted, m_first_run, m_sri, thread, connected, received>>

\* pushSri(port) of the processors in turn: short, float, octet.
Rank == [short |-> 1, float |-> 2, octet |-> 3]
Visit(c) ==
    /\ callback[c].at = "visit"
    /\ \/ /\ callback[c].todo = {}
          /\ callback' = [callback EXCEPT ![c].at = "done"]
          /\ UNCHANGED m_sri
       \/ \E p \in callback[c].todo :
          /\ \A q \in callback[c].todo : Rank[p] <= Rank[q]
          /\ \/ /\ ~m_active_stream[p]
                /\ callback' = [callback EXCEPT ![c].todo = @ \ {p}]
                /\ UNCHANGED m_sri
             \/ /\ m_active_stream[p]
                /\ m_sri' = [m_sri EXCEPT ![p] = WithKeywords(@)]
                /\ callback' = [callback EXCEPT ![c] = [at   |-> "deliver",
                                                        msg  |-> WithKeywords(m_sri[p]),
                                                        todo |-> @.todo \ {p}]]
    /\ UNCHANGED <<control, source, accepted, m_first_run, thread, connected, unheard, received>>

Arrive(c) ==
    /\ callback[c].at = "deliver"
    /\ Receives(c, callback[c].msg)
    /\ callback' = [callback EXCEPT ![c].at = "visit"]
    /\ UNCHANGED <<control, source, accepted, m_first_run, m_sri, thread, connected, unheard>>

Next ==
    \/ \E p \in Ports : NewStream(p) \/ ChangeSri(p)
    \/ \E p \in Ports : Read(p) \/ Push(p) \/ Deliver(p) \/ Send(p) \/ SendFails(p) \/ End(p)
    \/ Configure \/ Start \/ StartFails \/ BaseStart \/ Stop \/ Stopped
    \/ \E c \in Conns : Connect(c) \/ CheckStarted(c) \/ Visit(c) \/ Arrive(c)

Spec == Init /\ [][Next]_vars

-----------------------------------------------------------------------------
(* Properties.                                                             *)

\* Every variable has a value of its type.
TypeOK ==
    /\ started \in BOOLEAN
    /\ ctl \in {"idle", "start", "stop"}
    /\ ops \in 0 .. MaxOps
    /\ settings \in SettingsType /\ m_settings \in SettingsType
    /\ sent \in 0 .. MaxSri
    /\ upstream \in [Ports -> Sri] /\ changed \in [Ports -> BOOLEAN]
    /\ m_active_stream \in [Ports -> BOOLEAN]
    /\ m_first_run \in [Ports -> BOOLEAN]
    /\ m_sri \in [Ports -> Sri]
    /\ \A p \in Ports : OneValueEach(m_sri[p])
    /\ thread \in [Ports -> Thread]
    /\ done \in Nat
    /\ connected \subseteq Conns /\ unheard \subseteq connected
    /\ callback \in [Conns -> Callback]
    /\ told \in [Conns -> SUBSET Sri]
    /\ last \in [Conns -> Sri]

\* newConnectionMade() has returned for the connection.
Settled(c) == c \in connected /\ callback[c].at = "done"

\* README.md:18, "the SRI is passed across the SDDS BulkIO connection to any downstream
\* components": a packet is not sent before every connection, the ones made while the
\* component runs included, was told the SRI that describes it, with the byte order of
\* its data and the priority asked for, through failed sends, restarts and streams that
\* stay behind without a thread.  The exception is a connection that was made while
\* start() or stop() was running and found started() false (SinkSDDS.cpp:79); it is the
\* subject of EveryConnectionTold.
SriBeforeData ==
    \A p \in Ports, c \in Conns \ unheard :
        thread[p].at = "send" /\ Settled(c) => WithKeywords(m_sri[p]) \in told[c]

\* The same sentence of the README without the exception, and asking only that a connection
\* of a started component be told something before a packet is sent.
EveryConnectionTold ==
    \A p \in Ports, c \in Conns :
        started /\ thread[p].at = "send" /\ Settled(c) => told[c] # {}

\* SinkSDDS.cpp:72-73, a new connection's listener is there to "update the SRI": what a
\* connection the listener served was told last describes the packets being sent.
LastSriIsCurrent ==
    \A p \in Ports, c \in Conns \ unheard :
        started /\ thread[p].at = "send" /\ Settled(c) => last[c].id = m_sri[p].id

=============================================================================
