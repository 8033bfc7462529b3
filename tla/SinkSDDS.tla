------------------------------ MODULE SinkSDDS ------------------------------
(***************************************************************************)
(* The component SinkSDDS: its three stream processors, the on-deck list   *)
(* kept under m_stream_lock, the stream listener of the input ports        *)
(* (setFloatStream, setShortStream, setOctetStream), the streamsDone()     *)
(* callback of the processing threads, and start() and stop().             *)
(*                                                                         *)
(* A handler is cut where another thread may run between two of its        *)
(* accesses to a shared member.  m_stream_lock is held exactly while the   *)
(* "callback" caller has a call in progress.  The framework issues one     *)
(* start() or stop() at a time.                                            *)
(***************************************************************************)
EXTENDS BulkIOToSDDSProcessor

CONSTANTS
    Ops,            \* the lifecycle operations the framework uses
    PacedStreams,   \* TRUE: a stream is opened only when nothing is in transit
    PacedControl,   \* TRUE: start() and stop() are called only when nothing is in
                    \* transit, stop() only once started, and at most one stream
                    \* is opened before start()
    MaxOps          \* bound: start() and stop() calls the framework issues

ASSUME OpsAssumption == Ops \subseteq {"start", "stop"}
ASSUME PacedAssumption == PacedStreams \in BOOLEAN /\ PacedControl \in BOOLEAN
ASSUME MaxOpsAssumption == MaxOps \in Nat

VARIABLES
    started,   \* the flag of the base class that started() returns
    deck,      \* the on-deck vector of each port
    ctl,       \* how far the start() or stop() in progress has got
    issued     \* start() and stop() calls issued so far

sinkVars == <<started, deck, ctl, issued>>
vars == <<bulkVars, procVars, sinkVars>>

CtlLabels == {"idle", "launch", "shutdown", "join"}
Resting == [at |-> "idle", todo |-> {}]

Init ==
    /\ BulkInit
    /\ ProcInit
    /\ started = FALSE
    /\ deck = [p \in Ports |-> <<>>]
    /\ ctl = Resting
    /\ issued = 0

-----------------------------------------------------------------------------
(* Under m_stream_lock.                                                    *)

LockFree == call["callback"].at = "idle"

\* float before short before octet: the order of streamsDone() and stop().
Rank == [float |-> 1, short |-> 2, octet |-> 3]
IsFirst(p, S) == p \in S /\ \A q \in S : Rank[p] <= Rank[q]
IsLast(p, S)  == p \in S /\ \A q \in S : Rank[q] <= Rank[p]

\* Variant: one of the three processors is forgotten.
streamIsActive_NoShort == \E p \in Ports \ {"short"} : isActive(p)

streamIsActive == \E p \in Ports : isActive(p)
OnDeckPorts == {p \in Ports : deck[p] # <<>>}
streamIsOnDeck == OnDeckPorts # {}

\* Variant: one of the three vectors is forgotten.
dropOnDeckStream_FloatOnly == [p \in Ports |-> IF p = "float" THEN <<>> ELSE deck[p]]

\* The vectors once dropOnDeckStream() has run, which it does if one holds a stream.
dropOnDeckStream == [p \in Ports |-> <<>>]

\* A handler that goes on with "if (started()) run()" on processor p.
ThenRunIfStarted(p, s) ==
    call' = [call EXCEPT !["callback"] =
                [at |-> "started", op |-> "run", port |-> p, slot |-> NULL, stream |-> s]]

\* Nothing is in transit: no call, no callback and no thread on its way in or out.
Quiet ==
    /\ ctl = Resting
    /\ done = 0
    /\ \A c \in Callers : call[c] = Idle
    /\ \A p \in Ports, k \in Slots :
          thread[p][k] \in {"none", "loop", "read", "send"}
          /\ (Live(p, k) => m_active_stream[p] /\ ~m_shutdown[p])

\* Variants: the new stream is not disabled; the processor's stream is, in its place.
PutOnDeck_StaysEnabled(p, s) ==
    /\ UNCHANGED <<disabled, avail>>
    /\ deck' = [(IF streamIsOnDeck THEN dropOnDeckStream ELSE deck) EXCEPT ![p] = Append(@, s)]
PutOnDeck_DisablesCurrent(p, s) ==
    /\ disabled' = disabled \cup {m_stream[p]}
    /\ avail' = [avail EXCEPT ![s] = 0]
    /\ deck' = [(IF streamIsOnDeck THEN dropOnDeckStream ELSE deck) EXCEPT ![p] = Append(@, s)]

\* A new stream that has to wait is disabled and takes the place of the one on deck.
PutOnDeck(p, s) ==
    /\ Disable(s)
    /\ deck' = [(IF streamIsOnDeck THEN dropOnDeckStream ELSE deck) EXCEPT ![p] = Append(@, s)]

\* setFloatStream(), setShortStream() and setOctetStream().
NewStream(p, s) ==
    /\ LockFree
    /\ PacedStreams => Quiet
    /\ PacedControl => ctl = Resting /\ (started \/ seen = {})
    /\ Open(s)
    /\ \/ /\ streamIsActive
          /\ PutOnDeck(p, s)
          /\ UNCHANGED <<m_stream, m_active_stream, call>>
       \/ /\ ~streamIsActive
          /\ setStream(p, s)
          /\ ThenRunIfStarted(p, s)
          /\ UNCHANGED <<disabled, avail, deck>>
    /\ UNCHANGED <<ended, released, m_processorThread, m_running, m_shutdown,
                   thread, outside, started, ctl, issued>>

streamsDone ==
    /\ LockFree
    /\ done > 0
    /\ done' = done - 1
    /\ \/ /\ ~streamIsOnDeck
          /\ UNCHANGED <<disabled, m_stream, m_active_stream, call, deck>>
       \/ \E p \in Ports :
          /\ IsFirst(p, OnDeckPorts)
          /\ LET s == deck[p][Len(deck[p])] IN
             /\ Enable(s)
             /\ setStream(p, s)
          /\ deck' = [deck EXCEPT ![p] = <<>>]
          /\ ThenRunIfStarted(p, NoStream)
    /\ UNCHANGED <<seen, ended, avail, released, m_processorThread, m_running,
                   m_shutdown, thread, attached, sockOpen, started, ctl, issued>>

\* Variant: started() is not asked.
CheckStarted_Always ==
    /\ call["callback"].at = "started"
    /\ Goto("callback", "check")
    /\ UNCHANGED <<bulkVars, members, m_processorThread, thread, outside, sinkVars>>

\* if (started()) { run(); }
CheckStarted ==
    /\ call["callback"].at = "started"
    /\ IF started THEN Goto("callback", "check") ELSE Return("callback")
    /\ UNCHANGED <<bulkVars, members, m_processorThread, thread, outside, sinkVars>>

-----------------------------------------------------------------------------
(* start() and stop().                                                     *)

\* The framework calls op; the call before it has returned.
Issue(op) ==
    /\ op \in Ops
    /\ ctl = Resting
    /\ PacedControl => Quiet
    /\ issued < MaxOps
    /\ issued' = issued + 1

Begins(op, p) ==
    call' = [call EXCEPT !["control"] =
                [at |-> IF op = "run" THEN "check" ELSE "join",
                 op |-> op, port |-> p, slot |-> NULL, stream |-> NoStream]]

\* start() up to a successful setupSocket(); when that fails nothing has changed.
Start ==
    /\ Issue("start")
    /\ ~started
    /\ sockOpen' = TRUE
    /\ ctl' = [at |-> "launch", todo |-> Ports]
    /\ UNCHANGED <<bulkVars, members, m_processorThread, thread, call, attached,
                   done, started, deck>>

\* setConnection() and run(): octet, short, float.
LaunchNext ==
    /\ ctl.at = "launch"
    /\ call["control"] = Idle
    /\ \E p \in ctl.todo :
          /\ IsLast(p, ctl.todo)
          /\ Begins("run", p)
          /\ ctl' = [ctl EXCEPT !.todo = @ \ {p}]
    /\ UNCHANGED <<bulkVars, members, m_processorThread, thread, outside, started, deck, issued>>

\* SinkSDDS_base::start(), with which start() ends.
BaseStart ==
    /\ ctl = [at |-> "launch", todo |-> {}]
    /\ call["control"] = Idle
    /\ started' = TRUE
    /\ released' = FALSE
    /\ ctl' = Resting
    /\ UNCHANGED <<seen, ended, disabled, avail, procVars, deck, issued>>

Stop ==
    /\ Issue("stop")
    /\ PacedControl => started
    /\ ctl' = [at |-> "shutdown", todo |-> Ports]
    /\ UNCHANGED <<bulkVars, procVars, started, deck>>

ShutdownNext ==
    /\ ctl.at = "shutdown"
    /\ \E p \in ctl.todo :
          /\ IsFirst(p, ctl.todo)
          /\ shutdown(p)
          /\ ctl' = [ctl EXCEPT !.todo = @ \ {p}]
    /\ UNCHANGED <<bulkVars, m_stream, m_active_stream, m_running,
                   m_processorThread, thread, call, outside, started, deck, issued>>

\* Variant: the readers are left blocked in their ports.
BaseStop_PortsKept ==
    /\ ctl = [at |-> "shutdown", todo |-> {}]
    /\ started' = FALSE
    /\ ctl' = [at |-> "join", todo |-> Ports]
    /\ UNCHANGED <<bulkVars, procVars, deck, issued>>

\* SinkSDDS_base::stop() releases the readers.
BaseStop ==
    /\ ctl = [at |-> "shutdown", todo |-> {}]
    /\ started' = FALSE
    /\ released' = TRUE
    /\ ctl' = [at |-> "join", todo |-> Ports]
    /\ UNCHANGED <<seen, ended, disabled, avail, procVars, deck, issued>>

JoinNext ==
    /\ ctl.at = "join"
    /\ call["control"] = Idle
    /\ \E p \in ctl.todo :
          /\ IsFirst(p, ctl.todo)
          /\ Begins("join", p)
          /\ ctl' = [ctl EXCEPT !.todo = @ \ {p}]
    /\ UNCHANGED <<bulkVars, members, m_processorThread, thread, outside, started, deck, issued>>

CloseSocket ==
    /\ ctl = [at |-> "join", todo |-> {}]
    /\ call["control"] = Idle
    /\ sockOpen' = FALSE
    /\ ctl' = Resting
    /\ UNCHANGED <<bulkVars, members, m_processorThread, thread, call, attached,
                   done, started, deck, issued>>

\* Variant: one of the three processors is forgotten.
get_status_struct_NoShort ==
    LET chosen(S, id) == IF S = {} THEN NoStream ELSE id[CHOOSE p \in S : IsFirst(p, S)]
    IN  [current_stream |-> chosen({p \in Ports \ {"short"} : isActive(p)}, m_stream),
         stream_on_deck |-> chosen(OnDeckPorts, [p \in OnDeckPorts |-> deck[p][Len(deck[p])]])]

\* What a query of the status property returns.
get_status_struct ==
    LET chosen(S, id) == IF S = {} THEN NoStream ELSE id[CHOOSE p \in S : IsFirst(p, S)]
    IN  [current_stream |-> chosen({p \in Ports : isActive(p)}, m_stream),
         stream_on_deck |-> chosen(OnDeckPorts, [p \in OnDeckPorts |-> deck[p][Len(deck[p])]])]

-----------------------------------------------------------------------------

\* The upstream thread that opened a stream is inside the listener until it returns.
Upstream ==
    \/ \E s \in Streams :
          /\ call["callback"].stream # s
          /\ Push(s) \/ PushEos(s)
          /\ UNCHANGED <<procVars, sinkVars>>
    \/ \E p \in Ports, s \in Streams : NewStream(p, s)

Control ==
    \/ LaunchNext \/ BaseStart \/ ShutdownNext \/ BaseStop \/ JoinNext \/ CloseSocket

Caller(c) == CallerStep(c) /\ UNCHANGED sinkVars
Processing(p, k) == ThreadStep(p, k) /\ UNCHANGED sinkVars

Next ==
    \/ Upstream
    \/ streamsDone \/ CheckStarted
    \/ Start \/ Stop \/ Control
    \/ \E c \in Callers : Caller(c)
    \/ \E p \in Ports, k \in Slots : Processing(p, k)

Spec == Init /\ [][Next]_vars

GivesUp(p, k) == released /\ Read(p, k) /\ thread'[p][k] = "empty" /\ UNCHANGED sinkVars

(***************************************************************************)
(* Every thread that can take a step takes one: the processing threads,    *)
(* the threads that run streamsDone(), and the callers inside start(),     *)
(* stop() or the listener.  A reader of a released port does not get       *)
(* blocks for ever: "the stream object will return" (SinkSDDS.cpp:368).    *)
(* Nothing is assumed of upstream or of the framework issuing start() and  *)
(* stop().                                                                 *)
(***************************************************************************)
Fairness ==
    /\ WF_vars(streamsDone)
    /\ WF_vars(CheckStarted)
    /\ WF_vars(Control)
    /\ \A c \in Callers : WF_vars(Caller(c))
    /\ \A p \in Ports, k \in Slots :
          /\ WF_vars(Processing(p, k))
          /\ SF_vars(GivesUp(p, k))

FairSpec == Spec /\ Fairness

-----------------------------------------------------------------------------
(* Properties.                                                             *)

\* Every member has a value of its type.
TypeOK ==
    /\ seen \subseteq Streams
    /\ ended \subseteq seen
    /\ disabled \subseteq seen
    /\ avail \in [Streams -> Nat]
    /\ released \in BOOLEAN
    /\ m_stream \in [Ports -> Streams \cup {NoStream}]
    /\ m_active_stream \in [Ports -> BOOLEAN]
    /\ m_processorThread \in [Ports -> Slots \cup {NULL}]
    /\ m_running \in [Ports -> BOOLEAN]
    /\ m_shutdown \in [Ports -> BOOLEAN]
    /\ thread \in [Ports -> [Slots -> ThreadLabels]]
    /\ call \in [Callers -> Calls]
    /\ attached \subseteq Streams \cup {NoStream}
    /\ done \in Nat
    /\ sockOpen \in BOOLEAN
    /\ started \in BOOLEAN
    /\ deck \in [Ports -> Seq(Streams)]
    /\ ctl \in [at : CtlLabels, todo : SUBSET Ports]
    /\ issued \in Nat

\* "Only a single stream can be on deck at any time" (SinkSDDS.prf.xml:156), over the
\* three vectors that setFloatStream() and its siblings fill and streamsDone() empties.
OneOnDeck ==
    \A p, q \in OnDeckPorts : p = q /\ Len(deck[p]) = 1

\* A stream on deck always has someone to come for it: a stream that is still
\* active, a processing thread that will call streamsDone() when it ends, or such a
\* call under way (BulkIOToSDDSProcessor.cpp:340).
DeckHasWaker ==
    streamIsOnDeck =>
        \/ streamIsActive
        \/ \E p \in Ports, k \in Slots : Live(p, k)
        \/ done > 0

Waiting == UNION {{deck[p][i] : i \in DOMAIN deck[p]} : p \in Ports}
Current == {m_stream[p] : p \in {q \in Ports : m_active_stream[q]}}

\* A processor's stream has been opened, and an active processor has one.
StreamsKnown ==
    \A p \in Ports :
        /\ m_stream[p] \in seen \cup {NoStream}
        /\ m_active_stream[p] => m_stream[p] # NoStream

\* A stream the listener put on deck stays disabled, and no processor's stream, until
\* streamsDone() enables it and hands it over.
DeckedIsDisabled ==
    /\ Waiting \subseteq disabled
    /\ \A p \in Ports : m_stream[p] \notin Waiting

-----------------------------------------------------------------------------
(* The component implements StreamLifecycle.                               *)

StreamStatus ==
    [s \in Streams |-> IF s \notin seen THEN "unseen"
                       ELSE IF s \in Waiting THEN "waiting"
                       ELSE IF s \in Current THEN "current"
                       ELSE "gone"]

\* The promise holds of an upstream and a framework that wait for each other.
Paced == PacedStreams /\ PacedControl /\ Ops = {"start"} /\ ~SendMayFail

Lifecycle == INSTANCE StreamLifecycle WITH Strict <- Paced, status <- StreamStatus

\* Each step of the threads, the callbacks and start() and stop() is a step of the
\* life cycle of one stream, or none; in the strict form when the environment is paced.
ImplementsLifecycle == Lifecycle!LifecycleSpec

-----------------------------------------------------------------------------
(* Properties of the hand-over from one stream to the next.                *)

\* No start(), stop(), run(), join() or streamsDone() is under way.
AtRest == ctl = Resting /\ done = 0 /\ \A c \in Callers : call[c] = Idle

\* README.md:18, SinkSDDS.cpp:124-126: one stream is processed at a time.
AtMostOneActive ==
    \A p, q \in Ports : m_active_stream[p] /\ m_active_stream[q] => p = q

\* "The current stream being processed" and the one "on deck" (SinkSDDS.prf.xml:152-156): a
\* query of the status, which takes m_stream_lock, leaves out no stream the component has.
StatusComplete ==
    LockFree =>
        Current \cup Waiting \subseteq
            {get_status_struct.current_stream, get_status_struct.stream_on_deck}

\* "Sets the active stream and starts the processing thread if the component has also
\* started" (BulkIOToSDDSProcessor.cpp:250): the active stream of a started component
\* has a thread that reads it, unless a call that may still start one is under way.
ActiveIsProcessed ==
    started /\ AtRest =>
        \A p \in Ports : m_active_stream[p] => \E k \in Slots : Live(p, k)

\* "Calling detach on current stream" (BulkIOToSDDSProcessor.cpp:162): callDetach() reads
\* m_stream again for the call it sends, after it has cleared the flag that kept others
\* from setting it; it is still the stream that has ended.
DetachMatches ==
    \A p \in Ports, k \in Slots : At(p, k, "detach") => m_stream[p] \in ended

\* "If the thread is not running, it does nothing" (BulkIOToSDDSProcessor.cpp:76-77): join()
\* is not called on one thread object by two callers, who would both delete it, the control
\* thread and a listener or streamsDone() that calls run().
JoinExclusive ==
    ~(/\ \A c \in Callers : call[c].at = "joining"
      /\ \A c, d \in Callers : call[c].port = call[d].port /\ call[c].slot = call[d].slot)

\* run() announces the stream with callAttach() before its thread sends a packet of it.
AttachedBeforeData ==
    \A p \in Ports, k \in Slots : At(p, k, "send") => m_stream[p] \in attached

\* callAttach() and callDetach() (BulkIOToSDDSProcessor.cpp:159, 223) keep the receivers
\* downstream in step with the component: when nothing is in transit, the attachments that
\* stand are those of the stream being processed, over any number of streams.
AttachedIsCurrent == started /\ Quiet => attached = Current

\* run() creates a processing thread only when the one before has left _run().
OneThread ==
    \A p \in Ports, j, k \in Slots : Live(p, j) /\ Live(p, k) => j = k

\* BulkIOToSDDSProcessor.cpp:240: shutdown() is for a thread that "will stop on its next
\* iteration"; no request is left over for a thread that start() or run() creates later.
NoStaleShutdown ==
    started /\ AtRest =>
        \A p \in Ports : m_shutdown[p] => \E k \in Slots : Live(p, k)

-----------------------------------------------------------------------------
(* Liveness.                                                               *)

\* A call of start() or stop() returns: the threads stop() joins are not left blocked in
\* a read (SinkSDDS.cpp:368).
CallsReturn == ctl # Resting ~> ctl = Resting

\* Once stop() was the last call made, no processing thread is left in the end,
\* not even one that a callback started while stop() was running.
Stopped == ~started /\ released /\ ctl = Resting
StopQuiesces == <>[]Stopped => <>[](\A p \in Ports, k \in Slots : ~Live(p, k))

\* m_stream_lock is released although run() joins under it: the thread joined does not
\* wait for streamsDone(), and the upstream thread in the listener gets back.
LockReleased == ~LockFree ~> LockFree

\* When the current stream has ended, streamsDone() gives the stream on deck its turn,
\* unless a later stream has taken its place there (SinkSDDS.cpp:133-137).
DeckGetsTurn ==
    \A s \in Streams :
        started /\ s \in Waiting /\ Current \subseteq ended ~>
            s \in Current \/ (s \notin Waiting /\ Waiting # {})

\* The end of a stream announced with attach is announced with a detach.
EndIsAnnounced ==
    \A s \in Streams : started /\ s \in attached /\ s \in ended ~> s \notin attached

=============================================================================
