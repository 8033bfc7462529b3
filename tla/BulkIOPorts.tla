----------------------------- MODULE BulkIOPorts -----------------------------
(***************************************************************************)
(* The BulkIO input ports of the component (dataFloatIn, dataShortIn and   *)
(* dataOctetIn) and the input streams they deliver.  BulkIO is a library   *)
(* outside the repository: this module models it from the way src/cpp uses *)
(* it, i.e. the stream listener, read(), eos(), enable() and disable(),    *)
(* and the remark of SinkSDDS.cpp:368 that the base class' stop releases   *)
(* the readers blocked in a port.                                          *)
(*                                                                         *)
(* A block of samples is the amount one call of read() returns; its        *)
(* contents do not matter here, only how many blocks are waiting.          *)
(*                                                                         *)
(* In this module and those above it a definition named X_Variant is X     *)
(* with a mistake in it.  Nothing uses it; it stands beside X to record    *)
(* which mistake a property would notice (README.md, "Variants").          *)
(***************************************************************************)
EXTENDS Naturals, Sequences, FiniteSets

CONSTANTS
    Ports,      \* the input ports in use, each with its stream processor
    Streams,    \* the streams upstream may open, each at most once
    NoStream,   \* a default-constructed stream handle
    MaxBlocks   \* bound: blocks of one stream waiting in a port's queue

ASSUME PortsAssumption == Ports \subseteq {"float", "short", "octet"}
ASSUME StreamsAssumption == NoStream \notin Streams
ASSUME MaxBlocksAssumption == MaxBlocks \in Nat

VARIABLES
    seen,       \* streams whose first SRI has arrived
    ended,      \* streams whose end-of-stream flag has arrived
    disabled,   \* streams the component has disabled
    avail,      \* blocks of each stream waiting to be read
    released    \* TRUE when the ports do not let a reader block

bulkVars == <<seen, ended, disabled, avail, released>>

BulkInit ==
    /\ seen = {}
    /\ ended = {}
    /\ disabled = {}
    /\ avail = [s \in Streams |-> 0]
    /\ released = FALSE

-----------------------------------------------------------------------------
(* Upstream.                                                               *)

Open(s) ==
    /\ s \in Streams \ seen
    /\ seen' = seen \cup {s}

\* A packet of a disabled stream is discarded by the port.
Push(s) ==
    /\ s \in seen \ ended
    /\ s \notin disabled
    /\ avail[s] < MaxBlocks
    /\ avail' = [avail EXCEPT ![s] = @ + 1]
    /\ UNCHANGED <<seen, ended, disabled, released>>

PushEos(s) ==
    /\ s \in seen \ ended
    /\ ended' = ended \cup {s}
    /\ UNCHANGED <<seen, disabled, avail, released>>

-----------------------------------------------------------------------------
(* The calls the component makes.                                          *)

\* m_stream.eos(): the flag has arrived and everything before it was read.
Eos(s) == s \in ended /\ avail[s] = 0

\* m_stream.read() returns a block.
ReadData(s) ==
    /\ avail[s] > 0
    /\ avail' = [avail EXCEPT ![s] = @ - 1]
    /\ UNCHANGED <<seen, ended, disabled, released>>

\* m_stream.read() returns no block: end of stream, or the port was released.
ReadEmpty(s) ==
    /\ released \/ Eos(s)
    /\ UNCHANGED bulkVars

\* stream.disable(): what is queued is purged and what follows is discarded.
Disable(s) ==
    /\ disabled' = disabled \cup {s}
    /\ avail' = [avail EXCEPT ![s] = 0]

\* stream.enable()
Enable(s) == disabled' = disabled \ {s}

=============================================================================
