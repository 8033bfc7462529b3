----------------------------- MODULE SDDSPackets -----------------------------
(***************************************************************************)
(* The packets a stream processor sends: the header template that is       *)
(* updated in place for every packet, the frame sequence number, the start *)
(* of sequence bit, and the cutting of a block into payloads.  The threads *)
(* are those of BulkIOToSDDSProcessor; here one step is one block read,    *)
(* one packet sent, or one call of the component, and the processing       *)
(* thread may end whenever it is between two blocks.                       *)
(*                                                                         *)
(* A header field is modelled by where its value comes from: the memory    *)
(* the template was allocated in, a constant of the code, the SRI, the     *)
(* status of a time stamp, or the user's override_sdds_header.             *)
(***************************************************************************)
EXTENDS Integers

CONSTANTS
    SeqMod,     \* the numbers a uint16_t has: 2^16 in the code
    Payload,    \* bytes in the payload of a packet: 1024 in the code
    Sris,       \* the SRIs upstream may send, told apart by mode and xdelta
    Overrides   \* the values override_sdds_header may be given; 0 stands for disabled

ASSUME SeqModAssumption == SeqMod \in Nat \ {0} /\ SeqMod % 32 = 0
ASSUME PayloadAssumption == Payload \in Nat \ {0}
ASSUME SrisAssumption == Sris \subseteq Nat \ {0}
ASSUME OverridesAssumption == Overrides \subseteq Nat \ {0}

VARIABLES
    override_sdds_header,    \* the property of the component
    m_sdds_header_override,  \* the processor's copy, taken by start()
    started,                 \* the flag of the base class
    running,                 \* is there a processing thread?
    m_active_stream,
    m_first_run,
    m_seq,                   \* number of the next packet
    seq, sos, header,        \* m_sdds_template
    m_sri,                   \* SRI of the block read last; 0 for none
    valid,                   \* m_current_time.tcstatus = TCS_VALID
    left,                    \* bytes of the block that are still to be sent
    count,                   \* history: sendmsg() calls, modulo a full round
    opened,                  \* history: the first block of the run was sent
    lapped                   \* history: number 0 was sent after that block

config   == <<override_sdds_header, m_sdds_header_override, started>>
template == <<seq, sos, header>>
history  == <<count, opened, lapped>>
vars == <<config, running, m_active_stream, m_first_run, m_seq, template,
          m_sri, valid, left, history>>

\* The fields that only override_sdds_header changes after the constructor.
Constructed == {"dmode", "sscv", "dfdt"}
Untouched   == {"msv", "msptr", "msdel"}
FromSri     == {"cx", "freq"}
Fields      == Constructed \cup Untouched \cup FromSri \cup {"bps", "ttv"}

Value(source, what) == [by |-> source, of |-> what]
Values ==
    {Value("memory", 0), Value("code", 0), Value("time", 0), Value("time", 1)}
        \cup {Value("sri", i) : i \in Sris} \cup {Value("user", o) : o \in Overrides}

\* The numbers a round has, without those of the parity packets.
Round == 31 * (SeqMod \div 32)
\* The number of the n-th packet of a round.
Slot(n) == n + (n \div 31)

Init ==
    /\ override_sdds_header = 0
    /\ m_sdds_header_override = 0
    /\ started = FALSE
    /\ running = FALSE
    /\ m_active_stream = FALSE
    /\ m_first_run = TRUE
    /\ m_seq = 0
    /\ seq = 0
    /\ sos \in {0, 1}
    /\ header = [f \in Fields |-> Value(IF f \in Constructed THEN "code" ELSE "memory", 0)]
    /\ m_sri = 0
    /\ valid = FALSE
    /\ left = 0
    /\ count = 0
    /\ opened = FALSE
    /\ lapped = FALSE

-----------------------------------------------------------------------------
(* The component.                                                          *)

Overridden(o, hdr) == IF o = 0 THEN hdr ELSE [f \in Fields |-> Value("user", o)]

\* set_override_sdds_header_struct()
Configure(o) ==
    /\ ~started
    /\ override_sdds_header' = o
    /\ UNCHANGED <<m_sdds_header_override, started, running, m_active_stream,
                   m_first_run, m_seq, template, m_sri, valid, left, history>>

\* start(): the settings are copied before run() is called.
Start ==
    /\ ~started
    /\ started' = TRUE
    /\ m_sdds_header_override' = override_sdds_header
    /\ running' = m_active_stream
    /\ header' = IF m_active_stream THEN Overridden(override_sdds_header, header) ELSE header
    /\ UNCHANGED <<override_sdds_header, m_active_stream, m_first_run, m_seq,
                   seq, sos, m_sri, valid, left, history>>

\* start() found no socket and threw; the copy has been taken all the same.
StartFails ==
    /\ ~started
    /\ m_sdds_header_override' = override_sdds_header
    /\ UNCHANGED <<override_sdds_header, started, running, m_active_stream, m_first_run,
                   m_seq, template, m_sri, valid, left, history>>

\* setStream() and, in a started component, run().
NewStream ==
    /\ ~m_active_stream /\ ~running
    /\ m_active_stream' = TRUE
    /\ LET hdr == IF m_sdds_header_override = 0
                  THEN [header EXCEPT !["bps"] = Value("code", 0)] ELSE header
       IN header' = IF started THEN Overridden(m_sdds_header_override, hdr) ELSE hdr
    /\ running' = started
    /\ UNCHANGED <<config, m_first_run, m_seq, seq, sos, m_sri, valid, left, history>>

\* Variant: the next run does not know that it is a new one.
ThreadEnds_NoFirstRun ==
    /\ running' = FALSE
    /\ left' = 0
    /\ UNCHANGED m_first_run

\* What _run() does after its loop.
ThreadEnds ==
    /\ running' = FALSE
    /\ left' = 0
    /\ m_first_run' = TRUE

\* The thread leaves its loop between two blocks: end of stream, or a shutdown().
Leave(eos) ==
    /\ running /\ left = 0
    /\ ThreadEnds
    /\ m_active_stream' = ~eos
    /\ opened' = FALSE
    /\ UNCHANGED <<config, m_seq, template, m_sri, valid, count, lapped>>

\* stop() waits for the thread.
Stop ==
    /\ started /\ ~running
    /\ started' = FALSE
    /\ UNCHANGED <<override_sdds_header, m_sdds_header_override, running,
                   m_active_stream, m_first_run, m_seq, template, m_sri, valid,
                   left, history>>

-----------------------------------------------------------------------------
(* The processing thread.                                                  *)

\* Variants: the override is not asked; the SRI is looked at for the first block only.
setSddsHeaderFromSri_Always(s) ==
    /\ header' = [f \in Fields |-> IF f \in FromSri THEN Value("sri", s) ELSE header[f]]
    /\ sos' = IF m_first_run THEN 1 ELSE sos
setSddsHeaderFromSri_Once(s) ==
    /\ header' = IF m_sdds_header_override = 0 /\ m_first_run
                 THEN [f \in Fields |-> IF f \in FromSri THEN Value("sri", s) ELSE header[f]]
                 ELSE header
    /\ sos' = IF m_first_run THEN 1 ELSE sos

setSddsHeaderFromSri(s) ==
    /\ header' = IF m_sdds_header_override = 0
                 THEN [f \in Fields |-> IF f \in FromSri THEN Value("sri", s) ELSE header[f]]
                 ELSE header
    /\ sos' = IF m_first_run THEN 1 ELSE sos

\* getDataPointer(): a block of n bytes, which is more than one payload when the
\* mode has changed from real to complex.
ReadBlock(n, s, v) ==
    /\ running /\ left = 0
    /\ left' = n
    /\ valid' = v
    /\ m_sri' = s
    /\ IF m_first_run \/ s # m_sri
       THEN setSddsHeaderFromSri(s)
       ELSE UNCHANGED <<header, sos>>
    /\ UNCHANGED <<config, running, m_active_stream, m_first_run, m_seq, seq, history>>

\* Variant: the number does not wrap.
Increment_Wide(n) == n + 1

\* m_seq++ of a uint16_t
Increment(n) == IF n + 1 = SeqMod THEN 0 ELSE n + 1

\* Variant: the number of the parity packet is looked for one too late.
NextSeq_Late == IF m_seq # 0 /\ m_seq % 32 = 31 THEN Increment(Increment(m_seq)) ELSE Increment(m_seq)

\* The number after m_seq, without the parity packet that is not sent.
NextSeq ==
    LET n == Increment(m_seq)
    IN IF n # 0 /\ n % 32 = 31 THEN Increment(n) ELSE n

\* One level of sendPacket(), up to sendmsg().
Packet ==
    /\ sos' = IF ~m_first_run /\ m_seq = 0 THEN 0 ELSE sos
    /\ seq' = m_seq
    /\ m_seq' = NextSeq
    /\ header' = IF m_sdds_header_override = 0
                 THEN [header EXCEPT !["ttv"] = Value("time", IF valid THEN 1 ELSE 0)]
                 ELSE header
    /\ count' = IF count + 1 = Round THEN 0 ELSE count + 1
    /\ lapped' = (opened /\ (lapped \/ m_seq = 0))

\* sendmsg() succeeded; the recursion goes on with what is left of the block.
Send ==
    /\ left > 0
    /\ Packet
    /\ left' = IF left > Payload THEN left - Payload ELSE 0
    /\ m_first_run' = (m_first_run /\ left > Payload)
    /\ opened' = (opened \/ left <= Payload)
    /\ UNCHANGED <<config, running, m_active_stream, m_sri, valid>>

\* sendmsg() failed; the thread ends.
SendFails ==
    /\ left > 0
    /\ Packet
    /\ ThreadEnds
    /\ opened' = FALSE
    /\ UNCHANGED <<config, m_active_stream, m_sri, valid>>

-----------------------------------------------------------------------------

Next ==
    \/ \E o \in Overrides \cup {0} : Configure(o)
    \/ Start \/ StartFails \/ NewStream \/ Stop
    \/ \E eos \in BOOLEAN : Leave(eos)
    \/ \E n \in 1 .. 2 * Payload, s \in Sris, v \in BOOLEAN : ReadBlock(n, s, v)
    \/ Send \/ SendFails

Spec == Init /\ [][Next]_vars

-----------------------------------------------------------------------------
(* Properties.                                                             *)

TypeOK ==
    /\ override_sdds_header \in Overrides \cup {0}
    /\ m_sdds_header_override \in Overrides \cup {0}
    /\ started \in BOOLEAN
    /\ running \in BOOLEAN
    /\ m_active_stream \in BOOLEAN
    /\ m_first_run \in BOOLEAN
    /\ m_seq \in 0 .. SeqMod - 1
    /\ seq \in 0 .. SeqMod - 1
    /\ sos \in {0, 1}
    /\ header \in [Fields -> Values]
    /\ m_sri \in Sris \cup {0}
    /\ valid \in BOOLEAN
    /\ left \in 0 .. 2 * Payload
    /\ count \in 0 .. Round - 1
    /\ opened \in BOOLEAN
    /\ lapped \in BOOLEAN

\* A step that hands a packet to sendmsg(), whose header is then the template.
Sends == left > 0 /\ left' # left

\* BulkIOToSDDSProcessor.cpp:421-423: the n-th packet of a round has the number
\* n + n \div 31.  The parity numbers are skipped and no other, through failed sends
\* and from one stream to the next, and the round closes with the 16 bits.
NumberedInOrder == m_seq = Slot(count)

\* The start of sequence bit is set from the first packet of a run until number 0
\* comes round again (tests/Sdds.py:46-48, testSoS).
SosUntilRoundEnds == [][Sends => (sos' = 0 <=> lapped')]_vars

\* With an override every field of every packet is the user's.
OverrideComplete ==
    [][Sends /\ m_sdds_header_override # 0 =>
          \A f \in Fields : header'[f] = Value("user", override_sdds_header)]_vars

\* Without one the complex bit, the frequency and the time tag flag belong to the
\* block that is being sent.
DerivedFromBlock ==
    [][Sends /\ m_sdds_header_override = 0 =>
          /\ \A f \in FromSri : header'[f] = Value("sri", m_sri)
          /\ header'["ttv"] = Value("time", IF valid THEN 1 ELSE 0)]_vars

\* README.md:97-107: a value of override_sdds_header is used if it is enabled.
OverrideEnds ==
    [][Sends /\ m_sdds_header_override = 0 =>
          \A f \in Fields : header'[f].by # "user"]_vars

=============================================================================
