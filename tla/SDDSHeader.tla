------------------------------ MODULE SDDSHeader ------------------------------
(***************************************************************************)
(* The bits of the packet header.  SDDSPackets says where the value of a   *)
(* field comes from; this module carries the values themselves through the *)
(* bit-fields, the flags in the top bits of msptr and the network byte     *)
(* order of SDDSpacket (sddspacket.h), on a little-endian host, to what    *)
(* the receiver reads.                                                     *)
(***************************************************************************)
EXTENDS SDDSPackets

CONSTANTS
    BytesPerSample,  \* sizeof(NATIVE_TYPE)
    Mode, Rate,      \* of each SRI: 1 for complex samples, and 1 / xdelta
    UserHeader,      \* the struct of each override: unsigned shorts, and the frequency
    Memory,          \* what the template may hold before the constructor runs
    FreqMod          \* the values of freq, in steps of its lowest bit: 2^64 in the code

ASSUME BytesAssumption == BytesPerSample \in {1, 2, 4}
ASSUME SriAssumption == Mode \in [Sris -> {0, 1}] /\ Rate \in [Sris -> Nat]
ASSUME FreqAssumption == FreqMod \in Nat \ {0} /\ FreqMod % 2 = 0

\* A word of the header has 16 bits.
Word == {n \in Nat : n < 65536}
UserHeaders ==
    [dmode : Word, bps : Word, cx : Word, msv : Word, ttv : Word, sscv : Word,
     msptr : Word, msdel : Word, freq : Nat]

\* dmode, bps and cx are bit-fields; msptr, msdel and freq lie in network order.
Templates ==
    [dmode : 0 .. 7, bps : 0 .. 31, cx : 0 .. 1, msptr : Word, msdel : Word,
     freq : 0 .. FreqMod - 1]

ASSUME UserHeaderAssumption == UserHeader \in [Overrides -> UserHeaders]
ASSUME MemoryAssumption == Memory \subseteq Templates

VARIABLE m_sdds_template

-----------------------------------------------------------------------------
(* The methods of SDDSpacket.                                              *)

\* htons() and ntohs()
Swapped(w) == (w % 256) * 256 + w \div 256

\* The flags in msptr, as a little-endian host sees them, and in the order of the network.
MSV  == 128
TTV  == 64
SSCV == 32
Has(w, flag) == (w \div flag) % 2 = 1
SetFlag(w, flag, on) == (IF Has(w, flag) THEN w - flag ELSE w) + (IF on THEN flag ELSE 0)

\* Variant: all the low byte is kept, the reserved bits with the flags.
set_msptr_KeepsByte(w, v) == Swapped(v % 2048) + ((w % 256) \div 8) * 8

\* The flags in w stay.
set_msptr(w, v) == Swapped(v % 2048) + ((w % 256) \div 32) * 32

\* The conversion to uint64_t: undefined for what the type cannot hold.
ToFreq(v) == IF v < FreqMod THEN {v} ELSE 0 .. FreqMod - 1

-----------------------------------------------------------------------------
(* The functions of the processor, on a template h.                        *)

\* initializeSDDSHeader()
InitializeSDDSHeader(h) ==
    [h EXCEPT !.msptr = SetFlag(h.msptr, SSCV, TRUE),
              !.dmode = CASE BytesPerSample = 1 -> 1 [] BytesPerSample = 2 -> 2 [] OTHER -> 0]

\* Variant: a float has 32 bits.
DefaultBps_Float == (8 * BytesPerSample) % 32

\* The bit-field of setStream().
DefaultBps == IF BytesPerSample = 4 THEN 31 ELSE 8 * BytesPerSample

\* What overrideSddsHeader() makes of h: the bit-fields keep the low bits of a value.
OverrideSddsHeader(o, h) ==
    IF o = 0 THEN {h} ELSE
    LET u == UserHeader[o]
        msptr == set_msptr(h.msptr, u.msptr)
        msv   == SetFlag(msptr, MSV, u.msv # 0)
        sscv  == SetFlag(msv, SSCV, u.sscv # 0)
    IN  {[dmode |-> u.dmode % 8, bps |-> u.bps % 32, cx |-> u.cx % 2,
          msptr |-> SetFlag(sscv, TTV, u.ttv # 0), msdel |-> Swapped(u.msdel),
          freq |-> n] : n \in ToFreq(u.freq)}

\* The digitizer clock, twice the sample rate of complex samples.
Frequency(s) == IF Mode[s] = 1 THEN 2 * Rate[s] ELSE Rate[s]

-----------------------------------------------------------------------------
(* The template moves with the steps of SDDSPackets.                       *)

HeaderInit ==
    /\ Init
    /\ \E h \in Memory : m_sdds_template = InitializeSDDSHeader(h)

StartValues ==
    /\ Start
    /\ m_sdds_template' \in IF m_active_stream
                            THEN OverrideSddsHeader(override_sdds_header, m_sdds_template)
                            ELSE {m_sdds_template}

NewStreamValues ==
    /\ NewStream
    /\ LET h == IF m_sdds_header_override = 0
                THEN [m_sdds_template EXCEPT !.bps = DefaultBps] ELSE m_sdds_template
       IN m_sdds_template' \in
             IF started THEN OverrideSddsHeader(m_sdds_header_override, h) ELSE {h}

ReadBlockValues(n, s, v) ==
    /\ ReadBlock(n, s, v)
    /\ m_sdds_template' \in
          IF (m_first_run \/ s # m_sri) /\ m_sdds_header_override = 0
          THEN {[m_sdds_template EXCEPT !.cx = Mode[s], !.freq = q] : q \in ToFreq(Frequency(s))}
          ELSE {m_sdds_template}

\* setSddsTimestamp(), on the way to sendmsg().
PacketValues ==
    /\ Send \/ SendFails
    /\ m_sdds_template' =
          IF m_sdds_header_override = 0
          THEN [m_sdds_template EXCEPT !.msptr = SetFlag(@, TTV, valid)]
          ELSE m_sdds_template

HeaderNext ==
    \/ StartValues \/ NewStreamValues \/ PacketValues
    \/ \E n \in 1 .. 2 * Payload, s \in Sris, v \in BOOLEAN : ReadBlockValues(n, s, v)
    \/ /\ \/ \E o \in Overrides \cup {0} : Configure(o)
          \/ StartFails \/ Stop
          \/ \E eos \in BOOLEAN : Leave(eos)
       /\ UNCHANGED m_sdds_template

HeaderSpec == HeaderInit /\ [][HeaderNext]_<<vars, m_sdds_template>>

-----------------------------------------------------------------------------
(* Properties.                                                             *)

\* What the tests read from a packet (tests/test_SinkSDDS.py:782-831): 16 bits in network
\* order, the flags on top, 13 bits for msptr.
Flag(w, b) == IF Has(Swapped(w), b) THEN 1 ELSE 0
Received(h) ==
    [dmode |-> h.dmode, bps |-> h.bps, cx |-> h.cx, msv |-> Flag(h.msptr, 32768),
     ttv |-> Flag(h.msptr, 16384), sscv |-> Flag(h.msptr, 8192),
     msptr |-> Swapped(h.msptr) % 8192, msdel |-> Swapped(h.msdel), freq |-> h.freq]

\* The values a field has room for; freq is a signed number to the receiver.
Room ==
    [dmode |-> 8, bps |-> 32, cx |-> 2, msv |-> 2, ttv |-> 2, sscv |-> 2, msptr |-> 2048,
     msdel |-> 65536, freq |-> FreqMod \div 2]

\* The value the documentation gives a field, by where it comes from.
Documented(f, source) ==
    CASE source.by = "user" -> UserHeader[source.of][f]
      [] source.by = "sri"  -> (IF f = "cx" THEN Mode ELSE [s \in Sris |-> Frequency(s)])[source.of]
      [] source.by = "time" -> source.of
      [] source.by = "code" /\ f = "sscv" -> 1
      [] source.by = "code" /\ f = "bps" ->
            [b \in {1, 2, 4} |-> CASE b = 1 -> 8 [] b = 2 -> 16 [] OTHER -> 31][BytesPerSample]
      [] source.by = "code" /\ f = "dmode" ->
            [b \in {1, 2, 4} |-> CASE b = 1 -> 1 [] b = 2 -> 2 [] OTHER -> 0][BytesPerSample]

\* README.md:97-107: the receiver reads in every field what the user, the SRI, the time
\* stamp or the default gave it, if it has room for that: the bit-fields, the flags that
\* share a word with msptr, and the byte order disturb no field, whatever order the
\* setters were called in and whatever the memory held.
FieldsReceived ==
    \A f \in DOMAIN Room :
        header[f].by # "memory" /\ Documented(f, header[f]) < Room[f] =>
            Received(m_sdds_template)[f] = Documented(f, header[f])

=============================================================================
