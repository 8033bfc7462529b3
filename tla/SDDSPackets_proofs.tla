-------------------------- MODULE SDDSPackets_proofs --------------------------
(***************************************************************************)
(* Proofs about SDDSPackets, for every width of the sequence number that   *)
(* is a multiple of 32, every payload, and any SRIs and override values.   *)
(***************************************************************************)
EXTENDS SDDSPackets, TLAPS

USE SeqModAssumption, PayloadAssumption, SrisAssumption, OverridesAssumption

-----------------------------------------------------------------------------
(* Types.                                                                  *)

LEMMA RoundIsPositive == Round \in Nat \ {0}
  BY DEF Round

LEMMA NextSeqTyped ==
  ASSUME m_seq \in 0 .. SeqMod - 1
  PROVE  NextSeq \in 0 .. SeqMod - 1
  BY DEF NextSeq, Increment

\* Overriding a header leaves it a header.
LEMMA OverriddenTyped ==
  ASSUME NEW hdr \in [Fields -> Values], NEW o \in Overrides \cup {0}
  PROVE  Overridden(o, hdr) \in [Fields -> Values]
  BY DEF Overridden, Values, Value

LEMMA PacketTyped ==
  ASSUME TypeOK, Packet
  PROVE  /\ m_seq' \in 0 .. SeqMod - 1 /\ seq' \in 0 .. SeqMod - 1
         /\ sos' \in {0, 1}
         /\ header' \in [Fields -> Values]
         /\ count' \in 0 .. Round - 1
         /\ lapped' \in BOOLEAN
  <1>1. m_seq' \in 0 .. SeqMod - 1 /\ seq' \in 0 .. SeqMod - 1
    BY NextSeqTyped DEF TypeOK, Packet
  <1>2. sos' \in {0, 1}
    BY DEF TypeOK, Packet
  <1>3. header' \in [Fields -> Values]
    BY DEF TypeOK, Packet, Values, Value
  <1>4. count' \in 0 .. Round - 1
    BY RoundIsPositive DEF TypeOK, Packet
  <1>5. lapped' \in BOOLEAN
    BY DEF TypeOK, Packet
  <1> QED BY <1>1, <1>2, <1>3, <1>4, <1>5

LEMMA SriTyped ==
  ASSUME TypeOK, NEW s \in Sris, setSddsHeaderFromSri(s)
  PROVE  header' \in [Fields -> Values] /\ sos' \in {0, 1}
  BY DEF TypeOK, setSddsHeaderFromSri, Values, Value

LEMMA TypeInductive == TypeOK /\ [Next]_vars => TypeOK'
  <1> SUFFICES ASSUME TypeOK, [Next]_vars PROVE TypeOK'
    OBVIOUS
  <1> USE DEF template, history, config
  <1>1. ASSUME NEW o \in Overrides \cup {0}, Configure(o) PROVE TypeOK'
    BY <1>1 DEF TypeOK, Configure
  <1>2. CASE Start
    BY <1>2, OverriddenTyped DEF TypeOK, Start
  <1>3. CASE StartFails
    BY <1>3 DEF TypeOK, StartFails
  <1>4. CASE NewStream
    <2> DEFINE hdr == IF m_sdds_header_override = 0
                      THEN [header EXCEPT !["bps"] = Value("code", 0)] ELSE header
    <2>1. hdr \in [Fields -> Values]
      BY DEF TypeOK, Values, Value
    <2>2. header' \in [Fields -> Values]
      BY <1>4, <2>1, OverriddenTyped DEF TypeOK, NewStream
    <2> QED BY <1>4, <2>2, ZenonT(40) DEF TypeOK, NewStream
  <1>5. CASE Stop
    BY <1>5, ZenonT(40) DEF TypeOK, Stop
  <1>6. ASSUME NEW eos \in BOOLEAN, Leave(eos) PROVE TypeOK'
    BY <1>6 DEF TypeOK, Leave, ThreadEnds
  <1>7. ASSUME NEW n \in 1 .. 2 * Payload, NEW s \in Sris, NEW v \in BOOLEAN,
               ReadBlock(n, s, v)
        PROVE  TypeOK'
    <2>1. header' \in [Fields -> Values] /\ sos' \in {0, 1}
      BY <1>7, SriTyped DEF TypeOK, ReadBlock
    <2> QED BY <1>7, <2>1 DEF TypeOK, ReadBlock
  <1>8. CASE Send
    BY <1>8, PacketTyped DEF TypeOK, Send
  <1>9. CASE SendFails
    <2>1. 0 \in 0 .. 2 * Payload
      OBVIOUS
    <2>2. Packet /\ left' = 0 /\ running' = FALSE /\ m_first_run' = TRUE /\ opened' = FALSE
      BY <1>9 DEF SendFails, ThreadEnds
    <2>3. UNCHANGED <<config, m_active_stream, m_sri, valid>>
      BY <1>9 DEF SendFails
    <2> QED BY <2>1, <2>2, <2>3, PacketTyped DEF TypeOK
  <1>10. CASE UNCHANGED vars
    BY <1>10 DEF TypeOK, vars
  <1> QED
    BY <1>1, <1>2, <1>3, <1>4, <1>5, <1>6, <1>7, <1>8, <1>9, <1>10 DEF Next

\* The variables keep their types: m_seq stays within its 16 bits.
THEOREM PacketsTypeCorrect == Spec => []TypeOK
  <1>1. Init => TypeOK
    <2> SUFFICES ASSUME Init PROVE TypeOK
      OBVIOUS
    <2>1. header \in [Fields -> Values]
      BY DEF Init, Values, Value
    <2>2. 0 \in 0 .. 2 * Payload /\ 0 \in 0 .. SeqMod - 1 /\ 0 \in 0 .. Round - 1
      BY RoundIsPositive
    <2> QED BY <2>1, <2>2 DEF Init, TypeOK
  <1> QED BY <1>1, TypeInductive, PTL DEF Spec

-----------------------------------------------------------------------------
(* The sequence number.                                                    *)

\* The number in the template is that of a packet with signal data.
NoParityNumber == seq % 32 # 31

NumberInv == NumberedInOrder /\ NoParityNumber

LEMMA SlotIsNoParityNumber ==
  ASSUME NEW n \in Nat
  PROVE  Slot(n) % 32 # 31
  BY DEF Slot

\* NextSeq follows Slot from one packet of a round to the next, and from the last
\* to the first.
LEMMA NextSeqIsNextSlot ==
  ASSUME NEW n \in 0 .. Round - 1, m_seq = Slot(n)
  PROVE  NextSeq = Slot(IF n + 1 = Round THEN 0 ELSE n + 1)
  <1> DEFINE k == SeqMod \div 32
  <1>1. k \in Nat /\ SeqMod = 32 * k /\ Round = 31 * k
    BY DEF Round
  <1>2. CASE n + 1 = Round
    <2>1. n \div 31 = k - 1 /\ m_seq = 32 * k - 2
      BY <1>1, <1>2 DEF Slot
    <2>2. Increment(m_seq) = 32 * k - 1 /\ (32 * k - 1) % 32 = 31 /\ 32 * k - 1 # 0
      BY <1>1, <2>1 DEF Increment
    <2>3. NextSeq = 0
      BY <1>1, <2>2 DEF NextSeq, Increment
    <2> QED BY <1>2, <2>3 DEF Slot
  <1>3. CASE n + 1 < Round
    <2> DEFINE q == n \div 31
               r == n % 31
    <2>1. q \in Nat /\ r \in 0 .. 30 /\ n = 31 * q + r /\ q < k
      BY <1>1, <1>3
    <2>2. m_seq = 32 * q + r
      BY <2>1 DEF Slot
    <2>3. CASE r < 30
      <3>1. (n + 1) \div 31 = q /\ Slot(n + 1) = 32 * q + r + 1
        BY <2>1, <2>3 DEF Slot
      <3>2. Increment(m_seq) = 32 * q + r + 1 /\ (32 * q + r + 1) % 32 # 31
        BY <1>1, <2>1, <2>2, <2>3 DEF Increment
      <3> QED BY <1>3, <3>1, <3>2 DEF NextSeq
    <2>4. CASE r = 30
      <3>1. (n + 1) \div 31 = q + 1 /\ Slot(n + 1) = 32 * q + 32 /\ q + 1 < k
        BY <1>1, <1>3, <2>1, <2>4 DEF Slot
      <3>2. Increment(m_seq) = 32 * q + 31 /\ (32 * q + 31) % 32 = 31
        BY <1>1, <2>1, <2>2, <2>4 DEF Increment
      <3>3. Increment(32 * q + 31) = 32 * q + 32
        BY <1>1, <2>1, <3>1 DEF Increment
      <3> QED BY <1>3, <2>1, <3>1, <3>2, <3>3 DEF NextSeq
    <2> QED BY <2>1, <2>3, <2>4
  <1> QED BY <1>2, <1>3, RoundIsPositive

LEMMA PacketNumbered ==
  ASSUME TypeOK, NumberInv, Packet
  PROVE  NumberInv'
  <1>1. m_seq' = Slot(count')
    BY NextSeqIsNextSlot DEF TypeOK, NumberInv, NumberedInOrder, Packet
  <1>2. seq' % 32 # 31
    BY SlotIsNoParityNumber DEF TypeOK, NumberInv, NumberedInOrder, Packet
  <1> QED BY <1>1, <1>2 DEF NumberInv, NumberedInOrder, NoParityNumber, Slot

LEMMA NumberInductive == TypeOK /\ NumberInv /\ [Next]_vars => NumberInv'
  <1> SUFFICES ASSUME TypeOK, NumberInv, [Next]_vars PROVE NumberInv'
    OBVIOUS
  <1>1. CASE Send \/ SendFails
    BY <1>1, PacketNumbered DEF Send, SendFails
  <1>2. CASE UNCHANGED <<m_seq, seq, count>>
    BY <1>2 DEF NumberInv, NumberedInOrder, NoParityNumber, Slot
  <1> QED
    BY <1>1, <1>2 DEF Next, Configure, Start, StartFails, NewStream, Stop, Leave, ReadBlock,
                      vars, template, history

\* Packets are numbered without gaps other than the parity numbers, whatever fails.
THEOREM NumbersCorrect == Spec => []NumberedInOrder
  <1>1. Init => NumberInv
    BY DEF Init, NumberInv, NumberedInOrder, NoParityNumber, Slot
  <1>2. NumberInv => NumberedInOrder
    BY DEF NumberInv
  <1> QED BY <1>1, <1>2, NumberInductive, PacketsTypeCorrect, PTL DEF Spec

-----------------------------------------------------------------------------
(* Where the header fields come from.                                      *)

\* The header shows the SRI of the block read last.
ShowsSri == \A f \in FromSri : header[f] = Value("sri", m_sri)

HeaderInv ==
  /\ running => started
  /\ ~running => m_first_run
  /\ left > 0 => running
  /\ started => m_sdds_header_override = override_sdds_header
  /\ running /\ m_sdds_header_override # 0 =>
        \A f \in Fields : header[f] = Value("user", m_sdds_header_override)
  /\ running /\ m_sdds_header_override = 0 /\ (left > 0 \/ ~m_first_run) => ShowsSri

\* A packet changes the time tag flag of the header and nothing else of it.
LEMMA PacketHeader ==
  ASSUME TypeOK, Packet
  PROVE  /\ m_sdds_header_override # 0 => header' = header
         /\ m_sdds_header_override = 0 =>
               /\ \A f \in FromSri : header'[f] = header[f]
               /\ header'["ttv"] = Value("time", IF valid THEN 1 ELSE 0)
  BY DEF TypeOK, Packet, Fields, FromSri

LEMMA HeaderInductive == TypeOK /\ HeaderInv /\ [Next]_vars => HeaderInv'
  <1> SUFFICES ASSUME TypeOK, HeaderInv, [Next]_vars PROVE HeaderInv'
    OBVIOUS
  <1> USE DEF template, history, config, HeaderInv, ShowsSri
  <1>1. ASSUME NEW o \in Overrides \cup {0}, Configure(o) PROVE HeaderInv'
    BY <1>1 DEF Configure
  <1>2. CASE Start
    BY <1>2 DEF TypeOK, Start, Overridden
  <1>3. CASE StartFails
    BY <1>3 DEF TypeOK, StartFails
  <1>4. CASE NewStream
    BY <1>4 DEF TypeOK, NewStream, Overridden
  <1>5. CASE Stop
    BY <1>5 DEF Stop
  <1>6. ASSUME NEW eos \in BOOLEAN, Leave(eos) PROVE HeaderInv'
    BY <1>6 DEF Leave, ThreadEnds
  <1>7. ASSUME NEW n \in 1 .. 2 * Payload, NEW s \in Sris, NEW v \in BOOLEAN,
               ReadBlock(n, s, v)
        PROVE  HeaderInv'
    <2>1. CASE m_first_run \/ s # m_sri
      BY <1>7, <2>1 DEF TypeOK, ReadBlock, setSddsHeaderFromSri, Fields, FromSri
    <2>2. CASE ~m_first_run /\ s = m_sri
      BY <1>7, <2>2 DEF TypeOK, ReadBlock
    <2> QED BY <2>1, <2>2
  <1>8. CASE Send
    <2>1. left' > 0 => left > 0
      BY <1>8 DEF Send
    <2> QED BY <1>8, <2>1, PacketHeader DEF Send
  <1>9. CASE SendFails
    BY <1>9 DEF SendFails, ThreadEnds
  <1>10. CASE UNCHANGED vars
    BY <1>10 DEF vars
  <1> QED
    BY <1>1, <1>2, <1>3, <1>4, <1>5, <1>6, <1>7, <1>8, <1>9, <1>10 DEF Next

\* The override and the SRI are in force from run() to the last packet of the run.
THEOREM HeaderCorrect == Spec => []HeaderInv
  <1>1. Init => HeaderInv
    BY DEF Init, HeaderInv
  <1> QED BY <1>1, HeaderInductive, PacketsTypeCorrect, PTL DEF Spec

\* The packet that a step sends.
LEMMA SentPacket ==
  ASSUME TypeOK, HeaderInv, [Next]_vars, Sends
  PROVE  running /\ Packet
  <1>1. left # 0 /\ left' # left /\ running
    BY DEF Sends, HeaderInv, TypeOK
  <1>2. ~UNCHANGED vars
    BY <1>1 DEF vars
  <1>3. ~(Start \/ StartFails \/ NewStream \/ Stop)
    BY <1>1 DEF Start, StartFails, NewStream, Stop
  <1>4. /\ \A o \in Overrides \cup {0} : ~Configure(o)
        /\ \A eos \in BOOLEAN : ~Leave(eos)
        /\ \A n \in 1 .. 2 * Payload, s \in Sris, v \in BOOLEAN : ~ReadBlock(n, s, v)
    BY <1>1 DEF Configure, Leave, ReadBlock
  <1>5. Send \/ SendFails
    BY <1>2, <1>3, <1>4 DEF Next
  <1> QED BY <1>1, <1>5 DEF Send, SendFails

\* Every field of every packet is the user's when the override is enabled.
THEOREM OverrideCompleteHolds == Spec => OverrideComplete
  <1> DEFINE A == Sends /\ m_sdds_header_override # 0 =>
                     \A f \in Fields : header'[f] = Value("user", override_sdds_header)
  <1>1. TypeOK /\ HeaderInv /\ [Next]_vars => [A]_vars
    BY SentPacket, PacketHeader DEF HeaderInv
  <1>2. Spec => [][A]_vars
    BY <1>1, PacketsTypeCorrect, HeaderCorrect, PTL DEF Spec
  <1> QED BY <1>2 DEF OverrideComplete

\* Without one the fields taken from the SRI and the time stamp are those of the block
\* that is being sent.
THEOREM DerivedFromBlockHolds == Spec => DerivedFromBlock
  <1> DEFINE A == Sends /\ m_sdds_header_override = 0 =>
                     /\ \A f \in FromSri : header'[f] = Value("sri", m_sri)
                     /\ header'["ttv"] = Value("time", IF valid THEN 1 ELSE 0)
  <1>1. TypeOK /\ HeaderInv /\ [Next]_vars => [A]_vars
    <2> SUFFICES ASSUME TypeOK, HeaderInv, [Next]_vars, Sends, m_sdds_header_override = 0
                 PROVE  /\ \A f \in FromSri : header'[f] = Value("sri", m_sri)
                        /\ header'["ttv"] = Value("time", IF valid THEN 1 ELSE 0)
      OBVIOUS
    <2>1. ShowsSri
      BY SentPacket DEF HeaderInv, Sends
    <2> QED BY <2>1, SentPacket, PacketHeader DEF ShowsSri
  <1>2. Spec => [][A]_vars
    BY <1>1, PacketsTypeCorrect, HeaderCorrect, PTL DEF Spec
  <1> QED BY <1>2 DEF DerivedFromBlock

-----------------------------------------------------------------------------
(* The start of sequence bit.                                              *)

SosInv ==
  /\ m_first_run <=> ~opened
  /\ left > 0 /\ m_first_run => sos = 1
  /\ opened => (sos = 0 <=> lapped)

LEMMA PacketSos ==
  ASSUME TypeOK, SosInv, left > 0, Packet
  PROVE  (sos' = 0 <=> lapped') /\ (m_first_run => sos' = 1)
  <1>1. CASE m_first_run
    <2>1. sos' = 1 /\ ~opened
      BY <1>1 DEF SosInv, Packet
    <2>2. ~lapped'
      BY <2>1 DEF Packet
    <2> QED BY <2>1, <2>2
  <1>2. CASE ~m_first_run
    BY <1>2 DEF TypeOK, SosInv, Packet
  <1> QED BY <1>1, <1>2

LEMMA SosInductive == TypeOK /\ HeaderInv /\ SosInv /\ [Next]_vars => SosInv'
  <1> SUFFICES ASSUME TypeOK, HeaderInv, SosInv, [Next]_vars PROVE SosInv'
    OBVIOUS
  <1>1. CASE UNCHANGED <<m_first_run, left, sos, opened, lapped>>
    BY <1>1 DEF SosInv
  <1>2. ASSUME NEW eos \in BOOLEAN, Leave(eos) PROVE SosInv'
    BY <1>2 DEF SosInv, Leave, ThreadEnds
  <1>3. ASSUME NEW n \in 1 .. 2 * Payload, NEW s \in Sris, NEW v \in BOOLEAN,
               ReadBlock(n, s, v)
        PROVE  SosInv'
    <2>1. UNCHANGED <<m_first_run, opened, lapped>>
      BY <1>3 DEF ReadBlock, history
    <2>2. sos' = IF m_first_run THEN 1 ELSE sos
      BY <1>3 DEF ReadBlock, setSddsHeaderFromSri
    <2> QED BY <2>1, <2>2 DEF SosInv
  <1>4. CASE Send
    <2>1. /\ m_first_run' = (m_first_run /\ left > Payload)
          /\ opened' = (opened \/ left <= Payload)
          /\ left > 0
      BY <1>4 DEF Send
    <2>2. (sos' = 0 <=> lapped') /\ (m_first_run => sos' = 1)
      BY <1>4, <2>1, PacketSos DEF Send
    <2> QED BY <2>1, <2>2 DEF SosInv, TypeOK
  <1>5. CASE SendFails
    BY <1>5 DEF SosInv, SendFails, ThreadEnds
  <1> QED
    BY <1>1, <1>2, <1>3, <1>4, <1>5
    DEF Next, Configure, Start, StartFails, NewStream, Stop, vars, template, history

\* The start of sequence bit is cleared by the first number 0 after the first block of
\* a run, and stays set until then.
THEOREM SosUntilRoundEndsHolds == Spec => SosUntilRoundEnds
  <1> DEFINE A == Sends => (sos' = 0 <=> lapped')
  <1>1. Init => SosInv
    BY DEF Init, SosInv
  <1>2. Spec => []SosInv
    BY <1>1, SosInductive, PacketsTypeCorrect, HeaderCorrect, PTL DEF Spec
  <1>3. TypeOK /\ HeaderInv /\ SosInv /\ [Next]_vars => [A]_vars
    BY SentPacket, PacketSos DEF Sends
  <1>4. Spec => [][A]_vars
    BY <1>2, <1>3, PacketsTypeCorrect, HeaderCorrect, PTL DEF Spec
  <1> QED BY <1>4 DEF SosUntilRoundEnds

=============================================================================
