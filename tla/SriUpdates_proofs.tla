-------------------------- MODULE SriUpdates_proofs --------------------------
(***************************************************************************)
(* Proofs about SriUpdates, for any ports, connections and bounds.         *)
(***************************************************************************)
EXTENDS SriUpdates, TLAPS

USE PortsAssumption, SettingsAssumption, MaxSriAssumption

-----------------------------------------------------------------------------
(* The keywords of an SRI.                                                 *)

OneValue(keywords) == \A k, l \in keywords : k.id = l.id => k = l

LEMMA AddTyped ==
  ASSUME NEW K \in SUBSET Keyword, NEW id \in {"DATA_REF_STR", "BULKIO_SRI_PRIORITY"},
         NEW value \in BOOLEAN
  PROVE  addModifyKeyword(K, id, value) \in SUBSET Keyword
  BY DEF addModifyKeyword, Keyword

LEMMA AddKeepsOneValue ==
  ASSUME NEW K \in SUBSET Keyword, OneValue(K), NEW id, NEW value
  PROVE  OneValue(addModifyKeyword(K, id, value))
  BY DEF addModifyKeyword, OneValue

LEMMA WithKeywordsTyped ==
  ASSUME m_settings \in SettingsType, NEW sri \in Sri
  PROVE  /\ WithKeywords(sri) \in Sri
         /\ OneValueEach(sri) => OneValueEach(WithKeywords(sri))
  <1> DEFINE K == IF m_settings.priority
                  THEN addModifyKeyword(sri.keywords, "BULKIO_SRI_PRIORITY", TRUE)
                  ELSE sri.keywords
             L == addModifyKeyword(K, "DATA_REF_STR", m_settings.big)
  <1>1. sri.keywords \in SUBSET Keyword /\ m_settings.big \in BOOLEAN
    BY DEF Sri, SettingsType
  <1>2. K \in SUBSET Keyword
    BY <1>1, AddTyped
  <1>3. L \in SUBSET Keyword
    <2> HIDE DEF K
    <2> QED BY <1>1, <1>2, AddTyped
  <1>4. WithKeywords(sri) = [sri EXCEPT !.keywords = L]
    BY DEF WithKeywords
  <1> HIDE DEF L
  <1>5. WithKeywords(sri) \in Sri /\ WithKeywords(sri).keywords = L
    BY <1>3, <1>4 DEF Sri
  <1>6. ASSUME OneValueEach(sri) PROVE OneValue(L)
    <2>1. OneValue(sri.keywords)
      BY <1>6 DEF OneValueEach, OneValue
    <2>2. OneValue(K)
      BY <1>1, <2>1, AddKeepsOneValue
    <2> HIDE DEF K
    <2> QED BY <1>2, <2>2, AddKeepsOneValue DEF L
  <1> QED BY <1>5, <1>6 DEF OneValueEach, OneValue

\* Adding the keywords a second time changes nothing.
LEMMA WithKeywordsTwice ==
  ASSUME m_settings \in SettingsType, NEW sri \in Sri
  PROVE  WithKeywords(WithKeywords(sri)) = WithKeywords(sri)
  <1> DEFINE Marked(K) == addModifyKeyword(IF m_settings.priority
                              THEN addModifyKeyword(K, "BULKIO_SRI_PRIORITY", TRUE)
                              ELSE K, "DATA_REF_STR", m_settings.big)
  <1>1. ASSUME NEW K PROVE Marked(Marked(K)) = Marked(K)
    BY DEF addModifyKeyword
  <1>2. WithKeywords(sri) = [sri EXCEPT !.keywords = Marked(sri.keywords)]
    BY DEF WithKeywords
  <1>3. WithKeywords(WithKeywords(sri))
          = [WithKeywords(sri) EXCEPT !.keywords = Marked(WithKeywords(sri).keywords)]
    BY DEF WithKeywords
  <1>4. WithKeywords(sri).keywords = Marked(sri.keywords)
    <2> HIDE DEF Marked
    <2> QED BY <1>2 DEF Sri
  <1>5. WithKeywords(WithKeywords(sri)) = [WithKeywords(sri) EXCEPT !.keywords = Marked(sri.keywords)]
    BY <1>1, <1>3, <1>4
  <1> HIDE DEF Marked
  <1> QED BY <1>2, <1>5 DEF Sri

-----------------------------------------------------------------------------
(* Types.                                                                  *)

\* newConnectionMade() is called of connections there are, and what upstream sends has no
\* keyword twice.
Types ==
    /\ TypeOK
    /\ \A c \in Conns : callback[c].at # "none" => c \in connected
    /\ \A p \in Ports : OneValueEach(upstream[p])

LEMMA NoSriTyped == NoSri \in Sri /\ OneValueEach(NoSri)
  BY DEF NoSri, Sri, OneValueEach

LEMMA InitTyped == Init => Types
  <1> SUFFICES ASSUME Init PROVE Types
    OBVIOUS
  <1>1. m_settings \in SettingsType /\ NoThread \in Thread
    BY NoSriTyped DEF Init, SettingsType, NoThread, Thread, ThreadLabels
  <1>2. [at |-> "none", msg |-> NoSri, todo |-> {}] \in Callback
    BY NoSriTyped DEF Callback, CallbackLabels
  <1>3. thread \in [Ports -> Thread] /\ callback \in [Conns -> Callback]
    BY <1>1, <1>2 DEF Init
  <1>4. \A c \in Conns : callback[c].at = "none"
    BY DEF Init
  <1>5. m_sri \in [Ports -> Sri] /\ \A p \in Ports : OneValueEach(m_sri[p])
    BY NoSriTyped DEF Init
  <1>6. told \in [Conns -> SUBSET Sri] /\ last \in [Conns -> Sri]
    BY NoSriTyped DEF Init
  <1>7. upstream \in [Ports -> Sri] /\ \A p \in Ports : OneValueEach(upstream[p])
    BY NoSriTyped DEF Init
  <1>8. m_active_stream \in [Ports -> BOOLEAN] /\ m_first_run \in [Ports -> BOOLEAN]
    BY DEF Init
  <1>9. ops \in 0 .. MaxOps /\ sent \in 0 .. MaxSri
    BY DEF Init
  <1>10. /\ started \in BOOLEAN /\ done \in Nat /\ changed \in [Ports -> BOOLEAN]
         /\ ctl \in {"idle", "start", "stop"}
         /\ settings \in SettingsType
         /\ connected \subseteq Conns /\ unheard \subseteq connected
    BY DEF Init, SettingsType
  <1> QED
    BY <1>1, <1>3, <1>4, <1>5, <1>6, <1>7, <1>8, <1>9, <1>10 DEF Types, TypeOK

LEMMA LaunchTyped ==
  ASSUME Types, NEW S \in SUBSET Ports
  PROVE  Launch(S) \in [Ports -> Thread]
  BY NoSriTyped DEF Types, TypeOK, Launch, NoThread, Thread, ThreadLabels

LEMMA MoveTyped ==
  ASSUME Types, NEW p \in Ports, NEW label \in ThreadLabels, Move(p, label)
  PROVE  thread' \in [Ports -> Thread]
  <1>1. thread \in [Ports -> Thread]
    BY DEF Types, TypeOK
  <1>2. [thread[p] EXCEPT !.at = label] \in Thread
    BY <1>1 DEF Thread
  <1> QED BY <1>1, <1>2 DEF Move

LEMMA ReceivesTyped ==
  ASSUME Types, NEW c \in Conns, NEW sri \in Sri, Receives(c, sri)
  PROVE  told' \in [Conns -> SUBSET Sri] /\ last' \in [Conns -> Sri]
  BY DEF Types, TypeOK, Receives

LEMMA UpstreamTyped ==
  ASSUME Types, NEW p \in Ports, UpstreamSends(p)
  PROVE  /\ sent' \in 0 .. MaxSri
         /\ upstream' \in [Ports -> Sri] /\ \A q \in Ports : OneValueEach(upstream'[q])
  <1>1. PICK marks \in {{}, {[id |-> "DATA_REF_STR", value |-> TRUE]}} :
          upstream' = [upstream EXCEPT ![p] = [id |-> sent + 1, keywords |-> marks]]
    BY DEF UpstreamSends
  <1>2. sent' \in 0 .. MaxSri /\ sent + 1 \in 0 .. MaxSri
    BY DEF UpstreamSends, Types, TypeOK
  <1>3. [id |-> "DATA_REF_STR", value |-> TRUE] \in Keyword
    BY DEF Keyword
  <1>4. marks \in SUBSET Keyword /\ OneValue(marks)
    BY <1>1, <1>3 DEF OneValue
  <1> DEFINE sri == [id |-> sent + 1, keywords |-> marks]
  <1>5. sri \in Sri /\ OneValueEach(sri)
    BY <1>2, <1>4 DEF Sri, OneValue, OneValueEach
  <1> HIDE DEF sri
  <1>6. upstream' = [upstream EXCEPT ![p] = sri]
    BY <1>1 DEF sri
  <1> QED BY <1>2, <1>5, <1>6 DEF Types, TypeOK

-----------------------------------------------------------------------------
LEMMA TypesInductive == Types /\ [Next]_vars => Types'
  <1> SUFFICES ASSUME Types, [Next]_vars PROVE Types'
    OBVIOUS
  <1> USE DEF Types, TypeOK, control, source, accepted, downstream, received
  <1>1. ASSUME NEW p \in Ports, NewStream(p) PROVE Types'
    <2>1. /\ sent' \in 0 .. MaxSri
          /\ upstream' \in [Ports -> Sri] /\ \A q \in Ports : OneValueEach(upstream'[q])
      BY <1>1, UpstreamTyped DEF NewStream
    <2>2. thread' \in [Ports -> Thread]
      BY <1>1, LaunchTyped DEF NewStream
    <2>3. done' \in Nat
      BY <1>1 DEF NewStream
    <2>4. /\ changed' \in [Ports -> BOOLEAN] /\ m_active_stream' \in [Ports -> BOOLEAN]
          /\ UNCHANGED <<control, m_first_run, m_sri, downstream, received>>
      BY <1>1 DEF NewStream
    <2> QED BY <2>1, <2>2, <2>3, <2>4
  <1>2. ASSUME NEW p \in Ports, ChangeSri(p) PROVE Types'
    <2>1. /\ sent' \in 0 .. MaxSri
          /\ upstream' \in [Ports -> Sri] /\ \A q \in Ports : OneValueEach(upstream'[q])
      BY <1>2, UpstreamTyped DEF ChangeSri
    <2> QED BY <1>2, <2>1 DEF ChangeSri
  <1>3. ASSUME NEW p \in Ports, Read(p) PROVE Types'
    <2>1. thread' \in [Ports -> Thread]
      BY <1>3, MoveTyped DEF Read, ThreadLabels
    <2>2. m_sri' \in [Ports -> Sri] /\ \A q \in Ports : OneValueEach(m_sri'[q])
      BY <1>3 DEF Read
    <2> QED BY <1>3, <2>1, <2>2 DEF Read
  <1>4. ASSUME NEW p \in Ports, Push(p) PROVE Types'
    <2>1. WithKeywords(m_sri[p]) \in Sri /\ OneValueEach(WithKeywords(m_sri[p]))
      BY WithKeywordsTyped
    <2>2. m_sri' \in [Ports -> Sri] /\ \A q \in Ports : OneValueEach(m_sri'[q])
      BY <1>4, <2>1 DEF Push
    <2>3. [at |-> "deliver", msg |-> WithKeywords(m_sri[p]), todo |-> connected] \in Thread
      BY <2>1 DEF Thread, ThreadLabels
    <2> QED BY <1>4, <2>2, <2>3 DEF Push
  <1>5. ASSUME NEW p \in Ports, Deliver(p) PROVE Types'
    <2>1. thread[p].msg \in Sri /\ thread[p].todo \subseteq Conns
      BY DEF Thread
    <2>2. told' \in [Conns -> SUBSET Sri] /\ last' \in [Conns -> Sri]
      BY <1>5, <2>1, ReceivesTyped DEF Deliver
    <2>3. thread' \in [Ports -> Thread]
      BY <1>5, MoveTyped DEF Deliver, Thread, ThreadLabels
    <2> QED BY <1>5, <2>2, <2>3 DEF Deliver
  <1>6. ASSUME NEW p \in Ports, Send(p) PROVE Types'
    BY <1>6, MoveTyped DEF Send, ThreadLabels
  <1>7. ASSUME NEW p \in Ports, SendFails(p) \/ End(p) PROVE Types'
    <2>1. m_active_stream' \in [Ports -> BOOLEAN]
      BY <1>7 DEF SendFails, End
    <2>2. LeaveRun(p)
      BY <1>7 DEF SendFails, End
    <2>3. thread' \in [Ports -> Thread] /\ m_first_run' \in [Ports -> BOOLEAN] /\ done' \in Nat
      BY <2>2, NoSriTyped DEF LeaveRun, NoThread, Thread, ThreadLabels
    <2>4. UNCHANGED <<control, source, m_sri, downstream, received>>
      BY <2>2 DEF LeaveRun
    <2> QED BY <2>1, <2>3, <2>4
  <1>8. CASE Configure
    BY <1>8 DEF Configure, SettingsType
  <1>9. CASE Start
    BY <1>9, LaunchTyped DEF Start, Active
  <1>10. CASE StartFails \/ BaseStart \/ Stop \/ Stopped
    <2>1. CASE StartFails
      BY <2>1 DEF StartFails
    <2>2. CASE BaseStart
      BY <2>2 DEF BaseStart
    <2>3. CASE Stop
      <3>1. ops' \in 0 .. MaxOps
        BY <2>3 DEF Stop
      <3>2. UNCHANGED <<settings, m_settings, sent, upstream, changed, m_active_stream, done,
                        m_first_run, m_sri, thread, connected, callback, unheard, told, last>>
        BY <2>3 DEF Stop
      <3> QED BY <2>3, <3>1, <3>2 DEF Stop
    <2>4. CASE Stopped
      BY <2>4 DEF Stopped
    <2> QED BY <1>10, <2>1, <2>2, <2>3, <2>4
  <1>11. ASSUME NEW c \in Conns, Connect(c) PROVE Types'
    BY <1>11, SMTT(60) DEF Connect, Callback, CallbackLabels
  <1>12. ASSUME NEW c \in Conns, CheckStarted(c) PROVE Types'
    <2>1. c \in connected
      BY <1>12 DEF CheckStarted
    <2>2. callback' \in [Conns -> Callback]
      BY <1>12, NoSriTyped DEF CheckStarted, Callback, CallbackLabels
    <2>3. \A d \in Conns : callback'[d].at # "none" => d \in connected
      BY <1>12, <2>1 DEF CheckStarted
    <2> QED BY <1>12, <2>1, <2>2, <2>3 DEF CheckStarted
  <1>13. ASSUME NEW c \in Conns, Visit(c) PROVE Types'
    <2>1. \A p \in Ports : WithKeywords(m_sri[p]) \in Sri /\ OneValueEach(WithKeywords(m_sri[p]))
      BY WithKeywordsTyped
    <2>2. callback[c].todo \subseteq Ports /\ c \in connected
      BY <1>13 DEF Visit, Callback
    <2>3. m_sri' \in [Ports -> Sri] /\ \A q \in Ports : OneValueEach(m_sri'[q])
      BY <1>13, <2>1, <2>2 DEF Visit
    <2>4. callback' \in [Conns -> Callback]
      <3>1. CASE callback' = [callback EXCEPT ![c].at = "done"]
        <4>1. [callback[c] EXCEPT !.at = "done"] \in Callback
          BY SMTT(60) DEF Callback, CallbackLabels
        <4>2. callback' = [callback EXCEPT ![c] = [callback[c] EXCEPT !.at = "done"]]
          BY <3>1
        <4> HIDE DEF Callback
        <4> QED BY <4>1, <4>2
      <3>2. ASSUME NEW p \in Ports, callback' = [callback EXCEPT ![c].todo = @ \ {p}]
            PROVE  callback' \in [Conns -> Callback]
        BY <3>2 DEF Callback
      <3>3. ASSUME NEW p \in Ports,
                   callback' = [callback EXCEPT ![c] = [at   |-> "deliver",
                                                        msg  |-> WithKeywords(m_sri[p]),
                                                        todo |-> @.todo \ {p}]]
            PROVE  callback' \in [Conns -> Callback]
        <4>1. [at |-> "deliver", msg |-> WithKeywords(m_sri[p]), todo |-> callback[c].todo \ {p}]
                 \in Callback
          BY <2>1, <2>2 DEF Callback, CallbackLabels
        <4> QED BY <3>3, <4>1
      <3>4. \/ callback' = [callback EXCEPT ![c].at = "done"]
            \/ \E p \in Ports :
                  \/ callback' = [callback EXCEPT ![c].todo = @ \ {p}]
                  \/ callback' = [callback EXCEPT ![c] = [at   |-> "deliver",
                                                         msg  |-> WithKeywords(m_sri[p]),
                                                         todo |-> @.todo \ {p}]]
        BY <1>13, <2>2 DEF Visit
      <3> QED BY <3>1, <3>2, <3>3, <3>4
    <2>5. \A d \in Conns : callback'[d].at # "none" => d \in connected
      BY <1>13, <2>2 DEF Visit
    <2> QED BY <1>13, <2>3, <2>4, <2>5 DEF Visit
  <1>14. ASSUME NEW c \in Conns, Arrive(c) PROVE Types'
    <2>1. callback[c].msg \in Sri /\ c \in connected
      BY <1>14 DEF Arrive, Callback
    <2>2. told' \in [Conns -> SUBSET Sri] /\ last' \in [Conns -> Sri]
      BY <1>14, <2>1, ReceivesTyped DEF Arrive
    <2>3. callback' \in [Conns -> Callback]
      BY <1>14 DEF Arrive, Callback, CallbackLabels
    <2>4. \A d \in Conns : callback'[d].at # "none" => d \in connected
      BY <1>14, <2>1 DEF Arrive
    <2> QED BY <1>14, <2>2, <2>3, <2>4 DEF Arrive
  <1>15. CASE UNCHANGED vars
    BY <1>15 DEF vars
  <1> QED
    BY <1>1, <1>2, <1>3, <1>4, <1>5, <1>6, <1>7, <1>8, <1>9, <1>10, <1>11, <1>12, <1>13,
       <1>14, <1>15 DEF Next

LEMMA SpecTyped == Spec => []Types
  BY InitTyped, TypesInductive, PTL DEF Spec

\* Every variable keeps its type, and an SRI never has one keyword with two values, from
\* whichever thread it gets them (addModifyKeyword, BulkIOToSDDSProcessor.h:99).
THEOREM SriTypeCorrect == Spec => []TypeOK
  BY SpecTyped, PTL DEF Types

-----------------------------------------------------------------------------
(* What a connection has been told.                                        *)

\* WithKeywords() with the settings it reads as a parameter.
Tagged(set, sri) ==
    LET prioritized == IF set.priority
                       THEN addModifyKeyword(sri.keywords, "BULKIO_SRI_PRIORITY", TRUE)
                       ELSE sri.keywords
    IN  [sri EXCEPT !.keywords = addModifyKeyword(prioritized, "DATA_REF_STR", set.big)]

LEMMA TaggedIsWithKeywords == \A sri : WithKeywords(sri) = Tagged(m_settings, sri)
  BY DEF WithKeywords, Tagged

\* No thread is left behind by stop(), and start() sets started last.
Quiet ==
    /\ ~started /\ ctl = "idle" => Running = {}
    /\ ctl = "start" => ~started

\* A thread that runs has an active stream, one that begins has m_first_run set, and the
\* push under way carries the SRI of the processor.
ThreadsTold ==
    \A p \in Ports :
        /\ thread[p].at = "none" => m_first_run[p]
        /\ thread[p].at # "none" => m_active_stream[p]
        /\ thread[p].at = "deliver" => thread[p].msg = Tagged(m_settings, m_sri[p])

InFlight(c, sri) == callback[c].at = "deliver" /\ callback[c].msg = sri

\* The connections that were there when the threads were launched, and those whose callback
\* has visited the port.
Due(p, c) ==
    /\ c \in connected \ unheard
    /\ \/ ctl = "start"
       \/ callback[c].at = "done"
       \/ callback[c].at \in {"visit", "deliver"} /\ p \notin callback[c].todo

\* They have the SRI of the port, or will before its next packet.
Reached(p, c) ==
    \/ Tagged(m_settings, m_sri[p]) \in told[c]
    \/ InFlight(c, Tagged(m_settings, m_sri[p]))

Informed(p, c) ==
    /\ thread[p].at = "send" => Reached(p, c)
    /\ thread[p].at = "read" => m_first_run[p] \/ Reached(p, c)
    /\ thread[p].at = "deliver" => c \in thread[p].todo \/ Reached(p, c)

AllInformed == \A p \in Ports, c \in Conns : Due(p, c) => Informed(p, c)

SriInv == Quiet /\ ThreadsTold /\ AllInformed

LEMMA SriInvImplies == SriInv => SriBeforeData
  <1> SUFFICES ASSUME SriInv, NEW p \in Ports, NEW c \in Conns \ unheard,
                      thread[p].at = "send", Settled(c)
               PROVE  Tagged(m_settings, m_sri[p]) \in told[c]
    BY TaggedIsWithKeywords DEF SriBeforeData
  <1>1. Due(p, c) /\ callback[c].at = "done"
    BY DEF Due, Settled
  <1> QED BY <1>1 DEF SriInv, AllInformed, Informed, Reached, InFlight

LEMMA InitSri == Init => SriInv
  BY DEF Init, SriInv, Quiet, Running, ThreadsTold, AllInformed, Due, NoThread

LEMMA QuietInductive ==
  ASSUME Types, Quiet, [Next]_vars
  PROVE  Quiet'
  <1> USE DEF Types, TypeOK, Quiet, Running, control
  <1>1. ASSUME NEW p \in Ports, NewStream(p) PROVE Quiet'
    BY <1>1 DEF NewStream
  <1>2. ASSUME NEW p \in Ports, Read(p) \/ Push(p) \/ Deliver(p) \/ Send(p) \/ SendFails(p) \/ End(p)
        PROVE  Quiet'
    <2>1. p \in Running /\ UNCHANGED <<started, ctl>>
      BY <1>2 DEF Read, Push, Deliver, Send, SendFails, End, LeaveRun
    <2>2. CASE LeaveRun(p)
      BY <2>1, <2>2 DEF LeaveRun, NoThread
    <2> QED BY <2>1, <2>2 DEF Quiet
  <1>3. CASE Start
    BY <1>3 DEF Start
  <1>4. CASE \/ \E p \in Ports : ChangeSri(p)
             \/ Configure \/ StartFails \/ BaseStart \/ Stop \/ Stopped
    BY <1>4 DEF ChangeSri, Configure, StartFails, BaseStart, Stop, Stopped
  <1>5. ASSUME NEW c \in Conns, Connect(c) \/ CheckStarted(c) \/ Visit(c) \/ Arrive(c)
        PROVE  Quiet'
    BY <1>5 DEF Connect, CheckStarted, Visit, Arrive
  <1>6. CASE UNCHANGED vars
    BY <1>6 DEF vars
  <1> QED BY <1>1, <1>2, <1>3, <1>4, <1>5, <1>6 DEF Next

\* The SRI of a port and the settings that tag it, with the thread that sends it.
LEMMA ThreadsToldInductive ==
  ASSUME Types, Quiet, ThreadsTold, [Next]_vars
  PROVE  ThreadsTold'
  <1> USE DEF Types, TypeOK, ThreadsTold, control, accepted, Thread
  <1>1. ASSUME NEW p \in Ports, NewStream(p) PROVE ThreadsTold'
    BY <1>1 DEF NewStream, Launch, NoThread, Running
  <1>2. ASSUME NEW p \in Ports, Read(p) PROVE ThreadsTold'
    BY <1>2 DEF Read, Move
  <1>3. ASSUME NEW p \in Ports, Push(p) PROVE ThreadsTold'
    <2>1. Tagged(m_settings, Tagged(m_settings, m_sri[p])) = Tagged(m_settings, m_sri[p])
      BY WithKeywordsTwice, TaggedIsWithKeywords
    <2> QED BY <1>3, <2>1, TaggedIsWithKeywords DEF Push
  <1>4. ASSUME NEW p \in Ports, Deliver(p) PROVE ThreadsTold'
    BY <1>4 DEF Deliver, Move
  <1>5. ASSUME NEW p \in Ports, Send(p) PROVE ThreadsTold'
    BY <1>5 DEF Send, Move
  <1>6. ASSUME NEW p \in Ports, SendFails(p) \/ End(p) PROVE ThreadsTold'
    <2>1. \A q \in Ports \ {p} : m_active_stream'[q] = m_active_stream[q]
      BY <1>6 DEF SendFails, End
    <2>2. LeaveRun(p)
      BY <1>6 DEF SendFails, End
    <2> QED BY <2>1, <2>2 DEF LeaveRun, NoThread
  <1>7. CASE Start
    BY <1>7 DEF Start, Launch, NoThread, Active, Quiet, Running
  <1>8. CASE StartFails
    BY <1>8 DEF StartFails, Quiet, Running
  <1>9. CASE \/ \E p \in Ports : ChangeSri(p)
             \/ Configure \/ BaseStart \/ Stop \/ Stopped
    BY <1>9 DEF ChangeSri, Configure, BaseStart, Stop, Stopped
  <1>10. ASSUME NEW c \in Conns, Visit(c) PROVE ThreadsTold'
    <2>1. UNCHANGED <<m_settings, m_active_stream, m_first_run, thread>>
      BY <1>10 DEF Visit
    <2>2. ASSUME NEW p \in Ports
          PROVE  Tagged(m_settings, m_sri'[p]) = Tagged(m_settings, m_sri[p])
      <3>1. m_sri'[p] \in {m_sri[p], Tagged(m_settings, m_sri[p])}
        BY <1>10, TaggedIsWithKeywords DEF Visit, Callback
      <3> QED BY <3>1, WithKeywordsTwice, TaggedIsWithKeywords
    <2> QED BY <2>1, <2>2
  <1>11. ASSUME NEW c \in Conns, Connect(c) \/ CheckStarted(c) \/ Arrive(c)
         PROVE  ThreadsTold'
    BY <1>11 DEF Connect, CheckStarted, Arrive
  <1>12. CASE UNCHANGED vars
    BY <1>12 DEF vars
  <1> QED
    BY <1>1, <1>2, <1>3, <1>4, <1>5, <1>6, <1>7, <1>8, <1>9, <1>10, <1>11, <1>12 DEF Next

-----------------------------------------------------------------------------
\* A connection that is told something keeps what it was told.
LEMMA ReceivesMore ==
  ASSUME Types, NEW c \in Conns, NEW sri, Receives(c, sri)
  PROVE  sri \in told'[c] /\ \A d \in Conns : told[d] \subseteq told'[d]
  BY DEF Receives, Types, TypeOK

LEMMA ThreadInforms ==
  ASSUME Types, SriInv, NEW p \in Ports, NEW c \in Conns, NEW t \in Ports,
         Read(t) \/ Push(t) \/ Deliver(t) \/ Send(t) \/ SendFails(t) \/ End(t)
  PROVE  Due(p, c)' => Informed(p, c)'
  <1> USE DEF Types, TypeOK, Thread
  <1>1. UNCHANGED <<control, downstream>>
    BY DEF Read, Push, Deliver, Send, SendFails, End, LeaveRun
  <1>2. Due(p, c)' => Due(p, c) /\ Informed(p, c)
    BY <1>1 DEF Due, SriInv, AllInformed, control, downstream
  <1>3. CASE p # t
    <2>1. UNCHANGED <<thread[p], m_first_run[p], m_sri[p]>>
      BY <1>3 DEF Read, Push, Deliver, Send, SendFails, End, LeaveRun, Move
    <2>2. told[c] \subseteq told'[c]
      BY ReceivesMore DEF Read, Push, Deliver, Send, SendFails, End, LeaveRun, received
    <2> QED BY <1>1, <1>2, <2>1, <2>2 DEF Informed, Reached, InFlight, control, downstream
  <1>4. CASE p = t /\ Read(t)
    <2>1. CASE thread'[p].at = "push"
      BY <2>1 DEF Informed
    <2>2. CASE ~m_first_run[p] /\ thread[p].at = "read" /\ UNCHANGED m_sri
      BY <1>1, <1>2, <1>4, <2>2 DEF Informed, Reached, InFlight, Read, Move, control, downstream,
                                    received
    <2> QED BY <1>4, <2>1, <2>2 DEF Read, Move
  <1>5. CASE p = t /\ Push(t)
    <2>1. Due(p, c)' => c \in thread'[p].todo /\ thread'[p].at = "deliver"
      BY <1>1, <1>5 DEF Push, Due, downstream
    <2> QED BY <2>1 DEF Informed
  <1>6. CASE p = t /\ Deliver(t)
    <2>1. thread[p].at = "deliver" /\ UNCHANGED m_sri
      BY <1>6 DEF Deliver
    <2>2. thread[p].msg = Tagged(m_settings, m_sri[p])
      BY <2>1 DEF SriInv, ThreadsTold
    <2>3. ASSUME NEW d \in thread[p].todo, Receives(d, thread[p].msg),
                 thread' = [thread EXCEPT ![p].todo = @ \ {d}]
          PROVE  Due(p, c)' => Informed(p, c)'
      <3>1. d \in Conns
        OBVIOUS
      <3>2. d = c => Tagged(m_settings, m_sri[p]) \in told'[c]
        BY <2>2, <2>3, <3>1, ReceivesMore
      <3>3. told[c] \subseteq told'[c]
        BY <2>3, <3>1, ReceivesMore
      <3>4. thread'[p].at = "deliver" /\ thread'[p].todo = thread[p].todo \ {d}
        BY <2>1, <2>3
      <3> QED BY <1>1, <1>2, <2>1, <3>2, <3>3, <3>4
              DEF Informed, Reached, InFlight, control, downstream
    <2>4. ASSUME thread[p].todo = {}, Move(p, "send"), UNCHANGED received
          PROVE  Due(p, c)' => Informed(p, c)'
      <3>1. thread'[p].at = "send"
        BY <2>4 DEF Move
      <3> QED BY <1>1, <1>2, <2>1, <2>4, <3>1
              DEF Informed, Reached, InFlight, control, downstream, received
    <2> QED BY <1>6, <2>3, <2>4 DEF Deliver
  <1>7. CASE p = t /\ Send(t)
    <2>1. thread[p].at = "send" /\ thread'[p].at = "read"
      BY <1>7 DEF Send, Move
    <2>2. UNCHANGED <<m_sri, told>>
      BY <1>7 DEF Send, received
    <2> QED BY <1>1, <1>2, <2>1, <2>2 DEF Informed, Reached, InFlight, control, downstream
  <1>8. CASE p = t /\ (SendFails(t) \/ End(t))
    <2>1. thread'[p].at = "none"
      BY <1>8 DEF SendFails, End, LeaveRun, NoThread
    <2> QED BY <2>1 DEF Informed
  <1> QED BY <1>3, <1>4, <1>5, <1>6, <1>7, <1>8

LEMMA CallbackInforms ==
  ASSUME Types, SriInv, NEW p \in Ports, NEW c \in Conns, NEW d \in Conns,
         Connect(d) \/ CheckStarted(d) \/ Visit(d) \/ Arrive(d)
  PROVE  Due(p, c)' => Informed(p, c)'
  <1> USE DEF Types, TypeOK, Callback
  <1>1. UNCHANGED <<control, thread, m_first_run>>
    BY DEF Connect, CheckStarted, Visit, Arrive
  <1>2. Due(p, c) => Informed(p, c)
    BY DEF SriInv, AllInformed
  <1>3. ~(started \/ ctl = "stop" \/ ctl = "start") => thread[p].at = "none"
    BY DEF SriInv, Quiet, Running
  <1>4. CASE Connect(d)
    <2>1. c # d => Due(p, c)' = Due(p, c)
      BY <1>1, <1>4 DEF Connect, Due, control
    <2>2. callback'[d].at = "check"
      BY <1>4 DEF Connect
    <2>3. ctl = "start" => d \in unheard'
      BY <1>4 DEF Connect
    <2>4. c = d => ~Due(p, c)'
      BY <1>1, <2>2, <2>3 DEF Due, control
    <2>5. c # d => (Reached(p, c) => Reached(p, c)')
      BY <1>1, <1>4 DEF Connect, Reached, InFlight, control, received
    <2> QED BY <1>1, <1>2, <2>1, <2>4, <2>5 DEF Informed
  <1>5. CASE CheckStarted(d)
    <2>1. UNCHANGED <<m_sri, told, connected>>
      BY <1>5 DEF CheckStarted, received
    <2>2. Reached(p, c) => Reached(p, c)'
      BY <1>1, <1>5, <2>1 DEF CheckStarted, Reached, InFlight, control
    <2>3. c # d => Due(p, c)' = Due(p, c)
      BY <1>1, <1>5, <2>1 DEF CheckStarted, Due, control
    <2>4. CASE started
      <3>1. ctl # "start"
        BY <2>4 DEF SriInv, Quiet
      <3>2. callback'[d].at = "visit" /\ callback'[d].todo = Ports
        BY <1>5, <2>4 DEF CheckStarted
      <3>3. c = d => ~Due(p, c)'
        BY <1>1, <3>1, <3>2 DEF Due, control
      <3> QED BY <1>1, <1>2, <2>2, <2>3, <3>3 DEF Informed
    <2>5. CASE ~started
      <3>1. ctl = "stop" => d \in unheard'
        BY <1>5, <2>5 DEF CheckStarted
      <3>2. ctl = "start" => UNCHANGED unheard
        BY <1>5, <2>5 DEF CheckStarted
      <3>3. c = d /\ Due(p, c)' => Due(p, c) \/ thread[p].at = "none"
        BY <1>1, <1>3, <2>1, <2>5, <3>1, <3>2 DEF Due, control
      <3> QED BY <1>1, <1>2, <2>2, <2>3, <3>3 DEF Informed
    <2> QED BY <2>4, <2>5
  <1>6. CASE Visit(d)
    <2>1. /\ Tagged(m_settings, m_sri[p])' = Tagged(m_settings, m_sri[p])
          /\ UNCHANGED <<told, connected, unheard>>
      <3>1. m_sri'[p] \in {m_sri[p], Tagged(m_settings, m_sri[p])}
        BY <1>6, TaggedIsWithKeywords DEF Visit
      <3>2. Tagged(m_settings, m_sri'[p]) = Tagged(m_settings, m_sri[p])
        BY <3>1, WithKeywordsTwice, TaggedIsWithKeywords
      <3> QED BY <1>1, <1>6, <3>2 DEF Visit, control, received
    <2>2. Reached(p, c) => Reached(p, c)'
      BY <1>6, <2>1 DEF Visit, Reached, InFlight
    <2>3. CASE c # d
      <3>1. Due(p, c)' = Due(p, c)
        BY <1>1, <1>6, <2>1, <2>3 DEF Visit, Due, control
      <3> QED BY <1>1, <1>2, <2>2, <3>1 DEF Informed
    <2>4. CASE c = d /\ Due(p, c)
      BY <1>1, <1>2, <2>2, <2>4 DEF Informed
    <2>5. CASE c = d /\ ~Due(p, c) /\ Due(p, c)'
      <3>1. callback[d].at = "visit"
        BY <1>6 DEF Visit
      <3>2. p \in callback[d].todo /\ p \notin callback'[d].todo
        BY <1>1, <1>6, <2>1, <2>5, <3>1 DEF Visit, Due, control
      <3>3. CASE m_active_stream[p]
        <4>1. callback'[d].at = "deliver" /\ callback'[d].msg = Tagged(m_settings, m_sri[p])
          BY <1>6, <3>2, <3>3, TaggedIsWithKeywords DEF Visit
        <4> QED BY <2>1, <2>5, <4>1 DEF Informed, Reached, InFlight
      <3>4. CASE ~m_active_stream[p]
        <4>1. thread[p].at = "none"
          BY <3>4 DEF SriInv, ThreadsTold
        <4> QED BY <1>1, <4>1 DEF Informed
      <3> QED BY <3>3, <3>4
    <2> QED BY <2>3, <2>4, <2>5
  <1>7. CASE Arrive(d)
    <2>1. UNCHANGED <<m_sri, connected, unheard>>
      BY <1>7 DEF Arrive
    <2>2. Due(p, c)' = Due(p, c)
      BY <1>1, <1>7, <2>1 DEF Arrive, Due, control
    <2>3. callback[d].msg \in told'[d] /\ told[c] \subseteq told'[c]
      BY <1>7, ReceivesMore DEF Arrive
    <2>4. Reached(p, c) => Reached(p, c)'
      BY <1>1, <1>7, <2>1, <2>3 DEF Arrive, Reached, InFlight, control
    <2> QED BY <1>1, <1>2, <2>2, <2>4 DEF Informed
  <1> QED BY <1>4, <1>5, <1>6, <1>7

\* Steps after which port p sends nothing before it has read a block.
LEMMA FreshInforms ==
  ASSUME NEW p \in Ports, NEW c, thread'[p].at \in {"none", "read"}, m_first_run'[p]
  PROVE  Informed(p, c)'
  BY DEF Informed

LEMMA ControlInforms ==
  ASSUME Types, SriInv, NEW p \in Ports, NEW c \in Conns,
         \/ \E q \in Ports : NewStream(q) \/ ChangeSri(q)
         \/ Configure \/ Start \/ StartFails \/ BaseStart \/ Stop \/ Stopped
  PROVE  Due(p, c)' => Informed(p, c)'
  <1> USE DEF Types, TypeOK, control
  <1>1. Due(p, c) => Informed(p, c)
    BY DEF SriInv, AllInformed
  <1>2. Running = {} => thread[p].at = "none" /\ m_first_run[p]
    BY DEF SriInv, ThreadsTold, Running
  <1>3. CASE \E q \in Ports : NewStream(q)
    <2>1. PICK q \in Ports : NewStream(q)
      BY <1>3
    <2>2. CASE p = q
      <3>1. thread[p].at = "none" /\ m_first_run[p]
        BY <2>1, <2>2 DEF NewStream, SriInv, ThreadsTold
      <3> QED BY <2>1, <2>2, <3>1, FreshInforms DEF NewStream, Launch, NoThread
    <2>3. CASE p # q
      <3>1. thread'[p] = thread[p] /\ m_first_run' = m_first_run
        BY <2>1, <2>3 DEF NewStream, Launch
      <3>2. UNCHANGED <<control, m_sri, downstream, received>>
        BY <2>1 DEF NewStream
      <3> QED BY <1>1, <3>1, <3>2 DEF Due, Informed, Reached, InFlight, downstream, received
    <2> QED BY <2>2, <2>3
  <1>4. CASE Start
    <2>1. Running = {}
      BY <1>4 DEF Start, SriInv, Quiet
    <2> QED BY <1>2, <1>4, <2>1, FreshInforms DEF Start, Launch, NoThread
  <1>5. CASE StartFails
    <2>1. Running = {}
      BY <1>5 DEF StartFails, SriInv, Quiet
    <2> QED BY <1>2, <1>5, <2>1, FreshInforms DEF StartFails
  <1>6. CASE \/ \E q \in Ports : ChangeSri(q)
             \/ Configure \/ BaseStart \/ Stop \/ Stopped
    <2>1. UNCHANGED <<m_settings, m_sri, thread, m_first_run, downstream, received>>
      BY <1>6 DEF ChangeSri, Configure, BaseStart, Stop, Stopped
    <2>2. ctl' = "start" => ctl = "start"
      BY <1>6 DEF ChangeSri, Configure, BaseStart, Stop, Stopped
    <2>3. Due(p, c)' => Due(p, c)
      BY <2>1, <2>2 DEF Due, downstream
    <2>4. Informed(p, c)' = Informed(p, c)
      BY <2>1 DEF Informed, Reached, InFlight, downstream, received
    <2> QED BY <1>1, <2>3, <2>4
  <1> QED BY <1>3, <1>4, <1>5, <1>6

LEMMA SriInductive == Types /\ SriInv /\ [Next]_vars => SriInv'
  <1> SUFFICES ASSUME Types, SriInv, [Next]_vars PROVE SriInv'
    OBVIOUS
  <1>1. Quiet' /\ ThreadsTold'
    BY QuietInductive, ThreadsToldInductive DEF SriInv
  <1>2. ASSUME NEW p \in Ports, NEW c \in Conns PROVE Due(p, c)' => Informed(p, c)'
    <2>1. CASE UNCHANGED vars
      <3>1. Due(p, c) => Informed(p, c)
        BY DEF SriInv, AllInformed
      <3> QED BY <2>1, <3>1 DEF Due, Informed, Reached, InFlight, vars, control, downstream,
                                received
    <2> QED BY <2>1, ThreadInforms, CallbackInforms, ControlInforms DEF Next
  <1> QED BY <1>1, <1>2 DEF SriInv, AllInformed

\* No packet is sent before the connections were told its SRI, however the pushes of the
\* processing threads and of newConnectionMade() interleave, but for the connections that
\* found started() false while start() or stop() was running.
THEOREM SriBeforeDataHolds == Spec => []SriBeforeData
  <1>1. Types /\ SriInv /\ [Next]_vars => (Types /\ SriInv)'
    BY TypesInductive, SriInductive
  <1> QED BY <1>1, InitTyped, InitSri, SriInvImplies, PTL DEF Spec
=============================================================================
