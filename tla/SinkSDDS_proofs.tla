--------------------------- MODULE SinkSDDS_proofs ---------------------------
(***************************************************************************)
(* Proofs about SinkSDDS for every set of ports and streams and every      *)
(* bound on threads, blocks and calls.  The type invariant and the on-deck *)
(* invariants hold for every choice of Ops, PacedStreams, PacedControl and *)
(* SendMayFail; what the processors promise of their threads holds of a    *)
(* component that is not stopped.                                          *)
(***************************************************************************)
EXTENDS SinkSDDS, TLAPS

-----------------------------------------------------------------------------
(* The type invariant.                                                     *)

USE DEF NULL, Slots, Callers

\* A step of a call in progress leaves a record of the right type.
LEMMA CallTyped ==
    ASSUME call \in [Callers -> Calls], NEW c \in Callers, call[c] \in BusyCalls
    PROVE  /\ \A l \in CallLabels : Goto(c, l) => call' \in [Callers -> Calls]
           /\ Return(c) => call' \in [Callers -> Calls]
           /\ LeaveJoin(c) => call' \in [Callers -> Calls]
           /\ \A l \in CallLabels, k \in Slots \cup {NULL} :
                 call' = [call EXCEPT ![c].at = l, ![c].slot = k]
                     => call' \in [Callers -> Calls]
<1> USE DEF Goto, Return, LeaveJoin, Calls
<1>1. ASSUME NEW l \in CallLabels, NEW k \in Slots \cup {NULL},
             call' = [call EXCEPT ![c].at = l, ![c].slot = k]
      PROVE  call' \in [Callers -> Calls]
  <2>1. [call[c] EXCEPT !.at = l, !.slot = k] \in BusyCalls
    BY DEF BusyCalls
  <2> QED
    BY <1>1, <2>1
<1>2. ASSUME NEW l \in CallLabels, Goto(c, l)
      PROVE  call' \in [Callers -> Calls]
  <2>1. [call[c] EXCEPT !.at = l] \in BusyCalls
    BY DEF BusyCalls
  <2> QED
    BY <1>2, <2>1
<1>3. ASSUME Return(c) PROVE call' \in [Callers -> Calls]
  BY <1>3
<1>4. ASSUME LeaveJoin(c) PROVE call' \in [Callers -> Calls]
  BY <1>1, <1>3, <1>4 DEF CallLabels
<1> QED
  BY <1>1, <1>2, <1>3, <1>4

\* A step of run() or join() keeps the types.
LEMMA CallerTyped ==
    ASSUME TypeOK, NEW c \in Callers, Caller(c)
    PROVE  TypeOK'
<1> USE DEF TypeOK, sinkVars, bulkVars, members, outside, Caller
<1>0. call[c] \in BusyCalls
  BY DEF Calls, Idle, CallerStep, RunCheck, JoinCheck, JoinReturn, RunActive,
         RunAttach, RunSpawn, RunAssign
<1>1. call[c].port \in Ports /\ call[c].slot \in Slots \cup {NULL}
  BY <1>0 DEF BusyCalls
<1>2. CASE RunCheck(c)
  BY <1>0, <1>2, CallTyped DEF RunCheck, CallLabels
<1>3. CASE JoinCheck(c)
  BY <1>0, <1>1, <1>3, CallTyped DEF JoinCheck, CallLabels
<1>4. CASE JoinReturn(c)
  BY <1>0, <1>1, <1>4, CallTyped DEF JoinReturn
<1>5. CASE RunActive(c)
  BY <1>0, <1>5, CallTyped DEF RunActive, CallLabels
<1>6. CASE RunAttach(c)
  BY <1>0, <1>1, <1>6, CallTyped DEF RunAttach, CallLabels
<1>7. CASE RunSpawn(c)
  <2>1. PICK k \in Slots :
               /\ thread' = [thread EXCEPT ![call[c].port][k] = "begin"]
               /\ call' = [call EXCEPT ![c].at = "assign", ![c].slot = k]
    BY <1>7 DEF RunSpawn
  <2>2. call' \in [Callers -> Calls]
    BY <1>0, <2>1, CallTyped DEF CallLabels
  <2>3. thread' \in [Ports -> [Slots -> ThreadLabels]]
    BY <1>1, <2>1 DEF ThreadLabels
  <2> QED
    BY <1>7, <2>2, <2>3 DEF RunSpawn
<1>8. CASE RunAssign(c)
  BY <1>0, <1>1, <1>8, CallTyped DEF RunAssign
<1> QED
  BY <1>2, <1>3, <1>4, <1>5, <1>6, <1>7, <1>8 DEF CallerStep

\* A step of a processing thread keeps the types.
LEMMA ProcessingTyped ==
    ASSUME TypeOK, NEW p \in Ports, NEW k \in Slots, Processing(p, k)
    PROVE  TypeOK'
<1> USE DEF TypeOK, sinkVars, bulkVars, members, outside, Processing
<1>1. ASSUME NEW l \in ThreadLabels, Move(p, k, l)
      PROVE  thread' \in [Ports -> [Slots -> ThreadLabels]]
  BY <1>1 DEF Move
<1>2. CASE Begin(p, k)
  BY <1>1, <1>2 DEF Begin, ThreadLabels
<1>3. CASE Loop(p, k)
  BY <1>1, <1>3 DEF Loop, ThreadLabels
<1>4. CASE Read(p, k)
  <2>1. avail' \in [Streams -> Nat]
    <3>1. CASE ReadData(m_stream[p])
      <4> DEFINE t == m_stream[p]
                 n == avail[t] - 1
      <4>1. avail' = [avail EXCEPT ![t] = n]
        BY <3>1 DEF ReadData
      <4>2. t \in Streams => n \in Nat
        BY <3>1 DEF ReadData
      <4> HIDE DEF t, n
      <4> QED
        BY <4>1, <4>2
    <3>2. CASE ReadEmpty(m_stream[p])
      BY <3>2 DEF ReadEmpty
    <3> QED
      BY <1>4, <3>1, <3>2 DEF Read
  <2>2. thread' \in [Ports -> [Slots -> ThreadLabels]]
    BY <1>1, <1>4 DEF Read, ThreadLabels
  <2>3. UNCHANGED <<seen, ended, disabled, released>>
    BY <1>4 DEF Read, ReadData, ReadEmpty
  <2> QED
    BY <1>4, <2>1, <2>2, <2>3 DEF Read
<1>5. CASE SendPacket(p, k)
  BY <1>1, <1>5 DEF SendPacket, ShutSelf, ThreadLabels
<1>6. CASE TestEos(p, k)
  BY <1>1, <1>6 DEF TestEos, ShutSelf, ThreadLabels
<1>7. CASE Detach(p, k)
  BY <1>1, <1>7 DEF Detach, ShutSelf, ThreadLabels
<1>8. CASE Exit(p, k)
  BY <1>1, <1>8 DEF Exit, ThreadLabels
<1>9. CASE Finish(p, k)
  BY <1>1, <1>9 DEF Finish, ThreadLabels
<1> QED
  BY <1>2, <1>3, <1>4, <1>5, <1>6, <1>7, <1>8, <1>9 DEF ThreadStep

\* What upstream does keeps the types.
LEMMA UpstreamTyped ==
    ASSUME TypeOK, Upstream
    PROVE  TypeOK'
<1> USE DEF TypeOK, sinkVars, procVars, bulkVars, members, outside
<1>1. ASSUME NEW s \in Streams, Push(s) \/ PushEos(s), UNCHANGED <<procVars, sinkVars>>
      PROVE  TypeOK'
  <2>1. CASE Push(s)
    <3>1. avail' \in [Streams -> Nat]
      <4> DEFINE n == avail[s] + 1
      <4>1. n \in Nat
        OBVIOUS
      <4>2. avail' = [avail EXCEPT ![s] = n]
        BY <2>1 DEF Push
      <4> HIDE DEF n
      <4> QED
        BY <4>1, <4>2
    <3> QED
      BY <1>1, <2>1, <3>1 DEF Push
  <2>2. CASE PushEos(s)
    BY <1>1, <2>2 DEF PushEos
  <2> QED
    BY <1>1, <2>1, <2>2
<1>2. ASSUME NEW p \in Ports, NEW s \in Streams, NewStream(p, s)
      PROVE  TypeOK'
  <2>1. seen' = seen \cup {s} /\ s \notin seen
    BY <1>2 DEF NewStream, PutOnDeck, Open
  <2>2. CASE streamIsActive
    <3>1. disabled' = disabled \cup {s} /\ avail' = [avail EXCEPT ![s] = 0]
      BY <1>2, <2>2 DEF NewStream, PutOnDeck, Disable
    <3>2. deck' \in [Ports -> Seq(Streams)]
      <4>1. PICK base \in [Ports -> Seq(Streams)] : deck' = [base EXCEPT ![p] = Append(@, s)]
        <5>1. dropOnDeckStream \in [Ports -> Seq(Streams)]
          BY DEF dropOnDeckStream
        <5> QED
          BY <1>2, <2>2, <5>1 DEF NewStream, PutOnDeck
      <4>2. Append(base[p], s) \in Seq(Streams)
        OBVIOUS
      <4> QED
        BY <4>1, <4>2
    <3> QED
      BY <1>2, <2>1, <2>2, <3>1, <3>2 DEF NewStream, PutOnDeck
  <2>3. CASE ~streamIsActive
    <3>1. m_stream' \in [Ports -> Streams \cup {NoStream}] /\ m_active_stream' \in [Ports -> BOOLEAN]
      BY <1>2, <2>1, <2>3, ZenonT(40) DEF NewStream, PutOnDeck, setStream
    <3>2. call' \in [Callers -> Calls]
      BY <1>2, <2>3 DEF NewStream, PutOnDeck, ThenRunIfStarted, Calls, BusyCalls, CallLabels
    <3> QED
      BY <1>2, <2>1, <2>3, <3>1, <3>2 DEF NewStream, PutOnDeck
  <2> QED
    BY <2>2, <2>3
<1> QED
  BY <1>1, <1>2 DEF Upstream

\* The callback streamsDone() and the test of started() keep the types.
LEMMA CallbackTyped ==
    ASSUME TypeOK, streamsDone \/ CheckStarted
    PROVE  TypeOK'
<1> USE DEF TypeOK, sinkVars, bulkVars, members, outside
<1>1. CASE streamsDone
  <2>1. done' \in Nat
    BY <1>1 DEF streamsDone
  <2>2. CASE ~streamIsOnDeck
    BY <1>1, <2>1, <2>2 DEF streamsDone, streamIsOnDeck, IsFirst
  <2>3. CASE streamIsOnDeck
    <3>1. PICK p \in Ports :
                 /\ p \in OnDeckPorts
                 /\ Enable(deck[p][Len(deck[p])])
                 /\ setStream(p, deck[p][Len(deck[p])])
                 /\ deck' = [deck EXCEPT ![p] = <<>>]
                 /\ ThenRunIfStarted(p, NoStream)
      BY <1>1, <2>3 DEF streamsDone, IsFirst
    <3>2. disabled' \subseteq seen /\ deck' \in [Ports -> Seq(Streams)]
      BY <3>1 DEF Enable
    <3>3. m_stream' \in [Ports -> Streams \cup {NoStream}]
      <4>1. deck[p][Len(deck[p])] \in Streams
        BY <3>1 DEF OnDeckPorts
      <4> QED
        BY <3>1, <4>1 DEF setStream
    <3>4. call' \in [Callers -> Calls]
      BY <3>1 DEF ThenRunIfStarted, Calls, BusyCalls, CallLabels
    <3> QED
      BY <1>1, <2>1, <3>1, <3>2, <3>3, <3>4, ZenonT(40) DEF streamsDone, setStream
  <2> QED
    BY <2>2, <2>3
<1>2. CASE CheckStarted
  <2>1. call["callback"] \in BusyCalls
    BY <1>2 DEF CheckStarted, Calls, Idle
  <2> QED
    BY <1>2, <2>1, CallTyped DEF CheckStarted, CallLabels
<1> QED
  BY <1>1, <1>2

\* start() and stop() keep the types.
LEMMA ControlTyped ==
    ASSUME TypeOK, Start \/ Stop \/ Control
    PROVE  TypeOK'
<1> USE DEF TypeOK, sinkVars, procVars, bulkVars, members, outside, CtlLabels, Resting
<1>1. ASSUME NEW op \in {"run", "join"}, NEW p \in Ports, Begins(op, p)
      PROVE  call' \in [Callers -> Calls]
  BY <1>1 DEF Begins, Calls, BusyCalls, CallLabels
<1>2. CASE Start
  BY <1>2 DEF Start, Issue
<1>3. CASE LaunchNext
  BY <1>1, <1>3, ZenonT(40) DEF LaunchNext
<1>4. CASE BaseStart
  BY <1>4 DEF BaseStart
<1>5. CASE Stop
  BY <1>5 DEF Stop, Issue
<1>6. CASE ShutdownNext
  <2>1. ctl' \in [at : CtlLabels, todo : SUBSET Ports]
    BY <1>6 DEF ShutdownNext
  <2>2. m_shutdown' \in [Ports -> BOOLEAN]
    BY <1>6 DEF ShutdownNext, shutdown
  <2>3. UNCHANGED <<bulkVars, m_stream, m_active_stream, m_running,
                    m_processorThread, thread, call, outside, started, deck, issued>>
    BY <1>6 DEF ShutdownNext
  <2> QED
    BY <2>1, <2>2, <2>3
<1>7. CASE BaseStop
  BY <1>7 DEF BaseStop
<1>8. CASE JoinNext
  BY <1>1, <1>8 DEF JoinNext
<1>9. CASE CloseSocket
  BY <1>9 DEF CloseSocket
<1> QED
  BY <1>2, <1>3, <1>4, <1>5, <1>6, <1>7, <1>8, <1>9 DEF Control

\* Every reachable state is well typed.
THEOREM TypeCorrect == Spec => []TypeOK
<1>1. Init => TypeOK
  <2> SUFFICES ASSUME Init PROVE TypeOK
    OBVIOUS
  <2>1. call \in [Callers -> Calls] /\ thread \in [Ports -> [Slots -> ThreadLabels]]
    BY DEF Init, ProcInit, Calls, ThreadLabels
  <2>2. deck \in [Ports -> Seq(Streams)] /\ avail \in [Streams -> Nat]
    BY DEF Init, BulkInit
  <2>3. ctl \in [at : CtlLabels, todo : SUBSET Ports]
    BY DEF Init, Resting, CtlLabels
  <2> QED
    BY <2>1, <2>2, <2>3 DEF Init, BulkInit, ProcInit, TypeOK
<1>2. TypeOK /\ [Next]_vars => TypeOK'
  <2> SUFFICES ASSUME TypeOK, [Next]_vars PROVE TypeOK'
    OBVIOUS
  <2>1. CASE Next
    BY <2>1, UpstreamTyped, CallbackTyped, ControlTyped, CallerTyped, ProcessingTyped DEF Next
  <2>2. CASE UNCHANGED vars
    BY <2>2 DEF TypeOK, vars, bulkVars, procVars, sinkVars
  <2> QED
    BY <2>1, <2>2
<1> QED
  BY <1>1, <1>2, PTL DEF Spec

-----------------------------------------------------------------------------
(* The on-deck invariants.  OneOnDeck is inductive by itself.  DeckHasWaker *)
(* needs it: streamsDone() uses up a pending call and empties the vector of *)
(* one port, so that the waker may go only because nothing is left to wake. *)
(* DeckedIsDisabled needs both OneOnDeck and StreamsKnown, which tells a    *)
(* stream that has just been opened from the ones processors hold.          *)

DeckInv == OneOnDeck /\ DeckHasWaker /\ StreamsKnown /\ DeckedIsDisabled

\* A step that leaves the vectors alone keeps all four if it keeps a waker.
LEMMA DeckFrame ==
    ASSUME DeckInv, UNCHANGED <<deck, disabled, m_stream>>, seen \subseteq seen',
           DeckHasWaker', \A p \in Ports : m_active_stream'[p] => m_active_stream[p]
    PROVE  DeckInv'
BY DEF DeckInv, OneOnDeck, OnDeckPorts, StreamsKnown, DeckedIsDisabled, Waiting

\* A step of run() or join() creates threads but ends none.
LEMMA CallerDeck ==
    ASSUME TypeOK, DeckInv, NEW c \in Callers, Caller(c)
    PROVE  DeckInv'
<1> USE DEF bulkVars, members, outside, sinkVars, Caller, CallerStep
<1>1. UNCHANGED <<deck, disabled, m_stream, seen, m_active_stream, done>>
  BY DEF RunCheck, JoinCheck, JoinReturn, RunActive, RunAttach, RunSpawn, RunAssign
<1>2. ASSUME NEW p \in Ports, NEW k \in Slots, Live(p, k)
      PROVE  Live(p, k)'
  <2>1. CASE RunSpawn(c)
    <3>1. PICK j \in Slots : thread' = [thread EXCEPT ![call[c].port][j] = "begin"]
      BY <2>1 DEF RunSpawn
    <3> QED
      BY <1>2, <3>1 DEF Live, TypeOK
  <2>2. CASE ~RunSpawn(c)
    BY <1>2, <2>2 DEF RunCheck, JoinCheck, JoinReturn, RunActive, RunAttach, RunAssign, Live
  <2> QED
    BY <2>1, <2>2
<1>3. DeckHasWaker'
  BY <1>1, <1>2 DEF DeckInv, DeckHasWaker, streamIsOnDeck, OnDeckPorts, streamIsActive, isActive
<1> QED
  BY <1>1, <1>3, DeckFrame

\* start() and stop() end no thread and clear no active flag.
LEMMA ControlDeck ==
    ASSUME DeckInv, Start \/ Stop \/ Control
    PROVE  DeckInv'
<1> USE DEF bulkVars, procVars, members, outside, sinkVars
<1>1. UNCHANGED <<deck, disabled, m_stream, seen, m_active_stream, done, thread>>
  BY DEF Start, Stop, Control, LaunchNext, BaseStart, ShutdownNext, BaseStop, JoinNext, CloseSocket
<1>2. DeckHasWaker'
  BY <1>1 DEF DeckInv, DeckHasWaker, streamIsOnDeck, OnDeckPorts, streamIsActive, isActive, Live
<1> QED
  BY <1>1, <1>2, DeckFrame

\* A thread stays alive until it has handed streamsDone() on.
LEMMA ProcessingDeck ==
    ASSUME TypeOK, DeckInv, NEW p \in Ports, NEW k \in Slots, Processing(p, k)
    PROVE  DeckInv'
<1> USE DEF bulkVars, members, outside, sinkVars, Processing, ThreadStep
<1>1. UNCHANGED <<deck, disabled, m_stream, seen>>
  BY DEF Begin, Loop, Read, ReadData, ReadEmpty, SendPacket, TestEos, Detach, Exit, Finish
<1>2. DeckHasWaker'
  <2>1. CASE Finish(p, k)
    <3>1. done' > 0
      BY <2>1 DEF Finish, TypeOK
    <3> QED
      BY <3>1 DEF DeckHasWaker
  <2>2. CASE ~Finish(p, k)
    <3>1. PICK l \in ThreadLabels \ {"none"} : Move(p, k, l)
      BY <2>2 DEF Begin, Loop, Read, SendPacket, TestEos, Detach, Exit, ShutSelf, ThreadLabels
    <3>2. Live(p, k)'
      BY <3>1 DEF Move, Live, TypeOK
    <3> QED
      BY <3>2 DEF DeckHasWaker
  <2> QED
    BY <2>1, <2>2
<1>3. \A q \in Ports : m_active_stream'[q] => m_active_stream[q]
  BY DEF Begin, Loop, Read, SendPacket, TestEos, Detach, Exit, Finish, TypeOK
<1> QED
  BY <1>1, <1>2, <1>3, DeckFrame

\* What setStream() does to each processor.
LEMMA SetStreamEffect ==
    ASSUME TypeOK, NEW p \in Ports, NEW s, setStream(p, s)
    PROVE  \A q \in Ports :
              IF q = p /\ ~m_active_stream[p]
              THEN m_stream'[q] = s /\ m_active_stream'[q]
              ELSE m_stream'[q] = m_stream[q] /\ m_active_stream'[q] = m_active_stream[q]
<1>1. CASE m_active_stream[p]
  BY <1>1 DEF setStream
<1>2. CASE ~m_active_stream[p]
  BY <1>2 DEF setStream, TypeOK
<1> QED
  BY <1>1, <1>2

\* The one stream on deck, and the deck once streamsDone() has taken it.
LEMMA StreamsDoneWaiting ==
    ASSUME TypeOK, DeckInv, NEW p \in OnDeckPorts, deck' = [deck EXCEPT ![p] = <<>>]
    PROVE  /\ Waiting = {deck[p][Len(deck[p])]}
           /\ deck[p][Len(deck[p])] \in Streams
           /\ OneOnDeck' /\ DeckHasWaker' /\ Waiting' = {}
<1>1. p \in Ports /\ Len(deck[p]) = 1 /\ deck[p] \in Seq(Streams)
  BY DEF TypeOK, DeckInv, OneOnDeck, OnDeckPorts
<1>2. DOMAIN deck[p] = {1} /\ deck[p][1] \in Streams
  BY <1>1
<1>3. \A q \in Ports \ {p} : deck[q] = <<>>
  BY DEF DeckInv, OneOnDeck, OnDeckPorts
<1>4. \A q \in Ports : deck'[q] = <<>>
  BY <1>3 DEF TypeOK
<1>5. Waiting = {deck[p][1]}
  BY <1>1, <1>2, <1>3 DEF Waiting
<1>6. OneOnDeck' /\ DeckHasWaker' /\ Waiting' = {}
  BY <1>4 DEF OneOnDeck, DeckHasWaker, streamIsOnDeck, OnDeckPorts, Waiting
<1> QED
  BY <1>1, <1>2, <1>5, <1>6

\* streamsDone() empties the deck, whether the stream it takes is accepted or not.
LEMMA StreamsDoneDeck ==
    ASSUME TypeOK, DeckInv, streamsDone
    PROVE  DeckInv'
<1> USE DEF outside
<1>1. CASE ~streamIsOnDeck
  <2>1. UNCHANGED <<deck, disabled, m_stream, m_active_stream, seen>>
    BY <1>1 DEF streamsDone, streamIsOnDeck, IsFirst
  <2>2. ~streamIsOnDeck'
    BY <1>1, <2>1 DEF streamIsOnDeck, OnDeckPorts
  <2> QED
    BY <2>1, <2>2, DeckFrame DEF DeckHasWaker
<1>2. CASE streamIsOnDeck
  <2>1. PICK p \in Ports :
               /\ p \in OnDeckPorts
               /\ setStream(p, deck[p][Len(deck[p])])
               /\ deck' = [deck EXCEPT ![p] = <<>>]
    BY <1>2 DEF streamsDone, IsFirst
  <2>2. /\ OneOnDeck' /\ DeckHasWaker' /\ Waiting' = {}
        /\ Waiting = {deck[p][Len(deck[p])]}
    BY <2>1, StreamsDoneWaiting
  <2>5. StreamsKnown'
    <3> DEFINE t == deck[p][Len(deck[p])]
    <3>1. t \in seen /\ t # NoStream /\ seen' = seen
      BY <2>2, StreamsAssumption DEF streamsDone, DeckInv, DeckedIsDisabled, TypeOK
    <3>2. setStream(p, t)
      BY <2>1
    <3> HIDE DEF t
    <3> QED
      BY <3>1, <3>2, SetStreamEffect DEF DeckInv, StreamsKnown
  <2> QED
    BY <2>2, <2>5 DEF DeckInv, DeckedIsDisabled
<1> QED
  BY <1>1, <1>2

\* What the deck looks like once a stream has been put on it.
LEMMA NewStreamWaiting ==
    ASSUME TypeOK, NEW p \in Ports, NEW s \in Streams, NewStream(p, s), streamIsActive
    PROVE  OneOnDeck' /\ Waiting' = {s}
<1>1. /\ deck'[p] = <<s>>
      /\ \A q \in Ports \ {p} : deck'[q] = <<>>
  <2>1. PICK base \in [Ports -> Seq(Streams)] :
               /\ deck' = [base EXCEPT ![p] = Append(@, s)]
               /\ \A q \in Ports : base[q] = <<>>
    <3> DEFINE base == IF streamIsOnDeck THEN dropOnDeckStream ELSE deck
    <3>1. deck' = [base EXCEPT ![p] = Append(@, s)]
      BY DEF NewStream, PutOnDeck, outside
    <3>2. base \in [Ports -> Seq(Streams)]
      BY DEF TypeOK, dropOnDeckStream
    <3>3. \A q \in Ports : base[q] = <<>>
      BY DEF dropOnDeckStream, streamIsOnDeck, OnDeckPorts
    <3> QED
      BY <3>1, <3>2, <3>3
  <2>2. Append(<<>>, s) = <<s>>
    OBVIOUS
  <2> QED
    BY <2>1, <2>2
<1>2. OneOnDeck' /\ Waiting' = {s}
  <2>1. OnDeckPorts' = {p} /\ Len(deck'[p]) = 1
    <3>1. Len(<<s>>) = 1 /\ <<s>> # <<>>
      OBVIOUS
    <3> QED
      BY <1>1, <3>1 DEF OnDeckPorts
  <2>2. \A q \in Ports : DOMAIN deck'[q] = IF q = p THEN {1} ELSE {}
    <3>1. DOMAIN <<s>> = {1} /\ DOMAIN <<>> = {}
      OBVIOUS
    <3> QED
      BY <1>1, <3>1, Zenon
  <2> QED
    BY <1>1, <2>1, <2>2 DEF OneOnDeck, Waiting
<1> QED
  BY <1>2

\* A stream that finds another one active replaces what is on deck.
LEMMA NewStreamDeck ==
    ASSUME TypeOK, DeckInv, NEW p \in Ports, NEW s \in Streams, NewStream(p, s)
    PROVE  DeckInv'
<1> USE DEF outside
<1>1. s \notin seen /\ seen' = seen \cup {s} /\ s # NoStream
  BY StreamsAssumption DEF NewStream, PutOnDeck, Open
<1>2. CASE streamIsActive
  <2>1. UNCHANGED <<m_stream, m_active_stream>> /\ disabled' = disabled \cup {s}
    BY <1>2 DEF NewStream, PutOnDeck, Disable
  <2>2. OneOnDeck' /\ Waiting' = {s}
    BY <1>2, NewStreamWaiting
  <2>4. DeckHasWaker'
    BY <1>2, <2>1 DEF DeckHasWaker, streamIsActive, isActive
  <2>5. StreamsKnown' /\ \A q \in Ports : m_stream'[q] # s
    BY <1>1, <2>1 DEF DeckInv, StreamsKnown
  <2> QED
    BY <2>1, <2>2, <2>4, <2>5 DEF DeckInv, DeckedIsDisabled
<1>3. CASE ~streamIsActive
  <2>1. UNCHANGED <<deck, disabled, thread, done>> /\ setStream(p, s)
    BY <1>3 DEF NewStream, PutOnDeck
  <2>2. OneOnDeck' /\ Waiting' = Waiting
    BY <2>1 DEF DeckInv, OneOnDeck, OnDeckPorts, Waiting
  <2>3. DeckHasWaker'
    BY <1>3, <2>1 DEF DeckInv, DeckHasWaker, streamIsOnDeck, OnDeckPorts, Live
  <2>4. s \notin Waiting
    BY <1>1 DEF DeckInv, DeckedIsDisabled, TypeOK
  <2>5. StreamsKnown' /\ \A q \in Ports : m_stream'[q] \notin Waiting
    BY <1>1, <2>1, <2>4, SetStreamEffect DEF DeckInv, StreamsKnown, DeckedIsDisabled
  <2> QED
    BY <2>1, <2>2, <2>3, <2>5 DEF DeckInv, DeckedIsDisabled
<1> QED
  BY <1>2, <1>3

\* The four on-deck facts hold initially and every step keeps them.
THEOREM DeckCorrect == Spec => []DeckInv
<1>1. Init => DeckInv
  BY DEF Init, BulkInit, ProcInit, DeckInv, OneOnDeck, DeckHasWaker, streamIsOnDeck,
         OnDeckPorts, StreamsKnown, DeckedIsDisabled, Waiting
<1>2. TypeOK /\ DeckInv /\ [Next]_vars => DeckInv'
  <2> SUFFICES ASSUME TypeOK, DeckInv, [Next]_vars PROVE DeckInv'
    OBVIOUS
  <2>1. ASSUME NEW s \in Streams, Push(s) \/ PushEos(s), UNCHANGED <<procVars, sinkVars>>
        PROVE  DeckInv'
    <3>1. UNCHANGED <<deck, disabled, m_stream, seen, m_active_stream, done, thread>>
      BY <2>1 DEF Push, PushEos, procVars, sinkVars
    <3> QED
      BY <3>1, DeckFrame DEF DeckInv, DeckHasWaker, streamIsOnDeck, OnDeckPorts,
                             streamIsActive, isActive, Live
  <2>2. CASE Upstream
    BY <2>1, <2>2, NewStreamDeck DEF Upstream
  <2>3. CASE CheckStarted
    <3>1. UNCHANGED <<deck, disabled, m_stream, seen, m_active_stream, done, thread>>
      BY <2>3 DEF CheckStarted, bulkVars, members, outside, sinkVars
    <3> QED
      BY <3>1, DeckFrame DEF DeckInv, DeckHasWaker, streamIsOnDeck, OnDeckPorts,
                             streamIsActive, isActive, Live
  <2>4. CASE UNCHANGED vars
    <3>1. UNCHANGED <<deck, disabled, m_stream, seen, m_active_stream, done, thread>>
      BY <2>4 DEF vars, bulkVars, procVars, sinkVars
    <3> QED
      BY <3>1, DeckFrame DEF DeckInv, DeckHasWaker, streamIsOnDeck, OnDeckPorts,
                             streamIsActive, isActive, Live
  <2> QED
    BY <2>2, <2>3, <2>4, CallerDeck, ControlDeck, ProcessingDeck, StreamsDoneDeck DEF Next
<1> QED
  BY <1>1, <1>2, TypeCorrect, PTL DEF Spec

\* At most one stream is on deck, over the vectors of all ports.
COROLLARY OneOnDeckHolds == Spec => []OneOnDeck
<1>1. DeckInv => OneOnDeck
  BY DEF DeckInv
<1> QED
  BY <1>1, DeckCorrect, PTL

\* A stream on deck is never left without an event that will come for it.
COROLLARY DeckHasWakerHolds == Spec => []DeckHasWaker
<1>1. DeckInv => DeckHasWaker
  BY DEF DeckInv
<1> QED
  BY <1>1, DeckCorrect, PTL

\* A stream on deck is disabled and no processor holds it.
COROLLARY DeckedIsDisabledHolds == Spec => []DeckedIsDisabled
<1>1. DeckInv => DeckedIsDisabled
  BY DEF DeckInv
<1> QED
  BY <1>1, DeckCorrect, PTL

-----------------------------------------------------------------------------
(* The inductive invariant of a session: a component that is started and   *)
(* not stopped.  Of run() and join() only the caller inside start()        *)
(* executes them before started is set, and only the holder of             *)
(* m_stream_lock after it.                                                 *)

HIDE DEF NULL, Slots, Callers

\* Caller c is inside run() or join(); a listener that has yet to ask started() is not.
Busy(c) == call[c].at \notin {"idle", "started"}

\* Of the two callers at most one is busy: which one, started tells.
StartedOnce ==
    /\ ctl.at \in {"idle", "launch"}
    /\ ~released
    /\ started => ctl.at = "idle"
    /\ Busy("control") => ctl.at = "launch"
    /\ Busy("callback") => started
    /\ \A c \in Callers : call[c].op # "join"

\* A thread that runs is the one the pointer refers to, or run() is about to assign it.
ThreadsOwned ==
    \A p \in Ports, k \in Slots :
        Live(p, k) =>
            \/ m_processorThread[p] = k
            \/ \E c \in Callers : call[c].at = "assign" /\ call[c].port = p /\ call[c].slot = k

\* What run() has found out or done by the time it gets to a line still holds there.
CallsKnow ==
    \A c \in Callers :
        LET p == call[c].port IN
        /\ call[c].at = "joining" => call[c].slot = m_processorThread[p]
        /\ call[c].at \in {"active", "attach", "spawn", "assign"} => m_processorThread[p] = NULL
        /\ call[c].at \in {"attach", "spawn"} => m_active_stream[p]
        /\ call[c].at = "spawn" => m_stream[p] \in attached

\* No two processors were ever given the same stream.
StreamsApart ==
    \A p, q \in Ports : m_stream[p] = m_stream[q] => p = q \/ m_stream[p] = NoStream

\* The thread has not been told to end, by end-of-stream, by an error or by shutdown().
Reading(p, k) ==
    \/ thread[p][k] \in {"begin", "read", "empty", "send", "sent"}
    \/ thread[p][k] = "loop" /\ ~m_shutdown[p]

ReadersAttached ==
    \A p \in Ports, k \in Slots : Reading(p, k) => m_active_stream[p] /\ m_stream[p] \in attached

\* A request to shut down is on its way through the loop of the thread that made it.
ShutdownOwn ==
    \A p \in Ports : m_shutdown[p] => \E k \in Slots : thread[p][k] \in {"loop", "exit"}

SessionInv ==
    /\ StartedOnce /\ ThreadsOwned /\ CallsKnow
    /\ StreamsApart /\ ReadersAttached /\ ShutdownOwn

-----------------------------------------------------------------------------
(* What the invariant says in a state.                                     *)

LEMMA OneBusy ==
    ASSUME StartedOnce, NEW c \in Callers, NEW d \in Callers, Busy(c), Busy(d)
    PROVE  c = d
BY DEF StartedOnce, Callers

\* run() creates the thread of a processor that has none.
LEMMA NoThreadYet ==
    ASSUME TypeOK, SessionInv, NEW c \in Callers, call[c].at \in {"active", "attach", "spawn"}
    PROVE  \A k \in Slots : ~Live(call[c].port, k)
<1> SUFFICES ASSUME NEW k \in Slots, Live(call[c].port, k) PROVE FALSE
  OBVIOUS
<1>1. call[c].port \in Ports
  BY DEF TypeOK, Calls, BusyCalls, Idle
<1>2. m_processorThread[call[c].port] = NULL /\ k # NULL
  BY DEF SessionInv, CallsKnow, Slots, NULL
<1>3. PICK d \in Callers : call[d].at = "assign"
  BY <1>1, <1>2 DEF SessionInv, ThreadsOwned
<1>4. Busy(c) /\ Busy(d) /\ c # d
  BY <1>3 DEF Busy
<1> QED
  BY <1>4, OneBusy DEF SessionInv

LEMMA SessionOneThread ==
    ASSUME TypeOK, SessionInv
    PROVE  OneThread
<1> SUFFICES ASSUME NEW p \in Ports, NEW j \in Slots, NEW k \in Slots, Live(p, j), Live(p, k)
             PROVE  j = k
  BY DEF OneThread
<1>1. ASSUME NEW c \in Callers, call[c].at = "assign", call[c].port = p, NEW i \in Slots,
             m_processorThread[p] = i
      PROVE  FALSE
  BY <1>1 DEF SessionInv, CallsKnow, Slots, NULL
<1>2. ASSUME NEW c \in Callers, call[c].at = "assign", call[c].slot = j,
             NEW d \in Callers, call[d].at = "assign", call[d].slot = k
      PROVE  j = k
  <2>1. c = d
    BY <1>2, OneBusy DEF SessionInv, Busy
  <2> QED
    BY <1>2, <2>1
<1> QED
  BY <1>1, <1>2 DEF SessionInv, ThreadsOwned

-----------------------------------------------------------------------------
(* The steps of run().                                                     *)

\* A caller's step is made by the only busy caller and leaves it in the same call.
LEMMA CallerMoves ==
    ASSUME TypeOK, SessionInv, NEW c \in Callers, Caller(c)
    PROVE  /\ Busy(c) /\ call[c].port \in Ports
           /\ UNCHANGED <<ctl, started, released, seen, members, done, sockOpen>>
           /\ \A d \in Callers \ {c} : call'[d] = call[d] /\ ~Busy(d)
           /\ \/ call'[c] = Idle
              \/ call'[c].op = "run" /\ call'[c].port = call[c].port
<1> USE DEF Caller, CallerStep, sinkVars, bulkVars, members, outside
<1>1. Busy(c)
  BY DEF RunCheck, JoinCheck, JoinReturn, RunActive, RunAttach, RunSpawn, RunAssign, Busy
<1>2. call[c] \in BusyCalls /\ call[c].op = "run"
  BY <1>1 DEF TypeOK, Calls, BusyCalls, Idle, Busy, SessionInv, StartedOnce
<1>3. UNCHANGED <<ctl, started, released, seen, members, done, sockOpen>>
  BY DEF RunCheck, JoinCheck, JoinReturn, RunActive, RunAttach, RunSpawn, RunAssign
<1>4. \A d \in Callers \ {c} : ~Busy(d)
  BY <1>1, OneBusy DEF SessionInv
<1>5. \/ Return(c)
      \/ \E l \in CallLabels : Goto(c, l)
      \/ \E l \in CallLabels, k \in Slots \cup {NULL} :
            call' = [call EXCEPT ![c].at = l, ![c].slot = k]
  <2>1. CASE RunCheck(c)
    BY <2>1 DEF RunCheck, CallLabels
  <2>2. CASE JoinCheck(c)
    <3>1. m_processorThread[call[c].port] \in Slots \cup {NULL}
      BY <1>2 DEF TypeOK, BusyCalls
    <3> QED
      BY <1>2, <2>2, <3>1 DEF JoinCheck, LeaveJoin, CallLabels
  <2>3. CASE JoinReturn(c)
    <3>1. LeaveJoin(c) /\ NULL \in Slots \cup {NULL} /\ "active" \in CallLabels
      BY <2>3 DEF JoinReturn, CallLabels
    <3> QED
      BY <1>2, <3>1 DEF LeaveJoin
  <2>4. CASE RunActive(c)
    BY <2>4 DEF RunActive, CallLabels
  <2>5. CASE RunAttach(c)
    BY <2>5 DEF RunAttach, CallLabels
  <2>6. CASE RunSpawn(c)
    BY <2>6 DEF RunSpawn, CallLabels
  <2>7. CASE RunAssign(c)
    BY <2>7 DEF RunAssign
  <2> QED
    BY <2>1, <2>2, <2>3, <2>4, <2>5, <2>6, <2>7
<1>6. /\ \A d \in Callers \ {c} : call'[d] = call[d]
      /\ call'[c] = Idle \/ (call'[c].op = "run" /\ call'[c].port = call[c].port)
  <2>1. call \in [Callers -> Calls]
    BY DEF TypeOK
  <2>2. CASE Return(c)
    BY <2>1, <2>2 DEF Return
  <2>3. ASSUME NEW l \in CallLabels, Goto(c, l)
        PROVE  /\ \A d \in Callers \ {c} : call'[d] = call[d]
               /\ call'[c].op = "run" /\ call'[c].port = call[c].port
    BY <1>2, <2>1, <2>3 DEF Goto, BusyCalls
  <2>4. ASSUME NEW l \in CallLabels, NEW k \in Slots \cup {NULL},
               call' = [call EXCEPT ![c].at = l, ![c].slot = k]
        PROVE  /\ \A d \in Callers \ {c} : call'[d] = call[d]
               /\ call'[c].op = "run" /\ call'[c].port = call[c].port
    BY <1>2, <2>1, <2>4 DEF BusyCalls
  <2> QED
    BY <1>5, <2>2, <2>3, <2>4
<1> QED
  BY <1>1, <1>2, <1>3, <1>4, <1>6 DEF BusyCalls

\* What is left to show of a caller's step: the other caller is not busy.
LEMMA CallerFrame ==
    ASSUME TypeOK, SessionInv, NEW c \in Callers, Caller(c),
           LET p == call[c].port IN
             /\ call'[c].at = "joining" => call'[c].slot = m_processorThread'[p]
             /\ call'[c].at \in {"active", "attach", "spawn", "assign"} => m_processorThread'[p] = NULL
             /\ call'[c].at \in {"attach", "spawn"} => m_active_stream[p]
             /\ call'[c].at = "spawn" => m_stream[p] \in attached'
    PROVE  StartedOnce' /\ CallsKnow' /\ StreamsApart'
<1>1. /\ Busy(c)
      /\ UNCHANGED <<ctl, started, released, members>>
      /\ \A d \in Callers \ {c} : call'[d] = call[d] /\ ~Busy(d)
      /\ call'[c] = Idle \/ (call'[c].op = "run" /\ call'[c].port = call[c].port)
  BY CallerMoves
<1>2. \A d \in Callers : Busy(d)' => d = c /\ call'[c] # Idle
  BY <1>1 DEF Busy, Idle
<1>3. StartedOnce'
  <2>1. \A d \in Callers : call'[d].op # "join"
    BY <1>1 DEF SessionInv, StartedOnce, Idle
  <2>2. (Busy("control")' => Busy("control")) /\ (Busy("callback")' => Busy("callback"))
    BY <1>1, <1>2 DEF Callers
  <2> QED
    BY <1>1, <2>1, <2>2 DEF SessionInv, StartedOnce
<1>4. CallsKnow'
  <2> SUFFICES ASSUME NEW d \in Callers
               PROVE  LET p == call'[d].port IN
                      /\ call'[d].at = "joining" => call'[d].slot = m_processorThread'[p]
                      /\ call'[d].at \in {"active", "attach", "spawn", "assign"} => m_processorThread'[p] = NULL
                      /\ call'[d].at \in {"attach", "spawn"} => m_active_stream'[p]
                      /\ call'[d].at = "spawn" => m_stream'[p] \in attached'
    BY DEF CallsKnow
  <2>1. CASE ~Busy(d)'
    BY <2>1 DEF Busy
  <2>2. CASE Busy(d)'
    BY <1>1, <1>2, <2>2 DEF members
  <2> QED
    BY <2>1, <2>2
<1>5. StreamsApart'
  BY <1>1 DEF SessionInv, StreamsApart, members
<1> QED
  BY <1>3, <1>4, <1>5

\* A step that creates no thread and touches neither pointer nor attached.
LEMMA CallerThreads ==
    ASSUME TypeOK, SessionInv, NEW c \in Callers, Caller(c), call[c].at # "assign",
           UNCHANGED <<m_processorThread, thread>>, attached \subseteq attached'
    PROVE  ThreadsOwned' /\ ReadersAttached' /\ ShutdownOwn'
<1>1. /\ UNCHANGED members
      /\ \A d \in Callers \ {c} : call'[d] = call[d]
  BY CallerMoves
<1>2. ThreadsOwned'
  BY <1>1 DEF SessionInv, ThreadsOwned, Live
<1>3. ReadersAttached' /\ ShutdownOwn'
  BY <1>1 DEF SessionInv, ReadersAttached, ShutdownOwn, Reading, members
<1> QED
  BY <1>2, <1>3

LEMMA CallerSession ==
    ASSUME TypeOK, TypeOK', SessionInv, NEW c \in Callers, Caller(c)
    PROVE  SessionInv'
<1> DEFINE p == call[c].port
<1> USE DEF outside
<1>1. p \in Ports /\ Busy(c) /\ UNCHANGED members
  BY CallerMoves
<1>2. call \in [Callers -> Calls] /\ call[c] \in BusyCalls /\ call[c].op = "run"
  BY <1>1 DEF TypeOK, Calls, BusyCalls, Idle, Busy, SessionInv, StartedOnce
<1>3. CASE RunCheck(c)
  <2>1. call[c].at # "assign" /\ UNCHANGED <<m_processorThread, thread, attached>>
    BY <1>3 DEF RunCheck
  <2>2. call'[c].at \in {"idle", "join", "active"} /\ (call'[c].at = "active" => m_processorThread[p] = NULL)
    BY <1>2, <1>3 DEF RunCheck, Return, Goto, Idle, BusyCalls
  <2> QED
    BY <2>1, <2>2, CallerFrame, CallerThreads DEF SessionInv
<1>4. CASE JoinCheck(c)
  <2>1. call[c].at # "assign" /\ UNCHANGED <<m_processorThread, thread, attached>>
    BY <1>4 DEF JoinCheck
  <2>2. \/ call'[c].at = "joining" /\ call'[c].slot = m_processorThread[p]
        \/ call'[c].at = "active" /\ m_processorThread[p] = NULL
    BY <1>2, <1>4 DEF JoinCheck, LeaveJoin, BusyCalls
  <2> QED
    BY <2>1, <2>2, CallerFrame, CallerThreads DEF SessionInv
<1>5. CASE JoinReturn(c)
  <2>1. /\ m_processorThread' = [m_processorThread EXCEPT ![p] = NULL]
        /\ call'[c].at = "active" /\ UNCHANGED <<thread, attached>>
        /\ thread[p][call[c].slot] = "none" /\ call[c].slot = m_processorThread[p]
    BY <1>2, <1>5 DEF JoinReturn, LeaveJoin, BusyCalls, SessionInv, CallsKnow
  <2>2. m_processorThread'[p] = NULL /\ \A q \in Ports \ {p} : m_processorThread'[q] = m_processorThread[q]
    BY <1>1, <2>1 DEF TypeOK
  <2>3. \A d \in Callers : d # c => call'[d] = call[d] /\ call[d].at # "assign"
    BY CallerMoves DEF Busy
  <2>4. \A k \in Slots : ~Live(p, k)
    <3>1. call[c].at # "assign"
      BY <1>5 DEF JoinReturn
    <3> QED
      BY <1>1, <2>1, <2>3, <3>1 DEF SessionInv, ThreadsOwned, Live
  <2>5. ThreadsOwned'
    <3> SUFFICES ASSUME NEW q \in Ports, NEW k \in Slots, Live(q, k)'
                 PROVE  m_processorThread'[q] = k
      BY DEF ThreadsOwned
    <3>1. Live(q, k) /\ q # p
      BY <2>1, <2>4 DEF Live
    <3>2. \A d \in Callers : call[d].at # "assign"
      BY <1>5, <2>3 DEF JoinReturn
    <3> QED
      BY <2>2, <3>1, <3>2 DEF SessionInv, ThreadsOwned
  <2>6. ReadersAttached' /\ ShutdownOwn'
    BY <1>1, <2>1 DEF SessionInv, ReadersAttached, ShutdownOwn, Reading, members
  <2> QED
    BY <2>1, <2>2, <2>5, <2>6, CallerFrame DEF SessionInv
<1>6. CASE RunActive(c)
  <2>1. call[c].at # "assign" /\ UNCHANGED <<m_processorThread, thread, attached>>
    BY <1>6 DEF RunActive
  <2>2. call'[c].at = "idle" \/ (call'[c].at = "attach" /\ m_active_stream[p])
    BY <1>2, <1>6 DEF RunActive, Return, Goto, Idle, BusyCalls
  <2>3. m_processorThread[p] = NULL
    BY <1>6 DEF RunActive, SessionInv, CallsKnow
  <2> QED
    BY <2>1, <2>2, <2>3, CallerFrame, CallerThreads DEF SessionInv
<1>7. CASE RunAttach(c)
  <2>1. call[c].at = "attach" /\ UNCHANGED <<m_processorThread, thread>>
    BY <1>7 DEF RunAttach
  <2>2. m_active_stream[p] /\ m_processorThread[p] = NULL
    BY <2>1 DEF SessionInv, CallsKnow
  <2>3. attached' = attached \cup {m_stream[p]}
    BY <1>7, <2>2 DEF RunAttach
  <2>4. call'[c].at = "spawn"
    BY <1>2, <1>7 DEF RunAttach, Goto, BusyCalls
  <2> QED
    BY <2>1, <2>2, <2>3, <2>4, CallerFrame, CallerThreads DEF SessionInv
<1>8. CASE RunSpawn(c)
  <2>1. PICK i \in Slots :
               /\ thread' = [thread EXCEPT ![p][i] = "begin"]
               /\ call' = [call EXCEPT ![c].at = "assign", ![c].slot = i]
    BY <1>8 DEF RunSpawn
  <2>2. call'[c].at = "assign" /\ call'[c].slot = i /\ call'[c].port = p
    BY <1>2, <2>1 DEF BusyCalls
  <2>3. UNCHANGED <<m_processorThread, attached>>
    BY <1>8 DEF RunSpawn
  <2>4. m_processorThread[p] = NULL /\ m_active_stream[p] /\ m_stream[p] \in attached
    BY <1>8 DEF RunSpawn, SessionInv, CallsKnow
  <2>5. \A k \in Slots : ~Live(p, k)
    BY <1>8, NoThreadYet DEF RunSpawn
  <2>6. \A q \in Ports, k \in Slots :
           thread'[q][k] = IF q = p /\ k = i THEN "begin" ELSE thread[q][k]
    BY <1>1, <2>1 DEF TypeOK
  <2>7. \A d \in Callers : d # c => call'[d] = call[d]
    BY CallerMoves
  <2>8. ThreadsOwned'
    <3> SUFFICES ASSUME NEW q \in Ports, NEW k \in Slots, Live(q, k)'
                 PROVE  \/ m_processorThread'[q] = k
                        \/ \E d \in Callers : call'[d].at = "assign" /\ call'[d].port = q /\ call'[d].slot = k
      BY DEF ThreadsOwned
    <3>1. CASE q = p /\ k = i
      BY <2>2, <3>1
    <3>2. CASE ~(q = p /\ k = i)
      <4>1. Live(q, k)
        BY <2>6, <3>2 DEF Live
      <4>2. call[c].at # "assign"
        BY <1>8 DEF RunSpawn
      <4> QED
        BY <2>3, <2>7, <4>1, <4>2 DEF SessionInv, ThreadsOwned
    <3> QED
      BY <3>1, <3>2
  <2>9. ReadersAttached' /\ ShutdownOwn'
    <3>1. UNCHANGED <<m_stream, m_active_stream, m_shutdown>>
      BY <1>1 DEF members
    <3>2. ReadersAttached'
      BY <2>3, <2>4, <2>6, <3>1 DEF SessionInv, ReadersAttached, Reading
    <3>3. \A q \in Ports, k \in Slots : thread[q][k] \in {"loop", "exit"} => thread'[q][k] = thread[q][k]
      BY <2>5, <2>6 DEF Live
    <3>4. ShutdownOwn'
      BY <3>1, <3>3 DEF SessionInv, ShutdownOwn
    <3> QED
      BY <3>2, <3>4
  <2> QED
    BY <2>2, <2>3, <2>4, <2>8, <2>9, CallerFrame DEF SessionInv
<1>9. CASE RunAssign(c)
  <2>1. /\ call[c].at = "assign" /\ call'[c].at = "idle"
        /\ m_processorThread' = [m_processorThread EXCEPT ![p] = call[c].slot]
        /\ UNCHANGED <<thread, attached>>
    BY <1>2, <1>9 DEF RunAssign, Return, Idle
  <2>2. m_processorThread'[p] = call[c].slot /\ \A q \in Ports \ {p} : m_processorThread'[q] = m_processorThread[q]
    BY <1>1, <2>1 DEF TypeOK
  <2>3. m_processorThread[p] = NULL
    BY <2>1 DEF SessionInv, CallsKnow
  <2>4. \A d \in Callers : d # c => call[d].at # "assign"
    BY CallerMoves DEF Busy
  <2>5. ThreadsOwned'
    <3> SUFFICES ASSUME NEW q \in Ports, NEW k \in Slots, Live(q, k)
                 PROVE  m_processorThread'[q] = k
      BY <2>1 DEF ThreadsOwned, Live
    <3>1. m_processorThread[q] = k \/ (p = q /\ call[c].slot = k)
      BY <2>4 DEF SessionInv, ThreadsOwned
    <3>2. k # NULL
      BY DEF Slots, NULL
    <3> QED
      BY <2>2, <2>3, <3>1, <3>2
  <2>6. ReadersAttached' /\ ShutdownOwn'
    BY <1>1, <2>1 DEF SessionInv, ReadersAttached, ShutdownOwn, Reading, members
  <2> QED
    BY <2>1, <2>2, <2>5, <2>6, CallerFrame DEF SessionInv
<1> QED
  BY <1>3, <1>4, <1>5, <1>6, <1>7, <1>8, <1>9 DEF Caller, CallerStep

-----------------------------------------------------------------------------
(* The steps of _run().                                                    *)

\* What a step of a processing thread leaves alone, and when it goes on reading.
LEMMA ProcessingMoves ==
    ASSUME TypeOK, NEW p \in Ports, NEW k \in Slots, Processing(p, k)
    PROVE  /\ Live(p, k)
           /\ UNCHANGED <<ctl, started, released, call, m_processorThread, m_stream>>
           /\ \A q \in Ports, j \in Slots :
                 ~(q = p /\ j = k) => thread'[q][j] = thread[q][j]
           /\ \A q \in Ports \ {p} :
                 m_shutdown'[q] = m_shutdown[q] /\ m_active_stream'[q] = m_active_stream[q]
           /\ attached \ {m_stream[p]} \subseteq attached'
           /\ Reading(p, k)' => /\ Reading(p, k) /\ attached' = attached
                                /\ m_active_stream'[p] = m_active_stream[p]
           /\ m_shutdown'[p] => \/ thread'[p][k] \in {"loop", "exit"}
                                \/ m_shutdown[p] /\ thread[p][k] \notin {"loop", "exit"}
<1> DEFINE Same(l) == /\ UNCHANGED <<ctl, started, released, call, m_processorThread, m_stream>>
                      /\ thread' = [thread EXCEPT ![p][k] = l]
<1> USE DEF outside, members, bulkVars, sinkVars, Processing, Move
<1>1. ASSUME NEW l \in ThreadLabels, Same(l)
      PROVE  /\ thread'[p][k] = l
             /\ \A q \in Ports, j \in Slots : ~(q = p /\ j = k) => thread'[q][j] = thread[q][j]
  BY <1>1 DEF TypeOK
<1>2. ASSUME m_shutdown' = [m_shutdown EXCEPT ![p] = TRUE]
      PROVE  m_shutdown'[p] /\ \A q \in Ports \ {p} : m_shutdown'[q] = m_shutdown[q]
  BY <1>2 DEF TypeOK
<1> USE DEF ThreadLabels, At
<1>3. CASE Begin(p, k)
  <2>1. Same("loop") /\ UNCHANGED <<m_active_stream, m_shutdown, attached>> /\ thread[p][k] = "begin"
    BY <1>3 DEF Begin
  <2> HIDE DEF Same
  <2> QED
    BY <1>1, <2>1 DEF Live, Reading, Same
<1>4. CASE Loop(p, k)
  <2>1. /\ Same(IF m_shutdown[p] THEN "exit" ELSE "read")
        /\ UNCHANGED <<m_active_stream, m_shutdown, attached>> /\ thread[p][k] = "loop"
    BY <1>4 DEF Loop
  <2>2. PICK l \in {"exit", "read"} : Same(l) /\ (l = "exit" <=> m_shutdown[p])
    BY <2>1
  <2> HIDE DEF Same
  <2> QED
    BY <1>1, <2>1, <2>2 DEF Live, Reading, Same
<1>5. CASE Read(p, k)
  <2>1. PICK l \in {"send", "empty"} : Same(l)
    BY <1>5 DEF Read, ReadData, ReadEmpty
  <2>2. UNCHANGED <<m_active_stream, m_shutdown, attached>> /\ thread[p][k] = "read"
    BY <1>5 DEF Read
  <2> HIDE DEF Same
  <2> QED
    BY <1>1, <2>1, <2>2 DEF Live, Reading, Same
<1>6. CASE SendPacket(p, k)
  <2>1. UNCHANGED <<m_active_stream, attached>> /\ thread[p][k] = "send"
    BY <1>6 DEF SendPacket
  <2>2. \/ Same("sent") /\ UNCHANGED m_shutdown
        \/ Same("loop") /\ m_shutdown' = [m_shutdown EXCEPT ![p] = TRUE]
    BY <1>6 DEF SendPacket, ShutSelf
  <2> HIDE DEF Same
  <2> QED
    BY <1>1, <1>2, <2>1, <2>2 DEF Live, Reading, Same
<1>7. CASE TestEos(p, k)
  <2>1. UNCHANGED attached /\ thread[p][k] \in {"empty", "sent"}
    BY <1>7 DEF TestEos
  <2>2. \/ /\ Same("detach") /\ UNCHANGED m_shutdown
           /\ m_active_stream' = [m_active_stream EXCEPT ![p] = FALSE]
        \/ /\ Same("loop") /\ m_shutdown' = [m_shutdown EXCEPT ![p] = TRUE]
           /\ UNCHANGED m_active_stream
        \/ Same("loop") /\ UNCHANGED <<m_active_stream, m_shutdown>>
    BY <1>7 DEF TestEos, ShutSelf
  <2>3. m_active_stream \in [Ports -> BOOLEAN]
    BY DEF TypeOK
  <2> HIDE DEF Same
  <2> QED
    BY <1>1, <1>2, <2>1, <2>2, <2>3 DEF Live, Reading, Same
<1>8. CASE Detach(p, k)
  <2>1. /\ attached' = attached \ {m_stream[p]} /\ UNCHANGED m_active_stream
        /\ thread[p][k] = "detach"
        /\ Same("loop") /\ m_shutdown' = [m_shutdown EXCEPT ![p] = TRUE]
    BY <1>8 DEF Detach, ShutSelf
  <2> HIDE DEF Same
  <2> QED
    BY <1>1, <1>2, <2>1 DEF Live, Reading, Same
<1>9. CASE Exit(p, k)
  <2>1. /\ UNCHANGED <<m_active_stream, attached>> /\ thread[p][k] = "exit"
        /\ Same("finish") /\ m_shutdown' = [m_shutdown EXCEPT ![p] = FALSE]
    BY <1>9 DEF Exit
  <2>2. m_shutdown \in [Ports -> BOOLEAN]
    BY DEF TypeOK
  <2> HIDE DEF Same
  <2> QED
    BY <1>1, <2>1, <2>2 DEF Live, Reading, Same
<1>10. CASE Finish(p, k)
  <2>1. UNCHANGED <<m_active_stream, m_shutdown, attached>> /\ thread[p][k] = "finish" /\ Same("none")
    BY <1>10 DEF Finish
  <2> HIDE DEF Same
  <2> QED
    BY <1>1, <2>1 DEF Live, Reading, Same
<1> QED
  BY <1>3, <1>4, <1>5, <1>6, <1>7, <1>8, <1>9, <1>10 DEF ThreadStep

\* The thread's own processor has no other, and the others keep their streams attached.
LEMMA ProcessingSession ==
    ASSUME TypeOK, DeckInv, SessionInv, NEW p \in Ports, NEW k \in Slots, Processing(p, k)
    PROVE  SessionInv'
<1>1. /\ Live(p, k)
      /\ UNCHANGED <<ctl, started, released, call, m_processorThread, m_stream>>
      /\ \A q \in Ports, j \in Slots : ~(q = p /\ j = k) => thread'[q][j] = thread[q][j]
      /\ \A q \in Ports \ {p} :
            m_shutdown'[q] = m_shutdown[q] /\ m_active_stream'[q] = m_active_stream[q]
      /\ attached \ {m_stream[p]} \subseteq attached'
  BY ProcessingMoves
<1>2. \A j \in Slots : Live(p, j) => j = k
  BY <1>1, SessionOneThread DEF OneThread
<1>3. \A q \in Ports \ {p} : m_active_stream[q] /\ m_stream[q] \in attached => m_stream[q] \in attached'
  BY <1>1 DEF DeckInv, StreamsKnown, SessionInv, StreamsApart
<1>4. StartedOnce' /\ StreamsApart'
  BY <1>1 DEF SessionInv, StartedOnce, StreamsApart, Busy
<1>5. ThreadsOwned'
  BY <1>1 DEF SessionInv, ThreadsOwned, Live
<1>6. CallsKnow'
  <2> SUFFICES ASSUME NEW c \in Callers
               PROVE  LET q == call[c].port IN
                      /\ call[c].at \in {"attach", "spawn"} => m_active_stream'[q]
                      /\ call[c].at = "spawn" => m_stream[q] \in attached'
    BY <1>1 DEF SessionInv, CallsKnow
  <2>1. CASE call[c].at \in {"attach", "spawn"}
    <3>1. call[c].port \in Ports \ {p}
      BY <1>1, <2>1, NoThreadYet DEF TypeOK, Calls, BusyCalls, Idle
    <3> QED
      BY <1>1, <1>3, <3>1 DEF SessionInv, CallsKnow
  <2>2. CASE call[c].at \notin {"attach", "spawn"}
    BY <2>2
  <2> QED
    BY <2>1, <2>2
<1>7. ReadersAttached'
  <2> SUFFICES ASSUME NEW q \in Ports, NEW j \in Slots, Reading(q, j)'
               PROVE  m_active_stream'[q] /\ m_stream'[q] \in attached'
    BY DEF ReadersAttached
  <2>1. CASE q = p /\ j = k
    BY <1>1, <2>1, ProcessingMoves DEF SessionInv, ReadersAttached
  <2>2. CASE q = p /\ j # k
    BY <1>1, <1>2, <2>2 DEF Reading, Live
  <2>3. CASE q # p
    <3>1. Reading(q, j)
      BY <1>1, <2>3 DEF Reading
    <3> QED
      BY <1>1, <1>3, <2>3, <3>1 DEF SessionInv, ReadersAttached
  <2> QED
    BY <2>1, <2>2, <2>3
<1>8. ShutdownOwn'
  <2> SUFFICES ASSUME NEW q \in Ports, m_shutdown'[q]
               PROVE  \E j \in Slots : thread'[q][j] \in {"loop", "exit"}
    BY DEF ShutdownOwn
  <2>1. CASE q = p
    <3>1. m_shutdown[p] => thread[p][k] \in {"loop", "exit"}
      BY <1>2 DEF SessionInv, ShutdownOwn, Live
    <3> QED
      BY <2>1, <3>1, ProcessingMoves
  <2>2. CASE q # p
    BY <1>1, <2>2 DEF SessionInv, ShutdownOwn
  <2> QED
    BY <2>1, <2>2
<1> QED
  BY <1>4, <1>5, <1>6, <1>7, <1>8 DEF SessionInv

-----------------------------------------------------------------------------
(* The listener, the callbacks and start().                                *)

\* A step that leaves the members, the threads and the callers as they are.
LEMMA SessionFrame ==
    ASSUME SessionInv,
           UNCHANGED <<ctl, started, released, call, m_processorThread, m_stream, m_active_stream,
                       m_shutdown, thread, attached>>
    PROVE  SessionInv'
BY DEF SessionInv, StartedOnce, ThreadsOwned, CallsKnow, StreamsApart, ReadersAttached,
       ShutdownOwn, Busy, Live, Reading

\* A stream no processor has is handed to a processor; the call that follows is not busy.
LEMMA HandOver ==
    ASSUME TypeOK, SessionInv, LockFree, NEW p \in Ports, NEW s, NEW t,
           setStream(p, s), ThenRunIfStarted(p, t), \A q \in Ports : m_stream[q] # s,
           UNCHANGED <<ctl, started, released, m_processorThread, m_shutdown, thread, attached>>
    PROVE  SessionInv'
<1>1. \A q \in Ports :
         /\ m_active_stream[q] => m_active_stream'[q] /\ m_stream'[q] = m_stream[q]
         /\ m_stream'[q] # m_stream[q] => q = p /\ m_stream'[q] = s
  BY SetStreamEffect
<1>2. /\ call'["control"] = call["control"]
      /\ ~Busy("callback") /\ call'["callback"].at = "started" /\ call'["callback"].op = "run"
  BY DEF ThenRunIfStarted, LockFree, Busy, TypeOK, Callers
<1>3. StartedOnce'
  BY <1>2 DEF SessionInv, StartedOnce, Busy, Callers
<1>4. \A c \in Callers : call'[c] = call[c] \/ (~Busy(c) /\ call'[c].at = "started")
  BY <1>2 DEF Callers
<1>5. ThreadsOwned'
  <2>1. \A c \in Callers : call[c].at = "assign" => call'[c] = call[c]
    BY <1>4 DEF Busy
  <2> QED
    BY <2>1 DEF SessionInv, ThreadsOwned, Live
<1>6. CallsKnow'
  <2> SUFFICES ASSUME NEW c \in Callers, call'[c] = call[c]
               PROVE  LET q == call[c].port IN
                      /\ call[c].at \in {"attach", "spawn"} => m_active_stream'[q]
                      /\ call[c].at = "spawn" => m_stream'[q] \in attached
    BY <1>4 DEF SessionInv, CallsKnow
  <2>1. call[c].at \in {"attach", "spawn"} => call[c].port \in Ports
    BY DEF TypeOK, Calls, BusyCalls, Idle
  <2> QED
    BY <1>1, <2>1 DEF SessionInv, CallsKnow
<1>7. StreamsApart'
  BY <1>1 DEF SessionInv, StreamsApart
<1>8. ReadersAttached' /\ ShutdownOwn'
  BY <1>1 DEF SessionInv, ReadersAttached, ShutdownOwn, Reading
<1> QED
  BY <1>3, <1>5, <1>6, <1>7, <1>8 DEF SessionInv

LEMMA NewStreamSession ==
    ASSUME TypeOK, DeckInv, SessionInv, NEW p \in Ports, NEW s \in Streams, NewStream(p, s)
    PROVE  SessionInv'
<1> USE DEF outside
<1>1. /\ UNCHANGED <<ctl, started, released, m_processorThread, m_shutdown, thread, attached>>
      /\ LockFree /\ s \notin seen
  BY DEF NewStream, Open
<1>2. CASE streamIsActive
  <2>1. UNCHANGED <<m_stream, m_active_stream, call>>
    BY <1>2 DEF NewStream
  <2> QED
    BY <1>1, <2>1, SessionFrame
<1>3. CASE ~streamIsActive
  <2>1. setStream(p, s) /\ ThenRunIfStarted(p, s)
    BY <1>3 DEF NewStream
  <2>2. \A q \in Ports : m_stream[q] # s
    BY <1>1, StreamsAssumption DEF DeckInv, StreamsKnown
  <2> QED
    BY <1>1, <2>1, <2>2, HandOver
<1> QED
  BY <1>2, <1>3

LEMMA StreamsDoneSession ==
    ASSUME TypeOK, DeckInv, SessionInv, streamsDone
    PROVE  SessionInv'
<1>1. /\ UNCHANGED <<ctl, started, released, m_processorThread, m_shutdown, thread, attached>>
      /\ LockFree
  BY DEF streamsDone
<1>2. CASE ~streamIsOnDeck
  <2>1. UNCHANGED <<m_stream, m_active_stream, call>>
    BY <1>2 DEF streamsDone, streamIsOnDeck, IsFirst
  <2> QED
    BY <1>1, <2>1, SessionFrame
<1>3. CASE streamIsOnDeck
  <2>1. PICK p \in Ports :
               /\ p \in OnDeckPorts
               /\ setStream(p, deck[p][Len(deck[p])])
               /\ deck' = [deck EXCEPT ![p] = <<>>]
               /\ ThenRunIfStarted(p, NoStream)
    BY <1>3 DEF streamsDone, IsFirst
  <2>2. \A q \in Ports : m_stream[q] # deck[p][Len(deck[p])]
    BY <2>1, StreamsDoneWaiting DEF DeckInv, DeckedIsDisabled
  <2> QED
    BY <1>1, <2>1, <2>2, HandOver
<1> QED
  BY <1>2, <1>3

\* What changes when one caller that creates no thread moves to a line of run() where
\* nothing has been found out yet.
LEMMA CallSession ==
    ASSUME SessionInv, NEW c \in Callers, call[c].at # "assign",
           call'[c].at \in {"idle", "check"}, call'[c].op # "join",
           \A d \in Callers \ {c} : call'[d] = call[d],
           ctl'.at \in {"idle", "launch"}, started' => ctl'.at = "idle", ~released',
           Busy("control")' => ctl'.at = "launch", Busy("callback")' => started',
           UNCHANGED <<m_processorThread, m_stream, m_active_stream, m_shutdown, thread, attached>>
    PROVE  SessionInv'
<1>1. StartedOnce'
  BY DEF SessionInv, StartedOnce
<1>2. ThreadsOwned'
  BY DEF SessionInv, ThreadsOwned, Live
<1>3. CallsKnow'
  BY DEF SessionInv, CallsKnow
<1>4. StreamsApart' /\ ReadersAttached' /\ ShutdownOwn'
  BY DEF SessionInv, StreamsApart, ReadersAttached, ShutdownOwn, Reading
<1> QED
  BY <1>1, <1>2, <1>3, <1>4 DEF SessionInv

\* A listener goes on to run() only when start() has ended.
LEMMA CheckStartedSession ==
    ASSUME TypeOK, SessionInv, CheckStarted
    PROVE  SessionInv'
<1>1. UNCHANGED <<ctl, started, released, m_processorThread, m_stream, m_active_stream,
                  m_shutdown, thread, attached>>
  BY DEF CheckStarted, bulkVars, members, outside, sinkVars
<1>2. call["callback"] \in BusyCalls /\ call["callback"].at = "started"
  BY DEF CheckStarted, TypeOK, Callers, Calls, Idle
<1>3. /\ call'["control"] = call["control"]
      /\ call'["callback"].at \in {"idle", "check"} /\ call'["callback"].op # "join"
      /\ call'["callback"].at = "check" => started
  <2>1. call'["callback"] = Idle \/ (started /\ call'["callback"] = [call["callback"] EXCEPT !.at = "check"])
    BY DEF CheckStarted, Goto, Return, TypeOK, Callers
  <2>2. call'["control"] = call["control"]
    BY DEF CheckStarted, Goto, Return, TypeOK, Callers
  <2>3. call["callback"].op # "join"
    BY DEF SessionInv, StartedOnce, Callers
  <2> QED
    BY <1>2, <2>1, <2>2, <2>3 DEF Idle, BusyCalls
<1> QED
  BY <1>1, <1>2, <1>3, CallSession DEF SessionInv, StartedOnce, Busy, Callers

\* start() runs the processors before it sets started; stop() is never called.
LEMMA ControlSession ==
    ASSUME TypeOK, SessionInv, "stop" \notin Ops, Start \/ Stop \/ Control
    PROVE  SessionInv'
<1> USE DEF bulkVars, procVars, members, outside
<1> DEFINE Same == UNCHANGED <<released, m_processorThread, m_stream, m_active_stream,
                               m_shutdown, thread, attached>>
<1>1. CASE Start
  <2>1. UNCHANGED <<started, call>> /\ Same /\ ctl'.at = "launch" /\ ~started
    BY <1>1 DEF Start
  <2>2. ~Busy("callback")
    BY <2>1 DEF SessionInv, StartedOnce
  <2> QED
    BY <2>1, <2>2 DEF SessionInv, StartedOnce, ThreadsOwned, CallsKnow, StreamsApart,
                      ReadersAttached, ShutdownOwn, Busy, Live, Reading
<1>2. CASE LaunchNext
  <2>1. /\ ctl.at = "launch" /\ ctl'.at = "launch" /\ Same /\ UNCHANGED started
        /\ call["control"] = Idle
        /\ \E p \in Ports : Begins("run", p)
    BY <1>2 DEF LaunchNext, TypeOK
  <2>2. /\ call'["callback"] = call["callback"]
        /\ call'["control"].at = "check" /\ call'["control"].op = "run"
    BY <2>1 DEF Begins, TypeOK, Callers
  <2>3. call["control"].at # "assign"
    BY <2>1 DEF Idle
  <2> QED
    BY <2>1, <2>2, <2>3, CallSession DEF SessionInv, StartedOnce, Busy, Callers
<1>3. CASE BaseStart
  <2>1. /\ ctl'.at = "idle" /\ started' /\ ~released' /\ call["control"] = Idle
        /\ UNCHANGED <<call, m_processorThread, m_stream, m_active_stream, m_shutdown, thread, attached>>
    BY <1>3 DEF BaseStart, Resting
  <2> QED
    BY <2>1 DEF SessionInv, StartedOnce, ThreadsOwned, CallsKnow, StreamsApart,
                ReadersAttached, ShutdownOwn, Busy, Live, Reading, Idle, Callers
<1>4. ~Stop /\ ~ShutdownNext /\ ~BaseStop /\ ~JoinNext /\ ~CloseSocket
  BY DEF Stop, Issue, ShutdownNext, BaseStop, JoinNext, CloseSocket, SessionInv, StartedOnce
<1> QED
  BY <1>1, <1>2, <1>3, <1>4 DEF Control

\* The session invariant holds of every component that is not stopped.
THEOREM SessionCorrect ==
    ASSUME "stop" \notin Ops
    PROVE  Spec => []SessionInv
<1>1. Init => SessionInv
  BY DEF Init, BulkInit, ProcInit, Resting, Idle, Live, Reading, Busy, SessionInv, StartedOnce,
         ThreadsOwned, CallsKnow, StreamsApart, ReadersAttached, ShutdownOwn, Callers
<1>2. TypeOK /\ TypeOK' /\ DeckInv /\ SessionInv /\ [Next]_vars => SessionInv'
  <2> SUFFICES ASSUME TypeOK, TypeOK', DeckInv, SessionInv, [Next]_vars PROVE SessionInv'
    OBVIOUS
  <2>1. ASSUME NEW s \in Streams, Push(s) \/ PushEos(s), UNCHANGED <<procVars, sinkVars>>
        PROVE  SessionInv'
    BY <2>1, SessionFrame DEF Push, PushEos, procVars, sinkVars
  <2>2. CASE Upstream
    BY <2>1, <2>2, NewStreamSession DEF Upstream
  <2>3. CASE UNCHANGED vars
    BY <2>3, SessionFrame DEF vars, bulkVars, procVars, sinkVars
  <2> QED
    BY <2>2, <2>3, StreamsDoneSession, CheckStartedSession, ControlSession, CallerSession,
       ProcessingSession DEF Next
<1> QED
  BY <1>1, <1>2, TypeCorrect, DeckCorrect, PTL DEF Spec

\* A processor never has two processing threads.
COROLLARY OneThreadHolds ==
    ASSUME "stop" \notin Ops
    PROVE  Spec => []OneThread
BY SessionOneThread, TypeCorrect, SessionCorrect, PTL

\* callAttach() comes before the first packet of a stream, and callDetach() not before
\* its thread has stopped reading.
COROLLARY AttachedBeforeDataHolds ==
    ASSUME "stop" \notin Ops
    PROVE  Spec => []AttachedBeforeData
<1>1. SessionInv => AttachedBeforeData
  BY DEF SessionInv, ReadersAttached, Reading, AttachedBeforeData, At
<1> QED
  BY <1>1, SessionCorrect, PTL

\* Without stop() no request to shut down outlives the thread it was meant for.
COROLLARY NoStaleShutdownHolds ==
    ASSUME "stop" \notin Ops
    PROVE  Spec => []NoStaleShutdown
<1>1. SessionInv => NoStaleShutdown
  BY DEF SessionInv, ShutdownOwn, NoStaleShutdown, Live
<1> QED
  BY <1>1, SessionCorrect, PTL

=============================================================================
