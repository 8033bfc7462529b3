------------------------- MODULE SinkSDDS_refinement -------------------------
(***************************************************************************)
(* Proof that SinkSDDS implements StreamLifecycle: under every             *)
(* interleaving of its threads each step is a step in the life of one      *)
(* stream or leaves every stream where it is.  In a paced environment the  *)
(* steps keep the strict promise as well: streamsDone() then finds no      *)
(* stream active, so that it never promotes a second one, nor drops one.   *)
(***************************************************************************)
EXTENDS SinkSDDS_paced_proofs

\* The streams in each state of the life cycle, in terms of the component.
LEMMA StatusMeans ==
    ASSUME TypeOK, DeckInv, NEW s \in Streams
    PROVE  /\ StreamStatus[s] = "unseen" <=> s \notin seen
           /\ StreamStatus[s] = "waiting" <=> s \in Waiting
           /\ StreamStatus[s] = "current" <=> s \in Current
<1>1. s \in Waiting => s \in seen
  BY DEF DeckInv, DeckedIsDisabled, TypeOK
<1>2. s \in Current => s \in seen /\ s \notin Waiting
  BY StreamsAssumption DEF Current, DeckInv, StreamsKnown, DeckedIsDisabled
<1> QED
  BY <1>1, <1>2 DEF StreamStatus

\* There is a current stream exactly when a processor is active.
LEMMA CurrentMeansActive ==
    ASSUME TypeOK, DeckInv
    PROVE  /\ streamIsActive <=> Current # {}
           /\ Lifecycle!InState("current") = Current
<1>1. Current \subseteq Streams
  BY DEF Current, DeckInv, StreamsKnown, TypeOK
<1>2. streamIsActive <=> Current # {}
  BY DEF streamIsActive, isActive, Current
<1> QED
  BY <1>1, <1>2, StatusMeans DEF Lifecycle!InState

\* The status of the streams is a function of these three.
LEMMA StatusFrame ==
    ASSUME UNCHANGED <<seen, Waiting, Current>>
    PROVE  UNCHANGED StreamStatus
BY DEF StreamStatus

\* A step of a thread ends at most the stream of its processor.
LEMMA ProcessingRefines ==
    ASSUME TypeOK, DeckInv, DeckInv', NEW p \in Ports, NEW k \in Slots, Processing(p, k)
    PROVE  [Lifecycle!LifecycleNext]_StreamStatus
<1> USE DEF bulkVars, members, outside, sinkVars, Processing, ThreadStep
<1>1. UNCHANGED <<seen, deck, m_stream>>
  BY DEF Begin, Loop, Read, ReadData, ReadEmpty, SendPacket, TestEos, Detach, Exit, Finish
<1>2. UNCHANGED Waiting
  BY <1>1 DEF Waiting
<1>3. CASE UNCHANGED m_active_stream
  BY <1>1, <1>2, <1>3, StatusFrame DEF Current
<1>4. CASE m_active_stream' = [m_active_stream EXCEPT ![p] = FALSE]
  <2> DEFINE s == m_stream[p]
  <2>1. Current \ {s} \subseteq Current' /\ Current' \subseteq Current
    BY <1>1, <1>4 DEF Current, TypeOK
  <2>2. CASE s \in Current /\ s \notin Current'
    <3>1. s \in Streams
      BY <2>2, StreamsAssumption DEF Current, DeckInv, StreamsKnown, TypeOK
    <3>2. StreamStatus' = [StreamStatus EXCEPT ![s] = "gone"]
      <4>1. s \in seen /\ s \notin Waiting
        BY <3>1, StreamsAssumption DEF DeckInv, StreamsKnown, DeckedIsDisabled
      <4> HIDE DEF s
      <4> QED
        BY <1>1, <1>2, <2>1, <2>2, <4>1 DEF StreamStatus
    <3>3. StreamStatus[s] = "current"
      BY <2>2, <3>1, StatusMeans
    <3> HIDE DEF s
    <3> QED
      BY <3>1, <3>2, <3>3 DEF Lifecycle!Finish, Lifecycle!LifecycleNext
  <2>3. CASE ~(s \in Current /\ s \notin Current')
    BY <1>1, <1>2, <2>1, <2>3, StatusFrame
  <2> QED
    BY <2>2, <2>3
<1> QED
  BY <1>3, <1>4 DEF Begin, Loop, Read, SendPacket, TestEos, Detach, Exit, Finish

\* A new stream is accepted when none is active and parked otherwise.
LEMMA NewStreamRefines ==
    ASSUME TypeOK, DeckInv, DeckInv', TypeOK', NEW p \in Ports, NEW s \in Streams, NewStream(p, s)
    PROVE  Lifecycle!LifecycleNext
<1> USE DEF outside
<1>1. s \notin seen /\ seen' = seen \cup {s}
  BY DEF NewStream, PutOnDeck, Open
<1>2. StreamStatus[s] = "unseen"
  BY <1>1, StatusMeans
<1>3. CASE streamIsActive
  <2>1. Current' = Current
    BY <1>3 DEF NewStream, PutOnDeck, Current
  <2>2. Waiting' = {s}
    BY <1>1, <1>3, NewStreamWaiting
  <2>3. StreamStatus' = [t \in Streams |-> IF t = s THEN "waiting"
                                           ELSE IF StreamStatus[t] = "waiting" THEN "gone"
                                           ELSE StreamStatus[t]]
    <3>1. \A t \in Waiting : t \in seen /\ t \notin Current
      BY DEF DeckInv, DeckedIsDisabled, TypeOK, Current
    <3> QED
      BY <1>1, <2>1, <2>2, <3>1 DEF StreamStatus
  <2> QED
    BY <1>2, <1>3, <2>3, CurrentMeansActive DEF Lifecycle!Park, Lifecycle!LifecycleNext
<1>4. CASE ~streamIsActive
  <2>1. deck' = deck /\ setStream(p, s)
    BY <1>4 DEF NewStream, PutOnDeck
  <2>2. Waiting' = Waiting
    BY <2>1 DEF Waiting
  <2>3. Current = {} /\ Current' = {s}
    BY <1>4, <2>1, SetStreamEffect DEF streamIsActive, isActive, Current
  <2>4. s \notin Waiting
    BY <1>1 DEF DeckInv, DeckedIsDisabled, TypeOK
  <2>5. StreamStatus' = [StreamStatus EXCEPT ![s] = "current"]
    BY <1>1, <2>2, <2>3, <2>4 DEF StreamStatus
  <2> QED
    BY <1>2, <1>4, <2>5, CurrentMeansActive DEF Lifecycle!Accept, Lifecycle!LifecycleNext
<1> QED
  BY <1>3, <1>4

\* streamsDone() promotes the stream on deck, or drops it when its processor is busy,
\* which it is not in a paced environment.
LEMMA StreamsDoneRefines ==
    ASSUME TypeOK, DeckInv, DeckInv', Paced => PacedInv, streamsDone
    PROVE  [Lifecycle!LifecycleNext]_StreamStatus
<1> USE DEF outside
<1>1. seen' = seen
  BY DEF streamsDone
<1>2. CASE ~streamIsOnDeck
  <2>1. UNCHANGED <<deck, m_stream, m_active_stream>>
    BY <1>2 DEF streamsDone, streamIsOnDeck, IsFirst
  <2> QED
    BY <1>1, <2>1, StatusFrame DEF Waiting, Current
<1>3. CASE streamIsOnDeck
  <2>1. PICK p \in Ports :
               /\ p \in OnDeckPorts
               /\ setStream(p, deck[p][Len(deck[p])])
               /\ deck' = [deck EXCEPT ![p] = <<>>]
    BY <1>3 DEF streamsDone, IsFirst
  <2> DEFINE s == deck[p][Len(deck[p])]
  <2>2. Waiting = {s} /\ Waiting' = {} /\ s \in Streams
    BY <2>1, StreamsDoneWaiting
  <2>3. setStream(p, s)
    BY <2>1
  <2> HIDE DEF s
  <2>4. StreamStatus[s] = "waiting" /\ s \in seen
    BY <2>2, StatusMeans DEF DeckInv, DeckedIsDisabled, TypeOK
  <2>5. Paced => NoneActive
    BY DEF streamsDone, PacedInv, EndsFirst
  <2>6. CASE m_active_stream[p]
    <3>1. Current' = Current
      BY <2>3, <2>6 DEF setStream, Current
    <3>2. s \notin Current
      BY <2>2, <2>4, StatusMeans
    <3>3. StreamStatus' = [StreamStatus EXCEPT ![s] = "gone"]
      BY <1>1, <2>2, <2>4, <3>1, <3>2 DEF StreamStatus
    <3>4. ~Paced
      BY <2>1, <2>6, <2>5 DEF OnDeckPorts, NoneActive
    <3> QED
      BY <2>2, <2>4, <3>3, <3>4 DEF Lifecycle!Drop, Lifecycle!LifecycleNext
  <2>7. CASE ~m_active_stream[p]
    <3>1. Current' = Current \cup {s}
      BY <2>3, <2>7, SetStreamEffect DEF Current
    <3>2. StreamStatus' = [StreamStatus EXCEPT ![s] = "current"]
      BY <1>1, <2>2, <2>4, <3>1 DEF StreamStatus
    <3>3. Paced => Lifecycle!InState("current") = {}
      <4>1. Paced => ~streamIsActive
        BY <2>5 DEF streamIsActive, isActive, NoneActive
      <4> QED
        BY <4>1, CurrentMeansActive
    <3> QED
      BY <2>2, <2>4, <3>2, <3>3 DEF Lifecycle!Promote, Lifecycle!LifecycleNext
  <2> QED
    BY <2>6, <2>7
<1> QED
  BY <1>2, <1>3

\* Every step maps to a step of the life cycle, or to none.
LEMMA NextRefines ==
    ASSUME TypeOK, DeckInv, TypeOK', DeckInv', Paced => PacedInv, [Next]_vars
    PROVE  [Lifecycle!LifecycleNext]_StreamStatus
<1>1. ASSUME UNCHANGED <<seen, deck, m_stream, m_active_stream>>
      PROVE  UNCHANGED StreamStatus
  BY <1>1, StatusFrame DEF Waiting, Current
<1> USE DEF bulkVars, procVars, members, outside, sinkVars
<1>2. CASE Upstream
  BY <1>1, <1>2, NewStreamRefines DEF Upstream, Push, PushEos
<1>3. CASE CheckStarted
  BY <1>1, <1>3 DEF CheckStarted
<1>4. CASE Start \/ Stop \/ Control
  BY <1>1, <1>4 DEF Start, Stop, Control, LaunchNext, BaseStart, ShutdownNext,
                    BaseStop, JoinNext, CloseSocket
<1>5. ASSUME NEW c \in Callers, Caller(c) PROVE UNCHANGED StreamStatus
  BY <1>1, <1>5 DEF Caller, CallerStep, RunCheck, JoinCheck, JoinReturn, RunActive,
                    RunAttach, RunSpawn, RunAssign
<1>6. CASE UNCHANGED vars
  BY <1>1, <1>6 DEF vars
<1> QED
  BY <1>2, <1>3, <1>4, <1>5, <1>6, ProcessingRefines, StreamsDoneRefines DEF Next

\* The component implements the life cycle, and keeps its strict promise (README.md:18,
\* SinkSDDS.prf.xml:152-156) when the environment is paced.
THEOREM LifecycleImplemented == Spec => ImplementsLifecycle
<1>1. Init => Lifecycle!LifecycleInit
  BY DEF Init, BulkInit, Lifecycle!LifecycleInit, StreamStatus
<1>2. CASE ~Paced
  <2>1. TypeOK /\ DeckInv /\ TypeOK' /\ DeckInv' /\ [Next]_vars
           => [Lifecycle!LifecycleNext]_StreamStatus
    BY <1>2, NextRefines
  <2> QED
    BY <1>1, <2>1, TypeCorrect, DeckCorrect, PTL
       DEF Spec, ImplementsLifecycle, Lifecycle!LifecycleSpec
<1>3. CASE Paced
  <2>1. TypeOK /\ DeckInv /\ PacedInv /\ TypeOK' /\ DeckInv' /\ [Next]_vars
           => [Lifecycle!LifecycleNext]_StreamStatus
    BY NextRefines
  <2>2. Spec => []PacedInv
    BY <1>3, PacedCorrect
  <2> QED
    BY <1>1, <2>1, <2>2, TypeCorrect, DeckCorrect, PTL
       DEF Spec, ImplementsLifecycle, Lifecycle!LifecycleSpec
<1> QED
  BY <1>2, <1>3

=============================================================================
