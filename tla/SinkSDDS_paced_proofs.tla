------------------------- MODULE SinkSDDS_paced_proofs -------------------------
(***************************************************************************)
(* Proofs about SinkSDDS in a paced environment (Paced): a stream is       *)
(* opened, and start() called, only when nothing is in transit, the        *)
(* component is not stopped, and sendmsg() does not fail.                  *)
(*                                                                         *)
(* One baton goes round: a stream that is read, a thread that ends because *)
(* its stream has, the streamsDone() it leaves behind, the run() that      *)
(* follows.  Of these there is one at a time, over all processors.         *)
(***************************************************************************)
EXTENDS SinkSDDS_proofs

-----------------------------------------------------------------------------
(* The inductive invariant of a paced session.                             *)

NoneActive == \A p \in Ports : ~m_active_stream[p]
NoneAlive == \A p \in Ports, k \in Slots : ~Live(p, k)

\* Caller c may still create a thread for its processor.
Entering(c) ==
    \/ c = "callback" /\ call[c].at = "started"
    \/ call[c].at \in {"check", "join", "joining", "active", "attach", "spawn"}

Ending(p, k) == Live(p, k) /\ ~Reading(p, k)

OneAlive ==
    \A p, q \in Ports, j, k \in Slots : Live(p, j) /\ Live(q, k) => p = q

\* No stream is active from the end of one until streamsDone() has run.
EndsFirst ==
    /\ \A p \in Ports, k \in Slots : Ending(p, k) => NoneActive
    /\ done > 0 => done = 1 /\ NoneAlive /\ NoneActive

\* A thread gives up because of the end of its stream.
EndSeen ==
    \A p \in Ports, k \in Slots :
        /\ At(p, k, "empty") => Eos(m_stream[p])
        /\ At(p, k, "detach") => m_stream[p] \in ended

\* The socket is open before a thread can exist, and m_running is the work of one.
ThreadsInSession ==
    /\ started \/ ctl.at = "launch" => sockOpen
    /\ ~NoneAlive => started \/ ctl.at = "launch"
    /\ \A p \in Ports : m_running[p] => \E k \in Slots : Live(p, k)

EntersAlone ==
    /\ \A c \in Callers : Entering(c) => \A k \in Slots : ~Live(call[c].port, k)
    /\ Entering("callback") => done = 0 /\ NoneAlive

\* An active processor has a thread, or someone who has yet to run() it.
ActiveIsRead ==
    \A p \in Ports : m_active_stream[p] =>
        \/ \E k \in Slots : Live(p, k)
        \/ \E c \in Callers : Entering(c) /\ call[c].port = p
        \/ ctl.at = "launch" /\ p \in ctl.todo
        \/ ctl.at = "idle" /\ ~started

\* Before it is started the component has one stream at most and no thread.
StartOrder ==
    /\ ~started => OnDeckPorts = {}
    /\ ctl.at = "launch" =>
          /\ call["callback"] = Idle
          /\ \A p \in ctl.todo, k \in Slots : ~Live(p, k)
          /\ call["control"] # Idle => call["control"].port \notin ctl.todo

PacedInv ==
    /\ AtMostOneActive /\ OneAlive /\ EndsFirst /\ EndSeen
    /\ ThreadsInSession /\ EntersAlone /\ ActiveIsRead /\ StartOrder

-----------------------------------------------------------------------------
(* The steps that move no thread.                                          *)

\* What upstream does leaves an end of stream that was seen as it was.
LEMMA PacedFrame ==
    ASSUME TypeOK, DeckInv, SessionInv, PacedInv,
           UNCHANGED <<ctl, started, call, m_stream, m_active_stream, m_running, m_shutdown,
                       thread, done, sockOpen>>,
           \A s \in Streams : (Eos(s) => Eos(s)') /\ (s \in ended => s \in ended'),
           ~started => deck' = deck
    PROVE  PacedInv'
<1>1. AtMostOneActive' /\ OneAlive' /\ EndsFirst'
  BY DEF PacedInv, AtMostOneActive, OneAlive, EndsFirst, NoneActive, NoneAlive, Ending, Live, Reading
<1>2. EndSeen'
  <2> SUFFICES ASSUME NEW p \in Ports, NEW k \in Slots
               PROVE  /\ At(p, k, "empty") => Eos(m_stream[p])'
                      /\ At(p, k, "detach") => m_stream[p] \in ended'
    BY DEF EndSeen, At, Eos
  <2>1. At(p, k, "empty") => m_stream[p] \in Streams
    BY StreamsAssumption DEF At, SessionInv, ReadersAttached, Reading, DeckInv, StreamsKnown, TypeOK
  <2>2. m_stream[p] \in ended => m_stream[p] \in Streams
    BY DEF TypeOK
  <2>3. m_stream' = m_stream
    OBVIOUS
  <2> QED
    BY <2>1, <2>2, <2>3 DEF PacedInv, EndSeen, Eos
<1>3. ThreadsInSession' /\ EntersAlone'
  BY DEF PacedInv, ThreadsInSession, EntersAlone, NoneAlive, Live, Entering
<1>4. ActiveIsRead' /\ StartOrder'
  BY DEF PacedInv, ActiveIsRead, StartOrder, Live, Entering, OnDeckPorts
<1> QED
  BY <1>1, <1>2, <1>3, <1>4 DEF PacedInv

LEMMA PushPaced ==
    ASSUME TypeOK, DeckInv, SessionInv, PacedInv, NEW s \in Streams, Push(s) \/ PushEos(s),
           UNCHANGED <<procVars, sinkVars>>
    PROVE  PacedInv'
<1>1. \A t \in Streams : (Eos(t) => Eos(t)') /\ (t \in ended => t \in ended')
  <2>1. CASE Push(s)
    BY <2>1 DEF Push, Eos, TypeOK
  <2>2. CASE PushEos(s)
    BY <2>2 DEF PushEos, Eos
  <2> QED
    BY <2>1, <2>2
<1> QED
  BY <1>1, PacedFrame DEF procVars, sinkVars

\* The baton is handed to a processor while no one else has it.
LEMMA HandOverPaced ==
    ASSUME TypeOK, SessionInv, PacedInv, NoneActive, NoneAlive, done' = 0, ctl.at = "idle",
           NEW p \in Ports, NEW s, NEW t, setStream(p, s), ThenRunIfStarted(p, t), ~Entering("control"),
           UNCHANGED <<ctl, started, m_running, m_shutdown, thread, sockOpen>>,
           OnDeckPorts' \subseteq OnDeckPorts
    PROVE  PacedInv'
<1>1. m_active_stream'[p] /\ \A q \in Ports \ {p} : ~m_active_stream'[q]
  BY SetStreamEffect DEF NoneActive
<1>2. \A q \in Ports, k \in Slots : thread'[q][k] = "none"
  BY DEF NoneAlive, Live
<1>3. call'["control"] = call["control"] /\ call'["callback"].at = "started" /\ call'["callback"].port = p
  BY DEF ThenRunIfStarted, TypeOK, Callers
<1>4. Entering("callback")'
  BY <1>3 DEF Entering
<1>5. AtMostOneActive' /\ ActiveIsRead'
  BY <1>1, <1>3, <1>4 DEF AtMostOneActive, ActiveIsRead, Callers
<1>6. OneAlive' /\ EndsFirst' /\ EndSeen' /\ EntersAlone' /\ NoneAlive'
  <2>1. OneAlive' /\ NoneAlive'
    BY <1>2 DEF OneAlive, NoneAlive, Live
  <2>2. EndsFirst'
    BY <1>2 DEF EndsFirst, Ending, Live
  <2>3. EndSeen'
    BY <1>2 DEF EndSeen, At
  <2>4. EntersAlone'
    <3>1. \A c \in Callers : Entering(c)' => call'[c].port \in Ports
      BY <1>3 DEF Entering, Callers
    <3> QED
      BY <2>1, <3>1 DEF EntersAlone, NoneAlive
  <2> QED
    BY <2>1, <2>2, <2>3, <2>4
<1>7. ThreadsInSession'
  BY <1>6 DEF PacedInv, ThreadsInSession, Live
<1>8. StartOrder'
  BY DEF PacedInv, StartOrder
<1> QED
  BY <1>5, <1>6, <1>7, <1>8 DEF PacedInv

\* A stream is opened while nothing is in transit: there is no thread unless a stream is active.
LEMMA NewStreamPaced ==
    ASSUME TypeOK, DeckInv, SessionInv, PacedInv, Paced,
           NEW p \in Ports, NEW s \in Streams, NewStream(p, s)
    PROVE  PacedInv'
<1> USE DEF outside
<1>1. /\ UNCHANGED <<ctl, started, m_running, m_shutdown, thread, sockOpen, done>>
      /\ Quiet /\ (started \/ seen = {}) /\ ended' = ended
  BY DEF NewStream, Paced
<1>2. ctl.at = "idle" /\ done = 0 /\ call["control"] = Idle
  BY <1>1 DEF Quiet, Resting, Callers
<1>3. CASE streamIsActive
  <2>1. UNCHANGED <<m_stream, m_active_stream, call>> /\ avail' = [avail EXCEPT ![s] = 0]
    BY <1>3 DEF NewStream, PutOnDeck, Disable
  <2>2. \A t \in Streams : Eos(t) => Eos(t)'
    BY <1>1, <2>1 DEF Eos, TypeOK
  <2>3. started
    BY <1>1, <1>3, StreamsAssumption DEF streamIsActive, isActive, DeckInv, StreamsKnown
  <2> QED
    BY <1>1, <2>1, <2>2, <2>3, PacedFrame
<1>4. CASE ~streamIsActive
  <2>1. setStream(p, s) /\ ThenRunIfStarted(p, s) /\ deck' = deck
    BY <1>4 DEF NewStream
  <2>2. NoneActive
    BY <1>4 DEF streamIsActive, isActive, NoneActive
  <2>3. NoneAlive
    BY <1>1, <2>2 DEF Quiet, NoneActive, NoneAlive
  <2>4. OnDeckPorts' \subseteq OnDeckPorts /\ ~Entering("control")
    BY <1>2, <2>1 DEF OnDeckPorts, Entering, Idle
  <2> QED
    BY <1>1, <1>2, <2>1, <2>2, <2>3, <2>4, HandOverPaced
<1> QED
  BY <1>3, <1>4

\* streamsDone() finds no stream active and no thread.
LEMMA StreamsDonePaced ==
    ASSUME TypeOK, DeckInv, SessionInv, PacedInv, streamsDone
    PROVE  PacedInv'
<1>1. /\ UNCHANGED <<ctl, started, m_running, m_shutdown, thread, sockOpen, ended, avail>>
      /\ done > 0 /\ done' = done - 1
  BY DEF streamsDone
<1>2. NoneActive /\ NoneAlive /\ done' = 0
  BY <1>1 DEF PacedInv, EndsFirst
<1>3. CASE ~streamIsOnDeck
  <2>1. UNCHANGED <<m_stream, m_active_stream, call, deck>>
    BY <1>3 DEF streamsDone, streamIsOnDeck, IsFirst
  <2>2. AtMostOneActive' /\ OneAlive' /\ EndsFirst'
    BY <1>1, <1>2, <2>1 DEF PacedInv, AtMostOneActive, OneAlive, EndsFirst, NoneActive, Ending, Live, Reading
  <2>3. EndSeen'
    BY <1>1, <1>2, <2>1 DEF EndSeen, At, NoneAlive, Live
  <2>4. ThreadsInSession' /\ EntersAlone'
    BY <1>1, <1>2, <2>1 DEF PacedInv, ThreadsInSession, EntersAlone, NoneAlive, Live, Entering
  <2>5. ActiveIsRead' /\ StartOrder'
    BY <1>1, <2>1 DEF PacedInv, ActiveIsRead, StartOrder, Live, Entering, OnDeckPorts
  <2> QED
    BY <2>2, <2>3, <2>4, <2>5 DEF PacedInv
<1>4. CASE streamIsOnDeck
  <2>1. PICK p \in Ports :
               /\ p \in OnDeckPorts
               /\ setStream(p, deck[p][Len(deck[p])])
               /\ deck' = [deck EXCEPT ![p] = <<>>]
               /\ ThenRunIfStarted(p, NoStream)
    BY <1>4 DEF streamsDone, IsFirst
  <2>2. ctl.at = "idle"
    BY <1>4 DEF streamIsOnDeck, PacedInv, StartOrder, SessionInv, StartedOnce
  <2>3. OnDeckPorts' \subseteq OnDeckPorts
    BY <2>1 DEF OnDeckPorts, TypeOK
  <2>4. ~Entering("control")
    BY <2>2 DEF Entering, SessionInv, StartedOnce, Busy
  <2> QED
    BY <1>1, <1>2, <2>1, <2>2, <2>3, <2>4, HandOverPaced
<1> QED
  BY <1>3, <1>4

\* A listener that finds the component not started leaves the thread to start().
LEMMA CheckStartedPaced ==
    ASSUME TypeOK, SessionInv, PacedInv, CheckStarted
    PROVE  PacedInv'
<1>1. UNCHANGED <<ctl, started, m_stream, m_active_stream, m_running, m_shutdown, thread, done,
                  sockOpen, ended, avail, deck>>
  BY DEF CheckStarted, bulkVars, members, outside, sinkVars
<1>2. call["callback"] \in BusyCalls /\ call["callback"].at = "started"
  BY DEF CheckStarted, TypeOK, Callers, Calls, Idle
<1>3. /\ call'["control"] = call["control"]
      /\ IF started
         THEN call'["callback"].at = "check" /\ call'["callback"].port = call["callback"].port
         ELSE call'["callback"] = Idle
  BY <1>2 DEF CheckStarted, Goto, Return, TypeOK, Callers, BusyCalls
<1>4. ctl.at = "idle"
  BY <1>2 DEF PacedInv, StartOrder, SessionInv, StartedOnce, Idle
<1>5. AtMostOneActive' /\ OneAlive' /\ EndsFirst' /\ EndSeen' /\ ThreadsInSession'
  BY <1>1 DEF PacedInv, AtMostOneActive, OneAlive, EndsFirst, EndSeen, ThreadsInSession,
              NoneActive, NoneAlive, Ending, Live, Reading, At, Eos
<1>6. \A c \in Callers : Entering(c)' => Entering(c) /\ call'[c].port = call[c].port
  BY <1>2, <1>3 DEF Entering, Callers, Idle
<1>7. EntersAlone'
  BY <1>1, <1>6 DEF PacedInv, EntersAlone, NoneAlive, Live, Callers
<1>8. ActiveIsRead'
  <2>1. CASE started
    <3>1. \A c \in Callers : Entering(c) => Entering(c)' /\ call'[c].port = call[c].port
      BY <1>3, <2>1 DEF Entering, Callers
    <3> QED
      BY <1>1, <3>1 DEF PacedInv, ActiveIsRead, Live
  <2>2. CASE ~started
    BY <1>1, <1>4, <2>2 DEF ActiveIsRead
  <2> QED
    BY <2>1, <2>2
<1>9. StartOrder'
  BY <1>1, <1>4 DEF PacedInv, StartOrder, OnDeckPorts
<1> QED
  BY <1>5, <1>7, <1>8, <1>9 DEF PacedInv

\* start() takes the processors one by one, and with them whoever was to be read.
LEMMA ControlPaced ==
    ASSUME TypeOK, SessionInv, PacedInv, Paced, Start \/ Control
    PROVE  PacedInv'
<1> USE DEF bulkVars, procVars, members, outside
<1> DEFINE Same == UNCHANGED <<m_stream, m_active_stream, m_running, m_shutdown, thread, done,
                               ended, avail, deck>>
<1>1. ASSUME Same PROVE AtMostOneActive' /\ OneAlive' /\ EndsFirst' /\ EndSeen'
  BY <1>1 DEF PacedInv, AtMostOneActive, OneAlive, EndsFirst, EndSeen, NoneActive, NoneAlive,
              Ending, Live, Reading, At, Eos
<1>2. CASE Start
  <2>1. /\ Same /\ UNCHANGED <<started, call>> /\ sockOpen' /\ ~started /\ Quiet
        /\ ctl' = [at |-> "launch", todo |-> Ports]
    BY <1>2 DEF Start, Issue, Paced
  <2>2. /\ ctl.at = "idle" /\ call["callback"] = Idle /\ call["control"] = Idle
        /\ NoneAlive
    BY <2>1 DEF Quiet, Resting, Callers, PacedInv, ThreadsInSession
  <2>3. ThreadsInSession' /\ ActiveIsRead'
    BY <2>1 DEF PacedInv, ThreadsInSession, ActiveIsRead, NoneAlive, Live
  <2>4. EntersAlone'
    BY <2>1, <2>2 DEF EntersAlone, Entering, Idle, Callers
  <2>5. StartOrder'
    BY <2>1, <2>2 DEF PacedInv, StartOrder, OnDeckPorts, NoneAlive, Live
  <2> QED
    BY <1>1, <2>1, <2>3, <2>4, <2>5 DEF PacedInv
<1>3. CASE LaunchNext
  <2>1. PICK p \in Ports :
               p \in ctl.todo /\ Begins("run", p) /\ ctl' = [ctl EXCEPT !.todo = @ \ {p}]
    BY <1>3 DEF LaunchNext, TypeOK
  <2>2. /\ Same /\ UNCHANGED <<started, sockOpen>>
        /\ ctl.at = "launch" /\ call["control"] = Idle
    BY <1>3 DEF LaunchNext
  <2>3. ctl'.at = "launch" /\ ctl'.todo = ctl.todo \ {p}
    BY <2>1, <2>2 DEF TypeOK
  <2>4. /\ call'["callback"] = call["callback"]
        /\ call'["control"].at = "check" /\ call'["control"].port = p
    BY <2>1 DEF Begins, TypeOK, Callers
  <2>5. call["callback"] = Idle
    BY <2>2 DEF PacedInv, StartOrder
  <2>6. ~Entering("callback") /\ ~Entering("control") /\ ~Entering("callback")' /\ Entering("control")'
    BY <2>2, <2>4, <2>5 DEF Entering, Idle
  <2>7. ThreadsInSession'
    BY <2>2, <2>3 DEF PacedInv, ThreadsInSession, NoneAlive, Live
  <2>8. EntersAlone'
    BY <2>1, <2>2, <2>4, <2>6 DEF PacedInv, StartOrder, EntersAlone, Live, Callers
  <2>9. ActiveIsRead'
    <3>1. \A q \in Ports : q \in ctl.todo => q = p \/ q \in ctl'.todo
      BY <2>3
    <3> QED
      BY <2>2, <2>3, <2>4, <2>6, <3>1 DEF PacedInv, ActiveIsRead, Live, Callers
  <2>10. StartOrder'
    BY <2>2, <2>3, <2>4, <2>5 DEF PacedInv, StartOrder, OnDeckPorts, Live
  <2> QED
    BY <1>1, <2>2, <2>7, <2>8, <2>9, <2>10 DEF PacedInv
<1>4. CASE BaseStart
  <2>1. /\ Same /\ UNCHANGED <<call, sockOpen>> /\ started' /\ ctl'.at = "idle"
        /\ ctl.at = "launch" /\ ctl.todo = {} /\ call["control"] = Idle
    BY <1>4 DEF BaseStart, Resting
  <2>2. \A c \in Callers : ~Entering(c) /\ ~Entering(c)'
    BY <2>1 DEF PacedInv, StartOrder, Entering, Idle, Callers
  <2>3. ThreadsInSession' /\ EntersAlone' /\ StartOrder'
    BY <2>1, <2>2 DEF PacedInv, ThreadsInSession, EntersAlone, StartOrder, NoneAlive, Live, Callers
  <2>4. ActiveIsRead'
    BY <2>1, <2>2 DEF PacedInv, ActiveIsRead, Live
  <2> QED
    BY <1>1, <2>1, <2>3, <2>4 DEF PacedInv
<1>5. ~ShutdownNext /\ ~BaseStop /\ ~JoinNext /\ ~CloseSocket
  BY DEF ShutdownNext, BaseStop, JoinNext, CloseSocket, SessionInv, StartedOnce
<1> QED
  BY <1>2, <1>3, <1>4, <1>5 DEF Control

-----------------------------------------------------------------------------
(* The steps of run().                                                     *)

\* A step that creates no thread: run() is left only for an inactive processor, or with
\* the thread in place.
LEMMA CallerWaitsPaced ==
    ASSUME TypeOK, SessionInv, PacedInv, NEW c \in Callers, Caller(c), ~RunSpawn(c)
    PROVE  PacedInv'
<1> USE DEF outside, members, bulkVars
<1>1. /\ Busy(c) /\ call[c].port \in Ports
      /\ \A d \in Callers \ {c} : call'[d] = call[d] /\ ~Busy(d)
      /\ call'[c] = Idle \/ call'[c].port = call[c].port
  BY CallerMoves
<1>2. UNCHANGED <<ctl, started, m_stream, m_active_stream, m_running, m_shutdown, thread, done,
                  sockOpen, ended, avail, deck>>
  BY DEF Caller, CallerStep, RunCheck, JoinCheck, JoinReturn, RunActive, RunAttach, RunAssign, sinkVars
<1>3. call \in [Callers -> Calls] /\ call[c] \in BusyCalls /\ call[c].op = "run"
  BY <1>1 DEF TypeOK, Calls, BusyCalls, Idle, Busy, SessionInv, StartedOnce
<1>4. \/ Entering(c) /\ Entering(c)'
      \/ Entering(c) /\ ~m_active_stream[call[c].port] /\ call'[c] = Idle
      \/ call[c].at = "assign" /\ call'[c] = Idle
  <2>1. CASE RunCheck(c)
    <3>1. ~m_running[call[c].port]
      <4>1. Entering(c)
        BY <2>1 DEF RunCheck, Entering
      <4> QED
        BY <1>1, <4>1 DEF PacedInv, EntersAlone, ThreadsInSession
    <3> QED
      BY <1>3, <2>1, <3>1 DEF RunCheck, Goto, Entering, BusyCalls
  <2>2. CASE JoinCheck(c)
    BY <1>3, <2>2 DEF JoinCheck, LeaveJoin, Entering, BusyCalls
  <2>3. CASE JoinReturn(c)
    BY <1>3, <2>3 DEF JoinReturn, LeaveJoin, Entering, BusyCalls
  <2>4. CASE RunActive(c)
    BY <1>3, <2>4 DEF RunActive, Goto, Return, Entering, BusyCalls
  <2>5. CASE RunAttach(c)
    BY <1>3, <2>5 DEF RunAttach, Goto, Entering, BusyCalls
  <2>6. CASE RunAssign(c)
    BY <1>3, <2>6 DEF RunAssign, Return
  <2> QED
    BY <2>1, <2>2, <2>3, <2>4, <2>5, <2>6 DEF Caller, CallerStep
<1>5. \A d \in Callers : /\ Entering(d)' => Entering(d) /\ call'[d].port = call[d].port
                         /\ Entering(d) => Entering(d)' \/ ~m_active_stream[call[d].port]
  <2>1. ASSUME NEW d \in Callers \ {c} PROVE call'[d] = call[d]
    BY <1>1
  <2>2. ~Entering(c)' \/ call'[c] # Idle
    BY DEF Entering, Idle
  <2>3. call[c].at = "assign" => ~Entering(c)
    BY DEF Entering
  <2> QED
    BY <1>1, <1>4, <2>1, <2>2, <2>3 DEF Entering
<1>6. AtMostOneActive' /\ OneAlive' /\ EndsFirst' /\ EndSeen' /\ ThreadsInSession'
  BY <1>2 DEF PacedInv, AtMostOneActive, OneAlive, EndsFirst, EndSeen, ThreadsInSession,
              NoneActive, NoneAlive, Ending, Live, Reading, At, Eos
<1>7. EntersAlone'
  BY <1>2, <1>5 DEF PacedInv, EntersAlone, NoneAlive, Live, Callers
<1>8. ActiveIsRead'
  BY <1>2, <1>5 DEF PacedInv, ActiveIsRead, Live
<1>9. StartOrder'
  <2>1. ctl.at = "launch" => c = "control"
    BY <1>1 DEF SessionInv, StartedOnce, Callers
  <2>2. ctl.at = "launch" => call'["callback"] = call["callback"] /\ call["control"] # Idle
    BY <1>1, <2>1 DEF Callers, Busy, Idle
  <2> QED
    BY <1>1, <1>2, <2>1, <2>2 DEF PacedInv, StartOrder, OnDeckPorts, Live
<1> QED
  BY <1>6, <1>7, <1>8, <1>9 DEF PacedInv

\* run() creates its thread while its stream is active, hence while no other thread is.
LEMMA RunSpawnPaced ==
    ASSUME TypeOK, SessionInv, PacedInv, NEW c \in Callers, Caller(c), RunSpawn(c)
    PROVE  PacedInv'
<1> DEFINE p == call[c].port
<1>1. /\ Busy(c) /\ p \in Ports
      /\ \A d \in Callers \ {c} : call'[d] = call[d] /\ ~Busy(d)
  BY CallerMoves
<1>2. UNCHANGED <<ctl, started, m_stream, m_active_stream, m_running, m_shutdown, done,
                  sockOpen, ended, avail, deck>>
  BY DEF Caller, RunSpawn, members, outside, bulkVars, sinkVars
<1>3. PICK i \in Slots :
             /\ thread' = [thread EXCEPT ![p][i] = "begin"]
             /\ call' = [call EXCEPT ![c].at = "assign", ![c].slot = i]
  BY DEF RunSpawn
<1>4. call[c] \in BusyCalls
  BY <1>1 DEF TypeOK, Calls, Idle, Busy
<1>5. call'[c].at = "assign" /\ call'[c].port = p
  BY <1>3, <1>4 DEF TypeOK, BusyCalls
<1>6. \A q \in Ports, k \in Slots :
         thread'[q][k] = IF q = p /\ k = i THEN "begin" ELSE thread[q][k]
  BY <1>1, <1>3 DEF TypeOK
<1>7. m_active_stream[p]
  BY DEF RunSpawn, SessionInv, CallsKnow
<1>8. NoneAlive
  <2> SUFFICES ASSUME NEW q \in Ports, NEW k \in Slots, Live(q, k) PROVE FALSE
    BY DEF NoneAlive
  <2>1. Reading(q, k)
    BY <1>1, <1>7 DEF PacedInv, EndsFirst, Ending, NoneActive
  <2>2. q = p
    BY <1>1, <1>7, <2>1 DEF SessionInv, ReadersAttached, PacedInv, AtMostOneActive
  <2> QED
    BY <2>2, NoThreadYet DEF RunSpawn
<1>9. done = 0
  BY <1>1, <1>7 DEF PacedInv, EndsFirst, NoneActive, TypeOK
<1>10. \A q \in Ports, k \in Slots : Live(q, k)' => q = p /\ k = i /\ Reading(q, k)'
  BY <1>6, <1>8 DEF NoneAlive, Live, Reading
<1>11. AtMostOneActive' /\ OneAlive' /\ EndsFirst'
  BY <1>2, <1>9, <1>10 DEF PacedInv, AtMostOneActive, OneAlive, EndsFirst, Ending
<1>12. EndSeen'
  BY <1>6, <1>8 DEF EndSeen, At, NoneAlive, Live
<1>13. ThreadsInSession'
  <2>1. \A q \in Ports : ~m_running[q]
    BY <1>8 DEF PacedInv, ThreadsInSession, NoneAlive
  <2>2. started \/ ctl.at = "launch"
    BY <1>1 DEF SessionInv, StartedOnce, Callers
  <2> QED
    BY <1>2, <2>1, <2>2 DEF PacedInv, ThreadsInSession
<1>14. \A d \in Callers : ~Entering(d)'
  <2>1. ~Entering(c)'
    BY <1>5 DEF Entering
  <2>2. ASSUME NEW d \in Callers \ {c} PROVE ~Entering(d)'
    <3>1. call'[d] = call[d] /\ ~Busy(d)
      BY <1>1
    <3>2. d = "callback" => call[d] = Idle
      BY <1>1 DEF PacedInv, StartOrder, SessionInv, StartedOnce, Callers
    <3> QED
      BY <3>1, <3>2 DEF Entering, Busy, Idle
  <2> QED
    BY <2>1, <2>2
<1>15. EntersAlone'
  BY <1>14 DEF EntersAlone, Callers
<1>16. ActiveIsRead'
  <2>1. \A q \in Ports : m_active_stream'[q] => q = p
    BY <1>1, <1>2, <1>7 DEF PacedInv, AtMostOneActive
  <2>2. \A q \in Ports : q = p => Live(q, i)'
    BY <1>6 DEF Live
  <2> QED
    BY <2>1, <2>2 DEF ActiveIsRead
<1>17. StartOrder'
  <2>1. ctl.at = "launch" => c = "control" /\ p \notin ctl.todo
    BY <1>1 DEF SessionInv, StartedOnce, Callers, PacedInv, StartOrder, Busy, Idle
  <2>2. ctl.at = "launch" => call'["callback"] = call["callback"]
    BY <1>1, <2>1 DEF Callers
  <2>3. \A q \in ctl.todo, k \in Slots : ctl.at = "launch" => ~Live(q, k)'
    BY <1>10, <2>1 DEF TypeOK
  <2>4. ctl.at = "launch" => call'["control"].port \notin ctl.todo
    BY <1>5, <2>1
  <2> QED
    BY <1>2, <2>2, <2>3, <2>4 DEF PacedInv, StartOrder, OnDeckPorts
<1> QED
  BY <1>11, <1>12, <1>13, <1>15, <1>16, <1>17 DEF PacedInv

-----------------------------------------------------------------------------
(* The steps of _run().                                                    *)

\* A thread goes on reading, or ends after the end of its stream, or has ended and
\* leaves streamsDone() behind.
LEMMA ProcessingOutcome ==
    ASSUME TypeOK, DeckInv, SessionInv, PacedInv, Paced,
           NEW p \in Ports, NEW k \in Slots, Processing(p, k)
    PROVE  /\ \/ Reading(p, k)' /\ UNCHANGED <<m_active_stream, done>>
              \/ thread'[p][k] # "none" /\ NoneActive' /\ done' = done
              \/ thread'[p][k] = "none" /\ NoneActive' /\ done' = done + 1 /\ ~m_running'[p]
           /\ Reading(p, k) => (Reading(p, k) \/ At(p, k, "detach"))'
           /\ At(p, k, "empty")' => Eos(m_stream[p])'
           /\ At(p, k, "detach")' => m_stream[p] \in ended
           /\ \A q \in Ports \ {p} : m_running'[q] = m_running[q]
           /\ UNCHANGED <<sockOpen, deck>>
<1> DEFINE Goes(l) == thread' = [thread EXCEPT ![p][k] = l]
<1> USE DEF outside, members, bulkVars, sinkVars, Processing, Move
<1>1. ASSUME NEW l \in ThreadLabels, Goes(l) PROVE thread'[p][k] = l
  BY <1>1 DEF TypeOK
<1>2. UNCHANGED <<sockOpen, deck>> /\ \A q \in Ports \ {p} : m_running'[q] = m_running[q]
  BY DEF ThreadStep, Begin, Loop, Read, SendPacket, TestEos, Detach, Exit, Finish, TypeOK
<1>3. Ending(p, k) => NoneActive
  BY DEF PacedInv, EndsFirst
<1>4. Reading(p, k) => m_active_stream[p]
  BY DEF SessionInv, ReadersAttached
<1>5. m_shutdown[p] => thread[p][k] \in {"none", "loop", "exit"}
  <2>1. \A j \in Slots : Live(p, j) /\ Live(p, k) => j = k
    BY SessionOneThread DEF OneThread
  <2> QED
    BY <2>1 DEF SessionInv, ShutdownOwn, Live
<1> USE DEF ThreadLabels, At
<1>6. CASE Begin(p, k)
  <2>1. Goes("loop") /\ thread[p][k] = "begin" /\ UNCHANGED <<m_active_stream, done, m_shutdown>>
    BY <1>6 DEF Begin
  <2>2. thread'[p][k] = "loop"
    BY <1>1, <2>1
  <2> QED
    BY <1>2, <1>5, <2>1, <2>2 DEF Reading
<1>7. CASE Loop(p, k)
  <2>1. thread[p][k] = "loop" /\ UNCHANGED <<m_active_stream, done, m_shutdown>>
    BY <1>7 DEF Loop
  <2>2. CASE m_shutdown[p]
    <3>1. Goes("exit")
      BY <1>7, <2>2 DEF Loop
    <3>2. thread'[p][k] = "exit"
      BY <1>1, <3>1
    <3>3. NoneActive'
      BY <1>3, <2>1, <2>2 DEF Ending, Live, Reading, NoneActive
    <3> QED
      BY <1>2, <2>1, <2>2, <3>2, <3>3 DEF Reading
  <2>3. CASE ~m_shutdown[p]
    <3>1. Goes("read")
      BY <1>7, <2>3 DEF Loop
    <3>2. thread'[p][k] = "read"
      BY <1>1, <3>1
    <3> QED
      BY <1>2, <2>1, <3>2 DEF Reading
  <2> QED
    BY <2>2, <2>3
<1>8. CASE Read(p, k)
  <2>1. UNCHANGED <<m_active_stream, done, m_stream>>
    BY <1>8 DEF Read
  <2>2. \/ Goes("send")
        \/ Goes("empty") /\ Eos(m_stream[p]) /\ UNCHANGED <<ended, avail>>
    BY <1>8 DEF Read, ReadEmpty, SessionInv, StartedOnce
  <2>3. \/ thread'[p][k] = "send"
        \/ thread'[p][k] = "empty" /\ Eos(m_stream[p]) /\ UNCHANGED <<ended, avail>>
    BY <1>1, <2>2
  <2> QED
    BY <1>2, <2>1, <2>3 DEF Reading, Eos
<1>9. CASE SendPacket(p, k)
  <2>1. sockOpen /\ ~SendMayFail
    BY <1>9 DEF SendPacket, PacedInv, ThreadsInSession, NoneAlive, Live, Paced
  <2>2. Goes("sent") /\ UNCHANGED <<m_active_stream, done>>
    BY <1>9, <2>1 DEF SendPacket
  <2>3. thread'[p][k] = "sent"
    BY <1>1, <2>2
  <2> QED
    BY <1>2, <2>2, <2>3 DEF Reading
<1>10. CASE TestEos(p, k)
  <2>1. /\ thread[p][k] \in {"empty", "sent"} /\ UNCHANGED <<done, m_stream, ended, avail>>
        /\ m_active_stream[p]
    BY <1>4, <1>10 DEF TestEos, Reading
  <2>2. thread[p][k] = "empty" => Eos(m_stream[p])
    BY DEF PacedInv, EndSeen
  <2>3. \/ /\ Goes("detach") /\ Eos(m_stream[p])
           /\ m_active_stream' = [m_active_stream EXCEPT ![p] = FALSE]
        \/ Goes("loop") /\ UNCHANGED <<m_active_stream, m_shutdown>>
    BY <1>10, <2>1, <2>2 DEF TestEos
  <2>4. CASE Goes("loop") /\ UNCHANGED <<m_active_stream, m_shutdown>>
    <3>1. thread'[p][k] = "loop" /\ ~m_shutdown'[p]
      BY <1>1, <1>5, <2>1, <2>4
    <3> QED
      BY <1>2, <2>1, <2>4, <3>1 DEF Reading
  <2>5. CASE /\ Goes("detach") /\ Eos(m_stream[p])
             /\ m_active_stream' = [m_active_stream EXCEPT ![p] = FALSE]
    <3>1. thread'[p][k] = "detach"
      BY <1>1, <2>5
    <3>2. NoneActive'
      <4>1. \A q \in Ports : m_active_stream[q] => q = p
        BY <2>1 DEF PacedInv, AtMostOneActive
      <4> QED
        BY <2>5, <4>1 DEF NoneActive, TypeOK
    <3> QED
      BY <1>2, <2>1, <2>5, <3>1, <3>2 DEF Eos
  <2> QED
    BY <2>3, <2>4, <2>5
<1>11. CASE Detach(p, k)
  <2>1. Goes("loop") /\ thread[p][k] = "detach" /\ UNCHANGED <<m_active_stream, done>>
    BY <1>11 DEF Detach, ShutSelf
  <2>2. NoneActive' /\ thread'[p][k] = "loop"
    BY <1>1, <1>3, <2>1 DEF Ending, Live, Reading, NoneActive
  <2> QED
    BY <1>2, <2>1, <2>2 DEF Reading
<1>12. CASE Exit(p, k)
  <2>1. Goes("finish") /\ thread[p][k] = "exit" /\ UNCHANGED <<m_active_stream, done>>
    BY <1>12 DEF Exit
  <2>2. NoneActive' /\ thread'[p][k] = "finish"
    BY <1>1, <1>3, <2>1 DEF Ending, Live, Reading, NoneActive
  <2> QED
    BY <1>2, <2>1, <2>2 DEF Reading
<1>13. CASE Finish(p, k)
  <2>1. /\ Goes("none") /\ thread[p][k] = "finish" /\ UNCHANGED m_active_stream /\ done' = done + 1
        /\ m_running' = [m_running EXCEPT ![p] = FALSE]
    BY <1>13 DEF Finish
  <2>2. NoneActive' /\ thread'[p][k] = "none" /\ ~m_running'[p]
    BY <1>1, <1>3, <2>1 DEF Ending, Live, Reading, NoneActive, TypeOK
  <2> QED
    BY <1>2, <2>1, <2>2 DEF Reading
<1> QED
  BY <1>6, <1>7, <1>8, <1>9, <1>10, <1>11, <1>12, <1>13 DEF ThreadStep

\* The thread that takes a step is the only one, and no streamsDone() is pending.
LEMMA ProcessingPaced ==
    ASSUME TypeOK, DeckInv, SessionInv, SessionInv', PacedInv, Paced,
           NEW p \in Ports, NEW k \in Slots, Processing(p, k)
    PROVE  PacedInv'
<1>1. /\ Live(p, k)
      /\ UNCHANGED <<ctl, started, call, m_stream>>
      /\ \A q \in Ports, j \in Slots : ~(q = p /\ j = k) => thread'[q][j] = thread[q][j]
  BY ProcessingMoves
<1>2. /\ \/ Reading(p, k)' /\ UNCHANGED <<m_active_stream, done>>
         \/ thread'[p][k] # "none" /\ NoneActive' /\ done' = done
         \/ thread'[p][k] = "none" /\ NoneActive' /\ done' = done + 1 /\ ~m_running'[p]
      /\ At(p, k, "empty")' => Eos(m_stream[p])'
      /\ At(p, k, "detach")' => m_stream[p] \in ended
      /\ \A q \in Ports \ {p} : m_running'[q] = m_running[q]
      /\ UNCHANGED <<sockOpen, deck>>
  BY ProcessingOutcome
<1>3. \A q \in Ports, j \in Slots : Live(q, j) => q = p /\ j = k
  <2>1. \A q \in Ports, j \in Slots : Live(q, j) => q = p
    BY <1>1 DEF PacedInv, OneAlive
  <2> QED
    BY <1>1, <2>1, SessionOneThread DEF OneThread
<1>4. done = 0 /\ ~Entering("callback")
  BY <1>1 DEF PacedInv, EndsFirst, EntersAlone, NoneAlive, TypeOK
<1>5. \A q \in Ports, j \in Slots : Live(q, j)' => q = p /\ j = k
  BY <1>1, <1>3 DEF Live
<1>6. AtMostOneActive' /\ OneAlive'
  BY <1>2, <1>5 DEF PacedInv, AtMostOneActive, OneAlive, NoneActive
<1>7. EndsFirst'
  <2>1. \A q \in Ports, j \in Slots : Ending(q, j)' => NoneActive'
    BY <1>2, <1>5 DEF Ending, Live
  <2>2. done' > 0 => done' = 1 /\ NoneAlive' /\ NoneActive'
    BY <1>2, <1>4, <1>5 DEF NoneAlive, Live
  <2> QED
    BY <2>1, <2>2 DEF EndsFirst
<1>8. EndSeen'
  <2>1. ended' = ended
    BY DEF Processing, ThreadStep, Begin, Loop, Read, ReadData, ReadEmpty, SendPacket, TestEos,
           Detach, Exit, Finish, bulkVars
  <2>2. \A q \in Ports, j \in Slots : (At(q, j, "empty")' \/ At(q, j, "detach")') => q = p /\ j = k
    BY <1>5 DEF At, Live
  <2> QED
    BY <1>1, <1>2, <2>1, <2>2 DEF EndSeen, Eos
<1>9. ThreadsInSession'
  <2>1. \A q \in Ports \ {p} : ~m_running[q]
    BY <1>3 DEF PacedInv, ThreadsInSession
  <2>2. m_running'[p] => Live(p, k)'
    BY <1>2 DEF Live, Reading
  <2>3. started \/ ctl.at = "launch"
    BY <1>1 DEF PacedInv, ThreadsInSession, NoneAlive
  <2> QED
    BY <1>1, <1>2, <2>1, <2>2, <2>3 DEF PacedInv, ThreadsInSession
<1>10. EntersAlone'
  <2>1. ~Entering("callback")'
    BY <1>1, <1>4 DEF Entering
  <2>2. \A c \in Callers : Entering(c)' => Entering(c)
    BY <1>1 DEF Entering
  <2>3. \A c \in Callers : Entering(c) => call[c].port \in Ports \ {p}
    BY <1>1 DEF PacedInv, EntersAlone, Entering, TypeOK, Calls, BusyCalls, Idle
  <2> QED
    BY <1>1, <1>5, <2>1, <2>2, <2>3 DEF EntersAlone
<1>11. ActiveIsRead'
  <2>1. CASE NoneActive'
    BY <2>1 DEF NoneActive, ActiveIsRead
  <2>2. CASE Reading(p, k)' /\ m_active_stream' = m_active_stream
    <3>1. Live(p, k)' /\ m_active_stream[p]
      BY <1>1, <2>2, ProcessingMoves DEF Live, Reading, SessionInv, ReadersAttached
    <3>2. \A q \in Ports : m_active_stream'[q] => q = p
      BY <2>2, <3>1 DEF PacedInv, AtMostOneActive
    <3> QED
      BY <3>1, <3>2 DEF ActiveIsRead
  <2> QED
    BY <1>2, <2>1, <2>2
<1>12. StartOrder'
  BY <1>1, <1>2, <1>3, <1>5 DEF PacedInv, StartOrder, OnDeckPorts, TypeOK
<1> QED
  BY <1>6, <1>7, <1>8, <1>9, <1>10, <1>11, <1>12 DEF PacedInv

\* The paced invariant holds of every paced component.
THEOREM PacedCorrect ==
    ASSUME Paced
    PROVE  Spec => []PacedInv
<1>1. Init => PacedInv
  <2> SUFFICES ASSUME Init PROVE PacedInv
    OBVIOUS
  <2>1. NoneAlive /\ NoneActive /\ done = 0 /\ ~started /\ ctl.at = "idle"
    BY DEF Init, BulkInit, ProcInit, Resting, NoneAlive, NoneActive, Live
  <2>2. \A c \in Callers : ~Entering(c)
    BY DEF Init, ProcInit, Entering, Idle
  <2>3. AtMostOneActive /\ OneAlive /\ EndsFirst /\ EndSeen
    BY <2>1 DEF AtMostOneActive, OneAlive, EndsFirst, EndSeen, Ending, NoneAlive, NoneActive, Live, At
  <2>4. ThreadsInSession /\ ActiveIsRead
    BY <2>1 DEF Init, ProcInit, ThreadsInSession, ActiveIsRead, NoneActive
  <2>5. EntersAlone /\ StartOrder
    BY <2>1, <2>2 DEF Init, EntersAlone, StartOrder, OnDeckPorts, Callers
  <2> QED
    BY <2>3, <2>4, <2>5 DEF PacedInv
<1>2. TypeOK /\ DeckInv /\ SessionInv /\ SessionInv' /\ PacedInv /\ [Next]_vars => PacedInv'
  <2> SUFFICES ASSUME TypeOK, DeckInv, SessionInv, SessionInv', PacedInv, [Next]_vars
               PROVE  PacedInv'
    OBVIOUS
  <2>1. CASE Upstream
    BY <2>1, PushPaced, NewStreamPaced DEF Upstream
  <2>2. CASE UNCHANGED vars
    BY <2>2, PacedFrame DEF vars, bulkVars, procVars, sinkVars, Eos
  <2>3. ~Stop
    BY DEF Stop, Issue, Paced
  <2> QED
    BY <2>1, <2>2, <2>3, StreamsDonePaced, CheckStartedPaced, ControlPaced, CallerWaitsPaced,
       RunSpawnPaced, ProcessingPaced DEF Next
<1>3. "stop" \notin Ops
  BY DEF Paced
<1> QED
  BY <1>1, <1>2, <1>3, TypeCorrect, DeckCorrect, SessionCorrect, PTL DEF Spec

\* "Only one stream at a time" (README.md:18), over all processors.
COROLLARY AtMostOneActiveHolds ==
    ASSUME Paced
    PROVE  Spec => []AtMostOneActive
<1>1. PacedInv => AtMostOneActive
  BY DEF PacedInv
<1> QED
  BY <1>1, PacedCorrect, PTL

\* At rest the active stream of a started component has a thread that reads it.
COROLLARY ActiveIsProcessedHolds ==
    ASSUME Paced
    PROVE  Spec => []ActiveIsProcessed
<1>1. PacedInv => ActiveIsProcessed
  BY DEF PacedInv, ActiveIsRead, ActiveIsProcessed, AtRest, Resting, Entering, Idle
<1> QED
  BY <1>1, PacedCorrect, PTL

\* The status names every stream the component has: there is one active processor at
\* most, and one vector that is not empty.
COROLLARY StatusCompleteHolds ==
    ASSUME Paced
    PROVE  Spec => []StatusComplete
<1>1. TypeOK /\ DeckInv /\ PacedInv => StatusComplete
  <2> SUFFICES ASSUME TypeOK, DeckInv, PacedInv
               PROVE  Current \cup Waiting \subseteq
                         {get_status_struct.current_stream, get_status_struct.stream_on_deck}
    BY DEF StatusComplete
  <2>1. ASSUME NEW S, NEW p \in Ports, S = {p}
        PROVE  S # {} /\ (CHOOSE q \in S : IsFirst(q, S)) = p
    <3>1. IsFirst(p, S)
      BY <2>1, PortsAssumption DEF IsFirst, Rank
    <3>2. \A q \in S : q = p
      BY <2>1
    <3> QED
      BY <2>1, <3>1, <3>2
  <2>2. ASSUME NEW s \in Current PROVE get_status_struct.current_stream = s
    <3>1. PICK p \in Ports : m_active_stream[p] /\ s = m_stream[p]
      BY <2>2 DEF Current
    <3>2. {q \in Ports : isActive(q)} = {p}
      BY <3>1 DEF PacedInv, AtMostOneActive, isActive
    <3> QED
      BY <2>1, <3>1, <3>2 DEF get_status_struct
  <2>3. ASSUME NEW s \in Waiting PROVE get_status_struct.stream_on_deck = s
    <3>1. PICK p \in Ports : \E i \in DOMAIN deck[p] : s = deck[p][i]
      BY <2>3 DEF Waiting
    <3>2. p \in OnDeckPorts
      BY <3>1 DEF OnDeckPorts
    <3>3. OnDeckPorts = {p} /\ s = deck[p][Len(deck[p])]
      <4>1. OnDeckPorts = {p} /\ Len(deck[p]) = 1
        BY <3>2 DEF DeckInv, OneOnDeck, OnDeckPorts
      <4>2. DOMAIN deck[p] = {1}
        BY <4>1 DEF TypeOK
      <4> QED
        BY <3>1, <4>1, <4>2
    <3>4. (CHOOSE q \in OnDeckPorts : IsFirst(q, OnDeckPorts)) = p
      BY <2>1, <3>3
    <3> QED
      BY <3>2, <3>3, <3>4 DEF get_status_struct
  <2> QED
    BY <2>2, <2>3
<1> QED
  BY <1>1, TypeCorrect, DeckCorrect, PacedCorrect, PTL

-----------------------------------------------------------------------------
(* What is attached downstream is what the component has.                  *)

\* Processor p has a claim on its stream being attached: a thread that reads it, one
\* about to detach it, or a run() that has attached it and not yet created the thread.
Claims(p) ==
    \/ \E k \in Slots : Reading(p, k) \/ At(p, k, "detach")
    \/ \E c \in Callers : call[c].at = "spawn" /\ call[c].port = p

EachClaimed == \A s \in attached : \E p \in Ports : s = m_stream[p] /\ Claims(p)

\* A processor that keeps its stream and its threads, and leaves no spawn, keeps its claim.
LEMMA ClaimsFrame ==
    ASSUME EachClaimed, UNCHANGED <<m_stream, m_shutdown, thread>>, attached' \subseteq attached,
           \A c \in Callers : call[c].at = "spawn" => call'[c].at = "spawn" /\ call'[c].port = call[c].port
    PROVE  EachClaimed'
<1>1. \A p \in Ports : Claims(p) => Claims(p)'
  BY DEF Claims, Reading, At
<1> QED
  BY <1>1 DEF EachClaimed

\* Without a thread nothing is attached, unless a run() is about to create one.
LEMMA NothingClaimed ==
    ASSUME EachClaimed, NoneAlive, \A c \in Callers : call[c].at # "spawn"
    PROVE  attached = {}
<1>1. \A p \in Ports : ~Claims(p)
  BY DEF Claims, Reading, At, NoneAlive, Live
<1> QED
  BY <1>1 DEF EachClaimed

LEMMA UpstreamClaimed ==
    ASSUME TypeOK, DeckInv, SessionInv, PacedInv, Paced, EachClaimed, Upstream
    PROVE  EachClaimed'
<1>1. CASE UNCHANGED <<m_stream, m_shutdown, thread, attached, call>>
  BY <1>1, ClaimsFrame
<1>2. CASE \E p \in Ports, s \in Streams : NewStream(p, s)
  <2>1. PICK p \in Ports, s \in Streams : NewStream(p, s)
    BY <1>2
  <2>2. UNCHANGED <<m_shutdown, thread, attached>> /\ Quiet
    BY <2>1 DEF NewStream, Paced, outside
  <2>3. CASE streamIsActive
    BY <1>1, <2>1, <2>2, <2>3 DEF NewStream
  <2>4. CASE ~streamIsActive
    <3>1. NoneAlive
      BY <2>2, <2>4 DEF Quiet, NoneAlive, streamIsActive, isActive
    <3>2. \A c \in Callers : call[c].at # "spawn"
      BY <2>2 DEF Quiet, Idle
    <3> QED
      BY <2>2, <3>1, <3>2, NothingClaimed DEF EachClaimed
  <2> QED
    BY <2>3, <2>4
<1> QED
  BY <1>1, <1>2 DEF Upstream, procVars

LEMMA StreamsDoneClaimed ==
    ASSUME TypeOK, SessionInv, PacedInv, EachClaimed, streamsDone
    PROVE  EachClaimed'
<1>1. UNCHANGED <<m_shutdown, thread, attached>> /\ done > 0 /\ LockFree
  BY DEF streamsDone
<1>2. CASE ~streamIsOnDeck
  BY <1>1, <1>2, ClaimsFrame DEF streamsDone, streamIsOnDeck, IsFirst
<1>3. CASE streamIsOnDeck
  <2>1. NoneAlive
    BY <1>1 DEF PacedInv, EndsFirst
  <2>2. ctl.at = "idle"
    BY <1>3 DEF streamIsOnDeck, PacedInv, StartOrder, SessionInv, StartedOnce
  <2>3. \A c \in Callers : call[c].at # "spawn"
    BY <1>1, <2>2 DEF LockFree, SessionInv, StartedOnce, Busy, Callers
  <2> QED
    BY <1>1, <2>1, <2>3, NothingClaimed DEF EachClaimed
<1> QED
  BY <1>2, <1>3

LEMMA ControlClaimed ==
    ASSUME TypeOK, SessionInv, EachClaimed, CheckStarted \/ Start \/ Control
    PROVE  EachClaimed'
<1> USE DEF bulkVars, procVars, members, outside
<1>1. ~ShutdownNext /\ ~BaseStop /\ ~JoinNext /\ ~CloseSocket
  BY DEF ShutdownNext, BaseStop, JoinNext, CloseSocket, SessionInv, StartedOnce
<1>2. UNCHANGED <<m_stream, m_shutdown, thread, attached>>
  BY <1>1 DEF CheckStarted, Start, Control, LaunchNext, BaseStart
<1>3. \A c \in Callers : call'[c] = call[c] \/ call[c].at \in {"idle", "started"}
  BY <1>1 DEF CheckStarted, Goto, Return, Start, Control, LaunchNext, Begins, BaseStart,
              TypeOK, Callers, Idle
<1> QED
  BY <1>2, <1>3, ClaimsFrame

\* callAttach() comes with the claim of the run() that calls it, which passes it on to
\* the thread it creates.
LEMMA CallerClaimed ==
    ASSUME TypeOK, SessionInv, PacedInv, EachClaimed, NEW c \in Callers, Caller(c)
    PROVE  EachClaimed'
<1> USE DEF outside, members, bulkVars
<1>1. /\ Busy(c) /\ call[c].port \in Ports
      /\ \A d \in Callers \ {c} : call'[d] = call[d]
      /\ UNCHANGED <<m_stream, m_shutdown>>
  BY CallerMoves
<1>p. PICK p \in Ports : p = call[c].port
  BY <1>1
<1>2. call \in [Callers -> Calls] /\ call[c] \in BusyCalls
  BY <1>1 DEF TypeOK, Calls, Idle, Busy
<1>3. CASE RunAttach(c)
  <2>1. call[c].at = "attach" /\ thread' = thread /\ attached' \subseteq attached \cup {m_stream[p]}
    BY <1>3, <1>p DEF RunAttach
  <2>2. call'[c].at = "spawn" /\ call'[c].port = p
    BY <1>2, <1>3, <1>p DEF RunAttach, Goto, BusyCalls
  <2>3. Claims(p)'
    BY <2>2 DEF Claims
  <2>4. \A q \in Ports : Claims(q) => Claims(q)'
    BY <1>1, <2>1, <2>2 DEF Claims, Reading, At
  <2> QED
    BY <1>1, <2>1, <2>3, <2>4 DEF EachClaimed
<1>4. CASE RunSpawn(c)
  <2>1. PICK i \in Slots :
               /\ Free(p, i)
               /\ thread' = [thread EXCEPT ![p][i] = "begin"]
    BY <1>4, <1>p DEF RunSpawn
  <2>2. attached' = attached
    BY <1>4 DEF RunSpawn
  <2>3. /\ thread[p][i] = "none"
        /\ \A q \in Ports, k \in Slots :
              thread'[q][k] = IF q = p /\ k = i THEN "begin" ELSE thread[q][k]
    BY <2>1 DEF Free, TypeOK
  <2>4. Claims(p)'
    BY <1>1, <2>3 DEF Claims, Reading
  <2>5. ASSUME NEW q \in Ports \ {p}, Claims(q) PROVE Claims(q)'
    <3>1. \A k \in Slots : thread'[q][k] = thread[q][k]
      BY <2>3
    <3>2. \A d \in Callers : call[d].at = "spawn" /\ call[d].port = q => call'[d] = call[d]
      BY <1>1, <1>p
    <3> QED
      BY <1>1, <2>5, <3>1, <3>2 DEF Claims, Reading, At
  <2> QED
    BY <1>1, <2>2, <2>4, <2>5 DEF EachClaimed
<1>5. CASE ~RunAttach(c) /\ ~RunSpawn(c)
  <2>1. thread' = thread /\ attached' = attached /\ call[c].at # "spawn"
    BY <1>5 DEF Caller, CallerStep, RunCheck, JoinCheck, JoinReturn, RunActive, RunAssign
  <2> QED
    BY <1>1, <2>1, ClaimsFrame
<1> QED
  BY <1>3, <1>4, <1>5

\* A thread that reads gives its claim up only for callDetach(), and that one with the
\* attachment.
LEMMA ProcessingClaimed ==
    ASSUME TypeOK, DeckInv, SessionInv, PacedInv, Paced, EachClaimed,
           NEW p \in Ports, NEW k \in Slots, Processing(p, k)
    PROVE  EachClaimed'
<1>1. /\ UNCHANGED <<call, m_stream>>
      /\ \A q \in Ports, j \in Slots : ~(q = p /\ j = k) => thread'[q][j] = thread[q][j]
      /\ \A q \in Ports \ {p} : m_shutdown'[q] = m_shutdown[q]
  BY ProcessingMoves
<1>2. Reading(p, k) => (Reading(p, k) \/ At(p, k, "detach"))'
  BY ProcessingOutcome
<1>3. attached' \subseteq attached /\ (At(p, k, "detach") => m_stream[p] \notin attached')
  <2>1. CASE Detach(p, k)
    BY <2>1 DEF Detach
  <2>2. CASE ~Detach(p, k)
    BY <2>2 DEF Processing, ThreadStep, Begin, Loop, Read, SendPacket, TestEos, Exit, Finish, At, outside
  <2> QED
    BY <2>1, <2>2
<1>4. \A j \in Slots : Live(p, j) => j = k
  BY ProcessingMoves, SessionOneThread DEF OneThread
<1>5. ASSUME NEW q \in Ports, Claims(q), ~(q = p /\ At(p, k, "detach")) PROVE Claims(q)'
  <2>1. CASE \E c \in Callers : call[c].at = "spawn" /\ call[c].port = q
    BY <1>1, <2>1 DEF Claims
  <2>2. CASE q # p
    BY <1>1, <1>5, <2>2 DEF Claims, Reading, At
  <2>3. CASE q = p /\ \E j \in Slots : Reading(p, j) \/ At(p, j, "detach")
    BY <1>2, <1>4, <1>5, <2>3 DEF Claims, Reading, At, Live
  <2> QED
    BY <1>5, <2>1, <2>2, <2>3 DEF Claims
<1> QED
  BY <1>1, <1>3, <1>5 DEF EachClaimed

\* An attachment that stands has a thread or a run() that answers for it.
THEOREM AttachmentsClaimed ==
    ASSUME Paced
    PROVE  Spec => []EachClaimed
<1>1. Init => EachClaimed
  BY DEF Init, ProcInit, EachClaimed
<1>2. TypeOK /\ DeckInv /\ SessionInv /\ PacedInv /\ EachClaimed /\ [Next]_vars => EachClaimed'
  <2> SUFFICES ASSUME TypeOK, DeckInv, SessionInv, PacedInv, EachClaimed, [Next]_vars
               PROVE  EachClaimed'
    OBVIOUS
  <2>1. CASE UNCHANGED vars
    BY <2>1, ClaimsFrame DEF vars, procVars
  <2>2. ~Stop
    BY DEF Stop, Issue, Paced
  <2> QED
    BY <2>1, <2>2, UpstreamClaimed, StreamsDoneClaimed, ControlClaimed, CallerClaimed,
       ProcessingClaimed DEF Next
<1>3. "stop" \notin Ops
  BY DEF Paced
<1> QED
  BY <1>1, <1>2, <1>3, TypeCorrect, DeckCorrect, SessionCorrect, PacedCorrect, PTL DEF Spec

\* Of the streams that were ever announced, the one that is left when nothing is in
\* transit is the stream being processed, and it is announced.
COROLLARY AttachedIsCurrentHolds ==
    ASSUME Paced
    PROVE  Spec => []AttachedIsCurrent
<1>1. TypeOK /\ SessionInv /\ PacedInv /\ EachClaimed => AttachedIsCurrent
  <2> SUFFICES ASSUME TypeOK, SessionInv, PacedInv, EachClaimed, started, Quiet
               PROVE  attached = Current
    BY DEF AttachedIsCurrent
  <2>1. attached \subseteq Current
    <3>1. \A p \in Ports : Claims(p) => m_active_stream[p]
      BY DEF Claims, Quiet, Idle, At, SessionInv, ReadersAttached
    <3> QED
      BY <3>1 DEF EachClaimed, Current
  <2>2. ASSUME NEW p \in Ports, m_active_stream[p] PROVE m_stream[p] \in attached
    <3>1. PICK k \in Slots : Live(p, k)
      BY <2>2 DEF PacedInv, ActiveIsRead, Quiet, Resting, Entering, Idle
    <3>2. Reading(p, k)
      BY <3>1 DEF Quiet, Reading, Live
    <3> QED
      BY <3>2 DEF SessionInv, ReadersAttached
  <2> QED
    BY <2>1, <2>2 DEF Current
<1>2. "stop" \notin Ops
  BY DEF Paced
<1> QED
  BY <1>1, <1>2, TypeCorrect, SessionCorrect, PacedCorrect, AttachmentsClaimed, PTL

=============================================================================
