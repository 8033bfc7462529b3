------------------------ MODULE BulkIOToSDDSProcessor ------------------------
(***************************************************************************)
(* The stream processors of the component, one per input port: the flags   *)
(* and the thread pointer of BulkIOToSDDSProcessor<STREAM_TYPE>, its       *)
(* processing thread _run(), and its operations run(), join(), shutdown()  *)
(* and setStream().                                                        *)
(*                                                                         *)
(* None of the processor's members is guarded by a lock, so run() and      *)
(* join() are split at every access to a member that another thread may    *)
(* change.  Two kinds of caller execute them: the thread of the framework  *)
(* that called start() or stop() ("control"), and whichever thread holds   *)
(* the component's m_stream_lock ("callback").                             *)
(***************************************************************************)
EXTENDS BulkIOPorts

CONSTANTS
    MaxThreads,   \* bound: thread objects of one processor alive at once
    SendMayFail   \* TRUE when sendmsg() may fail on an open socket

ASSUME MaxThreadsAssumption == MaxThreads \in Nat
ASSUME SendMayFailAssumption == SendMayFail \in BOOLEAN

VARIABLES
    m_stream,           \* the stream the processor was given last
    m_active_stream,    \* is that stream being processed?
    m_processorThread,  \* the boost::thread pointer; NULL or a thread object
    m_running,          \* written by _run() only
    m_shutdown,         \* asks _run() to leave its loop
    thread,             \* where each thread object of a processor is in _run()
    call,               \* the run() or join() call each caller is executing
    attached,           \* streams announced downstream and not withdrawn
    done,               \* streamsDone() calls handed to a thread, not yet run
    sockOpen            \* is the output socket open?

procVars == <<m_stream, m_active_stream, m_processorThread, m_running,
              m_shutdown, thread, call, attached, done, sockOpen>>
\* The processor's own members and the world outside, for UNCHANGED.
members  == <<m_stream, m_active_stream, m_running, m_shutdown>>
outside  == <<attached, done, sockOpen>>

NULL == 0
Slots == 1 .. MaxThreads
Callers == {"control", "callback"}

\* Lines of _run() a thread can be at; "none" is an object that is not running.
ThreadLabels == {"none", "begin", "loop", "read", "empty", "send", "sent",
                 "detach", "exit", "finish"}
CallLabels == {"started", "check", "join", "joining", "active", "attach", "spawn", "assign"}

Idle == [at |-> "idle", op |-> "none", port |-> "none", slot |-> NULL,
         stream |-> NoStream]

\* A call in progress: where it is, which operation on which processor, the thread
\* object it is waiting for or has created, and the stream whose listener made it.
BusyCalls == [at     : CallLabels,
              op     : {"run", "join"},
              port   : Ports,
              slot   : Slots \cup {NULL},
              stream : Streams \cup {NoStream}]
Calls == {Idle} \cup BusyCalls

ProcInit ==
    /\ m_stream = [p \in Ports |-> NoStream]
    /\ m_active_stream = [p \in Ports |-> FALSE]
    /\ m_processorThread = [p \in Ports |-> NULL]
    /\ m_running = [p \in Ports |-> FALSE]
    /\ m_shutdown = [p \in Ports |-> FALSE]
    /\ thread = [p \in Ports |-> [k \in Slots |-> "none"]]
    /\ call = [c \in Callers |-> Idle]
    /\ attached = {}
    /\ done = 0
    /\ sockOpen = FALSE

-----------------------------------------------------------------------------
(* run() and join(), executed by caller c on the processor call[c].port.   *)

Goto(c, label) == call' = [call EXCEPT ![c].at = label]
Return(c) == call' = [call EXCEPT ![c] = Idle]

\* Variant: a thread object that is not running is not joined first.
RunCheck_NoJoin(c) ==
    /\ call[c].at = "check"
    /\ LET p == call[c].port IN
       IF m_processorThread[p] # NULL /\ m_running[p] THEN Return(c) ELSE Goto(c, "active")
    /\ UNCHANGED <<bulkVars, members, m_processorThread, thread, outside>>

\* The first test of run().
RunCheck(c) ==
    /\ call[c].at = "check"
    /\ LET p == call[c].port IN
       \/ m_processorThread[p] # NULL /\ m_running[p] /\ Return(c)
       \/ m_processorThread[p] # NULL /\ ~m_running[p] /\ Goto(c, "join")
       \/ m_processorThread[p] = NULL /\ Goto(c, "active")
    /\ UNCHANGED <<bulkVars, members, m_processorThread, thread, outside>>

\* Variant: after a join the new thread is started without callAttach().
LeaveJoin_NoAttach(c) ==
    \/ call[c].op = "run" /\ call' = [call EXCEPT ![c].at = "spawn", ![c].slot = NULL]
    \/ call[c].op = "join" /\ Return(c)

\* join() has nothing left to do: go on with run(), or back to stop().
LeaveJoin(c) ==
    \/ call[c].op = "run" /\ call' = [call EXCEPT ![c].at = "active", ![c].slot = NULL]
    \/ call[c].op = "join" /\ Return(c)

JoinCheck(c) ==
    /\ call[c].at = "join"
    /\ LET k == m_processorThread[call[c].port] IN
       \/ k # NULL /\ call' = [call EXCEPT ![c].at = "joining", ![c].slot = k]
       \/ k = NULL /\ LeaveJoin(c)
    /\ UNCHANGED <<bulkVars, members, m_processorThread, thread, outside>>

\* The thread has returned from _run(): delete it and clear the pointer.
JoinReturn(c) ==
    /\ call[c].at = "joining"
    /\ thread[call[c].port][call[c].slot] = "none"
    /\ m_processorThread' = [m_processorThread EXCEPT ![call[c].port] = NULL]
    /\ LeaveJoin(c)
    /\ UNCHANGED <<bulkVars, members, thread, outside>>

RunActive(c) ==
    /\ call[c].at = "active"
    /\ IF m_active_stream[call[c].port] THEN Goto(c, "attach") ELSE Return(c)
    /\ UNCHANGED <<bulkVars, members, m_processorThread, thread, outside>>

\* callAttach() looks at the flag once more.
RunAttach(c) ==
    /\ call[c].at = "attach"
    /\ LET p == call[c].port IN
       attached' = IF m_active_stream[p] THEN attached \cup {m_stream[p]} ELSE attached
    /\ Goto(c, "spawn")
    /\ UNCHANGED <<bulkVars, members, m_processorThread, thread, done, sockOpen>>

\* No pointer and no call refers to the k-th thread object of processor p.
Free(p, k) ==
    /\ thread[p][k] = "none"
    /\ m_processorThread[p] # k
    /\ \A c \in Callers : call[c].port = p => call[c].slot # k

\* new boost::thread(...): the thread runs before the pointer is assigned.
RunSpawn(c) ==
    /\ call[c].at = "spawn"
    /\ LET p == call[c].port IN
       \E k \in Slots :
          /\ Free(p, k)
          /\ \A j \in Slots : j < k => ~Free(p, j)
          /\ thread' = [thread EXCEPT ![p][k] = "begin"]
          /\ call' = [call EXCEPT ![c].at = "assign", ![c].slot = k]
    /\ UNCHANGED <<bulkVars, members, m_processorThread, outside>>

RunAssign(c) ==
    /\ call[c].at = "assign"
    /\ m_processorThread' = [m_processorThread EXCEPT ![call[c].port] = call[c].slot]
    /\ Return(c)
    /\ UNCHANGED <<bulkVars, members, thread, outside>>

CallerStep(c) ==
    \/ RunCheck(c) \/ JoinCheck(c) \/ JoinReturn(c)
    \/ RunActive(c) \/ RunAttach(c) \/ RunSpawn(c) \/ RunAssign(c)

-----------------------------------------------------------------------------
(* The processing thread _run(): object k of processor p.                  *)

At(p, k, label) == thread[p][k] = label
Move(p, k, label) == thread' = [thread EXCEPT ![p][k] = label]

Begin(p, k) ==
    /\ At(p, k, "begin")
    /\ m_running' = [m_running EXCEPT ![p] = TRUE]
    /\ Move(p, k, "loop")
    /\ UNCHANGED <<bulkVars, m_stream, m_active_stream, m_processorThread,
                   m_shutdown, call, outside>>

\* while (not m_shutdown)
Loop(p, k) ==
    /\ At(p, k, "loop")
    /\ Move(p, k, IF m_shutdown[p] THEN "exit" ELSE "read")
    /\ UNCHANGED <<bulkVars, members, m_processorThread, call, outside>>

\* getDataPointer(): blocks while there is neither a block nor a reason to give up.
Read(p, k) ==
    /\ At(p, k, "read")
    /\ \/ ReadData(m_stream[p]) /\ Move(p, k, "send")
       \/ ReadEmpty(m_stream[p]) /\ Move(p, k, "empty")
    /\ UNCHANGED <<members, m_processorThread, call, outside>>

\* shutdown(), as the thread calls it on itself before it continues.
ShutSelf(p, k) ==
    /\ m_shutdown' = [m_shutdown EXCEPT ![p] = TRUE]
    /\ Move(p, k, "loop")

SendPacket(p, k) ==
    /\ At(p, k, "send")
    /\ \/ sockOpen /\ Move(p, k, "sent") /\ UNCHANGED m_shutdown
       \/ (SendMayFail \/ ~sockOpen) /\ ShutSelf(p, k)
    /\ UNCHANGED <<bulkVars, m_stream, m_active_stream, m_running,
                   m_processorThread, call, outside>>

\* Variants: an empty read ends the thread without callDetach(); an empty read is
\* tried again; callDetach() does not wait for the end of the stream.
TestEos_EmptyNotDetached(p, k) ==
    /\ At(p, k, "empty") \/ At(p, k, "sent")
    /\ IF At(p, k, "empty") THEN ShutSelf(p, k) ELSE Move(p, k, "loop") /\ UNCHANGED m_shutdown
    /\ UNCHANGED <<bulkVars, m_stream, m_active_stream, m_running, m_processorThread, call, outside>>
TestEos_RetryEmpty(p, k) ==
    /\ At(p, k, "empty") \/ At(p, k, "sent")
    /\ Move(p, k, "loop")
    /\ UNCHANGED <<bulkVars, members, m_processorThread, call, outside>>

TestEos_Unasked(p, k) ==
    /\ At(p, k, "empty") \/ At(p, k, "sent")
    /\ IF m_active_stream[p]
       THEN /\ m_active_stream' = [m_active_stream EXCEPT ![p] = FALSE]
            /\ Move(p, k, "detach") /\ UNCHANGED m_shutdown
       ELSE ShutSelf(p, k) /\ UNCHANGED m_active_stream
    /\ UNCHANGED <<bulkVars, m_stream, m_running, m_processorThread, call, outside>>

\* The end-of-stream tests after an empty read and after a packet was sent.
\* callDetach() clears the active flag before it detaches.
TestEos(p, k) ==
    /\ At(p, k, "empty") \/ At(p, k, "sent")
    /\ LET eos == Eos(m_stream[p]) IN
       \/ /\ eos /\ m_active_stream[p]
          /\ m_active_stream' = [m_active_stream EXCEPT ![p] = FALSE]
          /\ Move(p, k, "detach")
          /\ UNCHANGED m_shutdown
       \/ /\ IF eos THEN ~m_active_stream[p] ELSE At(p, k, "empty")
          /\ ShutSelf(p, k)
          /\ UNCHANGED m_active_stream
       \/ /\ ~eos /\ At(p, k, "sent")
          /\ Move(p, k, "loop")
          /\ UNCHANGED <<m_active_stream, m_shutdown>>
    /\ UNCHANGED <<bulkVars, m_stream, m_running, m_processorThread, call, outside>>

\* The rest of callDetach(), which reads m_stream again, and shutdown().
Detach(p, k) ==
    /\ At(p, k, "detach")
    /\ attached' = attached \ {m_stream[p]}
    /\ ShutSelf(p, k)
    /\ UNCHANGED <<bulkVars, m_stream, m_active_stream, m_running,
                   m_processorThread, call, done, sockOpen>>

\* Variant: the shutdown flag is not rearmed.
Exit_NoReset(p, k) ==
    /\ At(p, k, "exit")
    /\ Move(p, k, "finish")
    /\ UNCHANGED <<bulkVars, members, m_processorThread, call, outside>>

\* After the loop: rearm the shutdown flag ...
Exit(p, k) ==
    /\ At(p, k, "exit")
    /\ m_shutdown' = [m_shutdown EXCEPT ![p] = FALSE]
    /\ Move(p, k, "finish")
    /\ UNCHANGED <<bulkVars, m_stream, m_active_stream, m_running,
                   m_processorThread, call, outside>>

\* Variants: streamsDone() is not called; the processing thread calls it itself
\* and ends when it has returned.
Finish_NoCallback(p, k) ==
    /\ At(p, k, "finish")
    /\ m_running' = [m_running EXCEPT ![p] = FALSE]
    /\ Move(p, k, "none")
    /\ UNCHANGED <<bulkVars, m_stream, m_active_stream, m_shutdown,
                   m_processorThread, call, outside>>
Finish_CallbackInline(p, k) ==
    /\ At(p, k, "finish")
    /\ m_running' = [m_running EXCEPT ![p] = FALSE]
    /\ IF m_running[p]
       THEN done' = done + 1 /\ UNCHANGED thread
       ELSE done = 0 /\ call["callback"] = Idle /\ Move(p, k, "none") /\ UNCHANGED done
    /\ UNCHANGED <<bulkVars, m_stream, m_active_stream, m_shutdown,
                   m_processorThread, call, attached, sockOpen>>

\* ... then m_running, and hand streamsDone() to a thread of its own.
Finish(p, k) ==
    /\ At(p, k, "finish")
    /\ m_running' = [m_running EXCEPT ![p] = FALSE]
    /\ done' = done + 1
    /\ Move(p, k, "none")
    /\ UNCHANGED <<bulkVars, m_stream, m_active_stream, m_shutdown,
                   m_processorThread, call, attached, sockOpen>>

ThreadStep(p, k) ==
    \/ Begin(p, k) \/ Loop(p, k) \/ Read(p, k) \/ SendPacket(p, k)
    \/ TestEos(p, k) \/ Detach(p, k) \/ Exit(p, k) \/ Finish(p, k)

-----------------------------------------------------------------------------
(* The operations the component calls in one piece.                        *)

\* Variant: a processor is active once it has been given a stream.
isActive_HasStream(p) == m_stream[p] # NoStream

isActive(p) == m_active_stream[p]

\* Variant: the stream is replaced whether one is active or not.
setStream_NoGuard(p, s) ==
    /\ m_stream' = [m_stream EXCEPT ![p] = s]
    /\ m_active_stream' = [m_active_stream EXCEPT ![p] = TRUE]

\* setStream() refuses a stream while another one is active.
setStream(p, s) ==
    IF m_active_stream[p]
    THEN UNCHANGED <<m_stream, m_active_stream>>
    ELSE /\ m_stream' = [m_stream EXCEPT ![p] = s]
         /\ m_active_stream' = [m_active_stream EXCEPT ![p] = TRUE]

shutdown(p) == m_shutdown' = [m_shutdown EXCEPT ![p] = TRUE]

Live(p, k) == thread[p][k] # "none"

=============================================================================
