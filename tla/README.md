# rh.SinkSDDS in TLA+

`rh.SinkSDDS` is a REDHAWK component. It takes one BulkIO stream at a time, from
one of three input ports, and sends its samples as SDDS packets over a UDP
socket. This directory models its control: the threads, the hand-over from one
stream to the next, start and stop, the headers of the packets it sends and their time
tags, what downstream is told of the stream, and the life of the socket. Paths below are relative to the repository; `SinkSDDS.cpp`, `sddspacket.h` and
`BulkIOToSDDSProcessor.cpp` are in `src/cpp/`.

## 1. The system

| Part | State | Operations |
| --- | --- | --- |
| `SinkSDDS_i`, the component | the three on-deck vectors, `m_stream_lock`, `m_connection`, the property structs; `started()` of its base class | `start`, `stop`, the stream listeners `setFloatStream`, `setShortStream`, `setOctetStream`, the callback `streamsDone`, `newConnectionMade`, the property setters, the `status` query, `setupSocket` |
| `BulkIOToSDDSProcessor<T>`, one per port | `m_stream`, `m_active_stream`, `m_processorThread`, `m_running`, `m_shutdown`; `m_first_run`, `m_seq`, `m_sdds_template`, `m_sri`, `m_current_time`; copies of the settings | `setStream`, `run`, `join`, `shutdown`, the thread `_run` with `getDataPointer`, `sendPacket`, `callAttach`, `callDetach`, `pushSri`; setters |
| `SDDSpacket`, `SDDSTime` | the 56 header bytes; time in 250 ps tics | setters that write network order; time arithmetic |
| `socketUtils` | a socket and its address | `unicast_server`, `multicast_server` |
| BulkIO (library) | the streams of a port, their queues, whether readers may block | listener call, `read`, `eos`, `enable`, `disable` |
| `SinkSDDS_base`, `struct_props.h`, `main.cpp` | generated | base `start`, `stop` |

How they interact. Upstream opens a stream; BulkIO calls the listener of the port
on the thread that delivered the packet. The listener takes `m_stream_lock`,
puts the stream on deck if any processor is active, and otherwise gives it to the
processor of its port and, in a started component, calls `run()`. `run()` joins a
thread that has left `_run()`, announces the stream downstream with attach, and
creates a thread. The thread reads blocks and sends packets until the end of the
stream, a `shutdown()` or a failed send. On its way out it clears the flags and
creates a thread that calls `streamsDone()`, which takes `m_stream_lock` and
starts the stream on deck. The framework calls `start()` and `stop()` on a thread
of its own, without that lock.

What is hard. The members of a processor are plain variables that four kinds of
thread read and write (upstream, the processing thread, `streamsDone()`, the
framework); `m_stream_lock` covers two of them. The decision "is a stream active"
and the act it justifies are separated by the whole end of a thread. `run()` and
`join()` test a pointer and use it later. `stop()` has to free a reader that is
blocked in a port. The header template is never built anew, so each field has its
own history. The SRI a processor keeps is written by its thread and by the thread
of every new connection. `start()` reads the settings again and again before
`started()` begins to refuse their change. `setupSocket()` leaves by four different
ways, and a descriptor that was closed comes back as another file. The flags of the
header share words, written piece by piece in network order. The start of the year is
found in an object of the whole process.

What makes each part correct:

- Hand-over: every stream that is accepted is read to its end and detached; a
  stream waits on deck until the current one has ended; it is then started;
  nothing is processed twice or beside another.
- Threads: a thread object is created, joined and deleted once; a stream is
  announced before its packets; `stop()` returns and leaves no thread; the lock is
  given back.
- Packets: numbers run without gaps except the parity numbers; the start of
  sequence bit marks the first round of a run; header fields are those of the
  block sent, or the user's, never those of an earlier configuration; the receiver
  reads from the bits what was meant.
- Time: the tag counts from the start of the year in UTC, wherever the host is.
- SRI: before a packet is sent every connection was told the SRI it belongs to, with
  the byte order and the priority of the settings in effect.
- Socket: a started component sends on its own open socket, made from the settings a
  query returns; a start that finds no device leaves nothing open; no file of another part of the
  process is closed.

`removeStream()` is not part of the behaviour: the constructor of the component
passes it to `removeStreamListener()` (`SinkSDDS.cpp:47,50,53`), which unregisters
a listener, so BulkIO never calls it.

## 2. The modules

| Module | What it is |
| --- | --- |
| `BulkIOPorts` | the ports and streams of BulkIO, external, from the calls the code makes |
| `BulkIOToSDDSProcessor` | the processors: `run`, `join`, `setStream`, `shutdown`, `_run` |
| `SinkSDDS` | the component composed with its processors and ports; the properties |
| `StreamLifecycle` | abstract specification: what happens to a stream, seen from outside |
| `SDDSPackets` | numbers, start of sequence bit and header fields of the packets |
| `SDDSHeader` | the values of the header fields in the bits of the packet; extends `SDDSPackets` |
| `SDDSTime` | the time of a packet, as arithmetic on pairs |
| `SDDSClock` | `setSddsTimestamp` and `getStartOfYear` against the clock of the host |
| `SriUpdates` | the SRI told to connections: `pushSri`, `newConnectionMade` |
| `OutputSocket` | `setupSocket`, both kinds of server, `stop` closing the socket, the setter of the network settings |
| `MCSinkSDDS`, `MCSDDSPackets`, `MCSDDSClock`, `MCSriUpdates`, `MCOutputSocket` | the modules TLC runs |
| `SinkSDDS_proofs` | theorems about `SinkSDDS` in any environment, and as long as it is not stopped |
| `SinkSDDS_paced_proofs` | theorems about `SinkSDDS` in a paced environment; extends `SinkSDDS_proofs` |
| `SinkSDDS_refinement` | `SinkSDDS` implements `StreamLifecycle`; extends `SinkSDDS_paced_proofs` |
| `SDDSPackets_proofs`, `SDDSHeader_proofs`, `SDDSClock_proofs`, `SriUpdates_proofs`, `OutputSocket_proofs` | theorems and their proofs |

### Correspondence with the code: threads and hand-over

Variables have the names of the members they model. `thread[p][k]` is the place in
`_run()` of the k-th thread object of processor `p`; `m_processorThread[p]` is
such a `k` or `NULL`. `call["control"]` is the `run()` or `join()` that the
framework's thread is in; `call["callback"]` the one that the holder of
`m_stream_lock` is in, so the lock is held while that call is in progress. `done`
counts the `streamsDone()` calls handed to a thread that has not run yet.
`attached` is what downstream was told. `ctl` says how far `start()` or `stop()`
has got.

| Action | Code |
| --- | --- |
| `NewStream` | the three listeners, up to `started()` |
| `streamsDone` | `streamsDone()`, up to `started()` |
| `CheckStarted` | `if (started()) run()` in both |
| `RunCheck`, `JoinCheck`, `JoinReturn`, `RunActive`, `RunAttach`, `RunSpawn`, `RunAssign` | `run()` and `join()`, cut at every access to a member another thread may change |
| `Begin`, `Loop`, `Read`, `SendPacket`, `TestEos`, `Detach`, `Exit`, `Finish` | `_run()` in the same way; `Detach` is the second half of `callDetach()`, after the active flag was cleared |
| `Start`, `LaunchNext`, `BaseStart` | `start()` to the socket, `run()` of each processor, the base `start()` |
| `Stop`, `ShutdownNext`, `BaseStop`, `JoinNext`, `CloseSocket` | `stop()` in its five parts |

Choices worth knowing. `getDataPointer()` is one action: it blocks until the port
has a block, or the stream has ended, or the port was released. The samples do
not matter, so a stream is a number of waiting blocks. `callAttach()` and
`callDetach()` reach all connections at once. A `start()` whose socket fails
changes nothing of this model's state (it does in `SDDSPackets`). Port names
`"float"`, `"short"`, `"octet"` stand for the three processors since the code
walks through them in a fixed order.

Environment. Upstream opens each stream once, pushes any number of blocks, may
send the end of stream at any time or never. The listener runs on the thread that
delivers a stream's packets, so a stream pushes nothing while its own listener is
at work. The framework makes one call of `start()` or `stop()` at a time.

`get_status_struct` is what a query of the status returns. The query only reads, under
the lock, so it is an operator and no action.
`PacedStreams` and `PacedControl` restrict this environment: with the first a
stream is opened only when no call, no callback and no thread on its way in or out
is in transit; with the second `start()` and `stop()` too wait for that. They mark
what the component can be relied on for, as opposed to the races it has.

### Correspondence with the code: packets

`SDDSPackets` describes one processor. Its header is a function from fields to
where their value comes from: a constant of the code, the SRI, a time stamp, the
user's `override_sdds_header`, or the memory the template was allocated in. That
is what the properties of this module tell apart.
`Send` is one level of the recursion of `sendPacket()`; `left` is what remains of
the block. A block may be up to two payloads long, the case of a mode that changes
under the reader. `count`, `opened` and `lapped` are history variables that no
action reads. Threads are coarser than in `SinkSDDS`: `Leave` lets the thread end
between any two blocks, which covers an end of stream, a `shutdown()` and one that
was left over from before.

`SDDSHeader` adds the values. Its `m_sdds_template` holds `dmode`, `bps` and `cx` as
the bit-fields they are, `msptr` with its three flags and `msdel` as the 16-bit words
a little-endian host has in its memory, and `freq` as a number of its lowest bit. Each
step of `SDDSPackets` that writes a field is conjoined with what it writes
(`HeaderSpec`); `HeaderNext` has no other steps. `Received` reads the words back as
the tests do. Words have 16 bits as in the code; only `freq` is narrowed, by `FreqMod`.
A frequency the conversion cannot represent leaves any value.

### Correspondence with the code: time tags

`SDDSTime` is the class of that name: `Plus`, `Minus` and `Less` are its operators,
`FromSeconds` its constructor from seconds and a fraction. A conversion of a number
that `uint64_t` cannot hold gives any value. `SDDSClock` cuts `setSddsTimestamp()` into
`Gmtime` (`time()` and `gmtime()`), `Reset` (the five fields set to the first of
January) and `Stamp` (`mktime()`, the difference, the tag), for each of the
`Senders`; `Tick` is the clock of the host. `tm` is the one object `gmtime()` returns
in the whole process. `timezone` is the C library's, and `mktime()` takes the
broken-down time for local standard time, since `gmtime()` has set `tm_isdst` to 0. The
fraction of a time stamp is an exact number of fractions of a tic: the rounding of a
double is left out.

### Correspondence with the code: SRI and connections

`SriUpdates` has the processing threads of all ports and one `newConnectionMade()`
per connection. An SRI is a number, in the order upstream sent them, and the set of
its two keywords that matter; `upstream` is the SRI the next block carries.

| Action | Code |
| --- | --- |
| `Read` | `getDataPointer()`: assign `m_sri` in the first run and when the block says it changed |
| `Push`, `Deliver` | `pushSri()` with no port: add the keywords, then the calls of `dataSddsOut`, one connection after the other |
| `Send`, `SendFails` | `sendPacket()`, which succeeds and the thread reads on, or fails and the thread ends |
| `End`, `LeaveRun` | the other ends of the thread; what follows the loop of `_run()` |
| `NewStream` | `setStream()` and `run()`, as a listener or as `streamsDone()` calls them |
| `CheckStarted`, `Visit`, `Arrive` | `newConnectionMade()`: `started()`, `pushSri(port)` of each processor in turn, the delivery |
| `Start`, `StartFails`, `BaseStart`, `Stop`, `Stopped`, `Configure` | the settings copied, also by a start that fails; the setters |

A push is a remote call: what it carries is settled in one step, it arrives in a
later one. `told` and `last` record what a connection has received. Connections are made
at any time, also while `start()` or `stop()` is at work; `unheard` is a history variable
with the connections for which `newConnectionMade()` then finds `started()` false.

A thread ends in three ways. The end of the stream makes the stream inactive (`callDetach()`). A
failed send ends the thread and leaves the stream active (`SendFails`). A `shutdown()`, or a
read that returns nothing from a port that is not open, does the same (the second disjunct of
`End`). `SriUpdates` keeps neither `m_shutdown` nor the state of the ports, so it lets a
thread end in the third way at any read, which covers a `stop()` in progress, a request left over
from an earlier one, and a thread launched before the ports are reopened. A started
component may thus have an active stream and no thread, and only the next `start()` runs it again.
`done` counts the `streamsDone()` calls that are due; such a call may open a stream on one
port while the stream of another is still active, as it does not ask (`SinkSDDS.cpp:105`). A
listener opens one only when none is active. Whether there is a stream on deck is left open.
What this model leaves to `SinkSDDS` is the cut inside `run()` and `join()`: a thread is created in
the step that sets the stream, and is never beside an older one of the same processor.

### Correspondence with the code: the socket

`OutputSocket` cuts `start()` and `setupSocket()` at each system call that may fail and
at each read of `network_settings`. `setup` is the position in this code with its
local variables. `file` maps every descriptor of the process to what it refers to.

| Action | Code |
| --- | --- |
| `Start`, `ChooseServer` | `setupSocket()` up to the call of `multicast_server()` or `unicast_server()` |
| `Create`, `Enumerate`, `TryDevice`, `NoDevice` | `multicast_open_()` and `unicast_open_()`: the socket, the device table, a turn of the loop, the end of the loop |
| `SetTtl` | the rest of the server functions |
| `HandOver`, `Started` | `setConnection()` of each processor; the base `start()` |
| `Stop`, `CloseSocket` | the base `stop()`; `close()` |
| `set_network_settings_struct` | the setter |
| `OtherOpens`, `OtherCloses` | other code of the process |

A device is tried if it matches; a call that fails inside the loop leads to the next
device and leaves the address and the bound socket behind. The `VERIFY_ERR` outside
the loop throw; those after `socket()` do so only with `LateFailures`. The setter
runs while `start()` does only with `SetterRaces`. Descriptor 0 is a standard stream
in this model, since the code takes a 0 for no socket.

## 3. The runs

Deadlock checking is off in the runs of `MCSinkSDDS`, `MCSriUpdates` and `MCSDDSClock`: with
finitely many streams, SRIs, calls and seconds the system comes to rest. It is on in the others.

| Run | Instance | What it shows |
| --- | --- | --- |
| `session` | 3 ports, 3 streams, one start, sends may fail, unpaced | types, one stream is on deck over the three vectors and stays disabled, joins are exclusive, attach precedes packets, one thread per processor |
| `paced` | 2 ports, 3 streams, one start, paced, fair | strict life cycle, one stream is active, the status reports every stream, what is attached downstream is the current stream, every active stream is read, detach is for the ended stream, the deck gets its turn, ends are announced, the lock is released |
| `stop` | 1 port, 2 streams, 2 calls, sends may fail, unpaced, fair | the deck has a waker, weak life cycle, start and stop return, no thread survives the last stop |
| `packets` | number of 6 bits, payload of 2 bytes, 2 SRIs, 2 override values, memory all zeros or all ones | numbers, start of sequence bit, header fields, what the receiver reads of them |
| `clock` | years of 2 and 3 days of 2 seconds, 3 time zones, tics of 24 values, one sender | time tags, arithmetic of times |
| `socket` | 4 descriptors, 6 settings, 3 device tables | types, only an exception loses a socket, a started component is connected by its settings, files of others are kept |
| `connections` | 2 ports, 1 connection, 2 SRIs, 2 settings, 3 calls of start and stop; sends may fail | types and one value per keyword, every packet is preceded by its SRI |

These find a violation; section 4 tells what each one is:

| Run | Instance | Violated |
| --- | --- | --- |
| `eos_window` | 2 ports, 2 streams, one start, streams unpaced | `ActiveIsProcessed` |
| `stale_shutdown` | one stream, start and stop, paced | `NoStaleShutdown` |
| `stale_sri`, `unheard` | as `connections` | `LastSriIsCurrent`, `EveryConnectionTold` |
| `stale_override` | one override value | `OverrideEnds` |

The bounds, and why they are enough:

- Three streams are a current one, one on deck and one that displaces it; two suffice
  for a hand-over. Two ports show every case in which ports differ (the same port,
  another port that comes first or last); `session` uses all three.
- `MaxBlocks = 1`: a queue is empty or not; no test looks at its length.
- `MaxThreads` bounds the thread objects of a processor that are alive or referred to
  at once. With 2 or 3 a slot was always free in these instances
  (`SlotsSuffice` in `MCSinkSDDS` states it).
- In `connections` three calls are start, stop, start. The two settings differ in the byte
  order and in the priority. In `stop` two suffice: a start and the stop.
- `SeqMod = 64` has two parity numbers, one inside the round and one at its end; the
  code's 32 and 31 are kept. Payload 2 gives blocks of less than, exactly, more
  than and twice a payload.

- Two SRIs are an old one and a current one, of one stream or of two. Connections do
  not interact, so one that may come at any time stands for all of them; two ports
  make `newConnectionMade()` visit a processor that is not active.
- In `packets` the samples are floats, whose size does not fit `bps`. One override fills
  every field it can (an 11-bit `msptr` whose bytes differ, flags that alternate), the
  other has more bits than every field has room for. The complex SRI has a frequency
  the signed field has no room for.
- In `clock` the first two years have 2 and 3 days and the run ends with the first
  second of the third, so both turns of a year happen. A time stamp is at most one second before or after the clock, so
  it may be of last year or of the next. A second has 2 tics and a tic 2 fractions: the
  run has fractions with and without whole tics. 24 tics hold the longest year, as the
  code's 2^64 do.
- The six settings are a group and a host, with and without an interface and a vlan, a
  group the code takes for a host, and no address; the tables have a device that matches, one that is down, one that is not
  multicast and a second one to go on with. Four descriptors leave three for the
  socket, for what other code opens before it and for what reuses its number.

### Fairness

`FairSpec` assumes that a thread that can take a step eventually takes one (weak
fairness of each processing thread, each caller, `streamsDone`, `CheckStarted` and
the rest of `start()`/`stop()`), as the operating system schedules them; joins are
disabled until the thread has ended, and the mutex is free when no call holds it.
Strong fairness of `GivesUp` says that a reader of a released port does not find a
block at every read for ever; it is the code's own reliance, "Opens the port up so
that the stream object will return" (`SinkSDDS.cpp:368`). Nothing is assumed of
upstream or of the framework: streams need not end, nobody need call `stop()`. The
properties that speak of an end therefore have it as a premise.

### Variants

A definition `X_Variant` is `X` with a mistake in it, the kind an edit of the code
could introduce (a guard dropped, a flag not reset, one of three siblings
forgotten, an order swapped). No specification uses them. They stand beside the
original to record which mistake each property notices; `PROJECT.json` pairs them
under `mutants`.

## 4. What the checks found

The code keeps its promise for an upstream that leaves time between the end of a
stream and the next one, and for a component that is started once. Outside of
that:

- `eos_window`. `callDetach()` clears the active flag (line 163) long before the
  thread clears `m_running` (339). A stream that arrives in between is accepted by
  the listener, `run()` returns at line 117, and `streamsDone()` finds an empty
  deck. The stream is active, never read, and keeps every later stream on deck.
- `stale_shutdown`. `stop()` sets `m_shutdown` on processors that have no thread.
  Only `_run()` resets it. The next thread of that processor, after the next
  `start()`, ends before its first read.
- `stale_override`. The fields only `overrideSddsHeader()` writes keep the user's
  values after the override was disabled.
- `stale_sri`. A connection that finds the component started is pushed `m_sri`, which before
  the first block is that of an earlier stream or empty. This push may arrive after
  the processing thread's, and the connection keeps the old SRI until the next change.
- `unheard`. A connection made after the thread's push and before `started()` becomes true is
  pushed nothing by either, and told nothing until the SRI changes.

The passing runs say nothing of the cases they leave out. `session` has no `stop()`. `paced`
keeps listeners out of the windows of the hand-over and of `start()`, and its sends do not
fail. `socket` keeps the setter out of `start()`. `SriBeforeData` excepts the connections that find
`started()` false while `start()` or `stop()` runs, of which `unheard` has some. `DeckHasWaker`
counts an active stream as a waker, and such a stream may have no thread. What TLC finds
there, with the instance changed as the second column says, has no run of its own:

| Violated | Instance | How |
| --- | --- | --- |
| `AtMostOneActive`, `StatusComplete` | `paced` without `PacedStreams` | The arrival of `eos_window` with a stream on deck: the new stream is accepted on another port, and `streamsDone()` promotes the one on deck without asking whether a stream is active (`SinkSDDS.cpp:105`), although 124-126 says that a stream is only accepted if no other is. |
| `DetachMatches` | `paced` without `PacedStreams` | A listener between lines 163 and 165 sets `m_stream`, and `callDetach()` detaches the stream that has just come. |
| `AttachedIsCurrent` | `paced` without `PacedStreams` | The stream of `eos_window` is current and was never attached. |
| `ActiveIsProcessed` | `paced` without `PacedStreams` and `PacedControl` | A listener between the `run()` of its processor in `start()` and the base `start()` sees `started()` false, so nobody runs the stream it has set. |
| `ActiveIsProcessed` | `paced` with `SendMayFail` | The message at line 320 says the stream "will be closed"; it stays active and attached, without a thread. |
| `ActiveIsProcessed` | `paced` with `Ops = {"start", "stop"}`, `MaxOps = 3` | The left-over flag of `stale_shutdown`. Or: `start()` launches the threads before the ports are reopened, a read returns nothing, and the thread gives up a live stream. |
| `JoinExclusive` | `paced` with `Ops = {"start", "stop"}`, `MaxOps = 2` | The last thread ends on the flag `stop()` has set; its `streamsDone()` finds a stream on deck and `started()` still true. The `run()` it calls and `stop()`, whose `join()` takes no lock, join and delete one thread object. |
| `OneThread`, `AttachedBeforeData` | the same with `MaxOps = 3` | Such a `run()` may create a thread beside that of a later `start()`, since `m_running` is set only by the thread itself. |
| `SettingsInEffect` | `socket` with `SetterRaces` | After the address was chosen the setter changes the settings, as `started()` is still false. The component sends by the old ones. |
| `TagDenotesStamp` | `clock` with two `Senders` | Two threads that send, as two active streams make them: one calls `gmtime()` between the other's resetting of the fields and its `mktime()`. |

Two more cannot be seen in the properties. A thread whose pointer is not yet assigned (line 131) when
`stop()` tests it (81) is not joined, and sends on the socket `stop()` has closed;
`StopQuiesces` says no more than that it ends all the same. With a blank interface and no
vlan `multicast_open_()` puts `INADDR_ANY` into the address the processors send to and
announce downstream (`multicast.cpp:75`), where `README.md:72` has the group; `SettingsInEffect`
states this destination as the code has it.

When `stop()` ends the thread of a stream that has not ended, `streamsDone()` offers
the stream on deck to a processor that is still active, which refuses it, and then
clears the deck: the weak life cycle has a step `Drop` for it, the strict one does
not.

In `OutputSocket` a `VERIFY_ERR` after `socket()` throws and nobody knows the
descriptor any more, although `SinkSDDS.cpp:66` has all cleanup in the stop method;
`LostOnlyByThrow` says that no socket is lost in another way. The test for
a multicast address (`SinkSDDS.cpp:419`) compares one bound in host order and the
other in network order, so that a group whose last octet is 240 or more is given a
unicast socket, and an address above the multicast range may be given a multicast one.

In `SDDSClock` the start of the year is right in every time zone and at every second
of the year, which answers the question of `BulkIOToSDDSProcessor.cpp:513` ("Does this
logic work on new years day?") for `getStartOfYear()`. What does not work is a time
stamp taken before the turn of the year and sent after it: the difference is negative
and its conversion to `uint64_t` undefined, so the tag may be anything. The code warns
of it (line 490), and `TagDenotesStamp` excepts it.

In `SDDSPackets` the fields `msv`, `msptr` and `msdel` start with whatever the
memory held, where `README.md:101,104,105` says zero: no constructor or other
statement sets them without an override. When the first block of a run fills two
packets and the second of them has number 0, the start of sequence bit is not
cleared until the next round; `SosUntilRoundEnds` therefore counts from the end of
the first block.

## 5. What is proved

Every theorem holds for every value of the constants allowed by the assumptions:
any set of ports among the three, any set of streams and of thread objects, any
bound on calls and blocks. Where a theorem speaks of one kind of environment only, its
`ASSUME` says so: `"stop" \notin Ops` (the component is not stopped) or `Paced`.

`SinkSDDS_proofs`:

- `TypeCorrect`: `TypeOK` is inductive; one lemma for each kind of step.
- `DeckCorrect` with its corollaries `OneOnDeckHolds`, `DeckHasWakerHolds`,
  `DeckedIsDisabledHolds`. The invariant `DeckInv` is their conjunction with
  `StreamsKnown` (a processor's stream has been opened; an active processor has
  one). `OneOnDeck` needs only itself. `DeckedIsDisabled` needs `StreamsKnown`: a
  stream that is opened now cannot already be a processor's. `DeckHasWaker` needs
  that a stream is put on deck only when one is active, that a processor stops
  being active only in a step of a live thread, that this thread hands over
  before it is gone, and that `streamsDone()` leaves the deck empty. The last is
  where `OneOnDeck` comes in.

The same module, for a component that is not stopped once it was started (streams
may arrive at any time, sends may fail):

- `OneThreadHolds`, `AttachedBeforeDataHolds`, `NoStaleShutdownHolds`,
  corollaries of `SessionCorrect`. None of the three is inductive; `SessionInv` adds what
  the code never says:
  - `StartedOnce`: the framework's thread is in a `run()` only while `start()` launches,
    and a listener or callback only after, since it looks at `started()`, which is false
    until `start()` ends. So there is one `run()` at a time, without a lock.
  - `ThreadsOwned`: a thread that lives is the one `m_processorThread` points to, or the
    one a `run()` has just created and not yet assigned.
  - `CallsKnow`: what a `run()` in progress may rely on of the tests it has made: past
    the join the pointer is NULL, past the test of the flag the processor is active.
  - `StreamsApart`: no two processors were ever given the same stream, so that the detach of
    one withdraws nothing another has announced.
  - `ReadersAttached`: a thread that will go on reading (`Reading`) has an active processor
    and its stream is attached.
  - `ShutdownOwn`: a shutdown request is always that of a thread in its loop, made by itself.

  The hypothesis is needed: with `stop()` among the operations TLC finds `OneThread` and
  `AttachedBeforeData` violated, even in a paced environment, since `shutdown()` and
  `join()` take no lock and the flag outlives the call (section 4).

`SinkSDDS_paced_proofs`, for a paced environment:

- `AtMostOneActiveHolds`, `ActiveIsProcessedHolds`,
  `StatusCompleteHolds`, corollaries of `PacedCorrect`. The argument is that of a baton:
  the stream that is read, the thread that ends because its stream has, the pending
  `streamsDone()`, and the `run()` that follows exclude each other over all processors.
  `EndsFirst` says that from the end of a stream until `streamsDone()` has run no
  processor is active; `EntersAlone` that a `run()` which may still create a thread
  finds none; `OneAlive` that the threads are of one processor; `EndSeen` that a thread gives
  up only for an end of stream; `ActiveIsRead` that an active processor has a thread, or a
  `run()` that will create it, or is still to be launched. `ThreadsInSession` and
  `StartOrder` are about `start()`: the socket is open before a thread exists, so that
  no send fails, and the processors left to launch have none.
- `AttachedIsCurrentHolds`, from `AttachmentsClaimed`: every attachment that stands is
  claimed by a thread that reads its stream, by one that is about to detach it, or by a
  `run()` between `callAttach()` and the new thread.

Pacing is what these rest on; section 4 says what happens without it.

`SinkSDDS_refinement`: `LifecycleImplemented`, every behaviour of `SinkSDDS` is one of
`StreamLifecycle`: of its weak form in any environment, of its strict form in a paced one.
The refinement mapping is `StreamStatus`. A listener is `Accept` or `Park`, `streamsDone()`
is `Promote` or `Drop`, the step of `TestEos` that clears the active flag is
`Finish`, all others stutter. `DeckInv` supplies that the streams of the processors
and those on deck are disjoint, so that the status of a stream is well defined. The strict
form forbids `streamsDone()` to promote a second stream or to drop one that
`setStream()` refuses; `PacedInv` rules both out, since a pending `streamsDone()` means that
no processor is active.

`SDDSPackets_proofs`:

- `PacketsTypeCorrect`: types, and that `m_seq` keeps its width.
- `NumbersCorrect`: the n-th packet of a round has the number `n + n \div 31`. The
  arithmetic is the lemma `NextSeqIsNextSlot`, by cases on whether the round ends
  and whether the next number is a parity number. The width may be any multiple of
  32.
- `OverrideCompleteHolds` and `DerivedFromBlockHolds`, from `HeaderInv`: while a
  thread runs the component is started, its copy of the override is the property,
  and the header shows the override or, once a block was read, its SRI.
- `SosUntilRoundEndsHolds`, from `SosInv`, which relates the bit to the history.

`SDDSHeader_proofs`:

- `FieldsReceivedHolds`, for any user headers, rates, contents of the memory and width of
  the frequency. `FieldsReceived` is inductive beside the type of the template; one
  lemma for each function that writes the template. They rest on the lemmas about a
  word: it has a high byte, three flags and five bits (`WordRead`), these parts are
  unique (`LayoutOf`), and each setter changes one of them (`SetMsv`, `SetTtv`,
  `SetSscv`, `SetPointer`). The words have the 16 bits of the code.

`SDDSClock_proofs`:

- `ClockTypeCorrect`, and `ArithmeticExactHolds`: `Plus`, `Minus` and `Less` with their
  carries are sum, difference and order of the numbers the pairs stand for, for any
  number of tics and of fractions (`PlusExact`, `MinusExact`, `LessExact`).
- `TagDenotesStampHolds`, for a single sender. `TagInv` says what is in `gmtime()`'s object
  between its reading and `mktime()`; `FromSecondsExact` that the conversion of
  the difference loses nothing. Any calendar will do in which every second belongs to a
  year (`CalendarAssumption`), and any time zone.

`SriUpdates_proofs`:

- `SriTypeCorrect`: types, and one value per keyword.
- `SriBeforeDataHolds`, from `SriInv`. A connection is `Due` at a port when it was there
  as the threads were launched, or its `newConnectionMade()` has visited the port. It is
  `Informed` when it was told the processor's SRI, or its callback's push of that SRI
  is on its way, or the thread has still to push it before the next packet (`AllInformed`).
  `ThreadsTold` says what the thread's own push carries, `Quiet` that nothing runs in a
  stopped component. A stream that a failed send or an empty read has left behind keeps its SRI and
  its active flag, so that connections made meanwhile are told it, and the first block of
  the next thread is pushed anew, since every end of a thread sets `m_first_run` (`LeaveRun`). That a visit adds the keywords a second time does no harm is
  `WithKeywordsTwice`.

`OutputSocket_proofs`:

- `SocketTypeCorrect`, with the shape of the local variables at each position.
- `ConnectedWhenStartedHolds`, `ForeignFilesKeptHolds`, `LostOnlyByThrowHolds`, from
  `SockInv`: the standard descriptors are open, so that no socket is 0; a socket
  `setupSocket()` works on is open and its own and no connection yet
  (`LocalIsOwn`); a connection is open and its own, and that of all processors
  (`ConnectionIsOwn`).

The refinement is proved, and every invariant the passing runs check but three. `JoinExclusive`,
`DetachMatches` and `SettingsInEffect` hold only in environments that leave out the caller
which could break them, so a theorem would say little; TLC checks them against
mistakes elsewhere. Also only model-checked: the liveness properties (`CallsReturn`,
`StopQuiesces`, `LockReleased`, `DeckGetsTurn`, `EndIsAnnounced`). They rest on the fairness of single
actions, and the prover has no rule for ENABLED.

## 6. What is not modelled

- The settings a processor refuses while its thread runs
  (`BulkIOToSDDSProcessor.cpp:96`): in `SDDSPackets` and `SriUpdates` `stop()` leaves no
  thread behind; the race in which it does is in `SinkSDDS`, which has no settings.
- The parts of `socketUtils` the component does not call: clients, receiving, polling; and
  the port number, of which `htons()` keeps 16 bits.
- The race on the members of `m_sri` itself: an assignment and the addition of the
  keywords are one step each.
- The rounding of the conversions from and to floating point, in time tags, in `freq` and
  in `dfdt`.
- The samples and their byte order, padding bytes; `sf`, `of` and `ss`, copied from the
  settings; the bytes `ssd` and `aad`.
- `struct_props.h`, `SinkSDDS_base.*`, `main.cpp`: generated; only what the base
  `start()` and `stop()` do to `started()` and the ports is in `SinkSDDS`.
- Compiler and memory effects of the unsynchronised members: every access is atomic
  and takes effect at once.

## 7. Plan

Built, in this order: `BulkIOPorts`, `BulkIOToSDDSProcessor`, `SinkSDDS`,
`StreamLifecycle`, `SDDSPackets`, `SriUpdates`, `OutputSocket`, `SDDSTime` and
`SDDSClock`, `SDDSHeader`, each with its proofs. Left:

1. What remains true of the threads when `stop()` is used: which of the parts of
   `SessionInv` survive it, and between which calls.
2. The safety parts of the liveness properties: that no caller waits for a thread that waits
   for it.
3. The settings a running processor refuses (`BulkIOToSDDSProcessor.cpp:96`), added to
   `SinkSDDS`, where a thread may outlive `stop()`.
4. Two senders in `SDDSClock`: the tags the shared object of `gmtime()` can give.
