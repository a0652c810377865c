# RP-ControlEngine in TLA+

A model of the control engine under `src/Source`: a multi-threaded C++ program
that accepts TCP clients, streams its log to them and reads messages from them.
Each module is translated from the code; `PROJECT.json` maps every definition to
the lines it stands for. Line numbers below are those of the file named.

## 1. The system

`main` (`ControlEngine.cpp`) reads a settings file, builds the list of network
interfaces, constructs the controllers, hands them to a `ThreadOrchestrator` and
sleeps for ever. Every controller runs an endless loop on a thread of its own.

| Component | State | Operations | Talks to |
|---|---|---|---|
| `ThreadOrchestrator` | `threadContainerPool` | boot loop, endless sweep | `ThreadContainer` |
| `ThreadContainer` | `statusCode`, `controllerThread` | `startThread`, `threadRuntime`, `setDeadThreadStatusCode` | the controllers |
| `TcpSocketClient` | `connectionStatus`, `socketObject`, `sendMutex` | create, bind, listen, accept, close, `ping`, two `sendData`, `readData` | the operating system |
| `NetworkConnectionController` | `state` of its loop | build, accept, check, ping, rebuild | its interface's `TcpSocketClient` |
| `NetworkReaderController` | none | `readData` while connected | the same `TcpSocketClient` |
| `NetworkWriterController` | none | pop `writeBuffer`, `sendData` | the same, and `writeBuffer` |
| `NetworkInterface` | `networkList`, attached flags, `getDescriptionMutex` | ini, four fetches | constructors of all controllers |
| `_Queue::Queue` | `safeQueue`, `frontLock` | `push`, `pop`, `size`, `front` | loggers push, the writer pops |
| `LogQueue` | `mQueue`, `popLock`, `pushLock` | `push`, `pop`, `empty` | every thread pushes, loggers pop |
| `LoggingController` | sink flags, throughput counters | route a record, cut a report | `LogQueue`, `writeBuffer` |
| `Buffer`, `BufferCursor`, `TcpMessage` | one allocation, a position | `Allocate`, cursor moves, writes | `readData`, `TcpMesageFromString` |
| `CommandExecuterController` | none | sleeps | its interface index |
| `CpuLimiter` | `cpuStart`, `cpuPercentage` | `CalculateAndSleep` | the end of every controller's loop |
| `LogThroughput` | counters, `startTime` | push a record, counts | the logging controller that owns it |
| `Config`, `_String`, `_DateTime`, `_Bool` | local | I/O, formatting | `main`, constructors, loggers |

What is hard here:

* Threads share plain variables. `statusCode` of a container, `connectionStatus`
  and `socketObject` of a client, and `size()` of a queue are accessed without a
  lock, and every decision is taken on a value that may be out of date.
* Descriptors are numbers. The system hands out the lowest free one, so a number
  closed late may by then belong to another socket.
* Failures come from outside: `std::thread` throws, set-up calls fail, clients
  close, reset or stay silent, TCP cuts messages anywhere.
* Logging feeds itself: sending a log record logs.
* `LogQueue` has two locks, one for pushing and one for popping, around one `std::queue`.
* Some exceptions are `char const*` and are caught by nobody.

`PROJECT.json` lists the hazards one by one, each at the line where it bites.

## 2. Modules

| Module | Models | Proofs |
|---|---|---|
| `Supervisor` | what the orchestrator promises each controller (abstract) | |
| `ThreadSupervision` | `ThreadOrchestrator.h`, `ThreadContainer.h` | `ThreadSupervisionProofs` |
| `SocketLink` | `TcpSocketClient` under its three controllers | `SocketLinkProofs` |
| `Engine` | `SocketLink` with its threads under `ThreadSupervision` | `EngineProofs` |
| `Channel` | a FIFO channel (abstract), implemented by the next two and by `LogDeque` | |
| `MessageQueue` | `_Queue` between loggers and the writer | `MessageQueueProofs` |
| `FrameReader` | `readData`, `Buffer::Allocate`, `jumpForward` | `FrameReaderProofs` |
| `LogPipeline` | `LoggingController`, `LogQueue` as a bag, the writer's side effects | `LogPipelineProofs` |
| `LogDeque` | `LogQueue` down to the deque its two locks do not protect | `LoggerProofs` |
| `LoggerLoop` | one logging controller in time: `CpuLimiter`, `LogThroughput`, reports | `LoggerProofs` |
| `EngineStartup` | the command line, `Config`, `main`, `NetworkInterface`, the constructors | `EngineStartupProofs` |

`MC*` modules give the constants values for TLC. An operator whose name is that
of a definition with a suffix (`Join_Skipped`) is that definition with a
plausible bug in it; no specification uses it. The property that such a bug
breaks is named in `PROJECT.json`.

**ThreadSupervision.** `statusCode` and `thread` are functions on the pool; `pc`,
`mode` and `cur` are the orchestrator's place. `Join`, `Reset` and `Create` are
the three statements of `startThread` (41, 44, 45), one step each because the
controller's thread writes `statusCode` at any moment; the condition of the join
is part of `Join`, which waits. `Inspect` is the body of the sweep up to the
decision, `Mark` is `setDeadThreadStatusCode`. `Fail` is the write of `1`
(29 or 32), `Exit` the end of the thread, `ForeignThrow` an exception that is not
a `std::exception` and ends the process. A controller loop never ends normally,
so `0` is never returned.

**SocketLink.** One copy of `connectionStatus`, `socketObject` and the local
`state` of the connection controller for each interface; the descriptor table
`fdTable` and the sockets `sock` stand for the operating system. One action per
access: `NccSwapClose`, `NccSwap`, `NccConnected` are lines 48, 49 and 50 of
`TcpSocketClient.cpp`; `*CloseStatus` and `*CloseFd` are lines 150 and 151. `accept` and
`socket` take the lowest free descriptor. `recv` blocks (`inRecv`) and keeps its
socket alive when its number is closed, as Linux does. What readers and writers transfer is
abstracted to one bit and to the place of the stream in the frame format.
Time is left out: a thread may be delayed between any two steps, so nothing
depends on the 1 s and 5 s sleeps or on `CpuLimiter`. The controller's place at
the top of its loop needs no `pc` of its own: its `state` alone decides which of
the `if`s applies. Environment actions: clients connect,
send, close and reset. `hostPort` matters in one place: `accept` is given the address
once more as the address length (44), so family and port are read as one `int`, which is
negative when the low byte of the port is 128 or more. The kernel then refuses, after
it has taken the client from the queue (`NccAcceptRefused`), and the link never comes up.
`wire` is how far the bytes sent on a connection have got in the format of
`Doc/MessageFormat.md`. A ping puts four bytes there that belong to no message, without
`sendMutex`, so between the segments of a message too; a writer that was between two
segments when the connection was replaced goes on with the rest on the new one.

**Engine.** Extends `SocketLink` and instantiates `ThreadSupervision`: `NccAt` and `ReaderAt`
give each controller its place in the pool. A controller steps only while its thread is
`"running"`; `ReaderFails` is the return of 1 that `threadRuntime` stores; `Created` is the start of a
new thread, which for a reader means the top of its loop. `SocketLink`'s own `ReaderRestart`
is no action here: `LinkSpec` says that joining, resetting, creating and all that may go
wrong with it amount to just that step. A writer never fails, so `Writers` is empty.

**MessageQueue.** `frontLock` serialises `push` and `pop`; between the lock and the
unlock a thread reads the `std::queue` into `view` and writes it back, so an
overlap of two accesses would show as a lost update. `size()` is asked without
the lock: during a push both answers are possible. The loop of the writer controller is
taken apart at each thing it asks: `Poll` is the test of `connectionStatus`, `Size` that of
`size()`, the pop follows, and `Send` is `sendData`. The link is a flag that other threads
set and clear at any moment (`LinkUp`, `LinkDown`): a writer that finds it down asks
nothing further, and one that has found it up goes on without looking again.

**FrameReader.** The three states of `readData` with `size_t` arithmetic modulo
`WordSize`, and the three counters of the cursor. A length field that is not
read in one piece from its first byte yields an arbitrary length.
`HeadersWhole` says whether TCP delivers the two header fields in one piece. A behaviour is one connection
and ends with it: `RecvFails` is a `recv` of -1 in any of the three loops, after which
`readData` closes the socket and throws and the reader controller returns 1; `NotConnected` is the
reader finding the link closed by another thread between two messages. A reader that the orchestrator starts
again begins at `Init` with another connection.

**LogPipeline.** A record is its type. `Route` builds the message, which itself logs
`RecordsPerMessage` SYSTEM records (`Buffer.h:198` and `wrapBuffer`, `Buffer.h:37`);
sending logs one more, failing sends log ERROR. The link may come up (`Connect`) or never do so: no client may come,
and a late close can leave the connection controller without a way back (run `ReconnectRace`). Screen and file are output only
and left out. (`LoggingController.cpp:198` asks `network.warning` where the
file flag is meant, although `Settings/ControlEngine.json:33` has it false; it decides only
whether a line is written to the file.) `push`, `empty` and `pop` of `LogQueue` are atomic here.

**LogDeque.** Those three taken apart into the writes another thread can see, in the order
libstdc++ makes them: constructing a record, moving `finish`, allocating a node, moving the map
(`_M_reallocate_map`), destroying a record, freeing a node, moving `start`. The definitions for
the library's internals are external to this repository. While the map is being moved,
`Race` is the state in which `start` is about to be moved by both threads; it is reachable, by a
pop that leaves a node at that moment, and what follows is undefined and not modelled. The properties
say that nothing goes wrong before that: `push` and `pop` share no lock, and yet the deque implements
`Channel` and all other overlaps are harmless in an unoptimised x86 build, where loads and stores keep their order.

**LoggerLoop.** Microseconds, by differences: `age` is `now() - startTime`, `workflow` is
`cpuStop - cpuStart`. `Route` counts a record, `Cut` makes a report and a new `LogThroughput`,
`Limit` is `CalculateAndSleep` with the two ways its double can be rounded, the cut to an `unsigned int` and
the division by a `Cpu-Usage` of 0, whose infinity becomes a sleep of 0 in this build. The clock is
taken to be monotonic; `system_clock` is not, and a clock set back makes a report late.
The interval is the constant 60 of the code: the setting `Throughput-Interval` is never used.
The old `LogThroughput` is never freed.

**EngineStartup.** `ReadCommandLineArgs` splits the argument at each `=`. Everything is
accepted but `--Config-File` without exactly one `=`, and an argument without any `=` leads to
`cli[1]` out of range (`"undefined"`). `Load` chooses the settings: interfaces, thread counts, and at most one
section that lacks its `Enabled` or an entry that its constructor reads. A missing `Enabled` is a json null whose conversion to
`bool` throws (`EnabledMissing`). A missing `Thread-Count` throws nothing: the comparison `i < null` of
json is false, so no controller is made, and it is not even read when `Enabled` is false; it is a thread count of 0. Construction order, the
first-fit search of the three exclusive fetches and the lookup by description
follow the code; a fetch that finds nothing ends the process with the mutex held, and so
does a constructor that cannot read its settings, except that of a `LoggingController`, which is
pushed to the pool without an interface (`ConstructUnattached`).

The modules meet in these places: `Engine` composes `ThreadSupervision` and
`SocketLink`; `LogDeque` is the `mQueue` of `LogPipeline`; `MessageQueue` is the `writeBuffer` of `SocketLink`
and `LogPipeline`, which count its messages; `FrameReader` is what `recv`
returning means inside one connection; `EngineStartup`'s `AttachedOnce` is why
`MessageQueue` has one consumer and `SocketLink` one controller of a kind per
interface.

## 3. Runs

| Run | Instance | Checks |
|---|---|---|
| `Supervision` | 4 containers, 2 with Auto-Restart, 1 foreign thrower | no failure lost, no false alarm, no assignment to a joinable thread, every failure handled, implements `Supervisor` |
| `SocketLinkThreads` | 1 interface, reader, writer, 2 free descriptors, failing set-up | types, descriptor 0 stays open, no spin in TO_BUILD, a link that is down or dead is noticed, only pings break a stream |
| `Engine` | 1 interface, connection controller and reader in a pool of 2, 3 free descriptors, failing set-up | the composition implements the links alone, a failed reader reads again, the reader is never stranded in a `recv` |
| `SocketLinkAlone` | 2 interfaces, connection controllers only, ports 7225 and 8080 | sockets have exactly one owner, `connectionStatus` implies a connection, links come up again and again unless their port is refused |
| `MessageQueue` | 2 producers, 3 messages each | pops are never empty, everything is delivered once the link stays up, implements `Channel` |
| `LogPipeline` | 1 logger, shipped flags, 2 records, 1 report, 1 failure | no amplification, every step leaves less to do, comes to rest, with messages left only while the link is down |
| `LogDeque` | nodes of 2 records, a map of 3 places at first, 18 records | implements `Channel`, no place outside the map and no freed node is used, no node leaks, drains |
| `LoggerLoop` | 7 settings, 4 iterations, up to 2 microseconds of work a step, an interval of 6 | the share of CPU time is kept, every record in one report under its type, reports on time |
| `EngineStartup` | arguments of up to 3 tokens, up to 2 interfaces, up to 2 threads a kind, at most one section not in order | nothing attached twice, ends exactly when a kind has no `Enabled` or a controller cannot be attached or read its settings, writers and readers have a connection controller |
| `FrameReader` | payloads of 0, 1, 2 and 5 bytes, packets of 3, 3 frames | implements `Channel`, recv in bounds, counters in step, all frames delivered unless the connection is closed or an allocation fails |

Runs that find a disagreement between the code and what the repository says:

| Run | What happens |
|---|---|
| `ReconnectRace` | The reader clears `connectionStatus` (150); before it closes, the connection controller disconnects, rebuilds and listens; the late `close(socketObject)` (151) closes the new listening socket. `accept` fails for ever: there is no way back from TO_CONNECT. The settings ask for Auto-Reconnect. |
| `FrameSplitHeader` | After a short `recv` of the length, `readData` asks for eight bytes again and stores them over the first ones. |

Three more need no run of their own. `createSocket`, `bindSocket` and `listenSocket` return 1 and nobody
looks (`NetworkConnectionController.cpp:32-36`): after one failure, for example a port in
use, `accept` is polled for ever, which is why `SocketLinkAlone` assumes set-up calls that
succeed. A ping fits no place of `Doc/MessageFormat.md` (`BrokenOnlyByPing` is about the rest). And `Doc/MessageFormat.md` gives the length 4 and the
type 1 byte; the code uses `sizeof(long)` and `sizeof(MessageType)`, 8 and 4 on
the platforms it builds for. `FrameReader` uses the sizes of the code on both ends.

### Bounds

* Four containers are enough for a sweep to have a first, an inner and a last
  element, with and without Auto-Restart; status codes and threads are finite,
  so nothing else is bounded.
* `MaxFd` 2 with a writer makes descriptors scarce: descriptor 0 is taken, two are
  left, which a listening socket and the accepted one fill, so failing `accept`
  and `socket` happen by themselves. With one descriptor more `Engine` lets an old and a new
  connection be open at the same time. Socket identities are handed out lowest
  first and come back when the last user is gone.
* One waiting message (`MaxQueue`) is enough for the writer's tests of the queue:
  only zero or not zero matters in `SocketLink`.
* `MaxPushes` 3 with two producers reaches every overlap of a push, a `size()` and
  a pop with queues of up to six messages.
* Packets of 3 bytes against payloads of 5 exercise a payload that takes several
  `recv`s, and of which the last asks for less; 0 exercises the empty one.
  `WordSize` 64 only has to exceed every count.
* In `LogPipeline` two records, one report of eight and one failure of the link
  give up to about ten messages in flight. A failure can be a `Disconnect` or a failing send.
* In `LogDeque` nodes of 2 have a first and a last place; 18 records make the map move both ways, to the
  middle of itself and to a longer one, with nodes already given back in front.
* In `LoggerLoop` four iterations of up to two microseconds a step let an interval pass in
  one iteration and in several; `WordSize` 150 is less than the sleep 1 percent asks for
  after two microseconds, so the cut to an `unsigned int` happens.
* `SocketLinkAlone` has a port on each side of the sign: 8080 is 31 * 256 + 144.
* `EngineStartup` covers all lists of up to two descriptions, and up to two
  threads of each kind: fewer, as many and more threads than interfaces. A section that
  cannot be read stops `main` at once or changes nothing for the others, so one is enough.

### Deadlock

Deadlock is checked, with three exceptions (`Done` and `Bounded` mark a bound that is used up). `Supervision` stops after
`std::terminate`; `EngineStartup` stops when `main` sleeps or ends; `FrameReader` stops
when the peer has sent all its frames. A thread that polls in vain is a
stuttering step (`NccAcceptFails`, `PollDown`, `Idle`).

## 4. Fairness

Threads are scheduled by the operating system, so each thread's steps are weakly
fair; no thread is forced to fail, and no action of a controller is strongly
fair. In `MessageQueue` `size()` returns, but one that meets a push may answer
zero every time; a call of `sendData` returns. The mutex is not
assumed to be fair. The link need not come up there, nor in `LogPipeline`: `AllDelivered` is about behaviours in which it stays up
from some moment on, and `Quiesces` lets messages wait while it is down. In `FrameReader` no
`recv` has to fail. In `Engine` the creation of a thread is strongly fair (`Created`): it may fail any
number of times, but the system does not refuse threads for ever. Environment fairness is used in two places only: a
client keeps connecting (`Reconnects`), and a host whose application has
closed the connection answers further bytes with a reset (`DeadPeerNoticed`), which
is what TCP does. A client that merely stays silent is not required to do anything.

`ThreadSupervision` makes every failed or exiting thread end (`Exit`), since
nothing is left for it to do after the write of the status code.

## 5. Proofs

All are of the form `Init => Inv`, `Inv /\ [Next]_vars => Inv'`, `Inv => P`, for every
value of the constants that satisfies the module's `ASSUME`. A theorem that holds in fewer
cases than that says so in its hypothesis; those hypotheses are named here. Each inductive
invariant was checked by TLC before it was proved.

* `ThreadSupervisionProofs`. `NoLostFailure` and `RunningLooksAlive` are not inductive by
  themselves: the step that resets a status code could erase a failure. `Control`
  adds what the orchestrator's place says of the container it is handling: between
  the join and the constructor it has no thread, so nobody else writes its status code,
  and a sweep only joins or marks a container whose code is 1, which with
  `RunningLooksAlive` means that it does not run. The refinement theorem maps each step
  to a step of `Supervisor` or to a stutter.
* `SocketLinkProofs`, first part: any interfaces, readers and writers. `StdinNeverClosed`
  needs that a `socketObject` of 0 is only seen
  before the first `createSocket`, that no thread gets to a close before a connection
  existed, and that the lowest free descriptor is never 0 because 0 is never freed.
  `NoBuildSpin` needs that the place of the controller fits its state. The
  steps of readers, writers and clients are shown once to leave the
  controllers' part alone (`ControllersUndisturbed`).
* `SocketLinkProofs`, who owns a socket (`SocketsOwned`, `UpMeansConnected`). Hypothesis: no readers and no
  writers, any number of interfaces, set-up calls that may fail. `Owned` says for each place of a connection
  controller what its `socketObject` and `temp` are (`Fit`), that each open descriptor is one of these
  (`Covered`), and that no two descriptors mean one socket (`TableFit`). With readers or writers it is false: that is the run
  `ReconnectRace`.
* `SocketLinkProofs`, the blocked `recv` (`ReaderNotStranded`). Hypothesis: one interface, no writer. `CloserFit` is the
  argument: the connection controller closes a connection only after a `send` on it failed, so the far
  end has reset it and the `recv` returns; the reader, which may close anything, is not in a `recv` meanwhile.
* `SocketLinkProofs`, the stream (`BrokenOnlyByPing`). Hypothesis: one interface. `StreamFit`: a stream that has begun in
  the message format is where the writer's place says; `TempFit`: nothing is sent on a connection before it is installed.
* Why one interface: with two, TLC finds a thread that has decided to close or to send, is delayed, and meets
  a number that by then belongs to the other interface. `ReaderNotStranded` and `BrokenOnlyByPing` are then false,
  in the model as in the code.
* `EngineProofs`. Uses the theorems of `ThreadSupervisionProofs` for the engine's pool by `INSTANCE`.
  `Coupled`: while a controller's thread does not run, its link is at the top of its loop or has given up. With that
  each step of `Engine` is a step of `SocketLink` or leaves its variables alone (`LinksUnderSupervision`), and a step of
  `ThreadSupervision` or leaves the pool alone (`SupervisionOfTheEngine`), so what is proved of either part
  holds in the engine. `PlacesAssumption` asks for what `main` does: every controller has a container of its own.
* `MessageQueueProofs`. `LockInv`: the lock is held by exactly the thread whose place says
  so, and that thread's view is the queue. `SomethingToPop`: from the answer of
  `size()` to the pop the queue is not empty, or the push that `size()` saw still
  holds the lock; since the consumer needs the lock to go on, it finds the
  message. From these follow `PopsNonEmpty` and the refinement of `Channel`;
  `AppendSent` and `MoveHead` are the facts about sequences behind it.
* `FrameReaderProofs`. `CursorTracksRemaining` needs that the buffer is allocated for exactly the
  bytes that remain to be read (`AllocatesRemaining`) and that the `size_t`
  arithmetic does not wrap in the payload (`WrapExact`); `WritesInBounds` follows. These theorems do not assume
  `HeadersWhole`: even a misread length never makes `recv` write out of bounds. `FramesDelivered` (`DeliversFrames`) does,
  and the run `FrameSplitHeader` shows that it must: `InStream` says at each state of `readData` how far into which frame
  of the stream the reader is, so the next byte it takes for a header is one. `EndOf`, the position at which a frame
  ends, is a recursive function; that it satisfies its equation and increases is shown by the least
  frame for which it would not (`LeastExists`).
* `LoggerProofs`, the loop. `CpuShare` only holds at the top of the loop; `Settled` says it at every
  place of the work without `workflow`, which the limiter has not seen yet. `SpendingKeeps`: work changes
  nothing of that; `LimitKeeps`: a call of `CalculateAndSleep` turns `workflow` into sleep,
  whatever the rounding (`SleepBounds`). `ReportsCover` adds how much work can wait for the limiter
  (`WorkBounded`, two steps) and how old the batch entry can be at each place (`AgeBounded`).
* `LoggerProofs`, the deque. `ImplementsChannel` and `NodesOwned` are true because each iterator is a number: `Index` counts the
  places of all nodes in the order of their allocation, and `Counted` says that `start` is at record `popped + 1` and
  `finish` at `pushed + 1`, at every step of either thread, so the channel sends where `finish` moves and receives
  where `start` does, and `Delivered` says that what front() took is the next record. Then `empty()`, which compares iterators while a push is
  under way, can only err by calling a new record absent (`StartBehind`), a pop never touches the slot that is being constructed
  (`SlotsFit`), and a node `start` leaves is followed by one that is already in the map. `MapFits` says where
  the nodes lie in the map, also between its move and the two iterators that still have the old places. All of it
  holds until `Race`, which `StartNodeFits` excludes by hypothesis: there the place after `start`'s
  is one of the old map. `MemorySafe` follows from `MapFits` and `Counted`: the places are those of the map as it is now,
whichever thread has replaced it. `DequeTypeOK` includes a bound on the map: it only doubles while it is at most twice as long as needed.
* `LogPipelineProofs`. `NoAmplification` under the hypothesis that SYSTEM records do not go to the network, as
  in the shipped settings; without it, it is false, since each message logs SYSTEM records. `Work` is a
  weighted sum of the records in the queue, in the logger's hands and in the write buffer; `Paid` says that no
  step adds more than an event of the engine pays for. A link that goes down under a message being sent
  owes records it has not logged yet (`Debt`), without which `Paid` is not inductive.
  `RunsDown` is the variant of `Quiesces` under the same hypothesis: `Left` weighs each record, message and place
  of a controller so that every step of the controllers takes some of it away and only an event of the engine adds to it;
  it is a natural number (`LeftIsNat`), so no number of logging controllers can keep each other busy for ever.
* `EngineStartupProofs`. The invariant says of each phase of `main` how many controllers of each kind there are, that the attached
  flags are those of the controllers made, and that first fit has filled the interfaces from the first (`FirstFit`),
  which gives `SomeoneConnects`; `AttachedOnce`; and that nothing was missing so far (`PastMeansFine`).
  First fit takes the least index, so the lemmas about least elements (`LeastExists`) are part of it.

Only model-checked: liveness (`FailureHandled`, `ReaderRecovers`, `DownNoticed`, `DeadPeerNoticed`, `Reconnects`,
`AllDelivered`, `Quiesces`, `Drains`, `AllFramesDelivered`), which needs `ENABLED`; of `Quiesces`
the variant is proved, and that a step remains possible is left to TLC. Every safety property of
a passing run has a theorem.

## 6. Not modelled

* `_DateTime`, `_Bool` and the layout of records: formatting.
* The loop of `CommandExecuterController`: it only sleeps.
* `size()` of `LogThroughput`: a number in the text of a report.
* `writeBytes`: fills the fresh buffer of an outgoing message once, in one thread.
* Growth of `writeBuffer` without end while nobody is connected: it is what the code does, and
  the models bound the number of records.
* A `Thread-Count` that is a string, an array or an object: json orders it after every number, so the
  loop of `main` makes controllers until one cannot be attached, or for ever (logging controllers).
* What follows undefined behaviour: a logging controller without an interface, `cli[1]` out
  of range, the `Race` of `LogDeque`, an unlock of a mutex that is not held (`TcpSocketClient.cpp:123`).
* Functions without a caller: `createConnection`, `closeSocketUnused`, `setConnectionStatus`, `refresh`,
  `setNetworkIndexAddress`, `setNetworkIndexPort`, `restartNetwork`, `readBuffer`, `front()` of both queues
  (that of `LogQueue` never releases its lock), `operator++`, `operator--`, `jumpBackward` and `jump` of
  `BufferCursor` (the first two compare a `size_t` minus one with 0, the third moves forwards),
  `stringReplace` (which never ends when the replacement contains what it replaces), `toRawString`,
  `fromRawString`, `stringLower`, `toBool`.

## 7. Plan

1. Done: supervision, the socket life cycle and both together, the write queue, the log queue and its
   race, the logger's loop in time, frame reading, start-up, the log pipeline; the proofs of section 5.
2. Left: the hypotheses of `SocketLinkProofs`, each of which says which thread or interface makes the property false
   without it.
