# A TLA+ verification of lowlatency-cpp

This directory specifies the components of the library in TLA+, model-checks
them with TLC and proves their safety properties with TLAPS, for all sizes, numbers
of clients and amounts of data. Every definition is translated from the source under
`src/`; `PROJECT.json` names the lines each one stands for. The build modelled is the
Release build: assertions do nothing.

## The system

| Part | Source | State | Operations | What is hard about it |
|---|---|---|---|---|
| SPSC queue | `lf_queue.hpp` | slots, two atomic indices, an atomic count | `getNextToWriteTo`, `updateWriteIndex`, `getNextToRead`, `updateReadIndex`, `size` | two threads, two atomic steps per update, wrap-around |
| Threads | `thread_utils.hpp` | two atomics on the caller's stack | `createAndStartThread`, `setThreadCore` | stores through references into a frame that may be gone, spinning |
| Memory pool | `mem_pool.hpp` | `is_free_` per slot, next index, count | `allocate`, `deallocate`, `~MemPool` | user constructors and destructors run in the middle of operations |
| Logger | `logger.hpp`, `logger.cpp` | queue, thread, file stream, `running_` | constructor, `log`, `flushQueue`, destructor | shutdown order, full queue, failing writes |
| Socket utilities | `socket_utils.cpp` | a descriptor, a list of addresses | `createSocket` | any of eight calls may fail |
| TCP socket | `tcp_socket.cpp` | descriptor, two buffers, two flags | `connect`, `send`, `sendAndRecv`, `destroy` | partial I/O, a callback in mid-call, reuse of the object |
| TCP server | `tcp_server.cpp` | epoll, listener, four lists of raw pointers | `listen`, `poll`, `sendAndRecv`, `destroy` | edge-triggered events, deferred deletion, clients that vanish |
| Socket demo | `socket_demo.cpp` | a server, its client sockets, loop counters | `main` | server and clients take turns in one thread, with no waiting |
| Time, other demos | `time_utils.hpp`, `*_demo.cpp` | none | | not modelled |

The logger is built on the queue and the thread utilities; TCP socket and server
log through the logger, create descriptors with the socket utilities, and the
server owns TCP sockets. The socket demo runs a server and three clients in one
event loop.

## Modules

| Module | Models |
|---|---|
| `BoundedFifo` | what the queue promises: items leave in the order they entered, at most `Capacity` at a time |
| `LFQueue` | the queue; `producer` and `consumer` are the two threads with what they were handed. One action per access to an atomic; writing a slot takes two steps, between which it holds `Torn` |
| `ThreadUtils` | `createAndStartThread()`: `caller` and `child` are the two threads' positions, one action per load and store |
| `MemPool` | the pool; `frames` is the stack of calls in progress, so that `T`'s constructor and destructor can throw or call the pool again (two constants say how); `objects` counts the objects in each slot |
| `LogFile` | what the logger promises: a stream that is given what was logged, in order, and is closed with all of it unless it failed |
| `Logger` | composes instances of `LFQueue` and `ThreadUtils` with the constructor, flush loop and destructor |
| `LogFormat` | the scan of `log()`, one step per turn of its loop: what it pushes for a message and its arguments, against a definition that does not scan |
| `SocketUtils` | `createSocket()`, one action per system call and outcome |
| `TCPSocket` | the socket, one action per system call, over a kernel and a peer; a non-blocking `connect()` may return before the peer has answered |
| `TCPServer` | the server over epoll's interest set and ready list, and clients |
| `Filters` | the elements of a list that are in a set, in order (what `std::remove()` and `erase()` leave): a recursive function that proofs can be about |
| `SocketDemo` | `main()` of the socket demo: extends `TCPServer`, schedules its steps, and adds the demo's clients; other clients of the port do as they like |
| `MC...` | bounds for TLC |
| `MemPool_proofs`, `Logger_proofs`, `TCPSocket_proofs`, `TCPServer_proofs`, `SocketDemo_proofs` | theorems about the module they are named after |
| `LoggerParts_proofs` | theorems about `LFQueue` and `ThreadUtils`, which the logger is made of |
| `Utilities_proofs` | theorems about `SocketUtils` and `LogFormat` |
| `Filters_proofs` | induction and recursion over the natural numbers, what `Filter` returns, lists without repetitions |

Operators whose names begin with `Bug` are not part of the models: each is a
plausible mistake in the definition that follows it, and the property it is
paired with in `PROJECT.json` is violated when it takes that definition's place.

Abstractions. Memory accesses to atomics are sequentially consistent: the code
uses the default memory order everywhere. A slot's value, a log element and a
byte are model values or numbers. Bytes are numbered along their stream over all
connections of an object, so that a byte left over from an earlier connection
would show. Of a socket the server model keeps the descriptor, the flags taken
together, and how much either buffer holds; one `sendAndRecv()` of a socket is one
step there (`TCPSocket` splits it). `sendAndRecv()` of a client socket of the demo is
two steps, receiving and flushing, each of which is a client's step to the server.
Clients send any number of units at a time that the kernel has room for. A reply to a
piece of a message is the demo's prefix, `Prefix` units, and the piece; it is dropped
if it does not fit the send buffer, as `send()` does. `pieces` counts the pieces a
message arrived in, as every one gets a prefix of its own. What the logger's stream
has accepted is `written`; it may sit in the stream's buffer until `close()`, whose
flush can fail as any write can. How often the demo's event loop turns before
`main()` returns is left open. Histories (`sent`, `received`, `written`, `wire`,
`consumed`, `aborted`, `answer`, `pieces`, ...) are variables of the model only.

## Runs

| Run | Bounds | Shows |
|---|---|---|
| `lfqueue` | 3 slots, 7 items, 2 values | slot exclusion, content of the ring, stability of what an operation was given, refinement of `BoundedFifo`, no item and no refused producer left waiting |
| `threads` | core numbers from -2 to 5, 4 valid | flags and positions agree, no store into a dead frame, the outcome is the set-up's, the spin ends |
| `mempool` | 4 slots, calls nested 4 deep, counts modulo 16 | exact count, next slot free, object lifetimes, what may outlive the pool |
| `mempool_ctor`, `mempool_sweep` | same, `T`'s code using the pool in one more way each | violations, see Findings |
| `logger` | 3 slots, 5 elements | refinement of `LogFile`; the thread stops only when the queue is drained; the stream has one user; what is logged reaches it, unless it has failed; destructor and `log()` finish |
| `logformat` | messages up to 6 characters, up to 3 arguments | scan and definition agree when `log()` returns |
| `socketutils` | up to 3 addresses, 2 descriptors | no leak; the returned socket is complete |
| `tcpsocket` | buffers of 3, 4 bytes out, 3 in, 2 connects | indices, both streams, flags, descriptor, accepted bytes leave |
| `tcpserver` | 2 clients, buffers of 2, kernel buffers of 1, 1 event per call | pointers, ownership, descriptors, scheduling of failed sockets, no connection dropped without cause; calls in any order, any callback, `accept()` may fail |
| `demo` | `SocketDemo` with a client and a stranger, a message of 2, a prefix of 1, buffers of 4, kernel buffers of 2 and 1, 1 event per call, 1 `poll()` per connect | no unit of the message or of its replies is lost, repeated or dropped; the client is not disconnected and is answered in full; the stranger's waiting connection is taken unless `accept()` fails, and its ended one deleted |
| `tcpserver_accept` | same as `demo` | violation, see Findings |

Why the bounds suffice for the cases that matter: the queue's ring turns more than
twice and is full and empty at every position; the pool is full, empty and
fragmented, and nesting reaches every slot; each buffer fills, is emptied partly
and is reused by a second connection; one event per `epoll_wait()` leaves the
listener's and a client's events waiting for each other; the demo's message
travels in one piece or in two, gets one prefix or two, and its replies are longer than
the kernel's buffer, so that a reply can be left half sent while the next one is
written behind it; the stranger sends as much as it likes, until replies to it no longer
fit. The
demo has one client there, because with two TLC takes too long to check liveness. To
the server a client of the demo is a connection like the stranger's, which competes
with it for events and may send, stay silent, close or reset at any time; safety is
proved for any number of clients. The
stranger's properties are stated for one client, which stands for all because the
model treats strangers alike.

Deadlock is checked for the queue and the TCP socket, where some thread can always
take a step (polling an empty queue, calling `sendAndRecv()` or `connect()` again); it
is switched off where the program ends (thread start, pool, logger, one call of
`log()` or `createSocket()`) or where the server may be destroyed for good.

### Fairness

* Queue, threads, logger: weak fairness of each thread; the waits are `yield()` and
  1 ms sleeps, so a runnable thread is eventually scheduled. The application
  finishes a call it has begun (the constructor, a push into the queue, the
  destructor); nothing forces it to log or to destroy the logger.
* TCP socket: a connection in progress is accepted or refused in the end; the application keeps calling `sendAndRecv()`, as the demo's loop does,
  and the kernel's send buffer does not stay full for ever on a live connection
  (strong fairness of a successful `::send()`).
* TCP server: the event loop of `socket_demo.cpp` itself. The thread runs (weak
  fairness of `main()`) and `epoll_wait()` does not fail every time (strong
  fairness). Nothing is assumed of other clients, and the loop may end at any
  iteration. With applications that call the server in another way only safety is
  checked (`tcpserver`).

## Proofs

`LoggerParts_proofs`, of the queue, for every capacity `NumElems > 0`, every set of values not
containing `Torn`, and every bound `MaxItems`:

* `TypeCorrect`: `TypeOK` is invariant.
* `RingCorrect`: `RingHoldsItems` is invariant.
* `PointersStayValid`: `OperationsStable` is invariant.
* `NoSlotRace`: `SlotExclusive` is invariant.
* `FifoRefinement`: the queue implements `BoundedFifo`.

`SlotExclusive` is not inductive: that two slots differ follows only from how
indices, count and the threads' positions fit together. The inductive invariant
`IInv` is `TypeOK /\ RingHoldsItems /\ OperationsStable`. It says that the `num_elements_`
slots from the oldest item on hold, in order, the items published and not yet
released, where the oldest item is at `next_read_index_`, or at the consumer's slot
while the consumer is between its two steps; and symmetrically for the next free
slot. `NextIInv` has one step per action. Arithmetic on the ring is confined to
lemmas about `RingPos`: positions less than `NumElems` apart are different
(`RingPosDistinct`) and advancing an index shifts them (`RingPosAdvance`). The
refinement needs no mapping, as the histories `sent` and `received` are the
channel's variables; the counting steps are its steps and all others stutter.

`LoggerParts_proofs`, of `createAndStartThread()`, for every set of integers as core
numbers and every `CPU_SETSIZE`:

* `HandshakeCorrect`: `FlagsTellProgress` is invariant; it is inductive, and the other
  two follow from it.
* `NoStoreIntoDeadFrame`: `FlagsOutliveTheirUse` is invariant.
* `CallerLearnsOutcome`: `OutcomeIsSetup` is invariant.

`MemPool_proofs`, for every number of slots, every width of `size_t` that holds it and
every depth of nested calls:

* `FreeListCorrect`, `NextSlotCorrect`: `FreeCountExact` and `NextSlotIsFree` are
  invariant if `T`'s constructor does not allocate from the pool (`~CtorAllocates`).
* `LifetimesCorrect`: `ObjectLifetimes` is invariant if, in addition, `T`'s destructor
  releases nothing while `~MemPool()` runs it (`~SweptDtorDeallocates`).
* `SweepCorrect`: so is `NoObjectOutlivesPool`, under the same two assumptions.

Each of the two assumptions excludes a use that a finding shows to be broken:
`mempool_ctor` and `mempool_sweep`. A destructor may allocate while `~MemPool()` runs
it; the history `late` holds the slots it was given that the sweep had passed, whose
objects `NoObjectOutlivesPool` has to except. One more use is excluded
everywhere, by `MayDeallocate`: releasing an object while its destructor runs. The
pool would run the destructor again, and what a program does that destroys an object
twice is undefined. The count is not inductive alone: a call is
suspended while `T`'s code runs, and on return it changes the count for a slot it
looked at before. `CallsApart` says that suspended calls work on different slots
and that `is_free_` of a suspended call's slot is still what the call found. With it,
`FreeInv` is inductive; `SweepInv` adds which objects `~MemPool()` has left,
and where those allocated meanwhile are. That the
count moves with the cardinality of the free set uses `FiniteSetTheorems`, and that
the circular search finds a free slot uses a least element (`Smallest`).

`Logger_proofs`, for every size of the queue, every set of elements and every number
of elements logged, under the assumptions of the queue:

* `ShutdownCorrect`: `StopsWhenDrained` is invariant.
* `FileUseCorrect`: `FileHasOneUser` is invariant.
* `LogFileRefinement`: the logger implements `LogFile`.

The proof module of the queue and of the thread utilities is instantiated, so their
inductive invariants are preserved by the steps the logger makes of them
(`QueueKept`, `ThreadKept`). `Phases` relates the destructor's progress to the
background thread's: once the drain loop has seen an empty queue, nobody fills it.
`Prefixes` says that what was written and what was released are beginnings of what
was logged, and that the stream is ahead by the element in the thread's hands only.

`Utilities_proofs`, of `createSocket()`, for every number of addresses and set of descriptors:

* `SocketNeverLeaks`: `NoDescriptorLeak` is invariant (it is inductive).
* `SocketIsComplete`: `ReturnedSocketIsComplete` is invariant. The loop's body makes the
  first call of the list that is needed and still missing; `CallsInv` says that what
  was applied is needed and that nothing needed before it is missing, so the order of
  the list is the order of the calls.

`Utilities_proofs`, of `log()`, for messages and argument lists of every length, every
set of characters and every set of arguments:

* `FormatCorrect`: `LogFormatsMessage` is invariant.

The property speaks only of the end of the scan. `ScanInv` says the same at every
position: what has been pushed is what the characters before `s` contribute, an
argument was used for each placeholder among them, and `s` is not in the middle of a
pair. The last part is what the proof turns on: the definition counts percent signs
from the left of their run and the scan looks one character ahead, and they agree
because an even number of percent signs is behind the scan whenever it meets one.
`RunSteps` and `PlaceholderSteps` say how the counts change from one character to the
next, and `FormattedSteps` that the concatenation `Formatted` exists for every length.

`TCPSocket_proofs`, for every buffer size, number of connections and amount of data:

* `BuffersNotOverrun`: `IndicesInBuffer` is invariant.
* `SocketOwnsDescriptor`: `DescriptorOwned` is invariant.
* `SocketSafe`: `FlagsJustified` is invariant.
* `StreamsIntact`, `ReceivedIntact`: `SendStreamIntact` and `RecvStreamIntact` are
  invariant.

The stream properties compare a concatenation with the stream's beginning;
`SendInv` and `RecvInv` say the same byte by byte, which a step extends at one end
(`Extended`), and `Joined` puts the bytes together again. `FlagsInv` adds why a full
buffer that set the flag stays full: the callback, which could make room, is not
called again.

`TCPServer_proofs`, for every set of connections, buffer sizes of the server and the
kernel, any `MAX_EPOLL_EVENTS > 0` and any callback, calls in any order and failures
anywhere (`ServerAssumption` adds only that listener and epoll descriptor are not
connections):

* `ServerHasNoDanglingPointers`: `NoDanglingPointers` is invariant.
* `ServerServesEverySocket`: `EverySocketIsServed` is invariant.
* `ServerLeaksNoDescriptor`: `NoDescriptorLeak` is invariant.
* `ServerSchedulesFailedSockets`: `FailedSocketsScheduled` is invariant.
* `ServerDropsForCause`: the action property `DroppedForCause`.

The five rest on one inductive invariant of three parts, since each needs the
others: a deletion keeps the lists right only if what is scheduled is alive, and a
scheduled socket keeps its cause only if no other connection takes its place.
`ListsInv` says which sockets each of the four lists and epoll's ready list hold,
each once, at every step and not only between calls; `KernelInv` relates epoll's
registrations, the open descriptors and the accept queue to the live sockets;
`CauseInv` says that a socket with a flag set is scheduled and that one scheduled has
a cause, which nothing but its deletion takes away. TLC found no violation of the
invariant on the instance of `tcpserver` before it was proved. There is one lemma per
action; the socket's `sendAndRecv()` without and with closing are separate (`CallIInv`,
`ClosesIInv`).

`SocketDemo_proofs`, for any number of clients of the demo and of others, any prefix, any lengths
of messages whose replies fit the buffer, any kernel buffers, any number of `poll()` calls after
each `connect()`, and `accept()`, `listen()` or registering failing anywhere:

* `DemoImplementsServer`: the demo implements `SafeSpec`, the safety part of the
  server's specification.
* `DemoServerIsSafe`: therefore the five results above hold in the demo.
* `DemoLosesNothing`: `EveryUnitIsAccountedFor` is invariant.
* `DemoKeepsItsClients`: the action property `ClientsAreKept`, the server deletes no
  connection of the demo that it has accepted.

`DemoAssumption` says that the clients are different connections, that the server's
callback is the demo's, and that `Message * (Prefix + 1) <= TCP_BUFFER_SIZE` for each
client: a send buffer has room for the replies even if the message arrives unit by
unit. The demo's messages are 21 bytes and its prefix 17, so this asks for 378 of the
65536 bytes there are. Without it a reply can be dropped, by `send()`. The refinement is not immediate, because a client socket may only send on a
connection that is open and only as much as the kernel has room for; `DemoTypes` keeps
the kernel's bounds. `DemoInv` adds the server's `IInv` and, for each client, that its
receive buffer is empty between calls and that the units in the six places they can
be (client's buffer, kernel, server's receive and send buffer, kernel again, client)
add up to the message and one prefix per piece read so far, once it was sent
(`Everything`). The sum cannot be proved without the fact that a reply always fits the
server's send buffer (`ReplyFits`). That follows from the sum itself and from a bound
on the pieces: each took at least one unit, so those read and the units still to be
read are together at most the message (`OneMorePiece`). There
is one step per action of `main()`; every step of the server passes a client's units on
or leaves them where they are (`PassesOn`). `ClientsAreKept` then follows from
`CauseInv`: none of the causes for which a connection is dropped can apply to a client
of the demo (`NoCause`).

What the list operations return is proved by induction. The library's induction
theorems take a predicate, which the provers cannot instantiate; `Induction` in
`Filters_proofs` states it for a set of numbers instead, from the existence of a
smallest element (`Smallest`). `RecursionExists` builds a recursive function from it,
`FilterProperties` says that `Filter` keeps exactly the chosen elements and repeats
none, and `UniqueAddEach` says the same of a sequence of `addUnique()` calls.

Only model-checked: the liveness properties, as fairness is outside the prover's reach
(`EveryItemReleased`, `RefusedProducerGetsSlot`, `CallerGetsOutcome`, `LoggedReachesStream`,
`DestructorFinishes`, `FullQueueIsDrained`, `AcceptedBytesLeave`, `EveryClientIsAnswered`,
`EndedConnectionIsDeleted`, `TakenUnlessAcceptFails`). Of the demo's answers, for example,
it is proved that no part is lost and no client dropped; that they arrive is checked by
TLC.

## Findings

* `mempool_ctor`: `allocate()` runs the constructor before it marks the slot used. A
  constructor that allocates from the same pool gets the same slot.
* `mempool_sweep`: `~MemPool()` does not mark what it destroyed. An object destroyed
  later whose destructor deallocates an earlier one destroys it twice.
* `tcpserver_accept`: the accept loop ends on any error. Connections that wait then
  are not reported again until a new client connects. `TakenUnlessAcceptFails`
  shows that this is the only way a connection is left waiting.

Also worth knowing: `allocate()` still works while `~MemPool()` sweeps, and a destructor
that allocates then can be given a slot the sweep has passed, whose object is never
destroyed (`NoObjectOutlivesPool` shows that no other object is left); a socket that an application callback closes with `destroy()`
stays in the server's lists until the server is destroyed, because both flags are
cleared and epoll forgets the descriptor; and the server's default receive callback
never resets `next_rcv_valid_index_`, so a client that sends more than a buffer is
disconnected.

## Not modelled

* Time utilities: stateless reading and formatting of clocks.
* The other demos: straight-line uses of one component each.
* How numbers are printed and addresses written; kernel receive timestamps.
* When the logger's stream hands its buffer to the file: after a crash of the process
  the file may lack what the stream had accepted.
* Which of the three calls in `listen()` fails: whichever it is, what was opened is
  closed again, so the failures are one outcome of one action.
* `recv_finished_callback_`: the server's default and the demo's only log.
* Callbacks that call `sendAndRecv()` on their own socket or any function of the
  server: no code here does so, and the server's vectors would change under its
  own iteration.
* Liveness of the server under an application other than the demo.
