# Verification of scorpio_utils

TLA+ models of *scorpio_utils*, a C++ library: its UDP transport, its threading
primitives and some of its sequential algorithms. TLC checks them on small instances;
the TLA+ proof system proves what is named in section 5 for every value of the
constants. Source paths are relative to `src/` of this repository (`network/…`,
`threading/…` without a prefix lie under `include/scorpio_utils/` or `src/`; `U`
stands for `src/network/scorpio_udp.cpp`). The protocol is described in
`SCORPIO_UDP_PROTOCOL.md` (`md` below); definitions follow the code where the two differ.

## 1. The system

### Networking (`network/`)

| component | state | operations | talks to |
|---|---|---|---|
| `Orderer<T>` | ring `_data`, `_current_index`, `_current_count`, `_held_ranges` | `add`, `next`, `peek`, `set_size`, `get_contained` | owned by one stream, called from the connection's thread |
| `ScorpioUdpStream` | `_state`, epoch, sequence counters, `_sent_history`, `_stuck_resend_since`, `_orderer`, `_partial_data`, `_receive` channel | `send`, `receive`, `close`, `panic`, handlers of STREAM_DATA, of heartbeat blocks and of stream control packets, `update` | application threads call `send` and `receive`; the connection's thread calls the handlers |
| `ScorpioUdpConnection` | `_state`, identity, stream table and two-level mask, epochs per stream number, time of the last packet, channels of incoming packets, of awaiting and of new streams | `create_stream`, `close`, `panic`, `send_heartbeat`, a thread of its own | the socket's processing thread feeds it packets; it sends through the socket's channel |
| `ScorpioUdp` | connection table, channels of connections to dial, of accepted ones and of packets to send, `_stop`, `_panic` | `connect`, `listen`, `start`, `stop`, `panic`, CONNECT and DISCONNECT handlers, three threads (receive, send, process) | `Udp` below, connections above |
| `Udp` | a descriptor | `open`, `bind`, `send`, `receive`, `close` | the operating system |

Hard: packets are lost, repeated, late and out of order; threads send on one stream
while heartbeats are handled; two windows that must fit; retransmission without a timer
of its own; restarts of a peer, simultaneous creation, epochs of 8 bits; time-outs
racing late answers; threads that block on each other's channels while they are joined.

Right means: messages of a RELIABLE_ORDERED stream are delivered once, complete and in
order; nothing leaves the sender's ring before the receiver has it; a receiver does not
fail because of what a correct sender does; two ends agree on the incarnation of a
connection and of a stream; every dial, call and shutdown ends.

### Threading (`threading/`)

| component | state | operations | used by |
|---|---|---|---|
| `Signal` | one futex word | `wait`, `try_take`, `notify`, `close` | channels |
| `Channel<T, Size>` | `_head`, `_tail`, slots with `seq` and `ready`, two signals | `send`, `receive`, `close` | pool, socket |
| `Channel<T, 0>` | deque, mutex, one signal | the same | streams, connections |
| `eager_select` | the next sleep | polls channels and time-outs in the order of its arguments | the threads of socket and connections |
| `ThreadPool` | task channel, `_stop`, three thread counters, mutex, condition variable | `add_task`, `async`, `for_each`, `set_threads_count`, `work`, destructor | futures |
| `Future`, `AndThen`, `WaitGroup` | results, done flags, lists of groups and of continuations | completion, registration, waiting, closing | applications |
| `ThreadStreams` | a mutex per stream, the holder | chains of `<<` and `>>`, guards | loggers |

Hard: interleavings of single atomic steps; a wake-up between a test and a sleep;
closing while others wait; a pool that shrinks while its workers decide who leaves; an
object released while its last user reports to it.

Right means: no wake-up is lost; a slot has one user at a time; a channel is a FIFO
queue; closing lets everybody out; a pool keeps the threads it was asked to keep and
runs what it was given; a group is done when, and only when, what it counts is.

### The rest

Iterators, saturating arithmetic, `TwoSidedVector`, `RosVariable` and `BufferedFileSaver`
(whose errors surface late) have state or arithmetic worth checking and are modelled.
Strings, time formatting, geometry, vocabulary types and the vendored `magic_enum` are not
(section 7).

## 2. Modules

| module | models | how it corresponds |
|---|---|---|
| `OrdererSpec` | what `Orderer` promises | accepted pairs and a sliding window |
| `Orderer` | `network/orderer.hpp` | a variable per field; an action per operation, its answer in `answer` |
| `FifoDelivery` | what a reliable stream promises | delivered is a prefix of sent |
| `ReliableStream` | one direction of a RELIABLE_ORDERED stream | application threads take numbers (`Allocate`) and fill the ring (`Write`) in two steps, since numbers are taken outside the history lock; a handler is one action, since one thread runs it; `cur` and `held` are the window of `OrdererSpec` |
| `UnreliableStream` | UNRELIABLE streams, the widening of numbers, `generate_packets` and `frames_left` | numbers wrap at `SeqCount`; an action per arrival and per expiry |
| `WireFormat` | headers, quality-of-service bytes, byte order | packets as sequences of bytes, written and read back |
| `HeartbeatScan` | stream masks and the scan of `send_heartbeat` | words of bits as sets of positions |
| `StreamLifecycle` | both ends of one stream number | CREATE_STREAM and CLOSE_STREAM handlers, heartbeat blocks, `update`, `close`, panics; a late packet stays in `net` for ever |
| `Connection` | two peers | dial, accept, reject, heartbeat, disconnect, panics, silence, destruction and restart |
| `EagerSelect` | the loop of a connection's thread | polls packets (`UnboundedChannel`), new streams, the time-out; the clock is a lagging `LazyTimeProvider`; `close()` by its steps |
| `UnboundedChannel` | `Channel<T, 0>` | operators, one per atomic step, instantiated by `EagerSelect` |
| `Socket` | `ScorpioUdp`'s threads | receive, send and process thread, panic, stop and the destructor, by each mutex, channel and join |
| `UdpSocket` | `network/udp.cpp` | openers and closers of one shared descriptor in a process with other descriptors |
| `Signal` | `threading/signal.hpp`, `signal.cpp` | `wait()` in the steps of its loop; the futex compares and sleeps in one step, as the kernel does; each wake of `notify` is a step |
| `BoundedQueue` | what a channel promises | a FIFO queue whose items are reserved in order and returned later |
| `Channel` | `Channel<T, Size>` | two instances of `Signal`; a step per atomic access of `send` and `get_value` |
| `ForEachRange` | `for_each_range()` of the pool | a step per task handed out, arithmetic in the width of the index |
| `ThreadPool` | `threading/thread_pool.*` | a step per atomic access of `thread_worker`, `set_threads_count` and the destructor, on the queue `Channel` implements; a comparison of two atomics loads one, into `seen`, before it reads the other, in either order |
| `WaitGroup` | `future.hpp`, `and_then.hpp`, `waitable_base`, `wait_group.hpp` | completion, registration and closing mutex by mutex, groups nested one deep |
| `ThreadStreams` | `thread_streams.hpp` | one `<<` or `>>` a step, operators that throw; the three classes differ in when their guards lock |
| `Itertools` | `itertools.hpp` | pipelines as finite-state iterators, and what ends them (`collect`, `count`, `sum`), against a reference on sequences; a source without an end is seen up to `Prefix` |
| `RosVariable` | `ros/ros_variable.hpp` | callbacks of one executor thread |
| `TwoSidedVector`, `SatMath` | the same | pure operations |
| `BufferedFileSaver` | `buffered_file_saver.*` | noting down, `flush()`, the destructor, over a file system that fails at any point |
| `…Proofs` | proofs, section 5 | |
| `MC…` | instances for TLC | `MCParts` runs twelve small components side by side, one step of one of them at a time |

Composition: `Channel` contains `Signal` twice; `ThreadPool` stands on the queue that
`Channel` implements, `ReliableStream` on the window that `Orderer` implements; each
refinement is checked and proved, so that slots need not be explored again one level
up. `EagerSelect` contains `UnboundedChannel`.

Operators marked *Seeded bug* are variants of the definition that follows them. Nothing
uses them; substituting one shows that a property notices the mistake.

## 3. Runs

| run | question | instance |
|---|---|---|
| `parts` | twelve small parts, one question each | indices 0..5, rings of 1, 3 and 4; masks of two words of two bits, blocks of one and two in a heartbeat of three; two iterator stages; a socket with room for two packets and one failed send; two descriptors, an opener and a closer; packets of up to 12 bytes with the numbers that change or reach a byte's end; three contents of a variable and two editors; two statements on each class of stream and one exception; vectors of up to three; all 4-bit operands; three ways to open a file, three operations and one failure; all ranges of 4-bit indices and up to four threads |
| `reliable_stream` | is what arrives a prefix of what was sent, do the two windows fit, does everything arrive? | two writers, messages of one and two packets, ring of two, three packets: the ring wraps, the window fills, writers overtake each other |
| `unreliable_stream` | is a delivered message one without a gap, does the receiver stay alive? | numbers modulo 16, from 0 and from 13, so that they wrap; two messages of one to three packets; a packet is at most four messages late |
| `stream_lifecycle` | do the ends agree on which stream is open, is every creation settled, does the dialler win? | three epochs, from 0 and from 2, so that they wrap; four budgets of creations, closes and panics |
| `connection` | is a live connection one its peer accepted, is there one per peer? | two dials, one accept per identity and one abrupt end, or a dial from each side; two packets in flight; peers may leave and restart |
| `connection_live` | is every dial answered, does a half-open connection end? | the same budgets without departures; nothing is dropped for lack of room |
| `eager_select` | is a heartbeat in time, is a reserved item there, is every stream served? | two streams, two packets waiting, sleeps of 1 and 2, a period of 3, a clock late by 1, one tick of work |
| `signal` | is a wake-up lost? | three threads, count up to two |
| `channel` | is a slot used by one thread at a time, is it a queue, is all received, does close unblock? | two senders, two receivers, two slots, three items: the third reuses a slot |
| `thread_pool` | are enough threads kept, is the work done, does every call return? | up to two workers, three tasks, two resizes |
| `wait_group` | does a group count what it waits for, is it left alone when it is gone, does everybody return, does every continuation run? | two futures, one with a value, two groups, one in the other, two clients; continuations on either future and on the group that is not nested, one waiting at a time |
| `thread_pool_wakeup` | section 6 | a worker, a task |

Bounds are constants and conjuncts of guards: `MaxPackets`, `MaxHeartbeats`, `Budgets`,
`MaxInFlight`, `MaxItems`, `MaxCount`, `MaxWakes`, `MaxTasks`, `MaxMaps`,
`MaxStarts`, `MaxAtOnce`, `MaxCalls`, `MaxThrows`, `Lag`. Each is reached: the window is full, the ring wraps,
numbers and epochs wrap, the network is at its limit, a second incarnation exists.
`Margin` stands for the 1e9 that `Signal::close()` stores; fewer notifications than that
follow a close. No symmetry is used, because most runs check liveness.

Deadlock checking is off where the system may rest: all is sent, nobody calls.

### Fairness

* `ReliableStream`: threads with something to do run; a packet sent again and again is
  received at some time (strong fairness of the receipt per number, and of the current
  heartbeat). None for losing, repeating or starting to send.
* `Connection`: each peer's threads run (one weak fairness per peer, since with
  departures off every step that changes something is one of finitely many), and a
  repeated CONNECT or heartbeat gets through. None for dialling or leaving.
* `StreamLifecycle`: heartbeats, `update()` and the handlers run; what is repeated
  arrives. None for creating or closing.
* `Signal`, `Channel`: a thread inside a call runs; a pending wake happens (one weak
  fairness for the wakes of both signals); receivers call again, as the loops of the
  library do. None for spurious wake-ups or for callers.
* `ThreadPool`, `WaitGroup`, `Socket`, `HeartbeatScan`: every thread that can run does.
  Nobody has to add a task, to call, or to make a packet arrive.
* `EagerSelect`: threads run and time passes; nobody has to send, create or close.

## 4. Properties

Each is stated above its definition with the lines it is about.

* Delivery: `ImplementsFifo`, `EverythingArrives`; `EndsAgree` (the receiver never
  panics, the acknowledged window is behind the delivered one, what is not acknowledged
  can be sent again); `NothingIsMissing`, `BufferIsSound` (distances in
  the buffer are kept, no complete message waits in it, the receiver never panics) for
  unreliable streams; `RangesAreHeldIndices`, `ImplementsOrdererSpec` for the reorder buffer.
* Life cycles: `IncarnationsAreApart` (a late packet neither makes a connection CONNECTED nor
  makes it fail as "disconnected"; it can end one in two other ways, section 6), `OneConnection`, `DialsAreAnswered`,
  `HalfOpenEnds`; `CreatedWasMade`, `ClosedWasEnded`, `DialerWins`, `Converges`;
  `EveryStreamIsHeard` (while the word the scan starts from is not empty, section 6);
  `HeartbeatIsInTime`, `EveryoneIsServed`.
* Shutdown: `DestructionEnds` (every destructor returns, and its threads are gone then),
  `DescriptorsAreOwned`.
* Threads: `NoLostWakeup`, `CountServesWaiters`; `SlotsAreSafe`, `ImplementsQueue`,
  `EverythingIsReceived`, `CloseUnblocks`, `ReservedIsThere`; `PoolServes`,
  `CallsReturn`; `CountIsOwed`, `DeadGroupIsLeftAlone`, `NobodyWaitsForever`;
  `StatementsStayWhole`.
* Algorithms: `PacketsAreReadBack`, `PipelineIsItsReference`, `ResultsAreClamped`,
  `IndicesKeepTheirValues`, `LateSubscribersGetTheValue`, `LossesAreReported`,
  `IndicesAreDealtOut`.

## 5. Proofs

Eight modules hold theorems; `PROJECT.json` names those a reader should know of. The
assumptions on the constants are the named `…Assumption` of each module: sets of
threads are finite, sizes are positive, marks such as `None` are no values. Each
inductive invariant was checked by TLC on a small instance before it was proved.

* **`PartsProofs`**, the reorder buffer: the list of ranges
  covers exactly the held indices (`RangesAreHeldIndices`), and `Orderer` implements
  `OrdererSpec`. Neither is inductive alone: `add` may extend the range on its right only
  because ranges are sorted and apart, and `next` may return early at `count = 0` only
  because the count is exact. Within a window of `size` indices `% size` is injective,
  hence the ring is a function of the held indices.
* **`PartsProofs`**, the descriptor: `DescriptorsAreOwned`, for any number of threads that send,
  receive and close and one that opens. What must be known besides is where the opener is
  (`CallOK`): only a thread that began with `open()` makes a descriptor, and while it has one in
  hand none is stored, so that storing it drops no other. A thread that has loaded a descriptor
  owns nothing; only the exchange that succeeds gives it away, to one thread.
* **`PartsProofs`**, three sequential or locked parts. `StatementsStayWhole`, for any threads,
  statements and operators that throw: the last item of the stream is of the statement whose
  guard has the mutex, and a statement in progress has a guard. `LateSubscribersGetTheValue`, for
  any contents and editors: nothing changes the value outside a message without publishing it,
  and a message ends by publishing the value there is then. `IndicesKeepTheirValues`,
  for any starting point and size: the two vectors are laid out around the starting point
  (`LaidOut`) and what is shown at the right of it never comes from the left.
* **`ThreadingProofs`**, the signal: `NoLostWakeup`, for any number of threads. The
  strengthening is an account: the count never exceeds the pending wakes plus the threads
  awake while somebody sleeps, a closed signal owes a wake to each sleeper and its count
  stays negative.
* **`ThreadingProofs`**, the pool: `PoolServes`, for any number of threads, tasks and
  resizes. The invariant first says what the counters count (`Accounts`): `_living_threads`
  the workers there are, `_pseudo_living_threads` those that have not taken themselves off to
  decide, and every task is queued, running or done. A worker decides by a number it has
  loaded, old or new, and is counted by others, so `Kept` counts those that remain under the
  present count (`Sure`: neither gone nor off with a number that tells them to go) and says
  that they are enough, that nobody goes while threads are started, and that nobody is about
  to compare with less than the count. `Unresized` says that a pool which was not resized
  never has one too many and that what was loaded from it is right (`Fresh`), hence a task
  added after the destructor found none is taken by a worker that has not looked yet
  (`Served`). The property does not survive every second resize: not one that counts on
  workers which leave, nor one that meets a worker which has loaded a smaller count and has
  yet to compare with it. The history variable `misled` records both; without either half
  TLC violates the property.
* **`ChannelProofs`**: `SlotsAreSafe` and `ImplementsQueue`. `Bookkeeping` relates both
  futex words and the counters to the threads at each place; `Tickets` says that tickets
  in use are distinct and within a ring of each other; `SlotTurns`, `SenderTurns` and
  `ReceiverTurns` say what `seq` and `ready` of a slot mean to the thread that holds the
  ticket. Exclusion follows: two threads in one slot would hold tickets that differ by a
  multiple of `Size`, of which `seq` admits one.
* **`ReliableStreamProofs`**: the receiver never panics, the acknowledged window never
  passes the delivered one, what is not acknowledged can be sent again (`EndsAgree`), and
  what is delivered is a prefix of what was sent (`ImplementsFifo`), for any writers,
  window and lengths, over a network that loses, repeats and reorders. The theorems assume
  `0 \notin Lengths`, and need it: with empty messages they are false (section 6). The
  invariant traces each packet in the network, the ring and the orderer to the message it
  was cut from (`Numbered`, `Traced`); slots may be reused since a slot is released only
  by an acknowledgement, which is behind the receiver.
* **`WaitingProofs`**, the processing thread: for any sleeps, period, lag of the clock and load, the time
  between two heartbeats is limited (`HeartbeatIsInTime`): the invariant bounds, place by
  place in the loop, the time since the last heartbeat by what the lagging clock has not
  shown yet plus the sleep that is left. An item that was reserved is in the deque, also
  when the channel is closed meanwhile (`ReservedIsThere`: items, the count and the
  reservation add up). After `close()` no stream it found waiting is `NEW`
  (`StreamsAreDealtWith`).
* **`WaitingProofs`**, the groups: `CountIsOwed` and `DeadGroupIsLeftAlone`, for any futures,
  groups, clients and any order in which tasks end, groups are filled and `shared_ptr`s are
  dropped. A call in progress is a sequence of steps, so the invariant speaks of steps: every
  step still to be made finds what it relies on (`Ready`: the mutex it will unlock, the entry
  it reports for, the group it uses), and a step that uses a group by a plain pointer is
  followed by one that keeps the group in being (`Backs`: while a waitable reports, its list
  is locked and still names the group, and the destructor of the group must lock it to
  leave). Then the count of a group is the number of its waitables that are not done or have
  still to report (`Owed`), also while `add()` meets a completion. Assumed: there are fewer
  waitables than values of `size_t`, and groups are nested one deep, as the model states.
* **`StreamLifecycleProofs`**: a `CREATED` stream has a counterpart (`CreatedWasMade`), and
  a closed one was ended (`ClosedWasEnded`), for any epochs, seeds, number of incarnations
  and order of packets. The network never forgets, so the invariant says what each packet
  *ever sent* asserts about history (`Truthful`): CREATE, ACCEPT and ALREADY_EXISTS that
  their sender made such a stream, CLOSE and ALREADY_CLOSED that a stream of the epoch
  ended, a heartbeat block that its receiver made one. ALREADY_CLOSED is the hard case: it
  answers a heartbeat about a stream that is not there. It is true because a stream that was
  made is there or has ended (`GoneHasEnded`), and because nobody can send a heartbeat
  about a stream that is still queued (`QueuedIsUnknown`). The attempt showed that the
  property, as it was stated before, did not hold for equal seeds: a late REJECT ends a
  stream without anybody giving it up; `ended` now records it.

* **`ConnectionProofs`**: at most one connection of an address is being established or in
  use, and it is the one in the table (`OneConnection`); a dialler is CONNECTED only under an
  id the other side made a connection for, and is told "disconnected" only when a connection
  with its id has died (`IncarnationsAreApart`; it does not say that nothing else of an earlier
  incarnation ends one, section 6), for any number of dials, accepts, closes,
  crashes and packets in flight. The invariant says what each packet asserts about history
  (`Truthful`: CONNECT, ACCEPTED, ALREADY_CONNECTED and a heartbeat that a side knows the id,
  DISCONNECT and ALREADY_DISCONNECTED that a connection with it is dead), and that the open
  connection is the one of the table (`PeerOK`). The two need each other: the answer to an
  unknown heartbeat is true only because a live connection would have been found in the
  table. The theorems assume `OneAtATime` (the application dials an address when its last
  connection with it is gone, and closes none that was not dialled), and need both halves:
  with either dropped TLC violates `OneConnection` (section 6).

* **`UnreliableStreamProofs`**: a message that is handed over begins with all of one message
  (`NothingIsMissing`), for any sizes, losses, repetitions, expiries and turns of the wire's
  numbers. `WidenedToItself` shows that `get_packet_number()` is exact while numbers are at most
  half a turn from the newest one, which `2 * Lag < SeqCount` and the guard of `Send` say of the
  network; the messages lie one after the other on the unbounded numbers (`Spread`), so the
  number of a frame tells of which message it is which part (`PieceOfNumber`), and frames that
  follow a first one without a gap are the parts of its message (`Following`). That frames count
  down as announced, so that the stream does not fail, and that nothing complete waits
  (`BufferIsSound`), needs `SizesFit`: no length is one of those that announce a frame too
  many (section 6). With one of them TLC violates it.

Every action has a lemma `…Keeps…`; the theorems combine them with temporal logic.
`StreamLifecycleProofs` factors what its twenty-five actions have in common: a step of one end
sends only news to the other (`News`), learns only what it was sent (`Hears`), and so
keeps the agreement of the end that does not move (`OtherEndAgrees`).

Only model-checked: all liveness and what needs `ENABLED`, which are outside the prover's
reach, and with it all that `HeartbeatScan` and `Socket` promise. So is what takes induction
over data: the iterators, whose reference is recursive; `WireFormat`, whose numbers are folds over
their bytes; `BufferedFileSaver`, whose `flush()` is a fold over what was noted down; `SatMath` and
`ForEachRange`, whose widths are powers of two. What a recursive definition computes
for every input (`generate_packets`, the result of a drain) is proved only as far as the
models state it without recursion.

## 6. Where code, documents and expectations differ

Found by a run:

* **A lost wake-up** (`thread_pool_wakeup`). `add_task()` sends and notifies without the
  mutex, between a worker's test and its sleep (`thread_pool.hpp:52`,
  `thread_pool.cpp:35`). The worker sleeps with a task in the queue.

Met while modelling; the runs are bounded or stated around them:

* **Empty messages** (`U:51`). `packets_count(0)` is 0, so an empty message takes no number
  and shares that of the next one; `Lengths = {0, 1}` violates `ImplementsFifo`.
* **The stuck timer** (`U:2458`, `U:2535`). A number noted as missing from the history before
  its packet was written keeps its time-out, and the stream panics although the packet can
  be sent again.
* **One frame too many** (`U:807`). A message of `Payload + j * (Payload - 2)` bytes announces
  one frame more than it has, and the receiver panics; the run uses sizes without it.
* **Order of unreliable frames** (`U:2265`). Frames that arrive as 0, 3, 1 are delivered as
  0, 1, 3, against md:458. `TooFar` compares a widened number with one of 32 bits (`U:2233`).
* **Connections.** `connect()` and `close()` before the processing thread dials meet an
  assertion (`U:707`) or dial a closed connection (`U:716`). A packet that arrives during
  `close()` throws into the processing thread (`U:644`). ACCEPTED for a stale identity draws
  an ERROR without identity (md:292), which panics whatever connection is CONNECTED when it
  arrives; a late CONNECT of an earlier identity panics the live connection (`U:454`). The
  model takes both steps and `IncarnationsAreApart` says nothing of either. REJECTED is stored whatever the state is (`U:525`).
  Simultaneous dials end both sides. Of two dials of one address that wait at once the
  nested look-up dials one, panics the other and then erases the entry of the live one
  (`U:753`): ACCEPTED no longer finds it (`DialsAtOnce = 2` violates `OneConnection` and
  `IncarnationsAreApart`). So does one that was closed while it waited, which stays in the
  queue when the next one is dialled (`ClosesNew = TRUE`).
* **Streams.** Pulling a new stream stores CREATING over a concurrent `close()` (`U:1455`), and
  ALREADY_CLOSED stores a state it then asserts (`U:1333`). An ACCEPT of an earlier epoch panics a newer stream
  (`U:1104`, md:326); so does a late CREATE if the peer made it. REJECT does not look at the
  state. Unreliable streams send no block in heartbeats: if CLOSE is lost the other end stays
  open. A stream created on a connection whose thread has ended stays NEW (`U:1785`, md:466).
* **The heartbeat scan** (`U:1514`, md:415). When the word the scan starts from becomes empty,
  its offsets are applied to another word, and streams of other words are passed over, for
  good if `_next_stream_to_heartbeat` does not move. `EveryStreamIsHeard` excepts it: its
  premise asks for a word that is not empty.
* **Shutdown of the socket.** With a failed send, a thread that panics holds a mutex while it
  joins a thread that waits for that mutex, or joins one that waits for a full channel; the
  shutdown never ends. The comment at `scorpio_udp.hpp:758` says that a panic only stops
  threads; `panic()` (`U:279`) calls `stop()`. `DestructionEnds` is stated for runs
  without failed sends, but for the assertion that all threads are gone.
* **The pool.** Two workers can give way to each other for ever while
  `set_threads_count(1, true)` waits, so `CallsReturn` leaves that wait out; a pool that is
  shrunk and then destroyed leaves what a running task adds (`thread_pool.cpp:56`). One that is
  grown while a worker is on its way out counts it (`thread_pool.cpp:66`) and ends with a
  thread too few. So does one that is grown between a worker's load of `_threads_count` and
  its `fetch_sub` (`thread_pool.cpp:29-30`): of two threads, asked to be one and then two
  again, the second call finds two and starts none, and a worker that has loaded the one
  leaves. `misled` excepts both.
  `for_each_range()` divides by the number of threads, which may be zero, and takes the share
  of a thread in the type of the index (`thread_pool.hpp:103`): a range longer than the greatest
  value of a signed type is not run by one thread, whose share is negative, and with two the
  loop of a task may never end. `IndicesAreDealtOut` excepts such ranges.
* **Groups.** A group without members that joins another is never done; a group that is being
  filled is done as soon as its count first reaches zero; a continuation that is added
  after the last completion never runs.
* **Fairness of `eager_select`** (`U:1645`): it polls in the order of its arguments, so a
  channel that never empties starves those after it.

## 7. Abstractions, and what is not modelled

* Data: payloads are numbers of bytes or abstract values, identities and epochs members of
  small sets. Numbers on the wire wrap where the code's do; `ReliableStream` counts without
  wrapping, the widening of 32-bit numbers is in `UnreliableStream`.
* Time is a step that may happen at any moment, except in `EagerSelect`, which counts it.
* Memory is sequentially consistent; relaxed accesses are taken as ordered.
* `ReliableStream`: `SCU_UDP_STUCK_RESEND_TRACK_LIMIT` and the tail scan's limit of 4096 exceed any
  window explored. A failing socket is a lost packet.
* `StreamLifecycle`: the `close()` of a connection, which closes each stream first, and a full queue
  of accepted streams (1024) are left out.
* `Connection`: two addresses, one identity at a time; accepting is one step; PING is not
  implemented by the code. A connection is not closed before it is dialled (`ClosesNew`),
  and one dial is awaited at a time (`DialsAtOnce`).
* `UnreliableStream`: the number of a message of one packet is not looked at by the code
  either; resends do not exist.
* `Socket`: `start()` racing a panic, and a second `start()` after one.
* `ThreadPool`: its queue is never full; tasks run by `work()` in the destructor add none.
* `WaitGroup`: moving and copying groups, `&&`, arguments of continuations, a completion that
  blocks on a full queue; groups are nested one deep.
* `UdpSocket`: moving; a second thread that opens.
* `Itertools`: `SkipN<false>`, whose counter wraps in its first call, so that the second
  one skips `2^64` elements more.
* `ForEachRange`: types as wide as `int`, where a difference that overflows is undefined.
* `RosVariable`: an executor of one thread; callbacks do not replace themselves; no
  moved-from value.
* Not modelled: `StreamSplitter`, `string_utils`, time strings and stopwatches
  (formatting by one thread); `Expected`, `UniqueFunction`, `StackSharedPtr`,
  `optional_utils`, `defer`, type traits (vocabulary types whose properties are the
  compiler's); GPS and other floating-point geometry; loggers, ROS bindings and test helpers;
  `magic_enum`, vendored.

## 8. Plan

1. Models: the copying and moving of groups, the moving of sockets.
2. Proofs: the five safety properties of section 5 that take induction over data, when the
   provers can instantiate an induction theorem.
