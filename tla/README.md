# FeederNet in TLA+

A verification development of the feed handler under `src/`: TLA+ modules that
follow the C++ classes of `src/include`, TLC configurations that check them on
small instances, and proofs that TLAPS checks for every value of the constants.

## 1. The system

One process, the **TradeServer**, multicasts trades by UDP and serves the gaps
by TCP. Another, the **client** of `test/RunTradeReceiver.cpp`, receives them,
puts them in order, recovers the lost ones and stores them:

    TradeServer --UDP multicast--> MulticastTradeDataReceiver   (thread)
         |                              | recvQueue (SPSC ring of pointers)
         +-------TCP recovery----> TradeDataSequencer           (thread)
                                        | sendQueue (SPSC ring of pointers)
                                   DBManager --> table "trades" (thread)

The messages live in one `MemoryPool`; the queues carry pointers to its buffers,
and the buffer of every message goes from the pool through the threads back to
the pool. The main thread starts the three threads and later calls `stop()` on
them. Around this stand an asynchronous logger (MPMC queue, pool, thread), a
sender of aggregated trades by ZeroMQ, an order book and hash maps.

| Component | State | Operations | Hard behaviour | Correct when |
|---|---|---|---|---|
| TradeServer | trades, send position, TCP clients | multicast with artificial gaps, accept, read request, serve the gap | requests that coalesce, clients that leave, server that ends | answers exactly what was asked for |
| MulticastTradeDataReceiver | socket, run flag | connect, run, stop | lost, late and repeated datagrams; shutdown inside recv | every datagram is handed on, and its buffer kept apart |
| TradeDataSequencer, TradeRecoveryManager | `nextSequence_`, TCP connection | run, onRecoveredMsg, recover, stop | a recovery nested in the loop; partial reads, timeouts, end of stream | trades leave in order, complete, once |
| DBManager | batch, connection, table | runSingle, runBatch, runCopy, their commits, stop | failing transactions, buffers given back in batches | the table is what was handed over |
| Queues | ring, `head_`, `tail_`, cells' `seq` | enqueue, dequeue | every interleaving of memory accesses | bounded FIFO |
| Pools | free list, `head_` with a tag | allocate, deallocate | ABA, exhaustion | a buffer has one owner, none is lost |
| OrderBook | orders, levels, best indices | insert, update, cancel, best, print | cached best after long call sequences | levels add up, best is best |
| AsyncLogger | queue, pool, run flag | log, logger thread, destructor | shutdown with a filled queue | messages are written once |
| AggregatedTradeMQSender | aggregation map | run, stop, SendMQ | stop runs beside run | each trade is counted once |
| HashMaps | buckets, tombstones | insert, erase, find, [], rehash | probe chains with tombstones, a pool of nodes that runs out | a map |
| moodycamel queue | producers, block index, blocks, free list | enqueue, try_dequeue, end of a thread | claims beyond the tail, an index that grows under readers, blocks recycled by reference count | every element is read once, from its own block |

Interaction is by shared containers (queues and pool), by calls within a thread
(the recovery manager calls the sequencer back for each message) and by the two
sockets. Persistent state is the table alone; nothing is read back from it, so
there is no recovery of a crashed client to model.

`PROJECT.json` lists every component with its status and every hazard with its
line and the properties for it.

## 2. Modules

| Module | Stands for | Remarks |
|---|---|---|
| `FeedState` | the state that the pipeline's threads share; queue, pool and messages | data are abstracted here |
| `TradeServer` | `TradeServer.hpp` | the two server threads and the end of the process |
| `TradeReceiver` | `MulticastTradeDataReceiver` | `rpc` is the place in `run()` |
| `TradeSequencer` | `TradeDataSequencer` with its `TradeRecoveryManager` | `spc` is the place in `run()` and in `recover()` |
| `DBManager` | `runSingle`, `runBatch` and `runCopy` | `cpc` is the place in the loop; the constant `DBRun` is the call that `run()` makes (`runCopy`; the other two are commented out there) |
| `FeedPipeline` | `RunTradeReceiver.cpp` | composes the four, states the properties |
| `FeedProofs` | | theorems about `FeedPipeline` |
| `BoundedFifo` | what a queue promises (`concept MyQ`) | abstract specification |
| `SPSCQueue` | `CustomSPSCLockFreeQueue` | implements `BoundedFifo` |
| `MPMCQueue` | `CustomMPMCLockFreeQueue` with the logger's buffers | implements `BoundedFifo` |
| `MessagePool` | what a pool promises (`MemoryPool`) | abstract specification |
| `LockFreeThreadSafePool` | the class of that name | implements `MessagePool` |
| `CustomLockFreePool` | the class of that name | shown not to be thread-safe |
| `HashMaps` | the four maps of `HashMap.hpp` | functions of a map's state, no variables |
| `OrderBook` | `OrderBook<false>` | sequential; its `orderMap_` is any of `HashMaps` |
| `AsyncLogger` | the class of that name | `log()` of any thread, the logger thread, the destructor |
| `AggTradeMQSender` | `AggregatedTradeMQSender` in `TestAggTradeMQSender.cpp` | extends `AsyncLogger`: both threads log |
| `MoodyFreeList` | `FreeList` of `concurrentqueue.h` | one step per atomic access |
| `MoodyQueue` | `ConcurrentQueue` as `MoodycamelLockFreeQueue` calls it | extends `MoodyFreeList` |
| `SPSCQueueProofs`, `MPMCQueueProofs`, `LockFreePoolProofs`, `OrderBookProofs`, `AggSenderProofs`, `MoodyQueueProofs` | | theorems about the modules of these names |
| `CommonLemmas` | | what a position modulo the capacity says, prefixes of sequences, and induction: least numbers and recursive functions over `0 .. N`; turns of a ring; used by the rings, the order book and the moodycamel queue |
| `MC...` | | instances for TLC |

The pipeline uses its queues and its pool as atomic objects (`Enqueue`,
`Allocate`, `Deallocate` of `FeedState`). What justifies that is shown apart:
the real ring and the real free list, one step per access to shared memory,
implement `BoundedFifo` and `MessagePool`, whose steps are those operations. A
`dequeue()` of `BoundedFifo` is two steps, `Take`, which removes the oldest item, and
`Finish`, which must return that item, so that the refinement speaks of the value
and not only of the ring. The runs `spsc` and `pool_lock_free` check this on small
instances, the theorems `SPSCImplementsFifo` and `PoolRefinesMessagePool` prove it.

For the SPSC ring it holds only under `PoolFits`, with no more buffers than the ring
has cells. With more, the producer may fill a cell that `dequeue()` has given free
(`fetch_add` of `head_`, `Queue.hpp:104`) and not yet read (line 105): one pointer is
lost and another has two owners. The pipeline has this as steps of its own,
`ReceiverOvertakes` and `SequencerOvertakes`, which take a full queue, a consumer in
`dequeue()` and a producer with a buffer in hand, and end with `Overtaken`; up to
there its queues are atomic also beyond `PoolFits` (a `dequeue()` that is not
overtaken takes effect at its read of the cell, and an `enqueue()` that finds the ring
full in between is one that overtakes or is refused). Nothing is modelled behind
it: with two owners a buffer goes back to the pool twice.

The logger's queue and pool are justified by `MPMCRefinesFifo` and
`PoolRefinesMessagePool`. Its one consumer frees a cell by the store of `seq`
(`Queue.hpp:173`), behind the read; that is where the atomic `dequeue()` of
`AsyncLogger` takes effect, so that the refusals of `enqueue()` are those of the code.

### How the pipeline corresponds to the code

A thread is a program counter, its local variables and its run flag. An action
goes from one place where other threads' work matters to the next one. Two
accesses are merged only when nobody else can see the state in between:

- `recv()` and the following `enqueue()` of the receiver: the datagram and the
  buffer belong to this thread only.
- `DBManager`'s load of its run flag and its `dequeue()`: nothing between them
  depends on another thread.

The main thread's three `stop()` calls are three actions in the order of
`RunTradeReceiver.cpp`. A `std::terminate`, a fatal signal or an access far
outside memory ends the client: `alive` becomes `FALSE` and all its threads stop.
The ends that are modelled: an `allocate()` on the empty message pool; a `connect()`
that never succeeds; the throw of `onRecoveredMsg()`; a write to a connection that
the server reset; and, as faults, the system calls before a recovery or its
connection that fail (`sys`: `socket`, `setsockopt`, a short or failed `send`,
`epoll_create1`, `epoll_ctl`) and a `log()` with the logger's pool empty (`log`,
`LoggerDies`). The logger is modelled apart (`AsyncLogger`); here each place that
calls `log()` may find its pool empty.

### The other modules

`OrderBook` calls `HashMaps` as the class does: `contains()`, then `operator[]`,
which in the open addressing map may make a second entry with a null order; the
program then dereferences it (`crashed`). The map's kind is part of its state, so
that one run has all four.

`AggTradeMQSender` has the main thread (feeds, waits, stops, joins), the thread in
`run()` and the logger's thread. The `std::unordered_map` without a lock is where
the two first may meet: `raced` remembers that they did, and the process may
then end at once (`Corrupted`) or go on with what their steps made of the map. `cut`
remembers that the socket's `send()` threw out of `SendMQ()`, with the map not
cleared: in `run()` the exception is caught and the thread ends, in `stop()` it ends
the program. A `log()` that finds the logger's pool empty ends the process in every
place (`LogDies`): the pool is `LockFreeThreadSafePool`, whose `allocate()` never
returns the null pointer for which `log()` throws "Logger Pool Exhausted".

`MoodyQueue` gives every element the producer and the index it is enqueued at, so
that a reader of a wrong cell is seen. Steps are the accesses to what threads
share; loads are joined with the access behind them where what they read belongs to
the thread or changes nothing that the properties tell apart, and the first loop of
`try_dequeue` goes through all producers (in the code it stops at the third that is
not empty; the workloads have no more). The search for the
producer of a thread (a hash by thread id, then the list of producers) is one step. A block of the heap is freed with its last element;
only blocks of the initial pool go through the free list. `malloc` may fail at any
time, both for a block and for a larger index.

### Abstractions

- A buffer holds a sequence number and whether every byte is that of the trade
  with the number. Prices, symbols and times are not there.
- TCP is a sequence of half messages: enough to see a message arrive in two parts,
  a part thrown away, and the next read start in the middle (`Garbage` stands for
  the number that is then read, and is never the one that is expected: bytes of
  prices and times that happen to make it are assumed away). TCP's backpressure on the server is not modelled.
- UDP is a count of copies per trade: none (a lost datagram, an artificial gap, a
  failed `sendto`), one or more, in any order.
- The database is the sequence of rows; a transaction writes a batch or nothing.
- A sum of the aggregating sender is the set of its trades, a log line its thread
  and number. Keys of maps are integers, which `std::hash` leaves as they are.
- `ReadsItsElement` compares the element in the cell that is read, not the cell's
  lifetime: a block that was freed to the heap keeps its stale contents in the model.
- All modules are sequentially consistent. The relaxed load of `tail_` in
  `CustomSPSCLockFreeQueue::dequeue` is weaker than that; nothing here speaks for
  machines that reorder loads.
- Counters are unbounded in the model. In the code they have 64 bits, but the
  number of messages of a recovery and the loop index of the server have 32.

## 3. Runs

| Run | Instance | Question |
|---|---|---|
| `feed_faults` | `runCopy`, 2 trades, 3 buffers, queues of 3, batches of 2, every datagram at most once, all faults | Does any interleaving of the threads with end of stream, interruption, partial reads, receive errors, failing transactions and system calls and an empty pool of the logger give a buffer two owners, lose one, overwrite one in flight, or bring a wrong, repeated or misplaced trade downstream? |
| `feed_order` | `runSingle`, 3 trades, 3 buffers, queues of 2, the second trade up to twice, interrupted recoveries | Order with gaps of one and two trades, duplicates, and full queues whose `dequeue()` is overtaken, up to the first recovery that is left early and the first overtaken `dequeue()`. |
| `feed_live` | `runBatch`, 2 trades, no faults but lost and reordered datagrams, fair threads | Does every recovery end, is every visible gap filled, do all threads end after `stop()`, and is every recovered message the one that `onRecoveredMsg()` expects? |
| `feed_disconnect` (violation) | 3 trades, the server may end | Is the sequence kept when a recovery fails? |
| `feed_full_queue` (violation) | 3 trades, 4 buffers, queues of 1, no faults | Is the table without gaps when the pool is larger than the queue? |
| `spsc` | 2 buffers, ring of 2, 6 enqueues | Is the ring a FIFO, may its consumer advance `head_` before it reads the cell, and may callers ignore the result of `enqueue()`? |
| `mpmc` | 2 producers, 2 consumers, 3 buffers, ring of 2, 5 enqueues | The same for the ring with turn numbers. |
| `pool_lock_free` | 3 threads, 3 buffers, 4 tags | Is the tagged free list a pool, ABA included? |
| `pool_custom` (violation) | 2 threads, 2 buffers | Is `CustomLockFreePool` "thread-safe always"? |
| `order_book` | 3 orders, two of which collide in every table, 3 levels, half-tick prices, quantities 1 and 2, tables of 2 buckets, a pool of 2 nodes, each kind of map | Do the levels add up and the cached best indices stay best, does each map find exactly the orders of the book, and when is a null order dereferenced? |
| `agg_sender` | 3 trades of 2 symbols and 2 times, trade queue of 2, 3 log buffers, log queue of 2, fair threads | Is each trade in one message, is a message one whole slice of time, does the log keep its order and its buffers, and does everything end after `stop()`? |
| `moodycamel` | 3 threads, 3 blocks of 2 elements, first index of 2, four workloads | Is every index that is given out that of a stored element, does every lookup find it, and is every block in one place? |

Why the bounds are enough. Three buffers let the receiver, the sequencer and the
batch hold one each, or the sequencer hold one while a recovery allocates another
and the pool runs out. Two trades make a gap of one; three make gaps of one and of
two, and a trade behind a gap that comes again. Batches of two give full batches,
flushed batches and batches released while others allocate. The ring of two wraps
three times in `spsc`, and has every combination of empty, full and claimed cells.
Four tags are the least with which the classical ABA (pop, pop, push back) can
happen within the lifetime of one `oldHead`; the mutant without tags fails it. In
`order_book` the open table rehashes twice and the pool of nodes runs out; ids 1
and 9 collide before and after. In `agg_sender` the log pool is larger than its
queue, so that lines are refused, and empties, so that `log()` ends the process in
every place. The workloads of `moodycamel` are one producer that outgrows its index under
two consumers; a thread that holds a reference of a block that another takes, uses
and gives back; a producer that is taken over from a thread that ended; and two
blocks that are added at once. One branch is not met by them, the failing push of a
node that a third thread refers to; the workload that meets it, two initial blocks
with enqueues `<<1, 7, 0>>` and dequeues `<<0, 0, 6>>`, holds as well but takes
longer than a run should. The
constraint `ClientAlive` cuts what the server does behind the end of the client,
of which no property speaks. Buffers are symmetric: no code compares pointers.

`TableInOrder`, `HandedInOrder` and `HandedGenuine` except recoveries that were
left early (`aborted`), because the code then forwards the message behind the gap;
`feed_disconnect` shows that this exception is needed. These three and
`InFlightUntouched` end at an overtaken `dequeue()` (`Overtaken`); `OneOwner` says that
there is none while the pool is no larger than a queue (`PoolFits`), and
`feed_order`, whose pool is larger, has both kinds. `NothingLostDownstream`
excepts failed transactions, whose rows are lost silently, and pools larger than
the queues, which is what `feed_full_queue` is about. A table in order may have a
hole: neither the rows of a failed transaction nor what happens behind a recovery
that was left early is a matter of `TableInOrder`.

`OnePlace` and `WholeSlices` except behaviours in which `stop()` and `run()` were in
the map at once (`raced`); behind a `send()` that threw (`cut`) `OnePlace` still says
that no trade is in more than two places and none is lost, and `WholeSlices` says
nothing. Both happen, and are hazards of the list. `LinesInOrder` speaks of what the queue took: the
destructor may leave the last lines there unwritten, and a full queue refuses some.

**Fairness** is used by `feed_live`, `spsc` and `agg_sender`. It is weak fairness of each thread: a thread
that can go on does. Not of the faults, and not of the first `stop()`, so that
nothing terminates because the client happens to be stopped; but the main thread
does not sleep for ever between its stop calls. This is what an operating system's
scheduler gives to threads that spin (`yield`) or block in calls that return when
something arrives.

`CHECK_DEADLOCK FALSE` stands in the runs of the two pools only: there the process
may really end (by the access behind the list, by an exception).

## 4. What the violation runs show

- `feed_disconnect`: the server ends while a recovery runs;
  `receiveRecoveryMessages` reports nothing, and the message behind the gap is
  forwarded and counted under the number of a missing one.
- `feed_full_queue`: `enqueue()` refuses, nobody looks, the trade is lost although
  it was received. The Docker client has more buffers (1 500 000) than a queue has
  cells (2^20); with the defaults (both 2^20) it cannot happen.
- `pool_custom`: two threads get the same buffer.

Observations that contradict no document, and have no run: an `allocate()` on an
empty `LockFreeThreadSafePool` ends the process instead of returning `nullptr`
(`PoolExhausted`, `LoggerDies`, `LogDies` and the variable `crashed` have it), so that
no caller's test for it, nor the "Logger Pool Exhausted" of `log()`, is ever reached;
with a pool larger than the ring a `dequeue()` of a full ring may return a pointer that
stays in the ring (`Overtaken`); trades lost at the end of
the feed are never asked for; `cancel()` or `update()` of an order whose entry in an
`OpenAddressingHashMap` lies behind a tombstone dereferences a null pointer
(`NullOnlyBehindTombstone`); lines that the logger's queue refuses take their
buffer with them; a sum may go out twice when ZeroMQ's `send()` throws inside
`SendMQ()` (`OnePlace`, behind `cut`); `update()` to the quantity 0 leaves a stale best
level behind (quantities are positive in the model, as in the tests); a
`CustomMPMCLockFreeQueue` of capacity 1 does not work, because a cell's "filled"
turn is then the "free" turn of the next round (`MPMCQueue` with `Capacity = 1`
violates `CellsExclusive` and `ReadsItsPosition`; the proofs of that queue assume
`Capacity > 1`, and the code uses 2^20).

## 5. Proofs

Every theorem holds for every value of the constants under the named assumptions
of the modules: any number of trades, buffers and threads, any queue and batch
sizes, any bound on copies and attempts and any subset of the faults. Where the
code needs a relation of sizes, the statement has it: the SPSC ring implements its
queue under `PoolFits`, the MPMC ring works for `Capacity > 1`, and for a pool larger
than a queue the theorems about the pipeline reach up to the first overtaken
`dequeue()`.

| Theorem | Module | Statement |
|---|---|---|
| `TypeCorrect` | `FeedProofs` | `Spec => []TypeOK` |
| `OneOwnerCorrect` | `FeedProofs` | `Spec => []OneOwner` |
| `NoBufferLostCorrect` | `FeedProofs` | `Spec => []NoBufferLost` |
| `InFlightUntouchedCorrect` | `FeedProofs` | `Spec => InFlightUntouched` |
| `HandedInOrderCorrect` | `FeedProofs` | `Spec => []HandedInOrder` |
| `HandedGenuineCorrect` | `FeedProofs` | `Spec => []HandedGenuine` |
| `NothingLostDownstreamCorrect` | `FeedProofs` | `Spec => []NothingLostDownstream` |
| `TableInOrderCorrect` | `FeedProofs` | `Spec => []TableInOrder` |
| `RecoveredInOrderCorrect` | `FeedProofs` | `Spec => []RecoveredInOrder` |
| `SPSCDequeuedInOrder` | `SPSCQueueProofs` | `QSpec => []DequeuedInOrder` |
| `SPSCNeverRefused` | `SPSCQueueProofs` | `QSpec => []NeverRefused` |
| `SPSCImplementsFifo` | `SPSCQueueProofs` | `QSpec => ImplementsFifo`, for `PoolFits` |
| `MPMCTypeOK`, `MPMCCellsExclusive`, `MPMCReadsItsPosition`, `MPMCRefusedOnlyBehindStalled` | `MPMCQueueProofs` | the four invariants of `MPMCQueue`, each for `Capacity > 1` |
| `MPMCRefinesFifo` | `MPMCQueueProofs` | `QSpec => MPMCImplementsFifo`, for `Capacity > 1` |
| `PoolTypeCorrect`, `PoolListExact` | `LockFreePoolProofs` | `Spec => []PoolTypeOK`, `Spec => []ListExact` |
| `PoolRefinesMessagePool` | `LockFreePoolProofs` | `Spec => ImplementsPool` |
| `LevelsAreSums` | `OrderBookProofs` | `Spec => []LevelsMatch` |
| `BestIsTop` | `OrderBookProofs` | `Spec => []TopOfBook` |
| `PrintIsTop` | `OrderBookProofs` | `Spec => []PrintShowsTop` |
| `MapHoldsTheOrders` | `OrderBookProofs` | `Spec => []MapAgrees` |
| `MapChangesOneKey` | `OrderBookProofs` | `Spec => []InsertAndErase` |
| `NullBehindTombstone` | `OrderBookProofs` | `Spec => []NullOnlyBehindTombstone` |
| `OnePlaceCorrect` | `AggSenderProofs` | `Spec => []OnePlace` |
| `WholeSlicesCorrect` | `AggSenderProofs` | `Spec => []WholeSlices`, for files in the order of time |
| `LinesInOrderCorrect` | `AggSenderProofs` | `Spec => []LinesInOrder` |
| `LogBuffersKeptCorrect` | `AggSenderProofs` | `Spec => []LogBuffersKept` |
| `MoodyCountsAgree` | `MoodyQueueProofs` | `QSpec => []CountsAgree` |
| `MoodyReadsItsElement` | `MoodyQueueProofs` | `QSpec => []ReadsItsElement` |
| `MoodyBlocksOwned` | `MoodyQueueProofs` | `QSpec => []BlocksOwned` |

Most strengthenings below were checked with TLC before they were proved; that of
the order book, whose parts quantify over unbounded tables, is proved only.

**The pipeline.** `TypeOK` is not inductive: that a step stores a real buffer needs
to know that the thread has one, which its program counter says; hence
`TypeInv == TypeOK /\ HandsMatch`. With it, `Owned` is inductive up to the overtaking
steps: every other action moves a buffer from one place to another, and a buffer in
hand is in no other place. Most steps are the `Steady` ones, those of `Next` but the
overtaking; an overtaking step ends in a state of which the properties say nothing,
and from there on the client stays dead (`CalmStep`, `SteadyKeeps`, `DeadStays`). The
converse, `NoBufferLost`, is that the places cover all buffers (`Covered`); only a
full queue drops one, and counting buffers shows that none is full behind a producer
with a buffer in hand while the pool fits (`QueueRoom`), which is also why none is
then overtaken. `InFlightUntouched` follows without a further invariant: only buffers
in the receiver's or the recovery's hand are written, and `Owned` says that these
are nowhere else.

`HandedInOrder` needs what a running recovery still owes: `RecoveryCounts` relates
the two counters of `receiveRecoveryMessages`, `nextSequence_` and the number of
the message in hand. `NothingLostDownstream` rests on `BatchInv`, that rows,
batch and send queue together (`Downstream`) are what was handed over;
`TableInOrder` on `TableInv`, that they ascend and stay below `nextSequence_`.

`HandedGenuine` is the deepest: a recovered message is a real trade only if the
bytes on the connection are those that this recovery asked for. `AnswerInv` says
so. Either the server has not read the request yet (`Requested`), or what is on
the connection and what the server still sends is the rest of the answer, in
ascending half messages that start where the client stands (`Answer`); between
recoveries nothing is there (`Quiet`). Buffers hold real trades (`Clean`), except in
a recovery that has lost a part of the message it waits for (`Doomed`): the callback
throws on anything else, so that it can only be left early. `BlankLate` deals with
the receiver's last message: an empty buffer is queued only when `runFlag_` is
already down. `RecoveredInOrder` adds that a recovery answer is whole (`Whole`, `Unbroken`) as
long as no fault cuts or splits it (`TcpHolds`), so that the callback's exception is
never reached; the other faults may happen.

**The rings.** For the SPSC ring the cells from `head_` to `tail_` hold what was
enqueued (`RingInv`). The consumer advances `head_` before it reads the cell; that
the producer does not overwrite it meanwhile is no property of the ring but of the
pool: the buffers in the ring, behind the claimed cell and in the producer's hand
are different (`PoolInv`), so that a pool not larger than the ring leaves room
(`RoomForItem`, by an injection into the buffers), and it is what makes the value that
`dequeue()` returns the one that the abstract queue gave. For the MPMC ring `TurnInv`
gives the value of every cell's `seq` from `head_`, `tail_` and the claims, and
`WriterInv` and `ReaderInv` give each claimed position one thread. Both
refinements map the abstract queue to the positions from `head_` to `tail_`; a
position that is claimed and not yet written stands for the item of its writer.

**The pool.** The free list is a ghost function from places to indices that
`nextFree` follows from `head_` (`ListInv`): no index twice, and exactly the buffers
that are not out. The tag part is `AgeInv`: a thread's stale head differs from the
current one in as many tags as operations were completed since, as long as these
are fewer than `TagMod` (`NoTagWrap`, a guard of the model: 2^32 completed
operations during one). That `Walk`, a recursive function, computes that list is
shown from the least place at which it would not (`LeastNumber`).

**The order book and its maps.** One invariant (`Inv`) carries all six properties.
Its part about the map, `MapOK(m, S)`, says that the map `m` holds exactly the keys
`S`, in the terms of each kind: for the chained table that each bucket has the
pairs of its keys, once (`ChainingOK`); for the pool of nodes that each node is
either free or linked in one bucket, once (`FixedOK`); for open addressing that each
key has one cell, that no empty cell lies before it on its probe, and that the
load leaves an empty cell (`OpenOK`). `MapFinds`, `MapPuts`, `MapErases` and
`MapIndexes` say what the operations do to `S`; the rehash is an induction over the
cells that are moved (`ReHashes`). `operator[]` of an open table keeps `S` unless it
stops at a tombstone, which is the one way to a null order. The part about the
levels, `LevelsHold`, is that each level is the sum over its orders; sums over
finite sets are shown to exist, to be unique and to grow by one element at a time
(`SumExists`, `SumUnique`, `SumWith`), because the library's fold says nothing of
sets in general. `TopsHold` is the reason for the best index: it is at a level with a
quantity and none in front of it has one, or the side is empty and the index is not
in front of any level, so that the next insert takes it over. That quantities are
positive (`QuantityAssumption`) is needed: a level is then empty exactly when its
sum is 0.

**The sender and its logger.** `LineInv` counts the logger's buffers and has the
stream, the line in hand and the queue as one sequence to which `log()` appends.
`SenderInv` gives the queue as the last trades fed, in order, so that the number of
trades that `run()` has added up is `Last`. `PlaceInv` says that each of these is in
one unsent sum or in one message; steps are classified by what they do to the sums
(`Same`, `Sends`, `Skips`, `Clears`, `Adds`). `SlicesInv` adds that the sums are of
`currentTime`, that this is the time of the trade added last, that the map is
complete for it until `stop()` looks at it, and that behind `stop()` a thread that
still has a trade has an empty map. The proof uses that `SendMQ()` runs in one
thread at a time, which is what `raced` excepts, and, for `WholeSlices`, that times
do not decrease (`InTimeOrder`): in a file that goes back in time a slice would be
sent in parts.

**The moodycamel counters.** The optimistic count minus the overcommits is the
head plus the claims still undecided (`Balanced`); that a claim which passes the
check has an element is not a property of one thread: `Fits` says that for some
bound `m` the undecided claims below it fit into the elements that are there, which
every claim, withdrawal and enqueue keeps.

**The moodycamel blocks.** `ReadsItsElement` and `BlocksOwned` follow from one
invariant, `BInv`, that sits on top of that of the counters and has four layers.

- The free list (`FLInv`): the links from `flHead` on are a list without
  repetition (`ListIs`); `flRefs` is what the list and the calls hold; a block is on
  the list, with one call, or left to who drops its last reference (`Apart`); and the
  link that a call has read or written is still that of its node (`LinksOK`), which
  is why the compare-exchange on the head alone is enough. A step is judged by
  what it may do to one block (`BlockMoves`).
- The index of one producer (`IndexOK`): seen from the tail backwards, the entries
  are those of the last blocks, in order; unused ones come last, and the one behind
  the tail may have been given back. Of a header that was replaced only this is
  left: its slots are apart by as many blocks as their keys, up to whole turns
  (`Aligned`). That is what the search needs, so that a consumer with an old header
  finds the entry of its element all the same (`FindsEntry`, `LeadsFinds`).
- The contents (`PartOK`), with the set of the elements that are done as a witness:
  a block in the index has in its cells the elements of its key, its counter is the
  number of those that are done, and an element that is there and not done has its
  block in the index.
- The threads and the places: a producer is at the stage at which its thread is
  (`RoleOK`), a consumer's element is given out and not done and is no one else's
  (`ReaderOK`, `BothOK`), and every block is in one place (`Placed`).

The stages and the elements that are done are not in the program's state: `BInv`
says that there are such, and each step gives the next ones. `Leaves` is what
a change of the index leaves to those who read it; that each of `enqueue()`'s steps
is one (`InsertsOld`, `InsertsNew`, `Rewinds`) carries the consumers over. Sizes
enter only as `BlockSize >= 2` and `IndexSize >= 2`: nothing here needs powers of
two, since the model's indices do not wrap around.

**Only model-checked, and why.**

- Liveness (`GapsFilled`, `RecoveryTerminates`, `StopTerminates`, `AllDelivered`,
  `StopEnds`): fairness and `ENABLED` are beyond the prover.
- The violation runs, which are refutations.

## 6. Plan

In this order; "done" is what the sections above describe.

1. Core: the feed pipeline with all its threads (done), its safety proved (done).
2. Queues and pool below it: SPSC, MPMC, lock-free pool, with their refinements of
   `BoundedFifo` and `MessagePool` (done, proved).
3. `OrderBook<false>` over the four hash maps (done, all its invariants proved).
4. The three loops of `DBManager` (done; the proofs hold for each).
5. `AggTradeMQSender` and `AsyncLogger`, composed (done, its safety proved).
6. The moodycamel queue as its wrapper uses it (done, its safety proved).

Every safety property and every refinement that a passing run checks is a theorem;
what is left to model checking is liveness.

## 7. Not modelled

- Parsing of trade files, throttling, the texts of the log, the setup of sockets,
  the wrappers of library queues and pools, folly, abseil, the Python consumers, the
  Docker files and the database schema: none of them has control of its own that
  bears on the properties above.
- `LockedQueue` and `CustomLockedPool`: a mutex makes each call one step, as in
  `BoundedFifo` and `MessagePool`, except that `LockedQueue::dequeue` blocks.
- Of the moodycamel queue: explicit producers and tokens, bulk operations, the
  resize of the thread hash and its steps, moving, swapping and destroying a queue,
  and indices that wrap. The wrapper calls none of these operations; it is compiled
  only with `USE_MOODYCAMEL_QUEUE`, which `Queue.hpp` leaves undefined.
- An encoding error of `snprintf`, and the log calls of the test's main program for
  the aggregating sender.
- What the client does behind an overtaken `dequeue()`.
- Weak memory.

The components of `PROJECT.json` have the reason for each.
