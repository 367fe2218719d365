------------------------------ MODULE FeedState ------------------------------
(***************************************************************************)
(* The state that the threads of the feed pipeline share, and what the      *)
(* containers between them promise.  The pipeline is the one that           *)
(* test/RunTradeReceiver.cpp builds:                                        *)
(*                                                                         *)
(*   TradeServer --UDP multicast--> MulticastTradeDataReceiver              *)
(*        |                              | recvQ   (SPSC queue of pointers) *)
(*        +--------TCP recovery---> TradeDataSequencer                      *)
(*                                       | sendQ   (SPSC queue of pointers) *)
(*                                   DBManager --> table "trades"           *)
(*                                                                         *)
(* Messages live in the buffers of one memory pool; the queues carry        *)
(* pointers to them.  One module per class acts on this state; FeedPipeline *)
(* composes them.                                                           *)
(***************************************************************************)
EXTENDS Integers, Sequences, FiniteSets

CONSTANTS
    NumTrades,        \* tradeMsgStore_.size()
    Slots,            \* the buffers of the message pool (Const::poolMsgCount)
    NoSlot,           \* the null pointer
    QueueCapacity,    \* Const::queueCapacity, of both queues
    BatchSize,        \* Const::commitBatchSize
    DBRun,            \* what DBManager::run calls: runSingle, runBatch or runCopy
    MaxCopies,        \* bound, per trade: copies of its datagram that may arrive
    ConnectAttempts,  \* Config::recoveryConnectionAttempts
    Faults            \* the environment's faults, a subset of FaultKinds

\* What the environment may do to the program, beyond losing, duplicating and
\* reordering datagrams:
\*   eof       the server process ends and its TCP connection closes
\*   eintr     epoll_wait fails during a recovery
\*   fragment  TCP makes the bytes of one message readable in two parts
\*   recverr   recv fails on the multicast socket
\*   commit    a transaction on the database throws
\*   sys       a system call with which a recovery or its connection begins
\*             fails, or send() takes a part of the request only
\*   log       the pool of the logger is empty when some thread calls log()
FaultKinds == {"eof", "eintr", "fragment", "recverr", "commit", "sys", "log"}

ASSUME NumTradesAssumption == NumTrades \in Nat \ {0}
ASSUME SlotsAssumption     == IsFiniteSet(Slots) /\ NoSlot \notin Slots
ASSUME QueueAssumption     == QueueCapacity \in Nat \ {0}
ASSUME BatchAssumption     == BatchSize \in Nat \ {0}
ASSUME DBRunAssumption     == DBRun \in {"single", "batch", "copy"}
ASSUME CopiesAssumption    == MaxCopies \in [0 .. NumTrades - 1 -> Nat]
ASSUME AttemptsAssumption  == ConnectAttempts \in Nat \ {0}
ASSUME FaultsAssumption    == Faults \subseteq FaultKinds

VARIABLES
    \* the server process
    serverUp, listening,
    sent,             \* trades the multicast loop has gone through
    serving,          \* the loop variable and the bound of serveGapRequest
    \* the network
    wire,             \* per trade, copies of its datagram not yet received
    conn,             \* the TCP connection of the recovery manager
    reqs,             \* gap requests written by the client, not yet read
    stream,           \* half messages written by the server, not yet read
    \* memory of the client process
    alive,            \* FALSE once the process was terminated, or (see
                      \* FeedPipeline!Overtaken) is beyond what is modelled
    free,             \* buffers in the pool
    content,          \* what each buffer holds
    recvQ, sendQ,
    \* MulticastTradeDataReceiver
    rpc, rSlot, runR,
    \* TradeDataSequencer and its TradeRecoveryManager
    spc, attempts, nextSequence, seqMsg, recSlot,
    numMessages, messagesReceived, runS,
    \* DBManager
    cpc, batch, runC,
    rows,             \* the table "trades"
    \* history
    handed,           \* contents of the buffers given to sendQ, in order
    aborted,          \* some recovery ended before its last message
    commitFailed      \* some transaction threw

serverVars == <<serverUp, listening, sent, serving>>
tcpVars    == <<conn, reqs, stream>>
poolVars   == <<free, content>>
recvVars   == <<rpc, rSlot, runR>>
seqVars    == <<spc, attempts, nextSequence, seqMsg, recSlot, numMessages,
                messagesReceived, runS, aborted>>
dbVars     == <<cpc, batch, runC, rows, commitFailed>>

vars == <<serverVars, wire, tcpVars, alive, poolVars, recvQ, sendQ,
          recvVars, seqVars, dbVars, handed>>

Trades == 0 .. NumTrades - 1

(***************************************************************************)
(* A message buffer is abstracted to its sequence number and to whether     *)
(* every byte of it is that of the trade with this number.  A message       *)
(* read from a stream that lost part of a message has some other field in   *)
(* the place of its sequence number: Garbage, a number no trade has.        *)
(***************************************************************************)
Garbage  == NumTrades + 1
Contents == [seq : Trades \union {Garbage}, genuine : BOOLEAN]
Trade(t) == [seq |-> t, genuine |-> TRUE]
\* The vector of messages of the pool is value-initialised: number 0, no trade.
Blank    == [seq |-> 0, genuine |-> FALSE]

\* TCP carries every message as two halves; the sequence number is in half 1.
Half(t, h) == [seq |-> t, half |-> h]
Halves     == [seq : Trades, half : 1 .. 2]

\* What one recv() of a whole message leaves in the buffer: the next two
\* halves, which belong together unless an earlier part was thrown away.
WholeMessage(s) ==
    IF s[1].half = 1 THEN Trade(s[1].seq) ELSE [seq |-> Garbage, genuine |-> FALSE]

\* What a recv() that finds only part of a message leaves in the buffer.
PartOfMessage(s) ==
    [seq |-> IF s[1].half = 1 THEN s[1].seq ELSE Garbage, genuine |-> FALSE]

\* Mutant: the producer writes at the consumer's end.
EnqueueAtFront(q, s) == IF Len(q) < QueueCapacity THEN <<s>> \o q ELSE q

(***************************************************************************)
(* The queue: a bounded FIFO.  A full queue refuses the pointer, and no     *)
(* caller in the pipeline looks at the refusal.  CustomSPSCLockFreeQueue is *)
(* an atomic FIFO (SPSCQueue implements BoundedFifo) except where dequeue() *)
(* leaves a full ring: it gives its cell free before it reads the cell, and *)
(* the producer may write there first.  Those steps are actions of their    *)
(* own, FeedPipeline!ReceiverOvertakes and SequencerOvertakes.              *)
(***************************************************************************)
Enqueue(q, s) == IF Len(q) < QueueCapacity THEN Append(q, s) ELSE q

\* There are no more buffers than cells, so that a queue cannot be full while the
\* producer has a buffer in hand.
PoolFits == Cardinality(Slots) <= QueueCapacity

\* Mutant: allocation leaves the buffer in the free list.
AllocateKeeping(s) == s \in free /\ UNCHANGED free

(***************************************************************************)
(* The pool: a set of buffers.  LockFreeThreadSafePool::allocate does not   *)
(* recognise its empty list and indexes far out of its vector, which ends   *)
(* the process.                                                             *)
(***************************************************************************)
Allocate(s)   == s \in free /\ free' = free \ {s}
Deallocate(s) == free' = free \union {s}
PoolExhausted == free = {}

\* std::terminate or a fatal signal: every thread of the client ends.
Terminate == alive' = FALSE

=============================================================================
