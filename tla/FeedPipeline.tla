----------------------------- MODULE FeedPipeline -----------------------------
(***************************************************************************)
(* The whole pipeline of test/RunTradeReceiver.cpp against a TradeServer:   *)
(* two threads of the server, three threads of the client and the client's  *)
(* main thread, which stops them, interleaved in every way.                 *)
(***************************************************************************)
EXTENDS TradeServer, TradeReceiver, TradeSequencer, DBManager

\* The client after its constructors and connect() calls, its threads just
\* started (RunTradeReceiver.cpp); the server not yet listening.
Init ==
    /\ serverUp = TRUE /\ listening = FALSE
    /\ sent = 0
    /\ serving = [i |-> 1, last |-> 0]
    /\ wire = [t \in Trades |-> 0]
    /\ conn = "none" /\ reqs = <<>> /\ stream = <<>>
    /\ alive = TRUE
    /\ free = Slots
    /\ content = [s \in Slots |-> Blank]
    /\ recvQ = <<>> /\ sendQ = <<>>
    /\ rpc = "loop" /\ rSlot = NoSlot /\ runR = TRUE
    /\ spc = "connect" /\ attempts = 0 /\ nextSequence = 0
    /\ seqMsg = NoSlot /\ recSlot = NoSlot
    /\ numMessages = 0 /\ messagesReceived = 0 /\ runS = TRUE
    /\ cpc = "loop" /\ batch = <<>> /\ runC = TRUE /\ rows = <<>>
    /\ handed = <<>> /\ aborted = FALSE /\ commitFailed = FALSE

\* The main thread: after some time, stop() of the three parts in this order
\* (each action waits for the flag of the one before it).
MainNext == StopSequencer \/ StopReceiver \/ StopDB

\* Nothing is left to do: the client ended, by itself or not, and the server
\* has gone through its trades.
Finished ==
    /\ ~alive \/ (rpc = "done" /\ spc = "done" /\ cpc = "done")
    /\ ~serverUp \/ (sent = NumTrades /\ ServerIdle)
    /\ UNCHANGED vars

(***************************************************************************)
(* log() with the logger's pool empty.  Its pool is LockFreeThreadSafePool  *)
(* too, whose allocate() does not survive an empty list, so the caller ends *)
(* the process.  Each thread logs as it starts; main logs before its first  *)
(* stop() and in each of them, the last of which clears runC, so that a     *)
(* log() is never far until then.  Behind it, these places still log: an    *)
(* attempt to connect, the gap and its request, a dropped, a recovered and  *)
(* a forwarded message, the flush, the ends of the two run(), and main      *)
(* after its join()s.  Nothing was done yet of what the line announces.     *)
(***************************************************************************)
LoggerDies ==
    /\ "log" \in Faults
    /\ alive
    /\ \/ runC
       \/ spc \in {"connect", "loop", "request", "drop", "deliver", "forward"}
       \/ rpc = "loop"
       \/ cpc = "flush"
       \/ rpc = "done" /\ spc = "done" /\ cpc = "done"
    /\ Terminate
    /\ UNCHANGED <<serverVars, wire, tcpVars, poolVars, recvQ, sendQ, recvVars,
                   seqVars, dbVars, handed>>

(***************************************************************************)
(* A dequeue() of a full ring that is overtaken.  dequeue() advances head_, *)
(* which gives its cell to the producer, and reads the cell only then.  If  *)
(* the producer, with one more buffer in hand, writes the cell in between,  *)
(* the pointer that was there is lost and the new one has two owners: the   *)
(* queue and the thread that dequeued.  Each action is the step that makes  *)
(* it so, up to the return of dequeue() and the store to the cell.  Nothing *)
(* is modelled behind it: with two owners a buffer is given back twice, and *)
(* that breaks the pool's free list.                                        *)
(***************************************************************************)
Overtaken == spc = "overtaken" \/ cpc = "overtaken"

\* What an overtaken dequeue() of the full queue q leaves of it, and what it
\* returns, is the pointer s that the producer has just written.
OvertakenBy(q, s) == Append(Tail(q), s)

\* The sequencer's dequeue() and the enqueue() behind the recv() of the receiver.
ReceiverOvertakes ==
    /\ alive /\ rpc = "recv" /\ spc = "dequeue"
    /\ Len(recvQ) = QueueCapacity
    /\ \/ \E t \in Trades :
             /\ wire[t] > 0
             /\ wire' = [wire EXCEPT ![t] = @ - 1]
             /\ content' = [content EXCEPT ![rSlot] = Trade(t)]
       \/ ~runR /\ UNCHANGED <<wire, content>>
    /\ recvQ' = OvertakenBy(recvQ, rSlot)
    /\ seqMsg' = rSlot
    /\ spc' = "overtaken"
    /\ alive' = FALSE
    /\ UNCHANGED <<serverVars, tcpVars, free, sendQ, recvVars, attempts,
                   nextSequence, recSlot, numMessages, messagesReceived, runS,
                   aborted, dbVars, handed>>

\* The database thread's dequeue() and the sequencer's enqueue() of the message
\* run() forwards or of a recovered one.
SequencerOvertakes ==
    /\ alive /\ cpc = "loop" /\ runC
    /\ Len(sendQ) = QueueCapacity
    /\ \E s \in Slots :
          /\ \/ spc = "forward" /\ s = seqMsg
             \/ spc = "deliver" /\ s = recSlot /\ content[s].seq = nextSequence
          /\ sendQ' = OvertakenBy(sendQ, s)
          /\ batch' = Append(batch, s)
    /\ cpc' = "overtaken"
    /\ alive' = FALSE
    /\ UNCHANGED <<serverVars, wire, tcpVars, poolVars, recvQ, recvVars, seqVars,
                   runC, rows, commitFailed, handed>>

Next ==
    \/ ServerNext
    \/ ReceiverNext
    \/ SequencerNext
    \/ DBNext
    \/ MainNext
    \/ LoggerDies
    \/ ReceiverOvertakes
    \/ SequencerOvertakes
    \/ Finished

Spec == Init /\ [][Next]_vars

(***************************************************************************)
(* Fairness: a thread whose step is enabled and stays enabled takes it,     *)
(* which is what the operating system's scheduler gives.  Weak fairness of  *)
(* each thread, and of nothing else: no fault has to happen, and the main   *)
(* thread may sleep for ever before its first stop() (so that nothing holds *)
(* only because the client is stopped), but not between two of them.        *)
(***************************************************************************)
Fairness ==
    /\ WF_vars(CreateSnapshotServer \/ Accept \/ ReadRequest \/ SendGapMsg)
    /\ WF_vars(MulticastSend)
    /\ WF_vars(ReceiverNext)
    /\ WF_vars(SequencerNext)
    /\ WF_vars(DBNext)
    /\ WF_vars(StopReceiver \/ StopDB)

FairSpec == Spec /\ Fairness

-----------------------------------------------------------------------------
RangeOf(q)  == {q[k] : k \in 1 .. Len(q)}
Distinct(q) == \A j, k \in 1 .. Len(q) : q[j] = q[k] => j = k

Places == {"pool", "recvQ", "sendQ", "batch", "receiver", "sequencer", "recovery"}

\* The buffers a thread or a container holds.
Held(p) ==
    CASE p = "pool"      -> free
      [] p = "recvQ"     -> RangeOf(recvQ)
      [] p = "sendQ"     -> RangeOf(sendQ)
      [] p = "batch"     -> RangeOf(batch)
      [] p = "receiver"  -> {rSlot} \ {NoSlot}
      [] p = "sequencer" -> {seqMsg} \ {NoSlot}
      [] p = "recovery"  -> {recSlot} \ {NoSlot}

\* The states in which receiveRecoveryMessages() runs.
InRecovery == spc \in {"wait", "recv", "deliver"}

\* What the database thread took from the queue and has not yet tried to commit.
Uncommitted == IF cpc \in {"release", "releaseLast"} THEN <<>> ELSE batch

\* The type of every variable of the pipeline.
TypeOK ==
    /\ serverUp \in BOOLEAN /\ listening \in BOOLEAN
    /\ sent \in 0 .. NumTrades
    /\ serving \in [i : Nat, last : Int]
    /\ wire \in [Trades -> Nat]
    /\ conn \in {"none", "pending", "open", "closed"}
    /\ reqs \in Seq([start : Nat, end : Int])
    /\ stream \in Seq(Halves)
    /\ alive \in BOOLEAN
    /\ free \in SUBSET Slots
    /\ content \in [Slots -> Contents]
    /\ recvQ \in Seq(Slots) /\ sendQ \in Seq(Slots)
    /\ rpc \in {"loop", "alloc", "recv", "done"}
    /\ rSlot \in Slots \union {NoSlot}
    /\ runR \in BOOLEAN
    /\ spc \in {"connect", "loop", "dequeue", "drop", "forward", "request",
                "wait", "recv", "deliver", "done", "overtaken"}
    /\ attempts \in 0 .. ConnectAttempts
    /\ nextSequence \in Nat
    /\ seqMsg \in Slots \union {NoSlot}
    /\ recSlot \in Slots \union {NoSlot}
    /\ numMessages \in Int /\ messagesReceived \in Nat
    /\ runS \in BOOLEAN
    /\ cpc \in {"loop", "commit", "flush", "release", "releaseLast", "done",
                "overtaken"}
    /\ batch \in Seq(Slots)
    /\ runC \in BOOLEAN
    /\ rows \in Seq(Contents) /\ handed \in Seq(Contents)
    /\ aborted \in BOOLEAN /\ commitFailed \in BOOLEAN

\* A pointer is in at most one of the pool, the queues, the batch and the threads'
\* hands, and at most once in a queue.
Owned ==
    /\ \A p, q \in Places : p # q => Held(p) \intersect Held(q) = {}
    /\ Distinct(recvQ) /\ Distinct(sendQ) /\ Distinct(batch)

\* No buffer has two owners, whatever the threads interleave, until a dequeue()
\* is overtaken; and none is overtaken with a pool no larger than a queue.
OneOwner ==
    /\ PoolFits => ~Overtaken
    /\ ~Overtaken => Owned

\* The pool does not leak as long as it is no larger than a queue: the
\* unchecked enqueue() calls then never meet a full queue.
NoBufferLost ==
    PoolFits =>
        UNION {Held(p) : p \in Places} = Slots

\* Unless a recovery was left early (or a dequeue() overtaken), the sequencer hands
\* over the trades 0, 1, 2... with none missing, repeated or exchanged, and
\* nextSequence_ counts them.
HandedInOrder ==
    ~aborted /\ ~Overtaken =>
        /\ Len(handed) = nextSequence
        /\ \A k \in 1 .. Len(handed) : handed[k].seq = k - 1

\* ... and each is byte for byte the trade of that number.  The one exception is
\* the blank buffer that a shutdown before the first trade can push through.
HandedGenuine ==
    ~aborted /\ ~Overtaken =>
        \A k \in 1 .. Len(handed) :
            \/ handed[k].genuine
            \/ k = 1 /\ handed[1] = Blank /\ ~runR

\* Unless a recovery was left early (or a dequeue() overtaken), the table has no
\* trade twice and none behind a later one, even if transactions failed.
TableInOrder ==
    ~aborted /\ ~Overtaken =>
        \A j, k \in 1 .. Len(rows) : j < k => rows[j].seq < rows[k].seq

\* What the sequencer handed over is what the table holds, followed by what is
\* still on its way, contents included: no buffer is lost or written again
\* before it is stored (unless transactions failed).
NothingLostDownstream ==
    ~commitFailed /\ PoolFits =>
        handed = rows \o ContentsOf(Uncommitted \o sendQ)

\* A step changes only buffers that are in the hands of the thread that reads a
\* socket into them: never one that is queued, being sequenced or stored (until a
\* dequeue() is overtaken).
InFlightUntouched ==
    [][~Overtaken =>
       \A p \in {"recvQ", "sendQ", "batch", "sequencer"} :
          \A s \in Held(p) : content'[s] = content[s]]_vars

-----------------------------------------------------------------------------
(***************************************************************************)
(* The strengthening that makes the invariants inductive.                   *)
(***************************************************************************)

\* A thread holds a buffer exactly where its code has a message in hand.
HandsMatch ==
    /\ (rpc = "recv") <=> (rSlot # NoSlot)
    /\ (spc \in {"drop", "forward", "request", "wait", "recv", "deliver",
                 "overtaken"})
          <=> (seqMsg # NoSlot)
    /\ (spc \in {"recv", "deliver"}) <=> (recSlot # NoSlot)

\* Unless a recovery was left early: the message that is about to be forwarded is
\* the next one, and while a recovery runs, the messages it still waits for are
\* those between nextSequence_ and the message in hand.
RecoveryCounts ==
    ~aborted =>
        /\ spc = "forward" => content[seqMsg].seq = nextSequence
        /\ spc = "request" => content[seqMsg].seq > nextSequence
        /\ InRecovery =>
              /\ messagesReceived <= numMessages
              /\ spc \in {"recv", "deliver"} => messagesReceived < numMessages
              /\ numMessages - messagesReceived = content[seqMsg].seq - nextSequence

-----------------------------------------------------------------------------
(***************************************************************************)
(* Recoveries, and the ends of threads.  The liveness properties are for an *)
(* environment without faults (datagrams may still be lost, duplicated and  *)
(* reordered).                                                              *)
(***************************************************************************)

\* As long as nothing disturbs the TCP connection, onRecoveredMsg() is called with
\* the message nextSequence_ expects: its "Unrecoverable Gap" throw, which would
\* end the process, is not reached, whatever datagrams are lost, repeated or
\* exchanged and however often the gap is asked for.
RecoveredInOrder ==
    /\ Faults \intersect {"eof", "eintr", "fragment"} = {}
    /\ alive /\ spc = "deliver"
    => content[recSlot].seq = nextSequence

\* A recovery, once asked for, comes to its end: the server answers with as many
\* messages as receiveRecoveryMessages() counts.
RecoveryTerminates == InRecovery ~> (spc = "forward" \/ ~alive)

\* When the datagram of a trade gets through, this trade and every trade before
\* it are in the table some time later, the lost ones by recovery, unless the
\* client is stopped first.
GapsFilled ==
    \A t \in Trades :
        wire[t] > 0 ~>
            \/ ~runS \/ ~alive
            \/ \A u \in 0 .. t : \E k \in 1 .. Len(rows) : rows[k].seq = u

\* After the stop() calls every thread leaves run(), so that main can join it.
StopTerminates ==
    ~runS ~> (~alive \/ (rpc = "done" /\ spc = "done" /\ cpc = "done"))

-----------------------------------------------------------------------------
(***************************************************************************)
(* What the documents promise without condition.                            *)
(***************************************************************************)

\* "Blocking, required to keep the sequence" (TradeReceiver.hpp): the messages
\* handed downstream are in sequence, also when a recovery failed.
SequenceKept == \A k \in 1 .. Len(handed) : handed[k].seq = k - 1

\* "The sequencer ensures in-order processing and recovers missing trades"
\* (README.md): no trade is missing between two that the table holds.
TableGapFree ==
    \A k \in 1 .. Len(rows) - 1 : rows[k + 1].seq = rows[k].seq + 1

=============================================================================
