------------------------------ MODULE FeedProofs ------------------------------
(***************************************************************************)
(* The variables of FeedPipeline keep their types; no buffer of the pool is *)
(* ever in two places of the pipeline, or in none; and no thread writes     *)
(* into a buffer that another one may read.  The sequencer hands the trades *)
(* on in the order of their numbers, and what it hands on reaches the       *)
(* table.  For every number of trades, buffers and copies and every set of  *)
(* faults.  What depends on the queues holds until a dequeue() of a full    *)
(* queue is overtaken, which never happens with a pool no larger than a     *)
(* queue.                                                                   *)
(***************************************************************************)
EXTENDS FeedPipeline, SequenceTheorems, FiniteSetTheorems, TLAPS

(***************************************************************************)
(* Queues of buffers.                                                       *)
(***************************************************************************)

\* Enqueue either appends the pointer or leaves the queue alone.
LEMMA EnqueueProperties ==
    ASSUME NEW S, NEW q \in Seq(S), NEW s \in S
    PROVE  /\ Enqueue(q, s) \in Seq(S)
           /\ RangeOf(Enqueue(q, s)) \subseteq RangeOf(q) \union {s}
           /\ Distinct(q) /\ s \notin RangeOf(q) => Distinct(Enqueue(q, s))
<1>1. CASE Len(q) < QueueCapacity
  <2>1. Enqueue(q, s) = Append(q, s)
    BY <1>1 DEF Enqueue
  <2>2. QED
    BY <2>1, AppendProperties DEF RangeOf, Distinct
<1>2. CASE ~(Len(q) < QueueCapacity)
  <2>1. Enqueue(q, s) = q
    BY <1>2 DEF Enqueue
  <2>2. QED
    BY <2>1
<1>3. QED
  BY <1>1, <1>2

\* Appending to the batch.
LEMMA AppendRange ==
    ASSUME NEW S, NEW q \in Seq(S), NEW s \in S
    PROVE  /\ Append(q, s) \in Seq(S)
           /\ RangeOf(Append(q, s)) \subseteq RangeOf(q) \union {s}
           /\ Distinct(q) /\ s \notin RangeOf(q) => Distinct(Append(q, s))
  BY AppendProperties DEF RangeOf, Distinct

\* Taking the head out of a queue of distinct buffers.
LEMMA DequeueProperties ==
    ASSUME NEW S, NEW q \in Seq(S), q # <<>>
    PROVE  /\ Head(q) \in S
           /\ Tail(q) \in Seq(S)
           /\ Head(q) \in RangeOf(q)
           /\ Distinct(q) => /\ Distinct(Tail(q))
                             /\ RangeOf(Tail(q)) \subseteq RangeOf(q) \ {Head(q)}
<1>1. /\ Head(q) \in S
      /\ Tail(q) \in Seq(S)
      /\ Len(Tail(q)) = Len(q) - 1
      /\ \A k \in 1 .. Len(Tail(q)) : Tail(q)[k] = q[k + 1]
  BY HeadTailProperties
<1>2. Len(q) \in Nat \ {0} /\ Head(q) = q[1]
  BY EmptySeq
<1>3. Head(q) \in RangeOf(q)
  BY <1>2 DEF RangeOf
<1>4. ASSUME Distinct(q)
      PROVE  /\ Distinct(Tail(q))
             /\ RangeOf(Tail(q)) \subseteq RangeOf(q) \ {Head(q)}
  BY <1>1, <1>2, <1>4 DEF RangeOf, Distinct
<1>5. QED
  BY <1>1, <1>3, <1>4

\* The contents behind a sequence of pointers form a sequence of contents.
LEMMA ContentsOfType ==
    ASSUME NEW q \in Seq(Slots), content \in [Slots -> Contents]
    PROVE  /\ ContentsOf(q) \in Seq(Contents)
           /\ Len(ContentsOf(q)) = Len(q)
           /\ \A k \in 1 .. Len(q) : ContentsOf(q)[k] = content[q[k]]
<1>1. Len(q) \in Nat /\ \A k \in 1 .. Len(q) : q[k] \in Slots
  BY LenProperties
<1>2. ContentsOf(q) \in [1 .. Len(q) -> Contents]
  BY <1>1 DEF ContentsOf
<1>3. ContentsOf(q) \in Seq(Contents)
  BY <1>1, <1>2, SeqDef
<1>4. QED
  BY <1>1, <1>2, <1>3, LenProperties DEF ContentsOf

-----------------------------------------------------------------------------
(***************************************************************************)
(* Types.  A thread that uses the buffer in its hands must have one, so the *)
(* types need HandsMatch to be inductive.                                   *)
(***************************************************************************)
TypeInv == TypeOK /\ HandsMatch

\* The steps by which no dequeue() is overtaken.
Steady ==
    \/ ServerNext
    \/ ReceiverNext
    \/ SequencerNext
    \/ DBNext
    \/ MainNext
    \/ LoggerDies
    \/ Finished

\* TypeInv holds at the start.
LEMMA TypeInit == Init => TypeInv
  BY NumTradesAssumption, AttemptsAssumption, SlotsAssumption, EmptySeq
  DEF Init, TypeInv, TypeOK, HandsMatch, Contents, Blank, Trades

\* The steps of the server process.
LEMMA TypeServer == TypeInv /\ ServerNext => TypeInv'
<1> SUFFICES ASSUME TypeInv, ServerNext PROVE TypeInv'
  OBVIOUS
<1>0. /\ sent \in 0 .. NumTrades
      /\ serving \in [i : Nat, last : Int]
      /\ wire \in [Trades -> Nat]
      /\ reqs \in Seq([start : Nat, end : Int])
      /\ stream \in Seq(Halves)
  BY DEF TypeInv, TypeOK
<1>1. CASE CreateSnapshotServer
  BY <1>1 DEF CreateSnapshotServer, TypeInv, TypeOK, HandsMatch, tcpVars,
              poolVars, recvVars, seqVars, dbVars
<1>2. CASE Accept
  BY <1>2 DEF Accept, TypeInv, TypeOK, HandsMatch, serverVars, poolVars,
              recvVars, seqVars, dbVars
<1>3. CASE ReadRequest
  <2>1. PICK k \in 1 .. Len(reqs) :
          /\ reqs' = SubSeq(reqs, k + 1, Len(reqs))
          /\ \/ /\ k = 1
                /\ serving' = [i |-> reqs[1].start, last |-> reqs[1].end]
             \/ /\ k > 1 \/ "fragment" \in Faults
                /\ serving' = serving
    BY <1>3 DEF ReadRequest
  <2>2. Len(reqs) \in Nat /\ \A j \in 1 .. Len(reqs) : reqs[j] \in [start : Nat, end : Int]
    BY <1>0, LenProperties, ElementOfSeq
  <2>3. reqs' \in Seq([start : Nat, end : Int])
    <3>1. \A j \in k + 1 .. Len(reqs) : reqs[j] \in [start : Nat, end : Int]
      BY <2>2
    <3>2. SubSeq(reqs, k + 1, Len(reqs)) \in Seq([start : Nat, end : Int])
      BY <2>2, <3>1, SubSeqProperties
    <3>3. QED
      BY <2>1, <3>2
  <2>4. serving' \in [i : Nat, last : Int]
    BY <1>0, <2>1, <2>2
  <2>5. UNCHANGED <<serverUp, listening, sent, wire, conn, stream, alive, free,
                    content, recvQ, sendQ, rpc, rSlot, runR, spc, attempts,
                    nextSequence, seqMsg, recSlot, numMessages,
                    messagesReceived, runS, aborted, cpc, batch, runC, rows,
                    commitFailed, handed>>
    BY <1>3 DEF ReadRequest, poolVars, recvVars, seqVars, dbVars
  <2>6. HandsMatch'
    BY <2>5 DEF TypeInv, HandsMatch
  <2>7. TypeOK'
    BY <2>3, <2>4, <2>5, SMTT(60) DEF TypeInv, TypeOK
  <2>8. QED
    BY <2>6, <2>7 DEF TypeInv
<1>4. CASE SendGapMsg
  <2>1. stream' \in Seq(Halves)
    <3>1. CASE serving.i \in Trades
      <4>1. <<Half(serving.i, 1), Half(serving.i, 2)>> \in Seq(Halves)
        BY <3>1 DEF Half, Halves
      <4>2. QED
        BY <1>0, <1>4, <3>1, <4>1, ConcatProperties DEF SendGapMsg
    <3>2. CASE serving.i \notin Trades
      BY <1>0, <1>4, <3>2 DEF SendGapMsg
    <3>3. QED
      BY <3>1, <3>2
  <2>2. serving' \in [i : Nat, last : Int]
    BY <1>0, <1>4 DEF SendGapMsg
  <2>3. QED
    BY <1>4, <2>1, <2>2 DEF SendGapMsg, TypeInv, TypeOK, HandsMatch, poolVars,
                            recvVars, seqVars, dbVars
<1>5. CASE MulticastSend
  <2>1. sent' \in 0 .. NumTrades /\ sent \in Trades
    BY <1>0, <1>5, NumTradesAssumption DEF MulticastSend, Trades
  <2>2. wire' \in [Trades -> Nat]
    BY <1>0, <1>5, <2>1, CopiesAssumption DEF MulticastSend, Trades
  <2>3. QED
    BY <1>5, <2>1, <2>2 DEF MulticastSend, TypeInv, TypeOK, HandsMatch, tcpVars,
                            poolVars, recvVars, seqVars, dbVars
<1>6. CASE ServerDies
  <2>1. PICK n \in 0 .. Len(stream) : stream' = SubSeq(stream, 1, n)
    BY <1>6 DEF ServerDies
  <2>2. stream' \in Seq(Halves)
    <3>1. n \in Int /\ \A j \in 1 .. n : stream[j] \in Halves
      BY <1>0
    <3>2. SubSeq(stream, 1, n) \in Seq(Halves)
      BY <3>1, SubSeqProperties
    <3>3. QED
      BY <2>1, <3>2
  <2>3. reqs' \in Seq([start : Nat, end : Int])
    BY <1>6 DEF ServerDies
  <2>4. conn' \in {"none", "pending", "open", "closed"}
    BY <1>6 DEF ServerDies
  <2>5. /\ serverUp' \in BOOLEAN /\ listening' \in BOOLEAN
        /\ UNCHANGED <<sent, serving, wire, alive, poolVars, recvQ, sendQ,
                       recvVars, seqVars, dbVars, handed>>
    BY <1>6 DEF ServerDies
  <2>6. QED
    BY <2>2, <2>3, <2>4, <2>5 DEF TypeInv, TypeOK, HandsMatch, poolVars,
                                  recvVars, seqVars, dbVars
<1>7. QED
  BY <1>1, <1>2, <1>3, <1>4, <1>5, <1>6 DEF ServerNext

\* The steps of the receiver thread.
LEMMA TypeReceiver == TypeInv /\ ReceiverNext => TypeInv'
<1> SUFFICES ASSUME TypeInv, ReceiverNext PROVE TypeInv'
  OBVIOUS
<1>0. /\ wire \in [Trades -> Nat]
      /\ free \in SUBSET Slots
      /\ content \in [Slots -> Contents]
      /\ recvQ \in Seq(Slots)
      /\ rSlot \in Slots \union {NoSlot}
      /\ rpc = "recv" => rSlot \in Slots
      /\ NoSlot \notin Slots
  BY SlotsAssumption DEF TypeInv, TypeOK, HandsMatch
<1> USE DEF serverVars, tcpVars, poolVars, recvVars, seqVars, dbVars, RUnchanged
<1>1. CASE ReceiverLoop
  BY <1>1, SMTT(30) DEF ReceiverLoop, TypeInv, TypeOK, HandsMatch
<1>2. CASE ReceiverAllocate
  <2>1. CASE PoolExhausted /\ Terminate /\ UNCHANGED <<free, rSlot, rpc>>
    <3>1. /\ RUnchanged
          /\ UNCHANGED <<wire, content, recvQ, runR, free, rSlot, rpc>>
          /\ alive' \in BOOLEAN
      BY <1>2, <2>1 DEF ReceiverAllocate, Terminate
    <3>2. QED
      BY <3>1, SMTT(30) DEF TypeInv, TypeOK, HandsMatch
  <2>2. ASSUME NEW s \in Slots, Allocate(s), rSlot' = s, rpc' = "recv",
               UNCHANGED alive
        PROVE  TypeInv'
    <3>1. free' \in SUBSET Slots /\ rSlot' \in Slots /\ rSlot' # NoSlot
      BY <1>0, <2>2 DEF Allocate
    <3>2. QED
      BY <1>2, <2>2, <3>1 DEF ReceiverAllocate, TypeInv, TypeOK, HandsMatch
  <2>3. QED
    BY <1>2, <2>1, <2>2 DEF ReceiverAllocate
<1>3. ASSUME rpc = "recv", ReceiverEnqueue
      PROVE  /\ recvQ' \in Seq(Slots)
             /\ rSlot' = NoSlot
             /\ rpc' = "loop"
  BY <1>0, <1>3, EnqueueProperties DEF ReceiverEnqueue
<1>4. CASE ReceiveDatagram
  <2>1. PICK t \in Trades :
              /\ wire[t] > 0
              /\ wire' = [wire EXCEPT ![t] = @ - 1]
              /\ content' = [content EXCEPT ![rSlot] = Trade(t)]
    BY <1>4 DEF ReceiveDatagram
  <2>2. wire' \in [Trades -> Nat]
    <3>1. wire[t] \in Nat
      BY <1>0
    <3>2. wire[t] - 1 \in Nat
      BY <2>1, <3>1
    <3>3. QED
      BY <1>0, <2>1, <3>2
  <2>3. content' \in [Slots -> Contents]
    BY <1>0, <2>1 DEF Trade, Contents
  <2>4. QED
    BY <1>3, <1>4, <2>2, <2>3, SMTT(30) DEF ReceiveDatagram, TypeInv, TypeOK, HandsMatch
<1>5. CASE ReceiveShutdown
  BY <1>3, <1>5, SMTT(30) DEF ReceiveShutdown, TypeInv, TypeOK, HandsMatch
<1>6. CASE ReceiveError
  <2>1. free' \in SUBSET Slots /\ rSlot' = NoSlot /\ rpc' = "loop"
    BY <1>0, <1>6 DEF ReceiveError, Deallocate
  <2>2. QED
    BY <1>6, <2>1 DEF ReceiveError, TypeInv, TypeOK, HandsMatch
<1>7. QED
  BY <1>1, <1>2, <1>4, <1>5, <1>6 DEF ReceiverNext

\* Handing a buffer downstream.
LEMMA HandOverType ==
    ASSUME TypeOK, NEW s \in Slots, HandOver(s)
    PROVE  /\ sendQ' \in Seq(Slots)
           /\ nextSequence' \in Nat
           /\ handed' \in Seq(Contents)
<1>1. /\ sendQ \in Seq(Slots) /\ nextSequence \in Nat
      /\ handed \in Seq(Contents) /\ content[s] \in Contents
  BY DEF TypeOK
<1>2. QED
  BY <1>1, EnqueueProperties, AppendProperties DEF HandOver

\* The steps of the sequencer thread outside recover().
LEMMA TypeSequencer ==
    TypeInv /\ (Connect \/ SequencerLoop \/ SequencerDequeue \/ DropOld \/ Forward)
        => TypeInv'
<1> SUFFICES ASSUME TypeInv,
                    Connect \/ SequencerLoop \/ SequencerDequeue \/ DropOld \/ Forward
             PROVE  TypeInv'
  OBVIOUS
<1>0. /\ free \in SUBSET Slots
      /\ recvQ \in Seq(Slots)
      /\ attempts \in 0 .. ConnectAttempts
      /\ spc \in {"drop", "forward"} => seqMsg \in Slots
      /\ NoSlot \notin Slots
      /\ TypeOK
  BY SlotsAssumption DEF TypeInv, TypeOK, HandsMatch
<1> USE DEF serverVars, tcpVars, poolVars, recvVars, seqVars, dbVars, SUnchanged
<1>1. CASE Connect
  <2>1. /\ conn' \in {"none", "pending", "open", "closed"}
        /\ spc' \in {"connect", "loop"} /\ spc = "connect"
    BY <1>1 DEF Connect, TypeInv, TypeOK
  <2>2. attempts' \in 0 .. ConnectAttempts
    <3>1. \/ attempts' = attempts
          \/ attempts < ConnectAttempts /\ attempts' = attempts + 1
      BY <1>1 DEF Connect
    <3>2. QED
      BY <1>0, <3>1, AttemptsAssumption
  <2>3. alive' \in BOOLEAN
    BY <1>0, <1>1 DEF Connect, TypeOK, Terminate
  <2>4. /\ SUnchanged
        /\ UNCHANGED <<reqs, stream, poolVars, recvQ, sendQ, nextSequence,
                       seqMsg, recSlot, numMessages, messagesReceived, runS,
                       aborted, handed>>
    BY <1>1 DEF Connect
  <2>5. QED
    BY <2>1, <2>2, <2>3, <2>4 DEF TypeInv, TypeOK, HandsMatch
<1>2. CASE SequencerLoop
  BY <1>2 DEF SequencerLoop, TypeInv, TypeOK, HandsMatch
<1>3. CASE SequencerDequeue
  <2>1. CASE recvQ = <<>> /\ spc' = "loop" /\ UNCHANGED <<recvQ, seqMsg>>
    BY <1>3, <2>1, SMTT(30) DEF SequencerDequeue, TypeInv, TypeOK, HandsMatch
  <2>2. CASE recvQ # <<>> /\ recvQ' = Tail(recvQ) /\ seqMsg' = Head(recvQ)
    <3>1. recvQ' \in Seq(Slots) /\ seqMsg' \in Slots
      BY <1>0, <2>2, DequeueProperties
    <3>2. content[Head(recvQ)].seq \in Int /\ nextSequence \in Int
      <4>1. content[Head(recvQ)] \in Contents /\ nextSequence \in Int
        BY <1>0, <2>2, <3>1 DEF TypeOK
      <4>2. \A m \in Contents : m.seq \in Int
        BY NumTradesAssumption DEF Contents, Trades, Garbage
      <4>3. QED
        BY <4>1, <4>2
    <3>3. /\ spc' \in {"request", "drop", "forward"} /\ spc = "dequeue"
          /\ SUnchanged
          /\ UNCHANGED <<tcpVars, alive, poolVars, sendQ, attempts,
                         nextSequence, recSlot, numMessages, messagesReceived,
                         runS, aborted, handed>>
      BY <1>3, <2>2, <3>2 DEF SequencerDequeue
    <3>4. QED
      BY <1>0, <3>1, <3>3 DEF TypeInv, TypeOK, HandsMatch
  <2>3. QED
    BY <1>3, <2>1, <2>2 DEF SequencerDequeue
<1>4. CASE DropOld
  <2>1. free' \in SUBSET Slots
    BY <1>0, <1>4 DEF DropOld, Deallocate
  <2>2. QED
    BY <1>4, <2>1 DEF DropOld, TypeInv, TypeOK, HandsMatch
<1>5. CASE Forward
  <2>1. sendQ' \in Seq(Slots) /\ nextSequence' \in Nat /\ handed' \in Seq(Contents)
    BY <1>0, <1>5, HandOverType DEF Forward
  <2>2. QED
    BY <1>5, <2>1 DEF Forward, TypeInv, TypeOK, HandsMatch
<1>6. QED
  BY <1>1, <1>2, <1>3, <1>4, <1>5

\* What recv() puts into a buffer.
LEMMA ReceivedContents ==
    ASSUME stream \in Seq(Halves), stream # <<>>
    PROVE  /\ WholeMessage(stream) \in Contents
           /\ PartOfMessage(stream) \in Contents
           /\ Tail(stream) \in Seq(Halves)
           /\ SubSeq(stream, 3, Len(stream)) \in Seq(Halves)
<1>1. Len(stream) \in Nat \ {0} /\ \A k \in 1 .. Len(stream) : stream[k] \in Halves
  BY EmptySeq, ElementOfSeq
<1>2. stream[1] \in Halves
  BY <1>1
<1>3. WholeMessage(stream) \in Contents /\ PartOfMessage(stream) \in Contents
  BY <1>2 DEF WholeMessage, PartOfMessage, Contents, Halves, Trade
<1>4. SubSeq(stream, 3, Len(stream)) \in Seq(Halves)
  BY <1>1, SubSeqProperties
<1>5. QED
  BY <1>3, <1>4, HeadTailProperties

\* The steps of recover().
LEMMA TypeRecovery == TypeInv /\ RecoveryNext => TypeInv'
<1> SUFFICES ASSUME TypeInv, RecoveryNext PROVE TypeInv'
  OBVIOUS
<1>0. /\ free \in SUBSET Slots
      /\ content \in [Slots -> Contents]
      /\ reqs \in Seq([start : Nat, end : Int])
      /\ stream \in Seq(Halves)
      /\ nextSequence \in Nat /\ messagesReceived \in Nat
      /\ spc \in {"request", "wait", "recv", "deliver"} => seqMsg \in Slots
      /\ spc \in {"recv", "deliver"} => recSlot \in Slots
      /\ NoSlot \notin Slots
      /\ TypeOK
  BY SlotsAssumption DEF TypeInv, TypeOK, HandsMatch
<1> USE DEF serverVars, tcpVars, poolVars, recvVars, seqVars, dbVars, SUnchanged
<1>1. CASE SendRecoveryRequest
  <2>1. content[seqMsg].seq \in Int
    BY <1>0, <1>1, NumTradesAssumption
    DEF SendRecoveryRequest, Contents, Trades, Garbage
  <2>2. reqs' \in Seq([start : Nat, end : Int])
    <3>1. [start |-> nextSequence, end |-> content[seqMsg].seq - 1]
             \in [start : Nat, end : Int]
      BY <1>0, <2>1
    <3>2. reqs' = reqs \/ reqs' = Append(reqs, [start |-> nextSequence,
                                               end |-> content[seqMsg].seq - 1])
      BY <1>1 DEF SendRecoveryRequest, RequestSent
    <3>3. \A r \in [start : Nat, end : Int] :
              Append(reqs, r) \in Seq([start : Nat, end : Int])
      BY <1>0, AppendProperties
    <3>4. QED
      BY <1>0, <3>1, <3>2, <3>3
  <2>3. numMessages' \in Int /\ messagesReceived' \in Nat
    <3>1. \/ UNCHANGED <<numMessages, messagesReceived>>
          \/ /\ numMessages' = content[seqMsg].seq - nextSequence
             /\ messagesReceived' = 0
      BY <1>1 DEF SendRecoveryRequest
    <3>2. numMessages \in Int
      BY <1>0 DEF TypeOK
    <3>3. QED
      BY <1>0, <2>1, <3>1, <3>2
  <2>4. spc = "request" /\ spc' \in {"request", "wait"}
    BY <1>1 DEF SendRecoveryRequest
  <2>5. alive' \in BOOLEAN
    BY <1>0, <1>1 DEF SendRecoveryRequest, TypeOK, Terminate
  <2>6. /\ SUnchanged
        /\ UNCHANGED <<conn, stream, poolVars, recvQ, sendQ, attempts,
                       nextSequence, seqMsg, recSlot, runS, aborted, handed>>
    BY <1>1 DEF SendRecoveryRequest
  <2>7. QED
    BY <2>2, <2>3, <2>4, <2>5, <2>6 DEF TypeInv, TypeOK, HandsMatch
<1>2. CASE RecoveryComplete
  BY <1>2 DEF RecoveryComplete, TypeInv, TypeOK, HandsMatch
<1>3. CASE RecoveryAllocate
  <2>1. /\ SUnchanged
        /\ UNCHANGED <<tcpVars, content, recvQ, sendQ, attempts, nextSequence,
                       seqMsg, numMessages, messagesReceived, runS, aborted,
                       handed>>
        /\ spc = "wait"
    BY <1>3 DEF RecoveryAllocate
  <2>2. CASE PoolExhausted /\ Terminate /\ UNCHANGED <<free, recSlot, spc>>
    <3>1. alive' \in BOOLEAN /\ UNCHANGED <<free, recSlot, spc>>
      BY <2>2 DEF Terminate
    <3>2. QED
      BY <2>1, <3>1 DEF TypeInv, TypeOK, HandsMatch
  <2>3. ASSUME NEW s \in Slots, Allocate(s), recSlot' = s, spc' = "recv",
               UNCHANGED alive
        PROVE  TypeInv'
    <3>1. free' \in SUBSET Slots /\ recSlot' \in Slots /\ recSlot' # NoSlot
      BY <1>0, <2>3 DEF Allocate
    <3>2. QED
      BY <2>1, <2>3, <3>1 DEF TypeInv, TypeOK, HandsMatch
  <2>4. QED
    BY <1>3, <2>2, <2>3 DEF RecoveryAllocate
<1>4. CASE RecoveryTimeout
  BY <1>4 DEF RecoveryTimeout, vars, TypeInv, TypeOK, HandsMatch
<1>5. CASE RecoveryInterrupted
  <2>1. /\ spc = "wait" /\ spc' = "forward"
        /\ aborted' \in BOOLEAN
        /\ SUnchanged
        /\ UNCHANGED <<tcpVars, alive, poolVars, recvQ, sendQ, attempts,
                       nextSequence, seqMsg, recSlot, numMessages,
                       messagesReceived, runS, handed>>
    BY <1>5 DEF RecoveryInterrupted
  <2>2. QED
    BY <2>1 DEF TypeInv, TypeOK, HandsMatch
<1>6. CASE RecoveryRecvWhole
  <2>1. stream # <<>>
    BY <1>0, <1>6, EmptySeq DEF RecoveryRecvWhole
  <2>2. content' \in [Slots -> Contents] /\ stream' \in Seq(Halves)
    BY <1>0, <1>6, <2>1, ReceivedContents DEF RecoveryRecvWhole
  <2>3. QED
    BY <1>6, <2>2 DEF RecoveryRecvWhole, TypeInv, TypeOK, HandsMatch
<1>7. CASE RecoveryRecvPart
  <2>1. /\ content' \in [Slots -> Contents]
        /\ stream' \in Seq(Halves)
        /\ free' \in SUBSET Slots
    BY <1>0, <1>7, ReceivedContents DEF RecoveryRecvPart, Deallocate
  <2>2. QED
    BY <1>7, <2>1 DEF RecoveryRecvPart, TypeInv, TypeOK, HandsMatch
<1>8. CASE RecoveryRecvClosed
  <2>1. free' \in SUBSET Slots
    BY <1>0, <1>8 DEF RecoveryRecvClosed, Deallocate
  <2>2. /\ spc = "recv" /\ spc' = "forward"
        /\ recSlot' = NoSlot
        /\ aborted' \in BOOLEAN
        /\ SUnchanged
        /\ UNCHANGED <<tcpVars, alive, content, recvQ, sendQ, attempts,
                       nextSequence, seqMsg, numMessages, messagesReceived,
                       runS, handed>>
    BY <1>8 DEF RecoveryRecvClosed
  <2>3. QED
    BY <2>1, <2>2 DEF TypeInv, TypeOK, HandsMatch
<1>9. CASE OnRecoveredMsg
  <2>1. /\ SUnchanged
        /\ UNCHANGED <<tcpVars, poolVars, recvQ, attempts, seqMsg, numMessages,
                       runS, aborted>>
        /\ spc = "deliver" /\ recSlot \in Slots
    BY <1>0, <1>9 DEF OnRecoveredMsg
  <2>2. CASE /\ HandOver(recSlot)
             /\ recSlot' = NoSlot
             /\ messagesReceived' = messagesReceived + 1
             /\ spc' = "wait"
             /\ UNCHANGED alive
    <3>1. /\ sendQ' \in Seq(Slots) /\ nextSequence' \in Nat
          /\ handed' \in Seq(Contents)
      BY <1>0, <2>1, <2>2, HandOverType
    <3>2. messagesReceived' \in Nat
      BY <1>0, <2>2
    <3>3. QED
      BY <2>1, <2>2, <3>1, <3>2 DEF TypeInv, TypeOK, HandsMatch
  <2>3. CASE /\ Terminate
             /\ UNCHANGED <<sendQ, nextSequence, handed, recSlot,
                            messagesReceived, spc>>
    <3>1. alive' \in BOOLEAN
      BY <2>3 DEF Terminate
    <3>2. UNCHANGED <<sendQ, nextSequence, handed, recSlot, messagesReceived, spc>>
      BY <2>3
    <3>3. QED
      BY <2>1, <3>1, <3>2 DEF TypeInv, TypeOK, HandsMatch
  <2>4. QED
    BY <1>9, <2>2, <2>3 DEF OnRecoveredMsg
<1>10. QED
  BY <1>1, <1>2, <1>3, <1>4, <1>5, <1>6, <1>7, <1>8, <1>9 DEF RecoveryNext

\* The steps of the database thread.
LEMMA TypeDB == TypeInv /\ DBNext => TypeInv'
<1> SUFFICES ASSUME TypeInv, DBNext PROVE TypeInv'
  OBVIOUS
<1>0. /\ free \in SUBSET Slots
      /\ content \in [Slots -> Contents]
      /\ sendQ \in Seq(Slots) /\ batch \in Seq(Slots)
      /\ rows \in Seq(Contents)
  BY DEF TypeInv, TypeOK
<1> USE DEF serverVars, tcpVars, poolVars, recvVars, seqVars, dbVars, DUnchanged
<1>1. CASE DBDequeue
  <2>1. /\ DUnchanged
        /\ UNCHANGED <<poolVars, runC, rows, commitFailed>>
        /\ cpc' \in {"commit", "loop"}
    BY <1>1 DEF DBDequeue
  <2>2. sendQ' \in Seq(Slots) /\ batch' \in Seq(Slots)
    <3>1. CASE UNCHANGED <<sendQ, batch>>
      BY <1>0, <3>1
    <3>2. CASE /\ sendQ # <<>> /\ sendQ' = Tail(sendQ)
               /\ batch' = Append(batch, Head(sendQ))
      BY <1>0, <3>2, DequeueProperties, AppendRange
    <3>3. QED
      BY <1>1, <3>1, <3>2 DEF DBDequeue
  <2>3. QED
    BY <2>1, <2>2 DEF TypeInv, TypeOK, HandsMatch
<1>2. CASE DBLeaveLoop
  BY <1>2 DEF DBLeaveLoop, TypeInv, TypeOK, HandsMatch
<1>3. CASE CommitSingle \/ CommitBatch \/ CommitCopy
  <2>1. rows' \in Seq(Contents)
    <3>1. rows \o ContentsOf(batch) \in Seq(Contents)
      BY <1>0, ContentsOfType, ConcatProperties
    <3>2. CASE CommitBatch \/ CommitCopy
      BY <1>0, <3>1, <3>2 DEF CommitBatch, CommitCopy, Commit
    <3>3. CASE CommitSingle
      <4>1. batch # <<>>
        BY <3>3 DEF CommitSingle
      <4>2. <<content[Head(batch)]>> \in Seq(Contents)
        BY <1>0, <4>1
      <4>3. rows \o <<content[Head(batch)]>> \in Seq(Contents)
        BY <1>0, <4>2, ConcatProperties
      <4>4. QED
        BY <1>0, <3>3, <4>3 DEF CommitSingle, Commit
    <3>4. QED
      BY <1>3, <3>2, <3>3
  <2>2. /\ DUnchanged
        /\ UNCHANGED <<poolVars, sendQ, batch, runC>>
        /\ cpc' \in {"release", "releaseLast"}
        /\ commitFailed' \in BOOLEAN
    BY <1>3 DEF CommitSingle, CommitBatch, CommitCopy, Commit, TypeInv, TypeOK
  <2>3. QED
    BY <2>1, <2>2 DEF TypeInv, TypeOK, HandsMatch
<1>4. CASE DBRelease
  <2>1. batch' \in Seq(Slots) /\ free' \in SUBSET Slots
    BY <1>0, <1>4, DequeueProperties DEF DBRelease, Deallocate
  <2>2. /\ DUnchanged
        /\ UNCHANGED <<content, sendQ, runC, rows, commitFailed>>
        /\ cpc' \in {"release", "releaseLast", "loop", "done"}
    BY <1>4 DEF DBRelease
  <2>3. QED
    BY <2>1, <2>2 DEF TypeInv, TypeOK, HandsMatch
<1>5. QED
  BY <1>1, <1>2, <1>3, <1>4 DEF DBNext, runSingle, runBatch, runCopy

\* The steps of the main thread, the end that a log() may bring, and steps that
\* change nothing.
LEMMA TypeMain ==
    TypeInv /\ (MainNext \/ LoggerDies \/ Finished \/ UNCHANGED vars) => TypeInv'
<1> SUFFICES ASSUME TypeInv, MainNext \/ LoggerDies \/ Finished \/ UNCHANGED vars
             PROVE  TypeInv'
  OBVIOUS
<1> USE DEF serverVars, tcpVars, poolVars, recvVars, seqVars, dbVars,
            SUnchanged, RUnchanged, DUnchanged
<1>1. CASE StopSequencer
  <2>1. /\ runS' \in BOOLEAN
        /\ SUnchanged
        /\ UNCHANGED <<tcpVars, alive, poolVars, recvQ, sendQ, spc, attempts,
                       nextSequence, seqMsg, recSlot, numMessages,
                       messagesReceived, aborted, handed>>
    BY <1>1 DEF StopSequencer
  <2>2. QED
    BY <2>1 DEF TypeInv, TypeOK, HandsMatch
<1>2. CASE StopReceiver
  <2>1. /\ runR' \in BOOLEAN
        /\ RUnchanged
        /\ UNCHANGED <<wire, alive, poolVars, recvQ, rpc, rSlot>>
    BY <1>2 DEF StopReceiver
  <2>2. QED
    BY <2>1 DEF TypeInv, TypeOK, HandsMatch
<1>3. CASE StopDB
  <2>1. /\ runC' \in BOOLEAN
        /\ DUnchanged
        /\ UNCHANGED <<poolVars, sendQ, cpc, batch, rows, commitFailed>>
    BY <1>3 DEF StopDB
  <2>2. QED
    BY <2>1 DEF TypeInv, TypeOK, HandsMatch
<1>4. CASE UNCHANGED vars
  BY <1>4 DEF vars, TypeInv, TypeOK, HandsMatch
<1>5. CASE LoggerDies
  <2>1. alive' \in BOOLEAN
    BY <1>5 DEF LoggerDies, Terminate
  <2>2. UNCHANGED <<serverVars, wire, tcpVars, poolVars, recvQ, sendQ, recvVars,
                    seqVars, dbVars, handed>>
    BY <1>5 DEF LoggerDies
  <2>3. QED
    BY <2>1, <2>2 DEF TypeInv, TypeOK, HandsMatch
<1>6. QED
  BY <1>1, <1>2, <1>3, <1>4, <1>5 DEF MainNext, Finished

\* The step that leaves the sequencer with an overtaken dequeue().
LEMMA TypeReceiverOvertakes == TypeInv /\ ReceiverOvertakes => TypeInv'
<1> SUFFICES ASSUME TypeInv, ReceiverOvertakes PROVE TypeInv'
  OBVIOUS
<1>0. /\ recvQ \in Seq(Slots) /\ rSlot \in Slots
      /\ wire \in [Trades -> Nat] /\ content \in [Slots -> Contents]
      /\ NoSlot \notin Slots
      /\ QueueCapacity \in Nat \ {0}
  BY SlotsAssumption, QueueAssumption
  DEF ReceiverOvertakes, TypeInv, TypeOK, HandsMatch
<1>1. recvQ' \in Seq(Slots)
  <2>1. recvQ # <<>> /\ recvQ' = Append(Tail(recvQ), rSlot)
    BY <1>0, EmptySeq DEF ReceiverOvertakes, OvertakenBy
  <2>2. QED
    BY <1>0, <2>1, DequeueProperties, AppendProperties
<1>2. wire' \in [Trades -> Nat] /\ content' \in [Slots -> Contents]
  <2>1. CASE UNCHANGED <<wire, content>>
    BY <1>0, <2>1
  <2>2. ASSUME NEW t \in Trades, wire[t] > 0,
               wire' = [wire EXCEPT ![t] = @ - 1],
               content' = [content EXCEPT ![rSlot] = Trade(t)]
        PROVE  wire' \in [Trades -> Nat] /\ content' \in [Slots -> Contents]
    <3>1. Trade(t) \in Contents /\ wire[t] - 1 \in Nat
      BY <1>0, <2>2 DEF Trade, Contents
    <3>2. QED
      BY <1>0, <2>2, <3>1
  <2>3. QED
    BY <2>1, <2>2 DEF ReceiverOvertakes
<1>3. /\ seqMsg' \in Slots /\ seqMsg' # NoSlot
      /\ spc = "dequeue" /\ spc' = "overtaken"
      /\ UNCHANGED <<serverVars, tcpVars, free, sendQ, recvVars, attempts,
                     nextSequence, recSlot, numMessages, messagesReceived, runS,
                     aborted, dbVars, handed>>
  BY <1>0 DEF ReceiverOvertakes
<1>4. alive' \in BOOLEAN
  BY DEF ReceiverOvertakes
<1>5. QED
  BY <1>1, <1>2, <1>3, <1>4
  DEF TypeInv, TypeOK, HandsMatch, serverVars, tcpVars, recvVars, dbVars

\* The step that leaves the database thread with one.
LEMMA TypeSequencerOvertakes == TypeInv /\ SequencerOvertakes => TypeInv'
<1> SUFFICES ASSUME TypeInv, SequencerOvertakes PROVE TypeInv'
  OBVIOUS
<1>1. sendQ' \in Seq(Slots) /\ batch' \in Seq(Slots)
  <2>1. PICK s \in Slots : sendQ' = Append(Tail(sendQ), s) /\ batch' = Append(batch, s)
    BY DEF SequencerOvertakes, OvertakenBy
  <2>2. sendQ \in Seq(Slots) /\ sendQ # <<>> /\ batch \in Seq(Slots)
    BY QueueAssumption, EmptySeq DEF SequencerOvertakes, TypeInv, TypeOK
  <2>3. QED
    BY <2>1, <2>2, DequeueProperties, AppendProperties
<1>2. /\ cpc' = "overtaken"
      /\ UNCHANGED <<serverVars, wire, tcpVars, poolVars, recvQ, recvVars, seqVars,
                     runC, rows, commitFailed, handed>>
  BY DEF SequencerOvertakes
<1>3. alive' \in BOOLEAN
  BY DEF SequencerOvertakes
<1>4. QED
  BY <1>1, <1>2, <1>3
  DEF TypeInv, TypeOK, HandsMatch, serverVars, tcpVars, poolVars, recvVars, seqVars

\* Every steady step keeps TypeInv.
LEMMA TypeSteady == TypeInv /\ [Steady]_vars => TypeInv'
  BY TypeServer, TypeReceiver, TypeSequencer, TypeRecovery, TypeDB, TypeMain
  DEF Steady, SequencerNext

\* Every step keeps TypeInv.
LEMMA TypeStep == TypeInv /\ [Next]_vars => TypeInv'
  BY TypeSteady, TypeReceiverOvertakes, TypeSequencerOvertakes DEF Next, Steady

\* TypeInv is an inductive invariant.
LEMMA TypeInvariant == Spec => []TypeInv
  BY TypeInit, TypeStep, PTL DEF Spec

\* Every variable of the pipeline keeps its type, for every set of faults: no
\* thread uses a null pointer, and no queue or table holds one.
THEOREM TypeCorrect == Spec => []TypeOK
<1>1. TypeInv => TypeOK
  BY DEF TypeInv
<1>2. QED
  BY TypeInvariant, <1>1, PTL

-----------------------------------------------------------------------------
(***************************************************************************)
(* Who owns a buffer.                                                       *)
(***************************************************************************)
\* The owners as a function of the place.
Owners == [p \in Places |-> Held(p)]

Disjoint(F) == \A p, q \in Places : p # q => F[p] \intersect F[q] = {}

heldVars == <<free, recvQ, sendQ, batch, rSlot, seqMsg, recSlot>>

\* Who owns which buffers, place by place.
LEMMA OwnersValues ==
    /\ Owners["pool"] = free
    /\ Owners["recvQ"] = RangeOf(recvQ)
    /\ Owners["sendQ"] = RangeOf(sendQ)
    /\ Owners["batch"] = RangeOf(batch)
    /\ Owners["receiver"] = {rSlot} \ {NoSlot}
    /\ Owners["sequencer"] = {seqMsg} \ {NoSlot}
    /\ Owners["recovery"] = {recSlot} \ {NoSlot}
    /\ Owners'["pool"] = free'
    /\ Owners'["recvQ"] = RangeOf(recvQ')
    /\ Owners'["sendQ"] = RangeOf(sendQ')
    /\ Owners'["batch"] = RangeOf(batch')
    /\ Owners'["receiver"] = {rSlot'} \ {NoSlot}
    /\ Owners'["sequencer"] = {seqMsg'} \ {NoSlot}
    /\ Owners'["recovery"] = {recSlot'} \ {NoSlot}
  BY DEF Owners, Held, Places, RangeOf

\* Owned, as disjointness of the places and of the cells of each queue.
LEMMA OwnedAsFunction ==
    /\ Owned <=> /\ Disjoint(Owners)
                    /\ Distinct(recvQ) /\ Distinct(sendQ) /\ Distinct(batch)
    /\ Owned' <=> /\ Disjoint(Owners')
                     /\ Distinct(recvQ') /\ Distinct(sendQ') /\ Distinct(batch')
  BY DEF Owned, Disjoint, Owners, Distinct

\* Moving one buffer from one place to another keeps the places disjoint.
LEMMA Move ==
    ASSUME NEW F, NEW G, Disjoint(F),
           NEW a \in Places, NEW b \in Places, a # b,
           NEW x, x \in F[a],
           G[a] \subseteq F[a] \ {x},
           G[b] \subseteq F[b] \union {x},
           \A p \in Places \ {a, b} : G[p] = F[p]
    PROVE  Disjoint(G)
<1> SUFFICES ASSUME NEW p \in Places, NEW q \in Places, p # q,
                    NEW y, y \in G[p], y \in G[q]
             PROVE  FALSE
  BY DEF Disjoint
<1>1. \A r \in Places : r # a => x \notin F[r]
  BY DEF Disjoint
<1>2. \A r \in Places : y \in G[r] => y \in F[r] \/ (r = b /\ y = x)
  OBVIOUS
<1>3. CASE y = x
  <2>1. \A r \in Places : x \in G[r] => r = b
    BY <1>1, <1>2
  <2>2. QED
    BY <1>3, <2>1
<1>4. CASE y # x
  BY <1>2, <1>4 DEF Disjoint
<1>5. QED
  BY <1>3, <1>4

-----------------------------------------------------------------------------
\* Steps that move no buffer.
LEMMA NoMove == Owned /\ UNCHANGED heldVars => Owned'
<1> SUFFICES ASSUME Owned, UNCHANGED heldVars PROVE Owned'
  OBVIOUS
<1>1. Owners' = Owners
  BY DEF heldVars, Owners, Held, RangeOf
<1>2. QED
  BY <1>1, OwnedAsFunction DEF heldVars

\* allocate(): from the pool to the receiver, or to the recovery.
LEMMA MoveFromPool ==
    ASSUME Owned, NEW s \in Slots, Allocate(s),
           \/ /\ rSlot = NoSlot /\ rSlot' = s
              /\ UNCHANGED <<recvQ, sendQ, batch, seqMsg, recSlot>>
           \/ /\ recSlot = NoSlot /\ recSlot' = s
              /\ UNCHANGED <<recvQ, sendQ, batch, seqMsg, rSlot>>
    PROVE  Owned'
<1>0. Disjoint(Owners)
  BY OwnedAsFunction
<1>1. s \in Owners["pool"] /\ Owners'["pool"] \subseteq Owners["pool"] \ {s}
  BY OwnersValues DEF Allocate
<1>2. CASE rSlot = NoSlot /\ rSlot' = s /\ UNCHANGED <<recvQ, sendQ, batch, seqMsg, recSlot>>
  <2>1. /\ Owners'["receiver"] \subseteq Owners["receiver"] \union {s}
        /\ \A p \in Places \ {"pool", "receiver"} : Owners'[p] = Owners[p]
    BY <1>2, OwnersValues DEF Places
  <2>2. "pool" \in Places /\ "receiver" \in Places /\ "pool" # "receiver"
    BY DEF Places
  <2>3. Disjoint(Owners')
    BY <1>0, <1>1, <2>1, <2>2, Move
  <2>4. QED
    BY <1>2, <2>3, OwnedAsFunction
<1>3. CASE recSlot = NoSlot /\ recSlot' = s /\ UNCHANGED <<recvQ, sendQ, batch, seqMsg, rSlot>>
  <2>1. /\ Owners'["recovery"] \subseteq Owners["recovery"] \union {s}
        /\ \A p \in Places \ {"pool", "recovery"} : Owners'[p] = Owners[p]
    BY <1>3, OwnersValues DEF Places
  <2>2. "pool" \in Places /\ "recovery" \in Places /\ "pool" # "recovery"
    BY DEF Places
  <2>3. Disjoint(Owners')
    BY <1>0, <1>1, <2>1, <2>2, Move
  <2>4. QED
    BY <1>3, <2>3, OwnedAsFunction
<1>4. QED
  BY <1>2, <1>3

\* deallocate(): from a thread's hands to the pool.
LEMMA MoveToPool ==
    ASSUME Owned,
           \/ /\ rSlot # NoSlot /\ Deallocate(rSlot) /\ rSlot' = NoSlot
              /\ UNCHANGED <<recvQ, sendQ, batch, seqMsg, recSlot>>
           \/ /\ seqMsg # NoSlot /\ Deallocate(seqMsg) /\ seqMsg' = NoSlot
              /\ UNCHANGED <<recvQ, sendQ, batch, rSlot, recSlot>>
           \/ /\ recSlot # NoSlot /\ Deallocate(recSlot) /\ recSlot' = NoSlot
              /\ UNCHANGED <<recvQ, sendQ, batch, rSlot, seqMsg>>
    PROVE  Owned'
<1>0. Disjoint(Owners)
  BY OwnedAsFunction
<1>1. CASE /\ rSlot # NoSlot /\ Deallocate(rSlot) /\ rSlot' = NoSlot
          /\ UNCHANGED <<recvQ, sendQ, batch, seqMsg, recSlot>>
  <2>1. /\ rSlot \in Owners["receiver"]
        /\ Owners'["receiver"] \subseteq Owners["receiver"] \ {rSlot}
        /\ Owners'["pool"] \subseteq Owners["pool"] \union {rSlot}
        /\ \A p \in Places \ {"receiver", "pool"} : Owners'[p] = Owners[p]
    BY <1>1, OwnersValues DEF Places, Deallocate
  <2>2. "receiver" \in Places /\ "pool" \in Places /\ "receiver" # "pool"
    BY DEF Places
  <2>3. Disjoint(Owners')
    BY <1>0, <2>1, <2>2, Move
  <2>4. QED
    BY <1>1, <2>3, OwnedAsFunction
<1>2. CASE /\ seqMsg # NoSlot /\ Deallocate(seqMsg) /\ seqMsg' = NoSlot
          /\ UNCHANGED <<recvQ, sendQ, batch, rSlot, recSlot>>
  <2>1. /\ seqMsg \in Owners["sequencer"]
        /\ Owners'["sequencer"] \subseteq Owners["sequencer"] \ {seqMsg}
        /\ Owners'["pool"] \subseteq Owners["pool"] \union {seqMsg}
        /\ \A p \in Places \ {"sequencer", "pool"} : Owners'[p] = Owners[p]
    BY <1>2, OwnersValues DEF Places, Deallocate
  <2>2. "sequencer" \in Places /\ "pool" \in Places /\ "sequencer" # "pool"
    BY DEF Places
  <2>3. Disjoint(Owners')
    BY <1>0, <2>1, <2>2, Move
  <2>4. QED
    BY <1>2, <2>3, OwnedAsFunction
<1>3. CASE /\ recSlot # NoSlot /\ Deallocate(recSlot) /\ recSlot' = NoSlot
          /\ UNCHANGED <<recvQ, sendQ, batch, rSlot, seqMsg>>
  <2>1. /\ recSlot \in Owners["recovery"]
        /\ Owners'["recovery"] \subseteq Owners["recovery"] \ {recSlot}
        /\ Owners'["pool"] \subseteq Owners["pool"] \union {recSlot}
        /\ \A p \in Places \ {"recovery", "pool"} : Owners'[p] = Owners[p]
    BY <1>3, OwnersValues DEF Places, Deallocate
  <2>2. "recovery" \in Places /\ "pool" \in Places /\ "recovery" # "pool"
    BY DEF Places
  <2>3. Disjoint(Owners')
    BY <1>0, <2>1, <2>2, Move
  <2>4. QED
    BY <1>3, <2>3, OwnedAsFunction
<1>4. QED
  BY <1>1, <1>2, <1>3

\* enqueue(): from a thread's hands to a queue, or nowhere when it is full.
LEMMA MoveToQueue ==
    ASSUME Owned, TypeOK,
           \/ /\ rSlot \in Slots /\ recvQ' = Enqueue(recvQ, rSlot) /\ rSlot' = NoSlot
              /\ UNCHANGED <<free, sendQ, batch, seqMsg, recSlot>>
           \/ /\ seqMsg \in Slots /\ sendQ' = Enqueue(sendQ, seqMsg) /\ seqMsg' = NoSlot
              /\ UNCHANGED <<free, recvQ, batch, rSlot, recSlot>>
           \/ /\ recSlot \in Slots /\ sendQ' = Enqueue(sendQ, recSlot) /\ recSlot' = NoSlot
              /\ UNCHANGED <<free, recvQ, batch, rSlot, seqMsg>>
    PROVE  Owned'
<1>0. /\ Disjoint(Owners)
      /\ Distinct(recvQ) /\ Distinct(sendQ) /\ Distinct(batch)
      /\ recvQ \in Seq(Slots) /\ sendQ \in Seq(Slots)
      /\ NoSlot \notin Slots
  BY OwnedAsFunction, SlotsAssumption DEF TypeOK
<1>1. CASE /\ rSlot \in Slots /\ recvQ' = Enqueue(recvQ, rSlot) /\ rSlot' = NoSlot
          /\ UNCHANGED <<free, sendQ, batch, seqMsg, recSlot>>
  <2>1. /\ rSlot \in Owners["receiver"]
        /\ Owners'["receiver"] \subseteq Owners["receiver"] \ {rSlot}
        /\ \A p \in Places \ {"receiver", "recvQ"} : Owners'[p] = Owners[p]
    BY <1>0, <1>1, OwnersValues DEF Places
  <2>2. "receiver" \in Places /\ "recvQ" \in Places /\ "receiver" # "recvQ"
    BY DEF Places
  <2>3. rSlot \notin RangeOf(recvQ)
    BY <1>0, <2>1, <2>2, OwnersValues DEF Disjoint
  <2>4. /\ RangeOf(recvQ') \subseteq RangeOf(recvQ) \union {rSlot}
        /\ Distinct(recvQ')
    BY <1>0, <1>1, <2>3, EnqueueProperties
  <2>5. Owners'["recvQ"] \subseteq Owners["recvQ"] \union {rSlot}
    BY <2>4, OwnersValues
  <2>6. Disjoint(Owners')
    BY <1>0, <2>1, <2>2, <2>5, Move
  <2>7. QED
    BY <1>0, <1>1, <2>4, <2>6, OwnedAsFunction
<1>2. CASE /\ seqMsg \in Slots /\ sendQ' = Enqueue(sendQ, seqMsg) /\ seqMsg' = NoSlot
          /\ UNCHANGED <<free, recvQ, batch, rSlot, recSlot>>
  <2>1. /\ seqMsg \in Owners["sequencer"]
        /\ Owners'["sequencer"] \subseteq Owners["sequencer"] \ {seqMsg}
        /\ \A p \in Places \ {"sequencer", "sendQ"} : Owners'[p] = Owners[p]
    BY <1>0, <1>2, OwnersValues DEF Places
  <2>2. "sequencer" \in Places /\ "sendQ" \in Places /\ "sequencer" # "sendQ"
    BY DEF Places
  <2>3. seqMsg \notin RangeOf(sendQ)
    BY <1>0, <2>1, <2>2, OwnersValues DEF Disjoint
  <2>4. /\ RangeOf(sendQ') \subseteq RangeOf(sendQ) \union {seqMsg}
        /\ Distinct(sendQ')
    BY <1>0, <1>2, <2>3, EnqueueProperties
  <2>5. Owners'["sendQ"] \subseteq Owners["sendQ"] \union {seqMsg}
    BY <2>4, OwnersValues
  <2>6. Disjoint(Owners')
    BY <1>0, <2>1, <2>2, <2>5, Move
  <2>7. QED
    BY <1>0, <1>2, <2>4, <2>6, OwnedAsFunction
<1>3. CASE /\ recSlot \in Slots /\ sendQ' = Enqueue(sendQ, recSlot) /\ recSlot' = NoSlot
          /\ UNCHANGED <<free, recvQ, batch, rSlot, seqMsg>>
  <2>1. /\ recSlot \in Owners["recovery"]
        /\ Owners'["recovery"] \subseteq Owners["recovery"] \ {recSlot}
        /\ \A p \in Places \ {"recovery", "sendQ"} : Owners'[p] = Owners[p]
    BY <1>0, <1>3, OwnersValues DEF Places
  <2>2. "recovery" \in Places /\ "sendQ" \in Places /\ "recovery" # "sendQ"
    BY DEF Places
  <2>3. recSlot \notin RangeOf(sendQ)
    BY <1>0, <2>1, <2>2, OwnersValues DEF Disjoint
  <2>4. /\ RangeOf(sendQ') \subseteq RangeOf(sendQ) \union {recSlot}
        /\ Distinct(sendQ')
    BY <1>0, <1>3, <2>3, EnqueueProperties
  <2>5. Owners'["sendQ"] \subseteq Owners["sendQ"] \union {recSlot}
    BY <2>4, OwnersValues
  <2>6. Disjoint(Owners')
    BY <1>0, <2>1, <2>2, <2>5, Move
  <2>7. QED
    BY <1>0, <1>3, <2>4, <2>6, OwnedAsFunction
<1>4. QED
  BY <1>1, <1>2, <1>3

\* dequeue() of the sequencer: from the first queue to its hands.
LEMMA MoveToSequencer ==
    ASSUME Owned, TypeOK, recvQ # <<>>, seqMsg = NoSlot,
           recvQ' = Tail(recvQ), seqMsg' = Head(recvQ),
           UNCHANGED <<free, sendQ, batch, rSlot, recSlot>>
    PROVE  Owned'
<1>0. /\ Disjoint(Owners) /\ Distinct(recvQ) /\ recvQ \in Seq(Slots)
  BY OwnedAsFunction DEF TypeOK
<1>1. /\ Head(recvQ) \in RangeOf(recvQ)
      /\ RangeOf(recvQ') \subseteq RangeOf(recvQ) \ {Head(recvQ)}
      /\ Distinct(recvQ')
  BY <1>0, DequeueProperties
<1>2. /\ Head(recvQ) \in Owners["recvQ"]
      /\ Owners'["recvQ"] \subseteq Owners["recvQ"] \ {Head(recvQ)}
      /\ Owners'["sequencer"] \subseteq Owners["sequencer"] \union {Head(recvQ)}
      /\ \A p \in Places \ {"recvQ", "sequencer"} : Owners'[p] = Owners[p]
  BY <1>1, OwnersValues DEF Places
<1>3. "recvQ" \in Places /\ "sequencer" \in Places /\ "recvQ" # "sequencer"
  BY DEF Places
<1>4. Disjoint(Owners')
  BY <1>0, <1>2, <1>3, Move
<1>5. QED
  BY <1>1, <1>4, OwnedAsFunction

\* dequeue() of the database thread: from the second queue to the batch.
LEMMA MoveToBatch ==
    ASSUME Owned, TypeOK, sendQ # <<>>,
           sendQ' = Tail(sendQ), batch' = Append(batch, Head(sendQ)),
           UNCHANGED <<free, recvQ, rSlot, seqMsg, recSlot>>
    PROVE  Owned'
<1>0. /\ Disjoint(Owners) /\ Distinct(sendQ) /\ Distinct(batch)
      /\ sendQ \in Seq(Slots) /\ batch \in Seq(Slots)
  BY OwnedAsFunction DEF TypeOK
<1>1. /\ Head(sendQ) \in Slots
      /\ Head(sendQ) \in RangeOf(sendQ)
      /\ RangeOf(sendQ') \subseteq RangeOf(sendQ) \ {Head(sendQ)}
      /\ Distinct(sendQ')
  BY <1>0, DequeueProperties
<1>2. "sendQ" \in Places /\ "batch" \in Places /\ "sendQ" # "batch"
  BY DEF Places
<1>3. Head(sendQ) \notin RangeOf(batch)
  BY <1>0, <1>1, <1>2, OwnersValues DEF Disjoint
<1>4. /\ RangeOf(batch') \subseteq RangeOf(batch) \union {Head(sendQ)}
      /\ Distinct(batch')
  BY <1>0, <1>1, <1>3, AppendRange
<1>5. /\ Head(sendQ) \in Owners["sendQ"]
      /\ Owners'["sendQ"] \subseteq Owners["sendQ"] \ {Head(sendQ)}
      /\ Owners'["batch"] \subseteq Owners["batch"] \union {Head(sendQ)}
      /\ \A p \in Places \ {"sendQ", "batch"} : Owners'[p] = Owners[p]
  BY <1>1, <1>4, OwnersValues DEF Places
<1>6. Disjoint(Owners')
  BY <1>0, <1>2, <1>5, Move
<1>7. QED
  BY <1>1, <1>4, <1>6, OwnedAsFunction

\* deallocate() of the database thread: from the batch to the pool.
LEMMA MoveFromBatch ==
    ASSUME Owned, TypeOK, batch # <<>>,
           Deallocate(Head(batch)), batch' = Tail(batch),
           UNCHANGED <<recvQ, sendQ, rSlot, seqMsg, recSlot>>
    PROVE  Owned'
<1>0. /\ Disjoint(Owners) /\ Distinct(batch) /\ batch \in Seq(Slots)
  BY OwnedAsFunction DEF TypeOK
<1>1. /\ Head(batch) \in RangeOf(batch)
      /\ RangeOf(batch') \subseteq RangeOf(batch) \ {Head(batch)}
      /\ Distinct(batch')
  BY <1>0, DequeueProperties
<1>2. /\ Head(batch) \in Owners["batch"]
      /\ Owners'["batch"] \subseteq Owners["batch"] \ {Head(batch)}
      /\ Owners'["pool"] \subseteq Owners["pool"] \union {Head(batch)}
      /\ \A p \in Places \ {"batch", "pool"} : Owners'[p] = Owners[p]
  BY <1>1, OwnersValues DEF Places, Deallocate
<1>3. "batch" \in Places /\ "pool" \in Places /\ "batch" # "pool"
  BY DEF Places
<1>4. Disjoint(Owners')
  BY <1>0, <1>2, <1>3, Move
<1>5. QED
  BY <1>1, <1>4, OwnedAsFunction

-----------------------------------------------------------------------------
\* The server and the main thread hold no buffers.
LEMMA OwnershipServerMain ==
    Owned /\ (ServerNext \/ MainNext \/ LoggerDies \/ Finished \/ UNCHANGED vars) => Owned'
<1> SUFFICES ASSUME ServerNext \/ MainNext \/ LoggerDies \/ Finished \/ UNCHANGED vars
             PROVE  UNCHANGED heldVars
  BY NoMove
<1> USE DEF heldVars, poolVars, recvVars, seqVars, dbVars
<1>1. CASE ServerNext
  BY <1>1 DEF ServerNext, CreateSnapshotServer, Accept, ReadRequest, SendGapMsg,
              MulticastSend, ServerDies
<1>2. CASE MainNext
  BY <1>2 DEF MainNext, StopSequencer, StopReceiver, StopDB, SUnchanged,
              RUnchanged, DUnchanged
<1>3. CASE LoggerDies \/ Finished \/ UNCHANGED vars
  BY <1>3 DEF LoggerDies, Terminate, Finished, vars
<1>4. QED
  BY <1>1, <1>2, <1>3

\* The receiver moves buffers from the pool to its hand to recvQueue_.
LEMMA OwnershipReceiver == TypeInv /\ Owned /\ ReceiverNext => Owned'
<1> SUFFICES ASSUME TypeInv, Owned, ReceiverNext PROVE Owned'
  OBVIOUS
<1>0. /\ TypeOK
      /\ rpc = "recv" => rSlot \in Slots /\ rSlot # NoSlot
      /\ rpc = "alloc" => rSlot = NoSlot
  BY SlotsAssumption DEF TypeInv, TypeOK, HandsMatch
<1> USE DEF poolVars, recvVars, seqVars, dbVars, RUnchanged
<1>1. CASE ReceiverLoop
  BY <1>1, NoMove DEF ReceiverLoop, heldVars
<1>2. CASE ReceiverAllocate
  <2>1. CASE PoolExhausted /\ UNCHANGED <<free, rSlot, rpc>>
    BY <1>2, <2>1, NoMove DEF ReceiverAllocate, heldVars
  <2>2. ASSUME NEW s \in Slots, Allocate(s), rSlot' = s
        PROVE  Owned'
    <3>1. UNCHANGED <<recvQ, sendQ, batch, seqMsg, recSlot>> /\ rSlot = NoSlot
      BY <1>0, <1>2 DEF ReceiverAllocate
    <3>2. QED
      BY <2>2, <3>1, MoveFromPool
  <2>3. QED
    BY <1>2, <2>1, <2>2 DEF ReceiverAllocate
<1>3. CASE ReceiveDatagram \/ ReceiveShutdown
  <2>1. /\ rSlot \in Slots /\ recvQ' = Enqueue(recvQ, rSlot) /\ rSlot' = NoSlot
        /\ UNCHANGED <<free, sendQ, batch, seqMsg, recSlot>>
    BY <1>0, <1>3 DEF ReceiveDatagram, ReceiveShutdown, ReceiverEnqueue
  <2>2. QED
    BY <1>0, <2>1, MoveToQueue
<1>4. CASE ReceiveError
  <2>1. /\ rSlot # NoSlot /\ Deallocate(rSlot) /\ rSlot' = NoSlot
        /\ UNCHANGED <<recvQ, sendQ, batch, seqMsg, recSlot>>
    BY <1>0, <1>4 DEF ReceiveError
  <2>2. QED
    BY <2>1, MoveToPool
<1>5. QED
  BY <1>1, <1>2, <1>3, <1>4 DEF ReceiverNext

\* The sequencer and its recovery move them on to sendQueue_ or back.
LEMMA OwnershipSequencer == TypeInv /\ Owned /\ SequencerNext => Owned'
<1> SUFFICES ASSUME TypeInv, Owned, SequencerNext PROVE Owned'
  OBVIOUS
<1>0. /\ TypeOK
      /\ spc \in {"drop", "forward"} => seqMsg \in Slots /\ seqMsg # NoSlot
      /\ spc \in {"recv", "deliver"} => recSlot \in Slots /\ recSlot # NoSlot
      /\ spc = "dequeue" => seqMsg = NoSlot
      /\ spc = "wait" => recSlot = NoSlot
  BY SlotsAssumption DEF TypeInv, TypeOK, HandsMatch
<1> USE DEF poolVars, recvVars, seqVars, dbVars, SUnchanged
<1>1. CASE \/ Connect \/ SequencerLoop \/ SendRecoveryRequest \/ RecoveryComplete
           \/ RecoveryTimeout \/ RecoveryInterrupted \/ RecoveryRecvWhole
  <2>1. UNCHANGED heldVars
    BY <1>1 DEF Connect, SequencerLoop, SendRecoveryRequest, RecoveryComplete,
                RecoveryTimeout, RecoveryInterrupted, RecoveryRecvWhole,
                heldVars, vars
  <2>2. QED
    BY <2>1, NoMove
<1>2. CASE SequencerDequeue
  <2>1. CASE UNCHANGED <<recvQ, seqMsg>>
    BY <1>2, <2>1, NoMove DEF SequencerDequeue, heldVars
  <2>2. CASE recvQ # <<>> /\ recvQ' = Tail(recvQ) /\ seqMsg' = Head(recvQ)
    <3>1. UNCHANGED <<free, sendQ, batch, rSlot, recSlot>> /\ seqMsg = NoSlot
      BY <1>0, <1>2 DEF SequencerDequeue
    <3>2. QED
      BY <1>0, <2>2, <3>1, MoveToSequencer
  <2>3. QED
    BY <1>2, <2>1, <2>2 DEF SequencerDequeue
<1>3. CASE DropOld
  <2>1. /\ seqMsg # NoSlot /\ Deallocate(seqMsg) /\ seqMsg' = NoSlot
        /\ UNCHANGED <<recvQ, sendQ, batch, rSlot, recSlot>>
    BY <1>0, <1>3 DEF DropOld
  <2>2. QED
    BY <2>1, MoveToPool
<1>4. CASE Forward
  <2>1. /\ seqMsg \in Slots /\ sendQ' = Enqueue(sendQ, seqMsg) /\ seqMsg' = NoSlot
        /\ UNCHANGED <<free, recvQ, batch, rSlot, recSlot>>
    BY <1>0, <1>4 DEF Forward, HandOver
  <2>2. QED
    BY <1>0, <2>1, MoveToQueue
<1>5. CASE RecoveryAllocate
  <2>1. UNCHANGED <<recvQ, sendQ, batch, seqMsg, rSlot>> /\ recSlot = NoSlot
    BY <1>0, <1>5 DEF RecoveryAllocate
  <2>2. CASE PoolExhausted /\ UNCHANGED <<free, recSlot, spc>>
    BY <2>1, <2>2, NoMove DEF heldVars
  <2>3. ASSUME NEW s \in Slots, Allocate(s), recSlot' = s
        PROVE  Owned'
    BY <2>1, <2>3, MoveFromPool
  <2>4. QED
    BY <1>5, <2>2, <2>3 DEF RecoveryAllocate
<1>6. CASE RecoveryRecvPart \/ RecoveryRecvClosed
  <2>1. /\ recSlot # NoSlot /\ Deallocate(recSlot) /\ recSlot' = NoSlot
        /\ UNCHANGED <<recvQ, sendQ, batch, rSlot, seqMsg>>
    BY <1>0, <1>6 DEF RecoveryRecvPart, RecoveryRecvClosed
  <2>2. QED
    BY <2>1, MoveToPool
<1>7. CASE OnRecoveredMsg
  <2>1. UNCHANGED <<free, recvQ, batch, rSlot, seqMsg>> /\ recSlot \in Slots
    BY <1>0, <1>7 DEF OnRecoveredMsg
  <2>2. CASE HandOver(recSlot) /\ recSlot' = NoSlot
    <3>1. sendQ' = Enqueue(sendQ, recSlot)
      BY <2>2 DEF HandOver
    <3>2. QED
      BY <1>0, <2>1, <2>2, <3>1, MoveToQueue
  <2>3. CASE UNCHANGED <<sendQ, recSlot>>
    BY <2>1, <2>3, NoMove DEF heldVars
  <2>4. QED
    BY <1>7, <2>2, <2>3 DEF OnRecoveredMsg
<1>8. QED
  BY <1>1, <1>2, <1>3, <1>4, <1>5, <1>6, <1>7 DEF SequencerNext, RecoveryNext

\* DBManager moves them into its batch and back to the pool.
LEMMA OwnershipDB == TypeInv /\ Owned /\ DBNext => Owned'
<1> SUFFICES ASSUME TypeInv, Owned, DBNext PROVE Owned'
  OBVIOUS
<1>0. TypeOK
  BY DEF TypeInv
<1> USE DEF poolVars, recvVars, seqVars, dbVars, DUnchanged
<1>1. CASE DBDequeue
  <2>1. UNCHANGED <<free, recvQ, rSlot, seqMsg, recSlot>>
    BY <1>1 DEF DBDequeue
  <2>2. CASE UNCHANGED <<sendQ, batch>>
    BY <2>1, <2>2, NoMove DEF heldVars
  <2>3. CASE /\ sendQ # <<>> /\ sendQ' = Tail(sendQ)
             /\ batch' = Append(batch, Head(sendQ))
    BY <1>0, <2>1, <2>3, MoveToBatch
  <2>4. QED
    BY <1>1, <2>2, <2>3 DEF DBDequeue
<1>2. CASE DBLeaveLoop \/ CommitSingle \/ CommitBatch \/ CommitCopy
  <2>1. UNCHANGED heldVars
    BY <1>2 DEF DBLeaveLoop, CommitSingle, CommitBatch, CommitCopy, Commit,
                heldVars
  <2>2. QED
    BY <2>1, NoMove
<1>3. CASE DBRelease
  <2>1. /\ batch # <<>> /\ Deallocate(Head(batch)) /\ batch' = Tail(batch)
        /\ UNCHANGED <<recvQ, sendQ, rSlot, seqMsg, recSlot>>
    BY <1>3 DEF DBRelease
  <2>2. QED
    BY <1>0, <2>1, MoveFromBatch
<1>4. QED
  BY <1>1, <1>2, <1>3 DEF DBNext, runSingle, runBatch, runCopy

\* All buffers start in the pool.
LEMMA OwnershipInit == Init => Owned
<1> SUFFICES ASSUME Init PROVE Owned
  OBVIOUS
<1>1. /\ recvQ = <<>> /\ sendQ = <<>> /\ batch = <<>>
      /\ rSlot = NoSlot /\ seqMsg = NoSlot /\ recSlot = NoSlot
  BY DEF Init
<1>2. Distinct(<<>>) /\ RangeOf(<<>>) = {}
  BY DEF Distinct, RangeOf
<1>3. \A p \in Places : p # "pool" => Owners[p] = {}
  BY <1>1, <1>2, OwnersValues DEF Places
<1>4. Disjoint(Owners)
  BY <1>3 DEF Disjoint
<1>5. QED
  BY <1>1, <1>2, <1>4, OwnedAsFunction

\* Every steady step keeps the owners apart.
LEMMA OwnershipStep == TypeInv /\ Owned /\ [Steady]_vars => Owned'
  BY OwnershipServerMain, OwnershipReceiver, OwnershipSequencer, OwnershipDB DEF Steady

-----------------------------------------------------------------------------
(***************************************************************************)
(* Overtaken dequeues.  The invariants below hold until one is overtaken,   *)
(* and what they need from the steps is what the steady ones do.            *)
(***************************************************************************)

\* A steady step neither makes nor unmakes an overtaken dequeue().
LEMMA SteadyKeeps == TypeInv /\ [Steady]_vars => (Overtaken' <=> Overtaken)
<1> SUFFICES ASSUME TypeInv, [Steady]_vars PROVE Overtaken' <=> Overtaken
  OBVIOUS
<1> USE DEF Overtaken, seqVars, dbVars
<1>1. CASE ServerNext \/ MainNext \/ LoggerDies \/ Finished \/ UNCHANGED vars
  <2>1. UNCHANGED <<spc, cpc>>
    BY <1>1 DEF ServerNext, CreateSnapshotServer, Accept, ReadRequest, SendGapMsg,
       MulticastSend, ServerDies, MainNext, StopSequencer, StopReceiver, StopDB,
       SUnchanged, RUnchanged, DUnchanged, LoggerDies, Finished, vars
  <2>2. QED
    BY <2>1
<1>2. CASE ReceiverNext
  BY <1>2 DEF ReceiverNext, ReceiverLoop, ReceiverAllocate, ReceiveDatagram,
     ReceiveShutdown, ReceiveError, RUnchanged
<1>3. CASE DBNext
  BY <1>3 DEF DBNext, runSingle, runBatch, runCopy, DBDequeue, DBLeaveLoop,
     CommitSingle, CommitBatch, CommitCopy, Commit, DBRelease, DUnchanged
<1>4. CASE SequencerDequeue
  <2>1. CASE recvQ = <<>>
    BY <1>4, <2>1 DEF SequencerDequeue, SUnchanged
  <2>2. CASE recvQ # <<>>
    <3>1. Head(recvQ) \in Slots /\ nextSequence \in Int /\ content \in [Slots -> Contents]
      BY <2>2, DequeueProperties DEF TypeInv, TypeOK
    <3>2. \A m \in Contents : m.seq \in Int
      BY NumTradesAssumption DEF Contents, Trades, Garbage
    <3>3. content[Head(recvQ)].seq \in Int
      BY <3>1, <3>2
    <3>4. QED
      BY <1>4, <2>2, <3>1, <3>3 DEF SequencerDequeue, SUnchanged
  <2>3. QED
    BY <2>1, <2>2
<1>5. CASE SequencerNext /\ ~SequencerDequeue
  BY <1>5 DEF SequencerNext, RecoveryNext, Connect, SequencerLoop, DropOld, Forward,
     SendRecoveryRequest, RecoveryComplete, RecoveryAllocate, RecoveryTimeout,
     RecoveryInterrupted, RecoveryRecvWhole, RecoveryRecvPart, RecoveryRecvClosed,
     OnRecoveredMsg, SUnchanged, vars
<1>6. QED
  BY <1>1, <1>2, <1>3, <1>4, <1>5 DEF Steady

\* A dequeue() stays overtaken; where none is, the step was a steady one.
LEMMA CalmStep ==
    ASSUME TypeInv, [Next]_vars, ~Overtaken'
    PROVE  ~Overtaken /\ [Steady]_vars
<1>1. ~ReceiverOvertakes /\ ~SequencerOvertakes
  BY DEF ReceiverOvertakes, SequencerOvertakes, Overtaken
<1>2. [Steady]_vars
  BY <1>1 DEF Next, Steady
<1>3. QED
  BY <1>2, SteadyKeeps

\* A queue as large as the pool has room for a buffer that is not in it, so the
\* enqueue() whose result nobody looks at is not refused.
LEMMA QueueRoom ==
    ASSUME NEW q \in Seq(Slots), Distinct(q), NEW s \in Slots,
           s \notin RangeOf(q), PoolFits
    PROVE  Len(q) < QueueCapacity /\ Enqueue(q, s) = Append(q, s)
<1>1. /\ Len(q) \in Nat /\ q \in [1 .. Len(q) -> Slots]
      /\ QueueCapacity \in Nat /\ IsFiniteSet(Slots)
  BY LenProperties, QueueAssumption, SlotsAssumption
<1>2. q \in Injection(1 .. Len(q), Slots \ {s})
  <2>1. \A k \in 1 .. Len(q) : q[k] \in Slots \ {s}
    BY <1>1 DEF RangeOf
  <2>2. \A j, k \in 1 .. Len(q) : q[j] = q[k] => j = k
    BY DEF Distinct
  <2>3. q \in [1 .. Len(q) -> Slots \ {s}]
    BY <1>1, <2>1
  <2>4. QED
    BY <2>2, <2>3 DEF Injection, IsInjective
<1>3. /\ IsFiniteSet(Slots \ {s})
      /\ Cardinality(Slots \ {s}) = Cardinality(Slots) - 1
      /\ Cardinality(Slots) \in Nat
  BY <1>1, FS_RemoveElement, FS_CardinalityType
<1>4. Cardinality(1 .. Len(q)) <= Cardinality(Slots \ {s})
  BY <1>2, <1>3, FS_Injection
<1>5. Cardinality(1 .. Len(q)) = Len(q)
  <2>1. 1 \in Int /\ Len(q) \in Int
    BY <1>1
  <2>2. Cardinality(1 .. Len(q)) = IF 1 > Len(q) THEN 0 ELSE Len(q) - 1 + 1
    BY <2>1, FS_Interval
  <2>3. QED
    BY <1>1, <2>2
<1>6. Len(q) < QueueCapacity
  BY <1>1, <1>3, <1>4, <1>5 DEF PoolFits
<1>7. QED
  BY <1>6 DEF Enqueue

\* At every moment until a dequeue() is overtaken each buffer of the pool has at
\* most one owner among the pool, the two queues, the batch and the hands of the
\* three threads: no pointer is freed twice, queued twice or kept after it was
\* given away, whatever faults happen.  With a pool no larger than a queue, the
\* queue that a producer with a buffer in hand finds is never full, so that no
\* dequeue() is ever overtaken and this holds throughout.
THEOREM OneOwnerCorrect == Spec => []OneOwner
<1>1. Init => OneOwner
  BY OwnershipInit DEF Init, OneOwner, Overtaken
<1>2. ASSUME TypeInv, OneOwner, [Next]_vars
      PROVE  OneOwner'
  <2>1. ASSUME ~Overtaken' PROVE Owned'
    BY <1>2, <2>1, CalmStep, OwnershipStep DEF OneOwner
  <2>2. ASSUME PoolFits PROVE ~Overtaken'
    <3>1. ~Overtaken /\ Owned
      BY <1>2, <2>2 DEF OneOwner
    <3>2. /\ recvQ \in Seq(Slots) /\ sendQ \in Seq(Slots)
          /\ Distinct(recvQ) /\ Distinct(sendQ) /\ Disjoint(Owners)
          /\ NoSlot \notin Slots
          /\ rpc = "recv" => rSlot \in Slots
      BY <1>2, <3>1, OwnedAsFunction, SlotsAssumption DEF TypeInv, TypeOK, HandsMatch
    <3>3. ~ReceiverOvertakes
      <4> SUFFICES ASSUME ReceiverOvertakes PROVE FALSE
        OBVIOUS
      <4>1. rSlot \in Slots /\ Len(recvQ) = QueueCapacity
        BY <3>2 DEF ReceiverOvertakes
      <4>2. rSlot \notin RangeOf(recvQ)
        BY <3>2, <4>1, OwnersValues DEF Disjoint, Places
      <4>3. QED
        BY <2>2, <3>2, <4>1, <4>2, QueueRoom, QueueAssumption
    <3>4. ~SequencerOvertakes
      <4> SUFFICES ASSUME SequencerOvertakes PROVE FALSE
        OBVIOUS
      <4>1. PICK s \in Slots : s = seqMsg \/ s = recSlot
        BY DEF SequencerOvertakes
      <4>2. s \notin RangeOf(sendQ)
        BY <3>2, <4>1, OwnersValues DEF Disjoint, Places
      <4>3. Len(sendQ) = QueueCapacity
        BY DEF SequencerOvertakes
      <4>4. QED
        BY <2>2, <3>2, <4>2, <4>3, QueueRoom, QueueAssumption
    <3>5. [Steady]_vars
      BY <1>2, <3>3, <3>4 DEF Next, Steady
    <3>6. QED
      BY <1>2, <3>1, <3>5, SteadyKeeps
  <2>3. QED
    BY <2>1, <2>2 DEF OneOwner
<1>3. QED
  BY TypeInvariant, <1>1, <1>2, PTL DEF Spec

-----------------------------------------------------------------------------
\* The buffer a step writes into is in the hands of the writing thread.
LEMMA OnlyHandsWritten ==
    ASSUME TypeInv, [Steady]_vars
    PROVE  \/ content' = content
           \/ /\ rSlot \in Slots
              /\ \A s \in Slots : s # rSlot => content'[s] = content[s]
           \/ /\ recSlot \in Slots
              /\ \A s \in Slots : s # recSlot => content'[s] = content[s]
<1>0. /\ content \in [Slots -> Contents]
      /\ rpc = "recv" => rSlot \in Slots
      /\ spc \in {"recv", "deliver"} => recSlot \in Slots
  BY DEF TypeInv, TypeOK, HandsMatch
<1> USE DEF poolVars
<1>1. CASE ServerNext \/ MainNext \/ LoggerDies \/ Finished \/ UNCHANGED vars
  BY <1>1 DEF ServerNext, CreateSnapshotServer, Accept, ReadRequest, SendGapMsg,
              MulticastSend, ServerDies, MainNext, StopSequencer, StopReceiver,
              StopDB, LoggerDies, Terminate, Finished, vars
<1>2. CASE ReceiverNext
  BY <1>0, <1>2 DEF ReceiverNext, ReceiverLoop, ReceiverAllocate,
              ReceiveDatagram, ReceiveShutdown, ReceiveError
<1>3. CASE SequencerNext
  BY <1>0, <1>3 DEF SequencerNext, RecoveryNext, Connect, SequencerLoop,
              SequencerDequeue, DropOld, Forward, SendRecoveryRequest,
              RecoveryComplete, RecoveryAllocate, RecoveryTimeout,
              RecoveryInterrupted, RecoveryRecvWhole, RecoveryRecvPart,
              RecoveryRecvClosed, OnRecoveredMsg, vars
<1>4. CASE DBNext
  BY <1>4 DEF DBNext, runSingle, runBatch, runCopy, DBDequeue, DBLeaveLoop,
              CommitSingle, CommitBatch, CommitCopy, Commit, DBRelease
<1>5. QED
  BY <1>1, <1>2, <1>3, <1>4 DEF Steady

\* What a step keeps, as an action.
Untouched ==
    \A p \in {"recvQ", "sendQ", "batch", "sequencer"} :
        \A s \in Held(p) : content'[s] = content[s]

\* A step that writes into a buffer in the hands of a socket reader only is one.
LEMMA UntouchedByHands ==
    ASSUME TypeInv, Owned,
           \/ content' = content
           \/ /\ rSlot \in Slots
              /\ \A s \in Slots : s # rSlot => content'[s] = content[s]
           \/ /\ recSlot \in Slots
              /\ \A s \in Slots : s # recSlot => content'[s] = content[s]
    PROVE  Untouched
<1> SUFFICES ASSUME NEW p \in {"recvQ", "sendQ", "batch", "sequencer"},
                    NEW s \in Held(p)
             PROVE  content'[s] = content[s]
  BY DEF Untouched
<1>1. /\ recvQ \in Seq(Slots) /\ sendQ \in Seq(Slots) /\ batch \in Seq(Slots)
      /\ seqMsg \in Slots \union {NoSlot}
  BY DEF TypeInv, TypeOK
<1>2. Disjoint(Owners) /\ s \in Owners[p] /\ p \in Places
  BY OwnedAsFunction DEF Owners, Places
<1>3. s \in Slots
  <2>1. \A q \in Seq(Slots) : RangeOf(q) \subseteq Slots
    BY ElementOfSeq DEF RangeOf
  <2>2. /\ RangeOf(recvQ) \subseteq Slots /\ RangeOf(sendQ) \subseteq Slots
        /\ RangeOf(batch) \subseteq Slots
    BY <1>1, <2>1
  <2>3. /\ p = "recvQ" => s \in RangeOf(recvQ)
        /\ p = "sendQ" => s \in RangeOf(sendQ)
        /\ p = "batch" => s \in RangeOf(batch)
        /\ p = "sequencer" => s = seqMsg /\ s # NoSlot
    BY <1>2, OwnersValues
  <2>4. QED
    BY <1>1, <2>2, <2>3
<1>4. rSlot \in Slots => s # rSlot
  BY <1>2, OwnersValues, SlotsAssumption DEF Disjoint, Places
<1>5. recSlot \in Slots => s # recSlot
  BY <1>2, OwnersValues, SlotsAssumption DEF Disjoint, Places
<1>6. QED
  BY <1>3, <1>4, <1>5

\* Every steady step is such a step.
LEMMA UntouchedStep == TypeInv /\ Owned /\ [Steady]_vars => Untouched
  BY OnlyHandsWritten, UntouchedByHands

\* The receiver that overtakes a dequeue() has read its datagram into its buffer.
LEMMA ReceiverWritesOwn ==
    ASSUME TypeInv, ReceiverOvertakes
    PROVE  \/ content' = content
           \/ /\ rSlot \in Slots
              /\ \A s \in Slots : s # rSlot => content'[s] = content[s]
<1>1. content \in [Slots -> Contents] /\ rSlot \in Slots
  BY DEF ReceiverOvertakes, TypeInv, TypeOK, HandsMatch
<1>2. QED
  BY <1>1 DEF ReceiverOvertakes

\* No step writes into a buffer that is queued, held by the sequencer or waiting
\* to be stored: the two socket readers only write into buffers of their own.
\* (Until a dequeue() is overtaken, the step that overtakes it included, and so
\* throughout with a pool no larger than a queue.)
THEOREM InFlightUntouchedCorrect == Spec => InFlightUntouched
<1>1. ASSUME TypeInv, OneOwner, [Next]_vars, ~Overtaken
      PROVE  Untouched
  <2>1. Owned
    BY <1>1 DEF OneOwner
  <2>2. CASE [Steady]_vars
    BY <1>1, <2>1, <2>2, UntouchedStep
  <2>3. CASE ReceiverOvertakes
    BY <1>1, <2>1, <2>3, UntouchedByHands, ReceiverWritesOwn
  <2>4. CASE SequencerOvertakes
    BY <2>4 DEF SequencerOvertakes, poolVars, Untouched
  <2>5. QED
    BY <1>1, <2>2, <2>3, <2>4 DEF Next, Steady
<1>2. TypeInv /\ OneOwner /\ [Next]_vars => [~Overtaken => Untouched]_vars
  BY <1>1
<1>3. Spec => [][~Overtaken => Untouched]_vars
  BY TypeInvariant, OneOwnerCorrect, <1>2, PTL DEF Spec
<1>4. QED
  BY <1>3 DEF InFlightUntouched, Untouched

-----------------------------------------------------------------------------
(***************************************************************************)
(* No buffer is lost, when the pool is no larger than a queue.              *)
(***************************************************************************)
Covered(F) == \A s \in Slots : \E p \in Places : s \in F[p]

\* The converse of the inclusions of the queue lemmas: nothing else goes.
LEMMA QueueKeeps ==
    ASSUME NEW S, NEW q \in Seq(S), NEW s \in S
    PROVE  /\ RangeOf(q) \union {s} \subseteq RangeOf(Append(q, s))
           /\ q # <<>> => RangeOf(q) \subseteq RangeOf(Tail(q)) \union {Head(q)}
<1>1. Len(q) \in Nat
  BY LenProperties
<1>2. RangeOf(q) \union {s} \subseteq RangeOf(Append(q, s))
  <2>1. /\ Len(Append(q, s)) = Len(q) + 1
        /\ \A k \in 1 .. Len(q) : Append(q, s)[k] = q[k]
        /\ Append(q, s)[Len(q) + 1] = s
    BY AppendProperties
  <2>2. /\ Len(q) + 1 \in 1 .. Len(q) + 1
        /\ \A k \in 1 .. Len(q) : k \in 1 .. Len(q) + 1
    BY <1>1
  <2>3. s \in RangeOf(Append(q, s))
    BY <2>1, <2>2 DEF RangeOf
  <2>4. \A k \in 1 .. Len(q) : q[k] \in RangeOf(Append(q, s))
    BY <2>1, <2>2 DEF RangeOf
  <2>5. QED
    BY <2>3, <2>4 DEF RangeOf
<1>3. ASSUME q # <<>>
      PROVE  RangeOf(q) \subseteq RangeOf(Tail(q)) \union {Head(q)}
  <2>1. /\ Len(Tail(q)) = Len(q) - 1
        /\ \A k \in 1 .. Len(Tail(q)) : Tail(q)[k] = q[k + 1]
        /\ Head(q) = q[1]
    BY <1>3, HeadTailProperties
  <2>2. ASSUME NEW k \in 1 .. Len(q), k # 1
        PROVE  q[k] \in RangeOf(Tail(q))
    <3>1. k - 1 \in 1 .. Len(Tail(q)) /\ (k - 1) + 1 = k
      BY <1>1, <2>1, <2>2
    <3>2. Tail(q)[k - 1] = q[k]
      BY <2>1, <3>1
    <3>3. QED
      BY <3>1, <3>2 DEF RangeOf
  <2>3. QED
    BY <2>1, <2>2 DEF RangeOf
<1>4. QED
  BY <1>2, <1>3

\* A buffer that leaves one place turns up in another.
LEMMA MoveCovers ==
    ASSUME NEW F, NEW G, Covered(F),
           NEW a \in Places, NEW b \in Places, NEW x,
           F[a] \subseteq G[a] \union {x},
           F[b] \subseteq G[b], x \in G[b],
           \A p \in Places \ {a, b} : F[p] \subseteq G[p]
    PROVE  Covered(G)
  BY DEF Covered

\* A thread puts the buffer in its hands into a queue, or back into the pool.
LEMMA CoverHands ==
    ASSUME TypeOK, Owned, PoolFits, Covered(Owners),
           \/ /\ rSlot \in Slots /\ rSlot' = NoSlot
              /\ UNCHANGED <<sendQ, batch, seqMsg, recSlot>>
              /\ \/ recvQ' = Enqueue(recvQ, rSlot) /\ UNCHANGED free
                 \/ Deallocate(rSlot) /\ UNCHANGED recvQ
           \/ /\ seqMsg \in Slots /\ seqMsg' = NoSlot
              /\ UNCHANGED <<recvQ, batch, rSlot, recSlot>>
              /\ \/ sendQ' = Enqueue(sendQ, seqMsg) /\ UNCHANGED free
                 \/ Deallocate(seqMsg) /\ UNCHANGED sendQ
           \/ /\ recSlot \in Slots /\ recSlot' = NoSlot
              /\ UNCHANGED <<recvQ, batch, rSlot, seqMsg>>
              /\ \/ sendQ' = Enqueue(sendQ, recSlot) /\ UNCHANGED free
                 \/ Deallocate(recSlot) /\ UNCHANGED sendQ
    PROVE  Covered(Owners')
<1>1. /\ recvQ \in Seq(Slots) /\ sendQ \in Seq(Slots)
      /\ Distinct(recvQ) /\ Distinct(sendQ) /\ Disjoint(Owners)
      /\ NoSlot \notin Slots
  BY OwnedAsFunction, SlotsAssumption DEF TypeOK
<1>2. /\ \A s \in Slots : s \in Owners["receiver"] => s \notin RangeOf(recvQ)
      /\ \A s \in Slots : s \in Owners["sequencer"] => s \notin RangeOf(sendQ)
      /\ \A s \in Slots : s \in Owners["recovery"] => s \notin RangeOf(sendQ)
  BY <1>1, OwnersValues DEF Disjoint, Places
<1>3. /\ "receiver" \in Places /\ "recvQ" \in Places /\ "pool" \in Places
      /\ "sequencer" \in Places /\ "recovery" \in Places /\ "sendQ" \in Places
  BY DEF Places
<1>4. CASE /\ rSlot \in Slots /\ rSlot' = NoSlot
           /\ UNCHANGED <<sendQ, batch, seqMsg, recSlot>>
           /\ \/ recvQ' = Enqueue(recvQ, rSlot) /\ UNCHANGED free
              \/ Deallocate(rSlot) /\ UNCHANGED recvQ
  <2>1. /\ rSlot \in Owners["receiver"]
        /\ Owners["receiver"] \subseteq Owners'["receiver"] \union {rSlot}
    BY <1>1, <1>4, OwnersValues
  <2>2. CASE recvQ' = Enqueue(recvQ, rSlot) /\ UNCHANGED free
    <3>1. recvQ' = Append(recvQ, rSlot)
      BY <1>1, <1>2, <1>4, <2>1, <2>2, QueueRoom
    <3>2. Owners["recvQ"] \subseteq Owners'["recvQ"] /\ rSlot \in Owners'["recvQ"]
      BY <1>1, <1>4, <3>1, OwnersValues, QueueKeeps
    <3>3. \A p \in Places \ {"receiver", "recvQ"} : Owners[p] \subseteq Owners'[p]
      BY <1>4, <2>2, OwnersValues DEF Places
    <3>4. QED
      BY <1>3, <2>1, <3>2, <3>3, MoveCovers
  <2>3. CASE Deallocate(rSlot) /\ UNCHANGED recvQ
    <3>1. Owners["pool"] \subseteq Owners'["pool"] /\ rSlot \in Owners'["pool"]
      BY <2>3, OwnersValues DEF Deallocate
    <3>2. \A p \in Places \ {"receiver", "pool"} : Owners[p] \subseteq Owners'[p]
      BY <1>4, <2>3, OwnersValues DEF Places
    <3>3. QED
      BY <1>3, <2>1, <3>1, <3>2, MoveCovers
  <2>4. QED
    BY <1>4, <2>2, <2>3
<1>5. CASE /\ seqMsg \in Slots /\ seqMsg' = NoSlot
           /\ UNCHANGED <<recvQ, batch, rSlot, recSlot>>
           /\ \/ sendQ' = Enqueue(sendQ, seqMsg) /\ UNCHANGED free
              \/ Deallocate(seqMsg) /\ UNCHANGED sendQ
  <2>1. /\ seqMsg \in Owners["sequencer"]
        /\ Owners["sequencer"] \subseteq Owners'["sequencer"] \union {seqMsg}
    BY <1>1, <1>5, OwnersValues
  <2>2. CASE sendQ' = Enqueue(sendQ, seqMsg) /\ UNCHANGED free
    <3>1. sendQ' = Append(sendQ, seqMsg)
      BY <1>1, <1>2, <1>5, <2>1, <2>2, QueueRoom
    <3>2. Owners["sendQ"] \subseteq Owners'["sendQ"] /\ seqMsg \in Owners'["sendQ"]
      BY <1>1, <1>5, <3>1, OwnersValues, QueueKeeps
    <3>3. \A p \in Places \ {"sequencer", "sendQ"} : Owners[p] \subseteq Owners'[p]
      BY <1>5, <2>2, OwnersValues DEF Places
    <3>4. QED
      BY <1>3, <2>1, <3>2, <3>3, MoveCovers
  <2>3. CASE Deallocate(seqMsg) /\ UNCHANGED sendQ
    <3>1. Owners["pool"] \subseteq Owners'["pool"] /\ seqMsg \in Owners'["pool"]
      BY <2>3, OwnersValues DEF Deallocate
    <3>2. \A p \in Places \ {"sequencer", "pool"} : Owners[p] \subseteq Owners'[p]
      BY <1>5, <2>3, OwnersValues DEF Places
    <3>3. QED
      BY <1>3, <2>1, <3>1, <3>2, MoveCovers
  <2>4. QED
    BY <1>5, <2>2, <2>3
<1>6. CASE /\ recSlot \in Slots /\ recSlot' = NoSlot
           /\ UNCHANGED <<recvQ, batch, rSlot, seqMsg>>
           /\ \/ sendQ' = Enqueue(sendQ, recSlot) /\ UNCHANGED free
              \/ Deallocate(recSlot) /\ UNCHANGED sendQ
  <2>1. /\ recSlot \in Owners["recovery"]
        /\ Owners["recovery"] \subseteq Owners'["recovery"] \union {recSlot}
    BY <1>1, <1>6, OwnersValues
  <2>2. CASE sendQ' = Enqueue(sendQ, recSlot) /\ UNCHANGED free
    <3>1. sendQ' = Append(sendQ, recSlot)
      BY <1>1, <1>2, <1>6, <2>1, <2>2, QueueRoom
    <3>2. Owners["sendQ"] \subseteq Owners'["sendQ"] /\ recSlot \in Owners'["sendQ"]
      BY <1>1, <1>6, <3>1, OwnersValues, QueueKeeps
    <3>3. \A p \in Places \ {"recovery", "sendQ"} : Owners[p] \subseteq Owners'[p]
      BY <1>6, <2>2, OwnersValues DEF Places
    <3>4. QED
      BY <1>3, <2>1, <3>2, <3>3, MoveCovers
  <2>3. CASE Deallocate(recSlot) /\ UNCHANGED sendQ
    <3>1. Owners["pool"] \subseteq Owners'["pool"] /\ recSlot \in Owners'["pool"]
      BY <2>3, OwnersValues DEF Deallocate
    <3>2. \A p \in Places \ {"recovery", "pool"} : Owners[p] \subseteq Owners'[p]
      BY <1>6, <2>3, OwnersValues DEF Places
    <3>3. QED
      BY <1>3, <2>1, <3>1, <3>2, MoveCovers
  <2>4. QED
    BY <1>6, <2>2, <2>3
<1>7. QED
  BY <1>4, <1>5, <1>6

\* A thread takes a buffer from the pool, a queue or the batch.
LEMMA CoverTaken ==
    ASSUME TypeOK, Covered(Owners),
           \/ /\ rSlot = NoSlot /\ \E s \in Slots : Allocate(s) /\ rSlot' = s
              /\ UNCHANGED <<recvQ, sendQ, batch, seqMsg, recSlot>>
           \/ /\ recSlot = NoSlot /\ \E s \in Slots : Allocate(s) /\ recSlot' = s
              /\ UNCHANGED <<recvQ, sendQ, batch, seqMsg, rSlot>>
           \/ /\ recvQ # <<>> /\ seqMsg = NoSlot
              /\ recvQ' = Tail(recvQ) /\ seqMsg' = Head(recvQ)
              /\ UNCHANGED <<free, sendQ, batch, rSlot, recSlot>>
           \/ /\ sendQ # <<>>
              /\ sendQ' = Tail(sendQ) /\ batch' = Append(batch, Head(sendQ))
              /\ UNCHANGED <<free, recvQ, rSlot, seqMsg, recSlot>>
           \/ /\ batch # <<>> /\ Deallocate(Head(batch)) /\ batch' = Tail(batch)
              /\ UNCHANGED <<recvQ, sendQ, rSlot, seqMsg, recSlot>>
    PROVE  Covered(Owners')
<1>1. /\ recvQ \in Seq(Slots) /\ sendQ \in Seq(Slots) /\ batch \in Seq(Slots)
      /\ NoSlot \notin Slots
  BY SlotsAssumption DEF TypeOK
<1>2. /\ "receiver" \in Places /\ "recvQ" \in Places /\ "pool" \in Places
      /\ "sequencer" \in Places /\ "recovery" \in Places /\ "sendQ" \in Places
      /\ "batch" \in Places
  BY DEF Places
<1>3. CASE /\ rSlot = NoSlot /\ \E s \in Slots : Allocate(s) /\ rSlot' = s
           /\ UNCHANGED <<recvQ, sendQ, batch, seqMsg, recSlot>>
  <2>1. PICK s \in Slots : Allocate(s) /\ rSlot' = s
    BY <1>3
  <2>2. /\ Owners["pool"] \subseteq Owners'["pool"] \union {s}
        /\ Owners["receiver"] \subseteq Owners'["receiver"]
        /\ s \in Owners'["receiver"]
    BY <1>1, <1>3, <2>1, OwnersValues DEF Allocate
  <2>3. \A p \in Places \ {"pool", "receiver"} : Owners[p] \subseteq Owners'[p]
    BY <1>3, OwnersValues DEF Places
  <2>4. QED
    BY <1>2, <2>2, <2>3, MoveCovers
<1>4. CASE /\ recSlot = NoSlot /\ \E s \in Slots : Allocate(s) /\ recSlot' = s
           /\ UNCHANGED <<recvQ, sendQ, batch, seqMsg, rSlot>>
  <2>1. PICK s \in Slots : Allocate(s) /\ recSlot' = s
    BY <1>4
  <2>2. /\ Owners["pool"] \subseteq Owners'["pool"] \union {s}
        /\ Owners["recovery"] \subseteq Owners'["recovery"]
        /\ s \in Owners'["recovery"]
    BY <1>1, <1>4, <2>1, OwnersValues DEF Allocate
  <2>3. \A p \in Places \ {"pool", "recovery"} : Owners[p] \subseteq Owners'[p]
    BY <1>4, OwnersValues DEF Places
  <2>4. QED
    BY <1>2, <2>2, <2>3, MoveCovers
<1>5. CASE /\ recvQ # <<>> /\ seqMsg = NoSlot
           /\ recvQ' = Tail(recvQ) /\ seqMsg' = Head(recvQ)
           /\ UNCHANGED <<free, sendQ, batch, rSlot, recSlot>>
  <2>1. Head(recvQ) \in Slots
    BY <1>1, <1>5, DequeueProperties
  <2>2. Owners["recvQ"] \subseteq Owners'["recvQ"] \union {Head(recvQ)}
    BY <1>1, <1>5, <2>1, OwnersValues, QueueKeeps
  <2>3. /\ Owners["sequencer"] \subseteq Owners'["sequencer"]
        /\ Head(recvQ) \in Owners'["sequencer"]
    BY <1>1, <1>5, <2>1, OwnersValues
  <2>4. \A p \in Places \ {"recvQ", "sequencer"} : Owners[p] \subseteq Owners'[p]
    BY <1>5, OwnersValues DEF Places
  <2>5. QED
    BY <1>2, <2>2, <2>3, <2>4, MoveCovers
<1>6. CASE /\ sendQ # <<>>
           /\ sendQ' = Tail(sendQ) /\ batch' = Append(batch, Head(sendQ))
           /\ UNCHANGED <<free, recvQ, rSlot, seqMsg, recSlot>>
  <2>1. Head(sendQ) \in Slots
    BY <1>1, <1>6, DequeueProperties
  <2>2. Owners["sendQ"] \subseteq Owners'["sendQ"] \union {Head(sendQ)}
    BY <1>1, <1>6, <2>1, OwnersValues, QueueKeeps
  <2>3. /\ Owners["batch"] \subseteq Owners'["batch"]
        /\ Head(sendQ) \in Owners'["batch"]
    BY <1>1, <1>6, <2>1, OwnersValues, QueueKeeps
  <2>4. \A p \in Places \ {"sendQ", "batch"} : Owners[p] \subseteq Owners'[p]
    BY <1>6, OwnersValues DEF Places
  <2>5. QED
    BY <1>2, <2>2, <2>3, <2>4, MoveCovers
<1>7. CASE /\ batch # <<>> /\ Deallocate(Head(batch)) /\ batch' = Tail(batch)
           /\ UNCHANGED <<recvQ, sendQ, rSlot, seqMsg, recSlot>>
  <2>1. Head(batch) \in Slots
    BY <1>1, <1>7, DequeueProperties
  <2>2. Owners["batch"] \subseteq Owners'["batch"] \union {Head(batch)}
    BY <1>1, <1>7, <2>1, OwnersValues, QueueKeeps
  <2>3. /\ Owners["pool"] \subseteq Owners'["pool"]
        /\ Head(batch) \in Owners'["pool"]
    BY <1>7, OwnersValues DEF Deallocate
  <2>4. \A p \in Places \ {"batch", "pool"} : Owners[p] \subseteq Owners'[p]
    BY <1>7, OwnersValues DEF Places
  <2>5. QED
    BY <1>2, <2>2, <2>3, <2>4, MoveCovers
<1>8. QED
  BY <1>3, <1>4, <1>5, <1>6, <1>7

\* Every step keeps every buffer somewhere.
LEMMA CoverStep ==
    ASSUME TypeInv, Owned, PoolFits,
           Covered(Owners), [Steady]_vars
    PROVE  Covered(Owners')
<1>0. /\ TypeOK
      /\ rpc = "recv" => rSlot \in Slots
      /\ rpc = "alloc" => rSlot = NoSlot
      /\ spc \in {"drop", "forward"} => seqMsg \in Slots
      /\ spc \in {"recv", "deliver"} => recSlot \in Slots
      /\ spc = "dequeue" => seqMsg = NoSlot
      /\ spc = "wait" => recSlot = NoSlot
  BY SlotsAssumption DEF TypeInv, TypeOK, HandsMatch
<1>1. ASSUME UNCHANGED heldVars PROVE Covered(Owners')
  <2>1. Owners' = Owners
    BY <1>1 DEF heldVars, Owners, Held, RangeOf
  <2>2. QED
    BY <2>1
<1> USE DEF poolVars, recvVars, seqVars, dbVars
<1>2. CASE ServerNext
  BY <1>1, <1>2 DEF ServerNext, CreateSnapshotServer, Accept, ReadRequest,
                    SendGapMsg, MulticastSend, ServerDies, heldVars
<1>3. CASE MainNext \/ LoggerDies \/ Finished \/ UNCHANGED vars
  BY <1>1, <1>3 DEF MainNext, StopSequencer, StopReceiver, StopDB, SUnchanged,
                    RUnchanged, DUnchanged, LoggerDies, Terminate, Finished, vars, heldVars
<1>4. CASE ReceiverNext
  <2> USE DEF RUnchanged
  <2>1. CASE ReceiverLoop
    BY <1>1, <2>1 DEF ReceiverLoop, heldVars
  <2>2. CASE ReceiverAllocate
    <3>1. CASE UNCHANGED <<free, rSlot>>
      BY <1>1, <2>2, <3>1 DEF ReceiverAllocate, heldVars
    <3>2. CASE \E s \in Slots : Allocate(s) /\ rSlot' = s
      <4>1. rSlot = NoSlot /\ UNCHANGED <<recvQ, sendQ, batch, seqMsg, recSlot>>
        BY <1>0, <2>2 DEF ReceiverAllocate
      <4>2. QED
        BY <1>0, <3>2, <4>1, CoverTaken
    <3>3. QED
      BY <2>2, <3>1, <3>2 DEF ReceiverAllocate
  <2>3. CASE ReceiveDatagram \/ ReceiveShutdown \/ ReceiveError
    <3>1. /\ rSlot \in Slots /\ rSlot' = NoSlot
          /\ UNCHANGED <<sendQ, batch, seqMsg, recSlot>>
          /\ \/ recvQ' = Enqueue(recvQ, rSlot) /\ UNCHANGED free
             \/ Deallocate(rSlot) /\ UNCHANGED recvQ
      BY <1>0, <2>3 DEF ReceiveDatagram, ReceiveShutdown, ReceiveError,
                        ReceiverEnqueue
    <3>2. QED
      BY <1>0, <3>1, CoverHands
  <2>4. QED
    BY <1>4, <2>1, <2>2, <2>3 DEF ReceiverNext
<1>5. CASE SequencerNext
  <2> USE DEF SUnchanged
  <2>1. CASE \/ Connect \/ SequencerLoop \/ SendRecoveryRequest \/ RecoveryComplete
             \/ RecoveryTimeout \/ RecoveryInterrupted \/ RecoveryRecvWhole
    BY <1>1, <2>1 DEF Connect, SequencerLoop, SendRecoveryRequest,
                RecoveryComplete, RecoveryTimeout, RecoveryInterrupted,
                RecoveryRecvWhole, heldVars, vars
  <2>2. CASE SequencerDequeue
    <3>1. CASE UNCHANGED <<recvQ, seqMsg>>
      BY <1>1, <2>2, <3>1 DEF SequencerDequeue, heldVars
    <3>2. CASE recvQ # <<>> /\ recvQ' = Tail(recvQ) /\ seqMsg' = Head(recvQ)
      <4>1. seqMsg = NoSlot /\ UNCHANGED <<free, sendQ, batch, rSlot, recSlot>>
        BY <1>0, <2>2 DEF SequencerDequeue
      <4>2. QED
        BY <1>0, <3>2, <4>1, CoverTaken
    <3>3. QED
      BY <2>2, <3>1, <3>2 DEF SequencerDequeue
  <2>3. CASE DropOld \/ Forward
    <3>1. /\ seqMsg \in Slots /\ seqMsg' = NoSlot
          /\ UNCHANGED <<recvQ, batch, rSlot, recSlot>>
          /\ \/ sendQ' = Enqueue(sendQ, seqMsg) /\ UNCHANGED free
             \/ Deallocate(seqMsg) /\ UNCHANGED sendQ
      BY <1>0, <2>3 DEF DropOld, Forward, HandOver
    <3>2. QED
      BY <1>0, <3>1, CoverHands
  <2>4. CASE RecoveryAllocate
    <3>1. recSlot = NoSlot /\ UNCHANGED <<recvQ, sendQ, batch, seqMsg, rSlot>>
      BY <1>0, <2>4 DEF RecoveryAllocate
    <3>2. CASE UNCHANGED <<free, recSlot>>
      BY <1>1, <3>1, <3>2 DEF heldVars
    <3>3. CASE \E s \in Slots : Allocate(s) /\ recSlot' = s
      BY <1>0, <3>1, <3>3, CoverTaken
    <3>4. QED
      BY <2>4, <3>2, <3>3 DEF RecoveryAllocate
  <2>5. CASE RecoveryRecvPart \/ RecoveryRecvClosed
    <3>1. /\ recSlot \in Slots /\ recSlot' = NoSlot
          /\ UNCHANGED <<recvQ, batch, rSlot, seqMsg>>
          /\ Deallocate(recSlot) /\ UNCHANGED sendQ
      BY <1>0, <2>5 DEF RecoveryRecvPart, RecoveryRecvClosed
    <3>2. QED
      BY <1>0, <3>1, CoverHands
  <2>6. CASE OnRecoveredMsg
    <3>1. UNCHANGED <<free, recvQ, batch, rSlot, seqMsg>> /\ recSlot \in Slots
      BY <1>0, <2>6 DEF OnRecoveredMsg
    <3>2. CASE UNCHANGED <<sendQ, recSlot>>
      BY <1>1, <3>1, <3>2 DEF heldVars
    <3>3. CASE HandOver(recSlot) /\ recSlot' = NoSlot
      <4>1. sendQ' = Enqueue(sendQ, recSlot)
        BY <3>3 DEF HandOver
      <4>2. QED
        BY <1>0, <3>1, <3>3, <4>1, CoverHands
    <3>4. QED
      BY <2>6, <3>2, <3>3 DEF OnRecoveredMsg
  <2>7. QED
    BY <1>5, <2>1, <2>2, <2>3, <2>4, <2>5, <2>6 DEF SequencerNext, RecoveryNext
<1>6. CASE DBNext
  <2> USE DEF DUnchanged
  <2>1. CASE DBDequeue
    <3>1. UNCHANGED <<free, recvQ, rSlot, seqMsg, recSlot>>
      BY <2>1 DEF DBDequeue
    <3>2. CASE UNCHANGED <<sendQ, batch>>
      BY <1>1, <3>1, <3>2 DEF heldVars
    <3>3. CASE /\ sendQ # <<>> /\ sendQ' = Tail(sendQ)
               /\ batch' = Append(batch, Head(sendQ))
      BY <1>0, <3>1, <3>3, CoverTaken
    <3>4. QED
      BY <2>1, <3>2, <3>3 DEF DBDequeue
  <2>2. CASE DBLeaveLoop \/ CommitSingle \/ CommitBatch \/ CommitCopy
    BY <1>1, <2>2 DEF DBLeaveLoop, CommitSingle, CommitBatch, CommitCopy, Commit,
                      heldVars
  <2>3. CASE DBRelease
    <3>1. /\ batch # <<>> /\ Deallocate(Head(batch)) /\ batch' = Tail(batch)
          /\ UNCHANGED <<recvQ, sendQ, rSlot, seqMsg, recSlot>>
      BY <2>3 DEF DBRelease
    <3>2. QED
      BY <1>0, <3>1, CoverTaken
  <2>4. QED
    BY <1>6, <2>1, <2>2, <2>3 DEF DBNext, runSingle, runBatch, runCopy
<1>7. QED
  BY <1>2, <1>3, <1>4, <1>5, <1>6 DEF Steady

\* With a pool no larger than a queue, every buffer is at every moment in the
\* pool, in a queue, in the batch or in a thread's hands: none is ever leaked by
\* an enqueue() whose refusal nobody notices, in any fault of the environment.
THEOREM NoBufferLostCorrect == Spec => []NoBufferLost
<1> DEFINE Kept == PoolFits => Covered(Owners)
<1>1. Init => Kept
  BY OwnersValues DEF Init, Covered, Places
<1>2. TypeInv /\ OneOwner /\ OneOwner' /\ Kept /\ [Next]_vars => Kept'
  BY CoverStep, CalmStep DEF OneOwner
<1>3. TypeInv /\ Kept => NoBufferLost
  <2> SUFFICES ASSUME TypeInv, Covered(Owners)
               PROVE  UNION {Held(p) : p \in Places} = Slots
    BY DEF NoBufferLost
  <2>1. /\ free \subseteq Slots
        /\ recvQ \in Seq(Slots) /\ sendQ \in Seq(Slots) /\ batch \in Seq(Slots)
        /\ {rSlot, seqMsg, recSlot} \subseteq Slots \union {NoSlot}
    BY DEF TypeInv, TypeOK
  <2>2. /\ RangeOf(recvQ) \subseteq Slots /\ RangeOf(sendQ) \subseteq Slots
        /\ RangeOf(batch) \subseteq Slots
    BY <2>1, ElementOfSeq DEF RangeOf
  <2>3. \A p \in Places : Owners[p] \subseteq Slots /\ Owners[p] = Held(p)
    <3>1. \A p \in Places : Owners[p] \subseteq Slots
      BY <2>1, <2>2, OwnersValues DEF Places
    <3>2. QED
      BY <3>1 DEF Owners
  <2>4. QED
    BY <2>3 DEF Covered
<1>4. QED
  BY TypeInvariant, OneOwnerCorrect, <1>1, <1>2, <1>3, PTL DEF Spec

-----------------------------------------------------------------------------
(***************************************************************************)
(* The sequencer hands the trades on in the order of their numbers, none    *)
(* missing and none twice, as long as no recovery is left early.            *)
(***************************************************************************)
InOrder ==
    ~aborted =>
        /\ Len(handed) = nextSequence
        /\ \A k \in 1 .. Len(handed) : handed[k].seq = k - 1

OrderInv == InOrder /\ RecoveryCounts

\* OrderInv holds at the start.
LEMMA OrderInit == Init => OrderInv
  BY DEF Init, OrderInv, InOrder, RecoveryCounts, InRecovery

\* The variables the sequence depends on.
orderVars == <<spc, nextSequence, seqMsg, numMessages, messagesReceived, handed, aborted>>

\* Nobody but the sequencer touches its message, so steps of the other threads,
\* and steps of its own that keep these variables, keep the invariant.
LEMMA OrderKept ==
    ASSUME TypeInv, Owned, OrderInv, [Steady]_vars, UNCHANGED orderVars
    PROVE  OrderInv'
<1>1. spc \in {"forward", "request", "wait", "recv", "deliver"}
         => content'[seqMsg] = content[seqMsg]
  <2> SUFFICES ASSUME spc \in {"forward", "request", "wait", "recv", "deliver"}
               PROVE  content'[seqMsg] = content[seqMsg]
    OBVIOUS
  <2>1. seqMsg \in Slots /\ seqMsg # NoSlot
    BY SlotsAssumption DEF TypeInv, TypeOK, HandsMatch
  <2>2. Disjoint(Owners) /\ seqMsg \in Owners["sequencer"]
    BY <2>1, OwnedAsFunction, OwnersValues
  <2>3. rSlot \in Slots => seqMsg # rSlot
    BY <2>2, OwnersValues, SlotsAssumption DEF Disjoint, Places
  <2>4. recSlot \in Slots => seqMsg # recSlot
    BY <2>2, OwnersValues, SlotsAssumption DEF Disjoint, Places
  <2>5. QED
    BY <2>1, <2>3, <2>4, OnlyHandsWritten
<1>2. InOrder'
  BY DEF OrderInv, InOrder, orderVars
<1>3. RecoveryCounts'
  BY <1>1 DEF OrderInv, RecoveryCounts, InRecovery, orderVars
<1>4. QED
  BY <1>2, <1>3 DEF OrderInv

\* Handing over the message with the next number extends the sequence.
LEMMA HandOverInOrder ==
    ASSUME TypeOK, InOrder, ~aborted, UNCHANGED aborted, NEW s \in Slots,
           HandOver(s), content[s].seq = nextSequence
    PROVE  InOrder'
<1>1. /\ handed \in Seq(Contents) /\ content[s] \in Contents /\ nextSequence \in Nat
      /\ handed' = Append(handed, content[s]) /\ nextSequence' = nextSequence + 1
  BY DEF TypeOK, HandOver
<1>2. /\ Len(handed) = nextSequence
      /\ \A k \in 1 .. Len(handed) : handed[k].seq = k - 1
  BY DEF InOrder
<1>3. /\ Len(handed') = nextSequence + 1
      /\ \A k \in 1 .. nextSequence : handed'[k] = handed[k]
      /\ handed'[nextSequence + 1] = content[s]
  BY <1>1, <1>2, AppendProperties
<1>4. \A k \in 1 .. nextSequence + 1 : handed'[k].seq = k - 1
  <2> TAKE k \in 1 .. nextSequence + 1
  <2>1. CASE k \in 1 .. nextSequence
    BY <1>2, <1>3, <2>1
  <2>2. CASE k = nextSequence + 1
    <3>1. handed'[k].seq = nextSequence
      BY <1>3, <2>2
    <3>2. k - 1 = nextSequence
      BY <1>1, <2>2
    <3>3. QED
      BY <3>1, <3>2
  <2>3. nextSequence \in Nat
    BY <1>1
  <2>4. k \in 1 .. nextSequence \/ k = nextSequence + 1
    BY <2>3
  <2>5. QED
    BY <2>1, <2>2, <2>4
<1>5. QED
  BY <1>1, <1>3, <1>4 DEF InOrder

\* The steps of the sequencer that change what the sequence depends on.
LEMMA OrderSequencer ==
    ASSUME TypeInv, Owned, OrderInv, SequencerNext
    PROVE  OrderInv'
<1>0. /\ TypeOK
      /\ nextSequence \in Nat /\ messagesReceived \in Nat /\ numMessages \in Int
      /\ content \in [Slots -> Contents]
      /\ spc \in {"forward", "request", "wait", "recv", "deliver"} => seqMsg \in Slots
      /\ spc \in {"recv", "deliver"} => recSlot \in Slots
      /\ \A s \in Slots : content[s].seq \in Int
      /\ Steady
  <2>1. TypeOK /\ HandsMatch
    BY DEF TypeInv
  <2>2. /\ nextSequence \in Nat /\ messagesReceived \in Nat /\ numMessages \in Int
        /\ content \in [Slots -> Contents]
        /\ seqMsg \in Slots \union {NoSlot}
        /\ recSlot \in Slots \union {NoSlot}
    BY <2>1 DEF TypeOK
  <2>3. /\ spc \in {"forward", "request", "wait", "recv", "deliver"} => seqMsg \in Slots
        /\ spc \in {"recv", "deliver"} => recSlot \in Slots
    BY <2>1, <2>2 DEF HandsMatch
  <2>4. \A c \in Contents : c.seq \in Int
    BY NumTradesAssumption DEF Contents, Trades, Garbage
  <2>5. \A s \in Slots : content[s].seq \in Int
    BY <2>2, <2>4
  <2>6. Steady
    BY DEF Steady
  <2>7. QED
    BY <2>1, <2>2, <2>3, <2>5, <2>6
<1> USE DEF poolVars
<1>1. CASE RecoveryTimeout
  BY <1>0, <1>1, OrderKept DEF RecoveryTimeout, vars, seqVars, orderVars
<1>2. CASE Connect \/ SequencerLoop \/ DropOld
  <2>1. /\ spc' \in {"connect", "loop", "dequeue", "done"}
        /\ UNCHANGED <<nextSequence, handed, aborted>>
    BY <1>2 DEF Connect, SequencerLoop, DropOld
  <2>2. QED
    BY <2>1 DEF OrderInv, InOrder, RecoveryCounts, InRecovery
<1>3. CASE SequencerDequeue
  <2>1. UNCHANGED <<nextSequence, handed, aborted, content>>
    BY <1>3 DEF SequencerDequeue
  <2>2. CASE spc' = "loop"
    BY <2>1, <2>2 DEF OrderInv, InOrder, RecoveryCounts, InRecovery
  <2>3. CASE /\ recvQ # <<>> /\ seqMsg' = Head(recvQ)
             /\ spc' = LET seq == content[Head(recvQ)].seq IN
                       CASE seq > nextSequence -> "request"
                         [] seq < nextSequence -> "drop"
                         [] seq = nextSequence -> "forward"
    <3>1. content[Head(recvQ)].seq \in Int
      BY <1>0, <2>3, DequeueProperties DEF TypeOK
    <3>2. /\ spc' \in {"request", "drop", "forward"}
          /\ spc' = "request" => content[Head(recvQ)].seq > nextSequence
          /\ spc' = "forward" => content[Head(recvQ)].seq = nextSequence
      BY <1>0, <2>3, <3>1
    <3>3. QED
      BY <2>1, <2>3, <3>2 DEF OrderInv, InOrder, RecoveryCounts, InRecovery
  <2>4. QED
    BY <1>3, <2>2, <2>3 DEF SequencerDequeue
<1>4. CASE Forward
  <2>1. /\ spc' = "loop" /\ UNCHANGED <<aborted, content>>
        /\ spc = "forward" /\ HandOver(seqMsg)
    BY <1>4 DEF Forward
  <2>2. ~aborted => InOrder'
    BY <1>0, <2>1, HandOverInOrder DEF OrderInv, RecoveryCounts
  <2>3. QED
    BY <2>1, <2>2 DEF OrderInv, InOrder, RecoveryCounts, InRecovery
<1>5. CASE SendRecoveryRequest
  <2>1. /\ spc = "request"
        /\ UNCHANGED <<nextSequence, handed, aborted, content, seqMsg>>
    BY <1>5 DEF SendRecoveryRequest
  <2>2. CASE UNCHANGED <<numMessages, messagesReceived, spc>>
    BY <2>1, <2>2 DEF OrderInv, InOrder, RecoveryCounts, InRecovery
  <2>3. CASE /\ numMessages' = content[seqMsg].seq - nextSequence
             /\ messagesReceived' = 0
             /\ spc' = "wait"
    <3>1. InOrder'
      BY <2>1 DEF OrderInv, InOrder
    <3>2. ~aborted => content[seqMsg].seq > nextSequence
      BY <2>1 DEF OrderInv, RecoveryCounts
    <3>3. RecoveryCounts'
      BY <1>0, <2>1, <2>3, <3>2 DEF RecoveryCounts, InRecovery
    <3>4. QED
      BY <3>1, <3>3 DEF OrderInv
  <2>4. QED
    BY <1>5, <2>2, <2>3 DEF SendRecoveryRequest
<1>6. CASE RecoveryComplete
  <2>1. /\ spc = "wait" /\ spc' = "forward" /\ messagesReceived >= numMessages
        /\ UNCHANGED <<nextSequence, handed, aborted, content, seqMsg>>
    BY <1>6 DEF RecoveryComplete
  <2>2. ~aborted => content[seqMsg].seq = nextSequence
    BY <1>0, <2>1 DEF OrderInv, RecoveryCounts, InRecovery
  <2>3. QED
    BY <2>1, <2>2 DEF OrderInv, InOrder, RecoveryCounts, InRecovery
<1>7. CASE RecoveryAllocate
  <2>1. /\ spc = "wait" /\ spc' \in {"wait", "recv"}
        /\ messagesReceived < numMessages
        /\ UNCHANGED <<nextSequence, handed, aborted, content, seqMsg,
                       numMessages, messagesReceived>>
    BY <1>7 DEF RecoveryAllocate
  <2>2. QED
    BY <2>1 DEF OrderInv, InOrder, RecoveryCounts, InRecovery
<1>8. CASE RecoveryInterrupted \/ RecoveryRecvClosed
  <2>1. aborted'
    BY <1>8 DEF RecoveryInterrupted, RecoveryRecvClosed
  <2>2. QED
    BY <2>1 DEF OrderInv, InOrder, RecoveryCounts
<1>9. CASE RecoveryRecvWhole \/ RecoveryRecvPart
  <2>1. /\ spc = "recv" /\ spc' \in {"deliver", "wait"}
        /\ UNCHANGED <<nextSequence, handed, aborted, seqMsg, numMessages,
                       messagesReceived>>
        /\ \A s \in Slots : s # recSlot => content'[s] = content[s]
    BY <1>0, <1>9 DEF RecoveryRecvWhole, RecoveryRecvPart
  <2>2. Disjoint(Owners)
    BY OwnedAsFunction
  <2>3. seqMsg # recSlot
    BY <1>0, <2>1, <2>2, OwnersValues, SlotsAssumption DEF Disjoint, Places
  <2>4. content'[seqMsg] = content[seqMsg]
    BY <1>0, <2>1, <2>3
  <2>5. QED
    BY <2>1, <2>4 DEF OrderInv, InOrder, RecoveryCounts, InRecovery
<1>10. CASE OnRecoveredMsg
  <2>1. /\ spc = "deliver"
        /\ UNCHANGED <<content, seqMsg, numMessages, aborted>>
    BY <1>10 DEF OnRecoveredMsg
  <2>2. CASE /\ content[recSlot].seq = nextSequence
             /\ HandOver(recSlot)
             /\ messagesReceived' = messagesReceived + 1
             /\ spc' = "wait"
    <3>1. ~aborted => InOrder'
      BY <1>0, <2>1, <2>2, HandOverInOrder DEF OrderInv
    <3>2. ~aborted =>
            /\ messagesReceived < numMessages
            /\ numMessages - messagesReceived = content[seqMsg].seq - nextSequence
      BY <2>1 DEF OrderInv, RecoveryCounts, InRecovery
    <3>3. nextSequence' = nextSequence + 1
      BY <2>2 DEF HandOver
    <3>4. QED
      BY <1>0, <2>1, <2>2, <3>1, <3>2, <3>3
      DEF OrderInv, InOrder, RecoveryCounts, InRecovery
  <2>3. CASE UNCHANGED <<nextSequence, handed, messagesReceived, spc>>
    BY <2>1, <2>3 DEF OrderInv, InOrder, RecoveryCounts, InRecovery
  <2>4. QED
    BY <1>10, <2>2, <2>3 DEF OnRecoveredMsg
<1>11. QED
  BY <1>1, <1>2, <1>3, <1>4, <1>5, <1>6, <1>7, <1>8, <1>9, <1>10
  DEF SequencerNext, RecoveryNext

\* Every step keeps OrderInv.
LEMMA OrderStep == TypeInv /\ Owned /\ OrderInv /\ [Steady]_vars => OrderInv'
<1> SUFFICES ASSUME TypeInv, Owned, OrderInv, [Steady]_vars PROVE OrderInv'
  OBVIOUS
<1>1. CASE SequencerNext
  BY <1>1, OrderSequencer
<1>2. CASE ~SequencerNext
  <2>1. UNCHANGED orderVars
    BY <1>2 DEF Steady, vars, seqVars, orderVars, ServerNext,
       CreateSnapshotServer, Accept, ReadRequest, SendGapMsg, MulticastSend,
       ServerDies, ReceiverNext, ReceiverLoop, ReceiverAllocate,
       ReceiveDatagram, ReceiveShutdown, ReceiveError, DBNext, runSingle,
       runBatch, runCopy, DBDequeue, DBLeaveLoop, CommitSingle, CommitBatch,
       CommitCopy, Commit, DBRelease, MainNext, StopSequencer,
       StopReceiver, StopDB, LoggerDies, Terminate, Finished, RUnchanged, DUnchanged
  <2>2. QED
    BY <2>1, OrderKept
<1>3. QED
  BY <1>1, <1>2

\* OrderInv is an invariant until a dequeue() is overtaken.
LEMMA OrderInvariant == Spec => [](~Overtaken => OrderInv)
<1>1. TypeInv /\ OneOwner /\ (~Overtaken => OrderInv) /\ [Next]_vars
         => (~Overtaken' => OrderInv')
  BY CalmStep, OrderStep DEF OneOwner
<1>2. QED
  BY TypeInvariant, OneOwnerCorrect, OrderInit, <1>1, PTL DEF Spec

\* Unless a recovery was left early, what the sequencer handed downstream is the
\* sequence 0, 1, 2, ... and nextSequence_ is its length: for any loss,
\* duplication and reordering of datagrams, any gap, any fragmentation of the
\* TCP stream, a server that dies, and any interleaving with the stop() calls, for
\* full queues too, until a dequeue() is overtaken (never, if PoolFits).
THEOREM HandedInOrderCorrect == Spec => []HandedInOrder
<1>1. (~Overtaken => OrderInv) => HandedInOrder
  BY DEF OrderInv, InOrder, HandedInOrder
<1>2. QED
  BY OrderInvariant, <1>1, PTL

-----------------------------------------------------------------------------
(***************************************************************************)
(* From the sequencer to the table.                                         *)
(***************************************************************************)

\* The messages behind the pointers of a sequence, for given buffer contents.
Via(c, q) == [k \in 1 .. Len(q) |-> c[q[k]]]

\* What is in the table, followed by what is on its way there.
Waiting    == Uncommitted \o sendQ
Downstream == rows \o ContentsOf(Waiting)

\* Via is a sequence of contents, element by element.
LEMMA ViaType ==
    ASSUME NEW c \in [Slots -> Contents], NEW q \in Seq(Slots)
    PROVE  /\ Via(c, q) \in Seq(Contents)
           /\ Len(Via(c, q)) = Len(q)
           /\ \A k \in 1 .. Len(q) : Via(c, q)[k] = c[q[k]]
<1>1. Len(q) \in Nat /\ \A k \in 1 .. Len(q) : q[k] \in Slots
  BY LenProperties
<1>2. Via(c, q) \in [1 .. Len(q) -> Contents]
  BY <1>1 DEF Via
<1>3. Via(c, q) \in Seq(Contents)
  BY <1>1, <1>2, SeqDef
<1>4. QED
  BY <1>1, <1>2, <1>3, LenProperties DEF Via

\* Via and the operations of the queues.
LEMMA ViaConcat ==
    ASSUME NEW c \in [Slots -> Contents], NEW a \in Seq(Slots), NEW b \in Seq(Slots)
    PROVE  Via(c, a \o b) = Via(c, a) \o Via(c, b)
<1>1. /\ Len(a) \in Nat /\ Len(b) \in Nat
      /\ a \o b \in Seq(Slots)
      /\ Len(a \o b) = Len(a) + Len(b)
      /\ \A i \in 1 .. Len(a) + Len(b) :
            (a \o b)[i] = IF i <= Len(a) THEN a[i] ELSE b[i - Len(a)]
  BY LenProperties, ConcatProperties
<1>2. /\ Via(c, a \o b) \in Seq(Contents)
      /\ Len(Via(c, a \o b)) = Len(a) + Len(b)
      /\ \A i \in 1 .. Len(a) + Len(b) : Via(c, a \o b)[i] = c[(a \o b)[i]]
  BY <1>1, ViaType
<1>3. /\ Via(c, a) \in Seq(Contents) /\ Len(Via(c, a)) = Len(a)
      /\ \A k \in 1 .. Len(a) : Via(c, a)[k] = c[a[k]]
      /\ Via(c, b) \in Seq(Contents) /\ Len(Via(c, b)) = Len(b)
      /\ \A k \in 1 .. Len(b) : Via(c, b)[k] = c[b[k]]
  BY ViaType
<1>4. /\ Via(c, a) \o Via(c, b) \in Seq(Contents)
      /\ Len(Via(c, a) \o Via(c, b)) = Len(a) + Len(b)
      /\ \A i \in 1 .. Len(a) + Len(b) :
            (Via(c, a) \o Via(c, b))[i] =
               IF i <= Len(a) THEN Via(c, a)[i] ELSE Via(c, b)[i - Len(a)]
  <2>1. /\ Via(c, a) \o Via(c, b) \in Seq(Contents)
        /\ Len(Via(c, a) \o Via(c, b)) = Len(Via(c, a)) + Len(Via(c, b))
        /\ \A i \in 1 .. Len(Via(c, a)) + Len(Via(c, b)) :
              (Via(c, a) \o Via(c, b))[i] =
                 IF i <= Len(Via(c, a)) THEN Via(c, a)[i]
                 ELSE Via(c, b)[i - Len(Via(c, a))]
    <3>1. \A x, y \in Seq(Contents) :
             /\ x \o y \in Seq(Contents)
             /\ Len(x \o y) = Len(x) + Len(y)
             /\ \A i \in 1 .. Len(x) + Len(y) :
                   (x \o y)[i] = IF i <= Len(x) THEN x[i] ELSE y[i - Len(x)]
      BY ConcatProperties
    <3>2. QED
      BY <1>3, <3>1
  <2>2. QED
    BY <1>3, <2>1
<1>5. ASSUME NEW i \in 1 .. Len(a) + Len(b)
      PROVE  Via(c, a \o b)[i] = (Via(c, a) \o Via(c, b))[i]
  <2>1. CASE i <= Len(a)
    <3>1. i \in 1 .. Len(a)
      BY <1>1, <2>1
    <3>2. QED
      BY <1>1, <1>2, <1>3, <1>4, <2>1, <3>1
  <2>2. CASE ~(i <= Len(a))
    <3>1. i - Len(a) \in 1 .. Len(b)
      BY <1>1, <2>2
    <3>2. Via(c, a \o b)[i] = c[b[i - Len(a)]]
      BY <1>1, <1>2, <2>2
    <3>3. (Via(c, a) \o Via(c, b))[i] = Via(c, b)[i - Len(a)]
      BY <1>4, <2>2
    <3>4. QED
      BY <1>3, <3>1, <3>2, <3>3
  <2>3. QED
    BY <2>1, <2>2
<1>6. QED
  BY <1>2, <1>4, <1>5, SeqEqual

\* Contents that agree on the pointers of a sequence lead to the same messages.
LEMMA ViaSame ==
    ASSUME NEW c, NEW d, NEW q, \A s \in RangeOf(q) : d[s] = c[s]
    PROVE  Via(d, q) = Via(c, q)
<1>1. \A k \in 1 .. Len(q) : q[k] \in RangeOf(q)
  BY DEF RangeOf
<1>2. QED
  BY <1>1 DEF Via

\* The message behind a single pointer.
LEMMA ViaSingle ==
    ASSUME NEW c \in [Slots -> Contents], NEW s \in Slots
    PROVE  Via(c, <<s>>) = <<c[s]>>
  BY DEF Via

\* The types of what is on its way, and the table and the way as one sequence.
DownstreamTyped ==
    /\ Uncommitted \in Seq(Slots) /\ sendQ \in Seq(Slots)
    /\ Waiting \in Seq(Slots)
    /\ rows \in Seq(Contents) /\ content \in [Slots -> Contents]
    /\ Downstream = rows \o Via(content, Waiting)
    /\ Downstream \in Seq(Contents)

\* They follow from the types of the variables.
LEMMA DownstreamType == TypeInv => DownstreamTyped
<1> SUFFICES ASSUME TypeInv PROVE DownstreamTyped
  OBVIOUS
<1>1. /\ batch \in Seq(Slots) /\ sendQ \in Seq(Slots)
      /\ rows \in Seq(Contents) /\ content \in [Slots -> Contents]
  BY DEF TypeInv, TypeOK
<1>2. Uncommitted \in Seq(Slots)
  BY <1>1 DEF Uncommitted
<1>3. Waiting \in Seq(Slots)
  BY <1>1, <1>2, ConcatProperties DEF Waiting
<1>4. Downstream = rows \o Via(content, Waiting)
  BY DEF Downstream, ContentsOf, Via
<1>5. Downstream \in Seq(Contents)
  <2>1. Via(content, Waiting) \in Seq(Contents)
    BY <1>1, <1>3, ViaType
  <2>2. QED
    BY <1>1, <1>4, <2>1, ConcatProperties
<1>6. QED
  BY <1>1, <1>2, <1>3, <1>4, <1>5 DEF DownstreamTyped

\* ... after a step too.
LEMMA DownstreamTypeKept ==
    ASSUME TypeInv, [Steady]_vars
    PROVE  DownstreamTyped /\ DownstreamTyped'
<1>1. TypeInv' => DownstreamTyped'
  BY DownstreamType, PTL
<1>2. QED
  BY <1>1, DownstreamType, TypeSteady

\* A step leaves the messages alone that wait to be stored.
LEMMA WaitingUntouched ==
    ASSUME TypeInv, Owned, [Steady]_vars
    PROVE  Via(content', Waiting) = Via(content, Waiting)
<1>1. /\ Uncommitted \in Seq(Slots) /\ sendQ \in Seq(Slots)
  BY DownstreamType DEF DownstreamTyped
<1>2. /\ Len(Uncommitted) \in Nat /\ Len(sendQ) \in Nat
      /\ Len(Waiting) = Len(Uncommitted) + Len(sendQ)
      /\ \A i \in 1 .. Len(Uncommitted) + Len(sendQ) :
            Waiting[i] = IF i <= Len(Uncommitted) THEN Uncommitted[i]
                         ELSE sendQ[i - Len(Uncommitted)]
  BY <1>1, LenProperties, ConcatProperties DEF Waiting
<1>3. RangeOf(Uncommitted) \subseteq RangeOf(batch)
  <2>1. RangeOf(<<>>) = {}
    BY DEF RangeOf
  <2>2. Uncommitted = <<>> \/ Uncommitted = batch
    BY DEF Uncommitted
  <2>3. QED
    BY <2>1, <2>2
<1>4. RangeOf(Waiting) \subseteq RangeOf(batch) \union RangeOf(sendQ)
  <2> SUFFICES ASSUME NEW i \in 1 .. Len(Waiting)
               PROVE  Waiting[i] \in RangeOf(Uncommitted) \union RangeOf(sendQ)
    BY <1>3 DEF RangeOf
  <2>1. CASE i <= Len(Uncommitted)
    <3>1. i \in 1 .. Len(Uncommitted) /\ Waiting[i] = Uncommitted[i]
      BY <1>2, <2>1
    <3>2. QED
      BY <3>1 DEF RangeOf
  <2>2. CASE ~(i <= Len(Uncommitted))
    <3>1. /\ i - Len(Uncommitted) \in 1 .. Len(sendQ)
          /\ Waiting[i] = sendQ[i - Len(Uncommitted)]
      BY <1>2, <2>2
    <3>2. QED
      BY <3>1 DEF RangeOf
  <2>3. QED
    BY <2>1, <2>2
<1>5. Untouched
  BY UntouchedStep
<1>6. Held("batch") = RangeOf(batch) /\ Held("sendQ") = RangeOf(sendQ)
  BY DEF Held
<1>7. \A s \in RangeOf(Waiting) : content'[s] = content[s]
  BY <1>4, <1>5, <1>6 DEF Untouched
<1>8. QED
  BY <1>7, ViaSame

\* So a step that moves nothing there keeps it as a whole.
LEMMA DownstreamSame ==
    ASSUME TypeInv, Owned, [Steady]_vars, UNCHANGED <<rows, Waiting>>
    PROVE  Downstream' = Downstream
<1>1. /\ Downstream = rows \o Via(content, Waiting)
      /\ Downstream' = rows' \o Via(content', Waiting')
  BY DownstreamTypeKept DEF DownstreamTyped
<1>2. QED
  BY <1>1, WaitingUntouched

\* A message handed over is the new end of what is downstream, unless the queue
\* is full.
LEMMA DownstreamHandOver ==
    ASSUME TypeInv, [Steady]_vars, NEW s \in Slots, HandOver(s),
           UNCHANGED <<rows, cpc, batch, content>>
    PROVE  /\ Len(sendQ) < QueueCapacity =>
                 Downstream' = Append(Downstream, content[s])
           /\ ~(Len(sendQ) < QueueCapacity) => Downstream' = Downstream
<1>1. DownstreamTyped /\ DownstreamTyped'
  BY DownstreamTypeKept
<1>2. Uncommitted' = Uncommitted
  BY DEF Uncommitted
<1>3. ASSUME ~(Len(sendQ) < QueueCapacity)
      PROVE  Downstream' = Downstream
  <2>1. sendQ' = sendQ
    BY <1>3 DEF HandOver, Enqueue
  <2>2. Waiting' = Waiting
    BY <1>2, <2>1 DEF Waiting
  <2>3. QED
    BY <1>1, <2>2 DEF DownstreamTyped
<1>4. ASSUME Len(sendQ) < QueueCapacity
      PROVE  Downstream' = Append(Downstream, content[s])
  <2>1. /\ Uncommitted \in Seq(Slots) /\ sendQ \in Seq(Slots)
        /\ Waiting \in Seq(Slots) /\ rows \in Seq(Contents)
        /\ content \in [Slots -> Contents] /\ content[s] \in Contents
        /\ Downstream \in Seq(Contents)
        /\ <<s>> \in Seq(Slots)
    BY <1>1 DEF DownstreamTyped
  <2>2. sendQ' = sendQ \o <<s>>
    BY <1>4, <2>1, AppendIsConcat DEF HandOver, Enqueue
  <2>3. Waiting' = Waiting \o <<s>>
    BY <1>2, <2>1, <2>2, ConcatAssociative DEF Waiting
  <2>4. /\ Via(content, Waiting \o <<s>>) = Via(content, Waiting) \o <<content[s]>>
        /\ Via(content, Waiting) \in Seq(Contents)
    <3>1. Via(content, Waiting \o <<s>>) = Via(content, Waiting) \o Via(content, <<s>>)
      BY <2>1, ViaConcat
    <3>2. Via(content, <<s>>) = <<content[s]>>
      BY <2>1, ViaSingle
    <3>3. Via(content, Waiting) \in Seq(Contents)
      BY <2>1, ViaType
    <3>4. QED
      BY <3>1, <3>2, <3>3
  <2>5. /\ Downstream' = rows \o Via(content, Waiting \o <<s>>)
        /\ Downstream = rows \o Via(content, Waiting)
    BY <1>1, <2>3 DEF DownstreamTyped
  <2>6. <<content[s]>> \in Seq(Contents)
    BY <2>1
  <2>7. rows \o (Via(content, Waiting) \o <<content[s]>>)
           = (rows \o Via(content, Waiting)) \o <<content[s]>>
    <3>1. \A x, y, z \in Seq(Contents) : x \o (y \o z) = (x \o y) \o z
      BY ConcatAssociative
    <3>2. QED
      BY <2>1, <2>4, <2>6, <3>1
  <2>8. Append(Downstream, content[s]) = Downstream \o <<content[s]>>
    BY <2>1, AppendIsConcat
  <2>9. QED
    BY <2>4, <2>5, <2>7, <2>8
<1>5. QED
  BY <1>3, <1>4

\* The batch of runSingle(): empty at the top of the loop, one message when it
\* is committed.
BatchInv ==
    DBRun = "single" =>
        /\ cpc = "loop" => batch = <<>>
        /\ cpc \in {"commit", "flush"} => Len(batch) = 1

\* The database thread moves messages along the way, and a transaction that
\* fails takes its batch out of it.
LEMMA DownstreamDB ==
    ASSUME TypeInv, Owned, BatchInv, DBNext
    PROVE  /\ \/ Downstream' = Downstream
              \/ /\ commitFailed' = TRUE
                 /\ Downstream' = rows \o Via(content, sendQ)
                 /\ Waiting = batch \o sendQ
           /\ commitFailed => commitFailed'
<1>1. DownstreamTyped /\ DownstreamTyped' /\ [Steady]_vars
  BY DownstreamTypeKept DEF Steady
<1>2. /\ Uncommitted \in Seq(Slots) /\ sendQ \in Seq(Slots) /\ batch \in Seq(Slots)
      /\ Waiting \in Seq(Slots) /\ rows \in Seq(Contents)
      /\ content \in [Slots -> Contents]
  BY <1>1 DEF DownstreamTyped, TypeInv, TypeOK
<1>3. CASE DBDequeue
  <2>1. /\ cpc = "loop" /\ cpc' \in {"loop", "commit"}
        /\ UNCHANGED <<rows, commitFailed>>
    BY <1>3 DEF DBDequeue
  <2>2. Uncommitted = batch /\ Uncommitted' = batch'
    BY <2>1 DEF Uncommitted
  <2>3. CASE UNCHANGED <<sendQ, batch>>
    BY <1>1, <2>1, <2>2, <2>3, DownstreamSame DEF Waiting
  <2>4. CASE /\ sendQ # <<>> /\ sendQ' = Tail(sendQ)
             /\ batch' = Append(batch, Head(sendQ))
    <3>1. /\ Head(sendQ) \in Slots /\ Tail(sendQ) \in Seq(Slots)
          /\ sendQ = <<Head(sendQ)>> \o Tail(sendQ)
      BY <1>2, <2>4, HeadTailProperties
    <3>2. /\ batch' = batch \o <<Head(sendQ)>>
          /\ <<Head(sendQ)>> \in Seq(Slots)
      BY <1>2, <2>4, <3>1, AppendIsConcat
    <3>3. (batch \o <<Head(sendQ)>>) \o Tail(sendQ) = batch \o sendQ
      <4>1. \A x, y, z \in Seq(Slots) : (x \o y) \o z = x \o (y \o z)
        BY ConcatAssociative
      <4>2. (batch \o <<Head(sendQ)>>) \o Tail(sendQ)
               = batch \o (<<Head(sendQ)>> \o Tail(sendQ))
        <5>1. batch \in Seq(Slots) /\ <<Head(sendQ)>> \in Seq(Slots)
              /\ Tail(sendQ) \in Seq(Slots)
          BY <1>2, <3>1, <3>2
        <5>2. QED
          BY <4>1, <5>1
      <4>3. QED
        BY <3>1, <4>2
    <3>4. Waiting' = Waiting
      BY <2>2, <2>4, <3>2, <3>3 DEF Waiting
    <3>5. QED
      BY <1>1, <2>1, <3>4, DownstreamSame
  <2>5. QED
    BY <1>3, <2>3, <2>4 DEF DBDequeue
<1>4. CASE DBLeaveLoop
  <2>1. /\ cpc = "loop" /\ cpc' \in {"flush", "done"}
        /\ UNCHANGED <<rows, sendQ, batch, commitFailed>>
    BY <1>4 DEF DBLeaveLoop
  <2>2. Uncommitted = batch /\ Uncommitted' = batch'
    BY <2>1 DEF Uncommitted
  <2>3. QED
    BY <1>1, <2>1, <2>2, DownstreamSame DEF Waiting
<1>5. CASE DBRelease
  <2>1. /\ cpc \in {"release", "releaseLast"}
        /\ \/ cpc' \in {"release", "releaseLast"}
           \/ batch' = <<>>
        /\ UNCHANGED <<rows, sendQ, commitFailed>>
    BY <1>5 DEF DBRelease
  <2>2. Uncommitted = <<>> /\ Uncommitted' = <<>>
    BY <2>1 DEF Uncommitted
  <2>3. QED
    BY <1>1, <2>1, <2>2, DownstreamSame DEF Waiting
<1>6. ASSUME Commit(Via(content, batch))
      PROVE  /\ \/ Downstream' = Downstream
                \/ /\ commitFailed' = TRUE
                   /\ Downstream' = rows \o Via(content, sendQ)
                   /\ Waiting = batch \o sendQ
             /\ commitFailed => commitFailed'
  <2>1. /\ cpc \in {"commit", "flush"} /\ cpc' \in {"release", "releaseLast"}
        /\ UNCHANGED <<content, sendQ, batch>>
    BY <1>6 DEF Commit, poolVars
  <2>2. Uncommitted = batch /\ Uncommitted' = <<>>
    BY <2>1 DEF Uncommitted
  <2>3. Waiting = batch \o sendQ /\ Waiting' = sendQ
    BY <1>2, <2>1, <2>2, ConcatEmptySeq DEF Waiting
  <2>4. /\ Via(content, Waiting) = Via(content, batch) \o Via(content, sendQ)
        /\ Via(content, batch) \in Seq(Contents)
        /\ Via(content, sendQ) \in Seq(Contents)
    BY <1>2, <2>3, ViaConcat, ViaType
  <2>5. /\ Downstream = rows \o Via(content, Waiting)
        /\ Downstream' = rows' \o Via(content, sendQ)
    BY <1>1, <2>1, <2>3 DEF DownstreamTyped
  <2>6. CASE rows' = rows \o Via(content, batch) /\ UNCHANGED commitFailed
    <3>1. (rows \o Via(content, batch)) \o Via(content, sendQ)
             = rows \o (Via(content, batch) \o Via(content, sendQ))
      <4>1. \A a, b, c \in Seq(Contents) : (a \o b) \o c = a \o (b \o c)
        BY ConcatAssociative
      <4>2. rows \in Seq(Contents)
        BY <1>2
      <4>3. QED
        BY <2>4, <4>1, <4>2
    <3>2. QED
      BY <2>4, <2>5, <2>6, <3>1
  <2>7. CASE commitFailed' = TRUE /\ UNCHANGED rows
    BY <2>3, <2>5, <2>7
  <2>8. QED
    BY <1>6, <2>6, <2>7 DEF Commit
<1>7. CASE DBRun = "single" /\ CommitSingle
  <2>1. cpc \in {"commit", "flush"} /\ batch # <<>>
    BY <1>7 DEF CommitSingle, Commit
  <2>2. Len(batch) = 1 /\ Head(batch) = batch[1]
    BY <1>2, <1>7, <2>1, HeadTailProperties DEF BatchInv
  <2>3. Via(content, batch) = <<content[Head(batch)]>>
    BY <2>2 DEF Via
  <2>4. QED
    BY <1>6, <1>7, <2>3 DEF CommitSingle
<1>8. CASE CommitBatch \/ CommitCopy
  <2>1. ContentsOf(batch) = Via(content, batch)
    BY DEF ContentsOf, Via
  <2>2. QED
    BY <1>6, <1>8, <2>1 DEF CommitBatch, CommitCopy
<1>9. QED
  BY <1>3, <1>4, <1>5, <1>7, <1>8 DEF DBNext, runSingle, runBatch, runCopy

\* Every step keeps the batch of runSingle() as it should be.
LEMMA BatchStep == TypeInv /\ BatchInv /\ [Steady]_vars => BatchInv'
<1> SUFFICES ASSUME TypeInv, BatchInv, [Steady]_vars PROVE BatchInv'
  OBVIOUS
<1>1. CASE ~DBNext
  <2>1. UNCHANGED <<cpc, batch>>
    BY <1>1 DEF Steady, vars, dbVars, ServerNext, CreateSnapshotServer, Accept,
       ReadRequest, SendGapMsg, MulticastSend, ServerDies, ReceiverNext,
       ReceiverLoop, ReceiverAllocate, ReceiveDatagram, ReceiveShutdown,
       ReceiveError, RUnchanged, SequencerNext, RecoveryNext, Connect,
       SequencerLoop, SequencerDequeue, DropOld, Forward, SendRecoveryRequest,
       RecoveryComplete, RecoveryAllocate, RecoveryTimeout, RecoveryInterrupted,
       RecoveryRecvWhole, RecoveryRecvPart, RecoveryRecvClosed, OnRecoveredMsg,
       SUnchanged, MainNext, StopSequencer, StopReceiver, StopDB, DUnchanged,
       LoggerDies, Terminate, Finished
  <2>2. QED
    BY <2>1 DEF BatchInv
<1>2. CASE DBNext /\ DBRun = "single"
  <2>1. batch \in Seq(Slots) /\ sendQ \in Seq(Slots)
    BY DEF TypeInv, TypeOK
  <2>2. CASE DBDequeue
    <3>1. cpc = "loop" /\ batch = <<>> /\ BatchLimit = 1
      BY <1>2, <2>2 DEF DBDequeue, BatchInv, BatchLimit
    <3>2. CASE sendQ = <<>>
      BY <2>2, <3>1, <3>2 DEF DBDequeue, BatchInv
    <3>3. CASE sendQ # <<>>
      <4>1. Len(batch') = 1
        BY <2>2, <3>1, <3>3 DEF DBDequeue
      <4>2. cpc' = "commit"
        BY <2>2, <3>1, <3>3, <4>1 DEF DBDequeue
      <4>3. QED
        BY <4>1, <4>2 DEF BatchInv
    <3>4. QED
      BY <3>2, <3>3
  <2>3. CASE DBLeaveLoop
    BY <1>2, <2>3 DEF DBLeaveLoop, BatchInv
  <2>4. CASE CommitSingle
    BY <2>4 DEF CommitSingle, Commit, BatchInv
  <2>5. CASE DBRelease
    BY <2>5 DEF DBRelease, BatchInv
  <2>6. QED
    BY <1>2, <2>2, <2>3, <2>4, <2>5 DEF DBNext, runSingle
<1>3. CASE DBRun # "single"
  BY <1>3 DEF BatchInv
<1>4. QED
  BY <1>1, <1>2, <1>3

\* A step hands the next message over, or keeps what is downstream but for a
\* transaction that fails.
LEMMA DownstreamStep ==
    ASSUME TypeInv, Owned, OrderInv, BatchInv, [Steady]_vars
    PROVE  \/ /\ \/ Downstream' = Downstream
                 \/ /\ commitFailed' = TRUE
                    /\ Downstream' = rows \o Via(content, sendQ)
                    /\ Waiting = batch \o sendQ
              /\ UNCHANGED <<handed, nextSequence>>
              /\ commitFailed => commitFailed'
              /\ aborted => aborted'
           \/ \E s \in Slots :
                 /\ HandOver(s)
                 /\ s \notin RangeOf(sendQ)
                 /\ ~aborted => content[s].seq = nextSequence
                 /\ UNCHANGED <<rows, cpc, batch, content, commitFailed, aborted>>
<1>0. /\ spc = "forward" => seqMsg \in Slots /\ seqMsg # NoSlot
      /\ spc = "deliver" => recSlot \in Slots /\ recSlot # NoSlot
  BY SlotsAssumption DEF TypeInv, TypeOK, HandsMatch
<1>1. Disjoint(Owners)
  BY OwnedAsFunction
<1> USE DEF poolVars, dbVars
<1>2. CASE Forward
  <2>1. /\ spc = "forward" /\ HandOver(seqMsg)
        /\ UNCHANGED <<rows, cpc, batch, content, commitFailed, aborted>>
    BY <1>2 DEF Forward, SUnchanged
  <2>2. seqMsg \notin RangeOf(sendQ)
    BY <1>0, <1>1, <2>1, OwnersValues DEF Disjoint, Places
  <2>3. ~aborted => content[seqMsg].seq = nextSequence
    BY <2>1 DEF OrderInv, RecoveryCounts
  <2>4. QED
    BY <1>0, <2>1, <2>2, <2>3
<1>3. CASE OnRecoveredMsg /\ content[recSlot].seq = nextSequence
  <2>1. /\ spc = "deliver" /\ HandOver(recSlot)
        /\ UNCHANGED <<rows, cpc, batch, content, commitFailed, aborted>>
    BY <1>3 DEF OnRecoveredMsg, SUnchanged
  <2>2. recSlot \notin RangeOf(sendQ)
    BY <1>0, <1>1, <2>1, OwnersValues DEF Disjoint, Places
  <2>3. QED
    BY <1>0, <1>3, <2>1, <2>2
<1>4. CASE DBNext
  <2>1. UNCHANGED <<handed, nextSequence, aborted>>
    BY <1>4 DEF DBNext, runSingle, runBatch, runCopy, DBDequeue, DBLeaveLoop,
                CommitSingle, CommitBatch, CommitCopy, Commit, DBRelease,
                DUnchanged, seqVars
  <2>2. QED
    BY <1>4, <2>1, DownstreamDB
<1>5. ASSUME UNCHANGED <<rows, cpc, batch, sendQ, handed, nextSequence, commitFailed>>,
             aborted => aborted'
      PROVE  /\ Downstream' = Downstream
             /\ UNCHANGED <<handed, nextSequence>>
             /\ commitFailed => commitFailed'
             /\ aborted => aborted'
  <2>1. UNCHANGED <<rows, Waiting>>
    BY <1>5 DEF Waiting, Uncommitted
  <2>2. QED
    BY <1>5, <2>1, DownstreamSame
<1>6. CASE ServerNext \/ ReceiverNext \/ MainNext \/ LoggerDies \/ Finished \/ UNCHANGED vars
  <2>1. /\ UNCHANGED <<rows, cpc, batch, sendQ, handed, nextSequence, commitFailed>>
        /\ aborted => aborted'
    BY <1>6 DEF vars, seqVars, ServerNext, CreateSnapshotServer, Accept,
       ReadRequest, SendGapMsg, MulticastSend, ServerDies, ReceiverNext,
       ReceiverLoop, ReceiverAllocate, ReceiveDatagram, ReceiveShutdown,
       ReceiveError, RUnchanged, SUnchanged, MainNext, StopSequencer,
       StopReceiver, StopDB, DUnchanged, LoggerDies, Terminate, Finished
  <2>2. QED
    BY <1>5, <2>1
<1>7. CASE \/ Connect \/ SequencerLoop \/ SequencerDequeue \/ DropOld
           \/ SendRecoveryRequest \/ RecoveryComplete \/ RecoveryAllocate
           \/ RecoveryTimeout \/ RecoveryInterrupted \/ RecoveryRecvWhole
           \/ RecoveryRecvPart \/ RecoveryRecvClosed
           \/ (OnRecoveredMsg /\ content[recSlot].seq # nextSequence)
  <2>1. /\ UNCHANGED <<rows, cpc, batch, sendQ, handed, nextSequence, commitFailed>>
        /\ aborted => aborted'
    BY <1>7 DEF vars, seqVars, Connect, SequencerLoop, SequencerDequeue, DropOld,
       SendRecoveryRequest, RecoveryComplete, RecoveryAllocate, RecoveryTimeout,
       RecoveryInterrupted, RecoveryRecvWhole, RecoveryRecvPart,
       RecoveryRecvClosed, OnRecoveredMsg, SUnchanged
  <2>2. QED
    BY <1>5, <2>1
<1>8. QED
  BY <1>2, <1>3, <1>4, <1>6, <1>7 DEF Steady, SequencerNext, RecoveryNext

\* BatchInv is an invariant.
LEMMA BatchInvariant == Spec => [](~Overtaken => BatchInv)
<1>1. Init => BatchInv
  BY DEF Init, BatchInv
<1>2. TypeInv /\ (~Overtaken => BatchInv) /\ [Next]_vars
         => (~Overtaken' => BatchInv')
  BY CalmStep, BatchStep
<1>3. QED
  BY TypeInvariant, <1>1, <1>2, PTL DEF Spec

\* With a pool no larger than a queue and as long as no transaction failed, what
\* the sequencer handed over is the table followed by what waits in the queue and
\* in the batch, byte for byte, for each of the three run functions of DBManager
\* and whatever the threads interleave.
THEOREM NothingLostDownstreamCorrect == Spec => []NothingLostDownstream
<1>1. Init => NothingLostDownstream
  <2> SUFFICES ASSUME Init PROVE handed = rows \o ContentsOf(Uncommitted \o sendQ)
    BY DEF NothingLostDownstream
  <2>1. /\ handed = <<>> /\ rows = <<>> /\ Uncommitted = <<>> /\ sendQ = <<>>
    BY DEF Init, Uncommitted
  <2>2. Uncommitted \o sendQ = <<>>
    BY <2>1
  <2>3. ContentsOf(<<>>) = <<>>
    BY DEF ContentsOf
  <2>4. QED
    BY <2>1, <2>2, <2>3
<1>2. ASSUME TypeInv, Owned, OrderInv, BatchInv, NothingLostDownstream,
             [Steady]_vars
      PROVE  NothingLostDownstream'
  <2>1. SUFFICES ASSUME ~commitFailed', PoolFits
                 PROVE  handed' = Downstream'
    BY DEF NothingLostDownstream, Downstream, Waiting
  <2>2. ~commitFailed => handed = Downstream
    BY <1>2, <2>1 DEF NothingLostDownstream, Downstream, Waiting
  <2>3. CASE /\ Downstream' = Downstream
             /\ UNCHANGED <<handed, nextSequence>>
             /\ commitFailed => commitFailed'
    BY <2>1, <2>2, <2>3
  <2>4. ASSUME NEW s \in Slots, HandOver(s), s \notin RangeOf(sendQ),
               UNCHANGED <<rows, cpc, batch, content, commitFailed>>
        PROVE  handed' = Downstream'
    <3>1. sendQ \in Seq(Slots) /\ Distinct(sendQ)
      BY <1>2 DEF TypeInv, TypeOK, Owned
    <3>2. Len(sendQ) < QueueCapacity
      BY <2>1, <2>4, <3>1, QueueRoom
    <3>3. Downstream' = Append(Downstream, content[s])
      BY <1>2, <2>4, <3>2, DownstreamHandOver
    <3>4. handed' = Append(handed, content[s])
      BY <2>4 DEF HandOver
    <3>5. QED
      BY <2>1, <2>2, <2>4, <3>3, <3>4
  <2>5. QED
    BY <1>2, <2>1, <2>3, <2>4, DownstreamStep
<1>3. TypeInv /\ OneOwner /\ OneOwner' /\ (~Overtaken => OrderInv)
      /\ (~Overtaken => BatchInv) /\ NothingLostDownstream /\ [Next]_vars
         => NothingLostDownstream'
  <2>1. CASE ~PoolFits
    BY <2>1 DEF NothingLostDownstream
  <2>2. CASE PoolFits
    BY <1>2, <2>2, CalmStep DEF OneOwner
  <2>3. QED
    BY <2>1, <2>2
<1>4. QED
  BY TypeInvariant, OneOwnerCorrect, OrderInvariant, BatchInvariant, <1>1, <1>3,
     PTL DEF Spec

-----------------------------------------------------------------------------
\* The messages of D have rising numbers, all below n.
Ascending(D, n) ==
    /\ \A k \in 1 .. Len(D) : D[k].seq < n
    /\ \A j, k \in 1 .. Len(D) : j < k => D[j].seq < D[k].seq

\* Every message has a number.
LEMMA SeqIsInt == \A c \in Contents : c.seq \in Int
  BY NumTradesAssumption DEF Contents, Trades, Garbage

\* The next number at the end.
LEMMA AscendingAppend ==
    ASSUME NEW D \in Seq(Contents), NEW n \in Nat, Ascending(D, n),
           NEW c \in Contents, c.seq = n
    PROVE  Ascending(Append(D, c), n + 1)
<1>1. /\ Len(D) \in Nat /\ Len(Append(D, c)) = Len(D) + 1
      /\ \A k \in 1 .. Len(D) : Append(D, c)[k] = D[k]
      /\ Append(D, c)[Len(D) + 1] = c
      /\ \A k \in 1 .. Len(D) : D[k].seq \in Int
  BY LenProperties, AppendProperties, ElementOfSeq, SeqIsInt
<1>2. \A k \in 1 .. Len(D) + 1 : k \in 1 .. Len(D) \/ k = Len(D) + 1
  BY <1>1
<1>3. \A k \in 1 .. Len(D) : Append(D, c)[k].seq < n /\ Append(D, c)[k].seq \in Int
  BY <1>1 DEF Ascending
<1>4. \A k \in 1 .. Len(D) + 1 : Append(D, c)[k].seq < n + 1
  <2> TAKE k \in 1 .. Len(D) + 1
  <2>1. CASE k \in 1 .. Len(D)
    BY <1>3, <2>1
  <2>2. CASE k = Len(D) + 1
    <3>1. Append(D, c)[k].seq = n
      BY <1>1, <2>2
    <3>2. QED
      BY <3>1
  <2>3. QED
    BY <1>2, <2>1, <2>2
<1>5. ASSUME NEW j \in 1 .. Len(D) + 1, NEW k \in 1 .. Len(D) + 1, j < k
      PROVE  Append(D, c)[j].seq < Append(D, c)[k].seq
  <2>1. j \in 1 .. Len(D)
    BY <1>1, <1>5
  <2>2. CASE k \in 1 .. Len(D)
    BY <1>1, <1>5, <2>1, <2>2 DEF Ascending
  <2>3. CASE k = Len(D) + 1
    <3>1. Append(D, c)[k].seq = n
      BY <1>1, <2>3
    <3>2. QED
      BY <1>3, <2>1, <3>1
  <2>4. QED
    BY <1>2, <2>2, <2>3
<1>6. QED
  BY <1>1, <1>4, <1>5 DEF Ascending

\* A larger bound.
LEMMA AscendingMore ==
    ASSUME NEW D \in Seq(Contents), NEW n \in Nat, Ascending(D, n)
    PROVE  Ascending(D, n + 1)
<1>1. \A k \in 1 .. Len(D) : D[k].seq \in Int
  BY ElementOfSeq, SeqIsInt
<1>2. \A k \in 1 .. Len(D) : D[k].seq < n + 1
  BY <1>1 DEF Ascending
<1>3. QED
  BY <1>2 DEF Ascending

\* A part taken out of the middle, and a prefix.
LEMMA AscendingPart ==
    ASSUME NEW a \in Seq(Contents), NEW b \in Seq(Contents), NEW c \in Seq(Contents),
           NEW n \in Nat, Ascending(a \o (b \o c), n)
    PROVE  /\ Ascending(a \o c, n)
           /\ Ascending(a, n)
<1> DEFINE D == a \o (b \o c)
           E == a \o c
           f(k) == IF k <= Len(a) THEN k ELSE k + Len(b)
<1>1. Len(a) \in Nat /\ Len(b) \in Nat /\ Len(c) \in Nat
  BY LenProperties
<1>2. /\ b \o c \in Seq(Contents)
      /\ Len(b \o c) = Len(b) + Len(c)
      /\ \A i \in 1 .. Len(b) + Len(c) :
            (b \o c)[i] = IF i <= Len(b) THEN b[i] ELSE c[i - Len(b)]
  BY ConcatProperties
<1>3. /\ Len(D) = Len(a) + (Len(b) + Len(c))
      /\ \A i \in 1 .. Len(a) + (Len(b) + Len(c)) :
            D[i] = IF i <= Len(a) THEN a[i] ELSE (b \o c)[i - Len(a)]
  <2>1. /\ Len(D) = Len(a) + Len(b \o c)
        /\ \A i \in 1 .. Len(a) + Len(b \o c) :
              D[i] = IF i <= Len(a) THEN a[i] ELSE (b \o c)[i - Len(a)]
    BY <1>2, ConcatProperties
  <2>2. QED
    BY <1>2, <2>1
<1>4. /\ Len(E) = Len(a) + Len(c)
      /\ \A i \in 1 .. Len(a) + Len(c) :
            E[i] = IF i <= Len(a) THEN a[i] ELSE c[i - Len(a)]
  BY ConcatProperties
<1> HIDE DEF D, E
<1>5. ASSUME NEW k \in 1 .. Len(a) + Len(c)
      PROVE  f(k) \in 1 .. Len(D) /\ E[k] = D[f(k)]
  <2>1. CASE k <= Len(a)
    <3>1. f(k) = k /\ k \in 1 .. Len(a) + (Len(b) + Len(c))
      BY <1>1, <2>1
    <3>2. QED
      BY <1>3, <1>4, <2>1, <3>1
  <2>2. CASE ~(k <= Len(a))
    <3>1. /\ f(k) = k + Len(b)
          /\ f(k) \in 1 .. Len(a) + (Len(b) + Len(c))
          /\ ~(f(k) <= Len(a))
          /\ f(k) - Len(a) \in 1 .. Len(b) + Len(c)
          /\ ~(f(k) - Len(a) <= Len(b))
          /\ (f(k) - Len(a)) - Len(b) = k - Len(a)
      BY <1>1, <2>2
    <3> HIDE DEF f
    <3>2. D[f(k)] = (b \o c)[f(k) - Len(a)]
      BY <1>3, <3>1
    <3>3. (b \o c)[f(k) - Len(a)] = c[(f(k) - Len(a)) - Len(b)]
      BY <1>2, <3>1
    <3>4. E[k] = c[k - Len(a)]
      BY <1>4, <2>2
    <3>5. QED
      BY <1>3, <3>1, <3>2, <3>3, <3>4
  <2>3. QED
    BY <2>1, <2>2
<1>6. \A j, k \in 1 .. Len(a) + Len(c) : j < k => f(j) < f(k)
  BY <1>1
<1>7. Ascending(D, n)
  BY DEF D
<1> HIDE DEF f
<1>8. /\ \A k \in 1 .. Len(E) : E[k].seq < n
      /\ \A j, k \in 1 .. Len(E) : j < k => E[j].seq < E[k].seq
  BY <1>4, <1>5, <1>6, <1>7 DEF Ascending
<1>9. Ascending(E, n)
  BY <1>8 DEF Ascending
<1>10. \A k \in 1 .. Len(a) : k \in 1 .. Len(E) /\ E[k] = a[k]
  BY <1>1, <1>4
<1>11. Ascending(a, n)
  BY <1>9, <1>10 DEF Ascending
<1>12. QED
  BY <1>9, <1>11 DEF E

\* What makes TableInOrder inductive: the order continues through the batch and
\* the queue up to the number that comes next.
TableInv == ~aborted => Ascending(Downstream, nextSequence)

\* Unless a recovery was left early, the numbers in the table rise strictly, so
\* that no trade is stored twice or behind a later one: also when transactions
\* fail, when a full queue refuses messages and when fragments are dropped, until
\* a dequeue() of a full queue is overtaken (never, if PoolFits).
THEOREM TableInOrderCorrect == Spec => []TableInOrder
<1>1. Init => TableInv
  <2> SUFFICES ASSUME Init PROVE Ascending(Downstream, nextSequence)
    BY DEF TableInv
  <2>1. rows = <<>> /\ Uncommitted = <<>> /\ sendQ = <<>>
    BY DEF Init, Uncommitted
  <2>2. Uncommitted \o sendQ = <<>>
    BY <2>1
  <2>3. ContentsOf(<<>>) = <<>>
    BY DEF ContentsOf
  <2>4. Downstream = <<>>
    BY <2>1, <2>2, <2>3 DEF Downstream, Waiting
  <2>5. QED
    BY <2>4 DEF Ascending
<1>2. ASSUME TypeInv, Owned, OrderInv, BatchInv, TableInv, [Steady]_vars
      PROVE  TableInv'
  <2>1. SUFFICES ASSUME ~aborted' PROVE Ascending(Downstream', nextSequence')
    BY DEF TableInv
  <2>2. /\ DownstreamTyped
        /\ nextSequence \in Nat
    BY <1>2, DownstreamType DEF TypeInv, TypeOK
  <2>3. ASSUME ~aborted PROVE Ascending(Downstream, nextSequence)
    BY <1>2, <2>3 DEF TableInv
  <2>4. CASE /\ Downstream' = Downstream
             /\ UNCHANGED nextSequence
             /\ aborted => aborted'
    BY <2>1, <2>3, <2>4
  <2>5. CASE /\ Downstream' = rows \o Via(content, sendQ)
             /\ Waiting = batch \o sendQ
             /\ UNCHANGED nextSequence
             /\ aborted => aborted'
    <3>1. /\ batch \in Seq(Slots) /\ sendQ \in Seq(Slots) /\ rows \in Seq(Contents)
          /\ content \in [Slots -> Contents]
      BY <1>2 DEF TypeInv, TypeOK
    <3>2. /\ Via(content, batch) \in Seq(Contents)
          /\ Via(content, sendQ) \in Seq(Contents)
      BY <3>1, ViaType
    <3>3. Downstream = rows \o (Via(content, batch) \o Via(content, sendQ))
      BY <2>2, <2>5, <3>1, ViaConcat DEF DownstreamTyped
    <3>4. Ascending(rows \o Via(content, sendQ), nextSequence)
      BY <2>1, <2>2, <2>3, <2>5, <3>1, <3>2, <3>3, AscendingPart
    <3>5. QED
      BY <2>5, <3>4
  <2>6. ASSUME NEW s \in Slots, HandOver(s), ~aborted => content[s].seq = nextSequence,
               UNCHANGED <<rows, cpc, batch, content, aborted>>
        PROVE  Ascending(Downstream', nextSequence')
    <3>1. /\ Downstream \in Seq(Contents) /\ content[s] \in Contents
          /\ nextSequence' = nextSequence + 1
          /\ content[s].seq = nextSequence
          /\ Ascending(Downstream, nextSequence)
      BY <2>1, <2>2, <2>3, <2>6 DEF DownstreamTyped, HandOver
    <3>2. Downstream' = Append(Downstream, content[s]) \/ Downstream' = Downstream
      BY <1>2, <2>6, DownstreamHandOver
    <3>3. Ascending(Append(Downstream, content[s]), nextSequence + 1)
      BY <2>2, <3>1, AscendingAppend
    <3>4. Ascending(Downstream, nextSequence + 1)
      BY <2>2, <3>1, AscendingMore
    <3>5. QED
      BY <3>1, <3>2, <3>3, <3>4
  <2>7. QED
    BY <1>2, <2>4, <2>5, <2>6, DownstreamStep
<1>3. TypeInv /\ TableInv => TableInOrder
  <2> SUFFICES ASSUME TypeInv, Ascending(Downstream, nextSequence) PROVE TableInOrder
    BY DEF TableInv, TableInOrder
  <2>1. /\ rows \in Seq(Contents) /\ Waiting \in Seq(Slots)
        /\ content \in [Slots -> Contents]
        /\ Downstream = rows \o Via(content, Waiting)
        /\ nextSequence \in Nat
    BY DownstreamType DEF DownstreamTyped, TypeInv, TypeOK
  <2>2. Via(content, Waiting) \in Seq(Contents) /\ <<>> \in Seq(Contents)
    BY <2>1, ViaType
  <2>3. Via(content, Waiting) = <<>> \o Via(content, Waiting)
    BY <2>2, ConcatEmptySeq
  <2>4. Ascending(rows, nextSequence)
    BY <2>1, <2>2, <2>3, AscendingPart
  <2>5. QED
    BY <2>4 DEF Ascending, TableInOrder
<1>4. TypeInv /\ OneOwner /\ (~Overtaken => OrderInv) /\ (~Overtaken => BatchInv)
      /\ (~Overtaken => TableInv) /\ [Next]_vars
         => (~Overtaken' => TableInv')
  BY <1>2, CalmStep DEF OneOwner
<1>5. TypeInv /\ (~Overtaken => TableInv) => TableInOrder
  BY <1>3 DEF TableInOrder
<1>6. QED
  BY TypeInvariant, OneOwnerCorrect, OrderInvariant, BatchInvariant,
     <1>1, <1>4, <1>5, PTL DEF Spec

-----------------------------------------------------------------------------
(***************************************************************************)
(* What the sequencer hands over is genuine.  The bytes of a recovery come  *)
(* in the order of the trades, and a recovery that lost some of them never  *)
(* ends by itself: the buffers they spoiled are never handed on.            *)
(***************************************************************************)

\* The place of half a message in what the server writes.
Code(h) == 2 * h.seq + h.half

Rising(s)        == \A j, k \in 1 .. Len(s) : j < k => Code(s[j]) < Code(s[k])
Between(s, a, b) == \A k \in 1 .. Len(s) : 2 * a < Code(s[k]) /\ Code(s[k]) <= 2 * b
Without(s, n)    == \A k \in 1 .. Len(s) : Code(s[k]) # 2 * n + 1

\* The code tells the halves of all trades apart.
LEMMA CodeValues ==
    \A h \in Halves : /\ Code(h) \in Int /\ h.seq \in Nat
                      /\ h.half = 1 => Code(h) = 2 * h.seq + 1
                      /\ h.half # 1 => Code(h) = 2 * h.seq + 2
<1> TAKE h \in Halves
<1>1. h.seq \in Nat /\ h.half \in {1, 2}
  BY NumTradesAssumption DEF Halves, Trades
<1>2. QED
  BY <1>1 DEF Code

\* The server dies: a prefix is left.
LEMMA StreamCut ==
    ASSUME NEW s \in Seq(Halves), NEW n \in 0 .. Len(s), NEW a, NEW b, NEW c
    PROVE  LET t == SubSeq(s, 1, n) IN
           /\ Rising(s) => Rising(t)
           /\ Between(s, a, b) => Between(t, a, b)
           /\ Without(s, c) => Without(t, c)
           /\ s = <<>> => t = <<>>
<1> DEFINE t == SubSeq(s, 1, n)
<1>1. Len(s) \in Nat /\ n \in Int /\ \A j \in 1 .. n : s[j] \in Halves /\ j \in 1 .. Len(s)
  BY LenProperties, ElementOfSeq
<1>2. /\ t \in Seq(Halves) /\ Len(t) = n
      /\ \A k \in 1 .. n : t[k] = s[k]
  BY <1>1, SubSeqProperties
<1>3. s = <<>> => t = <<>>
  BY <1>1, <1>2, EmptySeq
<1> HIDE DEF t
<1>4. Rising(s) => Rising(t)
  BY <1>1, <1>2 DEF Rising
<1>5. Between(s, a, b) => Between(t, a, b)
  BY <1>1, <1>2 DEF Between
<1>6. Without(s, c) => Without(t, c)
  BY <1>1, <1>2 DEF Without
<1>7. QED
  BY <1>3, <1>4, <1>5, <1>6 DEF t

\* The client reads the first m halves: no half of the front trade's beginning is
\* left, and after a whole message nothing of that trade.
LEMMA StreamRest ==
    ASSUME NEW s \in Seq(Halves), NEW m \in 1 .. 2, NEW t \in Seq(Halves),
           Len(s) >= m, Len(t) = Len(s) - m, \A k \in 1 .. Len(t) : t[k] = s[k + m],
           NEW a \in Int, NEW b \in Int, Rising(s), Between(s, a, b)
    PROVE  /\ Rising(t)
           /\ Between(t, a, b)
           /\ Without(t, a)
           /\ a < b
           /\ m = 2 /\ Code(s[1]) = 2 * a + 1 => Between(t, a + 1, b)
           /\ \A c : Without(s, c) => Without(t, c)
<1>1. /\ Len(s) \in Nat /\ Len(t) \in Nat
      /\ \A k \in 1 .. Len(s) : Code(s[k]) \in Int
  BY LenProperties, ElementOfSeq, CodeValues
<1>2. \A k \in 1 .. Len(t) : k + m \in 1 .. Len(s) /\ k + m > m /\ t[k] = s[k + m]
  BY <1>1
<1>3. 1 \in 1 .. Len(s) /\ 2 * a < Code(s[1]) /\ Code(s[1]) <= 2 * b
  BY <1>1 DEF Between
<1>4. a < b
  BY <1>1, <1>3
<1>5. Rising(t)
  <2> SUFFICES ASSUME NEW j \in 1 .. Len(t), NEW k \in 1 .. Len(t), j < k
               PROVE  Code(s[j + m]) < Code(s[k + m])
    BY <1>2 DEF Rising
  <2>1. j + m < k + m
    BY <1>1
  <2>2. QED
    BY <1>2, <2>1 DEF Rising
<1>6. Between(t, a, b)
  BY <1>2 DEF Between
<1>7. \A c : Without(s, c) => Without(t, c)
  BY <1>2 DEF Without
<1>8. \A k \in 1 .. Len(t) : Code(s[1]) < Code(t[k]) /\ Code(t[k]) \in Int
  <2> TAKE k \in 1 .. Len(t)
  <2>1. 1 < k + m
    BY <1>1
  <2>2. QED
    BY <1>1, <1>2, <1>3, <2>1 DEF Rising
<1>9. Without(t, a)
  <2> SUFFICES ASSUME NEW k \in 1 .. Len(t) PROVE Code(t[k]) # 2 * a + 1
    BY DEF Without
  <2>1. 2 * a < Code(s[1]) /\ Code(s[1]) < Code(t[k]) /\ Code(s[1]) \in Int
    BY <1>1, <1>3, <1>8
  <2>2. QED
    BY <1>8, <2>1
<1>10. ASSUME m = 2, Code(s[1]) = 2 * a + 1
       PROVE  Between(t, a + 1, b)
  <2> SUFFICES ASSUME NEW k \in 1 .. Len(t) PROVE 2 * (a + 1) < Code(t[k])
    BY <1>6 DEF Between
  <2>1. 2 \in 1 .. Len(s) /\ 2 < k + m
    BY <1>1, <1>10
  <2>2. Code(s[1]) < Code(s[2]) /\ Code(s[2]) < Code(t[k]) /\ Code(s[2]) \in Int
    <3>1. k + m \in 1 .. Len(s) /\ t[k] = s[k + m]
      BY <1>2
    <3>2. Code(s[1]) < Code(s[2]) /\ Code(s[2]) < Code(s[k + m])
      BY <1>3, <2>1, <3>1 DEF Rising
    <3>3. QED
      BY <1>1, <2>1, <3>1, <3>2
  <2>3. QED
    BY <1>8, <1>10, <2>2
<1>11. QED
  BY <1>4, <1>5, <1>6, <1>7, <1>9, <1>10

\* The server writes the next trade.
LEMMA StreamMore ==
    ASSUME NEW s \in Seq(Halves), NEW i \in Trades,
           NEW a \in Int, a <= i, Rising(s), Between(s, a, i)
    PROVE  LET t == s \o <<Half(i, 1), Half(i, 2)>> IN
           /\ Rising(t)
           /\ Between(t, a, i + 1)
           /\ \A c \in Int : c < i /\ Without(s, c) => Without(t, c)
<1> DEFINE h == <<Half(i, 1), Half(i, 2)>>
           t == s \o h
<1>1. /\ Len(s) \in Nat /\ i \in Nat
      /\ \A k \in 1 .. Len(s) : Code(s[k]) \in Int
  BY LenProperties, ElementOfSeq, CodeValues, NumTradesAssumption DEF Trades
<1>2. /\ h \in Seq(Halves) /\ Len(h) = 2
      /\ Code(h[1]) = 2 * i + 1 /\ Code(h[2]) = 2 * i + 2
  BY <1>1 DEF Half, Halves, Code
<1> HIDE DEF h
<1>3. /\ Len(t) = Len(s) + 2
      /\ \A k \in 1 .. Len(s) + 2 : t[k] = IF k <= Len(s) THEN s[k] ELSE h[k - Len(s)]
  <2>1. /\ Len(t) = Len(s) + Len(h)
        /\ \A k \in 1 .. Len(s) + Len(h) :
              t[k] = IF k <= Len(s) THEN s[k] ELSE h[k - Len(s)]
    BY <1>2, ConcatProperties
  <2>2. QED
    BY <1>2, <2>1
<1> HIDE DEF t
<1>4. /\ \A k \in 1 .. Len(s) : k \in 1 .. Len(s) + 2 /\ k <= Len(s)
      /\ Len(s) + 1 \in 1 .. Len(s) + 2 /\ ~(Len(s) + 1 <= Len(s))
      /\ Len(s) + 2 \in 1 .. Len(s) + 2 /\ ~(Len(s) + 2 <= Len(s))
      /\ (Len(s) + 1) - Len(s) = 1 /\ (Len(s) + 2) - Len(s) = 2
  BY <1>1
<1>5. /\ \A k \in 1 .. Len(s) : t[k] = s[k]
      /\ Code(t[Len(s) + 1]) = 2 * i + 1 /\ Code(t[Len(s) + 2]) = 2 * i + 2
  BY <1>2, <1>3, <1>4
<1>6. \A k \in 1 .. Len(s) + 2 :
         k \in 1 .. Len(s) \/ k = Len(s) + 1 \/ k = Len(s) + 2
  BY <1>1
<1>7. \A k \in 1 .. Len(s) : 2 * a < Code(t[k]) /\ Code(t[k]) <= 2 * i /\ Code(t[k]) \in Int
  BY <1>1, <1>5 DEF Between
<1>8. Between(t, a, i + 1)
  <2> SUFFICES ASSUME NEW k \in 1 .. Len(s) + 2
               PROVE  2 * a < Code(t[k]) /\ Code(t[k]) <= 2 * (i + 1)
    BY <1>3 DEF Between
  <2>1. CASE k \in 1 .. Len(s)
    BY <1>1, <1>7, <2>1
  <2>2. CASE k = Len(s) + 1 \/ k = Len(s) + 2
    BY <1>1, <1>5, <2>2
  <2>3. QED
    BY <1>6, <2>1, <2>2
<1>9. Rising(t)
  <2> SUFFICES ASSUME NEW j \in 1 .. Len(s) + 2, NEW k \in 1 .. Len(s) + 2, j < k
               PROVE  Code(t[j]) < Code(t[k])
    BY <1>3 DEF Rising
  <2>1. CASE k \in 1 .. Len(s)
    <3>1. j \in 1 .. Len(s)
      BY <1>1, <2>1
    <3>2. QED
      BY <1>5, <2>1, <3>1 DEF Rising
  <2>2. CASE k = Len(s) + 1
    <3>1. j \in 1 .. Len(s)
      BY <1>1, <2>2
    <3>2. QED
      BY <1>1, <1>5, <1>7, <2>2, <3>1
  <2>3. CASE k = Len(s) + 2
    <3>1. j \in 1 .. Len(s) \/ j = Len(s) + 1
      BY <1>1, <2>3
    <3>2. CASE j \in 1 .. Len(s)
      BY <1>1, <1>5, <1>7, <2>3, <3>2
    <3>3. CASE j = Len(s) + 1
      BY <1>1, <1>5, <2>3, <3>3
    <3>4. QED
      BY <3>1, <3>2, <3>3
  <2>4. QED
    BY <1>6, <2>1, <2>2, <2>3
<1>10. ASSUME NEW c \in Int, c < i, Without(s, c)
       PROVE  Without(t, c)
  <2> SUFFICES ASSUME NEW k \in 1 .. Len(s) + 2 PROVE Code(t[k]) # 2 * c + 1
    BY <1>3 DEF Without
  <2>1. CASE k \in 1 .. Len(s)
    BY <1>5, <1>10, <2>1 DEF Without
  <2>2. CASE k = Len(s) + 1 \/ k = Len(s) + 2
    BY <1>1, <1>5, <1>10, <2>2
  <2>3. QED
    BY <1>6, <2>1, <2>2
<1>11. QED
  BY <1>8, <1>9, <1>10 DEF t, h

-----------------------------------------------------------------------------
\* Every buffer holds a trade, or nothing yet.
Clean == \A s \in Slots : content[s] = Blank \/ \E t \in Trades : content[s] = Trade(t)

\* The number that the next message read from the stream should have.
Expected == IF spc = "deliver" /\ content[recSlot].seq = nextSequence
            THEN nextSequence + 1 ELSE nextSequence

\* A recovery in which the message it waits for will never come.
Doomed ==
    /\ InRecovery
    /\ messagesReceived < numMessages
    /\ reqs = <<>>
    /\ Without(stream, nextSequence)
    /\ serverUp /\ ~ServerIdle => serving.i > nextSequence
    /\ spc = "deliver" => content[recSlot].seq # nextSequence

\* Outside recover() nothing is under way between the client and the server.
Quiet ==
    ~InRecovery =>
        /\ stream = <<>> /\ reqs = <<>>
        /\ serverUp => ServerIdle
        /\ serving.i <= nextSequence \/ serving.i <= 1

\* A request the server has not read yet is that of the running recovery.
Requested ==
    reqs # <<>> =>
        /\ reqs = <<[start |-> nextSequence, end |-> content[seqMsg].seq - 1]>>
        /\ spc = "wait" /\ messagesReceived < numMessages
        /\ stream = <<>>
        /\ serverUp => ServerIdle

\* What is in the stream, and what the server will still write, are halves of the
\* trades from the expected one up to the one in the sequencer's hands, in order.
Answer ==
    InRecovery =>
        /\ Rising(stream)
        /\ Between(stream, Expected, serving.i)
        /\ serverUp /\ ~ServerIdle =>
              Expected <= serving.i /\ serving.last < content[seqMsg].seq
        /\ serving.i <= content[seqMsg].seq
        /\ spc = "deliver" => content[recSlot].genuine \/ content[recSlot].seq = Garbage

ClosedInv == conn = "closed" => reqs = <<>>

AnswerInv == ~aborted => Quiet /\ Requested /\ Answer /\ (Clean \/ Doomed)

\* The variables AnswerInv depends on, but for the contents.
answerVars == <<spc, stream, reqs, serverUp, serving, nextSequence, seqMsg, recSlot,
                messagesReceived, numMessages, aborted>>

\* Steps that leave these alone and write at most a trade into a buffer that
\* neither run() nor receiveRecoveryMessages() holds.
LEMMA AnswerKept ==
    ASSUME AnswerInv, UNCHANGED answerVars,
           InRecovery => content'[seqMsg] = content[seqMsg],
           spc = "deliver" => content'[recSlot] = content[recSlot],
           Clean => Clean'
    PROVE  AnswerInv'
<1>1. Quiet => Quiet'
  BY DEF Quiet, InRecovery, ServerIdle, answerVars
<1>2. Expected' = Expected
  BY DEF Expected, answerVars
<1>3. Quiet /\ Requested => Requested'
  BY DEF Quiet, Requested, ServerIdle, InRecovery, answerVars
<1>4. Answer => Answer'
  BY <1>2 DEF Answer, InRecovery, ServerIdle, answerVars
<1>5. Doomed => Doomed'
  BY DEF Doomed, InRecovery, ServerIdle, answerVars
<1>6. QED
  BY <1>1, <1>3, <1>4, <1>5 DEF AnswerInv, answerVars

\* What the types say of the variables of a recovery.
LEMMA AnswerTypes ==
    ASSUME TypeInv
    PROVE  /\ stream \in Seq(Halves) /\ Len(stream) \in Nat
           /\ nextSequence \in Nat /\ messagesReceived \in Nat /\ numMessages \in Int
           /\ serving = [i |-> serving.i, last |-> serving.last]
           /\ serving.i \in Nat /\ serving.last \in Int
           /\ content \in [Slots -> Contents]
           /\ \A s \in Slots : content[s].seq \in Int
           /\ \A s \in Slots : content[s].seq >= 0 /\ content[s].seq <= Garbage
           /\ spc \in {"forward", "request", "wait", "recv", "deliver"} => seqMsg \in Slots
           /\ spc \in {"recv", "deliver"} => recSlot \in Slots
<1>1. /\ stream \in Seq(Halves) /\ nextSequence \in Nat /\ messagesReceived \in Nat
      /\ numMessages \in Int /\ serving \in [i : Nat, last : Int]
      /\ content \in [Slots -> Contents]
      /\ spc \in {"forward", "request", "wait", "recv", "deliver"} => seqMsg \in Slots
      /\ spc \in {"recv", "deliver"} => recSlot \in Slots
  BY DEF TypeInv, TypeOK, HandsMatch
<1>2. \A c \in Contents : c.seq \in Int /\ c.seq >= 0 /\ c.seq <= Garbage
  BY NumTradesAssumption DEF Contents, Trades, Garbage
<1>3. /\ serving = [i |-> serving.i, last |-> serving.last]
      /\ serving.i \in Nat /\ serving.last \in Int
  BY <1>1
<1>4. QED
  BY <1>1, <1>2, <1>3, LenProperties

\* serveClients reads a request.
LEMMA AnswerReadRequest ==
    ASSUME TypeInv, OrderInv, AnswerInv, ReadRequest
    PROVE  AnswerInv'
<1>1. SUFFICES ASSUME ~aborted PROVE AnswerInv'
  BY DEF ReadRequest, seqVars, AnswerInv
<1>2. /\ serverUp /\ ServerIdle
      /\ UNCHANGED <<spc, stream, serverUp, nextSequence, seqMsg, recSlot,
                     messagesReceived, numMessages, aborted, content>>
  BY DEF ReadRequest, seqVars, poolVars
<1>3. PICK k \in 1 .. Len(reqs) :
          /\ reqs' = SubSeq(reqs, k + 1, Len(reqs))
          /\ \/ /\ k = 1
                /\ serving' = [i |-> reqs[1].start, last |-> reqs[1].end]
             \/ serving' = serving
  BY DEF ReadRequest
<1>4. reqs # <<>>
  BY <1>3
<1>5. /\ reqs = <<[start |-> nextSequence, end |-> content[seqMsg].seq - 1]>>
      /\ spc = "wait" /\ messagesReceived < numMessages /\ stream = <<>>
      /\ InRecovery /\ Clean /\ Answer
  BY <1>1, <1>4 DEF AnswerInv, Requested, InRecovery, Doomed
<1>6. reqs' = <<>>
  BY <1>3, <1>5
<1>7. /\ nextSequence \in Nat /\ seqMsg \in Slots /\ content[seqMsg].seq \in Int
      /\ nextSequence <= content[seqMsg].seq
  BY <1>1, <1>5, AnswerTypes DEF OrderInv, RecoveryCounts
<1>8. Expected = nextSequence /\ Expected' = nextSequence
  BY <1>2, <1>5 DEF Expected
<1>9. \/ serving' = [i |-> nextSequence, last |-> content[seqMsg].seq - 1]
      \/ serving' = serving
  BY <1>3, <1>5
<1>10. Answer'
  <2>1. Rising(stream') /\ Between(stream', Expected', serving'.i)
    BY <1>2, <1>5 DEF Rising, Between
  <2>2. serving'.i <= content[seqMsg].seq
    BY <1>5, <1>7, <1>9 DEF Answer
  <2>3. ~ServerIdle' => nextSequence <= serving'.i /\ serving'.last < content[seqMsg].seq
    BY <1>2, <1>7, <1>9 DEF ServerIdle
  <2>4. QED
    BY <1>2, <1>5, <1>8, <2>1, <2>2, <2>3 DEF Answer, InRecovery
<1>11. QED
  BY <1>2, <1>5, <1>6, <1>10 DEF AnswerInv, Quiet, Requested, InRecovery, Clean

\* serveGapRequest writes one message.
LEMMA AnswerSendGapMsg ==
    ASSUME TypeInv, OrderInv, AnswerInv, SendGapMsg
    PROVE  AnswerInv'
<1>1. SUFFICES ASSUME ~aborted PROVE AnswerInv'
  BY DEF SendGapMsg, seqVars, AnswerInv
<1>2. /\ serverUp /\ ~ServerIdle
      /\ serving' = [i |-> serving.i + 1, last |-> serving.last]
      /\ UNCHANGED <<spc, reqs, serverUp, nextSequence, seqMsg, recSlot,
                     messagesReceived, numMessages, aborted, content>>
  BY DEF SendGapMsg, seqVars, poolVars
<1>3. InRecovery /\ reqs = <<>> /\ Answer /\ (Clean \/ Doomed)
  BY <1>1, <1>2 DEF AnswerInv, Quiet, Requested
<1>4. /\ stream \in Seq(Halves) /\ nextSequence \in Nat
      /\ serving.i \in Nat /\ serving.last \in Int /\ content[seqMsg].seq \in Int
  BY <1>3, AnswerTypes DEF InRecovery
<1>5. /\ Rising(stream) /\ Between(stream, Expected, serving.i)
      /\ Expected <= serving.i /\ serving.last < content[seqMsg].seq
      /\ serving.i <= serving.last
      /\ Expected \in Nat /\ Expected' = Expected
  BY <1>2, <1>3, <1>4 DEF Answer, ServerIdle, Expected
<1>6. /\ Rising(stream') /\ Between(stream', Expected, serving.i + 1)
      /\ Doomed => Without(stream', nextSequence)
  <2>1. CASE serving.i \in Trades
    <3>1. stream' = stream \o <<Half(serving.i, 1), Half(serving.i, 2)>>
      BY <2>1 DEF SendGapMsg
    <3>2. Doomed => nextSequence < serving.i /\ Without(stream, nextSequence)
      BY <1>2, <1>4 DEF Doomed
    <3>3. QED
      BY <1>4, <1>5, <2>1, <3>1, <3>2, StreamMore
  <2>2. CASE serving.i \notin Trades
    <3>1. stream' = stream
      BY <2>2 DEF SendGapMsg
    <3>2. \A k \in 1 .. Len(stream) : Code(stream[k]) \in Int
      BY <1>4, ElementOfSeq, CodeValues
    <3>3. Between(stream, Expected, serving.i + 1)
      BY <1>4, <1>5, <3>2 DEF Between
    <3>4. QED
      BY <1>5, <3>1, <3>3 DEF Doomed
  <2>3. QED
    BY <2>1, <2>2
<1>7. Answer'
  <2>1. /\ serving'.i = serving.i + 1 /\ serving'.last = serving.last
        /\ Expected <= serving.i + 1 /\ serving.i + 1 <= content[seqMsg].seq
    BY <1>2, <1>4, <1>5
  <2>2. QED
    BY <1>2, <1>3, <1>5, <1>6, <2>1 DEF Answer, InRecovery
<1>8. Doomed => Doomed'
  <2>1. Doomed => serving'.i > nextSequence
    BY <1>2, <1>4 DEF Doomed
  <2>2. QED
    BY <1>2, <1>6, <2>1 DEF Doomed, InRecovery
<1>9. Clean => Clean'
  BY <1>2 DEF Clean
<1>10. QED
  BY <1>2, <1>3, <1>7, <1>8, <1>9 DEF AnswerInv, Quiet, Requested, InRecovery

\* The server process ends.
LEMMA AnswerServerDies ==
    ASSUME TypeInv, OrderInv, AnswerInv, ServerDies
    PROVE  AnswerInv'
<1>1. SUFFICES ASSUME ~aborted PROVE AnswerInv'
  BY DEF ServerDies, seqVars, AnswerInv
<1>2. /\ serverUp' = FALSE /\ reqs' = <<>>
      /\ UNCHANGED <<spc, serving, nextSequence, seqMsg, recSlot,
                     messagesReceived, numMessages, aborted, content>>
  BY DEF ServerDies, seqVars, poolVars
<1>3. PICK n \in 0 .. Len(stream) : stream' = SubSeq(stream, 1, n)
  BY DEF ServerDies
<1>4. Expected' = Expected /\ stream \in Seq(Halves)
  BY <1>2, AnswerTypes DEF Expected
<1>5. /\ Rising(stream) => Rising(stream')
      /\ Between(stream, Expected, serving.i) => Between(stream', Expected, serving.i)
      /\ Without(stream, nextSequence) => Without(stream', nextSequence)
      /\ stream = <<>> => stream' = <<>>
  BY <1>3, <1>4, StreamCut
<1>6. Answer'
  BY <1>1, <1>2, <1>4, <1>5 DEF AnswerInv, Answer, InRecovery
<1>7. Quiet' /\ Requested'
  BY <1>1, <1>2, <1>5 DEF AnswerInv, Quiet, Requested, InRecovery
<1>8. Doomed => Doomed'
  BY <1>2, <1>5 DEF Doomed, InRecovery
<1>9. Clean => Clean'
  BY <1>2 DEF Clean
<1>10. QED
  BY <1>1, <1>6, <1>7, <1>8, <1>9 DEF AnswerInv

\* The steps of run() outside recover().
LEMMA AnswerSequencer ==
    ASSUME TypeInv, AnswerInv,
           Connect \/ SequencerLoop \/ SequencerDequeue \/ DropOld \/ Forward
    PROVE  AnswerInv'
<1>0. /\ ~InRecovery
      /\ UNCHANGED <<stream, reqs, serverUp, serving, content, aborted>>
      /\ nextSequence' = nextSequence \/ nextSequence' = nextSequence + 1
  BY DEF Connect, SequencerLoop, SequencerDequeue, DropOld, Forward, HandOver,
         SUnchanged, serverVars, tcpVars, poolVars, InRecovery
<1>1. nextSequence \in Nat /\ serving.i \in Nat
  BY AnswerTypes
<1>2. ~InRecovery'
  <2>1. CASE SequencerDequeue
    <3>1. CASE recvQ = <<>>
      BY <2>1, <3>1 DEF SequencerDequeue, InRecovery
    <3>2. CASE recvQ # <<>>
      <4>1. content[Head(recvQ)].seq \in Int
        BY <3>2, DequeueProperties, AnswerTypes DEF TypeInv, TypeOK
      <4>2. spc' \in {"request", "drop", "forward"}
        BY <1>1, <2>1, <3>2, <4>1 DEF SequencerDequeue
      <4>3. QED
        BY <4>2 DEF InRecovery
    <3>3. QED
      BY <3>1, <3>2
  <2>2. CASE Connect \/ SequencerLoop \/ DropOld \/ Forward
    BY <1>0, <2>2 DEF Connect, SequencerLoop, DropOld, Forward, InRecovery
  <2>3. QED
    BY <2>1, <2>2
<1>3. SUFFICES ASSUME ~aborted PROVE Quiet' /\ Requested' /\ Answer' /\ Clean'
  BY <1>0 DEF AnswerInv
<1>4. /\ stream = <<>> /\ reqs = <<>>
      /\ serverUp => ServerIdle
      /\ serving.i <= nextSequence \/ serving.i <= 1
      /\ Clean
  BY <1>0, <1>3 DEF AnswerInv, Quiet, Doomed
<1>5. serving'.i <= nextSequence' \/ serving'.i <= 1
  BY <1>0, <1>1, <1>4
<1>6. Quiet'
  BY <1>0, <1>4, <1>5 DEF Quiet, ServerIdle
<1>7. QED
  BY <1>0, <1>2, <1>4, <1>6 DEF Requested, Answer, Clean

\* recover() asks for the missing messages.
LEMMA AnswerRequest ==
    ASSUME TypeInv, OrderInv, AnswerInv, SendRecoveryRequest, spc' = "wait"
    PROVE  AnswerInv'
<1>1. /\ spc = "request"
      /\ \/ reqs' = reqs
         \/ reqs' = Append(reqs, [start |-> nextSequence, end |-> content[seqMsg].seq - 1])
      /\ numMessages' = content[seqMsg].seq - nextSequence
      /\ messagesReceived' = 0
      /\ UNCHANGED <<stream, serverUp, serving, nextSequence, seqMsg, recSlot,
                     aborted, content>>
  BY DEF SendRecoveryRequest, RequestSent, SUnchanged, serverVars, poolVars
<1>2. SUFFICES ASSUME ~aborted PROVE Quiet' /\ Requested' /\ Answer' /\ Clean'
  BY <1>1 DEF AnswerInv
<1>3. /\ stream = <<>> /\ reqs = <<>> /\ Clean
      /\ serverUp => ServerIdle
      /\ serving.i <= nextSequence \/ serving.i <= 1
  BY <1>1, <1>2 DEF AnswerInv, Quiet, Doomed, InRecovery
<1>4. /\ nextSequence \in Nat /\ content[seqMsg].seq \in Int /\ serving.i \in Nat
      /\ content[seqMsg].seq > nextSequence
  BY <1>1, <1>2, AnswerTypes DEF OrderInv, RecoveryCounts
<1>5. /\ messagesReceived' < numMessages' /\ serving.i <= content[seqMsg].seq
  BY <1>1, <1>3, <1>4
<1>6. \/ reqs' = <<>>
      \/ reqs' = <<[start |-> nextSequence, end |-> content[seqMsg].seq - 1]>>
  BY <1>1, <1>3
<1>7. Quiet'
  BY DEF Quiet, InRecovery
<1>8. Requested'
  BY <1>1, <1>3, <1>5, <1>6 DEF Requested, ServerIdle
<1>9. Answer'
  <2>1. Rising(<<>>) /\ \A a, b : Between(<<>>, a, b)
    BY DEF Rising, Between
  <2>2. QED
    BY <1>1, <1>3, <1>5, <2>1 DEF Answer, ServerIdle
<1>10. QED
  BY <1>1, <1>3, <1>7, <1>8, <1>9 DEF Clean

\* receiveRecoveryMessages has counted all its messages: the stream is used up.
LEMMA AnswerComplete ==
    ASSUME TypeInv, OrderInv, AnswerInv, RecoveryComplete
    PROVE  AnswerInv'
<1>1. /\ spc = "wait" /\ spc' = "forward" /\ messagesReceived >= numMessages
      /\ UNCHANGED <<stream, reqs, serverUp, serving, nextSequence, aborted, content>>
  BY DEF RecoveryComplete, SUnchanged, serverVars, tcpVars, poolVars
<1>2. SUFFICES ASSUME ~aborted PROVE Quiet' /\ Requested' /\ Answer' /\ Clean'
  BY <1>1 DEF AnswerInv
<1>3. /\ stream \in Seq(Halves) /\ Len(stream) \in Nat /\ nextSequence \in Nat
      /\ messagesReceived \in Nat /\ numMessages \in Int
      /\ serving.i \in Nat /\ serving.last \in Int /\ content[seqMsg].seq \in Int
  BY <1>1, AnswerTypes
<1>4. content[seqMsg].seq = nextSequence
  BY <1>1, <1>2, <1>3 DEF OrderInv, RecoveryCounts, InRecovery
<1>5. /\ Expected = nextSequence /\ Answer /\ InRecovery
      /\ reqs = <<>> /\ Clean
  BY <1>1, <1>2, <1>3 DEF AnswerInv, Requested, Doomed, Expected, InRecovery
<1>6. serving.i <= nextSequence
  BY <1>4, <1>5 DEF Answer
<1>7. stream = <<>>
  <2>1. ASSUME Len(stream) # 0 PROVE FALSE
    <3>1. 1 \in 1 .. Len(stream)
      BY <1>3, <2>1
    <3>2. Code(stream[1]) \in Int
      BY <1>3, <3>1, ElementOfSeq, CodeValues
    <3>3. 2 * nextSequence < Code(stream[1]) /\ Code(stream[1]) <= 2 * serving.i
      BY <1>5, <3>1 DEF Answer, Between
    <3>4. QED
      BY <1>3, <1>6, <3>2, <3>3
  <2>2. QED
    BY <1>3, <2>1, EmptySeq
<1>8. serverUp => ServerIdle
  BY <1>3, <1>4, <1>5, <1>6 DEF Answer, ServerIdle
<1>9. Quiet'
  BY <1>1, <1>5, <1>6, <1>7, <1>8 DEF Quiet, ServerIdle
<1>10. QED
  BY <1>1, <1>5, <1>9 DEF Requested, Answer, Clean, InRecovery

\* A buffer is taken for the next message.
LEMMA AnswerAllocate ==
    ASSUME TypeInv, ClosedInv, AnswerInv, RecoveryAllocate, spc' = "recv"
    PROVE  AnswerInv'
<1>1. /\ spc = "wait" /\ (stream # <<>> \/ conn = "closed")
      /\ UNCHANGED <<stream, reqs, serverUp, serving, nextSequence, seqMsg,
                     messagesReceived, numMessages, aborted, content>>
  BY DEF RecoveryAllocate, SUnchanged, serverVars, tcpVars
<1>2. SUFFICES ASSUME ~aborted
               PROVE  Quiet' /\ Requested' /\ Answer' /\ (Clean' \/ Doomed')
  BY <1>1 DEF AnswerInv
<1>3. reqs = <<>>
  BY <1>1, <1>2 DEF AnswerInv, Requested, ClosedInv
<1>4. Expected' = Expected
  BY <1>1 DEF Expected
<1>5. Answer'
  BY <1>1, <1>2, <1>4 DEF AnswerInv, Answer, InRecovery, ServerIdle
<1>6. Doomed => Doomed'
  BY <1>1 DEF Doomed, InRecovery, ServerIdle
<1>7. Clean => Clean'
  BY <1>1 DEF Clean
<1>8. QED
  BY <1>1, <1>2, <1>3, <1>5, <1>6, <1>7 DEF AnswerInv, Quiet, Requested, InRecovery

\* What holds when receiveRecoveryMessages calls recv(): the message it needs has
\* not been read yet, and it is one of the store.
LEMMA AnswerAtRecv ==
    ASSUME TypeInv, OrderInv, AnswerInv, ~aborted, spc = "recv"
    PROVE  /\ messagesReceived < numMessages
           /\ nextSequence # Garbage
           /\ reqs = <<>> /\ Expected = nextSequence /\ InRecovery
           /\ Rising(stream) /\ Between(stream, nextSequence, serving.i)
           /\ serverUp /\ ~ServerIdle => serving.last < content[seqMsg].seq
           /\ serving.i <= content[seqMsg].seq
<1>1. /\ nextSequence \in Nat /\ messagesReceived \in Nat /\ numMessages \in Int
      /\ seqMsg \in Slots /\ content[seqMsg].seq \in Int
      /\ content[seqMsg].seq <= Garbage /\ Garbage \in Int
  BY AnswerTypes, NumTradesAssumption DEF Garbage
<1>2. /\ messagesReceived < numMessages
      /\ numMessages - messagesReceived = content[seqMsg].seq - nextSequence
  BY DEF OrderInv, RecoveryCounts, InRecovery
<1>3. nextSequence # Garbage
  BY <1>1, <1>2
<1>4. Expected = nextSequence /\ InRecovery
  BY DEF Expected, InRecovery
<1>5. QED
  BY <1>2, <1>3, <1>4 DEF AnswerInv, Requested, Answer

\* What is left of the stream behind a whole message.
LEMMA RestOfTwo ==
    ASSUME NEW s \in Seq(Halves), Len(s) >= 2
    PROVE  LET t == SubSeq(s, 3, Len(s)) IN
           /\ t \in Seq(Halves) /\ Len(t) = Len(s) - 2
           /\ \A k \in 1 .. Len(t) : t[k] = s[k + 2]
<1> DEFINE t == SubSeq(s, 3, Len(s))
<1>1. /\ Len(s) \in Nat /\ 3 \in Int /\ Len(s) \in Int
      /\ \A k \in 3 .. Len(s) : s[k] \in Halves
  BY LenProperties, ElementOfSeq
<1>2. /\ t \in Seq(Halves)
      /\ Len(t) = IF 3 <= Len(s) THEN Len(s) - 3 + 1 ELSE 0
      /\ \A k \in 1 .. Len(s) - 3 + 1 : t[k] = s[3 + k - 1]
  BY <1>1, SubSeqProperties
<1>3. /\ Len(s) - 3 + 1 = Len(s) - 2
      /\ (IF 3 <= Len(s) THEN Len(s) - 3 + 1 ELSE 0) = Len(s) - 2
      /\ \A k \in 1 .. Len(s) - 2 : 3 + k - 1 = k + 2
  <2>1. \A L \in Nat : L >= 2 =>
          /\ L - 3 + 1 = L - 2
          /\ (IF 3 <= L THEN L - 3 + 1 ELSE 0) = L - 2
          /\ \A k \in 1 .. L - 2 : 3 + k - 1 = k + 2
    OBVIOUS
  <2>2. QED
    BY <1>1, <2>1
<1> HIDE DEF t
<1>4. t \in Seq(Halves) /\ Len(t) = Len(s) - 2 /\ \A k \in 1 .. Len(t) : t[k] = s[k + 2]
  BY <1>1, <1>2, <1>3
<1>5. QED
  BY <1>4 DEF t

\* recv() returns a whole message, or what looks like one.
LEMMA AnswerRecvWhole ==
    ASSUME TypeInv, Owned, OrderInv, AnswerInv, RecoveryRecvWhole
    PROVE  AnswerInv'
<1> DEFINE w == WholeMessage(stream)
<1>1. /\ spc = "recv" /\ spc' = "deliver" /\ Len(stream) >= 2
      /\ stream' = SubSeq(stream, 3, Len(stream))
      /\ content' = [content EXCEPT ![recSlot] = w]
      /\ UNCHANGED <<reqs, serverUp, serving, nextSequence, seqMsg, recSlot,
                     messagesReceived, numMessages, aborted>>
  BY DEF RecoveryRecvWhole, SUnchanged, serverVars
<1>2. SUFFICES ASSUME ~aborted
               PROVE  Quiet' /\ Requested' /\ Answer' /\ (Clean' \/ Doomed')
  BY <1>1 DEF AnswerInv
<1>3. /\ stream \in Seq(Halves) /\ nextSequence \in Nat /\ serving.i \in Nat
      /\ recSlot \in Slots /\ seqMsg \in Slots
      /\ content \in [Slots -> Contents]
  BY <1>1, AnswerTypes
<1>4. /\ messagesReceived < numMessages /\ nextSequence # Garbage
      /\ reqs = <<>> /\ InRecovery
      /\ Rising(stream) /\ Between(stream, nextSequence, serving.i)
      /\ serverUp /\ ~ServerIdle => serving.last < content[seqMsg].seq
      /\ serving.i <= content[seqMsg].seq
  BY <1>1, <1>2, AnswerAtRecv
<1>5. content'[seqMsg] = content[seqMsg] /\ content'[recSlot] = w
  <2>1. Disjoint(Owners)
    BY OwnedAsFunction
  <2>2. seqMsg # recSlot
    BY <1>3, <2>1, OwnersValues, SlotsAssumption DEF Disjoint, Places
  <2>3. QED
    BY <1>1, <1>3, <2>2
<1>6. /\ stream' \in Seq(Halves) /\ Len(stream') = Len(stream) - 2
      /\ \A k \in 1 .. Len(stream') : stream'[k] = stream[k + 2]
  BY <1>1, <1>3, RestOfTwo
<1>7. /\ Rising(stream') /\ Between(stream', nextSequence, serving.i)
      /\ Without(stream', nextSequence) /\ nextSequence < serving.i
      /\ Code(stream[1]) = 2 * nextSequence + 1 =>
            Between(stream', nextSequence + 1, serving.i)
  <2>1. /\ 2 \in 1 .. 2 /\ nextSequence \in Int /\ serving.i \in Int
        /\ Len(stream) >= 2
    BY <1>1, <1>3
  <2>2. /\ Rising(stream') /\ Between(stream', nextSequence, serving.i)
        /\ Without(stream', nextSequence) /\ nextSequence < serving.i
        /\ 2 = 2 /\ Code(stream[1]) = 2 * nextSequence + 1 =>
              Between(stream', nextSequence + 1, serving.i)
    BY <1>3, <1>4, <1>6, <2>1, StreamRest
  <2>3. QED
    BY <2>2
<1>8. /\ stream[1] \in Halves /\ 1 \in 1 .. Len(stream)
  <2>1. Len(stream) \in Nat
    BY <1>3, LenProperties
  <2>2. 1 \in 1 .. Len(stream)
    BY <1>1, <2>1
  <2>3. QED
    BY <1>3, <2>2, ElementOfSeq
<1>9. w.genuine \/ w.seq = Garbage
  BY DEF WholeMessage, Trade
<1>10. Quiet' /\ Requested' /\ InRecovery'
  BY <1>1, <1>4 DEF Quiet, Requested, InRecovery
<1> HIDE DEF w
<1>11. CASE w.seq = nextSequence
  <2>1. stream[1].half = 1 /\ w = Trade(stream[1].seq) /\ stream[1].seq = nextSequence
    BY <1>4, <1>11 DEF WholeMessage, Trade, w
  <2>2. Code(stream[1]) = 2 * nextSequence + 1
    BY <1>8, <2>1, CodeValues
  <2>3. Clean
    BY <1>2, <1>8, <2>2 DEF AnswerInv, Doomed, Without
  <2>4. stream[1].seq \in Trades
    BY <1>8 DEF Halves
  <2>5. Clean'
    BY <1>1, <1>3, <2>1, <2>3, <2>4 DEF Clean
  <2>6. Expected' = nextSequence + 1
    BY <1>1, <1>5, <1>11 DEF Expected
  <2>7. nextSequence + 1 <= serving.i
    BY <1>3, <1>7
  <2>8. Answer'
    BY <1>1, <1>4, <1>5, <1>7, <1>9, <2>2, <2>6, <2>7 DEF Answer, ServerIdle
  <2>9. QED
    BY <1>10, <2>5, <2>8
<1>12. CASE w.seq # nextSequence
  <2>1. Expected' = nextSequence
    BY <1>1, <1>5, <1>12 DEF Expected
  <2>2. nextSequence <= serving.i
    BY <1>3, <1>7
  <2>3. Answer'
    BY <1>1, <1>4, <1>5, <1>7, <1>9, <2>1, <2>2 DEF Answer, ServerIdle
  <2>4. serving.i > nextSequence
    BY <1>3, <1>7
  <2>5. Doomed'
    BY <1>1, <1>4, <1>5, <1>7, <1>10, <1>12, <2>4 DEF Doomed
  <2>6. QED
    BY <1>10, <2>3, <2>5
<1>13. QED
  BY <1>11, <1>12

\* recv() returns part of a message, which is thrown away: the recovery cannot
\* come to its end any more.
LEMMA AnswerRecvPart ==
    ASSUME TypeInv, Owned, OrderInv, AnswerInv, RecoveryRecvPart
    PROVE  AnswerInv'
<1>1. /\ spc = "recv" /\ spc' = "wait" /\ stream # <<>>
      /\ stream' = Tail(stream)
      /\ content' = [content EXCEPT ![recSlot] = PartOfMessage(stream)]
      /\ UNCHANGED <<reqs, serverUp, serving, nextSequence, seqMsg,
                     messagesReceived, numMessages, aborted>>
  BY DEF RecoveryRecvPart, SUnchanged, serverVars
<1>2. SUFFICES ASSUME ~aborted PROVE Quiet' /\ Requested' /\ Answer' /\ Doomed'
  BY <1>1 DEF AnswerInv
<1>3. /\ stream \in Seq(Halves) /\ nextSequence \in Nat /\ serving.i \in Nat
      /\ recSlot \in Slots /\ seqMsg \in Slots
      /\ content \in [Slots -> Contents]
  BY <1>1, AnswerTypes
<1>4. /\ messagesReceived < numMessages /\ reqs = <<>>
      /\ Rising(stream) /\ Between(stream, nextSequence, serving.i)
      /\ serverUp /\ ~ServerIdle => serving.last < content[seqMsg].seq
      /\ serving.i <= content[seqMsg].seq
  BY <1>1, <1>2, AnswerAtRecv
<1>5. content'[seqMsg] = content[seqMsg]
  <2>1. Disjoint(Owners)
    BY OwnedAsFunction
  <2>2. seqMsg # recSlot
    BY <1>3, <2>1, OwnersValues, SlotsAssumption DEF Disjoint, Places
  <2>3. QED
    BY <1>1, <1>3, <2>2
<1>6. /\ stream' \in Seq(Halves) /\ Len(stream') = Len(stream) - 1
      /\ \A k \in 1 .. Len(stream') : stream'[k] = stream[k + 1]
      /\ Len(stream) >= 1
  BY <1>1, <1>3, HeadTailProperties, EmptySeq
<1>7. /\ Rising(stream') /\ Between(stream', nextSequence, serving.i)
      /\ Without(stream', nextSequence) /\ nextSequence < serving.i
  <2>1. 1 \in 1 .. 2 /\ nextSequence \in Int /\ serving.i \in Int
    BY <1>3
  <2>2. QED
    BY <1>3, <1>4, <1>6, <2>1, StreamRest
<1>8. /\ nextSequence <= serving.i /\ serving.i > nextSequence
  BY <1>3, <1>7
<1>9. Quiet' /\ Requested' /\ InRecovery' /\ Expected' = nextSequence
  BY <1>1, <1>4 DEF Quiet, Requested, InRecovery, Expected
<1>10. Answer'
  BY <1>1, <1>4, <1>5, <1>7, <1>8, <1>9 DEF Answer, ServerIdle
<1>11. Doomed'
  BY <1>1, <1>4, <1>7, <1>8, <1>9 DEF Doomed
<1>12. QED
  BY <1>9, <1>10, <1>11

\* onRecoveredMsg hands the message over.
LEMMA AnswerDelivered ==
    ASSUME TypeInv, AnswerInv, OnRecoveredMsg, content[recSlot].seq = nextSequence
    PROVE  AnswerInv'
<1>1. /\ spc = "deliver" /\ spc' = "wait" /\ nextSequence' = nextSequence + 1
      /\ UNCHANGED <<stream, reqs, serverUp, serving, seqMsg, aborted, content>>
  BY DEF OnRecoveredMsg, HandOver, SUnchanged, serverVars, tcpVars, poolVars
<1>2. SUFFICES ASSUME ~aborted PROVE Quiet' /\ Requested' /\ Answer' /\ Clean'
  BY <1>1 DEF AnswerInv
<1>3. reqs = <<>> /\ Clean /\ Answer /\ InRecovery
  BY <1>1, <1>2 DEF AnswerInv, Requested, Doomed, InRecovery
<1>4. Expected = nextSequence + 1 /\ Expected' = nextSequence + 1 /\ InRecovery'
  BY <1>1 DEF Expected, InRecovery
<1>5. Answer'
  BY <1>1, <1>3, <1>4 DEF Answer, ServerIdle
<1>6. QED
  BY <1>1, <1>3, <1>4, <1>5 DEF Quiet, Requested, Clean

\* The other steps leave the recovery alone: at most, the receiver writes a trade
\* into its own buffer.
LEMMA RecoveryLeftAlone ==
    ASSUME TypeInv, Owned,
           \/ CreateSnapshotServer \/ Accept \/ MulticastSend
           \/ ReceiverNext \/ DBNext \/ MainNext \/ LoggerDies \/ Finished \/ UNCHANGED vars
    PROVE  /\ UNCHANGED answerVars
           /\ InRecovery => content'[seqMsg] = content[seqMsg]
           /\ spc = "deliver" => content'[recSlot] = content[recSlot]
           /\ Clean => Clean'
<1>1. UNCHANGED answerVars
  BY DEF answerVars, vars, serverVars, tcpVars, seqVars, CreateSnapshotServer,
     Accept, MulticastSend, ReceiverNext, ReceiverLoop, ReceiverAllocate,
     ReceiveDatagram, ReceiveShutdown, ReceiveError, RUnchanged, DBNext, runSingle,
     runBatch, runCopy, DBDequeue, DBLeaveLoop, CommitSingle, CommitBatch,
     CommitCopy, Commit, DBRelease, DUnchanged, MainNext, StopSequencer,
     StopReceiver, StopDB, SUnchanged, LoggerDies, Terminate, Finished
<1>2. \/ content' = content
      \/ /\ rSlot \in Slots
         /\ \E t \in Trades : content' = [content EXCEPT ![rSlot] = Trade(t)]
  BY DEF vars, poolVars, CreateSnapshotServer, Accept, MulticastSend, ReceiverNext,
     ReceiverLoop, ReceiverAllocate, ReceiveDatagram, ReceiveShutdown, ReceiveError,
     DBNext, runSingle, runBatch, runCopy, DBDequeue, DBLeaveLoop, CommitSingle,
     CommitBatch, CommitCopy, Commit, DBRelease, MainNext, StopSequencer,
     StopReceiver, StopDB, LoggerDies, Terminate, Finished,
    TypeInv, TypeOK, HandsMatch
<1>3. CASE content' = content
  BY <1>1, <1>3 DEF Clean
<1>4. ASSUME rSlot \in Slots, NEW t \in Trades,
             content' = [content EXCEPT ![rSlot] = Trade(t)]
      PROVE  /\ InRecovery => content'[seqMsg] = content[seqMsg]
             /\ spc = "deliver" => content'[recSlot] = content[recSlot]
             /\ Clean => Clean'
  <2>1. /\ content \in [Slots -> Contents]
        /\ InRecovery => seqMsg \in Slots
        /\ spc = "deliver" => recSlot \in Slots
    BY AnswerTypes DEF InRecovery
  <2>2. Disjoint(Owners)
    BY OwnedAsFunction
  <2>3. /\ seqMsg \in Slots => seqMsg # rSlot
        /\ recSlot \in Slots => recSlot # rSlot
    BY <1>4, <2>2, OwnersValues, SlotsAssumption DEF Disjoint, Places
  <2>4. /\ InRecovery => content'[seqMsg] = content[seqMsg]
        /\ spc = "deliver" => content'[recSlot] = content[recSlot]
    BY <1>4, <2>1, <2>3
  <2>5. Clean => Clean'
    BY <1>4, <2>1 DEF Clean
  <2>6. QED
    BY <2>4, <2>5
<1>5. QED
  BY <1>1, <1>2, <1>3, <1>4

\* Such a step keeps AnswerInv.
LEMMA AnswerOthers ==
    ASSUME TypeInv, Owned, AnswerInv,
           \/ CreateSnapshotServer \/ Accept \/ MulticastSend
           \/ ReceiverNext \/ DBNext \/ MainNext \/ LoggerDies \/ Finished \/ UNCHANGED vars
    PROVE  AnswerInv'
  BY RecoveryLeftAlone, AnswerKept

\* Every step behind which the client still runs keeps AnswerInv.  (A request that
\* epoll_create1() or epoll_ctl() failed behind is answered to nobody.)
LEMMA AnswerStep ==
    TypeInv /\ Owned /\ OrderInv /\ ClosedInv /\ AnswerInv /\ [Steady]_vars /\ alive'
        => AnswerInv'
<1> SUFFICES ASSUME TypeInv, Owned, OrderInv, ClosedInv, AnswerInv, [Steady]_vars,
                    alive'
             PROVE  AnswerInv'
  OBVIOUS
<1>1. CASE ServerNext
  BY <1>1, AnswerOthers, AnswerReadRequest, AnswerSendGapMsg, AnswerServerDies
  DEF ServerNext
<1>2. CASE ReceiverNext \/ DBNext \/ MainNext \/ LoggerDies \/ Finished \/ UNCHANGED vars
  BY <1>2, AnswerOthers
<1>3. ASSUME UNCHANGED <<answerVars, content>> PROVE AnswerInv'
  BY <1>3, AnswerKept DEF Clean
<1>4. CASE SendRecoveryRequest
  <2>1. CASE spc' = "wait"
    BY <1>4, <2>1, AnswerRequest
  <2>2. CASE spc' # "wait"
    BY <1>4, <2>2 DEF SendRecoveryRequest, Terminate
  <2>3. QED
    BY <2>1, <2>2
<1>5. CASE RecoveryAllocate
  <2>1. CASE spc' = "recv"
    BY <1>5, <2>1, AnswerAllocate
  <2>2. CASE spc' # "recv"
    BY <1>3, <1>5, <2>2 DEF RecoveryAllocate, SUnchanged, serverVars, tcpVars,
                            answerVars
  <2>3. QED
    BY <2>1, <2>2
<1>6. CASE OnRecoveredMsg
  <2>1. CASE content[recSlot].seq = nextSequence
    BY <1>6, <2>1, AnswerDelivered
  <2>2. CASE content[recSlot].seq # nextSequence
    BY <1>3, <1>6, <2>2 DEF OnRecoveredMsg, SUnchanged, serverVars, tcpVars,
                            poolVars, answerVars
  <2>3. QED
    BY <2>1, <2>2
<1>7. CASE RecoveryTimeout
  BY <1>2, <1>7 DEF RecoveryTimeout
<1>8. CASE RecoveryInterrupted \/ RecoveryRecvClosed
  BY <1>8 DEF RecoveryInterrupted, RecoveryRecvClosed, AnswerInv
<1>9. CASE Connect \/ SequencerLoop \/ SequencerDequeue \/ DropOld \/ Forward
  BY <1>9, AnswerSequencer
<1>10. CASE RecoveryComplete \/ RecoveryRecvWhole \/ RecoveryRecvPart
  BY <1>10, AnswerComplete, AnswerRecvWhole, AnswerRecvPart
<1>11. QED
  BY <1>1, <1>2, <1>4, <1>5, <1>6, <1>7, <1>8, <1>9, <1>10
  DEF Steady, SequencerNext, RecoveryNext

\* A closed connection holds no request.
LEMMA ClosedStep == ClosedInv /\ [Steady]_vars => ClosedInv'
<1> SUFFICES ASSUME ClosedInv, [Steady]_vars PROVE ClosedInv'
  OBVIOUS
<1>1. CASE ServerNext
  BY <1>1 DEF ServerNext, CreateSnapshotServer, Accept, ReadRequest, SendGapMsg,
              MulticastSend, ServerDies, ClosedInv, tcpVars
<1>2. CASE SequencerNext
  BY <1>2 DEF SequencerNext, RecoveryNext, Connect, SequencerLoop,
     SequencerDequeue, DropOld, Forward, SendRecoveryRequest, RequestSent,
     RecoveryComplete, RecoveryAllocate, RecoveryTimeout, RecoveryInterrupted,
     RecoveryRecvWhole, RecoveryRecvPart, RecoveryRecvClosed, OnRecoveredMsg,
     SUnchanged, ClosedInv,
     tcpVars, vars
<1>3. CASE ReceiverNext \/ DBNext \/ MainNext \/ LoggerDies \/ Finished \/ UNCHANGED vars
  <2>1. UNCHANGED <<conn, reqs>>
    BY <1>3 DEF vars, tcpVars, ReceiverNext, ReceiverLoop, ReceiverAllocate,
       ReceiveDatagram, ReceiveShutdown, ReceiveError, RUnchanged, DBNext,
       runSingle, runBatch, runCopy, DBDequeue, DBLeaveLoop, CommitSingle,
       CommitBatch, CommitCopy, Commit, DBRelease, DUnchanged, MainNext,
       StopSequencer, StopReceiver, StopDB, SUnchanged, LoggerDies, Terminate, Finished
  <2>2. QED
    BY <2>1 DEF ClosedInv
<1>4. QED
  BY <1>1, <1>2, <1>3 DEF Steady

\* A terminated client does nothing any more.
LEMMA DeadStays ==
    ASSUME [Steady]_vars, ~alive
    PROVE  ~alive'
<1>1. CASE ServerNext \/ LoggerDies \/ Finished \/ UNCHANGED vars
  BY <1>1 DEF vars, ServerNext, CreateSnapshotServer, Accept, ReadRequest,
     SendGapMsg, MulticastSend, ServerDies, LoggerDies, Finished
<1>2. CASE ReceiverNext \/ DBNext \/ MainNext
  BY <1>2 DEF ReceiverNext, ReceiverLoop, ReceiverAllocate, ReceiveDatagram,
     ReceiveShutdown, ReceiveError, DBNext, runSingle, runBatch, runCopy, DBDequeue,
     DBLeaveLoop, CommitSingle, CommitBatch, CommitCopy, Commit, DBRelease,
     MainNext, StopSequencer, StopReceiver, StopDB
<1>3. CASE SequencerNext
  BY <1>3 DEF SequencerNext, Connect, SequencerLoop, SequencerDequeue, DropOld,
     Forward, RecoveryNext, SendRecoveryRequest, RecoveryComplete,
     RecoveryAllocate, RecoveryTimeout, RecoveryInterrupted, RecoveryRecvWhole,
     RecoveryRecvPart, RecoveryRecvClosed, OnRecoveredMsg
<1>4. QED
  BY <1>1, <1>2, <1>3 DEF Steady

\* Behind an overtaken dequeue() nothing is modelled.
Ended == Overtaken => ~alive

\* Ended is an invariant.
LEMMA EndedInvariant == Spec => []Ended
<1>1. Init => Ended
  BY DEF Init, Ended, Overtaken
<1>2. ASSUME TypeInv, Ended, [Next]_vars PROVE Ended'
  <2>1. CASE ReceiverOvertakes \/ SequencerOvertakes
    BY <2>1 DEF ReceiverOvertakes, SequencerOvertakes, Ended
  <2>2. CASE [Steady]_vars
    BY <1>2, <2>2, SteadyKeeps, DeadStays DEF Ended
  <2>3. QED
    BY <1>2, <2>1, <2>2 DEF Next, Steady
<1>3. QED
  BY TypeInvariant, <1>1, <1>2, PTL DEF Spec

\* AnswerInv and ClosedInv are invariants of a running client.
LEMMA AnswerInvariant ==
    Spec => [](~Overtaken => ClosedInv /\ (alive => AnswerInv))
<1>1. Init => AnswerInv /\ ClosedInv
  <2> SUFFICES ASSUME Init PROVE AnswerInv /\ ClosedInv
    OBVIOUS
  <2>1. /\ spc = "connect" /\ stream = <<>> /\ reqs = <<>>
        /\ serving = [i |-> 1, last |-> 0] /\ content = [s \in Slots |-> Blank]
    BY DEF Init
  <2>2. ServerIdle /\ serving.i <= 1 /\ ~InRecovery
    BY <2>1 DEF ServerIdle, InRecovery
  <2>3. QED
    BY <2>1, <2>2 DEF AnswerInv, ClosedInv, Quiet, Requested, Answer, Clean
<1>2. TypeInv /\ OneOwner /\ (~Overtaken => OrderInv) /\ [Next]_vars
      /\ (~Overtaken => ClosedInv /\ (alive => AnswerInv))
         => (~Overtaken' => ClosedInv' /\ (alive' => AnswerInv'))
  BY CalmStep, DeadStays, AnswerStep, ClosedStep DEF OneOwner
<1>3. QED
  BY TypeInvariant, OneOwnerCorrect, OrderInvariant, <1>1, <1>2, PTL DEF Spec

-----------------------------------------------------------------------------
\* The buffers on their way through the sequencer.
Sequencing == RangeOf(recvQ) \union ({seqMsg} \ {NoSlot})

\* A buffer without a trade is on its way only after StopReceiver: recv() returned
\* without a datagram because of the shutdown of the socket.
BlankLate == \A s \in Sequencing : content[s] = Blank => ~runR

\* What a step adds to the buffers on their way.
LEMMA SequencingStep ==
    ASSUME TypeInv, Owned, [Steady]_vars, NEW s \in Sequencing'
    PROVE  s \in Sequencing \/ content'[s] # Blank \/ ~runR'
<1>1. recvQ \in Seq(Slots) /\ content \in [Slots -> Contents] /\ Distinct(recvQ)
  BY DEF TypeInv, TypeOK, Owned
<1>2. CASE UNCHANGED <<recvQ, seqMsg>> \/ (recvQ' = recvQ /\ seqMsg' = NoSlot)
  BY <1>2 DEF Sequencing, RangeOf
<1>3. CASE recvQ # <<>> /\ recvQ' = Tail(recvQ) /\ seqMsg' = Head(recvQ)
  <2>1. /\ Head(recvQ) \in RangeOf(recvQ)
        /\ RangeOf(Tail(recvQ)) \subseteq RangeOf(recvQ) \ {Head(recvQ)}
    BY <1>1, <1>3, DequeueProperties
  <2>2. QED
    BY <1>3, <2>1 DEF Sequencing
<1>4. ASSUME rSlot \in Slots, recvQ' = Enqueue(recvQ, rSlot), seqMsg' = seqMsg,
             content'[rSlot] # Blank \/ ~runR'
      PROVE  s \in Sequencing \/ content'[s] # Blank \/ ~runR'
  <2>1. RangeOf(recvQ') \subseteq RangeOf(recvQ) \union {rSlot}
    BY <1>1, <1>4, EnqueueProperties
  <2>2. QED
    BY <1>4, <2>1 DEF Sequencing
<1>5. CASE ReceiveDatagram
  <2>1. PICK t \in Trades : content' = [content EXCEPT ![rSlot] = Trade(t)]
    BY <1>5 DEF ReceiveDatagram
  <2>2. rSlot \in Slots
    BY <1>5 DEF ReceiveDatagram, TypeInv, TypeOK, HandsMatch
  <2>3. content'[rSlot] # Blank
    BY <1>1, <2>1, <2>2 DEF Trade, Blank
  <2>4. recvQ' = Enqueue(recvQ, rSlot) /\ seqMsg' = seqMsg
    BY <1>5 DEF ReceiveDatagram, ReceiverEnqueue, RUnchanged, seqVars
  <2>5. QED
    BY <1>4, <2>2, <2>3, <2>4
<1>6. CASE ReceiveShutdown
  <2>1. rSlot \in Slots
    BY <1>6 DEF ReceiveShutdown, TypeInv, TypeOK, HandsMatch
  <2>2. recvQ' = Enqueue(recvQ, rSlot) /\ seqMsg' = seqMsg /\ ~runR'
    BY <1>6 DEF ReceiveShutdown, ReceiverEnqueue, RUnchanged, seqVars
  <2>3. QED
    BY <1>4, <2>1, <2>2
<1>7. CASE SequencerDequeue
  BY <1>2, <1>3, <1>7 DEF SequencerDequeue
<1>8. CASE DropOld \/ Forward
  BY <1>2, <1>8 DEF DropOld, Forward
<1>9. CASE ReceiverLoop \/ ReceiverAllocate \/ ReceiveError
  BY <1>2, <1>9 DEF ReceiverLoop, ReceiverAllocate, ReceiveError, RUnchanged, seqVars
<1>10. CASE Connect \/ SequencerLoop \/ RecoveryNext
  BY <1>2, <1>10 DEF Connect, SequencerLoop, RecoveryNext, SendRecoveryRequest,
     RecoveryComplete, RecoveryAllocate, RecoveryTimeout, RecoveryInterrupted,
     RecoveryRecvWhole, RecoveryRecvPart, RecoveryRecvClosed, OnRecoveredMsg,
     vars, seqVars
<1>11. CASE ServerNext \/ DBNext \/ MainNext \/ LoggerDies \/ Finished \/ UNCHANGED vars
  BY <1>2, <1>11 DEF vars, seqVars, ServerNext, CreateSnapshotServer, Accept,
     ReadRequest, SendGapMsg, MulticastSend, ServerDies, DBNext, runSingle,
     runBatch, runCopy, DBDequeue, DBLeaveLoop, CommitSingle, CommitBatch,
     CommitCopy, Commit, DBRelease, DUnchanged, MainNext, StopSequencer,
     StopReceiver, RUnchanged, StopDB, LoggerDies, Terminate, Finished
<1>12. QED
  BY <1>5, <1>6, <1>7, <1>8, <1>9, <1>10, <1>11 DEF Steady, ReceiverNext, SequencerNext

\* Nobody sets the receiver's run flag again.
LEMMA StopsForGood == [Steady]_vars => (runR' => runR)
<1> SUFFICES ASSUME [Steady]_vars PROVE runR' => runR
  OBVIOUS
<1>1. CASE ReceiverNext \/ MainNext \/ LoggerDies \/ Finished \/ UNCHANGED vars
  BY <1>1 DEF vars, recvVars, ReceiverNext, ReceiverLoop, ReceiverAllocate,
     ReceiveDatagram, ReceiveShutdown, ReceiveError, MainNext, StopSequencer,
     StopReceiver, StopDB, SUnchanged, DUnchanged, LoggerDies, Terminate, Finished
<1>2. CASE ServerNext \/ DBNext
  BY <1>2 DEF recvVars, ServerNext, CreateSnapshotServer, Accept, ReadRequest,
     SendGapMsg, MulticastSend, ServerDies, DBNext, runSingle, runBatch, runCopy,
     DBDequeue, DBLeaveLoop, CommitSingle, CommitBatch, CommitCopy, Commit,
     DBRelease, DUnchanged
<1>3. CASE SequencerNext
  BY <1>3 DEF recvVars, vars, SequencerNext, Connect, SequencerLoop,
     SequencerDequeue, DropOld, Forward, RecoveryNext, SendRecoveryRequest,
     RecoveryComplete, RecoveryAllocate, RecoveryTimeout, RecoveryInterrupted,
     RecoveryRecvWhole, RecoveryRecvPart, RecoveryRecvClosed, OnRecoveredMsg,
     SUnchanged
<1>4. QED
  BY <1>1, <1>2, <1>3 DEF Steady

\* BlankLate is kept.
LEMMA BlankLateStep == TypeInv /\ Owned /\ BlankLate /\ [Steady]_vars => BlankLate'
<1> SUFFICES ASSUME TypeInv, Owned, BlankLate, [Steady]_vars,
                    NEW s \in Sequencing', content'[s] = Blank
             PROVE  ~runR'
  BY DEF BlankLate
<1>1. s \in Sequencing \/ ~runR'
  BY SequencingStep
<1>2. s \in Sequencing => content'[s] = content[s]
  <2>1. Untouched
    BY UntouchedStep
  <2>2. QED
    BY <2>1 DEF Untouched, Sequencing, Held
<1>3. QED
  BY <1>1, <1>2, StopsForGood DEF BlankLate

\* What a step appends to the messages handed over.
LEMMA HandedStep ==
    ASSUME TypeInv, OrderInv, [Steady]_vars
    PROVE  \/ handed' = handed /\ aborted' = aborted
           \/ aborted'
           \/ /\ alive /\ spc = "forward" /\ seqMsg \in Slots /\ aborted' = aborted
              /\ handed' = Append(handed, content[seqMsg])
           \/ /\ alive /\ spc = "deliver" /\ recSlot \in Slots /\ aborted' = aborted
              /\ content[recSlot].seq = nextSequence
              /\ handed' = Append(handed, content[recSlot])
<1>1. CASE Forward
  BY <1>1, AnswerTypes DEF Forward, HandOver
<1>2. CASE OnRecoveredMsg
  BY <1>2, AnswerTypes DEF OnRecoveredMsg, HandOver
<1>3. CASE RecoveryInterrupted \/ RecoveryRecvClosed
  BY <1>3 DEF RecoveryInterrupted, RecoveryRecvClosed
<1>4. CASE Connect \/ SequencerLoop \/ SequencerDequeue \/ DropOld
  BY <1>4 DEF Connect, SequencerLoop, SequencerDequeue, DropOld
<1>5. CASE \/ SendRecoveryRequest \/ RecoveryComplete \/ RecoveryAllocate
           \/ RecoveryTimeout \/ RecoveryRecvWhole \/ RecoveryRecvPart
  BY <1>5 DEF SendRecoveryRequest, RecoveryComplete, RecoveryAllocate,
     RecoveryTimeout, RecoveryRecvWhole, RecoveryRecvPart, vars, seqVars
<1>6. CASE ServerNext \/ MainNext \/ LoggerDies \/ Finished \/ UNCHANGED vars
  BY <1>6 DEF vars, seqVars, ServerNext, CreateSnapshotServer, Accept,
     ReadRequest, SendGapMsg, MulticastSend, ServerDies, MainNext, StopSequencer,
     StopReceiver, RUnchanged, StopDB, DUnchanged, LoggerDies, Terminate, Finished
<1>7. CASE ReceiverNext \/ DBNext
  BY <1>7 DEF seqVars, ReceiverNext, ReceiverLoop, ReceiverAllocate,
     ReceiveDatagram, ReceiveShutdown, ReceiveError, RUnchanged, DBNext,
     runSingle, runBatch, runCopy, DBDequeue, DBLeaveLoop, CommitSingle,
     CommitBatch, CommitCopy, Commit, DBRelease, DUnchanged
<1>8. QED
  BY <1>1, <1>2, <1>3, <1>4, <1>5, <1>6, <1>7 DEF Steady, SequencerNext, RecoveryNext

\* The message that is about to be handed over is genuine, or it is the blank
\* buffer of a shutdown and the first message at all.
LEMMA NextGenuine ==
    ASSUME TypeInv, OrderInv, AnswerInv, BlankLate, ~aborted
    PROVE  /\ spc = "forward" =>
                 \/ content[seqMsg].genuine
                 \/ content[seqMsg] = Blank /\ ~runR /\ Len(handed) = 0
           /\ spc = "deliver" /\ content[recSlot].seq = nextSequence =>
                 content[recSlot].genuine
<1>1. ASSUME spc = "forward"
      PROVE  \/ content[seqMsg].genuine
             \/ content[seqMsg] = Blank /\ ~runR /\ Len(handed) = 0
  <2>1. Clean
    BY <1>1 DEF AnswerInv, Doomed, InRecovery
  <2>2. seqMsg \in Slots /\ seqMsg # NoSlot
    <3>1. seqMsg \in Slots
      BY <1>1, AnswerTypes
    <3>2. QED
      BY <3>1, SlotsAssumption
  <2>3. content[seqMsg] = Blank \/ content[seqMsg].genuine
    <3>1. content[seqMsg] = Blank \/ \E t \in Trades : content[seqMsg] = Trade(t)
      BY <2>1, <2>2 DEF Clean
    <3>2. \A t \in Trades : Trade(t).genuine = TRUE
      BY DEF Trade
    <3>3. QED
      BY <3>1, <3>2
  <2>4. seqMsg \in Sequencing
    BY <2>2 DEF Sequencing
  <2>5. content[seqMsg].seq = nextSequence /\ Len(handed) = nextSequence
    BY <1>1 DEF OrderInv, RecoveryCounts, InOrder
  <2>6. QED
    BY <2>3, <2>4, <2>5 DEF BlankLate, Blank
<1>2. ASSUME spc = "deliver", content[recSlot].seq = nextSequence
      PROVE  content[recSlot].genuine
  <2>1. content[recSlot].genuine \/ content[recSlot].seq = Garbage
    BY <1>2 DEF AnswerInv, Answer, InRecovery
  <2>2. /\ messagesReceived < numMessages
        /\ numMessages - messagesReceived = content[seqMsg].seq - nextSequence
    BY <1>2 DEF OrderInv, RecoveryCounts, InRecovery
  <2>3. /\ content[seqMsg].seq \in Int /\ content[seqMsg].seq <= Garbage
        /\ nextSequence \in Nat /\ messagesReceived \in Nat /\ numMessages \in Int
    BY <1>2, AnswerTypes
  <2>4. nextSequence # Garbage
    BY <2>2, <2>3, NumTradesAssumption DEF Garbage
  <2>5. QED
    BY <1>2, <2>1, <2>4
<1>3. QED
  BY <1>1, <1>2

\* HandedGenuine, whether a dequeue() was overtaken or not.
AllGenuine ==
    ~aborted =>
        \A k \in 1 .. Len(handed) :
            \/ handed[k].genuine
            \/ k = 1 /\ handed[1] = Blank /\ ~runR

\* What one message adds to AllGenuine.
LEMMA GenuineAppend ==
    ASSUME TypeInv, AllGenuine, ~aborted, NEW c \in Contents,
           handed' = Append(handed, c), runR' => runR,
           c.genuine \/ (c = Blank /\ ~runR /\ Len(handed) = 0)
    PROVE  AllGenuine'
<1>1. handed \in Seq(Contents) /\ Len(handed) \in Nat
  BY LenProperties DEF TypeInv, TypeOK
<1>2. /\ Len(handed') = Len(handed) + 1
      /\ \A k \in 1 .. Len(handed) : handed'[k] = handed[k]
      /\ handed'[Len(handed) + 1] = c
  BY <1>1, AppendProperties
<1>3. SUFFICES ASSUME NEW k \in 1 .. Len(handed')
               PROVE  handed'[k].genuine \/ (k = 1 /\ handed'[1] = Blank /\ ~runR')
  BY DEF AllGenuine
<1>4. k \in 1 .. Len(handed) \/ k = Len(handed) + 1
  BY <1>1, <1>2, <1>3
<1>5. CASE k \in 1 .. Len(handed)
  <2>1. handed[k].genuine \/ (k = 1 /\ handed[1] = Blank /\ ~runR)
    BY <1>5 DEF AllGenuine
  <2>2. QED
    BY <1>2, <1>5, <2>1
<1>6. CASE k = Len(handed) + 1
  <2>1. Len(handed) = 0 => k = 1
    BY <1>6
  <2>2. QED
    BY <1>2, <1>6, <2>1
<1>7. QED
  BY <1>4, <1>5, <1>6

\* Unless a recovery was left early, every message handed downstream is byte for
\* byte the trade of its number, but for the blank buffer that a shutdown before
\* the first trade pushes through: a message that recv() returned in part, and
\* the garbage read behind it, are never handed on, until a dequeue() is overtaken
\* (never, if PoolFits).
THEOREM HandedGenuineCorrect == Spec => []HandedGenuine
<1>1. Init => BlankLate /\ AllGenuine
  <2> SUFFICES ASSUME Init PROVE BlankLate /\ AllGenuine
    OBVIOUS
  <2>1. recvQ = <<>> /\ seqMsg = NoSlot /\ handed = <<>>
    BY DEF Init
  <2>2. QED
    BY <2>1 DEF BlankLate, Sequencing, RangeOf, AllGenuine
<1>2. ASSUME TypeInv, OrderInv, alive => AnswerInv, BlankLate, AllGenuine,
             [Steady]_vars
      PROVE  AllGenuine'
  <2>1. runR' => runR
    BY <1>2, StopsForGood
  <2>2. content \in [Slots -> Contents]
    BY <1>2 DEF TypeInv, TypeOK
  <2>3. CASE handed' = handed /\ aborted' = aborted
    BY <1>2, <2>1, <2>3 DEF AllGenuine
  <2>4. CASE aborted'
    BY <2>4 DEF AllGenuine
  <2>5. ASSUME NEW s \in Slots, handed' = Append(handed, content[s]), ~aborted,
               content[s].genuine \/ (content[s] = Blank /\ ~runR /\ Len(handed) = 0)
        PROVE  AllGenuine'
    BY <1>2, <2>1, <2>2, <2>5, GenuineAppend
  <2>6. CASE /\ alive /\ spc = "forward" /\ seqMsg \in Slots /\ ~aborted
             /\ handed' = Append(handed, content[seqMsg])
    BY <1>2, <2>5, <2>6, NextGenuine
  <2>7. CASE /\ alive /\ spc = "deliver" /\ recSlot \in Slots /\ ~aborted
             /\ content[recSlot].seq = nextSequence
             /\ handed' = Append(handed, content[recSlot])
    BY <1>2, <2>5, <2>7, NextGenuine
  <2>8. QED
    BY <1>2, <2>3, <2>4, <2>6, <2>7, HandedStep
<1>3. TypeInv /\ OneOwner /\ (~Overtaken => OrderInv) /\ [Next]_vars
      /\ (~Overtaken => ClosedInv /\ (alive => AnswerInv))
      /\ (~Overtaken => BlankLate /\ AllGenuine)
         => (~Overtaken' => BlankLate' /\ AllGenuine')
  BY <1>2, CalmStep, BlankLateStep DEF OneOwner
<1>4. (~Overtaken => BlankLate /\ AllGenuine) => HandedGenuine
  BY DEF AllGenuine, HandedGenuine
<1>5. QED
  BY TypeInvariant, OneOwnerCorrect, OrderInvariant, AnswerInvariant, <1>1, <1>3,
     <1>4, PTL DEF Spec

-----------------------------------------------------------------------------
(***************************************************************************)
(* While nothing disturbs the TCP connection, what the server writes        *)
(* arrives whole, so the throw of onRecoveredMsg() is never reached.        *)
(***************************************************************************)

\* The stream holds every half of the trades from a up to n - 1.
Unbroken(s, a, n) ==
    /\ Len(s) = 2 * (n - a)
    /\ \A k \in 1 .. Len(s) : Code(s[k]) = 2 * a + k

\* The server writes the next trade.
LEMMA UnbrokenMore ==
    ASSUME NEW s \in Seq(Halves), NEW i \in Trades, NEW a \in Int, Unbroken(s, a, i)
    PROVE  Unbroken(s \o <<Half(i, 1), Half(i, 2)>>, a, i + 1)
<1> DEFINE h == <<Half(i, 1), Half(i, 2)>>
           t == s \o h
<1>1. Len(s) \in Nat /\ i \in Nat
  BY LenProperties, NumTradesAssumption DEF Trades
<1>2. /\ h \in Seq(Halves) /\ Len(h) = 2
      /\ Code(h[1]) = 2 * i + 1 /\ Code(h[2]) = 2 * i + 2
  BY <1>1 DEF Half, Halves, Code
<1> HIDE DEF h
<1>3. /\ Len(t) = Len(s) + 2
      /\ \A k \in 1 .. Len(s) + 2 : t[k] = IF k <= Len(s) THEN s[k] ELSE h[k - Len(s)]
  <2>1. /\ Len(t) = Len(s) + Len(h)
        /\ \A k \in 1 .. Len(s) + Len(h) :
              t[k] = IF k <= Len(s) THEN s[k] ELSE h[k - Len(s)]
    BY <1>2, ConcatProperties
  <2>2. QED
    BY <1>2, <2>1
<1> HIDE DEF t
<1>4. /\ Len(s) = 2 * (i - a)
      /\ \A k \in 1 .. Len(s) : Code(s[k]) = 2 * a + k
  BY DEF Unbroken
<1>5. Len(t) = 2 * ((i + 1) - a)
  BY <1>1, <1>3, <1>4
<1>6. ASSUME NEW k \in 1 .. Len(s) + 2 PROVE Code(t[k]) = 2 * a + k
  <2>1. k \in 1 .. Len(s) \/ k = Len(s) + 1 \/ k = Len(s) + 2
    BY <1>1, <1>6
  <2>2. CASE k \in 1 .. Len(s)
    <3>1. t[k] = s[k]
      BY <1>1, <1>3, <2>2
    <3>2. QED
      BY <1>4, <2>2, <3>1
  <2>3. CASE k = Len(s) + 1
    <3>1. ~(k <= Len(s)) /\ k - Len(s) = 1 /\ 2 * i + 1 = 2 * a + k
      BY <1>1, <1>4, <2>3
    <3>2. QED
      BY <1>2, <1>3, <1>6, <3>1
  <2>4. CASE k = Len(s) + 2
    <3>1. ~(k <= Len(s)) /\ k - Len(s) = 2 /\ 2 * i + 2 = 2 * a + k
      BY <1>1, <1>4, <2>4
    <3>2. QED
      BY <1>2, <1>3, <1>6, <3>1
  <2>5. QED
    BY <2>1, <2>2, <2>3, <2>4
<1>7. Unbroken(t, a, i + 1)
  BY <1>3, <1>5, <1>6 DEF Unbroken
<1>8. QED
  BY <1>7 DEF t, h

\* The client reads a message: it is that of the first trade, and the rest is
\* unbroken.
LEMMA UnbrokenRest ==
    ASSUME NEW s \in Seq(Halves), NEW a \in Int, NEW n \in Int,
           Unbroken(s, a, n), Len(s) >= 2
    PROVE  /\ s[1].half = 1 /\ s[1].seq = a /\ a \in Trades
           /\ Unbroken(SubSeq(s, 3, Len(s)), a + 1, n)
<1> DEFINE t == SubSeq(s, 3, Len(s))
<1>1. /\ Len(s) \in Nat
      /\ Len(t) = Len(s) - 2
      /\ \A k \in 1 .. Len(t) : t[k] = s[k + 2]
  BY LenProperties, RestOfTwo
<1> HIDE DEF t
<1>2. /\ Len(s) = 2 * (n - a)
      /\ \A k \in 1 .. Len(s) : Code(s[k]) = 2 * a + k
  BY DEF Unbroken
<1>3. s[1] \in Halves /\ Code(s[1]) = 2 * a + 1
  <2>1. 1 \in 1 .. Len(s)
    BY <1>1
  <2>2. QED
    BY <1>2, <2>1, ElementOfSeq
<1>4. s[1].half = 1 /\ s[1].seq = a
  BY <1>3, CodeValues
<1>5. s[1].seq \in Trades
  BY <1>3 DEF Halves
<1>6. Len(t) = 2 * (n - (a + 1))
  BY <1>1, <1>2
<1>7. ASSUME NEW k \in 1 .. Len(t) PROVE Code(t[k]) = 2 * (a + 1) + k
  <2>1. k + 2 \in 1 .. Len(s) /\ 2 * a + (k + 2) = 2 * (a + 1) + k
    BY <1>1, <1>7
  <2>2. QED
    BY <1>1, <1>2, <1>7, <2>1
<1>8. Unbroken(t, a + 1, n)
  BY <1>6, <1>7 DEF Unbroken
<1>9. QED
  BY <1>4, <1>5, <1>8 DEF t

-----------------------------------------------------------------------------
\* Nothing disturbs the TCP connection.
TcpHolds == Faults \intersect {"eof", "eintr", "fragment"} = {}

\* The connection holds, and in a recovery whose request was read, the stream and
\* the server continue where the client is.
Whole ==
    /\ conn # "closed" /\ serverUp /\ ~aborted /\ Clean
    /\ spc = "deliver" => content[recSlot].seq = nextSequence
    /\ InRecovery /\ reqs = <<>> => Unbroken(stream, Expected, serving.i)

\* Steps that leave the recovery alone keep it whole.
LEMMA WholeKept ==
    ASSUME Whole, UNCHANGED answerVars, conn' # "closed",
           spc = "deliver" => content'[recSlot] = content[recSlot],
           Clean => Clean'
    PROVE  Whole'
<1>1. Expected' = Expected
  BY DEF Expected, answerVars
<1>2. InRecovery' = InRecovery
  BY DEF InRecovery, answerVars
<1>3. Unbroken(stream, Expected, serving.i) => Unbroken(stream', Expected', serving'.i)
  BY <1>1 DEF answerVars
<1>4. QED
  BY <1>2, <1>3 DEF Whole, answerVars

\* The server reads the request, whole and alone.
LEMMA WholeReadRequest ==
    ASSUME TypeInv, AnswerInv, Whole, ReadRequest, TcpHolds
    PROVE  Whole'
<1>1. /\ UNCHANGED <<spc, stream, serverUp, conn, nextSequence, seqMsg, recSlot,
                     messagesReceived, numMessages, aborted, content>>
  BY DEF ReadRequest, seqVars, poolVars
<1>2. PICK k \in 1 .. Len(reqs) :
          /\ reqs' = SubSeq(reqs, k + 1, Len(reqs))
          /\ \/ /\ k = 1
                /\ serving' = [i |-> reqs[1].start, last |-> reqs[1].end]
             \/ k > 1
  BY DEF ReadRequest, TcpHolds
<1>3. reqs # <<>>
  BY <1>2
<1>4. /\ reqs = <<[start |-> nextSequence, end |-> content[seqMsg].seq - 1]>>
      /\ spc = "wait" /\ stream = <<>>
  BY <1>3 DEF AnswerInv, Requested, Whole
<1>5. serving'.i = nextSequence
  BY <1>2, <1>4
<1>6. Expected' = nextSequence /\ nextSequence \in Nat
  BY <1>1, <1>4, AnswerTypes DEF Expected
<1>7. Len(stream') = 0 /\ 2 * (nextSequence - nextSequence) = 0
  BY <1>1, <1>4, <1>6
<1>8. Unbroken(stream', Expected', serving'.i)
  BY <1>5, <1>6, <1>7 DEF Unbroken
<1>9. QED
  BY <1>1, <1>4, <1>8 DEF Whole, Clean

\* The server writes a trade of its store.
LEMMA WholeSendGapMsg ==
    ASSUME TypeInv, AnswerInv, Whole, SendGapMsg
    PROVE  Whole'
<1>1. /\ serverUp /\ ~ServerIdle
      /\ serving' = [i |-> serving.i + 1, last |-> serving.last]
      /\ UNCHANGED <<spc, reqs, serverUp, conn, nextSequence, seqMsg, recSlot,
                     aborted, content>>
  BY DEF SendGapMsg, seqVars, poolVars
<1>2. InRecovery /\ reqs = <<>> /\ Answer
  BY <1>1 DEF AnswerInv, Quiet, Requested, Whole
<1>3. /\ stream \in Seq(Halves) /\ nextSequence \in Nat /\ seqMsg \in Slots
      /\ serving.i \in Nat /\ serving.last \in Int /\ content[seqMsg].seq \in Int
  BY <1>2, AnswerTypes DEF InRecovery
<1>4. content[seqMsg].seq \in Trades
  <2>1. content[seqMsg] = Blank \/ \E t \in Trades : content[seqMsg] = Trade(t)
    BY <1>3 DEF Whole, Clean
  <2>2. 0 \in Trades
    BY NumTradesAssumption DEF Trades
  <2>3. Blank.seq = 0 /\ \A t \in Trades : Trade(t).seq = t
    BY DEF Blank, Trade
  <2>4. QED
    BY <2>1, <2>2, <2>3
<1>5. serving.i \in Trades
  <2>1. serving.i <= serving.last /\ serving.last < content[seqMsg].seq
    BY <1>1, <1>2, <1>3 DEF Answer, ServerIdle
  <2>2. QED
    BY <1>3, <1>4, <2>1, NumTradesAssumption DEF Trades
<1>6. stream' = stream \o <<Half(serving.i, 1), Half(serving.i, 2)>>
  BY <1>5 DEF SendGapMsg
<1>7. /\ Expected \in Int /\ Expected' = Expected
      /\ Unbroken(stream, Expected, serving.i)
  BY <1>1, <1>2, <1>3 DEF Expected, Whole
<1>8. Unbroken(stream', Expected, serving.i + 1)
  BY <1>3, <1>5, <1>6, <1>7, UnbrokenMore
<1>9. serving'.i = serving.i + 1
  BY <1>1
<1>10. Unbroken(stream', Expected', serving'.i)
  BY <1>7, <1>8, <1>9
<1>11. QED
  BY <1>1, <1>10 DEF Whole, Clean

\* The client reads a message.
LEMMA WholeRecvWhole ==
    ASSUME TypeInv, OrderInv, AnswerInv, Whole, RecoveryRecvWhole
    PROVE  Whole'
<1>1. /\ spc = "recv" /\ spc' = "deliver" /\ Len(stream) >= 2
      /\ stream' = SubSeq(stream, 3, Len(stream))
      /\ content' = [content EXCEPT ![recSlot] = WholeMessage(stream)]
      /\ UNCHANGED <<conn, reqs, serverUp, serving, nextSequence, recSlot, aborted>>
  BY DEF RecoveryRecvWhole, SUnchanged, serverVars
<1>2. /\ stream \in Seq(Halves) /\ nextSequence \in Int /\ serving.i \in Int
      /\ recSlot \in Slots /\ content \in [Slots -> Contents]
  BY <1>1, AnswerTypes
<1>3. reqs = <<>> /\ Expected = nextSequence /\ InRecovery
  BY <1>1, AnswerAtRecv DEF Whole
<1>4. Unbroken(stream, nextSequence, serving.i)
  BY <1>3 DEF Whole
<1>5. /\ stream[1].half = 1 /\ stream[1].seq = nextSequence /\ nextSequence \in Trades
      /\ Unbroken(stream', nextSequence + 1, serving.i)
  BY <1>1, <1>2, <1>4, UnbrokenRest
<1>6. WholeMessage(stream) = Trade(nextSequence)
  BY <1>5 DEF WholeMessage
<1>7. content'[recSlot] = Trade(nextSequence) /\ content'[recSlot].seq = nextSequence
  BY <1>1, <1>2, <1>6 DEF Trade
<1>8. Clean'
  BY <1>1, <1>2, <1>5, <1>6 DEF Clean, Whole
<1>9. Expected' = nextSequence + 1
  BY <1>1, <1>7 DEF Expected
<1>10. Unbroken(stream', Expected', serving'.i)
  BY <1>1, <1>5, <1>9
<1>11. QED
  BY <1>1, <1>7, <1>8, <1>10 DEF Whole

\* Steps of the sequencer that neither start a recovery nor belong to one.
LEMMA WholeSequencer ==
    ASSUME TypeInv, Whole,
           Connect \/ SequencerLoop \/ SequencerDequeue \/ DropOld \/ Forward
    PROVE  Whole'
<1>1. /\ conn' = conn \/ conn' = "pending"
      /\ UNCHANGED <<serverUp, aborted, content>>
  BY DEF Connect, SequencerLoop, SequencerDequeue, DropOld, Forward, SUnchanged,
         serverVars, tcpVars, poolVars
<1>2. spc' \notin {"wait", "recv", "deliver"}
  <2>1. CASE SequencerDequeue
    <3>1. CASE recvQ = <<>>
      BY <2>1, <3>1 DEF SequencerDequeue
    <3>2. CASE recvQ # <<>>
      <4>1. Head(recvQ) \in Slots /\ nextSequence \in Int
        BY <3>2, AnswerTypes, HeadTailProperties DEF TypeInv, TypeOK
      <4>2. content[Head(recvQ)].seq \in Int
        BY <4>1, AnswerTypes
      <4>3. spc' \in {"request", "drop", "forward"}
        BY <2>1, <3>2, <4>1, <4>2 DEF SequencerDequeue
      <4>4. QED
        BY <4>3
    <3>3. QED
      BY <3>1, <3>2
  <2>2. CASE Connect \/ SequencerLoop \/ DropOld \/ Forward
    BY <2>2 DEF Connect, SequencerLoop, DropOld, Forward
  <2>3. QED
    BY <2>1, <2>2
<1>3. Clean'
  BY <1>1 DEF Whole, Clean
<1>4. QED
  BY <1>1, <1>2, <1>3 DEF Whole, InRecovery

\* Steps of a recovery that do not read the socket.
LEMMA WholeRecovery ==
    ASSUME TypeInv, AnswerInv, Whole, alive',
           \/ SendRecoveryRequest \/ RecoveryComplete \/ RecoveryAllocate
           \/ OnRecoveredMsg
    PROVE  Whole'
<1>1. UNCHANGED <<serverUp, aborted, content, conn, stream, serving>>
  BY DEF SendRecoveryRequest, RecoveryComplete, RecoveryAllocate, OnRecoveredMsg,
         SUnchanged, serverVars, tcpVars, poolVars
<1>2. Clean'
  BY <1>1 DEF Whole, Clean
<1>3. conn # "closed"
  BY DEF Whole
<1>4. CASE SendRecoveryRequest
  <2>1. reqs' = Append(reqs, [start |-> nextSequence, end |-> content[seqMsg].seq - 1])
        /\ spc' = "wait"
    BY <1>3, <1>4 DEF SendRecoveryRequest, RequestSent, Terminate
  <2>2. reqs = <<>>
    BY <1>4 DEF SendRecoveryRequest, AnswerInv, Quiet, Whole, InRecovery
  <2>3. reqs' # <<>>
    BY <2>1, <2>2
  <2>4. QED
    BY <1>1, <1>2, <2>1, <2>3 DEF Whole
<1>5. CASE RecoveryComplete
  BY <1>1, <1>2, <1>5 DEF RecoveryComplete, Whole, InRecovery
<1>6. CASE RecoveryAllocate
  <2>1. /\ spc = "wait" /\ spc' \in {"wait", "recv"} /\ reqs' = reqs
        /\ nextSequence' = nextSequence
    BY <1>6 DEF RecoveryAllocate, tcpVars
  <2>2. InRecovery /\ Expected' = nextSequence /\ Expected = nextSequence
    BY <2>1 DEF Expected, InRecovery
  <2>3. reqs' = <<>> => Unbroken(stream', Expected', serving'.i)
    BY <1>1, <2>1, <2>2 DEF Whole
  <2>4. QED
    BY <1>1, <1>2, <2>1, <2>3 DEF Whole
<1>7. CASE OnRecoveredMsg
  <2>1. content[recSlot].seq = nextSequence /\ spc = "deliver"
    BY <1>7 DEF OnRecoveredMsg, Whole
  <2>2. spc' = "wait" /\ reqs' = reqs /\ nextSequence' = nextSequence + 1
    BY <1>7, <2>1 DEF OnRecoveredMsg, HandOver, tcpVars
  <2>3. InRecovery /\ Expected' = nextSequence + 1 /\ Expected = nextSequence + 1
    BY <2>1, <2>2 DEF Expected, InRecovery
  <2>4. reqs' = <<>> => Unbroken(stream', Expected', serving'.i)
    BY <1>1, <2>2, <2>3 DEF Whole
  <2>5. QED
    BY <1>1, <1>2, <2>2, <2>4 DEF Whole
<1>8. QED
  BY <1>4, <1>5, <1>6, <1>7

\* The stream never holds half a message, so recv() returns no part of one.
LEMMA WholeNoPart ==
    ASSUME TypeInv, OrderInv, AnswerInv, Whole, TcpHolds
    PROVE  ~RecoveryRecvPart
<1> SUFFICES ASSUME RecoveryRecvPart PROVE FALSE
  OBVIOUS
<1>1. spc = "recv" /\ Len(stream) = 1
  BY DEF RecoveryRecvPart, TcpHolds
<1>2. /\ reqs = <<>> /\ Expected = nextSequence /\ InRecovery
      /\ nextSequence \in Nat /\ serving.i \in Nat
  BY <1>1, AnswerAtRecv, AnswerTypes DEF Whole
<1>3. Len(stream) = 2 * (serving.i - nextSequence)
  BY <1>2 DEF Whole, Unbroken
<1>4. \A n \in Int : 2 * n # 1
  OBVIOUS
<1>5. QED
  BY <1>1, <1>2, <1>3, <1>4

\* While the TCP connection holds and the client runs, every step keeps it whole.
LEMMA WholeStep ==
    ASSUME TypeInv, Owned, OrderInv, AnswerInv, Whole, TcpHolds, [Steady]_vars, alive'
    PROVE  Whole'
<1>1. CASE \/ CreateSnapshotServer \/ Accept \/ MulticastSend
           \/ ReceiverNext \/ DBNext \/ MainNext \/ LoggerDies \/ Finished \/ UNCHANGED vars
  <2>1. conn' = conn \/ conn' = "open"
    BY <1>1 DEF vars, tcpVars, CreateSnapshotServer, Accept, MulticastSend,
       ReceiverNext, ReceiverLoop, ReceiverAllocate, ReceiveDatagram,
       ReceiveShutdown, ReceiveError, RUnchanged, DBNext, runSingle, runBatch,
       runCopy, DBDequeue, DBLeaveLoop, CommitSingle, CommitBatch, CommitCopy,
       Commit, DBRelease, DUnchanged, MainNext, StopSequencer, StopReceiver,
       StopDB, SUnchanged, LoggerDies, Terminate, Finished
  <2>2. conn' # "closed"
    BY <2>1 DEF Whole
  <2>3. QED
    BY <1>1, <2>2, RecoveryLeftAlone, WholeKept
<1>2. CASE ReadRequest
  BY <1>2, WholeReadRequest
<1>3. CASE SendGapMsg
  BY <1>3, WholeSendGapMsg
<1>4. CASE ServerDies \/ RecoveryInterrupted \/ RecoveryRecvClosed
  BY <1>4 DEF ServerDies, RecoveryInterrupted, RecoveryRecvClosed, Whole, TcpHolds
<1>5. CASE Connect \/ SequencerLoop \/ SequencerDequeue \/ DropOld \/ Forward
  BY <1>5, WholeSequencer
<1>6. CASE \/ SendRecoveryRequest \/ RecoveryComplete \/ RecoveryAllocate
           \/ OnRecoveredMsg
  BY <1>6, WholeRecovery
<1>7. CASE RecoveryTimeout
  BY <1>1, <1>7 DEF RecoveryTimeout
<1>8. CASE RecoveryRecvWhole
  BY <1>8, WholeRecvWhole
<1>9. CASE RecoveryRecvPart
  BY <1>9, WholeNoPart
<1>10. QED
  BY <1>1, <1>2, <1>3, <1>4, <1>5, <1>6, <1>7, <1>8, <1>9
  DEF Steady, ServerNext, SequencerNext, RecoveryNext

-----------------------------------------------------------------------------
\* Whatever datagrams are lost, repeated or exchanged, whatever fails in the
\* database, the multicast socket or the logger, and with queues of any capacity:
\* while the client runs (up to an overtaken dequeue() where PoolFits is false) and
\* as long as the TCP connection holds and hands out whole messages, recover()
\* gets the trades it asked for in order, so that onRecoveredMsg() never throws.
THEOREM RecoveredInOrderCorrect == Spec => []RecoveredInOrder
<1> DEFINE Kept == TcpHolds /\ alive /\ ~Overtaken => Whole
<1>1. Init => Kept
  <2> SUFFICES ASSUME Init PROVE Whole
    OBVIOUS
  <2>1. /\ conn = "none" /\ serverUp = TRUE /\ aborted = FALSE /\ spc = "connect"
        /\ content = [s \in Slots |-> Blank]
    BY DEF Init
  <2>2. QED
    BY <2>1 DEF Whole, Clean, InRecovery
<1>2. TypeInv /\ OneOwner /\ (~Overtaken => OrderInv) /\ [Next]_vars
      /\ (~Overtaken => ClosedInv /\ (alive => AnswerInv)) /\ Kept
         => Kept'
  <2> SUFFICES ASSUME TypeInv, OneOwner, ~Overtaken => OrderInv, [Next]_vars,
                      ~Overtaken => ClosedInv /\ (alive => AnswerInv), Kept,
                      TcpHolds, alive', ~Overtaken'
               PROVE  Whole'
    BY DEF TcpHolds
  <2>1. ~Overtaken /\ [Steady]_vars
    BY CalmStep
  <2>2. alive
    BY <2>1, DeadStays
  <2>3. QED
    BY <2>1, <2>2, WholeStep DEF OneOwner
<1>3. Ended /\ Kept => RecoveredInOrder
  BY DEF RecoveredInOrder, TcpHolds, Whole, Ended
<1> HIDE DEF Kept
<1>4. QED
  BY TypeInvariant, OneOwnerCorrect, OrderInvariant, AnswerInvariant, EndedInvariant,
     <1>1, <1>2, <1>3, PTL DEF Spec

=============================================================================
