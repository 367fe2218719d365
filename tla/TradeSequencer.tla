---------------------------- MODULE TradeSequencer ----------------------------
(***************************************************************************)
(* TradeDataSequencer of TradeReceiver.hpp and the TradeRecoveryManager it  *)
(* owns: the thread that restores the order of the trades.  spc is its      *)
(* place in run() and in recover(), which it calls; seqMsg is the message   *)
(* run() holds, recSlot the one receiveRecoveryMessages() holds.            *)
(***************************************************************************)
EXTENDS FeedState

SUnchanged == UNCHANGED <<serverVars, wire, recvVars, dbVars>>

\* Mutant: the loop of connect() has no limit.
ConnectForever ==
    /\ alive /\ spc = "connect"
    /\ ~listening
    /\ attempts <= ConnectAttempts
    /\ attempts' = attempts + 1
    /\ SUnchanged
    /\ UNCHANGED <<tcpVars, alive, poolVars, recvQ, sendQ, spc, nextSequence,
                   seqMsg, recSlot, numMessages, messagesReceived, runS,
                   aborted, handed>>

\* One attempt of the loop of connect(); the last failure throws in a thread
\* that has no handler, and so does a failure of socket() or setsockopt() before
\* the first attempt.
Connect ==
    /\ alive /\ spc = "connect"
    /\ \/ /\ listening
          /\ conn' = "pending"
          /\ spc' = "loop"
          /\ UNCHANGED <<alive, attempts>>
       \/ /\ "sys" \in Faults
          /\ attempts = 0
          /\ Terminate
          /\ UNCHANGED <<conn, spc, attempts>>
       \/ /\ ~listening
          /\ attempts < ConnectAttempts
          /\ attempts' = attempts + 1
          /\ IF attempts' = ConnectAttempts THEN Terminate ELSE UNCHANGED alive
          /\ UNCHANGED <<conn, spc>>
    /\ SUnchanged
    /\ UNCHANGED <<reqs, stream, poolVars, recvQ, sendQ, nextSequence, seqMsg,
                   recSlot, numMessages, messagesReceived, runS, aborted, handed>>

\* while (runFlag_.load(...))
SequencerLoop ==
    /\ alive /\ spc = "loop"
    /\ spc' = IF runS THEN "dequeue" ELSE "done"
    /\ SUnchanged
    /\ UNCHANGED <<tcpVars, alive, poolVars, recvQ, sendQ, attempts,
                   nextSequence, seqMsg, recSlot, numMessages,
                   messagesReceived, runS, aborted, handed>>

\* Mutant: no test for a gap.
SequencerDequeueAnyNew ==
    /\ alive /\ spc = "dequeue"
    /\ recvQ # <<>>
    /\ recvQ' = Tail(recvQ)
    /\ seqMsg' = Head(recvQ)
    /\ spc' = IF content[Head(recvQ)].seq < nextSequence THEN "drop" ELSE "forward"
    /\ SUnchanged
    /\ UNCHANGED <<tcpVars, alive, poolVars, sendQ, attempts, nextSequence,
                   recSlot, numMessages, messagesReceived, runS, aborted, handed>>

\* msg = recvQueue_.dequeue() and the comparison of its sequence number.
SequencerDequeue ==
    /\ alive /\ spc = "dequeue"
    /\ \/ /\ recvQ = <<>>
          /\ spc' = "loop"
          /\ UNCHANGED <<recvQ, seqMsg>>
       \/ /\ recvQ # <<>>
          /\ recvQ' = Tail(recvQ)
          /\ seqMsg' = Head(recvQ)
          /\ spc' = LET seq == content[Head(recvQ)].seq IN
                    CASE seq > nextSequence -> "request"
                      [] seq < nextSequence -> "drop"
                      [] seq = nextSequence -> "forward"
    /\ SUnchanged
    /\ UNCHANGED <<tcpVars, alive, poolVars, sendQ, attempts, nextSequence,
                   recSlot, numMessages, messagesReceived, runS, aborted, handed>>

\* Mutant: no "continue" behind the deallocation of an old message.
DropOldFallThrough ==
    /\ alive /\ spc = "drop"
    /\ Deallocate(seqMsg)
    /\ spc' = "forward"
    /\ SUnchanged
    /\ UNCHANGED <<tcpVars, alive, content, recvQ, sendQ, attempts,
                   nextSequence, seqMsg, recSlot, numMessages,
                   messagesReceived, runS, aborted, handed>>

\* An old message: back to the pool.
DropOld ==
    /\ alive /\ spc = "drop"
    /\ Deallocate(seqMsg)
    /\ seqMsg' = NoSlot
    /\ spc' = "loop"
    /\ SUnchanged
    /\ UNCHANGED <<tcpVars, alive, content, recvQ, sendQ, attempts,
                   nextSequence, recSlot, numMessages, messagesReceived, runS,
                   aborted, handed>>

\* sendQueue_.enqueue(msg), its result ignored, and ++nextSequence_: the end of
\* the loop body of run() and of onRecoveredMsg().
HandOver(s) ==
    /\ sendQ' = Enqueue(sendQ, s)
    /\ nextSequence' = nextSequence + 1
    /\ handed' = Append(handed, content[s])

\* The end of the loop body of run(), after a recovery too: the message in hand
\* is not compared with nextSequence_ again.
Forward ==
    /\ alive /\ spc = "forward"
    /\ HandOver(seqMsg)
    /\ seqMsg' = NoSlot
    /\ spc' = "loop"
    /\ SUnchanged
    /\ UNCHANGED <<tcpVars, alive, poolVars, recvQ, attempts, recSlot,
                   numMessages, messagesReceived, runS, aborted>>

\* Mutant: the request includes the message that showed the gap.
SendRecoveryRequestTooMuch ==
    /\ alive /\ spc = "request"
    /\ conn # "closed"
    /\ reqs' = Append(reqs, [start |-> nextSequence, end |-> content[seqMsg].seq])
    /\ numMessages' = content[seqMsg].seq - nextSequence + 1
    /\ messagesReceived' = 0
    /\ spc' = "wait"
    /\ SUnchanged
    /\ UNCHANGED <<conn, stream, alive, poolVars, recvQ, sendQ, attempts,
                   nextSequence, seqMsg, recSlot, runS, aborted, handed>>

\* What the server can read of a request that send() took whole.
RequestSent ==
    reqs' = IF conn = "closed" THEN reqs
            ELSE Append(reqs, [start |-> nextSequence,
                               end   |-> content[seqMsg].seq - 1])

\* sendRecoveryRequest(nextSequence_, seq - 1) and the first lines of
\* receiveRecoveryMessages.  On a connection the server has closed, send()
\* either still succeeds or ends the process (SIGPIPE or the throw).  A send()
\* that fails or falls short throws before the server has a request to read,
\* epoll_create1() and epoll_ctl() throw behind it.
SendRecoveryRequest ==
    /\ alive /\ spc = "request"
    /\ \/ /\ RequestSent
          /\ numMessages' = content[seqMsg].seq - nextSequence
          /\ messagesReceived' = 0
          /\ spc' = "wait"
          /\ UNCHANGED alive
       \/ /\ conn = "closed" \/ "sys" \in Faults
          /\ Terminate
          /\ \/ UNCHANGED reqs
             \/ "sys" \in Faults /\ RequestSent
          /\ UNCHANGED <<numMessages, messagesReceived, spc>>
    /\ SUnchanged
    /\ UNCHANGED <<conn, stream, poolVars, recvQ, sendQ, attempts,
                   nextSequence, seqMsg, recSlot, runS, aborted, handed>>

\* while (messagesReceived < numMessages): the recovery is complete.
RecoveryComplete ==
    /\ alive /\ spc = "wait"
    /\ messagesReceived >= numMessages
    /\ spc' = "forward"
    /\ SUnchanged
    /\ UNCHANGED <<tcpVars, alive, poolVars, recvQ, sendQ, attempts,
                   nextSequence, seqMsg, recSlot, numMessages,
                   messagesReceived, runS, aborted, handed>>

\* epoll_wait reports the socket readable, by data or by the end of the stream,
\* and a buffer is allocated for the message.
RecoveryAllocate ==
    /\ alive /\ spc = "wait"
    /\ messagesReceived < numMessages
    /\ stream # <<>> \/ conn = "closed"
    /\ \/ /\ \E s \in Slots : Allocate(s) /\ recSlot' = s
          /\ spc' = "recv"
          /\ UNCHANGED alive
       \/ /\ PoolExhausted
          /\ Terminate
          /\ UNCHANGED <<free, recSlot, spc>>
    /\ SUnchanged
    /\ UNCHANGED <<tcpVars, content, recvQ, sendQ, attempts, nextSequence,
                   seqMsg, numMessages, messagesReceived, runS, aborted, handed>>

\* epoll_wait times out: the loop goes on, whatever runFlag_ says.
RecoveryTimeout ==
    /\ alive /\ spc = "wait"
    /\ messagesReceived < numMessages
    /\ stream = <<>> /\ conn # "closed"
    /\ UNCHANGED vars

\* epoll_wait fails: the loop is left.
RecoveryInterrupted ==
    /\ "eintr" \in Faults
    /\ alive /\ spc = "wait"
    /\ messagesReceived < numMessages
    /\ aborted' = TRUE
    /\ spc' = "forward"
    /\ SUnchanged
    /\ UNCHANGED <<tcpVars, alive, poolVars, recvQ, sendQ, attempts,
                   nextSequence, seqMsg, recSlot, numMessages,
                   messagesReceived, runS, handed>>

\* recv() returns a whole message.  The socket is non-blocking, so MSG_WAITALL
\* does not make it wait for one.
RecoveryRecvWhole ==
    /\ alive /\ spc = "recv"
    /\ Len(stream) >= 2
    /\ content' = [content EXCEPT ![recSlot] = WholeMessage(stream)]
    /\ stream' = SubSeq(stream, 3, Len(stream))
    /\ spc' = "deliver"
    /\ SUnchanged
    /\ UNCHANGED <<conn, reqs, alive, free, recvQ, sendQ, attempts,
                   nextSequence, seqMsg, recSlot, numMessages,
                   messagesReceived, runS, aborted, handed>>

\* Mutant: a partial message is not given back to the pool.
RecoveryRecvPartLeak ==
    /\ alive /\ spc = "recv"
    /\ stream # <<>>
    /\ content' = [content EXCEPT ![recSlot] = PartOfMessage(stream)]
    /\ stream' = Tail(stream)
    /\ recSlot' = NoSlot
    /\ spc' = "wait"
    /\ SUnchanged
    /\ UNCHANGED <<conn, reqs, alive, free, recvQ, sendQ, attempts,
                   nextSequence, seqMsg, numMessages, messagesReceived, runS,
                   aborted, handed>>

\* Mutant: the number of received bytes is not looked at.
RecoveryRecvPartAccepted ==
    /\ alive /\ spc = "recv"
    /\ stream # <<>>
    /\ content' = [content EXCEPT ![recSlot] = PartOfMessage(stream)]
    /\ stream' = Tail(stream)
    /\ spc' = "deliver"
    /\ SUnchanged
    /\ UNCHANGED <<conn, reqs, alive, free, recvQ, sendQ, attempts,
                   nextSequence, seqMsg, recSlot, numMessages,
                   messagesReceived, runS, aborted, handed>>

\* recv() returns part of a message: the bytes are forgotten and the loop goes
\* on.  A single half is also what a cut connection can leave behind.
RecoveryRecvPart ==
    /\ alive /\ spc = "recv"
    /\ stream # <<>>
    /\ "fragment" \in Faults \/ Len(stream) = 1
    /\ content' = [content EXCEPT ![recSlot] = PartOfMessage(stream)]
    /\ stream' = Tail(stream)
    /\ Deallocate(recSlot)
    /\ recSlot' = NoSlot
    /\ spc' = "wait"
    /\ SUnchanged
    /\ UNCHANGED <<conn, reqs, alive, recvQ, sendQ, attempts, nextSequence,
                   seqMsg, numMessages, messagesReceived, runS, aborted, handed>>

\* recv() returns 0 or an error: the buffer goes back and the loop is left.
RecoveryRecvClosed ==
    /\ alive /\ spc = "recv"
    /\ stream = <<>> /\ conn = "closed"
    /\ Deallocate(recSlot)
    /\ recSlot' = NoSlot
    /\ aborted' = TRUE
    /\ spc' = "forward"
    /\ SUnchanged
    /\ UNCHANGED <<tcpVars, alive, content, recvQ, sendQ, attempts,
                   nextSequence, seqMsg, numMessages, messagesReceived, runS,
                   handed>>

\* sequencerOnMsgCB_(msg), which is onRecoveredMsg, and ++messagesReceived.  A
\* message that is not the next one throws in a thread that has no handler.
OnRecoveredMsg ==
    /\ alive /\ spc = "deliver"
    /\ \/ /\ content[recSlot].seq = nextSequence
          /\ HandOver(recSlot)
          /\ recSlot' = NoSlot
          /\ messagesReceived' = messagesReceived + 1
          /\ spc' = "wait"
          /\ UNCHANGED alive
       \/ /\ content[recSlot].seq # nextSequence
          /\ Terminate
          /\ UNCHANGED <<sendQ, nextSequence, handed, recSlot,
                         messagesReceived, spc>>
    /\ SUnchanged
    /\ UNCHANGED <<tcpVars, poolVars, recvQ, attempts, seqMsg, numMessages,
                   runS, aborted>>

RecoveryNext ==
    \/ SendRecoveryRequest
    \/ RecoveryComplete
    \/ RecoveryAllocate
    \/ RecoveryTimeout
    \/ RecoveryInterrupted
    \/ RecoveryRecvWhole
    \/ RecoveryRecvPart
    \/ RecoveryRecvClosed
    \/ OnRecoveredMsg

SequencerNext ==
    \/ Connect
    \/ SequencerLoop
    \/ SequencerDequeue
    \/ DropOld
    \/ Forward
    \/ RecoveryNext

\* TradeDataSequencer::stop, the first call of the main thread's shutdown.
StopSequencer ==
    /\ alive /\ runS
    /\ runS' = FALSE
    /\ SUnchanged
    /\ UNCHANGED <<tcpVars, alive, poolVars, recvQ, sendQ, spc, attempts,
                   nextSequence, seqMsg, recSlot, numMessages,
                   messagesReceived, aborted, handed>>

=============================================================================
