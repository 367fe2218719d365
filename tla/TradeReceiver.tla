---------------------------- MODULE TradeReceiver ----------------------------
(***************************************************************************)
(* MulticastTradeDataReceiver of TradeReceiver.hpp: the thread that moves   *)
(* datagrams from the multicast socket into pool buffers and hands their    *)
(* pointers to the sequencer.  rpc is its place in run(), rSlot the local   *)
(* variable msg.                                                            *)
(***************************************************************************)
EXTENDS FeedState

RUnchanged == UNCHANGED <<serverVars, tcpVars, sendQ, seqVars, dbVars, handed>>

\* while (runFlag_.load(...))
ReceiverLoop ==
    /\ alive /\ rpc = "loop"
    /\ rpc' = IF runR THEN "alloc" ELSE "done"
    /\ RUnchanged
    /\ UNCHANGED <<wire, alive, poolVars, recvQ, rSlot, runR>>

\* msg = pool_.allocate()
ReceiverAllocate ==
    /\ alive /\ rpc = "alloc"
    /\ \/ /\ \E s \in Slots : Allocate(s) /\ rSlot' = s
          /\ rpc' = "recv"
          /\ UNCHANGED alive
       \/ /\ PoolExhausted
          /\ Terminate
          /\ UNCHANGED <<free, rSlot, rpc>>
    /\ RUnchanged
    /\ UNCHANGED <<wire, content, recvQ, runR>>

\* queue_.enqueue(msg), its result ignored: the end of the loop body.
ReceiverEnqueue ==
    /\ recvQ' = Enqueue(recvQ, rSlot)
    /\ rSlot' = NoSlot
    /\ rpc' = "loop"

\* recv() returns a datagram, and its buffer is enqueued.  Datagrams of the wire
\* arrive in any order.  (Between the two calls the buffer and the datagram
\* are seen by this thread only, so one step stands for both.)
ReceiveDatagram ==
    /\ alive /\ rpc = "recv"
    /\ \E t \in Trades :
          /\ wire[t] > 0
          /\ wire' = [wire EXCEPT ![t] = @ - 1]
          /\ content' = [content EXCEPT ![rSlot] = Trade(t)]
    /\ ReceiverEnqueue
    /\ RUnchanged
    /\ UNCHANGED <<alive, free, runR>>

\* Mutant: stop() does not shut the socket down, so that recv() stays blocked.
ReceiveStaysBlocked == FALSE

\* recv() returns 0 after the shutdown() of stop().  Only a negative length is
\* an error to run(): the buffer is enqueued with what it held before.
ReceiveShutdown ==
    /\ alive /\ rpc = "recv"
    /\ ~runR
    /\ ReceiverEnqueue
    /\ RUnchanged
    /\ UNCHANGED <<wire, alive, poolVars, runR>>

\* recv() fails: the buffer goes back to the pool.
ReceiveError ==
    /\ "recverr" \in Faults
    /\ alive /\ rpc = "recv"
    /\ Deallocate(rSlot)
    /\ rSlot' = NoSlot
    /\ rpc' = "loop"
    /\ RUnchanged
    /\ UNCHANGED <<wire, alive, content, recvQ, runR>>

ReceiverNext ==
    \/ ReceiverLoop
    \/ ReceiverAllocate
    \/ ReceiveDatagram
    \/ ReceiveShutdown
    \/ ReceiveError

\* MulticastTradeDataReceiver::stop, called by the main thread after
\* TradeDataSequencer::stop.
StopReceiver ==
    /\ alive /\ runR /\ ~runS
    /\ runR' = FALSE
    /\ RUnchanged
    /\ UNCHANGED <<wire, alive, poolVars, recvQ, rpc, rSlot>>

=============================================================================
