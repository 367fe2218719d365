----------------------------- MODULE TradeServer -----------------------------
(***************************************************************************)
(* TradeServer.hpp: the process with the trade store, its SnapshotServer    *)
(* thread (the TCP side) and its MulticastServer thread (the UDP side).     *)
(* The trade at index i of the store has the sequence number i              *)
(* (Utils.hpp), so the store is the set Trades.                             *)
(***************************************************************************)
EXTENDS FeedState

\* No gap request is being served: the loop of serveGapRequest is over.
ServerIdle == serving.i > serving.last

\* SnapshotServer::createSnapshotServer: socket, bind, listen, epoll.  Clients
\* that come earlier are refused.
CreateSnapshotServer ==
    /\ serverUp /\ ~listening
    /\ listening' = TRUE
    /\ UNCHANGED <<serverUp, sent, serving, wire, tcpVars, alive, poolVars,
                   recvQ, sendQ, recvVars, seqVars, dbVars, handed>>

\* SnapshotServer::serveClients, the branch of the listening socket.
Accept ==
    /\ serverUp /\ ServerIdle
    /\ conn = "pending"
    /\ conn' = "open"
    /\ UNCHANGED <<serverVars, wire, reqs, stream, alive, poolVars, recvQ,
                   sendQ, recvVars, seqVars, dbVars, handed>>

\* Mutant: the loop of serveGapRequest stops before the last trade.
ReadRequestExclusive ==
    /\ serverUp /\ ServerIdle
    /\ conn = "open"
    /\ reqs # <<>>
    /\ reqs' = Tail(reqs)
    /\ serving' = [i |-> reqs[1].start, last |-> reqs[1].end - 1]
    /\ UNCHANGED <<serverUp, listening, sent, wire, conn, stream, alive,
                   poolVars, recvQ, sendQ, recvVars, seqVars, dbVars, handed>>

\* Mutant: the loop of serveGapRequest starts behind the first trade.
ReadRequestFromNext ==
    /\ serverUp /\ ServerIdle
    /\ conn = "open"
    /\ reqs # <<>>
    /\ reqs' = Tail(reqs)
    /\ serving' = [i |-> reqs[1].start + 1, last |-> reqs[1].end + 1]
    /\ UNCHANGED <<serverUp, listening, sent, wire, conn, stream, alive,
                   poolVars, recvQ, sendQ, recvVars, seqVars, dbVars, handed>>

\* SnapshotServer::serveClients, the branch of a client: one read() takes what
\* has arrived.  Only a read of exactly one request starts serveGapRequest
\* (whose test of the range only writes to the log).  Several requests, or a
\* request that arrives in two parts, are "unknown messages" and forgotten.
\* read() returns 0 or fails only behind the end of the client, and the branch for
\* that closes a connection that nobody uses any more: it is left out.
ReadRequest ==
    /\ serverUp /\ ServerIdle
    /\ conn = "open"
    /\ \E k \in 1 .. Len(reqs) :
          /\ reqs' = SubSeq(reqs, k + 1, Len(reqs))
          /\ \/ /\ k = 1
                /\ serving' = [i |-> reqs[1].start, last |-> reqs[1].end]
             \/ /\ k > 1 \/ "fragment" \in Faults
                /\ serving' = serving
    /\ UNCHANGED <<serverUp, listening, sent, wire, conn, stream, alive,
                   poolVars, recvQ, sendQ, recvVars, seqVars, dbVars, handed>>

\* One iteration of the loop of serveGapRequest.  Behind the end of the store
\* get() is nullptr and send() fails, which nobody looks at.
SendGapMsg ==
    /\ serverUp /\ ~ServerIdle
    /\ serving' = [i |-> serving.i + 1, last |-> serving.last]
    /\ stream' = IF serving.i \in Trades
                 THEN stream \o <<Half(serving.i, 1), Half(serving.i, 2)>>
                 ELSE stream
    /\ UNCHANGED <<serverUp, listening, sent, wire, conn, reqs, alive,
                   poolVars, recvQ, sendQ, recvVars, seqVars, dbVars, handed>>

\* One iteration of MulticastServer::serveClients.  No copy: the trade is one
\* of the artificial gaps, sendto failed, or the network lost the datagram.
MulticastSend ==
    /\ serverUp
    /\ sent < NumTrades
    /\ sent' = sent + 1
    /\ \E n \in 0 .. MaxCopies[sent] : wire' = [wire EXCEPT ![sent] = n]
    /\ UNCHANGED <<serverUp, listening, serving, tcpVars, alive, poolVars,
                   recvQ, sendQ, recvVars, seqVars, dbVars, handed>>

\* The server process ends.  What the client can still read of the TCP stream
\* is a prefix of what was written.
ServerDies ==
    /\ "eof" \in Faults
    /\ serverUp
    /\ serverUp' = FALSE /\ listening' = FALSE
    /\ conn' = IF conn = "none" THEN "none" ELSE "closed"
    /\ reqs' = <<>>
    /\ \E n \in 0 .. Len(stream) : stream' = SubSeq(stream, 1, n)
    /\ UNCHANGED <<sent, serving, wire, alive, poolVars, recvQ, sendQ,
                   recvVars, seqVars, dbVars, handed>>

ServerNext ==
    \/ CreateSnapshotServer
    \/ Accept
    \/ ReadRequest
    \/ SendGapMsg
    \/ MulticastSend
    \/ ServerDies

=============================================================================
