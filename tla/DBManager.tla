------------------------------ MODULE DBManager ------------------------------
(***************************************************************************)
(* DBManager of DBManager.hpp with DESTROY_MESSAGES = true: the thread that *)
(* writes the trades to the database and gives the buffers back.  DBRun is  *)
(* the loop that run() calls: runSingle(), runBatch() or runCopy(), one of  *)
(* which is not commented out.  cpc is the place in that loop; batch and    *)
(* the pool belong to it as in the code.                                    *)
(***************************************************************************)
EXTENDS FeedState

DUnchanged == UNCHANGED <<serverVars, wire, tcpVars, alive, recvQ, recvVars,
                          seqVars, handed>>

\* How many messages one transaction takes: runSingle() has no batch and commits
\* each message by itself, which is a batch of one.
BatchLimit == IF DBRun = "single" THEN 1 ELSE BatchSize

\* Mutant: an empty queue does not commit a batch that is not full.
DBDequeueOnlyFull ==
    /\ alive /\ cpc = "loop"
    /\ runC
    /\ sendQ # <<>>
    /\ sendQ' = Tail(sendQ)
    /\ batch' = Append(batch, Head(sendQ))
    /\ cpc' = IF Len(batch') >= BatchLimit THEN "commit" ELSE "loop"
    /\ DUnchanged
    /\ UNCHANGED <<poolVars, runC, rows, commitFailed>>

\* while (runFlag_.load(...)) msg = recvQueue_.dequeue(): an empty queue commits
\* what there is, a full batch is committed at once.  (Nothing but this load
\* depends on the flag, so the load and the dequeue are one step.)
DBDequeue ==
    /\ alive /\ cpc = "loop"
    /\ runC
    /\ \/ /\ sendQ = <<>>
          /\ cpc' = IF batch # <<>> THEN "commit" ELSE "loop"
          /\ UNCHANGED <<sendQ, batch>>
       \/ /\ sendQ # <<>>
          /\ sendQ' = Tail(sendQ)
          /\ batch' = Append(batch, Head(sendQ))
          /\ cpc' = IF Len(batch') >= BatchLimit THEN "commit" ELSE "loop"
    /\ DUnchanged
    /\ UNCHANGED <<poolVars, runC, rows, commitFailed>>

\* The loop has ended: a last batch is flushed, the queue is not.  (runSingle()
\* has nothing to flush: its batch is empty at the top of the loop.)
DBLeaveLoop ==
    /\ alive /\ cpc = "loop"
    /\ ~runC
    /\ cpc' = IF batch # <<>> THEN "flush" ELSE "done"
    /\ DUnchanged
    /\ UNCHANGED <<poolVars, sendQ, batch, runC, rows, commitFailed>>

\* The contents of the buffers a sequence of pointers leads to.
ContentsOf(q) == [k \in 1 .. Len(q) |-> content[q[k]]]

\* One transaction.  An exception leaves the table as it was; it is caught inside
\* the commit function, and the caller cannot tell.
Commit(records) ==
    /\ alive /\ cpc \in {"commit", "flush"}
    /\ \/ /\ rows' = rows \o records
          /\ UNCHANGED commitFailed
       \/ /\ "commit" \in Faults
          /\ commitFailed' = TRUE
          /\ UNCHANGED rows
    /\ cpc' = IF cpc = "commit" THEN "release" ELSE "releaseLast"
    /\ DUnchanged
    /\ UNCHANGED <<poolVars, sendQ, batch, runC>>

\* commitSingle: the prepared INSERT of one message.
CommitSingle == batch # <<>> /\ Commit(<<content[Head(batch)]>>)

\* commitBatch: the prepared INSERTs of the whole batch in one transaction.
CommitBatch == Commit(ContentsOf(batch))

\* Mutant: the first message of a batch is not written.
CommitCopySkipsFirst == Commit(Tail(ContentsOf(batch)))

\* commitCopy: a COPY of the whole batch in one transaction.
CommitCopy == Commit(ContentsOf(batch))

\* Mutant: the batch is not cleared.
DBReleaseNoClear ==
    /\ alive /\ cpc \in {"release", "releaseLast"}
    /\ Deallocate(Head(batch))
    /\ cpc' = IF cpc = "release" THEN "loop" ELSE "done"
    /\ DUnchanged
    /\ UNCHANGED <<content, sendQ, batch, runC, rows, commitFailed>>

\* for (auto m : batch) msgPool_.deallocate(m), one at a time, while the other
\* threads allocate; then batch.clear().
DBRelease ==
    /\ alive /\ cpc \in {"release", "releaseLast"}
    /\ batch # <<>>
    /\ Deallocate(Head(batch))
    /\ batch' = Tail(batch)
    /\ cpc' = IF batch' # <<>> THEN cpc
              ELSE IF cpc = "release" THEN "loop" ELSE "done"
    /\ DUnchanged
    /\ UNCHANGED <<content, sendQ, runC, rows, commitFailed>>

runSingle == DBDequeue \/ DBLeaveLoop \/ CommitSingle \/ DBRelease
runBatch  == DBDequeue \/ DBLeaveLoop \/ CommitBatch \/ DBRelease
runCopy   == DBDequeue \/ DBLeaveLoop \/ CommitCopy \/ DBRelease

DBNext ==
    \/ DBRun = "single" /\ runSingle
    \/ DBRun = "batch" /\ runBatch
    \/ DBRun = "copy" /\ runCopy

\* DBManager::stop, the last call of the main thread's shutdown.
StopDB ==
    /\ alive /\ runC /\ ~runR
    /\ runC' = FALSE
    /\ DUnchanged
    /\ UNCHANGED <<poolVars, sendQ, cpc, batch, rows, commitFailed>>

=============================================================================
