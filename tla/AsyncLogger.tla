----------------------------- MODULE AsyncLogger -----------------------------
(***************************************************************************)
(* AsyncLogger of AsyncLogger.hpp: threads that log take a buffer from the  *)
(* pool, fill it and queue it; the logger thread writes what it dequeues    *)
(* and gives the buffer back.  The pool and the queue are the ones of       *)
(* LockFreeThreadSafePool and MPMCQueue, taken here for what those modules  *)
(* show: allocate, deallocate, enqueue and dequeue are single steps.  (The  *)
(* one consumer takes its dequeue() to be done at the store of seq, where   *)
(* the cell is given back: until then an enqueue() that needs it is         *)
(* refused.)  A line is the thread that logged it and its number there;     *)
(* what it says is left out.                                                *)
(***************************************************************************)
EXTENDS Integers, Sequences, FiniteSets

CONSTANTS
    Threads,       \* the threads that call log()
    LogBuffers,    \* Const::poolMsgCount
    LogCapacity    \* Const::queueCapacity

ASSUME LogBuffersAssumption  == LogBuffers \in Nat \ {0}
ASSUME LogCapacityAssumption == LogCapacity \in Nat \ {0}

VARIABLES
    lFree,      \* buffers in the pool
    lFilled,    \* threads inside log() that hold a buffer
    lQ,         \* the queue
    lRun,       \* runFlag_
    lpc,        \* the logger thread: "loop", "write", "free" or "done"
    lLine,      \* what the logger thread has dequeued, as a sequence of one
    lOut,       \* the stream
    lCount,     \* history: per thread, the lines given to enqueue
    lRefused    \* history: lines that a full queue did not take

logVars == <<lFree, lFilled, lQ, lRun, lpc, lLine, lOut, lCount, lRefused>>
callVars == <<lFree, lFilled, lQ, lCount, lRefused>>

LoggerInit ==
    /\ lFree = LogBuffers
    /\ lFilled = {}
    /\ lQ = <<>> /\ lLine = <<>> /\ lOut = <<>>
    /\ lRun = TRUE
    /\ lpc = "loop"
    /\ lCount = [t \in Threads |-> 0]
    /\ lRefused = {}

\* log() up to the enqueue: a buffer, and the line in it.
LogAllocate(t) ==
    /\ t \notin lFilled
    /\ lFree > 0
    /\ lFree' = lFree - 1
    /\ lFilled' = lFilled \union {t}
    /\ UNCHANGED <<lQ, lRun, lpc, lLine, lOut, lCount, lRefused>>

\* allocate() on an empty pool: it does not return the null pointer that log()
\* tests for ("Logger Pool Exhausted"), but indexes far out of its vector
\* (LockFreeThreadSafePool), which ends the process.
LogExhausted(t) ==
    /\ t \notin lFilled
    /\ lFree = 0
    /\ UNCHANGED logVars

\* Mutant: the newest line goes to the front.
LogEnqueueAtFront(t) ==
    /\ t \in lFilled
    /\ lFilled' = lFilled \ {t}
    /\ lCount' = [lCount EXCEPT ![t] = @ + 1]
    /\ lQ' = <<[by |-> t, n |-> lCount'[t]]>> \o lQ
    /\ UNCHANGED <<lFree, lRun, lpc, lLine, lOut, lRefused>>

\* queue_.enqueue(msg), whose result nobody looks at: the line that a full queue
\* refuses is gone, and its buffer with it.
LogEnqueue(t) ==
    /\ t \in lFilled
    /\ lFilled' = lFilled \ {t}
    /\ lCount' = [lCount EXCEPT ![t] = @ + 1]
    /\ LET line == [by |-> t, n |-> lCount'[t]]
       IN  \/ /\ Len(lQ) < LogCapacity
              /\ lQ' = Append(lQ, line)
              /\ UNCHANGED lRefused
           \/ /\ Len(lQ) >= LogCapacity
              /\ lRefused' = lRefused \union {line}
              /\ UNCHANGED lQ
    /\ UNCHANGED <<lFree, lRun, lpc, lLine, lOut>>

\* while (runFlag_.load()): whatever is queued when the flag falls stays there.
LoggerDequeue ==
    /\ lpc = "loop" /\ lRun
    /\ lQ # <<>>
    /\ lLine' = <<Head(lQ)>>
    /\ lQ' = Tail(lQ)
    /\ lpc' = "write"
    /\ UNCHANGED <<lFree, lFilled, lRun, lOut, lCount, lRefused>>

LoggerWrite ==
    /\ lpc = "write"
    /\ lOut' = lOut \o lLine
    /\ lpc' = "free"
    /\ UNCHANGED <<callVars, lRun, lLine>>

\* Mutant: the buffer is kept.
LoggerFreeForgets ==
    /\ lpc = "free"
    /\ lLine' = <<>>
    /\ lpc' = "loop"
    /\ UNCHANGED <<callVars, lRun, lOut>>

\* pool_.deallocate(msg)
LoggerFree ==
    /\ lpc = "free"
    /\ lFree' = lFree + 1
    /\ lLine' = <<>>
    /\ lpc' = "loop"
    /\ UNCHANGED <<lFilled, lQ, lRun, lOut, lCount, lRefused>>

LoggerLeaves ==
    /\ lpc = "loop" /\ ~lRun
    /\ lpc' = "done"
    /\ UNCHANGED <<callVars, lRun, lLine, lOut>>

LoggerThread == LoggerDequeue \/ LoggerWrite \/ LoggerFree \/ LoggerLeaves

\* ~AsyncLogger, and behind it loggerThread_.join().
LoggerStop ==
    /\ lRun' = FALSE
    /\ UNCHANGED <<callVars, lpc, lLine, lOut>>

LoggerJoined == lpc = "done"

-----------------------------------------------------------------------------
\* The lines that the threads logged, and those of them that the queue took.
Logged == UNION {[by : {t}, n : 1 .. lCount[t]] : t \in Threads}
Taken  == Logged \ lRefused

\* What is on the stream, in the logger thread's hand or in the queue.
InSystem == lOut \o (IF lpc = "write" THEN lLine ELSE <<>>) \o lQ

\* AsyncLogger.hpp:42-79: between them, the stream, the logger thread and the
\* queue have every line of every thread once and in the order of that thread,
\* except the lines that a full queue refused.
LinesInOrder ==
    /\ {InSystem[i] : i \in 1 .. Len(InSystem)} = Taken
    /\ \A i, j \in 1 .. Len(InSystem) :
          i < j /\ InSystem[i].by = InSystem[j].by => InSystem[i].n < InSystem[j].n

\* AsyncLogger.hpp:44-73: a buffer is in the pool, held inside log(), queued, in
\* the hand of the logger thread, or lost with a line that was refused.  What can
\* be lost so are the buffers that the pool has more than the queue has places.
LogBuffersKept ==
    /\ lFree + Cardinality(lFilled) + Len(lQ) + Len(lLine) + Cardinality(lRefused)
           = LogBuffers
    /\ \/ Cardinality(lRefused) <= LogBuffers - LogCapacity
       \/ lRefused = {}

=============================================================================
