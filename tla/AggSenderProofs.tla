--------------------------- MODULE AggSenderProofs ---------------------------
(***************************************************************************)
(* AggTradeMQSender with its logger, for every file of trades, every number *)
(* of log buffers and every capacity: the logger keeps its buffers and the  *)
(* order of the lines, every trade is in one place, and a message sums one  *)
(* slice of time.                                                           *)
(***************************************************************************)
EXTENDS AggTradeMQSender, SequenceTheorems, FiniteSetTheorems, TLAPS

-----------------------------------------------------------------------------
(***************************************************************************)
(* The buffers of the logger.                                               *)
(***************************************************************************)
Lines == [by : Threads, n : Nat]

\* The types of the logger's variables; the lines that were refused are among
\* those that were logged.
LogTypeOK ==
    /\ lFree \in Nat
    /\ lFilled \subseteq Threads
    /\ lQ \in Seq(Lines) /\ lLine \in Seq(Lines)
    /\ Len(lLine) = IF lpc \in {"write", "free"} THEN 1 ELSE 0
    /\ lCount \in [Threads -> Nat]
    /\ lRefused \subseteq Lines /\ IsFiniteSet(lRefused)
    /\ \A line \in lRefused : line.n <= lCount[line.by]

LogInv == LogTypeOK /\ LogBuffersKept

\* What a step of the program does to the logger.
LEMMA LogSteps ==
    ASSUME [Next]_vars
    PROVE  \/ UNCHANGED logVars
           \/ \E t \in Threads : LogAllocate(t) \/ LogEnqueue(t)
           \/ LoggerThread
           \/ LoggerStop
<1>1. CASE Step(RunThread) \/ Step(MainThread)
  <2>1. ASSUME NEW t \in Threads,
               Log(t) \/ LogDies(t) \/ SendOne(t) \/ SendThrows(t) \/ SendClear(t)
        PROVE  UNCHANGED logVars \/ LogAllocate(t) \/ LogEnqueue(t)
    BY <2>1 DEF Log, LogDies, LogExhausted, SendOne, SendThrows, SendClear
  <2>2. CASE TakeTrade \/ CompareTime \/ AggregateTrade
    BY <2>2 DEF TakeTrade, CompareTime, AggregateTrade
  <2>3. CASE Spawn \/ Feed \/ StopFlag \/ StopSize \/ Join \/ Destroy
    BY <2>3 DEF Spawn, Feed, StopFlag, StopSize, Join, Destroy
  <2>4. "run" \in Threads /\ "main" \in Threads
    BY ThreadsAssumption
  <2>5. QED
    BY <1>1, <2>1, <2>2, <2>3, <2>4 DEF Step, RunThread, MainThread
<1>2. CASE Step(Logger)
  BY <1>2 DEF Step, Logger
<1>3. CASE Step(Corrupted) \/ Ended \/ UNCHANGED vars
  BY <1>3 DEF Step, Corrupted, Ended, vars
<1>4. QED
  BY <1>1, <1>2, <1>3 DEF Next

\* The sizes that LogBuffersKept adds up are numbers.
LEMMA LogSizes ==
    ASSUME LogTypeOK
    PROVE  /\ IsFiniteSet(lFilled) /\ IsFiniteSet(lRefused)
           /\ Cardinality(lFilled) \in Nat /\ Cardinality(lRefused) \in Nat
           /\ Len(lQ) \in Nat /\ Len(lLine) \in Nat /\ lFree \in Nat
           /\ LogBuffers \in Nat /\ LogCapacity \in Nat
<1>1. IsFiniteSet(Threads)
  <2>1. /\ IsFiniteSet({}) /\ IsFiniteSet({"main"})
        /\ {"main", "run"} = {"main"} \union {"run"}
    BY FS_EmptySet, FS_Singleton
  <2>2. QED
    BY <2>1, ThreadsAssumption, FS_AddElement
<1>2. IsFiniteSet(lFilled) /\ IsFiniteSet(lRefused)
  BY <1>1, FS_Subset DEF LogTypeOK
<1>3. QED
  BY <1>2, FS_CardinalityType, LenProperties, LogBuffersAssumption,
     LogCapacityAssumption DEF LogTypeOK

\* log() takes a buffer.
LEMMA LogAllocateKeeps ==
    ASSUME LogInv, NEW t \in Threads, LogAllocate(t)
    PROVE  LogInv'
<1>1. LogTypeOK /\ LogBuffersKept
  BY DEF LogInv
<1>2. /\ t \notin lFilled /\ lFree > 0
      /\ lFree' = lFree - 1 /\ lFilled' = lFilled \union {t}
      /\ UNCHANGED <<lQ, lpc, lLine, lCount, lRefused>>
  BY DEF LogAllocate
<1>3. Cardinality(lFilled') = Cardinality(lFilled) + 1
  BY <1>1, <1>2, LogSizes, FS_AddElement
<1>4. LogTypeOK'
  BY <1>1, <1>2 DEF LogTypeOK
<1>5. LogBuffersKept'
  <2>1. \A f, c, q, l, r, n \in Int :
           f + c + q + l + r = n => (f - 1) + (c + 1) + q + l + r = n
    OBVIOUS
  <2>2. (lFree - 1) + (Cardinality(lFilled) + 1) + Len(lQ) + Len(lLine)
           + Cardinality(lRefused) = LogBuffers
    BY <1>1, <2>1, LogSizes DEF LogBuffersKept
  <2>3. QED
    BY <1>1, <1>2, <1>3, <2>2 DEF LogBuffersKept
<1>6. QED
  BY <1>4, <1>5 DEF LogInv

\* log() queues its line, or loses it with the buffer.
LEMMA LogEnqueueKeeps ==
    ASSUME LogInv, NEW t \in Threads, LogEnqueue(t)
    PROVE  LogInv'
<1> DEFINE line == [by |-> t, n |-> lCount'[t]]
<1>1. LogTypeOK /\ LogBuffersKept
  BY DEF LogInv
<1>2. /\ t \in lFilled /\ lFilled' = lFilled \ {t}
      /\ lCount' = [lCount EXCEPT ![t] = @ + 1]
      /\ UNCHANGED <<lFree, lpc, lLine>>
      /\ \/ lQ' = Append(lQ, line) /\ lRefused' = lRefused
         \/ Len(lQ) >= LogCapacity /\ lRefused' = lRefused \union {line} /\ lQ' = lQ
  BY DEF LogEnqueue
<1>3. /\ lCount \in [Threads -> Nat] /\ lCount' \in [Threads -> Nat]
      /\ lCount'[t] = lCount[t] + 1
      /\ \A u \in Threads : lCount[u] <= lCount'[u]
  BY <1>1, <1>2 DEF LogTypeOK
<1>4. line \in Lines /\ line.by = t /\ line.n = lCount[t] + 1
  BY <1>3 DEF Lines
<1>5. line \notin lRefused
  <2>1. \A r \in lRefused : r.n <= lCount[r.by]
    BY <1>1 DEF LogTypeOK
  <2>2. ~(lCount[t] + 1 <= lCount[t])
    BY <1>3
  <2>3. QED
    BY <1>4, <2>1, <2>2
<1>6. Cardinality(lFilled') = Cardinality(lFilled) - 1
  BY <1>1, <1>2, LogSizes, FS_RemoveElement
<1>7. ASSUME NEW r \in lRefused \union {line} PROVE r.n <= lCount'[r.by]
  <2>1. CASE r \in lRefused
    <3>1. r \in Lines /\ r.n <= lCount[r.by]
      BY <1>1, <2>1 DEF LogTypeOK
    <3>2. r.by \in Threads /\ r.n \in Nat
      BY <3>1 DEF Lines
    <3>3. QED
      BY <1>3, <3>1, <3>2
  <2>2. CASE r = line
    BY <1>3, <1>4, <2>2
  <2>3. QED
    BY <1>7, <2>1, <2>2
<1> HIDE DEF line
<1>8. CASE lQ' = Append(lQ, line) /\ lRefused' = lRefused
  <2>1. lQ' \in Seq(Lines) /\ Len(lQ') = Len(lQ) + 1
    BY <1>1, <1>4, <1>8, AppendProperties DEF LogTypeOK
  <2>2. LogTypeOK'
    BY <1>1, <1>2, <1>3, <1>7, <1>8, <2>1 DEF LogTypeOK
  <2>3. LogBuffersKept'
    <3>1. \A f, c, q, l, r, n \in Int :
             f + c + q + l + r = n => f + (c - 1) + (q + 1) + l + r = n
      OBVIOUS
    <3>2. /\ LogBuffers \in Nat /\ lFree \in Nat
          /\ Cardinality(lFilled) \in Nat /\ Cardinality(lRefused) \in Nat
          /\ Len(lQ) \in Nat /\ Len(lLine) \in Nat
          /\ lFree + Cardinality(lFilled) + Len(lQ) + Len(lLine) + Cardinality(lRefused)
                = LogBuffers
      BY <1>1, LogSizes DEF LogBuffersKept
    <3>3. lFree + Cardinality(lFilled') + Len(lQ') + Len(lLine) + Cardinality(lRefused)
             = LogBuffers
      BY <1>6, <2>1, <3>1, <3>2
    <3>4. QED
      BY <1>1, <1>2, <1>8, <3>3 DEF LogBuffersKept
  <2>4. QED
    BY <2>2, <2>3 DEF LogInv
<1>9. CASE Len(lQ) >= LogCapacity /\ lRefused' = lRefused \union {line} /\ lQ' = lQ
  <2>1. Cardinality(lRefused') = Cardinality(lRefused) + 1 /\ IsFiniteSet(lRefused')
    BY <1>1, <1>5, <1>9, LogSizes, FS_AddElement
  <2>2. LogTypeOK'
    BY <1>1, <1>2, <1>3, <1>4, <1>7, <1>9, <2>1 DEF LogTypeOK
  <2>3. LogBuffersKept'
    <3>1. /\ LogBuffers \in Nat /\ LogCapacity \in Nat /\ lFree \in Nat
          /\ Cardinality(lFilled) \in Nat /\ Cardinality(lRefused) \in Nat
          /\ Len(lQ) \in Nat /\ Len(lLine) \in Nat
          /\ lFree + Cardinality(lFilled) + Len(lQ) + Len(lLine) + Cardinality(lRefused)
                = LogBuffers
      BY <1>1, LogSizes DEF LogBuffersKept
    <3>2. lFree + Cardinality(lFilled') + Len(lQ) + Len(lLine) + Cardinality(lRefused')
             = LogBuffers
      <4>1. \A f, c, q, l, r, n \in Int :
               f + c + q + l + r = n => f + (c - 1) + q + l + (r + 1) = n
        OBVIOUS
      <4>2. QED
        BY <1>6, <2>1, <3>1, <4>1
    <3>3. Cardinality(lRefused') <= LogBuffers - LogCapacity
      <4>1. \A f, c, q, l, r, n, k \in Nat :
               f + c + q + l + r = n /\ c >= 1 /\ q >= k => r + 1 <= n - k
        OBVIOUS
      <4>2. Cardinality(lFilled) >= 1
        <5>1. Cardinality(lFilled) - 1 \in Nat
          BY <1>1, <1>2, <1>6, LogSizes, FS_RemoveElement, FS_CardinalityType
        <5>2. QED
          BY <3>1, <5>1
      <4>3. QED
        BY <1>9, <2>1, <3>1, <4>1, <4>2
    <3>4. QED
      BY <1>2, <1>9, <3>2, <3>3 DEF LogBuffersKept
  <2>4. QED
    BY <2>2, <2>3 DEF LogInv
<1>10. QED
  BY <1>2, <1>8, <1>9

\* The logger thread, and the destructor.
LEMMA LoggerKeeps ==
    ASSUME LogInv, LoggerThread \/ LoggerStop \/ UNCHANGED logVars
    PROVE  LogInv'
<1>1. LogTypeOK /\ LogBuffersKept
  BY DEF LogInv
<1>2. CASE LoggerDequeue
  <2>1. /\ lpc = "loop" /\ lQ # <<>> /\ lLine' = <<Head(lQ)>> /\ lQ' = Tail(lQ)
        /\ lpc' = "write" /\ UNCHANGED <<lFree, lFilled, lCount, lRefused>>
    BY <1>2 DEF LoggerDequeue
  <2>2. /\ Head(lQ) \in Lines /\ Tail(lQ) \in Seq(Lines)
        /\ Len(Tail(lQ)) = Len(lQ) - 1
    BY <1>1, <2>1, HeadTailProperties DEF LogTypeOK
  <2>3. lLine' \in Seq(Lines) /\ Len(lLine') = 1 /\ Len(lLine) = 0
    BY <1>1, <2>1, <2>2 DEF LogTypeOK
  <2>4. LogTypeOK'
    BY <1>1, <2>1, <2>2, <2>3 DEF LogTypeOK
  <2>5. LogBuffersKept'
    <3>1. \A f, c, q, r, n \in Int : f + c + q + 0 + r = n => f + c + (q - 1) + 1 + r = n
      OBVIOUS
    <3>2. lFree + Cardinality(lFilled) + Len(lQ) + 0 + Cardinality(lRefused) = LogBuffers
      BY <1>1, <2>3 DEF LogBuffersKept
    <3>3. lFree + Cardinality(lFilled) + (Len(lQ) - 1) + 1 + Cardinality(lRefused)
             = LogBuffers
      BY <1>1, <3>1, <3>2, LogSizes
    <3>4. QED
      BY <1>1, <2>1, <2>2, <2>3, <3>3 DEF LogBuffersKept
  <2>6. QED
    BY <2>4, <2>5 DEF LogInv
<1>3. CASE LoggerFree
  <2>1. /\ lpc = "free" /\ lFree' = lFree + 1 /\ lLine' = <<>> /\ lpc' = "loop"
        /\ UNCHANGED <<lFilled, lQ, lCount, lRefused>>
    BY <1>3 DEF LoggerFree
  <2>2. lLine' \in Seq(Lines) /\ Len(lLine') = 0 /\ Len(lLine) = 1
    BY <1>1, <2>1 DEF LogTypeOK
  <2>3. LogTypeOK'
    BY <1>1, <2>1, <2>2 DEF LogTypeOK
  <2>4. LogBuffersKept'
    <3>1. \A f, c, q, r, n \in Int : f + c + q + 1 + r = n => (f + 1) + c + q + 0 + r = n
      OBVIOUS
    <3>2. lFree + Cardinality(lFilled) + Len(lQ) + 1 + Cardinality(lRefused) = LogBuffers
      BY <1>1, <2>2 DEF LogBuffersKept
    <3>3. (lFree + 1) + Cardinality(lFilled) + Len(lQ) + 0 + Cardinality(lRefused)
             = LogBuffers
      BY <1>1, <3>1, <3>2, LogSizes
    <3>4. QED
      BY <1>1, <2>1, <2>2, <3>3 DEF LogBuffersKept
  <2>5. QED
    BY <2>3, <2>4 DEF LogInv
<1>4. CASE LoggerWrite \/ LoggerLeaves \/ LoggerStop \/ UNCHANGED logVars
  <2>1. /\ UNCHANGED <<lFree, lFilled, lQ, lCount, lRefused, lLine>>
        /\ \/ lpc' = lpc
           \/ lpc = "write" /\ lpc' = "free"
           \/ lpc = "loop" /\ lpc' = "done"
    BY <1>4 DEF LoggerWrite, LoggerLeaves, LoggerStop, callVars, logVars
  <2>2. QED
    BY <1>1, <2>1 DEF LogInv, LogTypeOK, LogBuffersKept
<1>5. QED
  BY <1>2, <1>3, <1>4 DEF LoggerThread

-----------------------------------------------------------------------------
(***************************************************************************)
(* The order of the lines.                                                  *)
(***************************************************************************)
\* The lines of S are those of L, each thread's in the order of their numbers.
LinesAre(S, L) ==
    /\ {S[i] : i \in 1 .. Len(S)} = L
    /\ \A i, j \in 1 .. Len(S) : i < j /\ S[i].by = S[j].by => S[i].n < S[j].n

\* The inductive invariant behind LinesInOrder.
StreamOK == lOut \in Seq(Lines) /\ lpc \in {"loop", "write", "free", "done"}
LineInv  == LogInv /\ StreamOK /\ LinesAre(InSystem, Taken)

\* A line that is newer than all of its thread may come last.
LEMMA LinesAppend ==
    ASSUME NEW S \in Seq(Lines), NEW L, LinesAre(S, L), NEW line \in Lines,
           \A x \in L : x.by = line.by => x.n < line.n
    PROVE  LinesAre(Append(S, line), L \union {line})
<1> DEFINE T == Append(S, line)
<1>1. /\ Len(S) \in Nat /\ Len(T) = Len(S) + 1 /\ T[Len(S) + 1] = line
      /\ \A i \in 1 .. Len(S) : T[i] = S[i]
  BY LenProperties, AppendProperties
<1> HIDE DEF T
<1>2. /\ \A i \in 1 .. Len(T) : i \in 1 .. Len(S) \/ i = Len(S) + 1
      /\ \A i \in 1 .. Len(S) : i \in 1 .. Len(T)
      /\ Len(S) + 1 \in 1 .. Len(T)
  BY <1>1
<1>3. {T[i] : i \in 1 .. Len(T)} = L \union {line}
  <2>1. L = {S[i] : i \in 1 .. Len(S)}
    BY DEF LinesAre
  <2>2. QED
    BY <1>1, <1>2, <2>1
<1>4. ASSUME NEW i \in 1 .. Len(T), NEW j \in 1 .. Len(T), i < j, T[i].by = T[j].by
      PROVE  T[i].n < T[j].n
  <2>1. i \in 1 .. Len(S)
    BY <1>1, <1>2, <1>4
  <2>2. CASE j \in 1 .. Len(S)
    BY <1>1, <1>4, <2>1, <2>2 DEF LinesAre
  <2>3. CASE j = Len(S) + 1
    <3>1. S[i] \in L
      BY <2>1 DEF LinesAre
    <3>2. QED
      BY <1>1, <1>4, <2>1, <2>3, <3>1
  <2>4. QED
    BY <1>2, <2>2, <2>3
<1>5. QED
  BY <1>3, <1>4 DEF LinesAre, T

\* The parts of InSystem.
LEMMA InSystemParts ==
    ASSUME LogInv, StreamOK
    PROVE  /\ lOut \in Seq(Lines) /\ lLine \in Seq(Lines) /\ lQ \in Seq(Lines)
           /\ lpc = "write" => InSystem = (lOut \o lLine) \o lQ
           /\ lpc # "write" => InSystem = lOut \o lQ
           /\ InSystem \in Seq(Lines)
<1>1. lOut \in Seq(Lines) /\ lLine \in Seq(Lines) /\ lQ \in Seq(Lines)
  BY DEF LogInv, LogTypeOK, StreamOK
<1>2. lpc = "write" => InSystem = (lOut \o lLine) \o lQ
  BY DEF InSystem
<1>3. lpc # "write" => InSystem = lOut \o lQ
  <2>1. lOut \o <<>> = lOut
    BY <1>1, ConcatEmptySeq
  <2>2. QED
    BY <2>1 DEF InSystem
<1>4. lOut \o lLine \in Seq(Lines)
  BY <1>1, ConcatProperties
<1>5. (lOut \o lLine) \o lQ \in Seq(Lines) /\ lOut \o lQ \in Seq(Lines)
  BY <1>1, <1>4, ConcatProperties
<1>6. QED
  BY <1>1, <1>2, <1>3, <1>5

\* Appending to the queue appends to InSystem.
LEMMA ConcatAppend ==
    ASSUME NEW S \in Seq(Lines), NEW Q \in Seq(Lines), NEW line \in Lines
    PROVE  S \o Append(Q, line) = Append(S \o Q, line)
<1>1. S \o Q \in Seq(Lines) /\ <<line>> \in Seq(Lines)
  BY ConcatProperties
<1>2. Append(Q, line) = Q \o <<line>> /\ Append(S \o Q, line) = (S \o Q) \o <<line>>
  BY <1>1, AppendIsConcat
<1>3. (S \o Q) \o <<line>> = S \o (Q \o <<line>>)
  BY <1>1, ConcatAssociative
<1>4. QED
  BY <1>2, <1>3

\* The lines of each thread are numbered from 1.
LEMMA LoggedIs ==
    lCount \in [Threads -> Nat] =>
        \A x : x \in Logged <=> x \in Lines /\ x.n \in 1 .. lCount[x.by]
<1> SUFFICES ASSUME lCount \in [Threads -> Nat], NEW x
             PROVE  x \in Logged <=> x \in Lines /\ x.n \in 1 .. lCount[x.by]
  OBVIOUS
<1>1. ASSUME x \in Logged PROVE x \in Lines /\ x.n \in 1 .. lCount[x.by]
  <2>1. PICK u \in Threads : x \in [by : {u}, n : 1 .. lCount[u]]
    BY <1>1 DEF Logged
  <2>2. x.by = u /\ x.n \in 1 .. lCount[u] /\ x = [by |-> x.by, n |-> x.n]
    BY <2>1
  <2>3. x.n \in Nat
    BY <2>2
  <2>4. QED
    BY <2>2, <2>3 DEF Lines
<1>2. ASSUME x \in Lines, x.n \in 1 .. lCount[x.by] PROVE x \in Logged
  <2>1. x.by \in Threads /\ x \in [by : {x.by}, n : 1 .. lCount[x.by]]
    BY <1>2 DEF Lines
  <2>2. QED
    BY <2>1 DEF Logged
<1>3. QED
  BY <1>1, <1>2

\* log() adds its line behind the others, or to the refused ones.
LEMMA EnqueueKeepsLines ==
    ASSUME LineInv, LogInv', NEW t \in Threads, LogEnqueue(t)
    PROVE  LineInv'
<1> DEFINE line == [by |-> t, n |-> lCount'[t]]
<1>1. LogInv /\ StreamOK /\ LinesAre(InSystem, Taken)
  BY DEF LineInv
<1>2. /\ lCount' = [lCount EXCEPT ![t] = @ + 1]
      /\ UNCHANGED <<lpc, lLine, lOut>>
      /\ \/ lQ' = Append(lQ, line) /\ lRefused' = lRefused
         \/ lRefused' = lRefused \union {line} /\ lQ' = lQ
  BY DEF LogEnqueue
<1>3. /\ lCount \in [Threads -> Nat] /\ lCount'[t] = lCount[t] + 1
      /\ \A u \in Threads \ {t} : lCount'[u] = lCount[u]
  BY <1>1, <1>2 DEF LogInv, LogTypeOK
<1>4. line \in Lines /\ line.by = t /\ line.n = lCount[t] + 1
  BY <1>3 DEF Lines
<1>5. StreamOK'
  BY <1>1, <1>2 DEF StreamOK
<1>6. line \notin lRefused
  <2>1. \A r \in lRefused : r.n <= lCount[r.by]
    BY <1>1 DEF LogInv, LogTypeOK
  <2>2. ~(lCount[t] + 1 <= lCount[t])
    BY <1>3
  <2>3. QED
    BY <1>4, <2>1, <2>2
<1>7. Logged' = Logged \union {line} /\ line \notin Logged
  <2>1. /\ \A x : x \in Logged <=> x \in Lines /\ x.n \in 1 .. lCount[x.by]
        /\ \A x : x \in Logged' <=> x \in Lines /\ x.n \in 1 .. lCount'[x.by]
    <3>1. (lCount \in [Threads -> Nat] =>
              \A x : x \in Logged <=> x \in Lines /\ x.n \in 1 .. lCount[x.by])'
      BY LoggedIs, PTL
    <3>2. QED
      BY <1>1, <3>1, LoggedIs DEF LogInv, LogTypeOK
  <2>2. ASSUME NEW x \in Lines
        PROVE  x.n \in 1 .. lCount'[x.by] <=> (x.n \in 1 .. lCount[x.by] \/ x = line)
    <3>1. x.by \in Threads /\ x.n \in Nat /\ x = [by |-> x.by, n |-> x.n]
      BY DEF Lines
    <3>2. CASE x.by = t
      <4>1. \A k, n \in Nat : n \in 1 .. (k + 1) <=> (n \in 1 .. k \/ n = k + 1)
        OBVIOUS
      <4>2. x = line <=> x.n = lCount[t] + 1
        BY <1>3, <3>1, <3>2
      <4>3. QED
        BY <1>3, <3>1, <3>2, <4>1, <4>2
    <3>3. CASE x.by # t
      BY <1>3, <1>4, <3>1, <3>3
    <3>4. QED
      BY <3>2, <3>3
  <2>3. line.n \notin 1 .. lCount[line.by]
    BY <1>3, <1>4
  <2> HIDE DEF line
  <2>4. QED
    BY <1>4, <2>1, <2>2, <2>3
<1>8. /\ Taken = Logged \ lRefused
      /\ Taken' = Logged' \ lRefused'
  BY DEF Taken
<1>9. \A x \in Taken : x.by = t => x.n \in 1 .. lCount[t]
  BY <1>1, <1>8, LoggedIs DEF LogInv, LogTypeOK
<1>10. CASE lQ' = Append(lQ, line) /\ lRefused' = lRefused
  <2>1. InSystem' = Append(InSystem, line)
    <3>1. /\ lOut \in Seq(Lines) /\ lLine \in Seq(Lines) /\ lQ \in Seq(Lines)
          /\ lpc = "write" => InSystem = (lOut \o lLine) \o lQ
          /\ lpc # "write" => InSystem = lOut \o lQ
      BY <1>1, InSystemParts
    <3>2. lOut \o lLine \in Seq(Lines)
      BY <3>1, ConcatProperties
    <3>3. /\ (lOut \o lLine) \o Append(lQ, line) = Append((lOut \o lLine) \o lQ, line)
          /\ lOut \o Append(lQ, line) = Append(lOut \o lQ, line)
      BY <1>4, <3>1, <3>2, ConcatAppend
    <3>4. /\ lpc' = "write" => InSystem' = (lOut' \o lLine') \o lQ'
          /\ lpc' # "write" => InSystem' = lOut' \o lQ'
      <4>1. (LogInv /\ StreamOK => /\ lpc = "write" => InSystem = (lOut \o lLine) \o lQ
                                   /\ lpc # "write" => InSystem = lOut \o lQ)'
        BY InSystemParts, PTL
      <4>2. QED
        BY <1>5, <4>1
    <3>5. QED
      BY <1>2, <1>10, <3>1, <3>3, <3>4
  <2>2. Taken' = Taken \union {line}
    BY <1>6, <1>7, <1>8, <1>10
  <2>3. \A x \in Taken : x.by = line.by => x.n < line.n
    BY <1>3, <1>4, <1>9
  <2> HIDE DEF line
  <2>4. InSystem \in Seq(Lines)
    BY <1>1, InSystemParts
  <2>5. LinesAre(Append(InSystem, line), Taken \union {line})
    BY <1>1, <1>4, <2>3, <2>4, LinesAppend
  <2>6. QED
    BY <1>5, <2>1, <2>2, <2>5 DEF LineInv
<1>11. CASE lRefused' = lRefused \union {line} /\ lQ' = lQ
  <2>1. InSystem' = InSystem
    BY <1>2, <1>11 DEF InSystem
  <2>2. Taken' = Taken
    BY <1>7, <1>8, <1>11
  <2>3. QED
    BY <1>1, <1>5, <2>1, <2>2 DEF LineInv
<1>12. QED
  BY <1>2, <1>10, <1>11

\* The logger thread moves a line towards the stream.
LEMMA LoggerKeepsLines ==
    ASSUME LineInv, LogInv',
           LoggerThread \/ LoggerStop \/ UNCHANGED logVars \/ \E t \in Threads : LogAllocate(t)
    PROVE  LineInv'
<1>1. LogInv /\ StreamOK /\ LinesAre(InSystem, Taken)
  BY DEF LineInv
<1>2. UNCHANGED <<lCount, lRefused>>
  BY DEF LoggerThread, LoggerDequeue, LoggerWrite, LoggerFree, LoggerLeaves, LoggerStop,
         LogAllocate, callVars, logVars
<1>3. Taken' = Taken
  BY <1>2 DEF Taken, Logged
<1>4. /\ lOut \in Seq(Lines) /\ lLine \in Seq(Lines) /\ lQ \in Seq(Lines)
      /\ lpc = "write" => InSystem = (lOut \o lLine) \o lQ
      /\ lpc # "write" => InSystem = lOut \o lQ
  BY <1>1, InSystemParts
<1>5. StreamOK' => /\ lpc' = "write" => InSystem' = (lOut' \o lLine') \o lQ'
                   /\ lpc' # "write" => InSystem' = lOut' \o lQ'
  <2>1. (LogInv /\ StreamOK => /\ lpc = "write" => InSystem = (lOut \o lLine) \o lQ
                               /\ lpc # "write" => InSystem = lOut \o lQ)'
    BY InSystemParts, PTL
  <2>2. QED
    BY <2>1
<1>6. StreamOK' /\ InSystem' = InSystem
  <2>1. CASE LoggerDequeue
    <3>1. /\ lpc = "loop" /\ lpc' = "write" /\ lQ # <<>> /\ lLine' = <<Head(lQ)>>
          /\ lQ' = Tail(lQ) /\ lOut' = lOut
      BY <2>1 DEF LoggerDequeue
    <3>2. StreamOK'
      BY <1>1, <3>1 DEF StreamOK
    <3>3. <<Head(lQ)>> \in Seq(Lines) /\ Tail(lQ) \in Seq(Lines)
      BY <1>4, <3>1, HeadTailProperties
    <3>4. <<Head(lQ)>> \o Tail(lQ) = lQ
      BY <1>4, <3>1
    <3>5. (lOut \o <<Head(lQ)>>) \o Tail(lQ) = lOut \o (<<Head(lQ)>> \o Tail(lQ))
      <4>1. \A a, b, c \in Seq(Lines) : (a \o b) \o c = a \o (b \o c)
        BY ConcatAssociative
      <4>2. QED
        BY <1>4, <3>3, <4>1
    <3>6. QED
      BY <1>4, <1>5, <3>1, <3>2, <3>4, <3>5
  <2>2. CASE LoggerWrite
    <3>1. /\ lpc = "write" /\ lpc' = "free" /\ lOut' = lOut \o lLine /\ lQ' = lQ
      BY <2>2 DEF LoggerWrite, callVars
    <3>2. StreamOK'
      BY <1>4, <3>1, ConcatProperties DEF StreamOK
    <3>3. QED
      BY <1>4, <1>5, <3>1, <3>2
  <2>3. CASE LoggerFree \/ LoggerLeaves
    <3>1. lpc # "write" /\ lpc' \in {"loop", "done"} /\ lOut' = lOut /\ lQ' = lQ
      BY <2>3 DEF LoggerFree, LoggerLeaves, callVars
    <3>2. StreamOK'
      BY <1>1, <3>1 DEF StreamOK
    <3>3. QED
      BY <1>4, <1>5, <3>1, <3>2
  <2>4. CASE LoggerStop \/ UNCHANGED logVars \/ \E t \in Threads : LogAllocate(t)
    <3>1. UNCHANGED <<lpc, lOut, lQ, lLine>>
      BY <2>4 DEF LoggerStop, LogAllocate, callVars, logVars
    <3>2. QED
      BY <1>1, <3>1 DEF StreamOK, InSystem
  <2>5. QED
    BY <2>1, <2>2, <2>3, <2>4 DEF LoggerThread
<1>7. QED
  BY <1>1, <1>3, <1>6 DEF LineInv

\* The buffers and the lines, from the first step on.
LEMMA LineInvariant == Spec => []LineInv
<1>1. Init => LineInv
  <2> SUFFICES ASSUME LoggerInit PROVE LineInv
    BY DEF Init
  <2>1. /\ lFree = LogBuffers /\ lFilled = {} /\ lQ = <<>> /\ lLine = <<>> /\ lOut = <<>>
        /\ lpc = "loop" /\ lCount = [t \in Threads |-> 0] /\ lRefused = {}
    BY DEF LoggerInit
  <2>2. IsFiniteSet({}) /\ Cardinality({}) = 0
    BY FS_EmptySet
  <2>3. LogTypeOK
    BY <2>1, <2>2, LogBuffersAssumption DEF LogTypeOK
  <2>4. LogInv
    BY <2>1, <2>2, <2>3, LogBuffersAssumption DEF LogBuffersKept, LogInv
  <2>5. StreamOK
    BY <2>1 DEF StreamOK
  <2>6. InSystem = <<>>
    <3>1. InSystem = lOut \o lQ
      BY <2>1, <2>4, <2>5, InSystemParts
    <3>2. <<>> \in Seq(Lines)
      OBVIOUS
    <3>3. QED
      BY <2>1, <3>1, <3>2, ConcatEmptySeq
  <2>7. Taken = {}
    BY <2>1 DEF Taken, Logged
  <2>8. LinesAre(<<>>, {})
    BY DEF LinesAre
  <2>9. QED
    BY <2>4, <2>5, <2>6, <2>7, <2>8 DEF LineInv
<1>2. LineInv /\ [Next]_vars => LineInv'
  <2> SUFFICES ASSUME LineInv, [Next]_vars PROVE LineInv'
    OBVIOUS
  <2>1. LogInv'
    BY LogSteps, LogAllocateKeeps, LogEnqueueKeeps, LoggerKeeps DEF LineInv
  <2>2. QED
    BY <2>1, LogSteps, EnqueueKeepsLines, LoggerKeepsLines
<1>3. QED
  BY <1>1, <1>2, PTL DEF Spec

\* The logger's buffers are in the pool, inside log(), queued, with the logger
\* thread or lost with a refused line, and at most as many are lost as the pool
\* has more than the queue: for every pool, every queue and any interleaving of
\* both threads with the logger thread and the destructor.
THEOREM LogBuffersKeptCorrect == Spec => []LogBuffersKept
<1>1. LineInv => LogBuffersKept
  BY DEF LineInv, LogInv
<1>2. QED
  BY <1>1, LineInvariant, PTL

\* The stream, the logger thread and the queue have every line that the queue
\* took, once, and each thread's in the order in which it logged them.
THEOREM LinesInOrderCorrect == Spec => []LinesInOrder
<1>1. LineInv => LinesInOrder
  BY DEF LineInv, LinesAre, LinesInOrder
<1>2. QED
  BY <1>1, LineInvariant, PTL

-----------------------------------------------------------------------------
(***************************************************************************)
(* Where the trades are.                                                    *)
(***************************************************************************)
MainPlaces == {"connect", "spawn", "feed", "stopLog", "stopFlag", "size", "send",
               "sent", "join", "end", "destroy", "joinLogger", "done"}
RunPlaces  == {"none", "start", "loop", "time", "send", "sent", "aggregate", "done"}
Messages   == [symbol : Symbols, time : Nat, trades : SUBSET Trades, by : Threads]

\* run() has a trade in its hands.
HasMsg == pc["run"] \in {"time", "send", "sent", "aggregate"}

\* The trades that run() has dequeued, and those of them that it has added up:
\* all but the one it holds, or ended with.
Dequeued == fed - Len(tradeQ)
Last     == IF msg # 0 THEN Dequeued - 1 ELSE Dequeued

PlacesOK ==
    /\ pc \in [Threads -> MainPlaces \union RunPlaces]
    /\ pc["main"] \in MainPlaces /\ pc["run"] \in RunPlaces
    /\ pc["main"] \in {"connect", "spawn"} => pc["run"] = "none"

SenderTypeOK ==
    /\ PlacesOK
    /\ fed \in 0 .. NumTrades
    /\ tradeQ \in Seq(Trades)
    /\ msg \in Trades \union {0}
    /\ currentTime \in Nat
    /\ todo \in [Threads -> SUBSET Symbols]
    /\ DOMAIN aggMap \subseteq Symbols
    /\ \A s \in DOMAIN aggMap : aggMap[s] \subseteq Trades
    /\ published \in Seq(Messages)

\* The queue holds the last trades that were fed, in order, and run() the one
\* before them.
QueueInv ==
    /\ Len(tradeQ) <= fed
    /\ \A i \in 1 .. Len(tradeQ) : tradeQ[i] = Dequeued + i
    /\ msg # 0 => msg = Dequeued
    /\ HasMsg => msg \in Trades
    /\ ~HasMsg /\ ~cut => msg = 0

RacedInv == Racing => raced

\* An exception out of SendMQ() ends run(), or the process.
CutInv == cut \in BOOLEAN /\ (cut => ~alive \/ pc["run"] = "done")

SenderInv == SenderTypeOK /\ QueueInv /\ RacedInv /\ CutInv

\* The two threads.
LEMMA TwoThreads ==
    /\ "main" \in Threads /\ "run" \in Threads /\ "main" # "run"
    /\ \A t \in Threads : t = "main" \/ t = "run"
  BY ThreadsAssumption

\* What an assignment to one program counter does.
LEMMA GotoMoves ==
    ASSUME PlacesOK, NEW t \in Threads, NEW place \in MainPlaces \union RunPlaces,
           Goto(t, place)
    PROVE  /\ pc' \in [Threads -> MainPlaces \union RunPlaces]
           /\ pc'[t] = place
           /\ \A u \in Threads : u # t => pc'[u] = pc[u]
  BY DEF PlacesOK, Goto

\* Dequeuing the first trade.
LEMMA QueueTail ==
    ASSUME QueueInv, SenderTypeOK, tradeQ # <<>>
    PROVE  /\ Head(tradeQ) = Dequeued + 1 /\ Head(tradeQ) \in Trades
           /\ Tail(tradeQ) \in Seq(Trades) /\ Len(Tail(tradeQ)) = Len(tradeQ) - 1
           /\ Len(tradeQ) \in Nat /\ Len(tradeQ) >= 1
           /\ \A i \in 1 .. Len(Tail(tradeQ)) : Tail(tradeQ)[i] = Dequeued + 1 + i
<1>1. tradeQ \in Seq(Trades) /\ Len(tradeQ) \in Nat
  BY LenProperties DEF SenderTypeOK
<1>2. /\ Tail(tradeQ) \in Seq(Trades) /\ Len(Tail(tradeQ)) = Len(tradeQ) - 1
      /\ Head(tradeQ) = tradeQ[1] /\ Head(tradeQ) \in Trades
      /\ \A i \in 1 .. Len(Tail(tradeQ)) : Tail(tradeQ)[i] = tradeQ[i + 1]
  BY <1>1, HeadTailProperties
<1>3. Len(tradeQ) >= 1
  BY <1>1, <1>2, LenProperties, EmptySeq
<1>4. /\ \A i \in 1 .. Len(tradeQ) : tradeQ[i] = Dequeued + i
      /\ Dequeued \in Int
  BY <1>1 DEF QueueInv, Dequeued, SenderTypeOK
<1>5. Head(tradeQ) = Dequeued + 1
  <2>1. 1 \in 1 .. Len(tradeQ)
    BY <1>1, <1>3
  <2>2. QED
    BY <1>2, <1>4, <2>1
<1>6. ASSUME NEW i \in 1 .. Len(Tail(tradeQ))
      PROVE  Tail(tradeQ)[i] = Dequeued + 1 + i
  <2>1. i + 1 \in 1 .. Len(tradeQ) /\ Dequeued + (i + 1) = Dequeued + 1 + i
    BY <1>1, <1>2, <1>4, <1>6
  <2>2. QED
    BY <1>2, <1>4, <1>6, <2>1
<1>7. QED
  BY <1>1, <1>2, <1>3, <1>5, <1>6

\* The moves of the program counters, thread by thread.
LEMMA MainMoves ==
    ASSUME PlacesOK, NEW place \in MainPlaces, Goto("main", place),
           place \in {"connect", "spawn"} => pc["run"] = "none"
    PROVE  PlacesOK' /\ pc'["main"] = place /\ pc'["run"] = pc["run"]
<1>1. /\ pc' \in [Threads -> MainPlaces \union RunPlaces]
      /\ pc'["main"] = place /\ pc'["run"] = pc["run"]
  BY TwoThreads, GotoMoves
<1>2. QED
  BY <1>1 DEF PlacesOK

\* The same for run().
LEMMA RunMoves ==
    ASSUME PlacesOK, NEW place \in RunPlaces, Goto("run", place), pc["run"] # "none"
    PROVE  PlacesOK' /\ pc'["run"] = place /\ pc'["main"] = pc["main"]
<1>1. /\ pc' \in [Threads -> MainPlaces \union RunPlaces]
      /\ pc'["run"] = place /\ pc'["main"] = pc["main"]
  BY TwoThreads, GotoMoves
<1>2. QED
  BY <1>1 DEF PlacesOK

\* A call of log() that returns goes on where the caller left off.
LEMMA LogReturns ==
    ASSUME PlacesOK, NEW t \in Threads, Logging(t), Goto(t, AfterLog(t))
    PROVE  /\ PlacesOK'
           /\ HasMsg' <=> HasMsg
           /\ \A u \in Threads : pc'[u] \in {"send", "sent"} <=> pc[u] \in {"send", "sent"}
<1>1. CASE t = "main"
  <2>1. AfterLog(t) \in MainPlaces \ {"connect"}
    BY <1>1 DEF Logging, AfterLog, PlacesOK, MainPlaces
  <2>2. pc["main"] \in {"connect", "sent", "stopLog", "end"}
    BY <1>1 DEF Logging, PlacesOK, MainPlaces
  <2>3. AfterLog(t) = "spawn" => pc["run"] = "none"
    BY <1>1, <2>2 DEF AfterLog, PlacesOK
  <2>4. PlacesOK' /\ pc'["main"] = AfterLog(t) /\ pc'["run"] = pc["run"]
    BY <1>1, <2>1, <2>3, MainMoves
  <2>5. AfterLog(t) \in {"send", "sent"} <=> pc["main"] \in {"send", "sent"}
    BY <1>1, <2>2 DEF AfterLog
  <2>6. QED
    BY <2>4, <2>5, TwoThreads DEF HasMsg
<1>2. CASE t = "run"
  <2>1. pc["run"] \in {"start", "sent"}
    BY <1>2 DEF Logging, PlacesOK, RunPlaces
  <2>2. /\ AfterLog(t) \in RunPlaces
        /\ AfterLog(t) \in {"send", "sent"} <=> pc["run"] \in {"send", "sent"}
        /\ AfterLog(t) \in {"time", "send", "sent", "aggregate"} <=> HasMsg
    BY <1>2, <2>1 DEF AfterLog, RunPlaces, HasMsg
  <2>3. PlacesOK' /\ pc'["run"] = AfterLog(t) /\ pc'["main"] = pc["main"]
    BY <1>2, <2>1, <2>2, RunMoves
  <2>4. QED
    BY <2>2, <2>3, TwoThreads DEF HasMsg
<1>3. QED
  BY <1>1, <1>2, TwoThreads

\* Steps that leave the trades where they are.
LEMMA MoveKeeps ==
    ASSUME SenderTypeOK, QueueInv, PlacesOK',
           UNCHANGED <<fed, tradeQ, msg>>,
           currentTime' \in Nat, todo' \in [Threads -> SUBSET Symbols],
           DOMAIN aggMap' \subseteq Symbols,
           \A s \in DOMAIN aggMap' : aggMap'[s] \subseteq Trades,
           published' \in Seq(Messages),
           HasMsg' => HasMsg, ~HasMsg' /\ ~cut' => ~HasMsg /\ ~cut
    PROVE  SenderTypeOK' /\ QueueInv'
  BY DEF SenderTypeOK, QueueInv, Dequeued

\* log() and SendMQ(), which both threads call, keep the types and the queue.
LEMMA CallsKeepTypes ==
    ASSUME SenderTypeOK, QueueInv, NEW t \in Threads,
           Log(t) \/ LogDies(t) \/ SendOne(t) \/ SendThrows(t) \/ SendClear(t)
    PROVE  SenderTypeOK' /\ QueueInv'
<1>1. /\ PlacesOK /\ currentTime \in Nat /\ todo \in [Threads -> SUBSET Symbols]
      /\ DOMAIN aggMap \subseteq Symbols
      /\ \A s \in DOMAIN aggMap : aggMap[s] \subseteq Trades
      /\ published \in Seq(Messages)
  BY DEF SenderTypeOK
<1>2. CASE Log(t)
  <2>1. PlacesOK' /\ (HasMsg' <=> HasMsg)
    BY <1>1, <1>2, LogReturns DEF Log, PlacesOK, HasMsg
  <2>2. UNCHANGED <<fed, tradeQ, msg, currentTime, todo, aggMap, published, cut>>
    BY <1>2 DEF Log, senderVars
  <2>3. QED
    BY <1>1, <2>1, <2>2, MoveKeeps
<1>3. CASE LogDies(t) \/ SendThrows(t)
  <2>1. UNCHANGED <<fed, tradeQ, msg, currentTime, todo, aggMap, published>>
    BY <1>3 DEF LogDies, SendThrows, senderVars
  <2>2. CASE t = "run" /\ SendThrows(t)
    <3>1. Goto("run", "done") /\ cut' /\ pc["run"] # "none" /\ "done" \in RunPlaces
      BY <2>2 DEF SendThrows, RunPlaces
    <3>2. PlacesOK' /\ pc'["run"] = "done"
      BY <1>1, <3>1, RunMoves
    <3>3. ~HasMsg'
      BY <3>2 DEF HasMsg
    <3>4. QED
      BY <1>1, <2>1, <3>1, <3>2, <3>3, MoveKeeps
  <2>3. CASE ~(t = "run" /\ SendThrows(t))
    <3>1. pc' = pc /\ (cut => cut')
      BY <1>3, <2>3 DEF LogDies, SendThrows
    <3>2. PlacesOK' /\ (HasMsg' <=> HasMsg)
      BY <1>1, <3>1 DEF PlacesOK, HasMsg
    <3>3. QED
      BY <1>1, <2>1, <3>1, <3>2, MoveKeeps
  <2>4. QED
    BY <2>2, <2>3
<1>4. CASE SendOne(t)
  <2>1. PICK s \in todo[t] :
           /\ pc[t] = "send"
           /\ todo' = [todo EXCEPT ![t] = @ \ {s}]
           /\ UNCHANGED <<fed, tradeQ, msg, currentTime, aggMap, cut>>
           /\ \/ /\ s \in DOMAIN aggMap
                 /\ published' = Append(published, [symbol |-> s, time |-> currentTime,
                                                    trades |-> aggMap[s], by |-> t])
                 /\ Goto(t, "sent")
              \/ UNCHANGED <<published, pc>>
    BY <1>4 DEF SendOne
  <2>2. s \in Symbols /\ todo' \in [Threads -> SUBSET Symbols]
    BY <1>1, <2>1
  <2>3. published' \in Seq(Messages)
    <3>1. s \in DOMAIN aggMap =>
             [symbol |-> s, time |-> currentTime, trades |-> aggMap[s], by |-> t] \in Messages
      BY <1>1, <2>2 DEF Messages
    <3>2. QED
      BY <1>1, <2>1, <3>1, AppendProperties
  <2>4. PlacesOK' /\ (HasMsg' <=> HasMsg)
    <3>1. CASE pc' = pc
      BY <1>1, <3>1 DEF PlacesOK, HasMsg
    <3>2. CASE Goto(t, "sent") /\ t = "main"
      BY <1>1, <3>2, MainMoves DEF MainPlaces, HasMsg
    <3>3. CASE Goto(t, "sent") /\ t = "run"
      <4>1. pc["run"] # "none" /\ "sent" \in RunPlaces /\ HasMsg
        BY <2>1, <3>3 DEF RunPlaces, HasMsg
      <4>2. PlacesOK' /\ pc'["run"] = "sent"
        BY <1>1, <3>3, <4>1, RunMoves
      <4>3. QED
        BY <4>1, <4>2 DEF HasMsg
    <3>4. QED
      BY <2>1, <3>1, <3>2, <3>3, TwoThreads
  <2>5. QED
    BY <1>1, <2>1, <2>2, <2>3, <2>4, MoveKeeps
<1>5. CASE SendClear(t)
  <2>1. /\ pc[t] = "send" /\ aggMap' = <<>>
        /\ currentTime' = (IF t = "run" THEN TimeOf[msg] ELSE currentTime)
        /\ Goto(t, IF t = "run" THEN "aggregate" ELSE "join")
        /\ UNCHANGED <<fed, tradeQ, msg, todo, published, cut>>
    BY <1>5 DEF SendClear
  <2>2. DOMAIN aggMap' = {}
    BY <2>1
  <2>3. CASE t = "main"
    <3>1. PlacesOK' /\ (HasMsg' <=> HasMsg)
      BY <1>1, <2>1, <2>3, MainMoves DEF MainPlaces, HasMsg
    <3>2. currentTime' \in Nat
      BY <1>1, <2>1, <2>3
    <3>3. QED
      BY <1>1, <2>1, <2>2, <3>1, <3>2, MoveKeeps
  <2>4. CASE t = "run"
    <3>1. pc["run"] # "none" /\ "aggregate" \in RunPlaces /\ HasMsg
      BY <2>1, <2>4 DEF RunPlaces, HasMsg
    <3>2. PlacesOK' /\ pc'["run"] = "aggregate"
      BY <1>1, <2>1, <2>4, <3>1, RunMoves
    <3>3. currentTime' \in Nat
      BY <2>1, <2>4, <3>1, TimeAssumption DEF QueueInv
    <3>4. HasMsg'
      BY <3>2 DEF HasMsg
    <3>5. QED
      BY <1>1, <2>1, <2>2, <3>1, <3>2, <3>3, <3>4, MoveKeeps
  <2>5. QED
    BY <2>3, <2>4, TwoThreads
<1>6. QED
  BY <1>2, <1>3, <1>4, <1>5

\* run() keeps them.
LEMMA RunKeepsTypes ==
    ASSUME SenderTypeOK, QueueInv, TakeTrade \/ CompareTime \/ AggregateTrade
    PROVE  SenderTypeOK' /\ QueueInv'
<1>1. /\ PlacesOK /\ currentTime \in Nat /\ todo \in [Threads -> SUBSET Symbols]
      /\ DOMAIN aggMap \subseteq Symbols
      /\ \A s \in DOMAIN aggMap : aggMap[s] \subseteq Trades
      /\ published \in Seq(Messages) /\ fed \in 0 .. NumTrades
  BY DEF SenderTypeOK
<1>2. ASSUME NEW place \in RunPlaces, Goto("run", place), pc["run"] # "none"
      PROVE  PlacesOK' /\ pc'["run"] = place
  BY <1>1, <1>2, RunMoves
<1>3. CASE TakeTrade
  <2>1. /\ pc["run"] = "loop"
        /\ UNCHANGED <<fed, aggMap, currentTime, todo, published, cut>>
        /\ \/ /\ tradeQ # <<>> /\ msg' = Head(tradeQ) /\ tradeQ' = Tail(tradeQ)
              /\ Goto("run", "time")
           \/ Goto("run", "done") /\ UNCHANGED <<msg, tradeQ>>
    BY <1>3 DEF TakeTrade
  <2>2. ~HasMsg
    BY <2>1 DEF HasMsg
  <2>3. CASE Goto("run", "done") /\ UNCHANGED <<msg, tradeQ>>
    <3>1. PlacesOK' /\ ~HasMsg'
      BY <1>2, <2>1, <2>3 DEF RunPlaces, HasMsg
    <3>2. QED
      BY <1>1, <2>1, <2>2, <2>3, <3>1, MoveKeeps
  <2>4. CASE /\ tradeQ # <<>> /\ msg' = Head(tradeQ) /\ tradeQ' = Tail(tradeQ)
             /\ Goto("run", "time")
    <3>1. PlacesOK' /\ HasMsg'
      BY <1>2, <2>1, <2>4 DEF RunPlaces, HasMsg
    <3>2. /\ msg' = Dequeued + 1 /\ msg' \in Trades /\ tradeQ' \in Seq(Trades)
          /\ Len(tradeQ') = Len(tradeQ) - 1 /\ Len(tradeQ) \in Nat
          /\ \A i \in 1 .. Len(tradeQ') : tradeQ'[i] = Dequeued + 1 + i
      BY <2>4, QueueTail
    <3>3. Dequeued' = Dequeued + 1 /\ Len(tradeQ') <= fed'
      BY <1>1, <2>1, <3>2 DEF Dequeued, QueueInv
    <3>4. SenderTypeOK'
      BY <1>1, <2>1, <3>1, <3>2 DEF SenderTypeOK
    <3>5. QueueInv'
      BY <3>1, <3>2, <3>3 DEF QueueInv
    <3>6. QED
      BY <3>4, <3>5
  <2>5. QED
    BY <2>1, <2>3, <2>4
<1>4. CASE CompareTime
  <2>1. /\ pc["run"] = "time"
        /\ UNCHANGED <<fed, tradeQ, msg, aggMap, currentTime, published, cut>>
        /\ \/ Goto("run", "send") /\ todo' = [todo EXCEPT !["run"] = DOMAIN aggMap]
           \/ Goto("run", "aggregate") /\ todo' = todo
    BY <1>4 DEF CompareTime, EnterSendMQ
  <2>2. todo' \in [Threads -> SUBSET Symbols]
    BY <1>1, <2>1, TwoThreads
  <2>3. PlacesOK' /\ HasMsg' /\ HasMsg
    BY <1>2, <2>1 DEF RunPlaces, HasMsg
  <2>4. QED
    BY <1>1, <2>1, <2>2, <2>3, MoveKeeps
<1>5. CASE AggregateTrade
  <2> DEFINE sym == SymbolOf[msg]
             val == IF sym \in DOMAIN aggMap THEN aggMap[sym] ELSE {}
  <2>1. /\ pc["run"] = "aggregate" /\ Goto("run", "loop") /\ msg' = 0
        /\ aggMap' = [x \in DOMAIN aggMap \union {sym} |->
                         IF x = sym THEN val \union {msg} ELSE aggMap[x]]
        /\ UNCHANGED <<fed, tradeQ, currentTime, todo, published, cut>>
    BY <1>5 DEF AggregateTrade
  <2>2. HasMsg
    BY <2>1 DEF HasMsg
  <2>3. msg \in Trades /\ sym \in Symbols
    BY <2>2 DEF QueueInv, Symbols
  <2>4. PlacesOK' /\ ~HasMsg'
    BY <1>2, <2>1 DEF RunPlaces, HasMsg
  <2>5. /\ DOMAIN aggMap' \subseteq Symbols
        /\ \A s \in DOMAIN aggMap' : aggMap'[s] \subseteq Trades
    BY <1>1, <2>1, <2>3
  <2>6. Dequeued' = Dequeued
    BY <2>1 DEF Dequeued
  <2>7. SenderTypeOK'
    BY <1>1, <2>1, <2>4, <2>5 DEF SenderTypeOK
  <2>8. QueueInv'
    BY <2>1, <2>4, <2>6 DEF QueueInv
  <2>9. QED
    BY <2>7, <2>8
<1>6. QED
  BY <1>3, <1>4, <1>5

\* The main thread's own steps keep them.
LEMMA MainKeepsTypes ==
    ASSUME SenderTypeOK, QueueInv,
           Spawn \/ Feed \/ StopFlag \/ StopSize \/ Join \/ Destroy
    PROVE  SenderTypeOK' /\ QueueInv'
<1>1. /\ PlacesOK /\ currentTime \in Nat /\ todo \in [Threads -> SUBSET Symbols]
      /\ DOMAIN aggMap \subseteq Symbols
      /\ \A s \in DOMAIN aggMap : aggMap[s] \subseteq Trades
      /\ published \in Seq(Messages) /\ fed \in 0 .. NumTrades
      /\ tradeQ \in Seq(Trades) /\ Len(tradeQ) \in Nat
  BY LenProperties DEF SenderTypeOK
<1>2. ASSUME NEW place \in MainPlaces \ {"connect", "spawn"}, Goto("main", place)
      PROVE  PlacesOK' /\ (HasMsg' <=> HasMsg)
  BY <1>1, <1>2, MainMoves DEF HasMsg
<1>3. CASE Spawn
  <2>1. /\ pc["main"] = "spawn" /\ pc' = [main |-> "feed", run |-> "start"]
        /\ UNCHANGED <<fed, tradeQ, msg, aggMap, currentTime, todo, published, cut>>
    BY <1>3 DEF Spawn, MainOnly, senderVars
  <2>2. pc["run"] = "none"
    BY <1>1, <2>1 DEF PlacesOK
  <2>3. PlacesOK' /\ ~HasMsg' /\ ~HasMsg
    BY <2>1, <2>2, ThreadsAssumption DEF PlacesOK, HasMsg, MainPlaces, RunPlaces
  <2>4. QED
    BY <1>1, <2>1, <2>3, MoveKeeps
<1>4. CASE Feed /\ fed' = fed + 1
  <2>1. /\ fed < NumTrades /\ tradeQ' = Append(tradeQ, fed + 1)
        /\ UNCHANGED <<pc, msg, aggMap, currentTime, todo, published, cut>>
    BY <1>1, <1>4 DEF Feed, MainOnly, senderVars
  <2>2. fed + 1 \in Trades /\ fed' \in 0 .. NumTrades
    BY <1>1, <1>4, <2>1, NumTradesAssumption DEF Trades
  <2>3. /\ tradeQ' \in Seq(Trades) /\ Len(tradeQ') = Len(tradeQ) + 1
        /\ \A i \in 1 .. Len(tradeQ) : tradeQ'[i] = tradeQ[i]
        /\ tradeQ'[Len(tradeQ) + 1] = fed + 1
    BY <1>1, <2>1, <2>2, AppendProperties
  <2>4. Dequeued' = Dequeued /\ Len(tradeQ') <= fed' /\ Dequeued + (Len(tradeQ) + 1) = fed + 1
    BY <1>1, <1>4, <2>3 DEF Dequeued, QueueInv
  <2>5. ASSUME NEW i \in 1 .. Len(tradeQ') PROVE tradeQ'[i] = Dequeued + i
    <3>1. i \in 1 .. Len(tradeQ) \/ i = Len(tradeQ) + 1
      BY <1>1, <2>3, <2>5
    <3>2. QED
      BY <2>3, <2>4, <3>1 DEF QueueInv
  <2>6. PlacesOK' /\ (HasMsg' <=> HasMsg)
    BY <1>1, <2>1 DEF PlacesOK, HasMsg
  <2>7. SenderTypeOK'
    BY <1>1, <2>1, <2>2, <2>3, <2>6 DEF SenderTypeOK
  <2>8. QueueInv'
    BY <2>1, <2>4, <2>5, <2>6 DEF QueueInv
  <2>9. QED
    BY <2>7, <2>8
<1>5. CASE Feed /\ fed' # fed + 1
  <2>1. /\ UNCHANGED <<fed, tradeQ, msg, aggMap, currentTime, todo, published, cut>>
        /\ pc' = pc \/ Goto("main", "stopLog")
    BY <1>5 DEF Feed, MainOnly, senderVars
  <2>2. PlacesOK' /\ (HasMsg' <=> HasMsg)
    <3>1. CASE pc' = pc
      BY <1>1, <3>1 DEF PlacesOK, HasMsg
    <3>2. CASE Goto("main", "stopLog")
      BY <1>2, <3>2 DEF MainPlaces
    <3>3. QED
      BY <2>1, <3>1, <3>2
  <2>3. QED
    BY <1>1, <2>1, <2>2, MoveKeeps
<1>6. CASE StopSize
  <2>1. /\ UNCHANGED <<fed, tradeQ, msg, aggMap, currentTime, published, cut>>
        /\ \/ Goto("main", "send") /\ todo' = [todo EXCEPT !["main"] = DOMAIN aggMap]
           \/ Goto("main", "join") /\ todo' = todo
    BY <1>6 DEF StopSize, EnterSendMQ
  <2>2. todo' \in [Threads -> SUBSET Symbols]
    BY <1>1, <2>1, TwoThreads
  <2>3. PlacesOK' /\ (HasMsg' <=> HasMsg)
    BY <1>2, <2>1 DEF MainPlaces
  <2>4. QED
    BY <1>1, <2>1, <2>2, <2>3, MoveKeeps
<1>7. CASE StopFlag \/ Join \/ Destroy
  <2>1. /\ UNCHANGED <<fed, tradeQ, msg, aggMap, currentTime, todo, published, cut>>
        /\ \E place \in {"size", "end", "joinLogger", "done"} : Goto("main", place)
    BY <1>7 DEF StopFlag, Join, Destroy, MainOnly, senderVars
  <2>2. PlacesOK' /\ (HasMsg' <=> HasMsg)
    BY <1>2, <2>1 DEF MainPlaces
  <2>3. QED
    BY <1>1, <2>1, <2>2, MoveKeeps
<1>8. QED
  BY <1>3, <1>4, <1>5, <1>6, <1>7

\* No thread goes on behind an exception but stop(), when run() has ended.
LEMMA CutStep ==
    ASSUME SenderInv, [Next]_vars
    PROVE  CutInv'
<1>1. PlacesOK /\ CutInv
  BY DEF SenderInv, SenderTypeOK
<1>2. ASSUME NEW place \in MainPlaces, Goto("main", place)
      PROVE  pc'["run"] = pc["run"]
  BY <1>1, <1>2, GotoMoves, TwoThreads
<1>3. ASSUME alive, Log("main") \/ SendOne("main") \/ SendClear("main")
      PROVE  CutInv'
  <2>1. /\ UNCHANGED <<alive, cut>>
        /\ \/ pc' = pc
           \/ \E place \in {"spawn", "send", "stopFlag", "destroy", "sent", "join"} :
                 Goto("main", place)
    <3>1. Log("main") => pc["main"] \in {"connect", "sent", "stopLog", "end"}
      BY <1>1 DEF Log, Logging, PlacesOK, MainPlaces
    <3>2. QED
      BY <1>3, <3>1 DEF Log, AfterLog, SendOne, SendClear
  <2>2. pc'["run"] = pc["run"]
    BY <1>2, <2>1 DEF MainPlaces
  <2>3. QED
    BY <1>1, <2>1, <2>2 DEF CutInv
<1>4. ASSUME alive, Log("run") \/ SendOne("run") \/ SendClear("run")
                    \/ TakeTrade \/ CompareTime \/ AggregateTrade
      PROVE  CutInv'
  <2>1. cut' = cut /\ pc["run"] # "done"
    BY <1>4 DEF Log, Logging, SendOne, SendClear, TakeTrade, CompareTime, AggregateTrade
  <2>2. QED
    BY <1>1, <1>4, <2>1 DEF CutInv
<1>5. ASSUME NEW t \in Threads, LogDies(t) \/ SendThrows(t)
      PROVE  CutInv'
  <2>1. CASE alive' = FALSE
    BY <1>1, <1>5, <2>1 DEF CutInv, LogDies, SendThrows
  <2>2. CASE cut' = TRUE /\ Goto("run", "done")
    <3>1. pc'["run"] = "done"
      BY <1>1, <2>2, GotoMoves, TwoThreads DEF RunPlaces
    <3>2. QED
      BY <2>2, <3>1 DEF CutInv
  <2>3. QED
    BY <1>5, <2>1, <2>2 DEF LogDies, SendThrows
<1>6. ASSUME alive, Spawn \/ Feed \/ StopFlag \/ StopSize \/ Join \/ Destroy
      PROVE  CutInv'
  <2>1. cut' = cut /\ (alive' = alive \/ alive' = FALSE)
    BY <1>6 DEF Spawn, Feed, StopFlag, StopSize, Join, Destroy, MainOnly
  <2>2. CASE Spawn
    <3>1. pc["run"] = "none"
      BY <1>1, <2>2 DEF Spawn, PlacesOK
    <3>2. QED
      BY <1>1, <1>6, <2>1, <3>1 DEF CutInv
  <2>3. CASE Feed \/ StopFlag \/ StopSize \/ Join \/ Destroy
    <3>1. \/ pc' = pc
          \/ \E place \in {"stopLog", "size", "send", "join", "end", "joinLogger", "done"} :
                Goto("main", place)
      BY <2>3 DEF Feed, StopFlag, StopSize, EnterSendMQ, Join, Destroy
    <3>2. pc'["run"] = pc["run"]
      BY <1>2, <3>1 DEF MainPlaces
    <3>3. QED
      BY <1>1, <2>1, <3>2 DEF CutInv
  <2>4. QED
    BY <1>6, <2>2, <2>3
<1>7. CASE Logger \/ Corrupted \/ Ended \/ UNCHANGED vars
  <2>1. /\ UNCHANGED <<pc, cut>>
        /\ alive' = alive \/ alive' = FALSE
    BY <1>7 DEF Logger, Corrupted, Ended, vars
  <2>2. QED
    BY <1>1, <2>1 DEF CutInv
<1>8. QED
  BY <1>3, <1>4, <1>5, <1>6, <1>7, TwoThreads DEF Next, Step, RunThread, MainThread

\* Every step keeps the types, the order of the queue, and the record of a race.
LEMMA SenderStep == SenderInv /\ [Next]_vars => SenderInv'
<1> SUFFICES ASSUME SenderInv, [Next]_vars PROVE SenderInv'
  OBVIOUS
<1>1. SenderTypeOK /\ QueueInv /\ RacedInv
  BY DEF SenderInv
<1>2. SenderTypeOK' /\ QueueInv'
  <2>1. CASE Step(RunThread) \/ Step(MainThread)
    BY <1>1, <2>1, CallsKeepTypes, RunKeepsTypes, MainKeepsTypes, TwoThreads
       DEF Step, RunThread, MainThread
  <2>2. CASE Step(Logger) \/ Step(Corrupted) \/ Ended \/ UNCHANGED vars
    <3>1. UNCHANGED <<pc, fed, tradeQ, msg, currentTime, todo, aggMap, published, cut>>
      BY <2>2 DEF Step, Logger, Corrupted, Ended, vars, senderVars
    <3>2. PlacesOK' /\ (HasMsg' <=> HasMsg)
      BY <1>1, <3>1 DEF SenderTypeOK, PlacesOK, HasMsg
    <3>3. QED
      BY <1>1, <3>1, <3>2, MoveKeeps DEF SenderTypeOK
  <2>3. QED
    BY <2>1, <2>2 DEF Next
<1>3. RacedInv'
  <2>1. CASE raced' = (raced \/ Racing')
    BY <2>1 DEF RacedInv
  <2>2. CASE Ended \/ UNCHANGED vars
    BY <1>1, <2>2 DEF RacedInv, Racing, Ended, vars
  <2>3. QED
    BY <2>1, <2>2 DEF Next, Step
<1>4. QED
  BY <1>2, <1>3, CutStep DEF SenderInv

\* They hold at the start.
LEMMA SenderInit == Init => SenderInv
<1> SUFFICES ASSUME Init PROVE SenderInv
  OBVIOUS
<1>1. /\ pc = [main |-> "connect", run |-> "none"] /\ tradeQ = <<>> /\ fed = 0
      /\ aggMap = <<>> /\ currentTime = 0 /\ msg = 0
      /\ todo = [t \in Threads |-> {}] /\ published = <<>>
  BY DEF Init, Now
<1>2. PlacesOK /\ ~HasMsg /\ ~Racing
  BY <1>1, ThreadsAssumption DEF PlacesOK, MainPlaces, RunPlaces, HasMsg, Racing
<1>3. Len(tradeQ) = 0 /\ tradeQ \in Seq(Trades) /\ published \in Seq(Messages)
      /\ DOMAIN aggMap = {}
  BY <1>1
<1>4. SenderTypeOK
  BY <1>1, <1>2, <1>3, NumTradesAssumption DEF SenderTypeOK
<1>5. QueueInv
  BY <1>1, <1>2, <1>3 DEF QueueInv
<1>6. CutInv
  BY DEF Init, CutInv
<1>7. QED
  BY <1>2, <1>4, <1>5, <1>6 DEF SenderInv, RacedInv

\* The unsent sums of the map m that trade t is in, of the symbols U, and the
\* messages among p that it is in.
Sums(U, m, t) == {s \in U \intersect DOMAIN m : t \in m[s]}
Sent(p, t)    == {i \in 1 .. Len(p) : t \in p[i].trades}

\* The places of a trade whose unsent sums are S and whose messages are I: one, or
\* two of them, a message among them, when sums were sent again.
Placed(S, I, again) ==
    \/ S = {} /\ \E i : I = {i}
    \/ (\E s : S = {s}) /\ (I = {} \/ (again /\ \E i : I = {i}))
    \/ S = {} /\ again /\ \E i, j : I = {i, j}

\* Each of the first n trades is so placed, no other trade is in any sum or
\* message, and no trade is in two sums.
Counted(U, m, p, n, again) == \A t \in 1 .. n : Placed(Sums(U, m, t), Sent(p, t), again)
Bounded(m, p, n) ==
    /\ \A s \in DOMAIN m : m[s] \subseteq 1 .. n
    /\ \A i \in 1 .. Len(p) : p[i].trades \subseteq 1 .. n
Disjoint(m) == \A x, y \in DOMAIN m : m[x] \intersect m[y] # {} => x = y

\* The inductive invariant behind OnePlace: so are the trades that run() has
\* added up.
CountInv ==
    /\ Bounded(aggMap, published, Last) /\ Disjoint(aggMap)
    /\ Counted(Unsent, aggMap, published, Last, cut)
PlaceInv == raced \/ CountInv

\* A round of the loop in SendMQ() moves the trades of a sum into a message.
LEMMA CountedSend ==
    ASSUME NEW U, NEW m, NEW p \in Seq(Messages), NEW n \in Int, Bounded(m, p, n),
           NEW again \in BOOLEAN, Counted(U, m, p, n, again),
           NEW s \in U \intersect DOMAIN m, NEW r \in Messages, r.trades = m[s]
    PROVE  Bounded(m, Append(p, r), n) /\ Counted(U \ {s}, m, Append(p, r), n, again)
<1> DEFINE q == Append(p, r)
<1>1. /\ Len(p) \in Nat /\ Len(q) = Len(p) + 1 /\ q[Len(p) + 1] = r
      /\ \A i \in 1 .. Len(p) : q[i] = p[i]
  BY LenProperties, AppendProperties
<1>2. \A i \in 1 .. Len(q) : i \in 1 .. Len(p) \/ i = Len(p) + 1
  BY <1>1
<1>3. Len(p) + 1 \in 1 .. Len(q) /\ Len(p) + 1 \notin 1 .. Len(p)
      /\ \A i \in 1 .. Len(p) : i \in 1 .. Len(q)
  BY <1>1
<1> HIDE DEF q
<1>4. Bounded(m, q, n)
  BY <1>1, <1>2 DEF Bounded
<1>5. ASSUME NEW t \in 1 .. n
      PROVE  Placed(Sums(U \ {s}, m, t), Sent(q, t), again)
  <2>1. Placed(Sums(U, m, t), Sent(p, t), again)
    BY <1>5 DEF Counted
  <2>2. CASE t \in m[s]
    <3>1. s \in Sums(U, m, t)
      BY <2>2 DEF Sums
    <3>2. /\ Sums(U, m, t) = {s}
          /\ Sent(p, t) = {} \/ (again /\ \E i : Sent(p, t) = {i})
      BY <2>1, <3>1 DEF Placed
    <3>3. Sums(U \ {s}, m, t) = {}
      BY <3>2 DEF Sums
    <3>4. Sent(q, t) = Sent(p, t) \union {Len(p) + 1}
      BY <1>1, <1>2, <1>3, <2>2 DEF Sent
    <3>5. CASE Sent(p, t) = {}
      <4>1. Sent(q, t) = {Len(p) + 1}
        BY <3>4, <3>5
      <4>2. QED
        BY <3>3, <4>1 DEF Placed
    <3>6. CASE again /\ \E i : Sent(p, t) = {i}
      <4>1. \E i : Sent(q, t) = {i, Len(p) + 1}
        BY <3>4, <3>6
      <4>2. QED
        BY <3>3, <3>6, <4>1 DEF Placed
    <3>7. QED
      BY <3>2, <3>5, <3>6
  <2>3. CASE t \notin m[s]
    <3>1. Sums(U \ {s}, m, t) = Sums(U, m, t)
      BY <2>3 DEF Sums
    <3>2. Sent(q, t) = Sent(p, t)
      BY <1>1, <1>2, <1>3, <2>3 DEF Sent
    <3>3. QED
      BY <2>1, <3>1, <3>2
  <2>4. QED
    BY <2>2, <2>3
<1>6. QED
  BY <1>4, <1>5 DEF Counted, q

\* AggregateTrade() puts the next trade into one sum.
LEMMA CountedAdd ==
    ASSUME NEW m, NEW p, NEW n \in Nat, Bounded(m, p, n), Disjoint(m),
           NEW again \in BOOLEAN, Counted(DOMAIN m, m, p, n, again),
           NEW s, NEW w, DOMAIN w = DOMAIN m \union {s},
           \A x \in DOMAIN m : x # s => w[x] = m[x],
           w[s] = (IF s \in DOMAIN m THEN m[s] ELSE {}) \union {n + 1}
    PROVE  /\ Bounded(w, p, n + 1) /\ Disjoint(w)
           /\ Counted(DOMAIN w, w, p, n + 1, again)
<1>1. /\ 1 .. n \subseteq 1 .. (n + 1) /\ n + 1 \in 1 .. (n + 1) /\ n + 1 \notin 1 .. n
      /\ \A t \in 1 .. (n + 1) : t \in 1 .. n \/ t = n + 1
  OBVIOUS
<1>2. Bounded(w, p, n + 1)
  BY <1>1 DEF Bounded
<1>3. ASSUME NEW t \in 1 .. n
      PROVE  Placed(Sums(DOMAIN w, w, t), Sent(p, t), again)
  <2>1. t # n + 1
    BY <1>1, <1>3
  <2>2. Sums(DOMAIN w, w, t) = Sums(DOMAIN m, m, t)
    BY <2>1 DEF Sums
  <2>3. QED
    BY <1>3, <2>2 DEF Counted
<1>4. Sent(p, n + 1) = {}
  BY <1>1 DEF Sent, Bounded
<1>5. Sums(DOMAIN w, w, n + 1) = {s}
  BY <1>1 DEF Sums, Bounded
<1>6. Placed(Sums(DOMAIN w, w, n + 1), Sent(p, n + 1), again)
  BY <1>4, <1>5 DEF Placed
<1>7. Disjoint(w)
  <2> SUFFICES ASSUME NEW x \in DOMAIN w, NEW y \in DOMAIN w, NEW t \in w[x], t \in w[y]
               PROVE  x = y
    BY DEF Disjoint
  <2>1. CASE t = n + 1
    BY <1>1, <2>1 DEF Bounded
  <2>2. CASE t # n + 1
    <3>1. x \in DOMAIN m /\ t \in m[x] /\ y \in DOMAIN m /\ t \in m[y]
      BY <2>2
    <3>2. QED
      BY <3>1 DEF Disjoint
  <2>3. QED
    BY <2>1, <2>2
<1>8. QED
  BY <1>1, <1>2, <1>3, <1>6, <1>7 DEF Counted

InSend(t) == pc[t] \in {"send", "sent"}

\* Whose sums are unsent, by the threads that are in SendMQ().
UnsentIs ==
    /\ ~InSend("main") /\ ~InSend("run") => Unsent = DOMAIN aggMap
    /\ InSend("main") /\ ~InSend("run") => Unsent = todo["main"]
    /\ InSend("run") /\ ~InSend("main") => Unsent = todo["run"]

\* The three cases of Unsent, from the definition of InSendMQ.
LEMMA UnsentCases == UnsentIs
<1>1. /\ ~InSend("main") /\ ~InSend("run") => InSendMQ = {}
      /\ InSend("main") /\ ~InSend("run") => InSendMQ = {"main"}
      /\ InSend("run") /\ ~InSend("main") => InSendMQ = {"run"}
  BY TwoThreads DEF InSendMQ, InSend
<1>2. \A t : UNION {todo[u] : u \in {t}} = todo[t] /\ {t} # {}
  OBVIOUS
<1>3. QED
  BY <1>1, <1>2 DEF UnsentIs, Unsent

\* Both threads are never in SendMQ() when they have not raced.
OneSender == ~(InSend("main") /\ (InSend("run") \/ pc["run"] = "aggregate"))

\* The record of a race keeps the threads apart.
LEMMA OneSenderHolds == RacedInv /\ ~raced => OneSender
  BY DEF RacedInv, Racing, OneSender, InSend

\* What a step may do to the trades that were added up: nothing, send a sum, skip
\* one that is gone, empty the map behind the loop, add the next trade, or, when an
\* exception ends run(), leave all sums of the map to be sent again.
Same == UNCHANGED <<aggMap, published>> /\ Unsent' = Unsent /\ Last' = Last
Sends ==
    \E s \in Unsent \intersect DOMAIN aggMap, r \in Messages :
        /\ r.trades = aggMap[s] /\ r.symbol = s /\ r.time = currentTime
        /\ published' = Append(published, r) /\ Unsent' = Unsent \ {s}
        /\ aggMap' = aggMap /\ Last' = Last
Skips ==
    /\ \E s \in Unsent \ DOMAIN aggMap : Unsent' = Unsent \ {s}
    /\ UNCHANGED <<aggMap, published>> /\ Last' = Last
Clears ==
    /\ Unsent = {} /\ DOMAIN aggMap' = {} /\ Unsent' = {}
    /\ published' = published /\ Last' = Last
Adds ==
    /\ Unsent = DOMAIN aggMap /\ Unsent' = DOMAIN aggMap'
    /\ \E s : /\ DOMAIN aggMap' = DOMAIN aggMap \union {s}
              /\ \A x \in DOMAIN aggMap : x # s => aggMap'[x] = aggMap[x]
              /\ aggMap'[s] = (IF s \in DOMAIN aggMap THEN aggMap[s] ELSE {}) \union {Last + 1}
    /\ published' = published /\ Last' = Last + 1
Reopens ==
    /\ ~cut /\ cut' /\ Unsent' = DOMAIN aggMap
    /\ UNCHANGED <<aggMap, published>> /\ Last' = Last
Moved == Same \/ Sends \/ Skips \/ Clears \/ Adds \/ Reopens

\* The numbers that Last is made of.
LEMMA LastNat ==
    ASSUME SenderTypeOK, QueueInv
    PROVE  /\ fed \in Nat /\ Len(tradeQ) \in Nat /\ Dequeued \in Nat /\ Last \in Nat
           /\ msg # 0 => Last + 1 = Dequeued /\ msg = Dequeued
           /\ msg = 0 => Last = Dequeued
           /\ HasMsg => msg # 0
<1>1. fed \in Nat /\ Len(tradeQ) \in Nat
  BY LenProperties, NumTradesAssumption DEF SenderTypeOK
<1>2. Dequeued \in Nat
  BY <1>1 DEF Dequeued, QueueInv
<1>3. (msg # 0 => Dequeued >= 1) /\ (HasMsg => msg # 0)
  BY NumTradesAssumption DEF QueueInv, SenderTypeOK, Trades
<1>4. msg # 0 => msg = Dequeued
  BY DEF QueueInv
<1>5. QED
  BY <1>1, <1>2, <1>3, <1>4 DEF Last

\* Last stays when run() holds what it held.
LEMMA LastKept ==
    ASSUME UNCHANGED <<fed, tradeQ, msg>>
    PROVE  Last' = Last
  BY DEF Last, Dequeued

\* The unsent sums stay when both threads stay in or out of SendMQ().
LEMMA UnsentKept ==
    ASSUME UNCHANGED <<aggMap, todo>>,
           \A u \in Threads : pc'[u] \in {"send", "sent"} <=> pc[u] \in {"send", "sent"}
    PROVE  Unsent' = Unsent
<1>1. InSendMQ' = InSendMQ
  BY DEF InSendMQ
<1>2. QED
  BY <1>1 DEF Unsent

\* What log() and SendMQ() do to the trades.
LEMMA CallsMoveTrades ==
    ASSUME SenderInv, SenderInv', OneSender, OneSender', alive, NEW t \in Threads,
           Log(t) \/ LogDies(t) \/ SendOne(t) \/ SendThrows(t) \/ SendClear(t)
    PROVE  Moved
<1>1. /\ PlacesOK /\ currentTime \in Nat /\ todo \in [Threads -> SUBSET Symbols]
      /\ DOMAIN aggMap \subseteq Symbols
      /\ \A s \in DOMAIN aggMap : aggMap[s] \subseteq Trades
  BY DEF SenderInv, SenderTypeOK
<1>2. CASE Log(t) \/ LogDies(t) \/ (t = "main" /\ SendThrows(t))
  <2>1. UNCHANGED <<fed, tradeQ, msg, currentTime, todo, aggMap, published>>
    BY <1>2 DEF Log, LogDies, SendThrows, senderVars
  <2>2. \/ pc' = pc
        \/ Logging(t) /\ Goto(t, AfterLog(t))
    BY <1>2 DEF Log, LogDies, SendThrows
  <2>3. \A u \in Threads : pc'[u] \in {"send", "sent"} <=> pc[u] \in {"send", "sent"}
    BY <1>1, <2>2, LogReturns
  <2>4. QED
    BY <2>1, <2>3, UnsentKept, LastKept DEF Same, Moved
<1>3. UnsentIs /\ UnsentIs'
  BY UnsentCases, PTL
<1>4. ASSUME SendOne(t) \/ SendClear(t)
      PROVE  /\ Unsent = todo[t]
             /\ \A u \in Threads : u # t => ~InSend(u)
  BY <1>3, <1>4, TwoThreads DEF SendOne, SendClear, OneSender, InSend, UnsentIs
<1>5. CASE SendOne(t)
  <2>1. PICK s \in todo[t] :
           /\ pc[t] = "send"
           /\ todo' = [todo EXCEPT ![t] = @ \ {s}]
           /\ UNCHANGED <<fed, tradeQ, msg, currentTime, aggMap, cut>>
           /\ \/ /\ s \in DOMAIN aggMap
                 /\ published' = Append(published, [symbol |-> s, time |-> currentTime,
                                                    trades |-> aggMap[s], by |-> t])
                 /\ Goto(t, "sent")
              \/ s \notin DOMAIN aggMap /\ UNCHANGED <<published, pc>>
    BY <1>5 DEF SendOne
  <2>2. todo'[t] = todo[t] \ {s} /\ \A u \in Threads : u # t => pc'[u] = pc[u]
    BY <1>1, <2>1, GotoMoves DEF MainPlaces
  <2>3. pc'[t] \in {"send", "sent"}
    BY <1>1, <2>1, GotoMoves DEF MainPlaces
  <2>4. Unsent' = Unsent \ {s}
    <3>1. Unsent' = todo'[t]
      BY <1>3, <1>4, <1>5, <2>2, <2>3, TwoThreads DEF InSend, UnsentIs
    <3>2. QED
      BY <1>4, <1>5, <2>2, <3>1
  <2>5. Last' = Last
    BY <2>1, LastKept
  <2>6. CASE s \in DOMAIN aggMap
    <3> DEFINE r == [symbol |-> s, time |-> currentTime, trades |-> aggMap[s], by |-> t]
    <3>1. r \in Messages
      BY <1>1, <2>6 DEF Messages
    <3>2. r.trades = aggMap[s] /\ r.symbol = s /\ r.time = currentTime
      OBVIOUS
    <3>3. published' = Append(published, r)
      BY <2>1, <2>6
    <3>4. s \in Unsent \intersect DOMAIN aggMap /\ aggMap' = aggMap
      BY <1>4, <1>5, <2>1, <2>6
    <3> HIDE DEF r
    <3>5. Sends
      BY <2>4, <2>5, <3>1, <3>2, <3>3, <3>4 DEF Sends
    <3>6. QED
      BY <3>5 DEF Moved
  <2>7. CASE s \notin DOMAIN aggMap
    <3>1. s \in Unsent \ DOMAIN aggMap /\ UNCHANGED <<aggMap, published>>
      BY <1>4, <1>5, <2>1, <2>7
    <3>2. QED
      BY <2>4, <2>5, <3>1 DEF Skips, Moved
  <2>8. QED
    BY <2>6, <2>7
<1>6. CASE SendClear(t)
  <2>1. /\ pc[t] = "send" /\ todo[t] = {} /\ aggMap' = <<>>
        /\ Goto(t, IF t = "run" THEN "aggregate" ELSE "join")
        /\ UNCHANGED <<fed, tradeQ, msg, todo, published, cut>>
    BY <1>6 DEF SendClear
  <2>2. DOMAIN aggMap' = {}
    BY <2>1
  <2>3. /\ pc'[t] = IF t = "run" THEN "aggregate" ELSE "join"
        /\ \A u \in Threads : u # t => pc'[u] = pc[u]
    BY <1>1, <2>1, GotoMoves DEF MainPlaces, RunPlaces
  <2>4. Unsent = {} /\ Unsent' = {}
    BY <1>3, <1>4, <1>6, <2>1, <2>2, <2>3, TwoThreads DEF InSend, UnsentIs
  <2>5. QED
    BY <2>1, <2>2, <2>4, LastKept DEF Clears, Moved
<1>7. CASE t = "run" /\ SendThrows(t)
  <2>1. /\ pc["run"] = "send" /\ cut' = TRUE /\ Goto("run", "done")
        /\ UNCHANGED <<fed, tradeQ, msg, aggMap, published>>
    BY <1>7 DEF SendThrows, senderVars
  <2>2. pc'["run"] = "done" /\ pc'["main"] = pc["main"]
    BY <1>1, <2>1, RunMoves DEF RunPlaces
  <2>3. ~cut
    BY <2>1 DEF SenderInv, CutInv
  <2>4. ~InSend("main")
    BY <2>1 DEF OneSender, InSend
  <2>5. Unsent' = DOMAIN aggMap
    BY <1>3, <2>1, <2>2, <2>4 DEF UnsentIs, InSend
  <2>6. QED
    BY <2>1, <2>3, <2>5, LastKept DEF Reopens, Moved
<1>8. QED
  BY <1>2, <1>5, <1>6, <1>7, TwoThreads

\* run() holds no trade when it dequeues one.
LEMMA TakenTrade ==
    ASSUME SenderTypeOK, QueueInv, ~cut, pc["run"] = "loop",
           tradeQ # <<>>, msg' = Head(tradeQ)
    PROVE  msg = 0 /\ msg' # 0
<1>1. ~HasMsg
  BY DEF HasMsg
<1>2. msg = 0
  BY <1>1 DEF QueueInv
<1>3. msg' \in Trades
  BY QueueTail
<1>4. QED
  BY <1>2, <1>3, NumTradesAssumption DEF Trades

\* What run() does to them.
LEMMA RunMovesTrades ==
    ASSUME SenderInv, SenderInv', OneSender, OneSender', alive,
           TakeTrade \/ CompareTime \/ AggregateTrade
    PROVE  Same \/ Adds
<1>1. /\ PlacesOK /\ SenderTypeOK /\ QueueInv /\ SenderTypeOK' /\ QueueInv'
      /\ pc["run"] # "done" => ~cut
  BY DEF SenderInv, SenderTypeOK, CutInv
<1>2. UnsentIs /\ UnsentIs'
  BY UnsentCases, PTL
<1>3. ASSUME NEW place \in RunPlaces, Goto("run", place), pc["run"] # "none"
      PROVE  pc'["run"] = place /\ pc'["main"] = pc["main"]
  BY <1>1, <1>3, RunMoves
<1>4. CASE TakeTrade
  <2>1. /\ pc["run"] = "loop" /\ UNCHANGED <<fed, aggMap, todo, published>>
        /\ \/ /\ tradeQ # <<>> /\ msg' = Head(tradeQ) /\ tradeQ' = Tail(tradeQ)
              /\ Goto("run", "time")
           \/ Goto("run", "done") /\ UNCHANGED <<tradeQ, msg>>
    BY <1>4 DEF TakeTrade
  <2>2. pc'["run"] \in {"time", "done"} /\ pc'["main"] = pc["main"]
    BY <1>3, <2>1 DEF RunPlaces
  <2>3. Unsent' = Unsent
    BY <2>1, <2>2, UnsentKept, TwoThreads
  <2>4. Last' = Last
    <3>1. CASE /\ tradeQ # <<>> /\ msg' = Head(tradeQ) /\ tradeQ' = Tail(tradeQ)
               /\ Goto("run", "time")
      <4>1. Len(tradeQ') = Len(tradeQ) - 1 /\ Len(tradeQ) \in Nat /\ fed \in Nat
        BY <1>1, <3>1, QueueTail, LastNat
      <4>2. msg = 0 /\ msg' # 0
        BY <1>1, <2>1, <3>1, TakenTrade
      <4>3. QED
        BY <2>1, <4>1, <4>2 DEF Last, Dequeued
    <3>2. CASE Goto("run", "done") /\ UNCHANGED <<tradeQ, msg>>
      BY <2>1, <3>2, LastKept
    <3>3. QED
      BY <2>1, <3>1, <3>2
  <2>5. QED
    BY <2>1, <2>3, <2>4 DEF Same
<1>5. CASE CompareTime
  <2>1. /\ pc["run"] = "time" /\ UNCHANGED <<fed, tradeQ, msg, aggMap, published>>
        /\ \/ Goto("run", "send") /\ todo' = [todo EXCEPT !["run"] = DOMAIN aggMap]
           \/ Goto("run", "aggregate") /\ todo' = todo
    BY <1>5 DEF CompareTime, EnterSendMQ
  <2>2. Last' = Last
    BY <2>1, LastKept
  <2>3. Unsent' = Unsent
    <3>1. CASE Goto("run", "send") /\ todo' = [todo EXCEPT !["run"] = DOMAIN aggMap]
      <4>1. pc'["run"] = "send" /\ pc'["main"] = pc["main"]
        BY <1>3, <2>1, <3>1 DEF RunPlaces
      <4>2. todo'["run"] = DOMAIN aggMap
        BY <1>1, <3>1, TwoThreads DEF SenderTypeOK
      <4>3. QED
        BY <1>2, <2>1, <4>1, <4>2 DEF UnsentIs, InSend, OneSender
    <3>2. CASE Goto("run", "aggregate") /\ todo' = todo
      <4>1. pc'["run"] = "aggregate" /\ pc'["main"] = pc["main"]
        BY <1>3, <2>1, <3>2 DEF RunPlaces
      <4>2. QED
        BY <2>1, <3>2, <4>1, UnsentKept, TwoThreads
    <3>3. QED
      BY <2>1, <3>1, <3>2
  <2>4. QED
    BY <2>1, <2>2, <2>3 DEF Same
<1>6. CASE AggregateTrade
  <2> DEFINE s == SymbolOf[msg]
             val == IF s \in DOMAIN aggMap THEN aggMap[s] ELSE {}
  <2>1. /\ pc["run"] = "aggregate" /\ Goto("run", "loop")
        /\ aggMap' = [x \in DOMAIN aggMap \union {s} |->
                         IF x = s THEN val \union {msg} ELSE aggMap[x]]
        /\ msg' = 0 /\ UNCHANGED <<fed, tradeQ, todo, published>>
    BY <1>6 DEF AggregateTrade
  <2>2. pc'["run"] = "loop" /\ pc'["main"] = pc["main"]
    BY <1>3, <2>1 DEF RunPlaces
  <2>3. HasMsg
    BY <2>1 DEF HasMsg
  <2>4. msg = Last + 1 /\ Last' = Last + 1
    <3>1. Dequeued' = Dequeued
      BY <2>1 DEF Dequeued
    <3>2. QED
      BY <1>1, <2>1, <2>3, <3>1, LastNat DEF Last
  <2>5. Unsent = DOMAIN aggMap /\ Unsent' = DOMAIN aggMap'
    BY <1>2, <2>1, <2>2 DEF UnsentIs, InSend, OneSender
  <2>6. /\ DOMAIN aggMap' = DOMAIN aggMap \union {s}
        /\ \A x \in DOMAIN aggMap : x # s => aggMap'[x] = aggMap[x]
        /\ aggMap'[s] = val \union {Last + 1}
    BY <2>1, <2>4
  <2>7. QED
    BY <2>1, <2>4, <2>5, <2>6 DEF Adds
<1>7. QED
  BY <1>4, <1>5, <1>6

\* The main thread's own steps leave the sums alone.
LEMMA MainMovesTrades ==
    ASSUME SenderInv, SenderInv', OneSender, OneSender',
           Spawn \/ Feed \/ StopFlag \/ StopSize \/ Join \/ Destroy
    PROVE  Same
<1>1. PlacesOK /\ SenderTypeOK /\ QueueInv
  BY DEF SenderInv, SenderTypeOK
<1>2. UnsentIs /\ UnsentIs'
  BY UnsentCases, PTL
<1>3. ASSUME NEW place \in MainPlaces \ {"connect", "spawn"}, Goto("main", place)
      PROVE  pc'["main"] = place /\ pc'["run"] = pc["run"]
  BY <1>1, <1>3, MainMoves
<1>4. UNCHANGED <<aggMap, published, msg>>
  BY DEF Spawn, Feed, StopFlag, StopSize, Join, Destroy, MainOnly, senderVars
<1>5. CASE Feed /\ fed' = fed + 1
  <2>1. tradeQ' = Append(tradeQ, fed + 1) /\ UNCHANGED <<pc, todo>> /\ fed < NumTrades
    BY <1>1, <1>5, LastNat DEF Feed, MainOnly, senderVars
  <2>2. Len(tradeQ') = Len(tradeQ) + 1
    <3>1. fed + 1 \in Trades
      BY <1>1, <2>1, LastNat, NumTradesAssumption DEF Trades
    <3>2. QED
      BY <1>1, <2>1, <3>1, AppendProperties DEF SenderTypeOK
  <2>3. Last' = Last
    <3>1. Dequeued' = Dequeued
      BY <1>1, <1>5, <2>2, LastNat DEF Dequeued
    <3>2. QED
      BY <1>4, <3>1 DEF Last
  <2>4. QED
    BY <1>4, <2>1, <2>3, UnsentKept DEF Same
<1>6. CASE StopSize
  <2>1. /\ pc["main"] = "size" /\ UNCHANGED <<fed, tradeQ>>
        /\ \/ Goto("main", "send") /\ todo' = [todo EXCEPT !["main"] = DOMAIN aggMap]
           \/ Goto("main", "join") /\ todo' = todo
    BY <1>6 DEF StopSize, EnterSendMQ
  <2>2. pc'["run"] = pc["run"]
    BY <1>3, <2>1 DEF MainPlaces
  <2>3. Last' = Last
    BY <1>4, <2>1, LastKept
  <2>4. Unsent' = Unsent
    <3>1. CASE Goto("main", "send") /\ todo' = [todo EXCEPT !["main"] = DOMAIN aggMap]
      <4>1. pc'["main"] = "send"
        BY <1>3, <3>1 DEF MainPlaces
      <4>2. todo'["main"] = DOMAIN aggMap
        BY <1>1, <3>1, TwoThreads DEF SenderTypeOK
      <4>3. QED
        BY <1>2, <1>4, <2>1, <2>2, <4>1, <4>2 DEF UnsentIs, InSend, OneSender
    <3>2. CASE Goto("main", "join") /\ todo' = todo
      <4>1. pc'["main"] = "join"
        BY <1>3, <3>2 DEF MainPlaces
      <4>2. QED
        BY <1>4, <2>1, <2>2, <3>2, <4>1, UnsentKept, TwoThreads
    <3>3. QED
      BY <2>1, <3>1, <3>2
  <2>5. QED
    BY <1>4, <2>3, <2>4 DEF Same
<1>7. CASE Spawn
  <2>1. /\ pc["main"] = "spawn" /\ pc' = [main |-> "feed", run |-> "start"]
        /\ UNCHANGED <<fed, tradeQ, todo>>
    BY <1>7 DEF Spawn, MainOnly, senderVars
  <2>2. pc["run"] = "none"
    BY <1>1, <2>1 DEF PlacesOK
  <2>3. QED
    BY <1>4, <2>1, <2>2, UnsentKept, LastKept, TwoThreads DEF Same
<1>8. CASE (Feed /\ fed' # fed + 1) \/ StopFlag \/ Join \/ Destroy
  <2>1. /\ UNCHANGED <<fed, tradeQ, todo>>
        /\ \/ pc' = pc
           \/ /\ pc["main"] \in {"feed", "stopFlag", "join", "destroy", "joinLogger"}
              /\ \E place \in {"stopLog", "size", "end", "joinLogger", "done"} :
                    Goto("main", place)
    BY <1>8 DEF Feed, StopFlag, Join, Destroy, MainOnly, senderVars
  <2>2. /\ pc'["run"] = pc["run"]
        /\ pc'["main"] \in {"send", "sent"} <=> pc["main"] \in {"send", "sent"}
    BY <1>3, <2>1 DEF MainPlaces
  <2>3. QED
    BY <1>4, <2>1, <2>2, UnsentKept, LastKept, TwoThreads DEF Same
<1>9. QED
  BY <1>5, <1>6, <1>7, <1>8

\* A race and an exception are not forgotten.
LEMMA HistoryKept ==
    ASSUME [Next]_vars
    PROVE  (raced => raced') /\ (cut => cut')
<1>1. raced => raced'
  BY DEF Next, Step, Ended, vars
<1>2. ASSUME NEW t, Log(t) \/ LogDies(t) \/ SendOne(t) \/ SendThrows(t) \/ SendClear(t)
      PROVE  cut => cut'
  BY <1>2 DEF Log, LogDies, SendOne, SendThrows, SendClear
<1>3. CASE TakeTrade \/ CompareTime \/ AggregateTrade
  BY <1>1, <1>3 DEF TakeTrade, CompareTime, AggregateTrade
<1>4. CASE Spawn \/ Feed \/ StopFlag \/ StopSize \/ Join \/ Destroy
  BY <1>1, <1>4 DEF Spawn, Feed, StopFlag, StopSize, Join, Destroy, MainOnly
<1>5. CASE Logger \/ Corrupted \/ Ended \/ UNCHANGED vars
  BY <1>1, <1>5 DEF Logger, Corrupted, Ended, vars
<1>6. QED
  BY <1>1, <1>2, <1>3, <1>4, <1>5 DEF Next, Step, RunThread, MainThread

\* Every step but one of a race moves the trades in one of the six ways.
LEMMA TradesMove ==
    ASSUME SenderInv, SenderInv', [Next]_vars, OneSender, OneSender'
    PROVE  Moved
<1>1. CASE Step(RunThread)
  BY <1>1, CallsMoveTrades, RunMovesTrades, TwoThreads DEF Step, RunThread, Moved
<1>2. CASE Step(MainThread)
  BY <1>2, CallsMoveTrades, MainMovesTrades, TwoThreads DEF Step, MainThread, Moved
<1>3. CASE Step(Logger) \/ Step(Corrupted) \/ Ended \/ UNCHANGED vars
  <2>1. UNCHANGED <<pc, fed, tradeQ, msg, todo, aggMap, published>>
    BY <1>3 DEF Step, Logger, Corrupted, Ended, vars, senderVars
  <2>2. QED
    BY <2>1, UnsentKept, LastKept DEF Same, Moved
<1>4. QED
  BY <1>1, <1>2, <1>3 DEF Next

\* A trade in one place only is placed whether sums were sent again or not.
LEMMA CountedStill ==
    ASSUME NEW U, NEW m, NEW p, NEW n, NEW before \in BOOLEAN, NEW after \in BOOLEAN,
           Counted(U, m, p, n, before), before => after
    PROVE  Counted(U, m, p, n, after)
  BY DEF Counted, Placed

\* When all the sums of the map are to be sent again, a trade is in one more place
\* at most: no trade is in two sums.
LEMMA CountedReopen ==
    ASSUME NEW U, NEW m, NEW p, NEW n, Disjoint(m), Counted(U, m, p, n, FALSE)
    PROVE  Counted(DOMAIN m, m, p, n, TRUE)
<1> SUFFICES ASSUME NEW t \in 1 .. n
             PROVE  Placed(Sums(DOMAIN m, m, t), Sent(p, t), TRUE)
  BY DEF Counted
<1>1. Placed(Sums(U, m, t), Sent(p, t), FALSE)
  BY DEF Counted
<1>2. Sums(DOMAIN m, m, t) = {} \/ \E s : Sums(DOMAIN m, m, t) = {s}
  <2>1. \A x, y \in Sums(DOMAIN m, m, t) : x = y
    BY DEF Sums, Disjoint
  <2>2. QED
    BY <2>1
<1>3. \A s : Sums(U, m, t) = {s} => Sums(DOMAIN m, m, t) # {}
  BY DEF Sums
<1>4. QED
  BY <1>1, <1>2, <1>3 DEF Placed

\* Each of the six keeps every trade in its one place, or its two.
LEMMA CountKept ==
    ASSUME SenderInv, SenderInv', CountInv, Moved, cut => cut'
    PROVE  CountInv'
<1>1. /\ Bounded(aggMap, published, Last) /\ Disjoint(aggMap)
      /\ Counted(Unsent, aggMap, published, Last, cut)
      /\ published \in Seq(Messages) /\ Last \in Nat
      /\ cut \in BOOLEAN /\ cut' \in BOOLEAN
  BY LastNat DEF CountInv, SenderInv, SenderTypeOK, CutInv
<1>2. CASE Same
  BY <1>1, <1>2, CountedStill DEF Same, CountInv
<1>3. CASE Sends
  <2>1. PICK s \in Unsent \intersect DOMAIN aggMap, r \in Messages :
           /\ r.trades = aggMap[s] /\ published' = Append(published, r)
           /\ Unsent' = Unsent \ {s} /\ aggMap' = aggMap /\ Last' = Last
    BY <1>3 DEF Sends
  <2>2. /\ Bounded(aggMap, Append(published, r), Last)
        /\ Counted(Unsent \ {s}, aggMap, Append(published, r), Last, cut)
    BY <1>1, <2>1, CountedSend
  <2>3. QED
    BY <1>1, <2>1, <2>2, CountedStill DEF CountInv
<1>4. CASE Skips
  <2>1. PICK s \in Unsent \ DOMAIN aggMap : Unsent' = Unsent \ {s}
    BY <1>4 DEF Skips
  <2>2. UNCHANGED <<aggMap, published>> /\ Last' = Last
    BY <1>4 DEF Skips
  <2>3. \A t : Sums(Unsent \ {s}, aggMap, t) = Sums(Unsent, aggMap, t)
    BY <2>1 DEF Sums
  <2>4. Counted(Unsent \ {s}, aggMap, published, Last, cut)
    BY <1>1, <2>3 DEF Counted
  <2>5. QED
    BY <1>1, <2>1, <2>2, <2>4, CountedStill DEF CountInv
<1>5. CASE Clears
  <2>1. /\ Unsent = {} /\ DOMAIN aggMap' = {} /\ Unsent' = {}
        /\ published' = published /\ Last' = Last
    BY <1>5 DEF Clears
  <2>2. \A t : Sums({}, aggMap, t) = {} /\ Sums({}, aggMap', t) = {}
    BY DEF Sums
  <2>3. Counted({}, aggMap', published, Last, cut)
    BY <1>1, <2>1, <2>2 DEF Counted
  <2>4. Bounded(aggMap', published, Last) /\ Disjoint(aggMap')
    BY <1>1, <2>1 DEF Bounded, Disjoint
  <2>5. QED
    BY <1>1, <2>1, <2>3, <2>4, CountedStill DEF CountInv
<1>6. CASE Adds
  <2>1. PICK s :
           /\ DOMAIN aggMap' = DOMAIN aggMap \union {s}
           /\ \A x \in DOMAIN aggMap : x # s => aggMap'[x] = aggMap[x]
           /\ aggMap'[s] = (IF s \in DOMAIN aggMap THEN aggMap[s] ELSE {}) \union {Last + 1}
    BY <1>6 DEF Adds
  <2>2. /\ Unsent = DOMAIN aggMap /\ Unsent' = DOMAIN aggMap'
        /\ published' = published /\ Last' = Last + 1
    BY <1>6 DEF Adds
  <2>3. Counted(DOMAIN aggMap, aggMap, published, Last, cut)
    BY <1>1, <2>2
  <2>4. /\ Bounded(aggMap', published, Last + 1) /\ Disjoint(aggMap')
        /\ Counted(DOMAIN aggMap', aggMap', published, Last + 1, cut)
    <3> DEFINE w == aggMap'
               k == cut
    <3>1. /\ DOMAIN w = DOMAIN aggMap \union {s}
          /\ \A x \in DOMAIN aggMap : x # s => w[x] = aggMap[x]
          /\ w[s] = (IF s \in DOMAIN aggMap THEN aggMap[s] ELSE {}) \union {Last + 1}
      BY <2>1
    <3>2. /\ Last \in Nat /\ k \in BOOLEAN /\ Bounded(aggMap, published, Last)
          /\ Disjoint(aggMap) /\ Counted(DOMAIN aggMap, aggMap, published, Last, k)
      BY <1>1, <2>3
    <3> HIDE DEF w, k
    <3>3. /\ Bounded(w, published, Last + 1) /\ Disjoint(w)
          /\ Counted(DOMAIN w, w, published, Last + 1, k)
      BY <3>1, <3>2, CountedAdd
    <3>4. QED
      BY <3>3 DEF w, k
  <2>5. QED
    BY <1>1, <2>2, <2>4, CountedStill DEF CountInv
<1>7. CASE Reopens
  <2>1. /\ cut = FALSE /\ cut' = TRUE /\ Unsent' = DOMAIN aggMap
        /\ UNCHANGED <<aggMap, published>> /\ Last' = Last
    BY <1>1, <1>7 DEF Reopens
  <2>2. Counted(DOMAIN aggMap, aggMap, published, Last, TRUE)
    BY <1>1, <2>1, CountedReopen
  <2>3. QED
    BY <1>1, <2>1, <2>2 DEF CountInv
<1>8. QED
  BY <1>2, <1>3, <1>4, <1>5, <1>6, <1>7 DEF Moved

\* The sizes of sets of no, one and up to two elements.
LEMMA SmallSizes ==
    /\ \A S : S = {} => Cardinality(S) = 0
    /\ \A S, x : S = {x} => Cardinality(S) = 1
    /\ \A S, x, y : S = {x, y} => Cardinality(S) \in {1, 2}
<1>1. /\ \A S : S = {} => Cardinality(S) = 0
      /\ \A S, x : S = {x} => Cardinality(S) = 1
  BY FS_EmptySet, FS_Singleton
<1>2. ASSUME NEW x, NEW y PROVE Cardinality({x, y}) \in {1, 2}
  <2>1. IsFiniteSet({x}) /\ Cardinality({x}) = 1 /\ {x, y} = {x} \union {y}
    BY <1>1, FS_Singleton
  <2>2. CASE y \in {x}
    BY <1>1, <2>2
  <2>3. CASE y \notin {x}
    <3>1. Cardinality({x} \union {y}) = Cardinality({x}) + 1
      BY <2>1, <2>3, FS_AddElement
    <3>2. QED
      BY <2>1, <3>1
  <2>4. QED
    BY <2>2, <2>3
<1>3. QED
  BY <1>1, <1>2

\* The invariants say that every trade handed over is in one place, or in two when
\* sums were sent again.
LEMMA CountedOnce ==
    ASSUME SenderInv, CountInv
    PROVE  \A t \in 1 .. fed : Places(t) = 1 \/ (cut /\ Places(t) = 2)
<1> SUFFICES ASSUME NEW t \in 1 .. fed PROVE Places(t) = 1 \/ (cut /\ Places(t) = 2)
  OBVIOUS
<1>1. /\ fed \in Nat /\ Len(tradeQ) \in Nat /\ Dequeued \in Nat /\ Last \in Nat
      /\ msg # 0 => Last + 1 = Dequeued /\ msg = Dequeued
      /\ msg = 0 => Last = Dequeued
      /\ fed = Dequeued + Len(tradeQ)
  BY LastNat DEF SenderInv, Dequeued
<1>2. \A i \in 1 .. Len(tradeQ) : tradeQ[i] = Dequeued + i
  BY DEF SenderInv, QueueInv
<1>3. /\ Bounded(aggMap, published, Last)
      /\ Counted(Unsent, aggMap, published, Last, cut)
  BY DEF CountInv
<1> DEFINE A == {i \in 1 .. Len(tradeQ) : tradeQ[i] = t}
           B == {r \in {"run"} : msg = t}
           C == Sums(Unsent, aggMap, t)
           D == Sent(published, t)
<1>4. Places(t) = Cardinality(A) + Cardinality(B) + Cardinality(C) + Cardinality(D)
  BY DEF Places, Sums, Sent
<1>5. CASE t > Dequeued
  <2>1. t - Dequeued \in 1 .. Len(tradeQ) /\ t # msg /\ t \notin 1 .. Last
    BY <1>1, <1>2, <1>5
  <2>2. A = {t - Dequeued}
    <3>1. \A i \in 1 .. Len(tradeQ) : Dequeued + i = t <=> i = t - Dequeued
      BY <1>1
    <3>2. QED
      BY <1>2, <2>1, <3>1
  <2>3. B = {} /\ C = {} /\ D = {}
    BY <1>3, <2>1 DEF Bounded, Sums, Sent
  <2> HIDE DEF A, B, C, D
  <2>4. Cardinality(A) = 1 /\ Cardinality(B) = 0 /\ Cardinality(C) = 0 /\ Cardinality(D) = 0
    BY <2>2, <2>3, SmallSizes
  <2>5. QED
    BY <1>4, <2>4
<1>6. ASSUME t <= Dequeued PROVE A = {}
  <2>1. \A i \in 1 .. Len(tradeQ) : Dequeued + i # t
    BY <1>1, <1>6
  <2>2. QED
    BY <1>2, <2>1
<1>7. CASE t = Dequeued /\ msg # 0
  <2>1. A = {}
    BY <1>1, <1>6, <1>7
  <2>2. t = msg /\ t \notin 1 .. Last
    BY <1>1, <1>2, <1>7
  <2>3. B = {"run"} /\ C = {} /\ D = {}
    BY <1>3, <2>2 DEF Bounded, Sums, Sent
  <2> HIDE DEF A, B, C, D
  <2>4. Cardinality(A) = 0 /\ Cardinality(B) = 1 /\ Cardinality(C) = 0 /\ Cardinality(D) = 0
    BY <2>1, <2>3, SmallSizes
  <2>5. QED
    BY <1>4, <2>4
<1>8. CASE t <= Dequeued /\ ~(t = Dequeued /\ msg # 0)
  <2>1. t \in 1 .. Last /\ t # msg
    BY <1>1, <1>2, <1>8
  <2>2. A = {} /\ B = {}
    BY <1>6, <1>8, <2>1
  <2>3. Placed(C, D, cut)
    BY <1>3, <2>1 DEF Counted
  <2> HIDE DEF A, B, C, D
  <2>4. /\ Cardinality(A) = 0 /\ Cardinality(B) = 0
    BY <2>2, SmallSizes
  <2>5. \/ Cardinality(C) = 0 /\ Cardinality(D) = 1
        \/ Cardinality(C) = 1 /\ Cardinality(D) = 0
        \/ Cardinality(C) = 1 /\ Cardinality(D) = 1 /\ cut
        \/ Cardinality(C) = 0 /\ Cardinality(D) \in {1, 2} /\ cut
    BY <2>3, SmallSizes DEF Placed
  <2>6. QED
    BY <1>4, <2>4, <2>5
<1>9. QED
  BY <1>1, <1>5, <1>7, <1>8

\* Every trade handed over is queued, with run(), in one sum that is to be sent,
\* or in one message, and in one of these only, unless stop() and run() were in
\* the map at once; and when an exception of the socket has left SendMQ(), with the
\* map as it was, every trade still has a place and none is in more than two
\* messages: for every file of trades and every capacity.
THEOREM OnePlaceCorrect == Spec => []OnePlace
<1>1. Init => SenderInv /\ PlaceInv
  <2> SUFFICES ASSUME Init PROVE CountInv
    BY SenderInit DEF PlaceInv
  <2>1. aggMap = <<>> /\ published = <<>> /\ fed = 0 /\ tradeQ = <<>> /\ msg = 0
    BY DEF Init
  <2>2. Last = 0
    <3>1. fed = 0 /\ Len(tradeQ) = 0 /\ msg = 0
      BY <2>1
    <3>2. 0 - 0 = 0
      OBVIOUS
    <3>3. Dequeued = 0
      BY <3>1, <3>2 DEF Dequeued
    <3>4. QED
      BY <3>1, <3>3 DEF Last
  <2>3. Len(published) = 0 /\ DOMAIN aggMap = {}
    BY <2>1
  <2>4. QED
    BY <2>2, <2>3 DEF CountInv, Bounded, Disjoint, Counted
<1>2. SenderInv /\ PlaceInv /\ [Next]_vars => SenderInv' /\ PlaceInv'
  <2> SUFFICES ASSUME SenderInv, PlaceInv, [Next]_vars, SenderInv', ~raced'
               PROVE  CountInv'
    BY SenderStep DEF PlaceInv
  <2>1. ~raced /\ CountInv /\ (cut => cut')
    BY HistoryKept DEF PlaceInv
  <2>2. OneSender
    BY <2>1, OneSenderHolds DEF SenderInv
  <2>3. OneSender'
    <3>1. (RacedInv /\ ~raced => OneSender)'
      BY OneSenderHolds, PTL
    <3>2. QED
      BY <3>1 DEF SenderInv
  <2>4. Moved
    BY <2>2, <2>3, TradesMove
  <2>5. QED
    BY <2>1, <2>4, CountKept
<1>3. SenderInv /\ PlaceInv => OnePlace
  BY CountedOnce DEF PlaceInv, OnePlace
<1>4. QED
  BY <1>1, <1>2, <1>3, PTL DEF Spec

-----------------------------------------------------------------------------
(***************************************************************************)
(* What the messages sum.                                                   *)
(***************************************************************************)
\* The file is in the order of time.
InTimeOrder == \A t, u \in Trades : t <= u => TimeOf[t] <= TimeOf[u]

Slice(s, time) == {t \in Trades : SymbolOf[t] = s /\ TimeOf[t] = time}
WholeMessage(m) ==
    /\ m.trades \subseteq Slice(m.symbol, m.time) /\ m.trades # {}
    /\ m.by = "run" => m.trades = Slice(m.symbol, m.time)

\* stop() has not looked at the map; stop() has lowered the flag.
Before  == pc["main"] \in {"connect", "spawn", "feed", "stopLog", "stopFlag", "size"}
Stopped == pc["main"] \in {"size", "send", "sent", "join", "end", "destroy",
                           "joinLogger", "done"}
FlagInv == Stopped => ~runFlag

\* The sums are of the current time and of their symbols.
SumsInv == \A s \in DOMAIN aggMap :
              aggMap[s] # {} /\ \A t \in aggMap[s] : SymbolOf[t] = s /\ TimeOf[t] = currentTime

\* The current time is that of the trade added last, or of the one to be added.
TimeInv ==
    /\ pc["run"] = "aggregate" => TimeOf[msg] = currentTime
    /\ pc["run"] \in {"send", "sent"} => TimeOf[msg] # currentTime
    /\ pc["run"] # "aggregate" => currentTime = IF Last = 0 THEN Now ELSE TimeOf[Last]

\* Until stop() looks at the map it holds all trades of the current time, and
\* behind stop() run() has only an empty map left to send.
FullInv  == Before => \A t \in 1 .. Last : TimeOf[t] = currentTime =>
                          SymbolOf[t] \in DOMAIN aggMap /\ t \in aggMap[SymbolOf[t]]
EmptyInv == ~Before /\ ~InSend("main") /\ HasMsg => DOMAIN aggMap = {}

\* The inductive invariant behind WholeSlices.
Whole     == \A i \in 1 .. Len(published) : WholeMessage(published[i])
SliceInv  == SumsInv /\ TimeInv /\ FullInv /\ EmptyInv /\ Whole
SlicesInv == FlagInv /\ (raced \/ cut \/ SliceInv)

\* A call of log() that returns changes nothing that SliceInv is about.
LEMMA LogReturnsCalm ==
    ASSUME PlacesOK, NEW t \in Threads, Logging(t), Goto(t, AfterLog(t))
    PROVE  /\ pc'["run"] = "aggregate" <=> pc["run"] = "aggregate"
           /\ Before' <=> Before
           /\ Stopped' <=> Stopped
<1>1. CASE t = "main"
  <2>1. pc["main"] \in {"connect", "sent", "stopLog", "end"}
    BY <1>1 DEF Logging, PlacesOK, MainPlaces
  <2>2. AfterLog(t) \in MainPlaces /\ (AfterLog(t) \in {"connect", "spawn"} => pc["run"] = "none")
    BY <1>1, <2>1 DEF AfterLog, MainPlaces, PlacesOK
  <2>3. pc'["main"] = AfterLog(t) /\ pc'["run"] = pc["run"]
    BY <1>1, <2>2, MainMoves
  <2>4. \/ pc["main"] = "connect" /\ pc'["main"] = "spawn"
        \/ pc["main"] = "sent" /\ pc'["main"] = "send"
        \/ pc["main"] = "stopLog" /\ pc'["main"] = "stopFlag"
        \/ pc["main"] = "end" /\ pc'["main"] = "destroy"
    BY <1>1, <2>1, <2>3 DEF AfterLog
  <2>5. QED
    BY <2>3, <2>4 DEF Before, Stopped
<1>2. CASE t = "run"
  <2>1. pc["run"] \in {"start", "sent"}
    BY <1>2 DEF Logging, PlacesOK, RunPlaces
  <2>2. AfterLog(t) \in {"loop", "send"}
    BY <1>2, <2>1 DEF AfterLog
  <2>3. pc'["run"] = AfterLog(t) /\ pc'["main"] = pc["main"]
    BY <1>2, <2>1, <2>2, RunMoves DEF RunPlaces
  <2>4. QED
    BY <2>1, <2>2, <2>3 DEF Before, Stopped
<1>3. QED
  BY <1>1, <1>2, TwoThreads

\* The flag is down once stop() has lowered it.
LEMMA FlagStep ==
    ASSUME SenderInv, FlagInv, [Next]_vars
    PROVE  FlagInv'
<1>1. PlacesOK
  BY DEF SenderInv, SenderTypeOK
<1>2. ASSUME NEW place \in MainPlaces \ {"connect", "spawn"}, Goto("main", place)
      PROVE  pc'["main"] = place
  BY <1>1, <1>2, MainMoves
<1>3. ASSUME NEW t \in Threads,
             Log(t) \/ LogDies(t) \/ SendOne(t) \/ SendThrows(t) \/ SendClear(t)
      PROVE  FlagInv'
  <2>1. runFlag' = runFlag
    BY <1>3 DEF Log, LogDies, SendOne, SendThrows, SendClear
  <2>2. \/ pc'["main"] = pc["main"]
        \/ Logging(t) /\ Goto(t, AfterLog(t))
        \/ t = "main" /\ pc["main"] = "send" /\ pc'["main"] \in {"sent", "join"}
    <3>1. CASE t = "main"
      BY <1>2, <1>3, <3>1 DEF Log, LogDies, SendOne, SendThrows, SendClear, MainPlaces
    <3>2. CASE t = "run"
      <4>1. \/ pc' = pc \/ (Logging(t) /\ Goto(t, AfterLog(t)))
            \/ \E place \in {"sent", "aggregate", "done"} : Goto("run", place)
        BY <1>3, <3>2 DEF Log, LogDies, SendOne, SendThrows, SendClear
      <4>2. QED
        BY <1>1, <4>1, GotoMoves, TwoThreads DEF RunPlaces
    <3>3. QED
      BY <3>1, <3>2, TwoThreads
  <2>3. QED
    BY <1>1, <2>1, <2>2, LogReturnsCalm DEF FlagInv, Stopped
<1>4. CASE TakeTrade \/ CompareTime \/ AggregateTrade
  <2>1. /\ runFlag' = runFlag
        /\ \E place \in {"done", "time", "send", "aggregate", "loop"} : Goto("run", place)
    BY <1>4 DEF TakeTrade, CompareTime, EnterSendMQ, AggregateTrade
  <2>2. pc'["main"] = pc["main"]
    BY <1>1, <2>1, GotoMoves, TwoThreads DEF RunPlaces
  <2>3. QED
    BY <2>1, <2>2 DEF FlagInv, Stopped
<1>5. CASE Spawn \/ Feed
  <2>1. /\ runFlag' = runFlag
        /\ pc' = pc \/ pc'["main"] \in {"feed", "stopLog"}
    BY <1>2, <1>5 DEF Spawn, Feed, MainPlaces
  <2>2. QED
    BY <2>1 DEF FlagInv, Stopped
<1>6. CASE StopFlag
  BY <1>6 DEF StopFlag, FlagInv
<1>7. CASE StopSize \/ Join \/ Destroy
  <2>1. /\ runFlag' = runFlag
        /\ pc["main"] \in {"size", "join", "destroy", "joinLogger"}
    BY <1>7 DEF StopSize, Join, Destroy
  <2>2. QED
    BY <2>1 DEF FlagInv, Stopped
<1>8. CASE Logger \/ Corrupted \/ Ended \/ UNCHANGED vars
  BY <1>8 DEF Logger, Corrupted, Ended, vars, FlagInv, Stopped
<1>9. QED
  BY <1>3, <1>4, <1>5, <1>6, <1>7, <1>8, TwoThreads DEF Next, Step, RunThread, MainThread

\* Steps that change nothing that SliceInv is about keep it.
Calm ==
    /\ UNCHANGED <<aggMap, currentTime, published, msg>> /\ Last' = Last
    /\ HasMsg' <=> HasMsg
    /\ pc'["run"] = "aggregate" <=> pc["run"] = "aggregate"
    /\ \A u \in Threads : pc'[u] \in {"send", "sent"} <=> pc[u] \in {"send", "sent"}
    /\ Before' <=> Before

\* A calm step keeps SliceInv.
LEMMA CalmKeeps ==
    ASSUME SliceInv, Calm
    PROVE  SliceInv'
<1>1. SumsInv'
  BY DEF SliceInv, Calm, SumsInv
<1>2. TimeInv'
  BY TwoThreads DEF SliceInv, Calm, TimeInv
<1>3. FullInv'
  BY DEF SliceInv, Calm, FullInv
<1>4. EmptyInv'
  BY TwoThreads DEF SliceInv, Calm, EmptyInv, InSend
<1>5. Whole'
  BY DEF SliceInv, Calm, Whole
<1>6. QED
  BY <1>1, <1>2, <1>3, <1>4, <1>5 DEF SliceInv

\* log() is calm.
LEMMA LogCalm ==
    ASSUME SenderInv, NEW t \in Threads, Log(t) \/ LogDies(t)
    PROVE  Calm
<1>1. PlacesOK
  BY DEF SenderInv, SenderTypeOK
<1>2. UNCHANGED <<fed, tradeQ, msg, currentTime, todo, aggMap, published>>
  BY DEF Log, LogDies, senderVars
<1>3. pc' = pc \/ (Logging(t) /\ Goto(t, AfterLog(t)))
  BY DEF Log, LogDies
<1>4. CASE pc' = pc
  BY <1>2, <1>4, LastKept DEF Calm, HasMsg, Before
<1>5. CASE Logging(t) /\ Goto(t, AfterLog(t))
  BY <1>1, <1>2, <1>5, LogReturns, LogReturnsCalm, LastKept DEF Calm
<1>6. QED
  BY <1>3, <1>4, <1>5

\* A message of run() sums all the trades of its symbol and time.
LEMMA RunSendsWhole ==
    ASSUME InTimeOrder, SenderInv, OneSender, SliceInv, pc["run"] = "send",
           NEW s \in DOMAIN aggMap
    PROVE  Slice(s, currentTime) \subseteq aggMap[s]
<1> SUFFICES ASSUME NEW u \in Trades, SymbolOf[u] = s, TimeOf[u] = currentTime
             PROVE  u \in aggMap[s]
  BY DEF Slice
<1>1. HasMsg /\ ~InSend("main")
  BY DEF HasMsg, OneSender, InSend
<1>2. Before
  BY <1>1 DEF SliceInv, EmptyInv
<1>3. CASE u \in 1 .. Last
  BY <1>2, <1>3 DEF SliceInv, FullInv
<1>4. CASE u \notin 1 .. Last
  <2>1. /\ Last \in Nat /\ msg = Last + 1 /\ msg \in Trades /\ u \in Nat /\ u >= 1
        /\ NumTrades \in Nat
    BY <1>1, LastNat, NumTradesAssumption DEF SenderInv, QueueInv, Trades
  <2>2. msg <= u
    BY <1>4, <2>1
  <2>3. TimeOf[msg] <= TimeOf[u] /\ TimeOf[msg] \in Nat /\ TimeOf[u] \in Nat \ {Now}
    BY <2>1, <2>2, TimeAssumption DEF InTimeOrder
  <2>4. /\ TimeOf[msg] # currentTime
        /\ currentTime = IF Last = 0 THEN Now ELSE TimeOf[Last]
    BY DEF SliceInv, TimeInv
  <2>5. Last # 0 /\ currentTime = TimeOf[Last]
    BY <2>3, <2>4
  <2>6. Last \in Trades /\ Last <= msg
    BY <2>1, <2>5 DEF Trades
  <2>7. TimeOf[Last] <= TimeOf[msg] /\ TimeOf[Last] \in Nat
    BY <2>1, <2>6, TimeAssumption DEF InTimeOrder
  <2>8. QED
    BY <2>3, <2>4, <2>5, <2>7
<1>5. QED
  BY <1>3, <1>4

\* SendMQ() sends whole slices, or what stop() finds of one.
LEMMA SendKeepsSlices ==
    ASSUME InTimeOrder, SenderInv, SenderInv', OneSender, OneSender', SliceInv,
           NEW t \in Threads, SendOne(t)
    PROVE  SliceInv'
<1>1. /\ PlacesOK /\ DOMAIN aggMap \subseteq Symbols /\ published \in Seq(Messages)
      /\ \A s \in DOMAIN aggMap : aggMap[s] \subseteq Trades
      /\ currentTime \in Nat
  BY DEF SenderInv, SenderTypeOK
<1>2. PICK s \in todo[t] :
         /\ pc[t] = "send"
         /\ UNCHANGED <<fed, tradeQ, msg, currentTime, aggMap>>
         /\ \/ /\ s \in DOMAIN aggMap
               /\ published' = Append(published, [symbol |-> s, time |-> currentTime,
                                                  trades |-> aggMap[s], by |-> t])
               /\ Goto(t, "sent")
            \/ s \notin DOMAIN aggMap /\ UNCHANGED <<published, pc>>
  BY DEF SendOne
<1>3. pc'[t] \in {"send", "sent"} /\ \A u \in Threads : u # t => pc'[u] = pc[u]
  BY <1>1, <1>2, GotoMoves DEF MainPlaces
<1>4. /\ HasMsg' <=> HasMsg
      /\ pc'["run"] = "aggregate" <=> pc["run"] = "aggregate"
      /\ \A u \in Threads : pc'[u] \in {"send", "sent"} <=> pc[u] \in {"send", "sent"}
      /\ Before' <=> Before
  BY <1>2, <1>3, TwoThreads DEF HasMsg, Before
<1>5. Last' = Last
  BY <1>2, LastKept
<1>6. CASE s \notin DOMAIN aggMap
  BY <1>2, <1>4, <1>5, <1>6, CalmKeeps DEF Calm
<1>7. CASE s \in DOMAIN aggMap
  <2> DEFINE r == [symbol |-> s, time |-> currentTime, trades |-> aggMap[s], by |-> t]
  <2>1. WholeMessage(r)
    <3>1. aggMap[s] \subseteq Slice(s, currentTime) /\ aggMap[s] # {}
      BY <1>1, <1>7 DEF SliceInv, SumsInv, Slice
    <3>2. t = "run" => Slice(s, currentTime) \subseteq aggMap[s]
      BY <1>2, <1>7, RunSendsWhole
    <3>3. r.symbol = s /\ r.time = currentTime /\ r.trades = aggMap[s] /\ r.by = t
      OBVIOUS
    <3> HIDE DEF r
    <3>4. QED
      BY <3>1, <3>2, <3>3 DEF WholeMessage
  <2>2. r \in Messages /\ published' = Append(published, r)
    BY <1>1, <1>2, <1>7 DEF Messages
  <2> HIDE DEF r
  <2>3. /\ Len(published) \in Nat /\ Len(published') = Len(published) + 1
        /\ published'[Len(published) + 1] = r
        /\ \A i \in 1 .. Len(published) : published'[i] = published[i]
    BY <1>1, <2>2, AppendProperties, LenProperties
  <2>4. Whole'
    <3>1. ASSUME NEW i \in 1 .. Len(published') PROVE WholeMessage(published'[i])
      <4>1. i \in 1 .. Len(published) \/ i = Len(published) + 1
        BY <2>3, <3>1
      <4>2. QED
        BY <2>1, <2>3, <4>1 DEF SliceInv, Whole
    <3>2. QED
      BY <3>1 DEF Whole
  <2>5. SumsInv'
    BY <1>2 DEF SliceInv, SumsInv
  <2>6. TimeInv'
    BY <1>2, <1>4, <1>5, TwoThreads DEF SliceInv, TimeInv
  <2>7. FullInv'
    BY <1>2, <1>4, <1>5 DEF SliceInv, FullInv
  <2>8. EmptyInv'
    BY <1>2, <1>4, TwoThreads DEF SliceInv, EmptyInv, InSend
  <2>9. QED
    BY <2>4, <2>5, <2>6, <2>7, <2>8 DEF SliceInv
<1>8. QED
  BY <1>6, <1>7

\* SendMQ() empties the map before the time moves on.
LEMMA ClearKeepsSlices ==
    ASSUME InTimeOrder, SenderInv, SenderInv', OneSender, OneSender', SliceInv,
           NEW t \in Threads, SendClear(t)
    PROVE  SliceInv'
<1>1. PlacesOK
  BY DEF SenderInv, SenderTypeOK
<1>2. /\ pc[t] = "send" /\ aggMap' = <<>>
      /\ currentTime' = (IF t = "run" THEN TimeOf[msg] ELSE currentTime)
      /\ Goto(t, IF t = "run" THEN "aggregate" ELSE "join")
      /\ UNCHANGED <<fed, tradeQ, msg, published>>
  BY DEF SendClear
<1>3. DOMAIN aggMap' = {}
  BY <1>2
<1>4. /\ pc'[t] = IF t = "run" THEN "aggregate" ELSE "join"
      /\ \A u \in Threads : u # t => pc'[u] = pc[u]
  BY <1>1, <1>2, GotoMoves DEF MainPlaces, RunPlaces
<1>5. Last' = Last
  BY <1>2, LastKept
<1>6. SumsInv' /\ EmptyInv' /\ Whole'
  BY <1>2, <1>3 DEF SliceInv, SumsInv, EmptyInv, Whole
<1>7. CASE t = "main"
  <2>1. pc'["main"] = "join" /\ pc'["run"] = pc["run"] /\ currentTime' = currentTime
    BY <1>2, <1>4, <1>7, TwoThreads
  <2>2. TimeInv'
    BY <1>2, <1>5, <2>1 DEF SliceInv, TimeInv
  <2>3. FullInv'
    BY <2>1 DEF FullInv, Before
  <2>4. QED
    BY <1>6, <2>2, <2>3 DEF SliceInv
<1>8. CASE t = "run"
  <2>1. pc["run"] = "send" /\ pc'["run"] = "aggregate" /\ currentTime' = TimeOf[msg]
    BY <1>2, <1>4, <1>8
  <2>2. TimeInv'
    BY <1>2, <2>1 DEF TimeInv
  <2>3. ASSUME NEW u \in 1 .. Last PROVE TimeOf[u] # TimeOf[msg]
    <3>1. /\ Last \in Nat /\ msg = Last + 1 /\ msg \in Trades /\ NumTrades \in Nat
      BY <2>1, LastNat, NumTradesAssumption DEF SenderInv, QueueInv, HasMsg
    <3>2. u \in Trades /\ Last \in Trades /\ u <= Last /\ Last <= msg /\ Last # 0
      BY <2>3, <3>1 DEF Trades
    <3>3. /\ TimeOf[u] <= TimeOf[Last] /\ TimeOf[Last] <= TimeOf[msg]
          /\ TimeOf[u] \in Nat /\ TimeOf[Last] \in Nat /\ TimeOf[msg] \in Nat
      BY <3>1, <3>2, TimeAssumption DEF InTimeOrder
    <3>4. TimeOf[Last] # TimeOf[msg]
      BY <2>1, <3>2 DEF SliceInv, TimeInv
    <3>5. QED
      BY <3>3, <3>4
  <2>4. FullInv'
    BY <1>5, <2>1, <2>3 DEF FullInv
  <2>5. QED
    BY <1>6, <2>2, <2>4 DEF SliceInv
<1>9. QED
  BY <1>7, <1>8, TwoThreads

\* run() keeps the sums of one time, and of all its trades.
LEMMA RunKeepsSlices ==
    ASSUME SenderInv, SenderInv', OneSender, OneSender', SliceInv, FlagInv, ~cut,
           TakeTrade \/ CompareTime \/ AggregateTrade
    PROVE  SliceInv'
<1>1. PlacesOK /\ SenderTypeOK /\ QueueInv
  BY DEF SenderInv, SenderTypeOK
<1>2. ASSUME NEW place \in RunPlaces, Goto("run", place), pc["run"] # "none"
      PROVE  pc'["run"] = place /\ pc'["main"] = pc["main"]
  BY <1>1, <1>2, RunMoves
<1>3. CASE TakeTrade
  <2>1. /\ pc["run"] = "loop"
        /\ UNCHANGED <<fed, runFlag, aggMap, currentTime, todo, published>>
        /\ \/ /\ tradeQ # <<>> /\ msg' = Head(tradeQ) /\ tradeQ' = Tail(tradeQ)
              /\ Goto("run", "time") /\ runFlag
           \/ Goto("run", "done") /\ UNCHANGED <<msg, tradeQ>>
    BY <1>3 DEF TakeTrade
  <2>2. pc'["run"] \in {"time", "done"} /\ pc'["main"] = pc["main"]
    BY <1>2, <2>1 DEF RunPlaces
  <2>3. Last' = Last
    <3>1. CASE /\ tradeQ # <<>> /\ msg' = Head(tradeQ) /\ tradeQ' = Tail(tradeQ)
               /\ Goto("run", "time")
      <4>1. Len(tradeQ') = Len(tradeQ) - 1 /\ Len(tradeQ) \in Nat /\ fed \in Nat
        BY <1>1, <3>1, QueueTail, LastNat
      <4>2. msg = 0 /\ msg' # 0
        BY <1>1, <2>1, <3>1, TakenTrade
      <4>3. QED
        BY <2>1, <4>1, <4>2 DEF Last, Dequeued
    <3>2. CASE Goto("run", "done") /\ UNCHANGED <<msg, tradeQ>>
      BY <2>1, <3>2, LastKept
    <3>3. QED
      BY <2>1, <3>1, <3>2
  <2>4. SumsInv' /\ FullInv' /\ Whole'
    BY <2>1, <2>2, <2>3 DEF SliceInv, SumsInv, FullInv, Whole, Before
  <2>5. TimeInv'
    BY <2>1, <2>2, <2>3 DEF SliceInv, TimeInv
  <2>6. EmptyInv'
    <3>1. CASE runFlag
      <4>1. ~Stopped
        BY <3>1 DEF FlagInv
      <4>2. Before'
        BY <1>1, <2>2, <4>1 DEF Stopped, Before, PlacesOK, MainPlaces
      <4>3. QED
        BY <4>2 DEF EmptyInv
    <3>2. CASE ~runFlag
      <4>1. ~HasMsg'
        BY <1>2, <2>1, <3>2 DEF RunPlaces, HasMsg
      <4>2. QED
        BY <4>1 DEF EmptyInv
    <3>3. QED
      BY <3>1, <3>2
  <2>7. QED
    BY <2>4, <2>5, <2>6 DEF SliceInv
<1>4. CASE CompareTime
  <2>1. /\ pc["run"] = "time"
        /\ UNCHANGED <<fed, tradeQ, msg, aggMap, currentTime, published>>
        /\ \/ TimeOf[msg] # currentTime /\ Goto("run", "send")
           \/ TimeOf[msg] = currentTime /\ Goto("run", "aggregate")
    BY <1>4 DEF CompareTime, EnterSendMQ
  <2>2. /\ \/ TimeOf[msg] # currentTime /\ pc'["run"] = "send"
           \/ TimeOf[msg] = currentTime /\ pc'["run"] = "aggregate"
        /\ pc'["main"] = pc["main"]
    BY <1>2, <2>1 DEF RunPlaces
  <2>3. HasMsg /\ HasMsg' /\ Last' = Last
    BY <2>1, <2>2, LastKept DEF HasMsg
  <2>4. SumsInv' /\ FullInv' /\ Whole'
    BY <2>1, <2>2, <2>3 DEF SliceInv, SumsInv, FullInv, Whole, Before
  <2>5. TimeInv'
    BY <2>1, <2>2, <2>3 DEF SliceInv, TimeInv
  <2>6. EmptyInv'
    BY <2>1, <2>2, <2>3 DEF SliceInv, EmptyInv, Before, InSend
  <2>7. QED
    BY <2>4, <2>5, <2>6 DEF SliceInv
<1>5. CASE AggregateTrade
  <2> DEFINE s == SymbolOf[msg]
             val == IF s \in DOMAIN aggMap THEN aggMap[s] ELSE {}
  <2>1. /\ pc["run"] = "aggregate" /\ Goto("run", "loop")
        /\ aggMap' = [x \in DOMAIN aggMap \union {s} |->
                         IF x = s THEN val \union {msg} ELSE aggMap[x]]
        /\ msg' = 0 /\ UNCHANGED <<fed, tradeQ, currentTime, published>>
    BY <1>5 DEF AggregateTrade
  <2>2. pc'["run"] = "loop" /\ pc'["main"] = pc["main"]
    BY <1>2, <2>1 DEF RunPlaces
  <2>3. HasMsg /\ ~HasMsg'
    BY <2>1, <2>2 DEF HasMsg
  <2>4. msg = Last + 1 /\ Last' = Last + 1 /\ Last \in Nat
    <3>1. Dequeued' = Dequeued
      BY <2>1 DEF Dequeued
    <3>2. QED
      BY <1>1, <2>1, <2>3, <3>1, LastNat DEF Last
  <2>5. TimeOf[msg] = currentTime
    BY <2>1 DEF SliceInv, TimeInv
  <2>6. /\ DOMAIN aggMap' = DOMAIN aggMap \union {s}
        /\ \A x \in DOMAIN aggMap : x # s => aggMap'[x] = aggMap[x]
        /\ aggMap'[s] = val \union {msg}
    BY <2>1
  <2>7. SumsInv'
    BY <2>1, <2>5, <2>6 DEF SliceInv, SumsInv
  <2>8. TimeInv'
    BY <2>1, <2>2, <2>4, <2>5 DEF TimeInv
  <2>9. FullInv'
    <3>1. ASSUME Before', NEW t \in 1 .. Last', TimeOf[t] = currentTime
          PROVE  SymbolOf[t] \in DOMAIN aggMap' /\ t \in aggMap'[SymbolOf[t]]
      <4>1. t \in 1 .. Last \/ t = msg
        BY <2>4, <3>1
      <4>2. Before
        BY <2>2, <3>1 DEF Before
      <4>3. QED
        BY <2>6, <3>1, <4>1, <4>2 DEF SliceInv, FullInv
    <3>2. QED
      BY <2>1, <3>1 DEF FullInv
  <2>10. EmptyInv' /\ Whole'
    BY <2>1, <2>3 DEF SliceInv, EmptyInv, Whole
  <2>11. QED
    BY <2>7, <2>8, <2>9, <2>10 DEF SliceInv
<1>6. QED
  BY <1>3, <1>4, <1>5

\* So does the main thread; when stop() finds the map empty it stays empty.
LEMMA MainKeepsSlices ==
    ASSUME SenderInv, SenderInv', OneSender, OneSender', SliceInv,
           Spawn \/ Feed \/ StopFlag \/ StopSize \/ Join \/ Destroy
    PROVE  SliceInv'
<1>1. PlacesOK
  BY DEF SenderInv, SenderTypeOK
<1>2. Last' = Last
  BY MainMovesTrades DEF Same
<1>3. UNCHANGED <<aggMap, currentTime, published, msg>>
  BY DEF Spawn, Feed, StopFlag, StopSize, Join, Destroy, MainOnly, senderVars
<1>4. ASSUME NEW place \in MainPlaces \ {"connect", "spawn"}, Goto("main", place)
      PROVE  pc'["main"] = place /\ pc'["run"] = pc["run"]
  BY <1>1, <1>4, MainMoves
<1>5. CASE StopSize
  <2>1. /\ pc["main"] = "size"
        /\ \/ Goto("main", "send")
           \/ Goto("main", "join") /\ aggMap = <<>>
    BY <1>5 DEF StopSize, EnterSendMQ
  <2>2. /\ pc'["run"] = pc["run"]
        /\ \/ pc'["main"] = "send"
           \/ pc'["main"] = "join" /\ aggMap = <<>>
    BY <1>4, <2>1 DEF MainPlaces
  <2>3. SumsInv' /\ Whole' /\ TimeInv'
    BY <1>2, <1>3, <2>2 DEF SliceInv, SumsInv, Whole, TimeInv
  <2>4. FullInv'
    BY <2>2 DEF FullInv, Before
  <2>5. EmptyInv'
    <3>1. CASE pc'["main"] = "send"
      BY <3>1 DEF EmptyInv, InSend
    <3>2. CASE aggMap = <<>>
      <4>1. DOMAIN aggMap' = {}
        BY <1>3, <3>2
      <4>2. QED
        BY <4>1 DEF EmptyInv
    <3>3. QED
      BY <2>2, <3>1, <3>2
  <2>6. QED
    BY <2>3, <2>4, <2>5 DEF SliceInv
<1>6. CASE Spawn
  <2>1. pc["main"] = "spawn" /\ pc' = [main |-> "feed", run |-> "start"]
    BY <1>6 DEF Spawn
  <2>2. pc["run"] = "none"
    BY <1>1, <2>1 DEF PlacesOK
  <2>3. Calm
    BY <1>2, <1>3, <2>1, <2>2, TwoThreads DEF Calm, HasMsg, Before
  <2>4. QED
    BY <2>3, CalmKeeps
<1>7. CASE Feed \/ StopFlag \/ Join \/ Destroy
  <2>1. \/ pc' = pc
        \/ pc["main"] = "feed" /\ Goto("main", "stopLog")
        \/ pc["main"] = "stopFlag" /\ Goto("main", "size")
        \/ pc["main"] = "join" /\ Goto("main", "end")
        \/ pc["main"] = "destroy" /\ Goto("main", "joinLogger")
        \/ pc["main"] = "joinLogger" /\ Goto("main", "done")
    BY <1>7 DEF Feed, StopFlag, Join, Destroy
  <2>2. /\ pc'["run"] = pc["run"]
        /\ pc'["main"] \in {"send", "sent"} <=> pc["main"] \in {"send", "sent"}
        /\ Before' <=> Before
    BY <1>4, <2>1 DEF MainPlaces, Before
  <2>3. Calm
    BY <1>2, <1>3, <2>2, TwoThreads DEF Calm, HasMsg
  <2>4. QED
    BY <2>3, CalmKeeps
<1>8. QED
  BY <1>5, <1>6, <1>7

\* Every step but one of a race or an exception keeps SliceInv.
LEMMA SliceStep ==
    ASSUME InTimeOrder, SenderInv, SenderInv', [Next]_vars, OneSender, OneSender',
           ~cut', SliceInv, FlagInv
    PROVE  SliceInv'
<1>1. CASE Step(RunThread) \/ Step(MainThread)
  <2>1. ~cut /\ \A t : ~SendThrows(t)
    BY HistoryKept DEF SendThrows
  <2>2. QED
    BY <1>1, <2>1, LogCalm, CalmKeeps, SendKeepsSlices, ClearKeepsSlices, RunKeepsSlices,
       MainKeepsSlices, TwoThreads DEF Step, RunThread, MainThread
<1>2. CASE Step(Logger) \/ Step(Corrupted) \/ Ended \/ UNCHANGED vars
  <2>1. UNCHANGED <<pc, fed, tradeQ, msg, currentTime, aggMap, published>>
    BY <1>2 DEF Step, Logger, Corrupted, Ended, vars, senderVars
  <2>2. Calm
    BY <2>1, LastKept DEF Calm, HasMsg, Before
  <2>3. QED
    BY <2>2, CalmKeeps
<1>3. QED
  BY <1>1, <1>2 DEF Next

\* A message sums trades of one symbol and of the time printed in it, and all of
\* them when run() has sent it, unless stop() and run() were in the map at once or
\* an exception of the socket left SendMQ(): for every file in the order of time.
THEOREM WholeSlicesCorrect ==
    ASSUME InTimeOrder
    PROVE  Spec => []WholeSlices
<1>1. Init => SenderInv /\ SlicesInv
  <2> SUFFICES ASSUME Init PROVE FlagInv /\ SliceInv
    BY SenderInit DEF SlicesInv
  <2>1. /\ aggMap = <<>> /\ published = <<>> /\ fed = 0 /\ tradeQ = <<>> /\ msg = 0
        /\ pc["run"] = "none" /\ pc["main"] = "connect" /\ currentTime = Now
    BY DEF Init
  <2>2. Last = 0
    <3>1. fed = 0 /\ Len(tradeQ) = 0 /\ msg = 0
      BY <2>1
    <3>2. 0 - 0 = 0
      OBVIOUS
    <3>3. Dequeued = 0
      BY <3>1, <3>2 DEF Dequeued
    <3>4. QED
      BY <3>1, <3>3 DEF Last
  <2>3. Len(published) = 0 /\ DOMAIN aggMap = {}
    BY <2>1
  <2>4. SumsInv /\ EmptyInv /\ Whole /\ FullInv
    BY <2>2, <2>3 DEF SumsInv, EmptyInv, Whole, FullInv
  <2>5. TimeInv
    BY <2>1, <2>2 DEF TimeInv
  <2>6. FlagInv
    BY <2>1 DEF FlagInv, Stopped
  <2>7. QED
    BY <2>4, <2>5, <2>6 DEF SliceInv
<1>2. SenderInv /\ SlicesInv /\ [Next]_vars => SenderInv' /\ SlicesInv'
  <2> SUFFICES ASSUME SenderInv, SlicesInv, [Next]_vars PROVE SlicesInv'
    BY SenderStep
  <2>1. FlagInv' /\ SenderInv' /\ FlagInv
    BY FlagStep, SenderStep DEF SlicesInv
  <2>2. ASSUME ~raced', ~cut' PROVE SliceInv'
    <3>1. ~raced /\ ~cut /\ SliceInv
      BY <2>2, HistoryKept DEF SlicesInv
    <3>2. OneSender
      BY <3>1, OneSenderHolds DEF SenderInv
    <3>3. (RacedInv /\ ~raced => OneSender)'
      BY OneSenderHolds, PTL
    <3>4. OneSender'
      BY <2>1, <2>2, <3>3 DEF SenderInv
    <3>5. QED
      BY <2>1, <2>2, <3>1, <3>2, <3>4, SliceStep
  <2>3. QED
    BY <2>1, <2>2 DEF SlicesInv
<1>3. SlicesInv => WholeSlices
  BY DEF SlicesInv, SliceInv, Whole, WholeMessage, Slice, WholeSlices
<1>4. QED
  BY <1>1, <1>2, <1>3, PTL DEF Spec

=============================================================================
