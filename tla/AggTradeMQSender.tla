--------------------------- MODULE AggTradeMQSender ---------------------------
(***************************************************************************)
(* AggregatedTradeMQSender of AggTradeMQSender.hpp, with its logger, in the *)
(* program of test/TestAggTradeMQSender.cpp: the main thread fills the      *)
(* queue and calls stop(), the thread "run" adds the trades up per symbol   *)
(* and sends one message per symbol when the time of the trades moves on.   *)
(* A sum is the set of the trades in it.                                    *)
(***************************************************************************)
EXTENDS AsyncLogger

CONSTANTS
    NumTrades,        \* trades in the file
    TimeOf, SymbolOf, \* of each trade: timestamp / 1000, and the symbol
    QueueCapacity     \* Const::queueCapacity, of the queue of trades

Trades  == 1 .. NumTrades
Symbols == {SymbolOf[t] : t \in Trades}
Now     == 0          \* the clock when the sender is built, no trade's time

ASSUME NumTradesAssumption == NumTrades \in Nat
ASSUME ThreadsAssumption == Threads = {"main", "run"}
ASSUME TimeAssumption    == \A t \in Trades : TimeOf[t] \in Nat \ {Now}

VARIABLES
    pc,           \* the two threads
    alive,        \* FALSE when the process was terminated
    tradeQ, fed,  \* recvQueue_, and the trades enqueued so far
    runFlag,
    aggMap,       \* aggMap_
    currentTime,
    msg,          \* the trade that run() holds
    todo,         \* per thread in SendMQ(), the symbols its loop has not reached
    published,    \* what went out on the socket
    raced,        \* history: stop() and run() were in aggMap_ at once
    cut           \* history: an exception left SendMQ()

senderVars == <<aggMap, currentTime, msg, todo, published>>
vars == <<pc, alive, tradeQ, fed, runFlag, senderVars, raced, cut, logVars>>

Init ==
    /\ LoggerInit
    /\ pc = [main |-> "connect", run |-> "none"]
    /\ alive = TRUE
    /\ tradeQ = <<>> /\ fed = 0
    /\ runFlag = TRUE
    /\ aggMap = <<>>
    /\ currentTime = Now
    /\ msg = 0
    /\ todo = [t \in Threads |-> {}]
    /\ published = <<>>
    /\ raced = FALSE /\ cut = FALSE

Goto(t, place) == pc' = [pc EXCEPT ![t] = place]

-----------------------------------------------------------------------------
(***************************************************************************)
(* Calls of logger_.log.                                                    *)
(***************************************************************************)
\* What follows a call of log() that returns.
AfterLog(t) ==
    CASE pc[t] = "connect" -> "spawn"
      [] pc[t] = "start"   -> "loop"
      [] pc[t] = "sent"    -> "send"
      [] pc[t] = "stopLog" -> "stopFlag"
      [] pc[t] = "end"     -> "destroy"

Logging(t) == pc[t] \in {"connect", "start", "sent", "stopLog", "end"}

Log(t) ==
    /\ Logging(t)
    /\ \/ LogAllocate(t) /\ UNCHANGED pc
       \/ LogEnqueue(t) /\ Goto(t, AfterLog(t))
    /\ UNCHANGED <<alive, tradeQ, fed, runFlag, senderVars, cut>>

\* The pool of the logger is exhausted, and the process ends: nothing is thrown
\* that the handler of run() could catch.
LogDies(t) ==
    /\ Logging(t)
    /\ LogExhausted(t)
    /\ alive' = FALSE
    /\ UNCHANGED <<pc, tradeQ, fed, runFlag, senderVars, cut>>

-----------------------------------------------------------------------------
(***************************************************************************)
(* SendMQ(), which both threads call.                                       *)
(***************************************************************************)
\* Entry: the loop goes over the symbols that are in the map.
EnterSendMQ(t) ==
    /\ todo' = [todo EXCEPT ![t] = DOMAIN aggMap]
    /\ Goto(t, "send")

\* One round of the loop: a message, and the log() of it.  A symbol that the other
\* thread has cleared under the loop is skipped.
SendOne(t) ==
    /\ pc[t] = "send"
    /\ \E s \in todo[t] :
         /\ todo' = [todo EXCEPT ![t] = @ \ {s}]
         /\ IF s \in DOMAIN aggMap
            THEN /\ published' = Append(published,
                       [symbol |-> s, time |-> currentTime, trades |-> aggMap[s], by |-> t])
                 /\ Goto(t, "sent")
            ELSE UNCHANGED <<published, pc>>
    /\ UNCHANGED <<alive, tradeQ, fed, runFlag, aggMap, currentTime, msg, cut, logVars>>

\* publisher_->send() (or the message_t in front of it) throws zmq::error_t in a
\* round of the loop.  run() catches it and ends, with the map as it is.  Out of
\* stop() it passes the destructor of a thread that can still be joined on its
\* way to the handler of main(), which is std::terminate.
SendThrows(t) ==
    /\ pc[t] = "send"
    /\ todo[t] \intersect DOMAIN aggMap # {}
    /\ cut' = TRUE
    /\ IF t = "run" THEN Goto(t, "done") /\ UNCHANGED alive
       ELSE alive' = FALSE /\ UNCHANGED pc
    /\ UNCHANGED <<tradeQ, fed, runFlag, senderVars, logVars>>

\* Mutant: the map is not cleared.
SendNoClear(t) ==
    /\ pc[t] = "send"
    /\ todo[t] = {}
    /\ currentTime' = IF t = "run" THEN TimeOf[msg] ELSE currentTime
    /\ Goto(t, IF t = "run" THEN "aggregate" ELSE "join")
    /\ UNCHANGED <<alive, tradeQ, fed, runFlag, aggMap, msg, todo, published, cut, logVars>>

\* aggMap_.clear() and the return: run() sets currentTime_, stop() is through.
SendClear(t) ==
    /\ pc[t] = "send"
    /\ todo[t] = {}
    /\ aggMap' = <<>>
    /\ currentTime' = IF t = "run" THEN TimeOf[msg] ELSE currentTime
    /\ Goto(t, IF t = "run" THEN "aggregate" ELSE "join")
    /\ UNCHANGED <<alive, tradeQ, fed, runFlag, msg, todo, published, cut, logVars>>

-----------------------------------------------------------------------------
(***************************************************************************)
(* run()                                                                    *)
(***************************************************************************)
\* Mutant: dequeue() waits for a message, as that of LockedQueue does.
TakeTradeBlocking ==
    /\ pc.run = "loop"
    /\ tradeQ # <<>>
    /\ IF runFlag THEN msg' = Head(tradeQ) /\ tradeQ' = Tail(tradeQ) /\ Goto("run", "time")
       ELSE Goto("run", "done") /\ UNCHANGED <<msg, tradeQ>>
    /\ UNCHANGED <<alive, fed, runFlag, aggMap, currentTime, todo, published, cut, logVars>>

\* while (runFlag_.load(...)) msg = recvQueue_.dequeue(); an empty queue gives null
\* and yields.  What is still queued when the flag has fallen stays there.
TakeTrade ==
    /\ pc.run = "loop"
    /\ IF ~runFlag THEN Goto("run", "done") /\ UNCHANGED <<msg, tradeQ>>
       ELSE /\ tradeQ # <<>>
            /\ msg' = Head(tradeQ) /\ tradeQ' = Tail(tradeQ)
            /\ Goto("run", "time")
    /\ UNCHANGED <<alive, fed, runFlag, aggMap, currentTime, todo, published, cut, logVars>>

\* Mutant: a slice ends one unit of time late.
CompareTimeLate ==
    /\ pc.run = "time"
    /\ IF TimeOf[msg] > currentTime + 1 THEN EnterSendMQ("run")
       ELSE Goto("run", "aggregate") /\ UNCHANGED todo
    /\ UNCHANGED <<alive, tradeQ, fed, runFlag, aggMap, currentTime, msg, published, cut, logVars>>

\* if (msgTime != currentTime_)
CompareTime ==
    /\ pc.run = "time"
    /\ IF TimeOf[msg] # currentTime THEN EnterSendMQ("run")
       ELSE Goto("run", "aggregate") /\ UNCHANGED todo
    /\ UNCHANGED <<alive, tradeQ, fed, runFlag, aggMap, currentTime, msg, published, cut, logVars>>

\* AggregateTrade(msg): aggMap_[symbol] makes the entry when there is none.
AggregateTrade ==
    /\ pc.run = "aggregate"
    /\ LET s == SymbolOf[msg]
           val == IF s \in DOMAIN aggMap THEN aggMap[s] ELSE {}
       IN  aggMap' = [x \in DOMAIN aggMap \union {s} |->
                        IF x = s THEN val \union {msg} ELSE aggMap[x]]
    /\ msg' = 0
    /\ Goto("run", "loop")
    /\ UNCHANGED <<alive, tradeQ, fed, runFlag, currentTime, todo, published, cut, logVars>>

RunThread ==
    \/ Log("run") \/ LogDies("run")
    \/ TakeTrade \/ CompareTime \/ AggregateTrade
    \/ SendOne("run") \/ SendThrows("run") \/ SendClear("run")

-----------------------------------------------------------------------------
(***************************************************************************)
(* The main thread, stop() included.                                        *)
(***************************************************************************)
MainOnly == UNCHANGED <<senderVars, cut>>

Spawn ==
    /\ pc.main = "spawn"
    /\ pc' = [main |-> "feed", run |-> "start"]
    /\ UNCHANGED <<alive, tradeQ, fed, runFlag, logVars>> /\ MainOnly

\* q.enqueue for each trade; false is thrown as a string that nobody catches.
Feed ==
    /\ pc.main = "feed"
    /\ \/ /\ fed < NumTrades /\ Len(tradeQ) < QueueCapacity
          /\ fed' = fed + 1
          /\ tradeQ' = Append(tradeQ, fed')
          /\ UNCHANGED <<pc, alive>>
       \/ /\ fed < NumTrades /\ Len(tradeQ) >= QueueCapacity
          /\ alive' = FALSE
          /\ UNCHANGED <<pc, fed, tradeQ>>
       \/ /\ fed = NumTrades
          /\ Goto("main", "stopLog")
          /\ UNCHANGED <<alive, fed, tradeQ>>
    /\ UNCHANGED <<runFlag, logVars>> /\ MainOnly

StopFlag ==
    /\ pc.main = "stopFlag"
    /\ runFlag' = FALSE
    /\ Goto("main", "size")
    /\ UNCHANGED <<alive, tradeQ, fed, logVars>> /\ MainOnly

\* if (aggMap_.size() > 0) SendMQ(), whatever run() is doing.
StopSize ==
    /\ pc.main = "size"
    /\ IF aggMap # <<>> THEN EnterSendMQ("main")
       ELSE Goto("main", "join") /\ UNCHANGED todo
    /\ UNCHANGED <<alive, tradeQ, fed, runFlag, aggMap, currentTime, msg, published, cut, logVars>>

Join ==
    /\ pc.main = "join" /\ pc.run = "done"
    /\ Goto("main", "end")
    /\ UNCHANGED <<alive, tradeQ, fed, runFlag, logVars>> /\ MainOnly

\* main() returns: the destructor of the logger.
Destroy ==
    /\ \/ pc.main = "destroy" /\ LoggerStop /\ Goto("main", "joinLogger")
       \/ pc.main = "joinLogger" /\ LoggerJoined /\ Goto("main", "done") /\ UNCHANGED logVars
    /\ UNCHANGED <<alive, tradeQ, fed, runFlag>> /\ MainOnly

MainThread ==
    \/ Log("main") \/ LogDies("main")
    \/ Spawn \/ Feed \/ StopFlag \/ StopSize
    \/ SendOne("main") \/ SendThrows("main") \/ SendClear("main")
    \/ Join \/ Destroy

Logger == LoggerThread /\ UNCHANGED <<pc, alive, tradeQ, fed, runFlag, senderVars, cut>>

\* Both threads in aggMap_, at least one of them to change it: the behaviour of
\* the program is undefined.  It may die, or go on with what the steps leave.
Racing == pc.main \in {"send", "sent"} /\ pc.run \in {"send", "sent", "aggregate"}

Corrupted ==
    /\ Racing
    /\ alive' = FALSE
    /\ UNCHANGED <<pc, tradeQ, fed, runFlag, senderVars, cut, logVars>>

Ended == (~alive \/ pc.main = "done") /\ UNCHANGED vars

Step(A) == alive /\ A /\ raced' = (raced \/ Racing')

Next ==
    \/ Step(RunThread)
    \/ Step(MainThread)
    \/ Step(Logger)
    \/ Step(Corrupted)
    \/ Ended

Spec == Init /\ [][Next]_vars

\* Both threads and the logger thread are scheduled by the operating system.
FairSpec ==
    /\ Spec
    /\ WF_vars(Step(RunThread)) /\ WF_vars(Step(MainThread)) /\ WF_vars(Step(Logger))

-----------------------------------------------------------------------------
InSendMQ == {t \in Threads : pc[t] \in {"send", "sent"}}

\* The symbols whose sums are still to be sent: all in the map, or, inside
\* SendMQ(), the ones its loop has not reached.
Unsent == IF InSendMQ = {} THEN DOMAIN aggMap ELSE UNION {todo[t] : t \in InSendMQ}

\* In how many places the trade is: queued, held by run(), in an unsent sum, sent.
Places(t) ==
    Cardinality({i \in 1 .. Len(tradeQ) : tradeQ[i] = t})
    + Cardinality({r \in {"run"} : msg = t})
    + Cardinality({s \in Unsent \intersect DOMAIN aggMap : t \in aggMap[s]})
    + Cardinality({i \in 1 .. Len(published) : t \in published[i].trades})

\* AggTradeMQSender.hpp:40-87: every trade handed over is queued, with run(), in a
\* sum to be sent, or in one message, and in one of these only, unless stop() and
\* run() were in the map at once.  When an exception has left SendMQ() with the map
\* as it was, run() has ended with the trade it held and stop() sends the sums
\* again: still every trade has a place, and none is in more than two messages.
OnePlace ==
    raced \/ \A t \in 1 .. fed : Places(t) = 1 \/ (cut /\ Places(t) = 2)

\* AggTradeMQSender.hpp:51-53, 66-80: a message sums trades of one symbol and of the
\* time printed in it, and all of them when run() has sent it.  (The file is in
\* the order of time.)
WholeSlices ==
    raced \/ cut \/ \A i \in 1 .. Len(published) :
        LET m == published[i]
            slice == {t \in Trades : SymbolOf[t] = m.symbol /\ TimeOf[t] = m.time}
        IN  /\ m.trades \subseteq slice /\ m.trades # {}
            /\ m.by = "run" => m.trades = slice

\* AggTradeMQSender.hpp:33-39: once stop() is called the threads end, unless the
\* process is terminated before.
StopEnds == pc.main = "stopLog" ~> (pc.main = "done" \/ ~alive)

=============================================================================
